---------------------------- MODULE LedgerProofs ----------------------------
(***************************************************************************)
(* What the operations of the ledger do, for every block and every list of *)
(* transactions.                                                           *)
(*                                                                         *)
(* The supply: a payment moves coins between accounts and fees, a block    *)
(* creates exactly the reward of its height, and the rewards of all        *)
(* heights together fit the integer width, so that no sum ever wraps.      *)
(*                                                                         *)
(* The nonces: every payment of a block raises its sender's nonce by one,  *)
(* so along a branch they number the sender's payments.                    *)
(*                                                                         *)
(* The loop over a mempool: what it keeps applies as a whole.              *)
(***************************************************************************)
EXTENDS BlockTreeProofs, FoldTheorems

(***************************************************************************)
(* The supply.                                                             *)
(***************************************************************************)
Balances(s) == [a \in Address |-> s[a].balance]

\* The supply is the sum of the balances.
LEMMA SupplySums ==
    ASSUME NEW s
    PROVE  \E g : SumsUp(g, Balances(s), Address) /\ Supply(s) = g[Address]
<1> DEFINE Rec(g) == [t \in SUBSET Address |->
                        IF t = {} THEN 0 ELSE s[Pick(t)].balance + g[t \ {Pick(t)}]]
           iter == CHOOSE g : g = Rec(g)
<1>1. \A g : SumsUp(g, Balances(s), Address) <=> g = Rec(g)
  <2>1. \A t \in SUBSET Address : t # {} => Pick(t) \in Address
    BY DEF Pick
  <2>2. \A t \in SUBSET Address : t # {} => Balances(s)[Pick(t)] = s[Pick(t)].balance
    BY <2>1 DEF Balances
  <2> QED
    BY <2>2 DEF SumsUp
<1>2. IsFiniteSet(Address)
  BY LedgerAssumption
<1>3. \E g : g = Rec(g)
  BY <1>1, <1>2, SumExists
<1>4. Supply(s) = iter[Address]
  BY DEF Supply, MapThenSumSet, MapThenFoldSet, Pick
<1> HIDE DEF Rec
<1>5. iter = Rec(iter)
  BY <1>3
<1> QED
  BY <1>1, <1>4, <1>5

\* A change of one balance changes the supply by as much, and no balance exceeds
\* the supply.
LEMMA SupplyChanges ==
    ASSUME NEW s \in Accounts, NEW u \in Accounts, NEW a \in Address,
           \A c \in Address \ {a} : u[c].balance = s[c].balance
    PROVE  /\ Supply(s) \in Nat /\ Supply(u) \in Nat
           /\ Supply(u) + s[a].balance = Supply(s) + u[a].balance
           /\ s[a].balance <= Supply(s)
<1>1. PICK g : SumsUp(g, Balances(s), Address) /\ Supply(s) = g[Address]
  BY SupplySums
<1>2. PICK h : SumsUp(h, Balances(u), Address) /\ Supply(u) = h[Address]
  BY SupplySums
<1>3. \A c \in Address : s[c].balance \in Nat /\ u[c].balance \in Nat
  BY DEF Accounts
<1> DEFINE f == Balances(s)
           k == Balances(u)
<1>4. /\ SumsUp(g, f, Address) /\ SumsUp(h, k, Address)
      /\ \A c \in Address : f[c] \in Nat /\ k[c] \in Nat
      /\ \A c \in Address \ {a} : f[c] = k[c]
  BY <1>1, <1>2, <1>3 DEF Balances
<1>5. f[a] = s[a].balance /\ k[a] = u[a].balance
  BY DEF Balances
<1>6. IsFiniteSet(Address)
  BY LedgerAssumption
<1> HIDE DEF f, k
<1>7. AddsUp(g, f, Address) /\ AddsUp(h, k, Address)
  BY <1>4, <1>6, SumAnyFirst
<1>8. /\ g[Address] = f[a] + g[Address \ {a}] /\ g[Address \ {a}] \in Nat
      /\ h[Address] = k[a] + h[Address \ {a}]
      /\ g[Address] \in Nat /\ h[Address] \in Nat
  BY <1>7 DEF AddsUp
<1>9. g[Address \ {a}] = h[Address \ {a}]
  BY <1>4, <1>6, SumsAgree
<1> QED
  BY <1>1, <1>2, <1>3, <1>5, <1>8, <1>9

\* It is a number.
LEMMA SupplyIsNat ==
    ASSUME NEW s \in Accounts
    PROVE  Supply(s) \in Nat
<1>1. PICK g : SumsUp(g, Balances(s), Address) /\ Supply(s) = g[Address]
  BY SupplySums
<1> DEFINE f == Balances(s)
<1>2. \A c \in Address : f[c] \in Nat
  BY DEF Balances, Accounts
<1>3. IsFiniteSet(Address) /\ SumsUp(g, f, Address)
  BY <1>1, LedgerAssumption
<1> HIDE DEF f
<1>4. \A T \in SUBSET Address : g[T] \in Nat
  BY <1>2, <1>3, SumIsNat
<1> QED
  BY <1>1, <1>4

\* A new ledger is empty.
LEMMA SupplyOfNew == NewState \in Accounts /\ Supply(NewState) = 0
<1>1. NewState \in Accounts
  BY DEF NewState, Accounts
<1>2. PICK g : SumsUp(g, Balances(NewState), Address) /\ Supply(NewState) = g[Address]
  BY SupplySums
<1> DEFINE G == {T \in SUBSET Address : g[T] = 0}
<1>3. ASSUME NEW T \in SUBSET Address, \A U \in SUBSET T : U # T => U \in G
      PROVE  T \in G
  <2>1. CASE T = {}
    BY <1>2, <2>1 DEF SumsUp
  <2>2. CASE T # {}
    <3>1. Pick(T) \in T
      BY <2>2 DEF Pick
    <3>2. g[T \ {Pick(T)}] = 0 /\ Balances(NewState)[Pick(T)] = 0
      BY <1>3, <3>1 DEF Balances, NewState
    <3>3. g[T] = Balances(NewState)[Pick(T)] + g[T \ {Pick(T)}]
      BY <1>2, <2>2 DEF SumsUp
    <3> QED
      BY <3>2, <3>3
  <2> QED
    BY <2>1, <2>2
<1>4. IsFiniteSet(Address)
  BY LedgerAssumption
<1> HIDE DEF G
<1>5. \A T \in SUBSET Address : T \in G
  BY <1>3, <1>4, SubsetInduction
<1> QED
  BY <1>1, <1>2, <1>5 DEF G

\* A credit adds to the supply.
LEMMA CreditAdds ==
    ASSUME NEW s \in Accounts, NEW a \in Address, NEW amt \in Nat
    PROVE  /\ Credit(s, a, amt) \in Accounts
           /\ Supply(s) \in Nat
           /\ Supply(Credit(s, a, amt)) = Supply(s) + amt
<1> DEFINE u == Credit(s, a, amt)
<1>1. u \in Accounts
  BY DEF Credit, Accounts
<1>2. /\ u[a].balance = s[a].balance + amt
      /\ \A c \in Address \ {a} : u[c].balance = s[c].balance
  BY DEF Credit, Accounts
<1>3. s[a].balance \in Nat
  BY DEF Accounts
<1> HIDE DEF u
<1>4. /\ Supply(s) \in Nat /\ Supply(u) \in Nat
      /\ Supply(u) + s[a].balance = Supply(s) + u[a].balance
  BY <1>1, <1>2, SupplyChanges
<1>5. Supply(u) = Supply(s) + amt
  BY <1>2, <1>3, <1>4
<1> QED
  BY <1>1, <1>4, <1>5 DEF u

\* Amounts of the integer width.
Uint64 == 0 .. MaxUint64

\* The sum is not less than a summand exactly when it did not wrap around.
LEMMA AddWraps ==
    ASSUME NEW x \in Uint64, NEW y \in Uint64
    PROVE  /\ Add64(x, y) \in Uint64
           /\ Add64(x, y) >= y => Add64(x, y) = x + y
           /\ Add64(x, y) >= x => Add64(x, y) = x + y
           /\ x + y <= MaxUint64 => Add64(x, y) = x + y
<1>1. MaxUint64 \in Nat
  BY LedgerAssumption
<1>2. CASE x + y <= MaxUint64
  <2>1. (x + y) % (MaxUint64 + 1) = x + y
    BY <1>1, <1>2 DEF Uint64
  <2> QED
    BY <1>1, <1>2, <2>1 DEF Uint64, Add64
<1>3. CASE x + y > MaxUint64
  <2> DEFINE m == MaxUint64 + 1
             z == x + y - m
  <2>1. z \in 0 .. m - 1 /\ m \in Nat \ {0} /\ x + y = z + m
    BY <1>1, <1>3 DEF Uint64
  <2>2. (x + y) % m = z
    <3> HIDE DEF m, z
    <3>1. (z + m) % m = z
      BY <2>1
    <3> QED
      BY <2>1, <3>1
  <2>3. z < x /\ z < y
    BY <1>1 DEF Uint64
  <2> QED
    BY <1>1, <1>3, <2>1, <2>2, <2>3 DEF Uint64, Add64
<1> QED
  BY <1>1, <1>2, <1>3 DEF Uint64

-----------------------------------------------------------------------------
(***************************************************************************)
(* Payments and blocks.                                                    *)
(***************************************************************************)
\* Amounts have the integer width, and times are numbers.
FieldsFit(t) == t.amount \in Uint64 /\ t.fee \in Uint64 /\ t.time \in Int

\* A payment takes what it pays and its fee from its sender, and gives what it
\* pays to its receiver.
LEMMA PaymentMoves ==
    ASSUME NEW s \in Accounts, NEW t, FieldsFit(t), Verify(t), ApplyTx(s, t) # Invalid
    PROVE  /\ ApplyTx(s, t) \in Accounts
           /\ Supply(s) \in Nat
           /\ Supply(ApplyTx(s, t)) + t.fee = Supply(s)
<1> DEFINE spend == Add64(t.amount, t.fee)
           d == [s EXCEPT ![t.from] = [balance |-> s[t.from].balance - spend,
                                       nonce   |-> s[t.from].nonce + 1]]
<1>1. /\ ~IsCoinbase(t) /\ spend >= t.amount /\ s[t.from].balance >= spend
      /\ ApplyTx(s, t) = Credit(d, t.to, t.amount)
  BY DEF ApplyTx
<1>2. t.from \in Address /\ t.to \in Address
  BY <1>1 DEF Verify
<1>3. spend = t.amount + t.fee /\ spend \in Nat /\ t.amount \in Nat /\ t.fee \in Nat
  <2>1. t.amount \in Uint64 /\ t.fee \in Uint64
    BY DEF FieldsFit
  <2>2. spend \in Uint64 /\ spend = t.amount + t.fee
    BY <1>1, <2>1, AddWraps
  <2> HIDE DEF spend
  <2> QED
    BY <2>1, <2>2, LedgerAssumption DEF Uint64
<1> HIDE DEF spend
<1>4. s[t.from].balance \in Nat /\ s[t.from].nonce \in Nat
  BY <1>2 DEF Accounts
<1>5. d \in Accounts
  BY <1>1, <1>2, <1>3, <1>4 DEF Accounts
<1>6. /\ d[t.from].balance = s[t.from].balance - spend
      /\ \A c \in Address \ {t.from} : d[c].balance = s[c].balance
  BY <1>2 DEF Accounts
<1> HIDE DEF d
<1>7. /\ Supply(s) \in Nat /\ Supply(d) \in Nat
      /\ Supply(d) + s[t.from].balance = Supply(s) + d[t.from].balance
  BY <1>2, <1>5, <1>6, SupplyChanges
<1>8. /\ Credit(d, t.to, t.amount) \in Accounts
      /\ Supply(Credit(d, t.to, t.amount)) = Supply(d) + t.amount
  BY <1>2, <1>3, <1>5, CreditAdds
<1> QED
  BY <1>1, <1>3, <1>4, <1>6, <1>7, <1>8

\* The accumulators of the loop over the payments of a block.
Loop == [state : Accounts \cup {Invalid}, fees : Uint64]

\* The payments of a block neither create coins nor lose any: what the accounts
\* no longer have is in the fees.
Conserves(acc, s) ==
    acc.state # Invalid => Supply(acc.state) + acc.fees = Supply(s)

\* One payment of a block.
LEMMA LoopStep ==
    ASSUME NEW acc \in Loop, NEW t, FieldsFit(t)
    PROVE  /\ ApplyVerified(acc, t) \in Loop
           /\ \A s \in Accounts : Conserves(acc, s) => Conserves(ApplyVerified(acc, t), s)
<1> DEFINE u == ApplyTx(acc.state, t)
           fees == Add64(acc.fees, t.fee)
<1>1. CASE acc.state # Invalid /\ Verify(t) /\ u # Invalid /\ fees >= t.fee
  <2>1. acc.state \in Accounts /\ acc.fees \in Uint64
    BY <1>1 DEF Loop
  <2>2. u \in Accounts /\ Supply(acc.state) \in Nat /\ Supply(u) + t.fee = Supply(acc.state)
    BY <1>1, <2>1, PaymentMoves
  <2>3. fees \in Uint64 /\ fees = acc.fees + t.fee
    BY <1>1, <2>1, AddWraps DEF FieldsFit
  <2>4. ApplyVerified(acc, t) = [state |-> u, fees |-> fees]
    BY <1>1 DEF ApplyVerified
  <2>5. Supply(u) \in Nat
    BY <2>2, SupplyIsNat
  <2> HIDE DEF u, fees
  <2>6. ApplyVerified(acc, t) \in Loop
    BY <2>2, <2>3, <2>4 DEF Loop
  <2>7. acc.fees \in Nat /\ t.fee \in Nat
    BY <2>1, LedgerAssumption DEF FieldsFit, Uint64
  <2>8. ASSUME NEW s \in Accounts, Conserves(acc, s)
        PROVE  Conserves(ApplyVerified(acc, t), s)
    <3>1. Supply(acc.state) + acc.fees = Supply(s)
      BY <1>1, <2>8 DEF Conserves
    <3>2. Supply(u) + fees = Supply(s)
      BY <2>2, <2>3, <2>5, <2>7, <3>1
    <3> QED
      BY <2>4, <3>2 DEF Conserves
  <2> QED
    BY <2>6, <2>8
<1>2. CASE ~(acc.state # Invalid /\ Verify(t) /\ u # Invalid /\ fees >= t.fee)
  <2>1. ApplyVerified(acc, t) = [state |-> Invalid, fees |-> 0]
    BY <1>2 DEF ApplyVerified
  <2> QED
    BY <2>1, LedgerAssumption DEF Loop, Conserves, Uint64
<1> QED
  BY <1>1, <1>2

\* The accumulators after 0, 1, 2 ... payments of txs.
LoopRuns(run, s, txs) ==
    /\ run \in [0 .. Len(txs) -> Loop]
    /\ run[0] = [state |-> s, fees |-> 0]
    /\ \A n \in 1 .. Len(txs) : run[n] = ApplyVerified(run[n - 1], txs[n])
    /\ FoldLeft(ApplyVerified, [state |-> s, fees |-> 0], txs) = run[Len(txs)]

\* The loop over a list of payments.
LEMMA LoopExists ==
    ASSUME NEW s \in Accounts, NEW T, NEW txs \in Seq(T), \A t \in T : FieldsFit(t)
    PROVE  \E run : LoopRuns(run, s, txs)
<1> DEFINE N == Len(txs)
           base == [state |-> s, fees |-> 0]
           step == [x \in Loop \X (1 .. N) |-> ApplyVerified(x[1], txs[x[2]])]
           Rec(g) == [p \in SUBSET (1 .. N) |->
                         IF p = {} THEN base
                         ELSE ApplyVerified(g[p \ {Max(p)}], txs[Max(p)])]
           iter == CHOOSE g : g = Rec(g)
<1>1. N \in Nat /\ DOMAIN txs = 1 .. N /\ \A i \in 1 .. N : FieldsFit(txs[i])
  OBVIOUS
<1>2. base \in Loop
  BY LedgerAssumption DEF Loop, Uint64
<1>3. step \in [Loop \X (1 .. N) -> Loop]
  BY <1>1, LoopStep
<1>4. FoldLeft(ApplyVerified, base, txs) = iter[1 .. N]
  BY <1>1 DEF FoldLeft, MapThenFoldSet
<1>5. \A g : FoldsUp(g, step, base, N) => g = Rec(g)
  <2>1. SUFFICES ASSUME NEW g, FoldsUp(g, step, base, N) PROVE g = Rec(g)
    OBVIOUS
  <2>2. \A p \in SUBSET (1 .. N) : g[p] \in Loop
    <3> HIDE DEF base, step, N
    <3> QED BY <1>1, <1>2, <1>3, <2>1, FoldPrefixes
  <2>3. \A p \in SUBSET (1 .. N) : p # {} => Max(p) \in 1 .. N /\ p \ {Max(p)} \in SUBSET (1 .. N)
    <3> HIDE DEF N
    <3> QED BY <1>1, MaxSmaller
  <2>4. \A p \in SUBSET (1 .. N) : p # {} =>
            step[<<g[p \ {Max(p)}], Max(p)>>] = ApplyVerified(g[p \ {Max(p)}], txs[Max(p)])
    BY <2>2, <2>3
  <2> HIDE DEF base, step, N
  <2> QED
    BY <2>1, <2>4 DEF FoldsUp
<1>6. \E g : g = Rec(g)
  <2> HIDE DEF base, step, N, Rec
  <2> QED BY <1>1, <1>2, <1>3, <1>5, FoldExists
<1> HIDE DEF Rec
<1>7. iter = Rec(iter)
  BY <1>6
<1> HIDE DEF iter
<1> DEFINE run == [n \in 0 .. N |-> iter[1 .. n]]
           G == {n \in 0 .. N : iter[1 .. n] \in Loop}
<1>8. 1 .. 0 = {} /\ iter[{}] = base
  BY <1>1, <1>7 DEF Rec
<1>9. ASSUME NEW n \in 1 .. N
      PROVE  n - 1 \in 0 .. N /\ iter[1 .. n] = ApplyVerified(iter[1 .. n - 1], txs[n])
  <2>1. n \in Nat \ {0} /\ n - 1 \in 0 .. N
    BY <1>1
  <2>2. Max(1 .. n) = n /\ (1 .. n) \ {n} = 1 .. n - 1
    BY <2>1, MaxOfPrefix
  <2>3. 1 .. n \in SUBSET (1 .. N) /\ 1 .. n # {}
    <3>1. n \in 1 .. n /\ \A i \in 1 .. n : i \in 1 .. N
      BY <1>1
    <3> QED
      BY <3>1
  <2> HIDE DEF N
  <2> QED
    BY <1>7, <2>1, <2>2, <2>3 DEF Rec
<1>10. ASSUME NEW n \in 0 .. N - 1, n \in G PROVE n + 1 \in G
  <2>1. n + 1 \in 1 .. N /\ (n + 1) - 1 = n /\ n + 1 \in 0 .. N
    BY <1>1
  <2>2. iter[1 .. n + 1] = ApplyVerified(iter[1 .. n], txs[n + 1]) /\ FieldsFit(txs[n + 1])
    BY <1>1, <1>9, <2>1
  <2>3. iter[1 .. n] \in Loop
    BY <1>10
  <2>4. iter[1 .. n + 1] \in Loop
    BY <2>2, <2>3, LoopStep
  <2> QED
    BY <2>1, <2>4
<1>11. \A n \in 0 .. N : iter[1 .. n] \in Loop
  <2>1. 0 \in G
    <3> HIDE DEF base, N
    <3> QED BY <1>1, <1>2, <1>8
  <2> HIDE DEF G, N
  <2>2. \A n \in 0 .. N : n \in G
    BY <1>1, <1>10, <2>1, CountingInduction
  <2> QED
    BY <2>2 DEF G
<1>12. run \in [0 .. N -> Loop] /\ run[0] = base /\ run[N] = iter[1 .. N]
  <2> HIDE DEF N, base
  <2> QED BY <1>1, <1>8, <1>11
<1>13. ASSUME NEW n \in 1 .. N PROVE run[n] = ApplyVerified(run[n - 1], txs[n])
  <2>1. n \in 0 .. N
    BY <1>1
  <2> HIDE DEF N
  <2> QED
    BY <1>9, <2>1
<1> HIDE DEF run
<1> QED
  BY <1>4, <1>12, <1>13 DEF LoopRuns

\* Over all payments of a block.
LEMMA LoopConserves ==
    ASSUME NEW s \in Accounts, NEW T, NEW txs \in Seq(T), \A t \in T : FieldsFit(t),
           NEW run, LoopRuns(run, s, txs)
    PROVE  \A n \in 0 .. Len(txs) : Conserves(run[n], s)
<1> DEFINE N == Len(txs)
           G == {n \in 0 .. N : Conserves(run[n], s)}
<1>1. N \in Nat /\ \A i \in 1 .. N : FieldsFit(txs[i])
  OBVIOUS
<1>2. 0 \in G
  <2>1. run[0].state = s /\ run[0].fees = 0
    BY DEF LoopRuns
  <2>2. Conserves(run[0], s)
    BY <2>1, SupplyIsNat DEF Conserves
  <2> HIDE DEF N
  <2> QED
    BY <1>1, <2>2
<1>3. ASSUME NEW n \in 0 .. N - 1, n \in G PROVE n + 1 \in G
  <2>1. n + 1 \in 1 .. N /\ (n + 1) - 1 = n /\ n + 1 \in 0 .. N /\ n \in 0 .. N
    BY <1>1
  <2>2. run[n + 1] = ApplyVerified(run[n], txs[n + 1]) /\ run[n] \in Loop
    BY <2>1 DEF LoopRuns
  <2>3. Conserves(run[n + 1], s)
    BY <1>1, <1>3, <2>1, <2>2, LoopStep
  <2> QED
    BY <2>1, <2>3
<1> HIDE DEF G, N
<1>4. \A n \in 0 .. N : n \in G
  BY <1>1, <1>2, <1>3, CountingInduction
<1> QED
  BY <1>4 DEF G, N

\* The record of a block as the ledger sees it.
BlockFits(b) ==
    /\ b.height \in Nat
    /\ b.txs \in Seq(Range(b.txs))
    /\ \A t \in Range(b.txs) : FieldsFit(t)

\* A block adds the reward of its height to the supply, as long as the supply
\* stays within the integer width.
LEMMA BlockIssues ==
    ASSUME NEW s \in Accounts, NEW b, BlockFits(b),
           RewardAt(b.height) \in Nat, Supply(s) + RewardAt(b.height) <= MaxUint64,
           ApplyBlock(s, b) # Invalid
    PROVE  /\ ApplyBlock(s, b) \in Accounts
           /\ Supply(ApplyBlock(s, b)) = Supply(s) + RewardAt(b.height)
<1> DEFINE cb == Head(b.txs)
           acc == FoldLeft(ApplyVerified, [state |-> s, fees |-> 0], Tail(b.txs))
           reward == RewardAt(b.height)
<1>1. /\ b.txs # << >> /\ IsCoinbase(cb) /\ acc.state # Invalid /\ Verify(cb)
      /\ CoinbasePays(b, acc.fees)
      /\ ApplyBlock(s, b) = Credit(acc.state, cb.to, cb.amount)
  BY DEF ApplyBlock
<1>2. acc \in Loop /\ Conserves(acc, s)
  <2> DEFINE T == Range(b.txs)
  <2>1. b.txs \in Seq(T) /\ \A t \in T : FieldsFit(t)
    BY DEF BlockFits
  <2> HIDE DEF T
  <2> DEFINE txs == Tail(b.txs)
  <2>2. txs \in Seq(T) /\ Len(txs) \in 0 .. Len(txs)
    BY <1>1, <2>1
  <2> HIDE DEF txs
  <2>3. PICK run : LoopRuns(run, s, txs)
    BY <2>1, <2>2, LoopExists
  <2>4. acc = run[Len(txs)]
    BY <2>3 DEF LoopRuns, txs
  <2>5. run[Len(txs)] \in Loop
    BY <2>2, <2>3 DEF LoopRuns
  <2>6. Conserves(run[Len(txs)], s)
    BY <2>1, <2>2, <2>3, LoopConserves
  <2> HIDE DEF acc
  <2> QED
    BY <2>4, <2>5, <2>6
<1>3. cb.amount = Add64(reward, acc.fees)
  BY <1>1 DEF CoinbasePays
<1> HIDE DEF acc, reward, cb
<1>4. /\ acc.state \in Accounts /\ acc.fees \in Uint64
      /\ Supply(acc.state) + acc.fees = Supply(s)
  BY <1>1, <1>2 DEF Loop, Conserves
<1>5. Supply(s) \in Nat /\ Supply(acc.state) \in Nat
  BY <1>4, SupplyIsNat
<1>6. MaxUint64 \in Nat /\ reward \in Nat /\ Supply(s) + reward <= MaxUint64
  BY LedgerAssumption DEF reward
<1>7. acc.fees \in Nat /\ reward \in Uint64 /\ reward + acc.fees <= MaxUint64
  BY <1>4, <1>5, <1>6 DEF Uint64
<1>8. cb.amount = reward + acc.fees /\ cb.amount \in Nat
  BY <1>3, <1>4, <1>6, <1>7, AddWraps
<1>9. cb.to \in Address
  BY <1>1 DEF Verify
<1>10. /\ Credit(acc.state, cb.to, cb.amount) \in Accounts
       /\ Supply(Credit(acc.state, cb.to, cb.amount)) = Supply(acc.state) + cb.amount
  BY <1>4, <1>8, <1>9, CreditAdds
<1>11. Supply(acc.state) + cb.amount = Supply(s) + reward
  BY <1>4, <1>5, <1>6, <1>7, <1>8
<1> QED
  BY <1>1, <1>10, <1>11 DEF reward

-----------------------------------------------------------------------------
(***************************************************************************)
(* The reward schedule.                                                    *)
(***************************************************************************)

\* The function exists: InitialReward can be halved 63 times.
LEMMA HalvedSteps ==
    /\ Halved \in [0 .. 63 -> Nat]
    /\ Halved[0] = InitialReward
    /\ \A k \in 1 .. 63 : Halved[k] = Halved[k - 1] \div 2
<1> DEFINE Rec(g) == [k \in 0 .. 63 |-> IF k = 0 THEN InitialReward ELSE g[k - 1] \div 2]
           Upto(n) == \E g \in [0 .. 63 -> Nat] : \A k \in 0 .. n : g[k] = Rec(g)[k]
           G == {n \in 0 .. 63 : Upto(n)}
<1>1. InitialReward \in Nat
  BY LedgerAssumption
<1>2. ASSUME NEW g \in [0 .. 63 -> Nat] PROVE Rec(g) \in [0 .. 63 -> Nat]
  <2>1. ASSUME NEW k \in 0 .. 63, k # 0 PROVE g[k - 1] \div 2 \in Nat
    <3>1. g[k - 1] \in Nat
      BY <2>1
    <3> QED
      BY <3>1
  <2> QED
    BY <1>1, <2>1
<1>3. 0 \in G
  <2> DEFINE z == [k \in 0 .. 63 |-> InitialReward]
  <2>1. z \in [0 .. 63 -> Nat] /\ \A k \in 0 .. 0 : z[k] = Rec(z)[k]
    BY <1>1
  <2> HIDE DEF z, Rec
  <2> QED
    BY <2>1
<1>4. ASSUME NEW n \in 0 .. 63 - 1, n \in G PROVE n + 1 \in G
  <2>1. PICK g \in [0 .. 63 -> Nat] : \A k \in 0 .. n : g[k] = Rec(g)[k]
    BY <1>4
  <2>2. ASSUME NEW k \in 0 .. n + 1 PROVE Rec(g)[k] = Rec(Rec(g))[k]
    <3>1. CASE k = 0
      BY <3>1
    <3>2. CASE k # 0
      <4>1. k \in 0 .. 63 /\ k - 1 \in 0 .. n /\ k - 1 \in 0 .. 63
        BY <3>2
      <4>2. g[k - 1] = Rec(g)[k - 1]
        BY <2>1, <4>1
      <4>3. Rec(g)[k] = g[k - 1] \div 2 /\ Rec(Rec(g))[k] = Rec(g)[k - 1] \div 2
        BY <3>2, <4>1
      <4> QED
        BY <4>2, <4>3
    <3> QED
      BY <3>1, <3>2
  <2>3. Rec(g) \in [0 .. 63 -> Nat]
    BY <1>2
  <2> HIDE DEF Rec
  <2>4. Upto(n + 1)
    BY <2>2, <2>3
  <2> QED
    BY <2>4
<1>5. 63 \in G
  <2> HIDE DEF G
  <2>1. 63 \in Nat /\ 63 \in 0 .. 63
    OBVIOUS
  <2>2. \A k \in 0 .. 63 : k \in G
    BY <1>3, <1>4, <2>1, CountingInduction
  <2> QED
    BY <2>2
<1>6. PICK g \in [0 .. 63 -> Nat] : \A k \in 0 .. 63 : g[k] = Rec(g)[k]
  BY <1>5
<1>7. g = Rec(g)
  BY <1>6
<1>8. Halved = CHOOSE f : f = Rec(f)
  BY DEF Halved
<1> HIDE DEF Rec
<1>9. Halved = Rec(Halved)
  BY <1>7, <1>8
<1>10. \A k \in 0 .. 63 : Halved[k] = IF k = 0 THEN InitialReward ELSE Halved[k - 1] \div 2
  BY <1>9 DEF Rec
<1> DEFINE H == {k \in 0 .. 63 : Halved[k] \in Nat}
<1>11. 0 \in H
  BY <1>1, <1>10
<1>12. ASSUME NEW k \in 0 .. 63 - 1, k \in H PROVE k + 1 \in H
  <2>1. k + 1 \in 0 .. 63 /\ k + 1 # 0 /\ (k + 1) - 1 = k
    OBVIOUS
  <2>2. Halved[k + 1] = Halved[k] \div 2
    BY <1>10, <2>1
  <2> QED
    BY <1>12, <2>1, <2>2
<1>13. \A k \in 0 .. 63 : k \in H
  <2> HIDE DEF H
  <2>1. 63 \in Nat
    OBVIOUS
  <2> QED
    BY <1>11, <1>12, <2>1, CountingInduction
<1>14. Halved \in [0 .. 63 -> Nat]
  <2>1. Halved = [k \in 0 .. 63 |-> Halved[k]]
    BY <1>9 DEF Rec
  <2> QED
    BY <1>13, <2>1
<1>15. Halved[0] = InitialReward
  BY <1>10
<1>16. ASSUME NEW k \in 1 .. 63 PROVE Halved[k] = Halved[k - 1] \div 2
  BY <1>10
<1> QED
  BY <1>14, <1>15, <1>16

\* The reward after q halvings.
Rho(q) == IF q >= 64 THEN 0 ELSE Halved[q]

\* Each halving leaves half of the reward or less.
LEMMA RhoHalves ==
    ASSUME NEW q \in Nat
    PROVE  Rho(q) \in Nat /\ Rho(q + 1) \in Nat /\ 2 * Rho(q + 1) <= Rho(q)
<1>1. CASE q + 1 < 64
  <2>1. q + 1 \in 1 .. 63 /\ q \in 0 .. 63 /\ (q + 1) - 1 = q /\ q + 1 \in 0 .. 63
    BY <1>1
  <2>2. Halved[q] \in Nat /\ Halved[q + 1] = Halved[q] \div 2 /\ Halved[q + 1] \in Nat
    BY <2>1, HalvedSteps
  <2>3. Rho(q) = Halved[q] /\ Rho(q + 1) = Halved[q + 1]
    BY <1>1 DEF Rho
  <2> QED
    BY <2>2, <2>3
<1>2. CASE q + 1 >= 64
  <2>1. Rho(q + 1) = 0
    BY <1>2 DEF Rho
  <2>2. Rho(q) \in Nat
    <3>1. CASE q >= 64
      BY <3>1 DEF Rho
    <3>2. CASE q < 64
      <4>1. q \in 0 .. 63 /\ Rho(q) = Halved[q]
        BY <3>2 DEF Rho
      <4> QED
        BY <4>1, HalvedSteps
    <3> QED
      BY <3>1, <3>2
  <2> QED
    BY <2>1, <2>2
<1> QED
  BY <1>1, <1>2

\* Dividing consecutive numbers.
LEMMA DivisionStep ==
    ASSUME NEW h \in Nat, NEW m \in Nat \ {0}
    PROVE  /\ h \div m \in Nat /\ h % m \in 0 .. m - 1
           /\ (h % m) + 1 < m => (h + 1) \div m = h \div m /\ (h + 1) % m = (h % m) + 1
           /\ (h % m) + 1 = m => (h + 1) \div m = (h \div m) + 1 /\ (h + 1) % m = 0
<1> DEFINE q == h \div m
           r == h % m
<1>1. q \in Int /\ r \in 0 .. m - 1 /\ h = m * q + r
  OBVIOUS
<1>2. q \in Nat
  OBVIOUS
<1>3. ASSUME r + 1 < m PROVE (h + 1) \div m = q /\ (h + 1) % m = r + 1
  BY <1>1, <1>2, <1>3
<1>4. ASSUME r + 1 = m PROVE (h + 1) \div m = q + 1 /\ (h + 1) % m = 0
  <2> DEFINE p == q + 1
  <2> HIDE DEF q, r
  <2>1. p \in Nat /\ h + 1 = m * q + m
    BY <1>1, <1>2, <1>4
  <2>2. m * p = m * q + m
    BY <1>2
  <2> HIDE DEF p
  <2>3. (m * p) \div m = p /\ (m * p) % m = 0
    BY <2>1
  <2> QED
    BY <2>1, <2>2, <2>3 DEF p
<1> QED
  BY <1>1, <1>2, <1>3, <1>4

\* The coins of the first h blocks.
Issued(h) == MapThenSumSet(RewardAt, 1 .. h)

Rewards(h) == [x \in 1 .. h |-> RewardAt(x)]

LEMMA RewardIs ==
    ASSUME NEW h \in Nat
    PROVE  RewardAt(h) = Rho(h \div HalvingInterval) /\ RewardAt(h) \in Nat
<1>1. h \div HalvingInterval \in Nat
  BY LedgerAssumption, DivisionStep
<1>2. RewardAt(h) = Rho(h \div HalvingInterval)
  BY DEF RewardAt, Rho
<1> QED
  BY <1>1, <1>2, RhoHalves

\* They are the sum of the rewards.
LEMMA IssuedSums ==
    ASSUME NEW h \in Nat
    PROVE  \E g : SumsUp(g, Rewards(h), 1 .. h) /\ Issued(h) = g[1 .. h]
<1> DEFINE S == 1 .. h
           Rec(g) == [t \in SUBSET S |->
                        IF t = {} THEN 0 ELSE RewardAt(Pick(t)) + g[t \ {Pick(t)}]]
           iter == CHOOSE g : g = Rec(g)
<1>1. \A g : SumsUp(g, Rewards(h), S) <=> g = Rec(g)
  <2>1. \A t \in SUBSET S : t # {} => Pick(t) \in S
    BY DEF Pick
  <2>2. \A t \in SUBSET S : t # {} => Rewards(h)[Pick(t)] = RewardAt(Pick(t))
    BY <2>1 DEF Rewards
  <2> HIDE DEF S
  <2> QED
    BY <2>2 DEF SumsUp
<1>2. IsFiniteSet(S)
  BY FS_Interval
<1>3. \E g : g = Rec(g)
  <2> HIDE DEF S, Rec
  <2> QED BY <1>1, <1>2, SumExists
<1>4. Issued(h) = iter[S]
  BY DEF Issued, MapThenSumSet, MapThenFoldSet, Pick
<1> HIDE DEF Rec
<1>5. iter = Rec(iter)
  BY <1>3
<1> QED
  BY <1>1, <1>4, <1>5

\* One block more.
LEMMA IssuedStep ==
    /\ Issued(0) = 0
    /\ \A h \in Nat : Issued(h) \in Nat /\ Issued(h + 1) = Issued(h) + RewardAt(h + 1)
<1>1. Issued(0) = 0
  <2>1. PICK g : SumsUp(g, Rewards(0), 1 .. 0) /\ Issued(0) = g[1 .. 0]
    BY IssuedSums
  <2>2. 1 .. 0 = {}
    OBVIOUS
  <2> QED
    BY <2>1, <2>2 DEF SumsUp
<1>2. ASSUME NEW h \in Nat
      PROVE  Issued(h) \in Nat /\ Issued(h + 1) = Issued(h) + RewardAt(h + 1)
  <2> DEFINE S == 1 .. h + 1
             R == 1 .. h
             f == Rewards(h + 1)
             k == Rewards(h)
  <2>1. h + 1 \in Nat /\ h + 1 \in S /\ S \ {h + 1} = R /\ R \in SUBSET S
    OBVIOUS
  <2>2. PICK g : SumsUp(g, f, S) /\ Issued(h + 1) = g[S]
    BY <2>1, IssuedSums
  <2>3. PICK e : SumsUp(e, k, R) /\ Issued(h) = e[R]
    BY IssuedSums
  <2>4. \A x \in S : f[x] = RewardAt(x) /\ f[x] \in Nat
    BY RewardIs DEF Rewards
  <2>5. \A x \in R : f[x] = k[x] /\ k[x] \in Nat
    BY RewardIs DEF Rewards
  <2>6. IsFiniteSet(S) /\ IsFiniteSet(R)
    BY <2>1, FS_Interval
  <2> HIDE DEF S, R, f, k
  <2>7. PICK d : SumsUp(d, f, R) /\ d[R] = g[R]
    BY <2>1, <2>2, SumRestricts
  <2>8. d[R] = e[R]
    BY <2>3, <2>5, <2>6, <2>7, SumsAgree
  <2>9. g[S] = f[h + 1] + g[S \ {h + 1}]
    <3>1. AddsUp(g, f, S)
      BY <2>2, <2>4, <2>6, SumAnyFirst
    <3> QED
      BY <2>1, <3>1 DEF AddsUp
  <2>10. e[R] \in Nat
    <3>1. \A T \in SUBSET R : e[T] \in Nat
      BY <2>3, <2>5, <2>6, SumIsNat
    <3> QED
      BY <3>1
  <2>11. f[h + 1] = RewardAt(h + 1) /\ f[h + 1] \in Nat
    BY <2>1, <2>4
  <2>12. g[S \ {h + 1}] = Issued(h)
    BY <2>1, <2>3, <2>7, <2>8
  <2>13. Issued(h + 1) = RewardAt(h + 1) + Issued(h) /\ Issued(h) \in Nat
    BY <2>2, <2>3, <2>9, <2>10, <2>11, <2>12
  <2>14. RewardAt(h + 1) \in Nat
    BY <2>11
  <2> QED
    BY <2>13, <2>14
<1> QED
  BY <1>1, <1>2

\* All coins ever issued fit the integer width.  During the q-th period, at most
\* r + 1 of its rewards are issued, and the periods before issued at most twice
\* what the reward has lost since the start.
LEMMA IssuanceFits ==
    ASSUME NEW n \in Nat
    PROVE  Issued(n) \in Nat /\ Issued(n) <= MaxUint64
<1> DEFINE m == HalvingInterval
           c == InitialReward
           Within(i, q, r) == i + 2 * (m * Rho(q)) <= 2 * (m * c) + (r + 1) * Rho(q)
           G == {h \in 0 .. n : Within(Issued(h), h \div m, h % m)}
<1>1. m \in Nat \ {0} /\ c \in Nat /\ MaxUint64 \in Nat
  BY LedgerAssumption
<1>2. m * c \in Nat /\ 2 * (m * c) <= MaxUint64
  <2>1. 2 * c * m = 2 * (m * c)
    BY <1>1
  <2> QED
    BY <1>1, <2>1, LedgerAssumption
<1>3. Rho(0) = c
  BY HalvedSteps DEF Rho
<1> HIDE DEF m, c
<1>4. 0 \in G
  <2>1. 0 \div m = 0 /\ 0 % m = 0
    BY <1>1
  <2>2. Within(0, 0, 0)
    BY <1>1, <1>2, <1>3
  <2> HIDE DEF Within
  <2> QED
    BY <2>1, <2>2, IssuedStep
<1>5. ASSUME NEW h \in 0 .. n - 1, h \in G PROVE h + 1 \in G
  <2> DEFINE q == h \div m
             r == h % m
             i == Issued(h)
  <2>1. h \in Nat /\ q \in Nat /\ r \in 0 .. m - 1 /\ i \in Nat
    <3>1. h \in Nat
      OBVIOUS
    <3>2. q \in Nat /\ r \in 0 .. m - 1
      BY <1>1, <3>1, DivisionStep
    <3> QED
      BY <3>1, <3>2, IssuedStep
  <2>2. Issued(h + 1) = i + Rho((h + 1) \div m)
    <3>1. h + 1 \in Nat /\ Issued(h + 1) = i + RewardAt(h + 1)
      BY <2>1, IssuedStep
    <3> QED
      BY <3>1, RewardIs DEF m
  <2>3. Rho(q) \in Nat /\ Rho(q + 1) \in Nat /\ 2 * Rho(q + 1) <= Rho(q)
    BY <2>1, RhoHalves
  <2>4. Within(i, q, r)
    BY <1>5
  <2>5. CASE r + 1 < m
    <3>1. (h + 1) \div m = q /\ (h + 1) % m = r + 1
      BY <1>1, <2>1, <2>5, DivisionStep
    <3> HIDE DEF i, q, r
    <3>2. Within(i + Rho(q), q, r + 1)
      <4> DEFINE x == Rho(q)
      <4>1. (r + 1 + 1) * x = (r + 1) * x + x
        BY <2>1, <2>3
      <4> QED
        BY <1>1, <1>2, <2>1, <2>3, <2>4, <4>1
    <3> HIDE DEF Within
    <3> QED
      BY <2>2, <3>1, <3>2
  <2>6. CASE r + 1 = m
    <3>1. (h + 1) \div m = q + 1 /\ (h + 1) % m = 0
      BY <1>1, <2>1, <2>6, DivisionStep
    <3> HIDE DEF i, q, r
    <3>2. Within(i + Rho(q + 1), q + 1, 0)
      <4> DEFINE x == Rho(q)
                 y == Rho(q + 1)
      <4>1. m * (2 * y) <= m * x
        BY <1>1, <2>3
      <4>2. m * (2 * y) = 2 * (m * y) /\ m * y \in Nat /\ m * x \in Nat
        BY <1>1, <2>3
      <4>3. i + 2 * (m * x) <= 2 * (m * c) + m * x
        BY <2>4, <2>6
      <4>4. i + 2 * (m * y) <= 2 * (m * c)
        BY <1>2, <2>1, <4>1, <4>2, <4>3
      <4> QED
        BY <1>2, <2>1, <2>3, <4>2, <4>4
    <3> HIDE DEF Within
    <3> QED
      BY <2>2, <3>1, <3>2
  <2>7. r + 1 < m \/ r + 1 = m
    <3> HIDE DEF r
    <3> QED BY <1>1, <2>1
  <2> QED
    BY <2>5, <2>6, <2>7
<1>6. n \in G
  <2> HIDE DEF G
  <2> QED BY <1>4, <1>5, CountingInduction
<1> DEFINE q == n \div m
           r == n % m
           i == Issued(n)
<1>7. q \in Nat /\ r \in 0 .. m - 1 /\ i \in Nat /\ Within(i, q, r)
  BY <1>1, <1>6, DivisionStep, IssuedStep
<1>8. Rho(q) \in Nat
  BY <1>7, RhoHalves
<1> HIDE DEF q, r
<1>9. i <= 2 * (m * c)
  <2> DEFINE x == Rho(q)
  <2>1. (r + 1) * x <= m * x /\ m * x \in Nat
    BY <1>1, <1>7, <1>8
  <2> HIDE DEF i
  <2> QED
    BY <1>2, <1>7, <1>8, <2>1
<1> QED
  BY <1>1, <1>2, <1>7, <1>9

-----------------------------------------------------------------------------
(***************************************************************************)
(* The supply of the node's ledger.                                        *)
(***************************************************************************)

\* The blocks of the table are what the lemmas above are about.
LEMMA TableFits ==
    ASSUME NEW b \in Hash
    PROVE  BlockFits(Block[b]) /\ Block[b].height = Height(b) /\ Height(b) \in Nat
BY BlockAssumption DEF BlockFits, FieldsFit, Uint64, Height

\* The replay of a branch has issued the rewards of its heights.
BranchesIssue ==
    \A b \in Known : Replay[b] # Invalid => Supply(Replay[b]) = Issued(Height(b))

\* A block on top of another issues its reward and nothing else.
LEMMA ChildIssues ==
    ASSUME NEW b \in Hash \ {Genesis}, Height(b) = Height(Prev(b)) + 1,
           Replay[b] # Invalid, Supply(Replay[Prev(b)]) = Issued(Height(Prev(b)))
    PROVE  Supply(Replay[b]) = Issued(Height(b))
<1> DEFINE p == Prev(b)
           s == Replay[p]
<1>1. p \in Hash /\ s # Invalid /\ s \in Accounts /\ Replay[b] = ApplyBlock(s, Block[b])
  BY BlockAssumption, ReplayAssumption
<1>2. BlockFits(Block[b]) /\ Block[b].height = Height(b) /\ Height(p) \in Nat
  BY <1>1, TableFits
<1>3. /\ Issued(Height(p)) \in Nat
      /\ Issued(Height(b)) = Issued(Height(p)) + RewardAt(Height(b))
  BY <1>2, IssuedStep
<1>4. Height(b) \in Nat /\ Issued(Height(b)) <= MaxUint64 /\ RewardAt(Height(b)) \in Nat
  BY TableFits, IssuanceFits, RewardIs
<1> HIDE DEF s
<1>5. Supply(ApplyBlock(s, Block[b])) = Supply(s) + RewardAt(Height(b))
  <2> DEFINE blk == Block[b]
  <2>1. /\ BlockFits(blk) /\ RewardAt(blk.height) \in Nat
        /\ Supply(s) + RewardAt(blk.height) <= MaxUint64
        /\ ApplyBlock(s, blk) # Invalid /\ blk.height = Height(b)
    BY <1>1, <1>2, <1>3, <1>4 DEF s
  <2> HIDE DEF blk
  <2>2. Supply(ApplyBlock(s, blk)) = Supply(s) + RewardAt(blk.height)
    BY <1>1, <2>1, BlockIssues
  <2> QED
    BY <2>1, <2>2 DEF blk
<1> QED
  BY <1>1, <1>3, <1>5 DEF s

\* The branches keep issuing as the tree changes.
LEMMA BranchesIssueStep ==
    ASSUME TreeInv, BranchesIssue, [Next]_vars, TreeInv'
    PROVE  BranchesIssue'
<1>1. CASE Known' \subseteq Known
  BY <1>1 DEF BranchesIssue
<1>2. CASE Known' \subseteq {Genesis}
  <2>1. Replay[Genesis] = NewState /\ Height(Genesis) = 0
    BY BlockAssumption, ReplayAssumption
  <2> QED
    BY <1>2, <2>1, SupplyOfNew, IssuedStep DEF BranchesIssue
<1>3. ASSUME NEW b \in Hash \ {Genesis}, Prev(b) \in Known, Known' = Known \cup {b}
      PROVE  BranchesIssue'
  <2>1. Height(b) = Height(Prev(b)) + 1
    BY <1>3 DEF TreeInv, TreeRooted
  <2>2. Replay[b] # Invalid => Replay[Prev(b)] # Invalid
    BY ReplayAssumption
  <2>3. Replay[b] # Invalid => Supply(Replay[b]) = Issued(Height(b))
    BY <1>3, <2>1, <2>2, ChildIssues DEF BranchesIssue
  <2> QED
    BY <1>3, <2>3 DEF BranchesIssue
<1> QED
  BY <1>1, <1>2, <1>3, TreeGrows

\* The balances of the confirmed ledger always add up to the rewards of the
\* active chain (SupplyIsIssued): no payment, fee, coinbase, reorganisation or
\* restart creates or destroys coins, and no sum wraps around (ApplyTx,
\* ApplyBlock, RewardAt).
THEOREM SupplyFollowsSchedule == Spec => []SupplyIsIssued
<1>1. Init => BranchesIssue
  BY InitInv, EmptyTypes DEF Init, BranchesIssue, Known
<1>2. TreeInv /\ BranchesIssue /\ [Next]_vars /\ TreeInv' => BranchesIssue'
  BY BranchesIssueStep
<1>3. TreeInv /\ BranchesIssue => SupplyIsIssued
  <2>1. SUFFICES ASSUME TreeInv, BranchesIssue, tip # Nil
                 PROVE  Supply(state) = Issued(Height(tip))
    BY DEF SupplyIsIssued, Issued
  <2>2. tip \in Known /\ state = Replay[tip] /\ state # Invalid
    BY <2>1 DEF TreeInv, ChainSound, StateIsReplay
  <2> QED
    BY <2>1, <2>2 DEF BranchesIssue
<1> QED
  BY <1>1, <1>2, <1>3, TreeInvariant, PTL DEF Spec

-----------------------------------------------------------------------------
(***************************************************************************)
(* Nonces.                                                                 *)
(***************************************************************************)

\* A payment carries the nonce of its sender, and moves it on by one.
LEMMA PaymentCounts ==
    ASSUME NEW s \in Accounts, NEW t, Verify(t), ApplyTx(s, t) # Invalid
    PROVE  /\ ~IsCoinbase(t) /\ t.from \in Address
           /\ t.nonce = s[t.from].nonce
           /\ ApplyTx(s, t)[t.from].nonce = s[t.from].nonce + 1
           /\ \A c \in Address \ {t.from} : ApplyTx(s, t)[c].nonce = s[c].nonce
<1> DEFINE spend == Add64(t.amount, t.fee)
           d == [s EXCEPT ![t.from] = [balance |-> s[t.from].balance - spend,
                                       nonce   |-> s[t.from].nonce + 1]]
<1>1. /\ ~IsCoinbase(t) /\ t.nonce = s[t.from].nonce
      /\ ApplyTx(s, t) = Credit(d, t.to, t.amount)
  BY DEF ApplyTx, NonceFits
<1>2. t.from \in Address /\ t.to \in Address
  BY <1>1 DEF Verify
<1> HIDE DEF spend
<1>3. /\ DOMAIN d = Address /\ d[t.from].nonce = s[t.from].nonce + 1
      /\ \A c \in Address \ {t.from} : d[c].nonce = s[c].nonce
  BY <1>2 DEF Accounts
<1> HIDE DEF d
<1>4. \A c \in Address : Credit(d, t.to, t.amount)[c].nonce = d[c].nonce
  BY <1>2, <1>3 DEF Credit
<1> QED
  BY <1>1, <1>2, <1>3, <1>4

\* The payments of a among the positions 2 .. m of l.
Sent(l, m, a) == {i \in 2 .. m : l[i].from = a}

\* The ledger u that the payments at 2 .. m of l make of s: nonces count, and
\* the payments of one sender carry increasing ones.
Counted(u, s, l, m) ==
    /\ \A i \in 2 .. m : /\ l[i].from \in Address /\ ~IsCoinbase(l[i])
                         /\ l[i].nonce \in Nat /\ Verify(l[i])
    /\ \A a \in Address : u[a].nonce = s[a].nonce + Cardinality(Sent(l, m, a))
    /\ \A i \in 2 .. m : /\ s[l[i].from].nonce <= l[i].nonce
                         /\ l[i].nonce < u[l[i].from].nonce
    /\ \A i, j \in 2 .. m : i < j /\ l[i].from = l[j].from => l[i].nonce < l[j].nonce

LEMMA SentStep ==
    ASSUME NEW l, NEW m \in Nat \ {0}, NEW a
    PROVE  /\ Cardinality(Sent(l, m, a)) \in Nat
           /\ Cardinality(Sent(l, m + 1, a)) =
                Cardinality(Sent(l, m, a)) + (IF l[m + 1].from = a THEN 1 ELSE 0)
<1>1. IsFiniteSet(2 .. m) /\ Sent(l, m, a) \in SUBSET (2 .. m)
  BY FS_Interval DEF Sent
<1>2. IsFiniteSet(Sent(l, m, a)) /\ Cardinality(Sent(l, m, a)) \in Nat
  BY <1>1, FS_Subset, FS_CardinalityType
<1>3. \A i : i \in 2 .. m + 1 <=> i \in 2 .. m \/ i = m + 1
  OBVIOUS
<1>4. m + 1 \notin Sent(l, m, a)
  BY DEF Sent
<1>5. CASE l[m + 1].from = a
  <2>1. Sent(l, m + 1, a) = Sent(l, m, a) \cup {m + 1}
    BY <1>3, <1>5 DEF Sent
  <2> QED
    BY <1>2, <1>4, <1>5, <2>1, FS_AddElement
<1>6. CASE l[m + 1].from # a
  <2>1. Sent(l, m + 1, a) = Sent(l, m, a)
    BY <1>3, <1>6 DEF Sent
  <2> QED
    BY <1>2, <1>6, <2>1
<1> QED
  BY <1>5, <1>6

\* One payment more.
LEMMA CountedStep ==
    ASSUME NEW s \in Accounts, NEW u \in Accounts, NEW v \in Accounts, NEW l,
           NEW m \in Nat \ {0}, Counted(u, s, l, m),
           Verify(l[m + 1]), ~IsCoinbase(l[m + 1]), l[m + 1].from \in Address,
           l[m + 1].nonce = u[l[m + 1].from].nonce,
           v[l[m + 1].from].nonce = u[l[m + 1].from].nonce + 1,
           \A c \in Address \ {l[m + 1].from} : v[c].nonce = u[c].nonce
    PROVE  Counted(v, s, l, m + 1)
<1> DEFINE t == l[m + 1]
           k == m + 1
<1>1. \A a \in Address : /\ s[a].nonce \in Nat /\ u[a].nonce \in Nat /\ v[a].nonce \in Nat
                         /\ u[a].nonce <= v[a].nonce
  <2>1. \A a \in Address : s[a].nonce \in Nat /\ u[a].nonce \in Nat /\ v[a].nonce \in Nat
    BY DEF Accounts
  <2> QED
    BY <2>1
<1>2. \A i : i \in 2 .. k <=> i \in 2 .. m \/ i = k
  OBVIOUS
<1>3. \A i \in 2 .. k : /\ l[i].from \in Address /\ ~IsCoinbase(l[i])
                        /\ l[i].nonce \in Nat /\ Verify(l[i])
  BY <1>1, <1>2 DEF Counted
<1>4. ASSUME NEW a \in Address PROVE v[a].nonce = s[a].nonce + Cardinality(Sent(l, k, a))
  <2>1. /\ Cardinality(Sent(l, m, a)) \in Nat
        /\ Cardinality(Sent(l, k, a)) =
             Cardinality(Sent(l, m, a)) + (IF l[k].from = a THEN 1 ELSE 0)
    BY SentStep
  <2>2. u[a].nonce = s[a].nonce + Cardinality(Sent(l, m, a))
    BY DEF Counted
  <2>3. v[a].nonce = u[a].nonce + (IF l[k].from = a THEN 1 ELSE 0)
    BY <1>1
  <2> QED
    BY <1>1, <2>1, <2>2, <2>3
<1>5. ASSUME NEW i \in 2 .. k
      PROVE  s[l[i].from].nonce <= l[i].nonce /\ l[i].nonce < v[l[i].from].nonce
  <2>1. CASE i \in 2 .. m
    <3>1. /\ s[l[i].from].nonce <= l[i].nonce /\ l[i].nonce < u[l[i].from].nonce
          /\ l[i].from \in Address /\ l[i].nonce \in Nat
      BY <2>1 DEF Counted
    <3> QED
      BY <1>1, <3>1
  <2>2. CASE i = k
    <3>1. u[t.from].nonce = s[t.from].nonce + Cardinality(Sent(l, m, t.from))
      BY DEF Counted
    <3>2. Cardinality(Sent(l, m, t.from)) \in Nat
      BY SentStep
    <3> QED
      BY <1>1, <2>2, <3>1, <3>2
  <2> QED
    BY <1>2, <2>1, <2>2
<1>6. ASSUME NEW i \in 2 .. k, NEW j \in 2 .. k, i < j, l[i].from = l[j].from
      PROVE  l[i].nonce < l[j].nonce
  <2>1. i \in 2 .. m
    BY <1>6
  <2>2. CASE j \in 2 .. m
    BY <1>6, <2>1, <2>2 DEF Counted
  <2>3. CASE j = k
    <3>1. l[i].nonce < u[l[i].from].nonce
      BY <2>1 DEF Counted
    <3> QED
      BY <1>6, <2>3, <3>1
  <2> QED
    BY <1>2, <2>2, <2>3
<1> HIDE DEF k
<1>7. Counted(v, s, l, k)
  BY <1>3, <1>4, <1>5, <1>6 DEF Counted
<1> QED
  BY <1>7 DEF k

\* Over all payments of a block.
LEMMA LoopCounts ==
    ASSUME NEW s \in Accounts, NEW T, NEW l \in Seq(T), l # << >>,
           NEW run, LoopRuns(run, s, Tail(l))
    PROVE  \A n \in 0 .. Len(l) - 1 : run[n].state # Invalid => Counted(run[n].state, s, l, n + 1)
<1> DEFINE N == Len(Tail(l))
           G == {n \in 0 .. N : run[n].state # Invalid => Counted(run[n].state, s, l, n + 1)}
<1>1. N \in Nat /\ N = Len(l) - 1 /\ \A i \in 1 .. N : Tail(l)[i] = l[i + 1]
  OBVIOUS
<1>2. 0 \in G
  <2>1. run[0].state = s
    BY DEF LoopRuns
  <2>2. 2 .. 0 + 1 = {}
    OBVIOUS
  <2>3. ASSUME NEW a \in Address PROVE s[a].nonce = s[a].nonce + Cardinality(Sent(l, 0 + 1, a))
    <3>1. Sent(l, 0 + 1, a) = {}
      BY <2>2 DEF Sent
    <3>2. Cardinality(Sent(l, 0 + 1, a)) = 0
      BY <3>1, FS_EmptySet
    <3> QED
      BY <3>2 DEF Accounts
  <2>4. Counted(s, s, l, 0 + 1)
    BY <2>2, <2>3 DEF Counted
  <2> HIDE DEF N
  <2> QED
    BY <1>1, <2>1, <2>4
<1>3. ASSUME NEW n \in 0 .. N - 1, n \in G PROVE n + 1 \in G
  <2> DEFINE m == n + 1
             t == l[m + 1]
             u == run[n].state
             v == run[m].state
  <2>1. m \in Nat \ {0} /\ m \in 1 .. N /\ m - 1 = n /\ m \in 0 .. N /\ n \in 0 .. N
    BY <1>1
  <2>2. run[m] = ApplyVerified(run[n], t) /\ run[n] \in Loop /\ run[m] \in Loop
    <3>1. /\ run[m] = ApplyVerified(run[m - 1], Tail(l)[m])
          /\ run[n] \in Loop /\ run[m] \in Loop
      BY <2>1 DEF LoopRuns
    <3> QED
      BY <1>1, <2>1, <3>1
  <2>3. SUFFICES ASSUME v # Invalid PROVE Counted(v, s, l, m + 1)
    BY <2>1
  <2> HIDE DEF t, m, N
  <2>4. u # Invalid /\ Verify(t) /\ ApplyTx(u, t) # Invalid /\ v = ApplyTx(u, t)
    BY <2>2, <2>3 DEF ApplyVerified
  <2>5. u \in Accounts /\ v \in Accounts
    BY <2>2, <2>3, <2>4 DEF Loop
  <2>6. Counted(u, s, l, m)
    BY <1>3, <2>4 DEF m
  <2> HIDE DEF u, v
  <2>7. /\ ~IsCoinbase(t) /\ t.from \in Address /\ t.nonce = u[t.from].nonce
        /\ v[t.from].nonce = u[t.from].nonce + 1
        /\ \A c \in Address \ {t.from} : v[c].nonce = u[c].nonce
    BY <2>4, <2>5, PaymentCounts
  <2> QED
    BY <2>1, <2>4, <2>5, <2>6, <2>7, CountedStep DEF t
<1>4. \A n \in 0 .. N : n \in G
  <2> HIDE DEF G, N
  <2> QED BY <1>1, <1>2, <1>3, CountingInduction
<1> QED
  BY <1>1, <1>4

\* A block counts its payments.
LEMMA BlockCounts ==
    ASSUME NEW s \in Accounts, NEW b, BlockFits(b), ApplyBlock(s, b) # Invalid
    PROVE  /\ b.txs # << >> /\ IsCoinbase(b.txs[1])
           /\ Counted(ApplyBlock(s, b), s, b.txs, Len(b.txs))
<1> DEFINE l == b.txs
           T == Range(l)
           cb == Head(l)
           acc == FoldLeft(ApplyVerified, [state |-> s, fees |-> 0], Tail(l))
<1>1. /\ l # << >> /\ IsCoinbase(cb) /\ acc.state # Invalid /\ Verify(cb)
      /\ ApplyBlock(s, b) = Credit(acc.state, cb.to, cb.amount)
  BY DEF ApplyBlock
<1>2. l \in Seq(T) /\ \A t \in T : FieldsFit(t)
  BY DEF BlockFits
<1> HIDE DEF l, T
<1>3. Tail(l) \in Seq(T) /\ Len(Tail(l)) = Len(l) - 1 /\ Len(l) \in Nat \ {0} /\ Head(l) = l[1]
  BY <1>1, <1>2
<1>4. PICK run : LoopRuns(run, s, Tail(l))
  BY <1>2, <1>3, LoopExists
<1> DEFINE n == Len(l) - 1
<1>5. n \in 0 .. Len(l) - 1 /\ n + 1 = Len(l)
  BY <1>3
<1>6. acc = run[n] /\ run[n] \in Loop
  BY <1>3, <1>4, <1>5 DEF LoopRuns
<1> HIDE DEF acc, n
<1>7. Counted(acc.state, s, l, Len(l)) /\ acc.state \in Accounts
  BY <1>1, <1>2, <1>4, <1>5, <1>6, LoopCounts DEF Loop
<1> DEFINE u == acc.state
           v == Credit(u, cb.to, cb.amount)
<1>8. cb.to \in Address
  BY <1>1 DEF Verify
<1>9. \A a \in Address : v[a].nonce = u[a].nonce
  BY <1>7, <1>8 DEF Credit, Accounts
<1> HIDE DEF v, u
<1>10. Counted(v, s, l, Len(l))
  BY <1>7, <1>9 DEF Counted, u
<1> QED
  BY <1>1, <1>3, <1>10 DEF l, v, u

\* The payment at place x, a block and a position.
TxAt(x) == Block[x[1]].txs[x[2]]

\* The replay u of the payments at P: nonces count, a payment carries a nonce
\* below the one reached, and no two of a sender carry the same.
Numbered(u, P) ==
    /\ \A a \in Address : u[a].nonce = Cardinality({x \in P : TxAt(x).from = a})
    /\ \A x \in P : /\ TxAt(x).from \in Address /\ TxAt(x).nonce \in Nat
                    /\ TxAt(x).nonce < u[TxAt(x).from].nonce
                    /\ Verify(TxAt(x))
    /\ \A x, y \in P :
         TxAt(x).from = TxAt(y).from /\ TxAt(x).nonce = TxAt(y).nonce => x = y

BranchesCount ==
    \A b \in Known :
        /\ Len(Block[b].txs) <= MaxTxsPerBlock
        /\ Replay[b] # Invalid => Numbered(Replay[b], Spends(Ancestors[b]))

\* Genesis has no payments.
LEMMA GenesisCounts == Numbered(Replay[Genesis], Spends(Ancestors[Genesis]))
<1>1. {Genesis} \in SUBSET Hash /\ ParentClosed({Genesis})
  BY BlockAssumption DEF ParentClosed
<1>2. Ancestors[Genesis] \subseteq {Genesis}
  BY <1>1, BlockAssumption, ClosedContainsAncestors
<1>3. DOMAIN Block[Genesis].txs = {}
  <2>1. DOMAIN << >> = {}
    OBVIOUS
  <2> QED
    BY <2>1, BlockAssumption
<1>4. Spends(Ancestors[Genesis]) = {}
  BY <1>2, <1>3 DEF Spends
<1>5. \A a \in Address : Replay[Genesis][a].nonce = 0
  BY ReplayAssumption DEF NewState
<1> DEFINE P == Spends(Ancestors[Genesis])
<1> HIDE DEF P
<1>6. P = {}
  BY <1>4 DEF P
<1>7. ASSUME NEW a PROVE Cardinality({x \in P : TxAt(x).from = a}) = 0
  <2>1. {x \in P : TxAt(x).from = a} = {}
    BY <1>6
  <2> QED
    BY <2>1, FS_EmptySet
<1>8. Numbered(Replay[Genesis], P)
  BY <1>5, <1>6, <1>7 DEF Numbered
<1> QED
  BY <1>8 DEF P

\* The payments of a branch with one block more.
LEMMA ChildSpends ==
    ASSUME NEW b \in Hash \ {Genesis}, b \notin Ancestors[Prev(b)],
           Block[b].txs # << >>, IsCoinbase(Block[b].txs[1]),
           Len(Block[b].txs) <= MaxTxsPerBlock,
           \A i \in 2 .. Len(Block[b].txs) : ~IsCoinbase(Block[b].txs[i])
    PROVE  /\ Spends(Ancestors[b]) =
                Spends(Ancestors[Prev(b)]) \cup ({b} \X (2 .. Len(Block[b].txs)))
           /\ IsFiniteSet(Spends(Ancestors[Prev(b)]))
           /\ \A x \in Spends(Ancestors[Prev(b)]) : x[1] # b
<1> DEFINE l == Block[b].txs
           n == Len(l)
           A == Ancestors[Prev(b)]
           R == 1 .. MaxTxsPerBlock
<1>1. Ancestors[b] = A \cup {b} /\ A \subseteq Hash
  BY ChildAncestors, BlockAssumption, AncestorSelf
<1>2. DOMAIN l = 1 .. n /\ n \in Nat /\ MaxTxsPerBlock \in Nat
  <2>1. l \in Seq(Range(l))
    BY BlockAssumption
  <2> DEFINE T == Range(l)
  <2> HIDE DEF l, T
  <2>2. l \in Seq(T)
    BY <2>1 DEF T
  <2> QED
    BY <2>2, ChainAssumption
<1>3. ASSUME NEW i PROVE (i \in R /\ i \in DOMAIN l /\ ~IsCoinbase(l[i])) <=> i \in 2 .. n
  <2> HIDE DEF l, n
  <2>1. \A j \in 2 .. n : ~IsCoinbase(l[j])
    BY DEF l, n
  <2>2. IsCoinbase(l[1]) /\ n <= MaxTxsPerBlock
    BY DEF l, n
  <2>3. i \in 1 .. n <=> (i = 1 /\ n >= 1) \/ i \in 2 .. n
    BY <1>2
  <2>4. i \in 1 .. n => i \in R
    BY <1>2, <2>2
  <2> HIDE DEF R
  <2> QED
    BY <1>2, <2>1, <2>2, <2>3, <2>4
<1> HIDE DEF R, n
<1>4. ASSUME NEW x PROVE x \in Spends(Ancestors[b]) <=> x \in Spends(A) \/ x \in {b} \X (2 .. n)
  <2>1. x \in Spends(Ancestors[b]) <=>
            /\ x \in (A \cup {b}) \X R
            /\ x[2] \in DOMAIN Block[x[1]].txs /\ ~IsCoinbase(Block[x[1]].txs[x[2]])
    BY <1>1 DEF Spends, R
  <2>2. x \in Spends(A) <=>
            /\ x \in A \X R
            /\ x[2] \in DOMAIN Block[x[1]].txs /\ ~IsCoinbase(Block[x[1]].txs[x[2]])
    BY DEF Spends, R
  <2>3. x \in {b} \X R =>
            ((x[2] \in DOMAIN Block[x[1]].txs /\ ~IsCoinbase(Block[x[1]].txs[x[2]])) <=> x[2] \in 2 .. n)
    BY <1>3
  <2>4. x \in {b} \X (2 .. n) => x \in {b} \X R
    BY <1>3
  <2>5. x \in {b} \X R /\ x[2] \in 2 .. n => x \in {b} \X (2 .. n)
    OBVIOUS
  <2>6. x \in (A \cup {b}) \X R <=> x \in A \X R \/ x \in {b} \X R
    OBVIOUS
  <2>7. x \in {b} \X (2 .. n) => x[2] \in 2 .. n
    OBVIOUS
  <2> QED
    BY <2>1, <2>2, <2>3, <2>4, <2>5, <2>6, <2>7
<1>5. IsFiniteSet(Spends(A))
  <2>1. IsFiniteSet(Hash) /\ IsFiniteSet(R)
    <3>1. 1 \in Int /\ MaxTxsPerBlock \in Int
      BY <1>2
    <3>2. IsFiniteSet(R)
      BY <3>1, FS_Interval DEF R
    <3> QED
      BY <3>2, BlockAssumption
  <2>2. IsFiniteSet(Hash \X R)
    BY <2>1, FS_Product
  <2>3. Spends(A) \subseteq Hash \X R
    BY <1>1 DEF Spends, R
  <2> QED
    BY <2>2, <2>3, FS_Subset
<1>6. \A x \in Spends(A) : x[1] # b
  BY DEF Spends
<1> QED
  BY <1>4, <1>5, <1>6 DEF n

\* One block more.
LEMMA ChildCounts ==
    ASSUME NEW b \in Hash \ {Genesis}, b \notin Ancestors[Prev(b)],
           Len(Block[b].txs) <= MaxTxsPerBlock, Replay[b] # Invalid,
           Numbered(Replay[Prev(b)], Spends(Ancestors[Prev(b)]))
    PROVE  Numbered(Replay[b], Spends(Ancestors[b]))
<1> DEFINE l == Block[b].txs
           n == Len(l)
           s == Replay[Prev(b)]
           u == Replay[b]
           P == Spends(Ancestors[Prev(b)])
           Q == Spends(Ancestors[b])
           New == {b} \X (2 .. n)
<1>1. Prev(b) \in Hash /\ s \in Accounts /\ u = ApplyBlock(s, Block[b]) /\ u \in Accounts
  BY BlockAssumption, ReplayAssumption
<1>2. l # << >> /\ IsCoinbase(l[1]) /\ Counted(u, s, l, n)
  <2> DEFINE blk == Block[b]
  <2>1. BlockFits(blk) /\ ApplyBlock(s, blk) # Invalid
    BY <1>1, TableFits
  <2> HIDE DEF blk, s
  <2>2. /\ blk.txs # << >> /\ IsCoinbase(blk.txs[1])
        /\ Counted(ApplyBlock(s, blk), s, blk.txs, Len(blk.txs))
    BY <1>1, <2>1, BlockCounts
  <2> QED
    BY <1>1, <2>2 DEF blk
<1>3. Q = P \cup New /\ IsFiniteSet(P) /\ \A x \in P : x[1] # b
  <2>1. \A i \in 2 .. Len(Block[b].txs) : ~IsCoinbase(Block[b].txs[i])
    BY <1>2 DEF Counted
  <2> QED
    BY <1>2, <2>1, ChildSpends
<1>4. \A x \in New : x[1] = b /\ x[2] \in 2 .. n /\ TxAt(x) = l[x[2]] /\ x = <<b, x[2]>>
  BY DEF TxAt
<1>5. Numbered(s, P)
  OBVIOUS
<1>6. n \in Nat \ {0}
  <2> DEFINE T == Range(l)
  <2>1. l \in Seq(T)
    BY BlockAssumption
  <2> HIDE DEF l, T
  <2> QED
    BY <1>2, <2>1
<1> HIDE DEF P, Q, s, u, l, n
<1>7. \A a \in Address : s[a].nonce \in Nat /\ u[a].nonce \in Nat /\ s[a].nonce <= u[a].nonce
  <2>1. \A a \in Address : s[a].nonce \in Nat /\ u[a].nonce \in Nat
    BY <1>1 DEF Accounts
  <2>2. \A a \in Address : Cardinality(Sent(l, n, a)) \in Nat
    BY <1>6, SentStep
  <2> QED
    BY <1>2, <2>1, <2>2 DEF Counted
<1>8. ASSUME NEW a \in Address PROVE u[a].nonce = Cardinality({x \in Q : TxAt(x).from = a})
  <2> DEFINE old == {x \in P : TxAt(x).from = a}
             new == {b} \X Sent(l, n, a)
  <2>1. {x \in Q : TxAt(x).from = a} = old \cup new
    <3>1. \A x : x \in New /\ TxAt(x).from = a <=> x \in new
      <4>1. ASSUME NEW x \in New, TxAt(x).from = a PROVE x \in new
        BY <1>4, <4>1 DEF Sent
      <4>2. ASSUME NEW x \in new PROVE x \in New /\ TxAt(x).from = a
        <5>1. x \in New
          BY DEF Sent
        <5>2. l[x[2]].from = a
          BY DEF Sent
        <5> QED
          BY <1>4, <5>1, <5>2
      <4> QED
        BY <4>1, <4>2
    <3> HIDE DEF New, new
    <3> QED
      BY <1>3, <3>1
  <2>2. old \cap new = {}
    BY <1>3
  <2>3. IsFiniteSet(old)
    BY <1>3, FS_Subset
  <2>4. IsFiniteSet(Sent(l, n, a)) /\ Cardinality(Sent(l, n, a)) \in Nat
    <3>1. 2 \in Int /\ n \in Int
      BY <1>6
    <3>2. IsFiniteSet(2 .. n)
      BY <3>1, FS_Interval
    <3>3. Sent(l, n, a) \in SUBSET (2 .. n)
      BY DEF Sent
    <3> QED
      BY <3>2, <3>3, FS_Subset, FS_CardinalityType
  <2>5. IsFiniteSet({b}) /\ Cardinality({b}) = 1
    BY FS_Singleton
  <2>6. IsFiniteSet(new) /\ Cardinality(new) = Cardinality(Sent(l, n, a))
    <3>1. IsFiniteSet(new) /\ Cardinality(new) = Cardinality({b}) * Cardinality(Sent(l, n, a))
      BY <2>4, <2>5, FS_Product
    <3> HIDE DEF new
    <3> QED
      BY <2>4, <2>5, <3>1
  <2> HIDE DEF old, new
  <2>7. Cardinality(old) \in Nat /\ Cardinality(old \cap new) = 0
    BY <2>2, <2>3, FS_CardinalityType, FS_EmptySet
  <2>8. Cardinality(old \cup new) = Cardinality(old) + Cardinality(new) - Cardinality(old \cap new)
    BY <2>3, <2>6, FS_Union
  <2>9. Cardinality(old \cup new) = Cardinality(old) + Cardinality(Sent(l, n, a))
    BY <2>4, <2>6, <2>7, <2>8
  <2>10. s[a].nonce = Cardinality(old) /\ u[a].nonce = s[a].nonce + Cardinality(Sent(l, n, a))
    BY <1>2, <1>5 DEF Numbered, Counted, old
  <2> QED
    BY <2>1, <2>9, <2>10
<1>9. ASSUME NEW x \in P
      PROVE  /\ TxAt(x).from \in Address /\ TxAt(x).nonce \in Nat
             /\ TxAt(x).nonce < s[TxAt(x).from].nonce
             /\ TxAt(x).nonce < u[TxAt(x).from].nonce
             /\ Verify(TxAt(x))
  <2>1. /\ Verify(TxAt(x)) /\ TxAt(x).from \in Address /\ TxAt(x).nonce \in Nat
        /\ TxAt(x).nonce < s[TxAt(x).from].nonce
    BY <1>5 DEF Numbered
  <2> QED
    BY <1>7, <2>1
<1>10. ASSUME NEW x \in New
       PROVE  /\ TxAt(x).from \in Address /\ TxAt(x).nonce \in Nat
              /\ s[TxAt(x).from].nonce <= TxAt(x).nonce
              /\ TxAt(x).nonce < u[TxAt(x).from].nonce
              /\ Verify(TxAt(x))
  <2>1. TxAt(x) = l[x[2]] /\ x[2] \in 2 .. n
    BY <1>4
  <2> QED
    BY <1>2, <2>1 DEF Counted
<1> DEFINE Same(x, y) == TxAt(x).from = TxAt(y).from /\ TxAt(x).nonce = TxAt(y).nonce
<1>11. ASSUME NEW x \in P, NEW y \in New PROVE ~Same(x, y)
  BY <1>7, <1>9, <1>10
<1>12. ASSUME NEW x \in New, NEW y \in New, Same(x, y) PROVE x = y
  <2>1. /\ TxAt(x) = l[x[2]] /\ x[2] \in 2 .. n /\ x = <<b, x[2]>>
        /\ TxAt(y) = l[y[2]] /\ y[2] \in 2 .. n /\ y = <<b, y[2]>>
    BY <1>4
  <2>2. ASSUME NEW i \in 2 .. n, NEW j \in 2 .. n,
               l[i].from = l[j].from, l[i].nonce = l[j].nonce
        PROVE  ~(i < j)
    <3>1. l[i].nonce \in Nat
      BY <1>2 DEF Counted
    <3> QED
      BY <1>2, <2>2, <3>1 DEF Counted
  <2>3. ~(x[2] < y[2]) /\ ~(y[2] < x[2])
    BY <1>12, <2>1, <2>2
  <2>4. x[2] = y[2]
    BY <1>6, <2>1, <2>3
  <2> QED
    BY <2>1, <2>4
<1>13. \A x, y \in P : Same(x, y) => x = y
  BY <1>5 DEF Numbered
<1> HIDE DEF New
<1>14. \A x \in Q : x \in P \/ x \in New
  BY <1>3
<1>15. ASSUME NEW x \in Q, NEW y \in Q, Same(x, y) PROVE x = y
  <2>1. \A v, w : Same(v, w) => Same(w, v)
    OBVIOUS
  <2> HIDE DEF Same
  <2> QED
    BY <1>11, <1>12, <1>13, <1>14, <1>15, <2>1
<1>16. Numbered(u, Q)
  BY <1>8, <1>9, <1>10, <1>14, <1>15 DEF Numbered
<1> QED
  BY <1>16 DEF u, Q

\* The branches keep counting as the tree changes.
LEMMA BranchesCountStep ==
    ASSUME TreeInv, BranchesCount, [Next]_vars, TreeInv'
    PROVE  BranchesCount'
<1>1. CASE Known' \subseteq Known
  BY <1>1 DEF BranchesCount
<1>2. CASE Known' \subseteq {Genesis}
  <2>1. Len(Block[Genesis].txs) <= MaxTxsPerBlock
    <3>1. Block[Genesis].txs = << >> /\ MaxTxsPerBlock \in Nat
      BY BlockAssumption, ChainAssumption
    <3> QED
      BY <3>1
  <2> QED
    BY <1>2, <2>1, GenesisCounts DEF BranchesCount
<1>3. ASSUME NEW b \in Hash \ {Genesis}, b \notin Known, Prev(b) \in Known,
             AcceptableBlock(b), Known' = Known \cup {b}
      PROVE  BranchesCount'
  <2>1. Len(Block[b].txs) <= MaxTxsPerBlock
    BY <1>3 DEF AcceptableBlock, ValidateBasic
  <2>2. b \notin Ancestors[Prev(b)]
    BY <1>3, PathComplete DEF TreeInv
  <2>3. Replay[b] # Invalid => Replay[Prev(b)] # Invalid
    BY ReplayAssumption
  <2>4. Replay[b] # Invalid => Numbered(Replay[b], Spends(Ancestors[b]))
    BY <1>3, <2>1, <2>2, <2>3, ChildCounts DEF BranchesCount
  <2> QED
    BY <1>3, <2>1, <2>4 DEF BranchesCount
<1> QED
  BY <1>1, <1>2, <1>3, TreeGrows

\* The nonce of every account is the number of payments it has on the active
\* chain, and no payment is confirmed twice there (NonceCounts), whatever was
\* rolled back and confirmed again: a payment cannot be replayed (ApplyTx).
THEOREM NoncesCountPayments == Spec => []NonceCounts
<1>1. Init => BranchesCount
  BY InitInv, EmptyTypes DEF Init, BranchesCount, Known
<1>2. TreeInv /\ BranchesCount /\ [Next]_vars /\ TreeInv' => BranchesCount'
  BY BranchesCountStep
<1>3. TreeInv /\ BranchesCount => NonceCounts
  <2>1. SUFFICES ASSUME TreeInv, BranchesCount, tip # Nil PROVE NonceCounts
    BY DEF NonceCounts
  <2>2. tip \in Known /\ state = Replay[tip] /\ state # Invalid
    BY <2>1 DEF TreeInv, ChainSound, StateIsReplay
  <2>3. pathToGenesisLocked(tip) = Ancestors[tip]
    BY <2>1, <2>2, PathComplete DEF TreeInv
  <2>4. Numbered(state, Spends(pathToGenesisLocked(tip)))
    BY <2>1, <2>2, <2>3 DEF BranchesCount
  <2> QED
    BY <2>4 DEF NonceCounts, Numbered, TxAt
<1> QED
  BY <1>1, <1>2, <1>3, TreeInvariant, PTL DEF Spec

-----------------------------------------------------------------------------
(***************************************************************************)
(* The loop that keeps what applies.                                       *)
(***************************************************************************)

\* The accumulators after 0, 1, 2 ... of the N txs.
Keeps(run, txs, skip, N) ==
    \A n \in 1 .. N : run[n] = KeepApplicable(run[n - 1], txs[n], skip)

UsableRuns(run, s, txs, skip, N) ==
    /\ run[0] = [state |-> s, kept |-> << >>]
    /\ Keeps(run, txs, skip, N)
    /\ ApplyUsable(s, txs, skip) = run[N]

\* The loop over a list.  Nothing is said of the txs, so the recursive function
\* inside the fold is built up for sets of 0, 1, 2 ... positions.
LEMMA UsableExists ==
    ASSUME NEW s, NEW N \in Nat, NEW txs, DOMAIN txs = 1 .. N, NEW skip
    PROVE  \E run : UsableRuns(run, s, txs, skip, N)
<1> DEFINE S == 1 .. N
           base == [state |-> s, kept |-> << >>]
           Rec(g) == [p \in SUBSET S |->
                         IF p = {} THEN base
                         ELSE KeepApplicable(g[p \ {Max(p)}], txs[Max(p)], skip)]
           Upto(n) == \E g : \A p \in SUBSET S : Cardinality(p) <= n => g[p] = Rec(g)[p]
           G == {n \in 0 .. N : Upto(n)}
           iter == CHOOSE g : g = Rec(g)
<1>1. IsFiniteSet(S) /\ Cardinality(S) = N
  BY FS_Interval
<1>2. ApplyUsable(s, txs, skip) = iter[S]
  BY DEF ApplyUsable, FoldLeft, MapThenFoldSet
<1> HIDE DEF iter
<1>3. ASSUME NEW g, NEW n \in Nat, \A p \in SUBSET S : Cardinality(p) <= n => g[p] = Rec(g)[p]
      PROVE  \A p \in SUBSET S : Cardinality(p) <= n + 1 => Rec(g)[p] = Rec(Rec(g))[p]
  <2>1. SUFFICES ASSUME NEW p \in SUBSET S, Cardinality(p) <= n + 1, p # {}
                 PROVE  Rec(g)[p] = Rec(Rec(g))[p]
    OBVIOUS
  <2> DEFINE r == p \ {Max(p)}
  <2>2. r \in SUBSET S /\ Cardinality(r) <= n
    <3>1. /\ r \in SUBSET S /\ Cardinality(p) \in Nat
          /\ Cardinality(r) = Cardinality(p) - 1
      BY <2>1, MaxSmaller
    <3> QED
      BY <2>1, <3>1
  <2>3. g[r] = Rec(g)[r]
    BY <1>3, <2>2
  <2>4. /\ Rec(g)[p] = KeepApplicable(g[r], txs[Max(p)], skip)
        /\ Rec(Rec(g))[p] = KeepApplicable(Rec(g)[r], txs[Max(p)], skip)
    BY <2>1
  <2> QED
    BY <2>3, <2>4
<1> HIDE DEF Rec
<1>4. Upto(0)
  <2>1. \A p \in SUBSET S : Cardinality(p) <= 0 => p = {}
    <3>1. ASSUME NEW p \in SUBSET S PROVE IsFiniteSet(p) /\ Cardinality(p) \in Nat
      BY <1>1, FS_Subset, FS_CardinalityType
    <3>2. \A p \in SUBSET S : Cardinality(p) = 0 => p = {}
      BY <3>1, FS_EmptySet
    <3> QED
      BY <3>1, <3>2
  <2>2. \A g : Rec(g)[{}] = base
    BY DEF Rec
  <2> DEFINE z == [p \in SUBSET S |-> base]
  <2>3. \A p \in SUBSET S : Cardinality(p) <= 0 => z[p] = Rec(z)[p]
    BY <2>1, <2>2
  <2> QED
    BY <2>3
<1>5. ASSUME NEW n \in 0 .. N - 1, Upto(n) PROVE Upto(n + 1)
  <2>1. PICK g : \A p \in SUBSET S : Cardinality(p) <= n => g[p] = Rec(g)[p]
    BY <1>5
  <2>2. \A p \in SUBSET S : Cardinality(p) <= n + 1 => Rec(g)[p] = Rec(Rec(g))[p]
    BY <1>3, <2>1
  <2> QED
    BY <2>2
<1> HIDE DEF Upto
<1>6. 0 \in G /\ \A n \in 0 .. N - 1 : n \in G => n + 1 \in G
  BY <1>4, <1>5
<1>7. N \in G
  <2> HIDE DEF G
  <2>1. \A k \in 0 .. N : k \in G
    BY <1>6, CountingInduction
  <2> QED
    BY <2>1
<1>8. PICK g : \A p \in SUBSET S : Cardinality(p) <= N => g[p] = Rec(g)[p]
  BY <1>7 DEF Upto
<1>9. ASSUME NEW p \in SUBSET S PROVE Cardinality(p) <= N
  <2> HIDE DEF S
  <2> QED BY <1>1, FS_Subset
<1>10. \A p \in SUBSET S : g[p] = Rec(g)[p]
  BY <1>8, <1>9
<1> DEFINE h == Rec(g)
<1>11. h = Rec(h)
  <2>1. \A p \in SUBSET S : p \ {Max(p)} \in SUBSET S
    OBVIOUS
  <2>2. \A p \in SUBSET S : g[p \ {Max(p)}] = h[p \ {Max(p)}]
    BY <1>10, <2>1
  <2>3. h = [p \in SUBSET S |-> IF p = {} THEN base
                                ELSE KeepApplicable(g[p \ {Max(p)}], txs[Max(p)], skip)]
    BY DEF Rec
  <2> HIDE DEF h
  <2> QED
    BY <2>2, <2>3 DEF Rec
<1>12. iter = Rec(iter)
  <2> HIDE DEF h
  <2> QED BY <1>11 DEF iter
<1> DEFINE run == [n \in 0 .. N |-> iter[1 .. n]]
<1>13. run[0] = base /\ run[N] = iter[S]
  <2>1. 1 .. 0 = {} /\ iter[{}] = base
    BY <1>12 DEF Rec
  <2> HIDE DEF base
  <2> QED
    BY <2>1
<1>14. ASSUME NEW n \in 1 .. N PROVE run[n] = KeepApplicable(run[n - 1], txs[n], skip)
  <2>1. n \in Nat \ {0} /\ n - 1 \in 0 .. N /\ n \in 0 .. N
    OBVIOUS
  <2>2. Max(1 .. n) = n /\ (1 .. n) \ {n} = 1 .. n - 1
    BY <2>1, MaxOfPrefix
  <2>3. 1 .. n \in SUBSET S /\ 1 .. n # {}
    <3>1. n \in 1 .. n /\ \A i \in 1 .. n : i \in S
      OBVIOUS
    <3> QED
      BY <3>1
  <2>4. iter[1 .. n] = KeepApplicable(iter[1 .. n - 1], txs[n], skip)
    <3> HIDE DEF S
    <3> QED BY <1>12, <2>2, <2>3 DEF Rec
  <2> QED
    BY <2>1, <2>4
<1> HIDE DEF run
<1> QED
  BY <1>2, <1>13, <1>14 DEF UsableRuns, Keeps

\* Two runs over lists with a common beginning agree there.
LEMMA RunsAgree ==
    ASSUME NEW N \in Nat, NEW skip, NEW l, NEW k, NEW p, NEW q,
           p[0] = q[0],
           Keeps(p, l, skip, N), Keeps(q, k, skip, N),
           \A n \in 1 .. N : l[n] = k[n]
    PROVE  p[N] = q[N]
<1> DEFINE G == {n \in 0 .. N : p[n] = q[n]}
<1>1. 0 \in G
  OBVIOUS
<1>2. ASSUME NEW n \in 0 .. N - 1, n \in G PROVE n + 1 \in G
  <2>1. n + 1 \in 1 .. N /\ (n + 1) - 1 = n /\ n + 1 \in 0 .. N
    OBVIOUS
  <2>2. p[n] = q[n]
    BY <1>2
  <2>3. /\ p[n + 1] = KeepApplicable(p[n], l[n + 1], skip)
        /\ q[n + 1] = KeepApplicable(q[n], k[n + 1], skip)
        /\ l[n + 1] = k[n + 1]
    BY <2>1 DEF Keeps
  <2> QED
    BY <2>1, <2>2, <2>3
<1> HIDE DEF G
<1>3. \A n \in 0 .. N : n \in G
  BY <1>1, <1>2, CountingInduction
<1> QED
  BY <1>3 DEF G

\* Nothing comes of nothing.
LEMMA NothingApplies ==
    ASSUME NEW s
    PROVE  ApplyInOrder(s, << >>) = [state |-> s, kept |-> << >>]
<1>1. DOMAIN << >> = 1 .. 0
  OBVIOUS
<1>2. PICK run : UsableRuns(run, s, << >>, {}, 0)
  BY <1>1, UsableExists
<1> QED
  BY <1>2 DEF UsableRuns, ApplyInOrder

\* A tx at the end of the list comes last.
LEMMA OneMoreApplies ==
    ASSUME NEW s, NEW T, NEW l \in Seq(T), NEW t
    PROVE  ApplyInOrder(s, Append(l, t)) = KeepApplicable(ApplyInOrder(s, l), t, {})
<1> DEFINE N == Len(l)
           k == Append(l, t)
<1>1. /\ N \in Nat /\ DOMAIN l = 1 .. N /\ DOMAIN k = 1 .. N + 1
      /\ k[N + 1] = t /\ \A n \in 1 .. N : k[n] = l[n]
  <2> DEFINE U == T \cup {t}
  <2>1. l \in Seq(U) /\ t \in U
    OBVIOUS
  <2> HIDE DEF U
  <2> QED
    BY <2>1
<1> HIDE DEF N, k
<1>2. PICK p : UsableRuns(p, s, l, {}, N)
  BY <1>1, UsableExists
<1>3. PICK q : UsableRuns(q, s, k, {}, N + 1)
  <2> DEFINE M == N + 1
  <2>1. M \in Nat /\ DOMAIN k = 1 .. M
    BY <1>1
  <2> HIDE DEF M
  <2>2. \E q : UsableRuns(q, s, k, {}, M)
    BY <2>1, UsableExists
  <2> QED
    BY <2>2 DEF M
<1>4. p[N] = q[N]
  <2>1. p[0] = q[0] /\ Keeps(p, l, {}, N)
    BY <1>2, <1>3 DEF UsableRuns
  <2>2. Keeps(q, k, {}, N)
    BY <1>1, <1>3 DEF UsableRuns, Keeps
  <2>3. \A n \in 1 .. N : l[n] = k[n]
    BY <1>1
  <2> QED
    BY <1>1, <2>1, <2>2, <2>3, RunsAgree
<1>5. q[N + 1] = KeepApplicable(q[N], t, {})
  <2>1. N + 1 \in 1 .. N + 1 /\ (N + 1) - 1 = N
    BY <1>1
  <2> QED
    BY <1>1, <1>3, <2>1 DEF UsableRuns, Keeps
<1> QED
  BY <1>2, <1>3, <1>4, <1>5 DEF UsableRuns, ApplyInOrder, k

\* What the loop may keep of the first N txs.
KeptOf(txs, N, skip) == {t \in {txs[i] : i \in 1 .. N} \ skip : ~IsCoinbase(t)}

\* The ledgers s, st[1], st[2] ... that the txs of l lead to, every one of which
\* applies.
Steps(st, s, l) ==
    /\ st[0] = s
    /\ \A n \in 1 .. Len(l) : st[n] = ApplyTx(st[n - 1], l[n]) /\ st[n] # Invalid

\* One tx more.
LEMMA OneMoreStep ==
    ASSUME NEW s, NEW T, NEW l \in Seq(T), NEW t \in T, NEW st, Steps(st, s, l),
           ApplyTx(st[Len(l)], t) # Invalid
    PROVE  \E next : /\ Steps(next, s, Append(l, t))
                     /\ next[Len(Append(l, t))] = ApplyTx(st[Len(l)], t)
<1> DEFINE N == Len(l)
           M == N + 1
           u == ApplyTx(st[N], t)
           next == [n \in 0 .. M |-> IF n = M THEN u ELSE st[n]]
           k == Append(l, t)
<1>1. /\ N \in Nat /\ Len(k) = M /\ k[M] = t
      /\ \A n \in 1 .. N : k[n] = l[n]
      /\ u # Invalid /\ u = ApplyTx(st[N], t)
  OBVIOUS
<1>2. M \in 0 .. M /\ M - 1 = N /\ 0 # M /\ 0 \in 0 .. M /\ N # M /\ N \in 0 .. M
  BY <1>1
<1> HIDE DEF u, k
<1>3. next[0] = s /\ next[M] = u /\ next[N] = st[N]
  <2>1. st[0] = s
    BY DEF Steps
  <2> HIDE DEF N, M
  <2> QED
    BY <1>2, <2>1
<1>4. ASSUME NEW n \in 1 .. M
      PROVE  next[n] = ApplyTx(next[n - 1], k[n]) /\ next[n] # Invalid
  <2>1. CASE n = M
    <3> HIDE DEF N, M, next
    <3> QED BY <1>1, <1>2, <1>3, <2>1
  <2>2. CASE n # M
    <3>1. n \in 1 .. N /\ n \in 0 .. M /\ n - 1 \in 0 .. M /\ n - 1 # M
      BY <1>1, <2>2
    <3>2. next[n] = st[n] /\ next[n - 1] = st[n - 1]
      BY <2>2, <3>1
    <3> QED
      BY <1>1, <3>1, <3>2 DEF Steps
  <2> QED
    BY <2>1, <2>2
<1> HIDE DEF next
<1>5. Steps(next, s, k)
  BY <1>1, <1>3, <1>4 DEF Steps
<1> QED
  BY <1>1, <1>3, <1>5 DEF u, k

\* What the loop keeps applies as a whole, and leads to the state the loop ended
\* with.
LEMMA KeptApplies ==
    ASSUME NEW s, NEW N \in Nat, NEW txs, DOMAIN txs = 1 .. N, NEW skip
    PROVE  LET kept == ApplyUsable(s, txs, skip)
           IN  /\ kept.kept \in Seq(KeptOf(txs, N, skip))
               /\ ApplyInOrder(s, kept.kept).kept = kept.kept
               /\ ApplyInOrder(s, kept.kept).state = kept.state
               /\ \E st : Steps(st, s, kept.kept)
<1>1. PICK run : UsableRuns(run, s, txs, skip, N)
  BY UsableExists
<1> DEFINE T == KeptOf(txs, N, skip)
           Walked(acc) == \E st : Steps(st, s, acc.kept) /\ st[Len(acc.kept)] = acc.state
           Good(acc) == /\ acc.kept \in Seq(T) /\ ApplyInOrder(s, acc.kept) = acc
                        /\ Walked(acc)
           G == {n \in 0 .. N : Good(run[n])}
<1>2. 0 \in G
  <2>1. run[0] = [state |-> s, kept |-> << >>]
    BY <1>1 DEF UsableRuns
  <2> DEFINE st == [n \in 0 .. 0 |-> s]
  <2>2. Steps(st, s, << >>) /\ st[Len(<< >>)] = s
    BY DEF Steps
  <2> HIDE DEF st
  <2>3. Good(run[0])
    BY <2>1, <2>2, NothingApplies
  <2> QED
    BY <2>3
<1>3. ASSUME NEW n \in 0 .. N - 1, n \in G PROVE n + 1 \in G
  <2> DEFINE a == run[n]
             c == run[n + 1]
             t == txs[n + 1]
  <2>1. n + 1 \in 1 .. N /\ (n + 1) - 1 = n /\ n + 1 \in 0 .. N
    OBVIOUS
  <2>2. c = KeepApplicable(a, t, skip) /\ t \in {txs[i] : i \in 1 .. N}
    BY <1>1, <2>1 DEF UsableRuns, Keeps
  <2>3. a.kept \in Seq(T) /\ ApplyInOrder(s, a.kept) = a /\ Walked(a)
    BY <1>3
  <2> HIDE DEF a, c, t, Walked
  <2>4. CASE t \in skip \/ ApplyTx(a.state, t) = Invalid
    <3>1. c = a
      BY <2>2, <2>4 DEF KeepApplicable
    <3> QED
      BY <2>1, <2>3, <3>1 DEF c
  <2>5. CASE ~(t \in skip \/ ApplyTx(a.state, t) = Invalid)
    <3>0. t \in T
      <4>1. ~IsCoinbase(t)
        BY <2>5 DEF ApplyTx
      <4> QED
        BY <2>2, <2>5, <4>1 DEF KeptOf
    <3> HIDE DEF T
    <3>1. c = [state |-> ApplyTx(a.state, t), kept |-> Append(a.kept, t)]
      BY <2>2, <2>5 DEF KeepApplicable
    <3>2. KeepApplicable(a, t, {}) = c
      BY <2>5, <3>1 DEF KeepApplicable
    <3>3. ApplyInOrder(s, Append(a.kept, t)) = c
      BY <2>3, <3>2, OneMoreApplies
    <3>4. c.kept = Append(a.kept, t) /\ c.kept \in Seq(T) /\ c.state = ApplyTx(a.state, t)
      BY <2>3, <3>0, <3>1
    <3>5. PICK st : Steps(st, s, a.kept) /\ st[Len(a.kept)] = a.state
      BY <2>3 DEF Walked
    <3>6. \E next : /\ Steps(next, s, Append(a.kept, t))
                    /\ next[Len(Append(a.kept, t))] = ApplyTx(st[Len(a.kept)], t)
      <4> DEFINE l == a.kept
      <4>1. l \in Seq(T) /\ Steps(st, s, l) /\ ApplyTx(st[Len(l)], t) # Invalid
        BY <2>3, <2>5, <3>5
      <4> HIDE DEF l
      <4>2. \E next : Steps(next, s, Append(l, t)) /\ next[Len(Append(l, t))] = ApplyTx(st[Len(l)], t)
        BY <3>0, <4>1, OneMoreStep
      <4> QED
        BY <4>2 DEF l
    <3>7. Walked(c)
      BY <3>4, <3>5, <3>6 DEF Walked
    <3>8. Good(c)
      BY <3>3, <3>4, <3>7
    <3> QED
      BY <2>1, <3>8 DEF c
  <2> QED
    BY <2>4, <2>5
<1>4. N \in G
  <2> HIDE DEF G
  <2>1. \A k \in 0 .. N : k \in G
    BY <1>2, <1>3, CountingInduction
  <2> QED
    BY <2>1
<1>5. Good(run[N]) /\ ApplyUsable(s, txs, skip) = run[N]
  BY <1>1, <1>4 DEF UsableRuns
<1> QED
  BY <1>5

-----------------------------------------------------------------------------
(***************************************************************************)
(* A template: the fees it promises are the ones the block loop collects.  *)
(***************************************************************************)

\* The fees as BuildCandidate adds them up.
FeeSum(txs) == FoldLeft(LAMBDA sum, t : Add64(sum, t.fee), 0, txs)

\* The sums after 0, 1, 2 ... txs.
FeeRuns(f, txs) ==
    /\ f[0] = 0
    /\ \A n \in 1 .. Len(txs) : f[n] = Add64(f[n - 1], txs[n].fee)
    /\ FeeSum(txs) = f[Len(txs)]

\* The loop over a list.
LEMMA FeesExist ==
    ASSUME NEW T, NEW txs \in Seq(T), \A t \in T : FieldsFit(t)
    PROVE  \E f : FeeRuns(f, txs)
<1> DEFINE N == Len(txs)
           base == 0
           step == [x \in Uint64 \X (1 .. N) |-> Add64(x[1], txs[x[2]].fee)]
           Rec(g) == [p \in SUBSET (1 .. N) |->
                         IF p = {} THEN base
                         ELSE Add64(g[p \ {Max(p)}], txs[Max(p)].fee)]
           iter == CHOOSE g : g = Rec(g)
<1>1. N \in Nat /\ DOMAIN txs = 1 .. N /\ \A i \in 1 .. N : txs[i].fee \in Uint64
  BY DEF FieldsFit
<1>2. base \in Uint64
  BY LedgerAssumption DEF Uint64
<1>3. step \in [Uint64 \X (1 .. N) -> Uint64]
  <2>1. \A x, y \in Uint64 : Add64(x, y) \in Uint64
    BY AddWraps
  <2> HIDE DEF N
  <2> QED
    BY <1>1, <2>1
<1>4. FeeSum(txs) = iter[1 .. N]
  BY <1>1 DEF FeeSum, FoldLeft, MapThenFoldSet
<1>5. ASSUME NEW g, FoldsUp(g, step, base, N)
      PROVE  g = Rec(g)
  <2>1. \A p \in SUBSET (1 .. N) : g[p] \in Uint64
    <3> HIDE DEF base, step, N
    <3> QED BY <1>1, <1>2, <1>3, <1>5, FoldPrefixes
  <2>2. \A p \in SUBSET (1 .. N) : p # {} => Max(p) \in 1 .. N /\ p \ {Max(p)} \in SUBSET (1 .. N)
    <3> HIDE DEF N
    <3> QED BY <1>1, MaxSmaller
  <2>3. \A p \in SUBSET (1 .. N) : p # {} =>
            step[<<g[p \ {Max(p)}], Max(p)>>] = Add64(g[p \ {Max(p)}], txs[Max(p)].fee)
    BY <2>1, <2>2
  <2> HIDE DEF base, step, N
  <2> QED
    BY <1>5, <2>3 DEF FoldsUp
<1>6. \E g : g = Rec(g)
  <2> HIDE DEF base, step, N, Rec
  <2> QED BY <1>1, <1>2, <1>3, <1>5, FoldExists
<1> HIDE DEF Rec
<1>7. iter = Rec(iter)
  BY <1>6
<1> HIDE DEF iter
<1> DEFINE f == [n \in 0 .. N |-> iter[1 .. n]]
<1>8. 1 .. 0 = {} /\ iter[{}] = base
  BY <1>1, <1>7 DEF Rec
<1>9. ASSUME NEW n \in 1 .. N PROVE f[n] = Add64(f[n - 1], txs[n].fee)
  <2>1. n \in Nat \ {0} /\ n - 1 \in 0 .. N /\ n \in 0 .. N
    BY <1>1
  <2>2. Max(1 .. n) = n /\ (1 .. n) \ {n} = 1 .. n - 1
    BY <2>1, MaxOfPrefix
  <2>3. 1 .. n \in SUBSET (1 .. N) /\ 1 .. n # {}
    <3>1. n \in 1 .. n /\ \A i \in 1 .. n : i \in 1 .. N
      BY <1>1
    <3> QED
      BY <3>1
  <2>4. iter[1 .. n] = Add64(iter[1 .. n - 1], txs[n].fee)
    <3> HIDE DEF N, f
    <3> QED BY <1>7, <2>1, <2>2, <2>3 DEF Rec
  <2> HIDE DEF N
  <2> QED
    BY <2>1, <2>4
<1>10. f[0] = 0 /\ f[N] = iter[1 .. N]
  <2> HIDE DEF N
  <2> QED BY <1>1, <1>8
<1> HIDE DEF f
<1> QED
  BY <1>4, <1>9, <1>10 DEF FeeRuns

\* The payments of a template, each of which applies in its turn, pass the loop
\* over the payments of a block, which collects the fees the template promises.
LEMMA TemplatePays ==
    ASSUME NEW s \in Accounts, Supply(s) <= MaxUint64,
           NEW T, NEW txs \in Seq(T), \A t \in T : FieldsFit(t) /\ Verify(t),
           NEW st, Steps(st, s, txs)
    PROVE  LET acc == FoldLeft(ApplyVerified, [state |-> s, fees |-> 0], txs)
           IN  /\ acc.state \in Accounts
               /\ acc.fees = FeeSum(txs)
               /\ acc.fees \in Nat /\ acc.fees <= Supply(s)
<1> DEFINE N == Len(txs)
<1>1. PICK run : LoopRuns(run, s, txs)
  BY LoopExists
<1>2. \A n \in 0 .. N : Conserves(run[n], s)
  BY <1>1, LoopConserves
<1>3. PICK f : FeeRuns(f, txs)
  BY FeesExist
<1>4. N \in Nat /\ \A n \in 1 .. N : FieldsFit(txs[n]) /\ Verify(txs[n])
  OBVIOUS
<1>5. Invalid \notin Accounts /\ Supply(s) \in Nat /\ MaxUint64 \in Nat
  BY SupplyIsNat, ReplayAssumption, LedgerAssumption
<1> DEFINE G == {n \in 0 .. N : run[n].state = st[n] /\ run[n].state # Invalid /\ run[n].fees = f[n]}
<1>6. 0 \in G
  <2>1. run[0].state = s /\ run[0].fees = 0 /\ st[0] = s /\ f[0] = 0
    BY <1>1, <1>3 DEF LoopRuns, FeeRuns, Steps
  <2> HIDE DEF N
  <2> QED
    BY <1>4, <1>5, <2>1
<1>7. ASSUME NEW n \in 0 .. N - 1, n \in G PROVE n + 1 \in G
  <2> DEFINE a == run[n]
             c == run[n + 1]
             t == txs[n + 1]
             u == ApplyTx(a.state, t)
  <2>1. n + 1 \in 1 .. N /\ (n + 1) - 1 = n /\ n + 1 \in 0 .. N /\ n \in 0 .. N
    BY <1>4
  <2>2. c = ApplyVerified(a, t) /\ a \in Loop
    BY <1>1, <2>1 DEF LoopRuns
  <2>3. /\ a.state = st[n] /\ a.state # Invalid /\ a.fees = f[n]
        /\ a.state \in Accounts /\ a.fees \in Uint64
    BY <1>7, <2>2 DEF Loop
  <2>4. st[n + 1] = u /\ u # Invalid /\ f[n + 1] = Add64(a.fees, t.fee)
    BY <1>3, <2>1, <2>3 DEF Steps, FeeRuns
  <2>5. FieldsFit(t) /\ Verify(t) /\ t.fee \in Uint64
    BY <1>4, <2>1 DEF FieldsFit
  <2>6. Conserves(a, s)
    BY <1>2, <2>1
  <2> HIDE DEF a, c, t
  <2>7. u \in Accounts /\ Supply(a.state) \in Nat /\ Supply(u) + t.fee = Supply(a.state)
    BY <2>3, <2>4, <2>5, PaymentMoves
  <2>8. Supply(u) \in Nat /\ Supply(a.state) + a.fees = Supply(s)
    BY <2>3, <2>6, <2>7, SupplyIsNat DEF Conserves
  <2> HIDE DEF u
  <2>9. a.fees + t.fee <= MaxUint64 /\ a.fees + t.fee >= t.fee
    <3>1. a.fees \in Nat /\ t.fee \in Nat
      BY <1>5, <2>3, <2>5 DEF Uint64
    <3>2. a.fees + t.fee <= Supply(s)
      <4>1. \A x, y, z, v, w \in Nat : x + w = y /\ y + v = z => v + w <= z
        OBVIOUS
      <4> QED
        BY <1>5, <2>7, <2>8, <3>1, <4>1
    <3> QED
      BY <1>5, <3>1, <3>2
  <2>10. Add64(a.fees, t.fee) = a.fees + t.fee
    BY <2>3, <2>5, <2>9, AddWraps
  <2>11. c = [state |-> u, fees |-> Add64(a.fees, t.fee)]
    BY <2>2, <2>3, <2>4, <2>5, <2>9, <2>10 DEF ApplyVerified, u
  <2> QED
    BY <2>1, <2>4, <2>11 DEF c
<1>8. \A n \in 0 .. N : n \in G
  <2> HIDE DEF G, N
  <2> QED BY <1>4, <1>6, <1>7, CountingInduction
<1> DEFINE acc == run[N]
<1>9. /\ acc.state # Invalid /\ acc.fees = FeeSum(txs)
      /\ FoldLeft(ApplyVerified, [state |-> s, fees |-> 0], txs) = acc
  <2>1. N \in G /\ N \in 0 .. N
    BY <1>4, <1>8
  <2> QED
    BY <1>1, <1>3, <2>1 DEF LoopRuns, FeeRuns
<1>10. acc \in Loop /\ Conserves(acc, s)
  <2>1. N \in 0 .. N
    BY <1>4
  <2> QED
    BY <1>1, <1>2, <2>1 DEF LoopRuns
<1> HIDE DEF acc
<1>11. acc.state \in Accounts /\ acc.fees \in Uint64 /\ Supply(acc.state) + acc.fees = Supply(s)
  BY <1>9, <1>10 DEF Loop, Conserves
<1>12. Supply(acc.state) \in Nat
  BY <1>11, SupplyIsNat
<1>13. acc.fees \in Nat /\ acc.fees <= Supply(s)
  BY <1>5, <1>11, <1>12 DEF Uint64
<1> QED
  BY <1>9, <1>11, <1>13

-----------------------------------------------------------------------------
(***************************************************************************)
(* The loop over old, and over a list that has the txs of old in the same  *)
(* order among others.                                                     *)
(***************************************************************************)

\* What a payment does to the balances.
LEMMA PaymentBalances ==
    ASSUME NEW s \in Accounts, NEW t, FieldsFit(t), Verify(t), ApplyTx(s, t) # Invalid
    PROVE  /\ ApplyTx(s, t) \in Accounts
           /\ t.from \in Address /\ t.amount \in Nat /\ t.fee \in Nat
           /\ \A x \in Address :
                ApplyTx(s, t)[x].balance = s[x].balance
                    - (IF x = t.from THEN t.amount + t.fee ELSE 0)
                    + (IF x = t.to THEN t.amount ELSE 0)
<1> DEFINE spend == Add64(t.amount, t.fee)
           d == [s EXCEPT ![t.from] = [balance |-> s[t.from].balance - spend,
                                       nonce   |-> s[t.from].nonce + 1]]
<1>1. /\ ~IsCoinbase(t) /\ spend >= t.amount
      /\ ApplyTx(s, t) = Credit(d, t.to, t.amount)
  BY DEF ApplyTx
<1>2. t.from \in Address /\ t.to \in Address
  BY <1>1 DEF Verify
<1>3. spend = t.amount + t.fee /\ t.amount \in Nat /\ t.fee \in Nat
  <2>1. t.amount \in Uint64 /\ t.fee \in Uint64
    BY DEF FieldsFit
  <2>2. spend = t.amount + t.fee
    BY <1>1, <2>1, AddWraps
  <2> HIDE DEF spend
  <2> QED
    BY <2>1, <2>2, LedgerAssumption DEF Uint64
<1> HIDE DEF spend
<1>4. DOMAIN d = Address /\ \A x \in Address :
          d[x].balance = s[x].balance - (IF x = t.from THEN spend ELSE 0)
  <2>1. \A x \in Address : s[x].balance \in Nat
    BY DEF Accounts
  <2> QED
    BY <1>2, <2>1 DEF Accounts
<1> HIDE DEF d
<1>5. \A x \in Address : Credit(d, t.to, t.amount)[x].balance =
          d[x].balance + (IF x = t.to THEN t.amount ELSE 0)
  <2>1. ASSUME NEW x \in Address, x # t.to PROVE d[x].balance + 0 = d[x].balance
    <3>1. s[x].balance \in Nat
      BY DEF Accounts
    <3> QED
      BY <1>3, <1>4, <3>1
  <2>2. /\ Credit(d, t.to, t.amount)[t.to].balance = d[t.to].balance + t.amount
        /\ \A x \in Address \ {t.to} : Credit(d, t.to, t.amount)[x] = d[x]
    BY <1>2, <1>4 DEF Credit
  <2> QED
    BY <1>2, <2>1, <2>2
<1>6. ApplyTx(s, t) \in Accounts
  BY PaymentMoves
<1> QED
  BY <1>1, <1>2, <1>3, <1>4, <1>5, <1>6

\* A payment that applies, applies to an account with as much or more.
LEMMA PaymentAgain ==
    ASSUME NEW u \in Accounts, NEW v \in Accounts, NEW t, FieldsFit(t), Verify(t),
           ApplyTx(u, t) # Invalid,
           v[t.from].nonce = u[t.from].nonce, v[t.from].balance >= u[t.from].balance
    PROVE  ApplyTx(v, t) # Invalid
<1> DEFINE spend == Add64(t.amount, t.fee)
           d == [v EXCEPT ![t.from] = [balance |-> v[t.from].balance - spend,
                                       nonce   |-> v[t.from].nonce + 1]]
<1>1. /\ ~IsCoinbase(t) /\ NonceFits(u, t) /\ spend >= t.amount
      /\ u[t.from].balance >= spend
  BY DEF ApplyTx
<1>2. t.from \in Address /\ t.to \in Address
  BY <1>1 DEF Verify
<1>3. spend \in Nat /\ t.amount \in Nat
  <2>1. t.amount \in Uint64 /\ t.fee \in Uint64
    BY DEF FieldsFit
  <2>2. spend \in Uint64
    BY <2>1, AddWraps
  <2> HIDE DEF spend
  <2> QED
    BY <2>1, <2>2, LedgerAssumption DEF Uint64
<1> HIDE DEF spend
<1>4. /\ u[t.from].balance \in Nat /\ v[t.from].balance \in Nat
      /\ v[t.from].nonce \in Nat
  BY <1>2 DEF Accounts
<1>5. v[t.from].balance >= spend
  BY <1>1, <1>3, <1>4
<1>6. ApplyTx(v, t) = Credit(d, t.to, t.amount)
  BY <1>1, <1>5 DEF ApplyTx, NonceFits, spend
<1>7. d \in Accounts
  BY <1>2, <1>3, <1>4, <1>5 DEF Accounts
<1> HIDE DEF d
<1>8. Credit(d, t.to, t.amount) \in Accounts
  BY <1>2, <1>3, <1>7, CreditAdds
<1> QED
  BY <1>6, <1>8, ReplayAssumption

\* No tx of old after the first j carries the nonce that x has in u.
Spent(old, j, u, x) ==
    \A i \in j + 1 .. Len(old) : old[i].from = x => old[i].nonce # u[x].nonce

\* Whoever can still pay in u after the first j txs of old, can in v.
Follows(old, j, u, v) ==
    \A x \in Address : \/ Spent(old, j, u, x)
                       \/ /\ v[x].nonce = u[x].nonce
                          /\ v[x].balance >= u[x].balance

\* A payment applies to v that is none of the remaining ones.
LEMMA FollowsForeign ==
    ASSUME NEW old, NEW j, NEW u \in Accounts, NEW v \in Accounts, Follows(old, j, u, v),
           NEW t, FieldsFit(t), Verify(t), ApplyTx(v, t) # Invalid,
           \A i \in j + 1 .. Len(old) : old[i].from = t.from => old[i].nonce # t.nonce
    PROVE  ApplyTx(v, t) \in Accounts /\ Follows(old, j, u, ApplyTx(v, t))
<1> DEFINE w == ApplyTx(v, t)
<1>1. /\ w \in Accounts
      /\ t.from \in Address /\ t.amount \in Nat /\ t.fee \in Nat
      /\ \A x \in Address :
           w[x].balance = v[x].balance - (IF x = t.from THEN t.amount + t.fee ELSE 0)
                                       + (IF x = t.to THEN t.amount ELSE 0)
  BY PaymentBalances
<1>2. /\ t.nonce = v[t.from].nonce
      /\ \A x \in Address \ {t.from} : w[x].nonce = v[x].nonce
  BY PaymentCounts
<1> HIDE DEF w
<1>3. ASSUME NEW x \in Address, ~Spent(old, j, u, x)
      PROVE  w[x].nonce = u[x].nonce /\ w[x].balance >= u[x].balance
  <2>1. v[x].nonce = u[x].nonce /\ v[x].balance >= u[x].balance
    BY <1>3 DEF Follows
  <2>2. x # t.from
    BY <1>2, <1>3, <2>1 DEF Spent
  <2>3. u[x].balance \in Nat /\ v[x].balance \in Nat
    BY DEF Accounts
  <2>4. w[x].balance = v[x].balance - 0 + (IF x = t.to THEN t.amount ELSE 0)
    BY <1>1, <2>2
  <2>5. w[x].balance >= v[x].balance /\ w[x].balance \in Nat
    BY <1>1, <2>3, <2>4
  <2> QED
    BY <1>2, <2>1, <2>2, <2>3, <2>5
<1> QED
  BY <1>1, <1>3 DEF Follows, w

\* One tx of old less remains.
LEMMA FollowsOn ==
    ASSUME NEW old, NEW j \in Nat, NEW u, NEW v, Follows(old, j, u, v), Len(old) \in Nat
    PROVE  Follows(old, j + 1, u, v)
<1>1. \A i : i \in (j + 1) + 1 .. Len(old) => i \in j + 1 .. Len(old)
  OBVIOUS
<1> QED
  BY <1>1 DEF Follows, Spent

\* A payment of old that applies to u, applies to v.
LEMMA FollowsBoth ==
    ASSUME NEW old, NEW j \in Nat, NEW u \in Accounts, NEW v \in Accounts,
           Follows(old, j, u, v), Len(old) \in Nat, j + 1 <= Len(old),
           NEW t, t = old[j + 1], FieldsFit(t), Verify(t), ApplyTx(u, t) # Invalid
    PROVE  /\ ApplyTx(u, t) \in Accounts /\ ApplyTx(v, t) \in Accounts
           /\ ApplyTx(v, t) # Invalid
           /\ Follows(old, j + 1, ApplyTx(u, t), ApplyTx(v, t))
<1> DEFINE u1 == ApplyTx(u, t)
           v1 == ApplyTx(v, t)
           N == Len(old)
<1>1. /\ t.from \in Address /\ t.nonce = u[t.from].nonce
      /\ u1[t.from].nonce = u[t.from].nonce + 1
      /\ \A c \in Address \ {t.from} : u1[c].nonce = u[c].nonce
  BY PaymentCounts
<1>2. ~Spent(old, j, u, t.from)
  <2>1. j + 1 \in j + 1 .. Len(old)
    OBVIOUS
  <2> QED
    BY <1>1, <2>1 DEF Spent
<1>3. v[t.from].nonce = u[t.from].nonce /\ v[t.from].balance >= u[t.from].balance
  BY <1>1, <1>2 DEF Follows
<1>4. v1 # Invalid
  BY <1>3, PaymentAgain
<1>5. /\ v1[t.from].nonce = v[t.from].nonce + 1
      /\ \A c \in Address \ {t.from} : v1[c].nonce = v[c].nonce
  BY <1>4, PaymentCounts
<1>6. /\ u1 \in Accounts /\ t.amount \in Nat /\ t.fee \in Nat
      /\ \A x \in Address :
           u1[x].balance = u[x].balance - (IF x = t.from THEN t.amount + t.fee ELSE 0)
                                        + (IF x = t.to THEN t.amount ELSE 0)
  BY PaymentBalances
<1>7. /\ v1 \in Accounts
      /\ \A x \in Address :
           v1[x].balance = v[x].balance - (IF x = t.from THEN t.amount + t.fee ELSE 0)
                                        + (IF x = t.to THEN t.amount ELSE 0)
  BY <1>4, PaymentBalances
<1> HIDE DEF u1, v1
<1>8. ASSUME NEW x \in Address, v[x].balance >= u[x].balance
      PROVE  v1[x].balance >= u1[x].balance
  <2>1. u[x].balance \in Nat /\ v[x].balance \in Nat
    BY DEF Accounts
  <2>2. \A a, b, c, d \in Int : b >= a => b - c + d >= a - c + d
    OBVIOUS
  <2>3. \E c, d \in Int : /\ u1[x].balance = u[x].balance - c + d
                          /\ v1[x].balance = v[x].balance - c + d
    <3>1. (IF x = t.from THEN t.amount + t.fee ELSE 0) \in Int
      BY <1>6
    <3>2. (IF x = t.to THEN t.amount ELSE 0) \in Int
      BY <1>6
    <3> QED
      BY <1>6, <1>7, <3>1, <3>2
  <2> QED
    BY <1>8, <2>1, <2>2, <2>3
<1>9. ASSUME NEW x \in Address, ~Spent(old, j + 1, u1, x)
      PROVE  v1[x].nonce = u1[x].nonce /\ v1[x].balance >= u1[x].balance
  <2>1. CASE x = t.from
    BY <1>1, <1>3, <1>5, <1>8, <2>1
  <2>2. CASE x # t.from
    <3>1. u1[x].nonce = u[x].nonce /\ v1[x].nonce = v[x].nonce
      BY <1>1, <1>5, <2>2
    <3>2. \A i : i \in (j + 1) + 1 .. Len(old) => i \in j + 1 .. Len(old)
      OBVIOUS
    <3>3. ~Spent(old, j, u, x)
      BY <1>9, <3>1, <3>2 DEF Spent
    <3>4. v[x].nonce = u[x].nonce /\ v[x].balance >= u[x].balance
      BY <3>3 DEF Follows
    <3> QED
      BY <1>8, <3>1, <3>4
  <2> QED
    BY <2>1, <2>2
<1>10. Follows(old, j + 1, u1, v1)
  BY <1>9 DEF Follows
<1> QED
  BY <1>4, <1>6, <1>7, <1>10 DEF u1, v1

LEMMA RangeOfAppend ==
    ASSUME NEW T, NEW l \in Seq(T), NEW t \in T
    PROVE  Range(Append(l, t)) = Range(l) \cup {t}
<1> DEFINE N == Len(l)
           k == Append(l, t)
<1>1. /\ N \in Nat /\ DOMAIN l = 1 .. N /\ DOMAIN k = 1 .. N + 1
      /\ k[N + 1] = t /\ \A n \in 1 .. N : k[n] = l[n]
  OBVIOUS
<1>2. \A n : n \in 1 .. N + 1 <=> n \in 1 .. N \/ n = N + 1
  BY <1>1
<1> HIDE DEF N, k
<1>3. ASSUME NEW x PROVE x \in Range(k) <=> x \in Range(l) \/ x = t
  BY <1>1, <1>2 DEF Range
<1> QED
  BY <1>3 DEF k

\* The txs of old, in the order of their times, are among those of order, which
\* is sorted by time; a payment of order with sender and nonce of one of old is
\* that one.
Returning(old, order, skip) ==
    /\ \A i \in 1 .. Len(old) : /\ FieldsFit(old[i]) /\ Verify(old[i])
                                /\ old[i].time \in Int
                                /\ old[i] \notin skip
                                /\ \E k \in 1 .. Len(order) : order[k] = old[i]
    /\ \A i, h \in 1 .. Len(old) : i < h => old[i].time < old[h].time
    /\ \A k, m \in 1 .. Len(order) : k < m => ~(order[m].time < order[k].time)
    /\ \A k \in 1 .. Len(order) : order[k] \notin skip =>
         /\ FieldsFit(order[k]) /\ Verify(order[k])
         /\ \A i \in 1 .. Len(old) :
              old[i].from = order[k].from /\ old[i].nonce = order[k].nonce
                => old[i] = order[k]

\* Txs of old are met in their order.
LEMMA MetInOrder ==
    ASSUME NEW old, NEW order, NEW skip, Returning(old, order, skip),
           Len(old) \in Nat, Len(order) \in Nat,
           NEW k \in 1 .. Len(order), NEW i \in 1 .. Len(old), NEW j \in 1 .. Len(old),
           order[k] = old[i], \A m \in 1 .. k - 1 : order[m] # old[j]
    PROVE  i <= j
<1>1. SUFFICES ASSUME j < i PROVE FALSE
  OBVIOUS
<1>2. /\ old[j].time < old[i].time /\ old[j].time \in Int /\ old[i].time \in Int
  BY <1>1 DEF Returning
<1>3. PICK m \in 1 .. Len(order) : order[m] = old[j]
  BY DEF Returning
<1>4. m # k
  BY <1>2, <1>3
<1>5. ~(m \in 1 .. k - 1)
  BY <1>3
<1>6. k < m
  BY <1>4, <1>5
<1>7. ~(order[m].time < order[k].time)
  BY <1>6 DEF Returning
<1> QED
  BY <1>2, <1>3, <1>7

\* After k txs of order and the first j of old, which are those met so far.
Abreast(old, order, p, q, T, k, j) ==
    /\ j \in 0 .. Len(old)
    /\ \A i \in 1 .. Len(old) : i <= j <=> \E m \in 1 .. k : order[m] = old[i]
    /\ p[j].state \in Accounts /\ p[j].kept \in Seq(T)
    /\ q[k].state \in Accounts /\ q[k].kept \in Seq(T)
    /\ Follows(old, j, p[j].state, q[k].state)
    /\ Range(p[j].kept) \subseteq Range(q[k].kept)

\* One tx of order more.
LEMMA AbreastStep ==
    ASSUME NEW T, NEW old \in Seq(T), NEW order \in Seq(T), NEW skip,
           Returning(old, order, skip),
           NEW p, Keeps(p, old, {}, Len(old)),
           NEW q, Keeps(q, order, skip, Len(order)),
           NEW k \in 0 .. Len(order) - 1, NEW j, Abreast(old, order, p, q, T, k, j)
    PROVE  \E h : Abreast(old, order, p, q, T, k + 1, h)
<1> DEFINE N == Len(old)
           M == Len(order)
           n == k + 1
           t == order[n]
           u == p[j].state
           v == q[k].state
<1>1. /\ N \in Nat /\ M \in Nat /\ n \in 1 .. M /\ n - 1 = k
      /\ t \in T /\ j \in 0 .. N
  BY DEF Abreast
<1>2. /\ u \in Accounts /\ v \in Accounts /\ Follows(old, j, u, v)
      /\ p[j].kept \in Seq(T) /\ q[k].kept \in Seq(T)
      /\ Range(p[j].kept) \subseteq Range(q[k].kept)
      /\ \A i \in 1 .. N : i <= j <=> \E m \in 1 .. k : order[m] = old[i]
  BY DEF Abreast
<1>3. q[n] = KeepApplicable(q[k], t, skip)
  BY <1>1 DEF Keeps
<1>4. ASSUME NEW i \in 1 .. N
      PROVE  (\E m \in 1 .. n : order[m] = old[i]) <=> i <= j \/ old[i] = t
  <2>1. \A m : m \in 1 .. n <=> m \in 1 .. k \/ m = n
    BY <1>1
  <2> QED
    BY <1>2, <2>1
<1>5. t \notin skip => /\ FieldsFit(t) /\ Verify(t)
                       /\ \A i \in 1 .. N : old[i].from = t.from /\ old[i].nonce = t.nonce
                                             => old[i] = t
  BY <1>1 DEF Returning
<1> HIDE DEF u, v, t
\* The ledger v alone moves on, or does not.
<1>6. ASSUME NEW h \in 0 .. N, Follows(old, h, u, v), \A i \in h + 1 .. N : old[i] # t
      PROVE  /\ q[n].state \in Accounts /\ q[n].kept \in Seq(T)
             /\ Follows(old, h, u, q[n].state)
             /\ Range(q[k].kept) \subseteq Range(q[n].kept)
  <2>1. CASE t \in skip \/ ApplyTx(v, t) = Invalid
    <3>1. q[n] = q[k]
      BY <1>3, <2>1 DEF KeepApplicable, v
    <3> QED
      BY <1>2, <1>6, <3>1 DEF v
  <2>2. CASE ~(t \in skip \/ ApplyTx(v, t) = Invalid)
    <3>1. q[n].state = ApplyTx(v, t) /\ q[n].kept = Append(q[k].kept, t)
      BY <1>3, <2>2 DEF KeepApplicable, v
    <3>2. \A i \in h + 1 .. Len(old) : old[i].from = t.from => old[i].nonce # t.nonce
      <4>1. \A i \in h + 1 .. N : i \in 1 .. N
        BY <1>1
      <4> QED
        BY <1>5, <1>6, <2>2, <4>1
    <3>3. ApplyTx(v, t) \in Accounts /\ Follows(old, h, u, ApplyTx(v, t))
      BY <1>2, <1>5, <1>6, <2>2, <3>2, FollowsForeign
    <3>4. Append(q[k].kept, t) \in Seq(T)
      BY <1>1, <1>2
    <3>5. Range(Append(q[k].kept, t)) = Range(q[k].kept) \cup {t}
      BY <1>1, <1>2, RangeOfAppend
    <3> QED
      BY <3>1, <3>3, <3>4, <3>5
  <2> QED
    BY <2>1, <2>2
<1>7. CASE \A i \in j + 1 .. N : old[i] # t
  <2>1. \A i \in 1 .. N : old[i] = t => i <= j
    BY <1>1, <1>7
  <2>2. Abreast(old, order, p, q, T, n, j)
    BY <1>1, <1>2, <1>4, <1>6, <1>7, <2>1 DEF Abreast, u
  <2> QED
    BY <2>2
<1>8. CASE \E i \in j + 1 .. N : old[i] = t
  <2> DEFINE h == j + 1
  <2>1. PICK i \in j + 1 .. N : old[i] = t
    BY <1>8
  <2>2. h \in 1 .. N /\ i \in 1 .. N /\ h - 1 = j /\ h \in 0 .. N /\ j \in Nat /\ h <= Len(old)
    BY <1>1
  <2>3. i = h
    <3>1. \A m \in 1 .. n - 1 : order[m] # old[h]
      BY <1>1, <1>2, <2>2
    <3>2. order[n] = old[i]
      BY <2>1 DEF t
    <3>3. i <= h
      BY <1>1, <2>2, <3>1, <3>2, MetInOrder
    <3> QED
      BY <2>2, <3>3
  <2>4. t = old[h] /\ t \notin skip /\ FieldsFit(t) /\ Verify(t)
    BY <2>1, <2>2, <2>3 DEF Returning
  <2>5. \A m \in 1 .. N : old[m] = t => m = h
    <3>1. ASSUME NEW m \in 1 .. N, old[m] = t PROVE ~(m < h) /\ ~(h < m)
      <4>1. old[m].time \in Int /\ old[h].time = old[m].time
        BY <2>2, <2>4, <3>1 DEF Returning
      <4>2. /\ m < h => old[m].time < old[h].time
            /\ h < m => old[h].time < old[m].time
        BY <2>2 DEF Returning
      <4> QED
        BY <4>1, <4>2
    <3> QED
      BY <2>2, <3>1
  <2>6. \A m \in 1 .. N : m <= h <=> m <= j \/ old[m] = t
    BY <1>1, <2>4, <2>5
  <2>7. p[h] = KeepApplicable(p[j], t, {})
    BY <2>2, <2>4 DEF Keeps
  <2>8. CASE ApplyTx(u, t) = Invalid
    <3>1. p[h] = p[j]
      BY <2>7, <2>8 DEF KeepApplicable, u
    <3>2. Follows(old, h, u, v)
      BY <1>1, <1>2, <2>2, FollowsOn
    <3>3. \A m \in h + 1 .. N : old[m] # t
      BY <1>1, <2>5
    <3>4. /\ q[n].state \in Accounts /\ q[n].kept \in Seq(T)
          /\ Follows(old, h, u, q[n].state)
          /\ Range(q[k].kept) \subseteq Range(q[n].kept)
      BY <1>6, <2>2, <3>2, <3>3
    <3>5. Abreast(old, order, p, q, T, n, h)
      BY <1>2, <1>4, <2>2, <2>6, <3>1, <3>4 DEF Abreast, u
    <3> QED
      BY <3>5
  <2>9. CASE ApplyTx(u, t) # Invalid
    <3>1. /\ ApplyTx(u, t) \in Accounts /\ ApplyTx(v, t) \in Accounts
          /\ ApplyTx(v, t) # Invalid
          /\ Follows(old, h, ApplyTx(u, t), ApplyTx(v, t))
      BY <1>1, <1>2, <2>2, <2>4, <2>9, FollowsBoth
    <3>2. /\ p[h].state = ApplyTx(u, t) /\ p[h].kept = Append(p[j].kept, t)
          /\ q[n].state = ApplyTx(v, t) /\ q[n].kept = Append(q[k].kept, t)
      <4>1. p[h] = [state |-> ApplyTx(u, t), kept |-> Append(p[j].kept, t)]
        BY <2>7, <2>9 DEF KeepApplicable, u
      <4>2. q[n] = [state |-> ApplyTx(v, t), kept |-> Append(q[k].kept, t)]
        BY <1>3, <2>4, <3>1 DEF KeepApplicable, v
      <4>3. p[h].state = ApplyTx(u, t) /\ p[h].kept = Append(p[j].kept, t)
        BY ONLY <4>1
      <4>4. q[n].state = ApplyTx(v, t) /\ q[n].kept = Append(q[k].kept, t)
        BY ONLY <4>2
      <4> QED
        BY <4>3, <4>4
    <3>3. /\ Range(Append(p[j].kept, t)) = Range(p[j].kept) \cup {t}
          /\ Range(Append(q[k].kept, t)) = Range(q[k].kept) \cup {t}
      BY <1>1, <1>2, RangeOfAppend
    <3>4. Append(p[j].kept, t) \in Seq(T) /\ Append(q[k].kept, t) \in Seq(T)
      BY <1>1, <1>2
    <3>5. Range(p[h].kept) \subseteq Range(q[n].kept)
      BY <1>2, <3>2, <3>3
    <3>6. Abreast(old, order, p, q, T, n, h)
      BY <1>4, <2>2, <2>6, <3>1, <3>2, <3>4, <3>5 DEF Abreast
    <3> QED
      BY <3>6
  <2> QED
    BY <2>8, <2>9
<1> QED
  BY <1>7, <1>8

\* What applies of old returns.
LEMMA WhatAppliesReturns ==
    ASSUME NEW s \in Accounts, NEW T, NEW old \in Seq(T), NEW order \in Seq(T), NEW skip,
           Returning(old, order, skip)
    PROVE  Range(ApplyInOrder(s, old).kept) \subseteq Range(ApplyUsable(s, order, skip).kept)
<1> DEFINE N == Len(old)
           M == Len(order)
<1>1. N \in Nat /\ M \in Nat /\ DOMAIN old = 1 .. N /\ DOMAIN order = 1 .. M
  OBVIOUS
<1> HIDE DEF N, M
<1>2. PICK p : UsableRuns(p, s, old, {}, N)
  BY <1>1, UsableExists
<1>3. PICK q : UsableRuns(q, s, order, skip, M)
  BY <1>1, UsableExists
<1> DEFINE Inv(k) == \E j : Abreast(old, order, p, q, T, k, j)
           G == {k \in 0 .. M : Inv(k)}
<1>4. 0 \in G
  <2>1. p[0] = [state |-> s, kept |-> << >>] /\ q[0] = [state |-> s, kept |-> << >>]
    BY <1>2, <1>3 DEF UsableRuns
  <2>2. Follows(old, 0, s, s)
    <3>1. \A x \in Address : s[x].balance \in Nat
      BY DEF Accounts
    <3> QED
      BY <3>1 DEF Follows
  <2>3. 0 \in 0 .. N /\ 1 .. 0 = {} /\ \A i \in 1 .. N : ~(i <= 0)
    BY <1>1
  <2>4. \A i \in 1 .. N : i <= 0 <=> \E m \in 1 .. 0 : order[m] = old[i]
    BY <2>3
  <2>5. /\ p[0].state = s /\ p[0].kept = << >> /\ q[0].state = s /\ q[0].kept = << >>
        /\ << >> \in Seq(T)
    BY <2>1
  <2>6. Abreast(old, order, p, q, T, 0, 0)
    BY <2>2, <2>3, <2>4, <2>5 DEF Abreast, N
  <2> QED
    BY <1>1, <2>6
<1>5. ASSUME NEW k \in 0 .. M - 1, k \in G PROVE k + 1 \in G
  <2>1. PICK j : Abreast(old, order, p, q, T, k, j)
    BY <1>5
  <2>2. Keeps(p, old, {}, Len(old)) /\ Keeps(q, order, skip, Len(order))
    BY <1>2, <1>3 DEF UsableRuns, N, M
  <2>3. k \in 0 .. Len(order) - 1
    BY DEF M
  <2>4. \E h : Abreast(old, order, p, q, T, k + 1, h)
    BY <2>1, <2>2, <2>3, AbreastStep
  <2>5. k + 1 \in 0 .. M
    BY <1>1
  <2> QED
    BY <2>4, <2>5
<1>6. Inv(M)
  <2>1. \A k \in 0 .. M : k \in G
    <3> HIDE DEF G
    <3> QED BY <1>1, <1>4, <1>5, CountingInduction
  <2> QED
    BY <1>1, <2>1
<1>7. PICK j : Abreast(old, order, p, q, T, M, j)
  BY <1>6
<1>8. j = N
  <2>1. j \in 0 .. N /\ \A i \in 1 .. N : i <= j <=> \E m \in 1 .. M : order[m] = old[i]
    BY <1>7 DEF Abreast, N
  <2>2. \A i \in 1 .. N : \E m \in 1 .. M : order[m] = old[i]
    BY DEF Returning, N, M
  <2>3. \A i \in 1 .. N : i <= j
    BY <2>1, <2>2
  <2> QED
    BY <1>1, <2>1, <2>3
<1>9. Range(p[N].kept) \subseteq Range(q[M].kept)
  BY <1>7, <1>8 DEF Abreast
<1> QED
  BY <1>2, <1>3, <1>9 DEF UsableRuns, ApplyInOrder
=============================================================================
