---------------------------- MODULE RelayProofs ----------------------------
(***************************************************************************)
(* Proofs about Relay, for every set of nodes, links and transactions.     *)
(***************************************************************************)
EXTENDS Relay, FiniteSetTheorems, TLAPS

\* The messages about transactions in S.
Message(S) ==
    {Version, GetMempool} \cup {NewTx(t) : t \in S} \cup {Mempool(l) : l \in Seq(S)}

\* The types of all variables.
Types ==
    /\ signed \subseteq Tx
    /\ conns \subseteq Links
    /\ pool \in [Node -> Seq(signed)]
    /\ peers \in [Node -> SUBSET Node]
    /\ wire \in [Node -> [Node -> Seq(Message(signed))]]
    /\ spawned \in [Node -> [Node -> SUBSET Message(signed)]]
    /\ reply \in [Node -> [Node -> Seq(signed) \cup {Nil}]]
    /\ batch \in [Node -> [Node -> Seq(signed)]]

\* Nothing is under way between nodes that are not connected, but what their
\* read loops have begun with; and a node does not talk to itself.
Unconnected ==
    /\ \A n, p \in Node : ~Connected(n, p) =>
         wire[n][p] = << >> /\ spawned[n][p] = {} /\ p \notin peers[n]
    /\ \A n \in Node : reply[n][n] = Nil /\ batch[n][n] = << >>

\* A mempool has no tx twice, and those of one sender in the order of their
\* nonces, from the first one on.
InOrder(s) ==
    /\ \A i, j \in 1 .. Len(s) : s[i] = s[j] => i = j
    /\ \A i \in 1 .. Len(s) :
         Nonce[s[i]] = Cardinality({j \in 1 .. i - 1 : From[s[j]] = From[s[i]]})
    /\ \A i \in 1 .. Len(s) :
         \E j \in 1 .. Len(s) : From[s[j]] = From[s[i]] /\ First(s[j])

PoolsInOrder == \A n \in Node : InOrder(pool[n])

\* The transactions in a message.
Carried(m) ==
    IF m.type = "newtx" THEN {m.tx} ELSE IF m.type = "mempool" THEN Range(m.txs) ELSE {}

\* Tx t is under way from n to p.
Underway(t, n, p) ==
    \/ \E m \in Range(wire[n][p]) : t \in Carried(m)
    \/ \E m \in spawned[n][p] : t \in Carried(m)
    \/ reply[n][p] # Nil /\ t \in Range(reply[n][p])
    \/ t \in Range(batch[p][n])

\* As long as n has yet to register p, p's version is first in its FIFO, and the
\* request that p makes once it has registered n is behind it.
HandshakeOf(n, p) ==
    p \notin peers[n] =>
        /\ wire[p][n] # << >> /\ Head(wire[p][n]) = Version
        /\ Version \in Range(wire[n][p]) \/ GetMempool \in Range(wire[p][n])

\* n sends nothing to p that it does not have itself.
BackedBy(n, p) == \A t \in Tx : Underway(t, n, p) => t \in Pool(n)

\* A tx that depends on no other, that n would send in a reply and that p holds
\* none in place of is under way from n to p, or will be sent in the reply to a
\* request that p has made or will make.
CoveredFor(n, p) ==
    \A t \in Range(Snapshot(n)) : First(t) =>
        \/ Holds(p, t)
        \/ Underway(t, n, p)
        \/ GetMempool \in Range(wire[p][n])
        \/ Version \in Range(wire[n][p])

PairInv(n, p) == HandshakeOf(n, p) /\ BackedBy(n, p) /\ CoveredFor(n, p)

BaseInv == Types /\ Unconnected /\ PoolsInOrder
ExchangeInv == \A n, p \in Node : Connected(n, p) => PairInv(n, p)

-----------------------------------------------------------------------------
(***************************************************************************)
(* Sequences and messages.                                                 *)
(***************************************************************************)
LEMMA RangeAppend ==
    ASSUME NEW S, NEW s \in Seq(S), NEW x \in S
    PROVE  /\ Append(s, x) \in Seq(S) /\ s \o <<x>> = Append(s, x)
           /\ Range(Append(s, x)) = Range(s) \cup {x}
<1>1. Append(s, x) \in Seq(S) /\ s \o <<x>> = Append(s, x)
  OBVIOUS
<1>2. DOMAIN Append(s, x) = 1 .. Len(s) + 1 /\ DOMAIN s = 1 .. Len(s) /\ Len(s) \in Nat
  OBVIOUS
<1>3. (\A i \in 1 .. Len(s) : Append(s, x)[i] = s[i]) /\ Append(s, x)[Len(s) + 1] = x
  OBVIOUS
<1> QED
  BY <1>1, <1>2, <1>3 DEF Range

LEMMA RangeRest ==
    ASSUME NEW S, NEW s \in Seq(S), s # << >>
    PROVE  /\ SubSeq(s, 2, Len(s)) = Tail(s) /\ Tail(s) \in Seq(S) /\ Head(s) \in S
           /\ Range(s) = Range(Tail(s)) \cup {Head(s)}
<1>1. Len(s) \in Nat /\ Len(s) > 0 /\ DOMAIN s = 1 .. Len(s)
  OBVIOUS
<1>2. Tail(s) \in Seq(S) /\ Head(s) \in S /\ Head(s) = s[1]
  OBVIOUS
<1>3. DOMAIN Tail(s) = 1 .. Len(s) - 1 /\ \A i \in 1 .. Len(s) - 1 : Tail(s)[i] = s[i + 1]
  OBVIOUS
<1>4. SubSeq(s, 2, Len(s)) = Tail(s)
  OBVIOUS
<1>5. ASSUME NEW x \in Range(s) PROVE x \in Range(Tail(s)) \cup {Head(s)}
  <2>1. PICK i \in 1 .. Len(s) : x = s[i]
    BY <1>1 DEF Range
  <2>2. CASE i = 1
    BY <1>2, <2>1, <2>2
  <2>3. CASE i # 1
    <3>1. i - 1 \in 1 .. Len(s) - 1 /\ (i - 1) + 1 = i
      BY <1>1, <2>3
    <3>2. Tail(s)[i - 1] = s[i] /\ i - 1 \in DOMAIN Tail(s)
      BY <1>3, <3>1
    <3> QED
      BY <2>1, <3>2 DEF Range
  <2> QED
    BY <2>2, <2>3
<1>6. Head(s) \in Range(s)
  BY <1>1, <1>2 DEF Range
<1>7. ASSUME NEW x \in Range(Tail(s)) PROVE x \in Range(s)
  <2>1. PICK i \in 1 .. Len(s) - 1 : x = Tail(s)[i]
    BY <1>3 DEF Range
  <2>2. i + 1 \in 1 .. Len(s)
    BY <1>1
  <2> QED
    BY <1>1, <1>3, <2>1, <2>2 DEF Range
<1> QED
  BY <1>2, <1>4, <1>5, <1>6, <1>7

LEMMA RangeIn ==
    ASSUME NEW S, NEW s \in Seq(S)
    PROVE  Range(s) \subseteq S /\ (s = << >> => Range(s) = {}) /\ SubSeq(s, 1, Len(s)) = s
           /\ s \o << >> = s
<1>1. Range(s) \subseteq S /\ (s = << >> => Range(s) = {})
  BY DEF Range
<1> QED
  BY <1>1

\* What messages carry.
LEMMA Messages ==
    /\ Carried(Version) = {} /\ Carried(GetMempool) = {}
    /\ \A t : Carried(NewTx(t)) = {t} /\ NewTx(t).tx = t
    /\ \A l : Carried(Mempool(l)) = Range(l) /\ Mempool(l).txs = l
    /\ Version.type = "version" /\ GetMempool.type = "getmempool"
    /\ \A t : NewTx(t).type = "newtx"
    /\ \A l : Mempool(l).type = "mempool"
BY DEF Carried, Version, GetMempool, NewTx, Mempool

LEMMA MessageKinds ==
    ASSUME NEW S, NEW m \in Message(S)
    PROVE  /\ Carried(m) \subseteq S
           /\ m.type = "version" => m = Version
           /\ m.type = "getmempool" => m = GetMempool
           /\ m.type = "newtx" => m.tx \in S /\ Carried(m) = {m.tx} /\ m = NewTx(m.tx)
           /\ m.type = "mempool" => m.txs \in Seq(S) /\ Carried(m) = Range(m.txs)
<1>1. CASE m \in {Version, GetMempool}
  BY <1>1, Messages DEF Version, GetMempool
<1>2. ASSUME NEW t \in S, m = NewTx(t)
      PROVE  m.type = "newtx" /\ m.tx = t /\ Carried(m) = {t}
  BY <1>2, Messages
<1>3. ASSUME NEW l \in Seq(S), m = Mempool(l)
      PROVE  m.type = "mempool" /\ m.txs = l /\ Carried(m) = Range(l) /\ Range(l) \subseteq S
  BY <1>3, Messages, RangeIn
<1> QED
  BY <1>1, <1>2, <1>3 DEF Message

\* More transactions, more messages.
LEMMA MessagesGrow ==
    ASSUME NEW S, NEW R, S \subseteq R
    PROVE  Seq(S) \subseteq Seq(R) /\ Message(S) \subseteq Message(R)
           /\ Seq(Message(S)) \subseteq Seq(Message(R))
<1>1. ASSUME NEW A, NEW B, A \subseteq B PROVE Seq(A) \subseteq Seq(B)
  BY <1>1
<1>2. Seq(S) \subseteq Seq(R)
  BY <1>1
<1>3. Message(S) \subseteq Message(R)
  BY <1>2 DEF Message
<1> QED
  BY <1>1, <1>2, <1>3

-----------------------------------------------------------------------------
(***************************************************************************)
(* AddTx.                                                                  *)
(***************************************************************************)
\* The transactions of sender f, and their positions.
OfSender(s, f) == {u \in Range(s) : From[u] = f}
SpotsOf(s, f) == {j \in 1 .. Len(s) : From[s[j]] = f}

\* In a mempool without repetitions the transactions of a sender are as many as
\* their positions.
LEMMA CountPositions ==
    ASSUME NEW S, NEW s \in Seq(S), NEW f,
           \A i, j \in 1 .. Len(s) : s[i] = s[j] => i = j
    PROVE  Cardinality(OfSender(s, f)) = Cardinality(SpotsOf(s, f))
<1> DEFINE P == {j \in 1 .. Len(s) : From[s[j]] = f}
           U == {u \in Range(s) : From[u] = f}
           g == [j \in P |-> s[j]]
<1>1. Len(s) \in Nat /\ DOMAIN s = 1 .. Len(s)
  OBVIOUS
<1>2. IsFiniteSet(P)
  <2>1. IsFiniteSet(1 .. Len(s))
    BY <1>1, FS_Interval
  <2> QED
    BY <2>1, FS_Subset
<1>3. g \in [P -> U]
  BY <1>1 DEF Range
<1>4. \A a, b \in P : g[a] = g[b] => a = b
  OBVIOUS
<1>5. \A u \in U : \E j \in P : g[j] = u
  BY <1>1 DEF Range
<1>6. g \in Bijection(P, U)
  <2> HIDE DEF g, P, U
  <2> QED
    BY <1>3, <1>4, <1>5 DEF Bijection, Injection, Surjection, IsInjective
<1>7. ExistsBijection(P, U)
  BY <1>6 DEF ExistsBijection
<1> HIDE DEF P, U
<1>8. IsFiniteSet(U) /\ Cardinality(U) = Cardinality(P)
  BY <1>2, <1>7, FS_Bijection
<1> QED
  BY <1>8 DEF P, U, OfSender, SpotsOf

\* A tx that depends on no other is accepted, unless the node holds one in its
\* place.
LEMMA FirstAcceptable ==
    ASSUME Types, PoolsInOrder, NEW n \in Node, NEW t \in Tx, First(t), ~Holds(n, t)
    PROVE  Acceptable(n, t)
<1>1. pool[n] \in Seq(signed) /\ InOrder(pool[n])
  BY DEF Types, PoolsInOrder
<1>2. ASSUME NEW u \in Pool(n), From[u] = From[t] PROVE FALSE
  <2>1. PICK i \in 1 .. Len(pool[n]) : u = pool[n][i]
    BY <1>1 DEF Pool, Range
  <2>2. PICK j \in 1 .. Len(pool[n]) : From[pool[n][j]] = From[u] /\ First(pool[n][j])
    BY <1>1, <2>1 DEF InOrder
  <2>3. pool[n][j] \in Pool(n)
    BY <1>1 DEF Pool, Range
  <2> QED
    BY <1>2, <2>2, <2>3 DEF First, Holds
<1>3. {u \in Pool(n) : From[u] = From[t]} = {}
  BY <1>2
<1>4. t \notin Pool(n)
  BY DEF Holds
<1> QED
  BY <1>3, <1>4, FS_EmptySet DEF Acceptable, First

\* What is in a mempool, and what a reply has of it.
LEMMA SnapshotFacts ==
    ASSUME Types, NEW n \in Node
    PROVE  /\ Snapshot(n) \in Seq(signed) /\ Range(Snapshot(n)) \subseteq Pool(n)
           /\ \A t \in Pool(n) : Holds(n, t)
<1>1. pool[n] \in Seq(signed) /\ MempoolReplyBudget \in Nat \ {0}
  BY RelayAssumption DEF Types
<1>2. CASE Len(pool[n]) <= MempoolReplyBudget
  BY <1>1, <1>2 DEF Snapshot, Pool, Holds
<1>3. CASE ~(Len(pool[n]) <= MempoolReplyBudget)
  <2>1. Snapshot(n) = SubSeq(pool[n], 1, MempoolReplyBudget) /\ MempoolReplyBudget < Len(pool[n])
    BY <1>1, <1>3 DEF Snapshot
  <2>2. /\ Snapshot(n) \in Seq(signed) /\ DOMAIN Snapshot(n) = 1 .. MempoolReplyBudget
        /\ \A i \in 1 .. MempoolReplyBudget : Snapshot(n)[i] = pool[n][i]
    BY <1>1, <2>1
  <2>3. \A i \in 1 .. MempoolReplyBudget : i \in DOMAIN pool[n]
    BY <1>1, <2>1
  <2> QED
    BY <2>2, <2>3 DEF Pool, Range, Holds
<1> QED
  BY <1>2, <1>3

\* The mempool stays in order when a tx is appended.
LEMMA AppendInOrder ==
    ASSUME Types, PoolsInOrder, NEW n \in Node, NEW t \in Tx, Acceptable(n, t)
    PROVE  InOrder(Append(pool[n], t))
<1> DEFINE s == pool[n]
           r == Append(s, t)
<1>1. s \in Seq(Tx) /\ InOrder(s)
  <2>1. s \in Seq(signed) /\ signed \subseteq Tx
    BY DEF Types
  <2> QED
    BY <2>1, MessagesGrow DEF PoolsInOrder
<1>2. Pool(n) = Range(s)
  BY DEF Pool
<1> DEFINE k == Len(s)
           l == k + 1
<1>3. k \in Nat /\ DOMAIN s = 1 .. k /\ Len(r) = l
  BY <1>1
<1>4. (\A i \in 1 .. k : r[i] = s[i]) /\ r[l] = t
  BY <1>1
<1>5. t \notin Range(s) /\ Nonce[t] = Cardinality({u \in Range(s) : From[u] = From[t]})
  BY <1>2 DEF Acceptable
<1>6. \A i \in 1 .. k : t # s[i] /\ s[i] \in Range(s)
  BY <1>3, <1>5 DEF Range
<1> HIDE DEF s, r, k
<1>7. \A i \in 1 .. l : i \in 1 .. k \/ i = l
  BY <1>3
<1>8. \A i, j \in 1 .. Len(r) : r[i] = r[j] => i = j
  BY <1>1, <1>3, <1>4, <1>6, <1>7 DEF InOrder, k
<1>9. ASSUME NEW i \in 1 .. Len(r)
      PROVE  Nonce[r[i]] = Cardinality({j \in 1 .. i - 1 : From[r[j]] = From[r[i]]})
  <2>1. CASE i \in 1 .. k
    <3>1. \A j \in 1 .. i - 1 : j \in 1 .. k
      BY <1>3, <2>1
    <3>2. {j \in 1 .. i - 1 : From[r[j]] = From[r[i]]} = {j \in 1 .. i - 1 : From[s[j]] = From[s[i]]}
      BY <1>4, <2>1, <3>1
    <3>3. Nonce[s[i]] = Cardinality({j \in 1 .. i - 1 : From[s[j]] = From[s[i]]})
      BY <1>1, <2>1 DEF InOrder, k
    <3> QED
      BY <1>4, <2>1, <3>2, <3>3
  <2>2. CASE i = l
    <3>1. i - 1 = k /\ r[i] = t
      BY <1>3, <1>4, <2>2
    <3>2. {j \in 1 .. i - 1 : From[r[j]] = From[r[i]]} = {j \in 1 .. k : From[s[j]] = From[t]}
      BY <1>4, <3>1
    <3>3. \A x, y \in 1 .. Len(s) : s[x] = s[y] => x = y
      BY <1>1 DEF InOrder
    <3>4. Cardinality(OfSender(s, From[t])) = Cardinality(SpotsOf(s, From[t]))
      BY <1>1, <3>3, CountPositions
    <3> QED
      BY <1>5, <3>1, <3>2, <3>4 DEF k, OfSender, SpotsOf
  <2> QED
    BY <1>3, <1>7, <2>1, <2>2
<1>10. ASSUME NEW i \in 1 .. Len(r)
       PROVE  \E j \in 1 .. Len(r) : From[r[j]] = From[r[i]] /\ First(r[j])
  <2>1. \A x \in 1 .. k : x \in 1 .. Len(r)
    BY <1>3
  <2>2. ASSUME NEW x \in 1 .. k
        PROVE  \E j \in 1 .. Len(r) : From[r[j]] = From[s[x]] /\ First(r[j])
    BY <1>1, <1>4, <2>1, ZenonT(60) DEF InOrder, k
  <2>3. CASE i \in 1 .. k
    BY <1>4, <2>2, <2>3
  <2>4. CASE i = l
    <3>1. r[i] = t
      BY <1>4, <2>4
    <3>2. CASE First(t)
      BY <3>1, <3>2
    <3>3. CASE ~First(t)
      <4>1. {u \in Range(s) : From[u] = From[t]} # {}
        BY <1>5, <3>3, FS_EmptySet DEF First
      <4>2. PICK x \in 1 .. k : From[s[x]] = From[t]
        BY <1>3, <4>1 DEF Range
      <4> QED
        BY <2>2, <3>1, <4>2
    <3> QED
      BY <3>2, <3>3
  <2> QED
    BY <1>3, <1>7, <2>3, <2>4
<1> QED
  BY <1>8, <1>9, <1>10 DEF InOrder, r, s

\* A reply made after t was appended has what it would have had before, and at
\* most t besides.
LEMMA SnapshotGrows ==
    ASSUME Types, NEW n \in Node, NEW t \in Tx, pool'[n] = Append(pool[n], t)
    PROVE  Range(Snapshot(n)') \subseteq Range(Snapshot(n)) \cup {t}
<1> DEFINE s == pool[n]
           q == Append(s, t)
           B == MempoolReplyBudget
<1>1. s \in Seq(Tx) /\ B \in Nat \ {0} /\ q \in Seq(Tx)
  <2>1. s \in Seq(signed) /\ signed \subseteq Tx
    BY DEF Types
  <2>2. s \in Seq(Tx)
    BY <2>1, MessagesGrow
  <2> QED
    BY <2>2, RelayAssumption
<1>2. /\ Snapshot(n) = IF Len(s) <= B THEN s ELSE SubSeq(s, 1, B)
      /\ Snapshot(n)' = IF Len(q) <= B THEN q ELSE SubSeq(q, 1, B)
  BY DEF Snapshot
<1>3. Len(q) = Len(s) + 1 /\ Len(s) \in Nat /\ \A i \in 1 .. Len(s) : q[i] = s[i]
  BY <1>1
<1> HIDE DEF B, q, s
<1>4. CASE Len(q) <= B
  <2>1. Len(s) <= B
    BY <1>1, <1>4, <1>3
  <2>2. Range(q) = Range(s) \cup {t}
    BY <1>1, RangeAppend DEF q
  <2> QED
    BY <1>2, <1>4, <2>1, <2>2
<1>5. CASE ~(Len(q) <= B)
  <2>1. B <= Len(s) /\ B <= Len(q)
    BY <1>1, <1>5, <1>3
  <2>2. /\ DOMAIN SubSeq(q, 1, B) = 1 .. B /\ DOMAIN SubSeq(s, 1, B) = 1 .. B
        /\ \A i \in 1 .. B : SubSeq(q, 1, B)[i] = q[i] /\ SubSeq(s, 1, B)[i] = s[i]
        /\ \A i \in 1 .. B : q[i] = s[i]
    BY <1>1, <1>3, <2>1
  <2>3. Range(SubSeq(q, 1, B)) = Range(SubSeq(s, 1, B))
    <3> DEFINE x == SubSeq(q, 1, B)
               y == SubSeq(s, 1, B)
    <3>1. DOMAIN x = 1 .. B /\ DOMAIN y = 1 .. B /\ \A i \in 1 .. B : x[i] = y[i]
      BY <2>2
    <3> HIDE DEF x, y
    <3> QED
      BY <3>1 DEF Range, x, y
  <2>4. Len(s) <= B => SubSeq(s, 1, B) = s
    <3>1. Len(s) <= B => B = Len(s)
      BY <1>1, <2>1
    <3> QED
      BY <1>1, <3>1, RangeIn
  <2> QED
    BY <1>2, <1>5, <2>3, <2>4
<1> QED
  BY <1>4, <1>5

\* What AddTx does.
LEMMA AddTxEffect ==
    ASSUME Types, PoolsInOrder, NEW n \in Node, NEW S, signed \subseteq S, S \subseteq Tx,
           NEW t \in S, NEW x \in Node, AddTx(n, t, x)
    PROVE  /\ pool' \in [Node -> Seq(S)]
           /\ spawned' \in [Node -> [Node -> SUBSET Message(S)]]
           /\ PoolsInOrder'
           /\ \A a \in Node : Pool(a) \subseteq Pool(a)' /\ (a # n => Pool(a)' = Pool(a))
           /\ Pool(n)' \subseteq Pool(n) \cup {t}
           /\ \A a, b \in Node :
                \/ spawned'[a][b] = spawned[a][b]
                \/ /\ spawned'[a][b] = spawned[a][b] \cup {NewTx(t)}
                   /\ a = n /\ b \in peers[n] /\ t \in Pool(n)'
           /\ t \in Pool(n)' /\ t \notin Pool(n) =>
                \A b \in peers[n] \ {x} : NewTx(t) \in spawned'[n][b]
<1>1. Seq(signed) \subseteq Seq(S) /\ Message(signed) \subseteq Message(S)
  BY MessagesGrow
<1>2. pool \in [Node -> Seq(S)] /\ spawned \in [Node -> [Node -> SUBSET Message(S)]]
      /\ peers \in [Node -> SUBSET Node]
  BY <1>1 DEF Types
<1>3. CASE ~Acceptable(n, t)
  <2>1. pool' = pool /\ spawned' = spawned
    BY <1>3 DEF AddTx
  <2> QED
    BY <1>2, <2>1 DEF Pool, PoolsInOrder
<1>4. CASE Acceptable(n, t)
  <2>1. pool' = [pool EXCEPT ![n] = Append(@, t)] /\ spawned' = Broadcast(n, x, NewTx(t))
    BY <1>4 DEF AddTx
  <2>2. pool[n] \in Seq(S)
    BY <1>2
  <2>3. Append(pool[n], t) \in Seq(S) /\ Range(Append(pool[n], t)) = Range(pool[n]) \cup {t}
    BY <2>2, RangeAppend
  <2>4. InOrder(Append(pool[n], t))
    BY <1>4, AppendInOrder
  <2>5. pool' \in [Node -> Seq(S)]
    BY <1>2, <2>1, <2>3
  <2>6. pool'[n] = Append(pool[n], t) /\ \A a \in Node \ {n} : pool'[a] = pool[a]
    BY <1>2, <2>1
  <2>7. Pool(n)' = Pool(n) \cup {t} /\ \A a \in Node \ {n} : Pool(a)' = Pool(a)
    BY <2>3, <2>6 DEF Pool
  <2>8. PoolsInOrder'
    BY <2>4, <2>6 DEF PoolsInOrder
  <2>9. NewTx(t) \in Message(S)
    BY DEF Message
  <2>10. /\ spawned' \in [Node -> [Node -> SUBSET Message(S)]]
         /\ \A a, b \in Node : spawned'[a][b] =
              IF a = n /\ b \in peers[n] \ {x} THEN spawned[a][b] \cup {NewTx(t)}
              ELSE spawned[a][b]
    <3> HIDE DEF NewTx, Message
    <3> QED
      BY <1>2, <2>1, <2>9 DEF Broadcast
  <2> QED
    BY <1>2, <2>5, <2>7, <2>8, <2>10
<1> QED
  BY <1>3, <1>4

\* What AddTx makes a node hold, and send in replies.
LEMMA AddTxHolds ==
    ASSUME Types, PoolsInOrder, NEW n \in Node, NEW t \in Tx, NEW x \in Node, AddTx(n, t, x)
    PROVE  /\ First(t) => Holds(n, t)'
           /\ \A a \in Node : \A u : Holds(a, u) => Holds(a, u)'
           /\ \A a \in Node : Range(Snapshot(a)') \subseteq
                 Range(Snapshot(a)) \cup (IF a = n THEN {t} ELSE {})
           /\ t \in Pool(n) => pool' = pool
           /\ \A a \in Node : Range(Snapshot(a)') \subseteq Pool(a)'
<1>1. CASE ~Acceptable(n, t)
  <2>1. pool' = pool
    BY <1>1 DEF AddTx
  <2>2. First(t) => Holds(n, t)
    BY <1>1, FirstAcceptable
  <2>3. /\ \A a \in Node : Pool(a)' = Pool(a) /\ Snapshot(a)' = Snapshot(a)
        /\ \A a \in Node : \A u : Holds(a, u)' <=> Holds(a, u)
    BY <2>1 DEF Pool, Snapshot, Holds
  <2>4. \A a \in Node : Range(Snapshot(a)) \subseteq Pool(a)
    BY SnapshotFacts
  <2> QED
    BY <2>1, <2>2, <2>3, <2>4
<1>2. CASE Acceptable(n, t)
  <2>1. pool' = [pool EXCEPT ![n] = Append(@, t)] /\ t \notin Pool(n)
    BY <1>2 DEF AddTx, Acceptable
  <2>2. pool \in [Node -> Seq(Tx)]
    BY MessagesGrow DEF Types
  <2>3. pool'[n] = Append(pool[n], t) /\ \A a \in Node \ {n} : pool'[a] = pool[a]
    BY <2>1, <2>2
  <2>4. Pool(n)' = Pool(n) \cup {t} /\ \A a \in Node \ {n} : Pool(a)' = Pool(a)
    BY <2>2, <2>3, RangeAppend DEF Pool
  <2>5. Holds(n, t)' /\ \A a \in Node : \A u : Holds(a, u) => Holds(a, u)'
    BY <2>4 DEF Holds
  <2>6. /\ Range(Snapshot(n)') \subseteq Range(Snapshot(n)) \cup {t}
        /\ \A a \in Node \ {n} : Snapshot(a)' = Snapshot(a)
    BY <2>3, SnapshotGrows DEF Snapshot
  <2>7. \A a \in Node : Range(Snapshot(a)) \subseteq Pool(a)
    BY SnapshotFacts
  <2> QED
    BY <2>1, <2>4, <2>5, <2>6, <2>7
<1> QED
  BY <1>1, <1>2

\* What reading and writing do to the FIFOs.
LEMMA WireEffect ==
    ASSUME Types, NEW n \in Node, NEW p \in Node, n # p,
           NEW read \in {0, 1}, read = 1 => wire[p][n] # << >>,
           NEW msgs \in Seq(Message(signed)), wire' = Wire(n, p, read, msgs)
    PROVE  /\ wire' \in [Node -> [Node -> Seq(Message(signed))]]
           /\ \A a, b \in Node : ~(a = n /\ b = p) /\ ~(a = p /\ b = n) => wire'[a][b] = wire[a][b]
           /\ wire'[p][n] = IF read = 0 THEN wire[p][n] ELSE Tail(wire[p][n])
           /\ wire'[n][p] = IF Connected(n, p) THEN wire[n][p] \o msgs ELSE wire[n][p]
<1> DEFINE M == Message(signed)
           r == SubSeq(wire[p][n], 1 + read, Len(wire[p][n]))
           w == IF Connected(n, p) THEN wire[n][p] \o msgs ELSE wire[n][p]
<1>1. wire \in [Node -> [Node -> Seq(M)]] /\ wire[p][n] \in Seq(M) /\ wire[n][p] \in Seq(M)
  BY DEF Types
<1>2. r = IF read = 0 THEN wire[p][n] ELSE Tail(wire[p][n])
  <2>1. CASE read = 0
    <3>1. r = SubSeq(wire[p][n], 1, Len(wire[p][n]))
      BY <2>1
    <3> QED
      BY <1>1, <2>1, <3>1, RangeIn
  <2>2. CASE read = 1
    <3>1. r = SubSeq(wire[p][n], 2, Len(wire[p][n])) /\ wire[p][n] # << >>
      BY <2>2
    <3> QED
      BY <1>1, <2>2, <3>1, RangeRest
  <2> QED
    BY <2>1, <2>2
<1>3. r \in Seq(M)
  <2>1. wire[p][n] # << >> => Tail(wire[p][n]) \in Seq(M)
    BY <1>1, RangeRest
  <2> QED
    BY <1>1, <1>2, <2>1
<1>4. w \in Seq(M)
  <2> HIDE DEF M
  <2> QED
    BY <1>1 DEF M
<1>5. wire' = [wire EXCEPT ![p][n] = r, ![n][p] = w]
  BY <1>1 DEF Wire
<1> HIDE DEF M, r, w
<1>6. /\ wire' \in [Node -> [Node -> Seq(M)]]
      /\ \A a, b \in Node : ~(a = n /\ b = p) /\ ~(a = p /\ b = n) => wire'[a][b] = wire[a][b]
      /\ wire'[p][n] = r /\ wire'[n][p] = w
  <2> DEFINE v == [wire EXCEPT ![p] = [wire[p] EXCEPT ![n] = r]]
             u == [v EXCEPT ![n] = [v[n] EXCEPT ![p] = w]]
  <2>1. /\ v \in [Node -> [Node -> Seq(M)]] /\ v[p][n] = r
        /\ \A a, b \in Node : ~(a = p /\ b = n) => v[a][b] = wire[a][b]
    BY <1>1, <1>3
  <2>2. wire' = u
    BY <1>1, <1>5
  <2> HIDE DEF v
  <2>3. /\ u \in [Node -> [Node -> Seq(M)]] /\ u[n][p] = w
        /\ \A a, b \in Node : ~(a = n /\ b = p) => u[a][b] = v[a][b]
    BY <1>4, <2>1
  <2> HIDE DEF u
  <2> QED
    BY <2>1, <2>2, <2>3
<1> QED
  BY <1>2, <1>6 DEF M, w

-----------------------------------------------------------------------------
(***************************************************************************)
(* Types, and the order of the mempools.                                   *)
(***************************************************************************)
LEMMA ConnectedPairs ==
    ASSUME Types, NEW n \in Node, NEW p \in Node
    PROVE  (Connected(n, p) <=> Connected(p, n)) /\ (Connected(n, p) => n # p)
<1>1. {n, p} = {p, n}
  OBVIOUS
<1>2. ASSUME {n, p} \in Links PROVE n # p
  <2>1. PICK a, b \in Node : a # b /\ {n, p} = {a, b}
    BY <1>2, RelayAssumption
  <2> QED
    BY <2>1
<1> QED
  BY <1>1, <1>2 DEF Connected, Types

\* Who reads a message is connected.
LEMMA ReadingFacts ==
    ASSUME BaseInv, NEW n \in Node, NEW p \in Node, NEW type, Reading(n, p, type)
    PROVE  /\ n # p /\ Connected(n, p) /\ Connected(p, n)
           /\ reply[n][p] = Nil /\ batch[n][p] = << >>
           /\ wire[p][n] \in Seq(Message(signed)) /\ wire[p][n] # << >>
           /\ Head(wire[p][n]) \in Message(signed) /\ Head(wire[p][n]).type = type
           /\ Range(wire[p][n]) = Range(Tail(wire[p][n])) \cup {Head(wire[p][n])}
<1>1. Types /\ Unconnected
  BY DEF BaseInv
<1>2. wire[p][n] \in Seq(Message(signed))
  BY <1>1 DEF Types
<1>3. wire[p][n] # << >> /\ reply[n][p] = Nil /\ batch[n][p] = << >> /\ Head(wire[p][n]).type = type
  BY DEF Reading
<1>4. Connected(p, n)
  BY <1>1, <1>3 DEF Unconnected
<1>5. Connected(n, p) /\ n # p
  BY <1>1, <1>4, ConnectedPairs
<1>6. Head(wire[p][n]) \in Message(signed)
      /\ Range(wire[p][n]) = Range(Tail(wire[p][n])) \cup {Head(wire[p][n])}
  BY <1>2, <1>3, RangeRest
<1> QED
  BY <1>2, <1>3, <1>4, <1>5, <1>6

\* The FIFOs of unconnected nodes stay empty.
LEMMA WireBase ==
    ASSUME BaseInv, NEW n \in Node, NEW p \in Node, n # p,
           NEW read \in {0, 1}, read = 1 => wire[p][n] # << >>,
           NEW msgs \in Seq(Message(signed)), wire' = Wire(n, p, read, msgs), conns' = conns
    PROVE  /\ wire' \in [Node -> [Node -> Seq(Message(signed))]]
           /\ \A a, b \in Node : ~Connected(a, b)' => wire'[a][b] = << >>
<1>1. Types /\ Unconnected
  BY DEF BaseInv
<1>2. /\ wire' \in [Node -> [Node -> Seq(Message(signed))]]
      /\ \A a, b \in Node : ~(a = n /\ b = p) /\ ~(a = p /\ b = n) => wire'[a][b] = wire[a][b]
      /\ wire'[p][n] = IF read = 0 THEN wire[p][n] ELSE Tail(wire[p][n])
      /\ wire'[n][p] = IF Connected(n, p) THEN wire[n][p] \o msgs ELSE wire[n][p]
  BY <1>1, WireEffect
<1>3. ASSUME NEW a \in Node, NEW b \in Node, ~Connected(a, b)'
      PROVE  wire'[a][b] = << >>
  <2>1. ~Connected(a, b) /\ wire[a][b] = << >>
    BY <1>1, <1>3 DEF Connected, Unconnected
  <2> QED
    BY <1>2, <2>1
<1> QED
  BY <1>2, <1>3

LEMMA InitBase == Init => BaseInv /\ ExchangeInv
<1> SUFFICES ASSUME Init PROVE BaseInv /\ ExchangeInv
  OBVIOUS
<1>1. Types /\ Unconnected
  BY DEF Init, Types, Unconnected
<1>2. PoolsInOrder
  BY DEF Init, PoolsInOrder, InOrder
<1>3. ExchangeInv
  BY DEF Init, ExchangeInv, Connected
<1> QED
  BY <1>1, <1>2, <1>3 DEF BaseInv

LEMMA SendBase ==
    ASSUME BaseInv, NEW n \in Node, NEW t \in Tx, Send(n, t)
    PROVE  BaseInv'
<1> DEFINE S == signed \cup {t}
<1>1. /\ signed' = S /\ AddTx(n, t, n)
      /\ UNCHANGED <<conns, peers, wire, reply, batch>>
  BY DEF Send
<1>2. Types /\ Unconnected /\ PoolsInOrder /\ signed \subseteq S /\ S \subseteq Tx /\ t \in S
  BY DEF BaseInv, Types
<1> HIDE DEF S
<1>3. /\ pool' \in [Node -> Seq(S)]
      /\ spawned' \in [Node -> [Node -> SUBSET Message(S)]]
      /\ PoolsInOrder'
      /\ \A a, b \in Node :
           \/ spawned'[a][b] = spawned[a][b]
           \/ a = n /\ b \in peers[n]
  BY <1>1, <1>2, AddTxEffect
<1>4. Seq(signed) \subseteq Seq(S) /\ Seq(Message(signed)) \subseteq Seq(Message(S))
  BY <1>2, MessagesGrow
<1>5. Types'
  <2>1. /\ wire \in [Node -> [Node -> Seq(Message(S))]]
        /\ reply \in [Node -> [Node -> Seq(S) \cup {Nil}]]
        /\ batch \in [Node -> [Node -> Seq(S)]]
    BY <1>2, <1>4 DEF Types
  <2> QED
    BY <1>1, <1>2, <1>3, <2>1 DEF Types
<1>6. Unconnected'
  <2>1. ASSUME NEW a \in Node, NEW b \in Node, ~Connected(a, b)'
        PROVE  wire'[a][b] = << >> /\ spawned'[a][b] = {} /\ b \notin peers'[a]
    <3>1. ~Connected(a, b)
      BY <1>1, <2>1 DEF Connected
    <3>2. wire[a][b] = << >> /\ spawned[a][b] = {} /\ b \notin peers[a]
      BY <1>2, <3>1 DEF Unconnected
    <3>3. spawned'[a][b] = spawned[a][b]
      BY <1>3, <3>2
    <3> QED
      BY <1>1, <3>2, <3>3
  <2> QED
    BY <1>1, <1>2, <2>1 DEF Unconnected
<1> QED
  BY <1>3, <1>5, <1>6 DEF BaseInv

LEMMA ConnectBase ==
    ASSUME BaseInv, NEW l \in Links, Connect(l)
    PROVE  BaseInv'
<1>1. /\ conns' = conns \cup {l} /\ UNCHANGED <<pool, signed, peers, spawned, reply, batch>>
      /\ wire' = [n \in Node |-> [p \in Node |->
                    IF l = {n, p} THEN <<Version>> ELSE wire[n][p]]]
  BY DEF Connect
<1>2. Types /\ Unconnected /\ PoolsInOrder
  BY DEF BaseInv
<1>3. <<Version>> \in Seq(Message(signed))
  BY DEF Message
<1>4. wire' \in [Node -> [Node -> Seq(Message(signed))]]
  BY <1>1, <1>2, <1>3 DEF Types
<1>5. Types'
  BY <1>1, <1>2, <1>4 DEF Types
<1>6. Unconnected'
  BY <1>1, <1>2 DEF Unconnected, Connected
<1> QED
  BY <1>1, <1>2, <1>5, <1>6 DEF BaseInv, PoolsInOrder

\* Lose, with what Disconnect and Restart do besides.
LEMMA LoseBase ==
    ASSUME BaseInv, NEW L, Lose(L), signed' = signed,
           pool' \in [Node -> Seq(signed)], PoolsInOrder',
           reply' \in [Node -> [Node -> Seq(signed) \cup {Nil}]],
           batch' \in [Node -> [Node -> Seq(signed)]],
           \A n \in Node : reply'[n][n] = Nil /\ batch'[n][n] = << >>
    PROVE  BaseInv'
<1>1. Types /\ Unconnected
  BY DEF BaseInv
<1>2. /\ conns' = conns \ L
      /\ peers' = [n \in Node |-> {p \in peers[n] : {n, p} \notin L}]
      /\ wire' = [n \in Node |-> [p \in Node |-> IF {n, p} \in L THEN << >> ELSE wire[n][p]]]
      /\ spawned' = [n \in Node |-> [p \in Node |-> IF {n, p} \in L THEN {} ELSE spawned[n][p]]]
  BY DEF Lose
<1>3. << >> \in Seq(Message(signed))
  OBVIOUS
<1>4. wire' \in [Node -> [Node -> Seq(Message(signed))]]
  BY <1>1, <1>2, <1>3 DEF Types
<1>5. spawned' \in [Node -> [Node -> SUBSET Message(signed)]] /\ peers' \in [Node -> SUBSET Node]
  BY <1>1, <1>2 DEF Types
<1>6. Types'
  BY <1>1, <1>2, <1>4, <1>5 DEF Types
<1>7. Unconnected'
  BY <1>1, <1>2 DEF Unconnected, Connected
<1> QED
  BY <1>6, <1>7 DEF BaseInv

LEMMA DisconnectBase ==
    ASSUME BaseInv, NEW l \in Links, Disconnect(l)
    PROVE  BaseInv'
BY LoseBase DEF Disconnect, BaseInv, Types, Unconnected, PoolsInOrder

LEMMA RestartBase ==
    ASSUME BaseInv, NEW n \in Node, Restart(n)
    PROVE  BaseInv'
<1>1. Types /\ Unconnected /\ PoolsInOrder
  BY DEF BaseInv
<1>2. /\ Lose({l \in conns : n \in l}) /\ signed' = signed
      /\ pool' = [pool EXCEPT ![n] = << >>]
      /\ reply' = [reply EXCEPT ![n] = [p \in Node |-> Nil]]
      /\ batch' = [batch EXCEPT ![n] = [p \in Node |-> << >>]]
  BY DEF Restart
<1>3. pool' \in [Node -> Seq(signed)]
  BY <1>1, <1>2 DEF Types
<1>4. PoolsInOrder'
  <2>1. InOrder(<< >>)
    BY DEF InOrder
  <2>2. \A a \in Node : pool'[a] = IF a = n THEN << >> ELSE pool[a]
    BY <1>1, <1>2 DEF Types
  <2> QED
    BY <1>1, <2>1, <2>2 DEF PoolsInOrder
<1>5. reply' \in [Node -> [Node -> Seq(signed) \cup {Nil}]]
  BY <1>1, <1>2 DEF Types
<1>6. batch' \in [Node -> [Node -> Seq(signed)]]
  BY <1>1, <1>2 DEF Types
<1>7. \A a \in Node : reply'[a][a] = Nil /\ batch'[a][a] = << >>
  BY <1>1, <1>2 DEF Types, Unconnected
<1> QED
  BY <1>2, <1>3, <1>4, <1>5, <1>6, <1>7, LoseBase

\* AddTx of a tx that came in a message.
LEMMA AddTxBase ==
    ASSUME Types, Unconnected, PoolsInOrder, NEW n \in Node, NEW t \in signed, NEW x \in Node,
           AddTx(n, t, x)
    PROVE  /\ pool' \in [Node -> Seq(signed)]
           /\ spawned' \in [Node -> [Node -> SUBSET Message(signed)]]
           /\ PoolsInOrder'
           /\ \A a, b \in Node : ~Connected(a, b) => spawned'[a][b] = {}
<1> DEFINE S == signed
<1>1. signed \subseteq S /\ S \subseteq Tx /\ t \in S
  BY DEF Types
<1> HIDE DEF S
<1>2. /\ pool' \in [Node -> Seq(S)]
      /\ spawned' \in [Node -> [Node -> SUBSET Message(S)]]
      /\ PoolsInOrder'
      /\ \A a, b \in Node : spawned'[a][b] = spawned[a][b] \/ (a = n /\ b \in peers[n])
  BY <1>1, AddTxEffect
<1>3. ASSUME NEW a \in Node, NEW b \in Node, ~Connected(a, b)
      PROVE  spawned'[a][b] = {}
  <2>1. spawned[a][b] = {} /\ b \notin peers[a]
    BY <1>3 DEF Unconnected
  <2> QED
    BY <1>2, <2>1
<1> QED
  BY <1>2, <1>3 DEF S

\* The read loop and the goroutines of Broadcast.
LEMMA PeerConnectBase ==
    ASSUME BaseInv, NEW n \in Node, NEW p \in Node, onPeerConnect(n, p)
    PROVE  BaseInv'
<1>1. Types /\ Unconnected /\ PoolsInOrder
  BY DEF BaseInv
<1>2. /\ Reading(n, p, "version") /\ wire' = Wire(n, p, 1, Request)
      /\ peers' = [peers EXCEPT ![n] = @ \cup {p}]
      /\ UNCHANGED <<pool, signed, conns, spawned, reply, batch>>
  BY DEF onPeerConnect
<1>3. n # p /\ Connected(n, p) /\ wire[p][n] # << >>
  BY <1>2, ReadingFacts
<1>4. Request \in Seq(Message(signed))
  BY DEF Message, Request
<1>5. /\ wire' \in [Node -> [Node -> Seq(Message(signed))]]
      /\ \A a, b \in Node : ~Connected(a, b)' => wire'[a][b] = << >>
  BY <1>2, <1>3, <1>4, WireBase
<1>6. Types' /\ PoolsInOrder'
  BY <1>1, <1>2, <1>5 DEF Types, PoolsInOrder
<1>7. Unconnected'
  BY <1>1, <1>2, <1>3, <1>5 DEF Types, Unconnected, Connected
<1> QED
  BY <1>6, <1>7 DEF BaseInv

LEMMA ReplyBase ==
    ASSUME BaseInv, NEW n \in Node, NEW p \in Node, onGetMempool(n, p) \/ SendMempool(n, p)
    PROVE  BaseInv'
<1>1. Types /\ Unconnected /\ PoolsInOrder
  BY DEF BaseInv
<1>2. UNCHANGED <<pool, signed, conns, peers, spawned, batch>>
  BY DEF onGetMempool, SendMempool
<1>3. Nil \notin Seq(signed)
  BY <1>1, RelayAssumption, MessagesGrow DEF Types
<1>4. /\ n # p
      /\ \E v \in Seq(signed) \cup {Nil} : reply' = [reply EXCEPT ![n][p] = v]
      /\ wire' \in [Node -> [Node -> Seq(Message(signed))]]
      /\ \A a, b \in Node : ~Connected(a, b)' => wire'[a][b] = << >>
  <2>1. CASE onGetMempool(n, p)
    <3>1. /\ Reading(n, p, "getmempool") /\ wire' = Wire(n, p, 1, << >>)
          /\ reply' = [reply EXCEPT ![n][p] = IF Snapshot(n) = << >> THEN Nil ELSE Snapshot(n)]
      BY <2>1 DEF onGetMempool
    <3>2. n # p /\ wire[p][n] # << >>
      BY <3>1, ReadingFacts
    <3>3. Snapshot(n) \in Seq(signed)
      <4>1. pool[n] \in Seq(signed) /\ MempoolReplyBudget \in Nat
        BY <1>1, RelayAssumption DEF Types
      <4> QED
        BY <4>1 DEF Snapshot
    <3>4. << >> \in Seq(Message(signed))
      OBVIOUS
    <3> QED
      BY <1>2, <3>1, <3>2, <3>3, <3>4, WireBase
  <2>2. CASE SendMempool(n, p)
    <3>1. /\ reply[n][p] # Nil /\ wire' = Wire(n, p, 0, <<Mempool(reply[n][p])>>)
          /\ reply' = [reply EXCEPT ![n][p] = Nil]
      BY <2>2 DEF SendMempool
    <3>2. n # p /\ reply[n][p] \in Seq(signed)
      BY <1>1, <3>1 DEF Types, Unconnected
    <3>3. <<Mempool(reply[n][p])>> \in Seq(Message(signed))
      BY <3>2 DEF Message
    <3> DEFINE w == <<Mempool(reply[n][p])>>
    <3>4. w \in Seq(Message(signed)) /\ wire' = Wire(n, p, 0, w)
      BY <3>1, <3>3
    <3> HIDE DEF w
    <3>5. /\ wire' \in [Node -> [Node -> Seq(Message(signed))]]
          /\ \A a, b \in Node : ~Connected(a, b)' => wire'[a][b] = << >>
      BY <1>2, <3>2, <3>4, WireBase
    <3> QED
      BY <3>1, <3>2, <3>5
  <2> QED
    BY <2>1, <2>2
<1>5. reply' \in [Node -> [Node -> Seq(signed) \cup {Nil}]] /\ \A a \in Node : reply'[a][a] = Nil
  BY <1>1, <1>4 DEF Types, Unconnected
<1>6. Types' /\ PoolsInOrder'
  BY <1>1, <1>2, <1>4, <1>5 DEF Types, PoolsInOrder
<1>7. Unconnected'
  BY <1>1, <1>2, <1>4, <1>5 DEF Unconnected, Connected
<1> QED
  BY <1>6, <1>7 DEF BaseInv

LEMMA NewTxBase ==
    ASSUME BaseInv, NEW n \in Node, NEW p \in Node, onNewTx(n, p)
    PROVE  BaseInv'
<1>1. Types /\ Unconnected /\ PoolsInOrder
  BY DEF BaseInv
<1> DEFINE t == Head(wire[p][n]).tx
<1>2. /\ Reading(n, p, "newtx") /\ AddTx(n, t, p) /\ wire' = Wire(n, p, 1, << >>)
      /\ UNCHANGED <<signed, conns, peers, reply, batch>>
  BY DEF onNewTx
<1>3. n # p /\ wire[p][n] # << >> /\ Head(wire[p][n]) \in Message(signed)
      /\ Head(wire[p][n]).type = "newtx"
  BY <1>2, ReadingFacts
<1>4. t \in signed /\ signed \subseteq signed /\ signed \subseteq Tx
  BY <1>1, <1>3, MessageKinds DEF Types
<1>5. << >> \in Seq(Message(signed))
  OBVIOUS
<1>6. /\ wire' \in [Node -> [Node -> Seq(Message(signed))]]
      /\ \A a, b \in Node : ~Connected(a, b)' => wire'[a][b] = << >>
  BY <1>2, <1>3, <1>5, WireBase
<1> HIDE DEF t
<1>7. /\ pool' \in [Node -> Seq(signed)]
      /\ spawned' \in [Node -> [Node -> SUBSET Message(signed)]]
      /\ PoolsInOrder'
      /\ \A a, b \in Node : ~Connected(a, b) => spawned'[a][b] = {}
  BY <1>1, <1>2, <1>4, AddTxBase
<1>8. Types'
  BY <1>1, <1>2, <1>6, <1>7 DEF Types
<1>9. Unconnected'
  BY <1>1, <1>2, <1>6, <1>7 DEF Unconnected, Connected
<1> QED
  BY <1>7, <1>8, <1>9 DEF BaseInv

LEMMA MempoolBase ==
    ASSUME BaseInv, NEW n \in Node, NEW p \in Node, onMempool(n, p)
    PROVE  BaseInv'
<1>1. Types /\ Unconnected /\ PoolsInOrder
  BY DEF BaseInv
<1>2. /\ Reading(n, p, "mempool") /\ wire' = Wire(n, p, 1, << >>)
      /\ batch' = [batch EXCEPT ![n][p] = Head(wire[p][n]).txs]
      /\ UNCHANGED <<pool, signed, conns, peers, spawned, reply>>
  BY DEF onMempool
<1>3. n # p /\ wire[p][n] # << >> /\ Head(wire[p][n]) \in Message(signed)
      /\ Head(wire[p][n]).type = "mempool"
  BY <1>2, ReadingFacts
<1>4. Head(wire[p][n]).txs \in Seq(signed)
  BY <1>3, MessageKinds
<1>5. << >> \in Seq(Message(signed))
  OBVIOUS
<1>6. /\ wire' \in [Node -> [Node -> Seq(Message(signed))]]
      /\ \A a, b \in Node : ~Connected(a, b)' => wire'[a][b] = << >>
  BY <1>2, <1>3, <1>5, WireBase
<1>7. batch' \in [Node -> [Node -> Seq(signed)]] /\ \A a \in Node : batch'[a][a] = << >>
  BY <1>1, <1>2, <1>3, <1>4 DEF Types, Unconnected
<1>8. Types' /\ PoolsInOrder'
  BY <1>1, <1>2, <1>6, <1>7 DEF Types, PoolsInOrder
<1>9. Unconnected'
  BY <1>1, <1>2, <1>6, <1>7, ZenonT(60) DEF Unconnected, Connected
<1> QED
  BY <1>8, <1>9 DEF BaseInv

LEMMA MempoolNextBase ==
    ASSUME BaseInv, NEW n \in Node, NEW p \in Node, onMempoolNext(n, p)
    PROVE  BaseInv'
<1>1. Types /\ Unconnected /\ PoolsInOrder
  BY DEF BaseInv
<1> DEFINE t == Head(batch[n][p])
<1>2. /\ batch[n][p] # << >> /\ AddTx(n, t, p)
      /\ batch' = [batch EXCEPT ![n][p] = Tail(@)]
      /\ UNCHANGED <<signed, conns, peers, wire, reply>>
  BY DEF onMempoolNext
<1>3. batch[n][p] \in Seq(signed) /\ n # p
  BY <1>1, <1>2 DEF Types, Unconnected
<1>4. t \in signed /\ Tail(batch[n][p]) \in Seq(signed)
  BY <1>2, <1>3, RangeRest
<1> HIDE DEF t
<1>5. /\ pool' \in [Node -> Seq(signed)]
      /\ spawned' \in [Node -> [Node -> SUBSET Message(signed)]]
      /\ PoolsInOrder'
      /\ \A a, b \in Node : ~Connected(a, b) => spawned'[a][b] = {}
  BY <1>1, <1>2, <1>4, AddTxBase
<1>6. batch' \in [Node -> [Node -> Seq(signed)]] /\ \A a \in Node : batch'[a][a] = << >>
  BY <1>1, <1>2, <1>3, <1>4 DEF Types, Unconnected
<1>7. Types'
  BY <1>1, <1>2, <1>5, <1>6 DEF Types
<1>8. Unconnected'
  BY <1>1, <1>2, <1>5, <1>6, ZenonT(60) DEF Unconnected, Connected
<1> QED
  BY <1>5, <1>7, <1>8 DEF BaseInv

LEMMA SpawnedBase ==
    ASSUME BaseInv, NEW n \in Node, NEW p \in Node, WriteSpawned(n, p)
    PROVE  BaseInv'
<1>1. Types /\ Unconnected /\ PoolsInOrder
  BY DEF BaseInv
<1>2. PICK m \in spawned[n][p] :
        /\ spawned' = [spawned EXCEPT ![n][p] = @ \ {m}] /\ wire' = Wire(n, p, 0, <<m>>)
        /\ UNCHANGED <<pool, signed, conns, peers, reply, batch>>
  BY DEF WriteSpawned
<1>3. m \in Message(signed) /\ Connected(n, p)
  BY <1>1, <1>2 DEF Types, Unconnected
<1>4. n # p
  BY <1>1, <1>3, ConnectedPairs
<1> DEFINE w == <<m>>
<1>5. w \in Seq(Message(signed)) /\ wire' = Wire(n, p, 0, w) /\ conns' = conns
  BY <1>2, <1>3
<1> HIDE DEF w
<1>6. /\ wire' \in [Node -> [Node -> Seq(Message(signed))]]
      /\ \A a, b \in Node : ~Connected(a, b)' => wire'[a][b] = << >>
  BY <1>4, <1>5, WireBase
<1>7. /\ spawned' \in [Node -> [Node -> SUBSET Message(signed)]]
      /\ \A a, b \in Node : spawned'[a][b] \subseteq spawned[a][b]
  BY <1>1, <1>2 DEF Types
<1>8. Types' /\ PoolsInOrder'
  BY <1>1, <1>2, <1>6, <1>7 DEF Types, PoolsInOrder
<1>9. \A a, b \in Node : ~Connected(a, b) => spawned'[a][b] = {}
  BY <1>1, <1>7 DEF Unconnected
<1>10. Unconnected'
  BY <1>1, <1>2, <1>6, <1>9, ZenonT(60) DEF Unconnected, Connected
<1> QED
  BY <1>8, <1>10 DEF BaseInv

LEMMA BaseStep == BaseInv /\ [Next]_vars => BaseInv'
<1> SUFFICES ASSUME BaseInv, [Next]_vars PROVE BaseInv'
  OBVIOUS
<1>1. CASE UNCHANGED vars
  <2>1. Types' /\ PoolsInOrder'
    BY <1>1 DEF vars, BaseInv, Types, PoolsInOrder
  <2>2. Unconnected'
    BY <1>1 DEF vars, BaseInv, Unconnected, Connected
  <2> QED
    BY <2>1, <2>2 DEF BaseInv
<1>2. ASSUME NEW n \in Node, NEW t \in Tx, Send(n, t) PROVE BaseInv'
  BY <1>2, SendBase
<1>3. ASSUME NEW n \in Node, NEW p \in Node, ReadLoop(n, p) \/ WriteSpawned(n, p) PROVE BaseInv'
  BY <1>3, PeerConnectBase, ReplyBase, NewTxBase, MempoolBase, MempoolNextBase, SpawnedBase
     DEF ReadLoop
<1>4. ASSUME NEW n \in Node, Restart(n) PROVE BaseInv'
  BY <1>4, RestartBase
<1>5. ASSUME NEW l \in Links, Connect(l) \/ Disconnect(l) PROVE BaseInv'
  BY <1>5, ConnectBase, DisconnectBase
<1> QED
  BY <1>1, <1>2, <1>3, <1>4, <1>5 DEF Next

LEMMA BaseHolds == Spec => []BaseInv
BY InitBase, BaseStep, PTL DEF Spec

\* The variables of the relay keep their types, and a node broadcasts to nodes
\* it is connected with (Broadcast, Lose).
THEOREM RelayTypeCorrect == Spec => []RelayTypeOK
<1>1. BaseInv => RelayTypeOK
  BY DEF BaseInv, Types, Unconnected, RelayTypeOK
<1> QED
  BY <1>1, BaseHolds, PTL

\* In whatever order the transactions arrive, and whatever wallets sign again
\* after a restart, every mempool has those of one sender in the order of their
\* nonces, without gaps or repetitions: for any number of nodes, senders and
\* transactions, lost connections and restarts (AddTx).
THEOREM NoncesAlwaysInOrder == Spec => []NoncesInOrder
<1>1. ASSUME BaseInv, NEW n \in Node, NEW i \in DOMAIN pool[n]
      PROVE  Nonce[pool[n][i]] =
               Cardinality({j \in 1 .. i - 1 : From[pool[n][j]] = From[pool[n][i]]})
  <2>1. pool[n] \in Seq(signed) /\ InOrder(pool[n])
    BY <1>1 DEF BaseInv, Types, PoolsInOrder
  <2>2. i \in 1 .. Len(pool[n])
    BY <2>1
  <2> QED
    BY <2>1, <2>2 DEF InOrder
<1>2. BaseInv => NoncesInOrder
  BY <1>1 DEF NoncesInOrder
<1> QED
  BY <1>2, BaseHolds, PTL

-----------------------------------------------------------------------------
(***************************************************************************)
(* The mempool exchange.                                                   *)
(***************************************************************************)
\* A pair of nodes on whose connection nothing happens.
LEMMA Untouched ==
    ASSUME NEW a, NEW b, PairInv(a, b),
           wire'[a][b] = wire[a][b], wire'[b][a] = wire[b][a],
           spawned'[a][b] = spawned[a][b], reply'[a][b] = reply[a][b],
           batch'[b][a] = batch[b][a], b \in peers'[a] <=> b \in peers[a],
           pool'[a] = pool[a], \A t : Holds(b, t) => Holds(b, t)'
    PROVE  PairInv(a, b)'
<1>1. \A t : Underway(t, a, b)' <=> Underway(t, a, b)
  BY DEF Underway
<1>2. HandshakeOf(a, b)'
  BY DEF PairInv, HandshakeOf
<1>3. BackedBy(a, b)'
  BY <1>1 DEF PairInv, BackedBy, Pool
<1>4. CoveredFor(a, b)'
  <2>1. Snapshot(a)' = Snapshot(a)
    BY DEF Snapshot
  <2> QED
    BY <1>1, <2>1 DEF PairInv, CoveredFor
<1> QED
  BY <1>2, <1>3, <1>4 DEF PairInv

\* AddTx of tx t at n that came from x: signed (x is n), or in a newtx or a
\* mempool message, of which it is removed.
LEMMA AddTxExchange ==
    ASSUME BaseInv, ExchangeInv, NEW S, signed \subseteq S, S \subseteq Tx,
           NEW n \in Node, NEW t \in S, NEW x \in Node, AddTx(n, t, x),
           UNCHANGED <<conns, peers, reply>>,
           n # x /\ Connected(n, x) => t \in Pool(x),
           \A a, b \in Node : Range(wire'[a][b]) \subseteq Range(wire[a][b]),
           \A a, b \in Node : \A m \in Range(wire[a][b]) :
               m \in Range(wire'[a][b]) \/ (b = n /\ m = NewTx(t)),
           \A a, b \in Node : Range(batch'[a][b]) \subseteq Range(batch[a][b]),
           \A a, b \in Node : \A u \in Range(batch[a][b]) :
               u \in Range(batch'[a][b]) \/ (a = n /\ u = t),
           \A a, b \in Node : Connected(a, b) /\ b \notin peers[a] => wire'[b][a] = wire[b][a]
    PROVE  ExchangeInv'
<1>1. Types /\ PoolsInOrder
  BY DEF BaseInv
<1>2. /\ \A a \in Node : Pool(a) \subseteq Pool(a)' /\ (a # n => Pool(a)' = Pool(a))
      /\ Pool(n)' \subseteq Pool(n) \cup {t}
      /\ \A a, b \in Node :
           \/ spawned'[a][b] = spawned[a][b]
           \/ /\ spawned'[a][b] = spawned[a][b] \cup {NewTx(t)}
              /\ a = n /\ b \in peers[n] /\ t \in Pool(n)'
      /\ t \in Pool(n)' /\ t \notin Pool(n) =>
           \A b \in peers[n] \ {x} : NewTx(t) \in spawned'[n][b]
  BY <1>1, AddTxEffect
<1>3. /\ First(t) => Holds(n, t)'
      /\ \A a \in Node : \A u : Holds(a, u) => Holds(a, u)'
      /\ \A a \in Node : Range(Snapshot(a)') \subseteq
            Range(Snapshot(a)) \cup (IF a = n THEN {t} ELSE {})
      /\ t \in Pool(n) => pool' = pool
      /\ \A a \in Node : Range(Snapshot(a)') \subseteq Pool(a)'
  BY <1>1, AddTxHolds
<1>4. NewTx(t) # Version /\ NewTx(t) # GetMempool /\ Carried(NewTx(t)) = {t}
  BY Messages
<1>5. SUFFICES ASSUME NEW a \in Node, NEW b \in Node, Connected(a, b)
               PROVE  PairInv(a, b)'
  BY DEF ExchangeInv, Connected
<1>6. PairInv(a, b)
  BY <1>5 DEF ExchangeInv
<1>7. HandshakeOf(a, b)'
  <2>1. /\ Version \in Range(wire[a][b]) => Version \in Range(wire'[a][b])
        /\ GetMempool \in Range(wire[b][a]) => GetMempool \in Range(wire'[b][a])
    BY <1>4, <1>5
  <2> QED
    BY <1>5, <1>6, <2>1 DEF PairInv, HandshakeOf
<1>8. BackedBy(a, b)'
  <2>1. SUFFICES ASSUME NEW u \in Tx, Underway(u, a, b)' PROVE u \in Pool(a)'
    BY DEF BackedBy
  <2>2. CASE Underway(u, a, b)
    BY <1>2, <1>5, <1>6, <2>2 DEF PairInv, BackedBy
  <2>3. CASE ~Underway(u, a, b)
    <3>1. \E m \in spawned'[a][b] : u \in Carried(m) /\ m \notin spawned[a][b]
      BY <1>5, <2>1, <2>3 DEF Underway
    <3> QED
      BY <1>2, <1>4, <1>5, <3>1
  <2> QED
    BY <2>2, <2>3
<1>9. CoveredFor(a, b)'
  <2>1. SUFFICES ASSUME NEW u \in Range(Snapshot(a)'), First(u)
                 PROVE  \/ Holds(b, u)'
                        \/ Underway(u, a, b)'
                        \/ GetMempool \in Range(wire'[b][a])
                        \/ Version \in Range(wire'[a][b])
    BY DEF CoveredFor, First
  <2>2. CASE u \in Range(Snapshot(a))
    <3>1. CASE Holds(b, u)
      BY <1>3, <1>5, <3>1
    <3>2. CASE Underway(u, a, b)
      <4>1. CASE \E m \in Range(wire[a][b]) : u \in Carried(m)
        BY <1>4, <1>5, <1>3, <2>1, <4>1, SMTT(40) DEF Underway
      <4>2. CASE \E m \in spawned[a][b] : u \in Carried(m)
        <5>1. spawned[a][b] \subseteq spawned'[a][b]
          BY <1>2, <1>5
        <5> QED
          BY <4>2, <5>1 DEF Underway
      <4>3. CASE reply[a][b] # Nil /\ u \in Range(reply[a][b])
        BY <4>3 DEF Underway
      <4>4. CASE u \in Range(batch[b][a])
        BY <1>5, <1>3, <2>1, <4>4, SMTT(30) DEF Underway
      <4> QED
        BY <3>2, <4>1, <4>2, <4>3, <4>4 DEF Underway
    <3>3. CASE GetMempool \in Range(wire[b][a]) \/ Version \in Range(wire[a][b])
      BY <1>4, <1>5, <3>3
    <3> QED
      BY <1>6, <2>1, <2>2, <3>1, <3>2, <3>3 DEF PairInv, CoveredFor
  <2>3. CASE u \notin Range(Snapshot(a))
    <3>1. a = n /\ u = t /\ t \notin Pool(n) /\ t \in Pool(n)'
      <4>1. a = n /\ u = t /\ u \in Pool(a)'
        BY <1>3, <1>5, <2>1, <2>3
      <4>2. t \notin Pool(n)
        BY <1>3, <2>1, <2>3, <4>1 DEF Snapshot
      <4> QED
        BY <4>1, <4>2
    <3>2. CASE b \notin peers[n]
      BY <1>7, <3>1, <3>2 DEF HandshakeOf
    <3>3. CASE b \in peers[n] \ {x}
      <4>1. NewTx(t) \in spawned'[a][b]
        BY <1>2, <3>1, <3>3
      <4> QED
        BY <1>4, <3>1, <4>1 DEF Underway
    <3>4. CASE b = x
      <4>1. n # x
        BY <1>1, <1>5, <3>1, <3>4, ConnectedPairs
      <4>2. t \in Pool(x)
        BY <1>5, <3>1, <3>4, <4>1
      <4>3. Holds(x, t)
        BY <1>1, <4>2, SnapshotFacts
      <4> QED
        BY <1>3, <3>1, <3>4, <4>3
    <3> QED
      BY <3>2, <3>3, <3>4
  <2> QED
    BY <2>2, <2>3
<1> QED
  BY <1>7, <1>8, <1>9 DEF PairInv

\* What n does when it takes a message of p off the connection and writes none.
LEMMA ReadEffect ==
    ASSUME BaseInv, NEW n \in Node, NEW p \in Node, NEW type, Reading(n, p, type),
           wire' = Wire(n, p, 1, << >>)
    PROVE  /\ \A a, b \in Node : ~(a = p /\ b = n) => wire'[a][b] = wire[a][b]
           /\ Range(wire[p][n]) = Range(wire'[p][n]) \cup {Head(wire[p][n])}
<1>1. Types
  BY DEF BaseInv
<1>2. /\ n # p /\ wire[p][n] # << >>
      /\ Range(wire[p][n]) = Range(Tail(wire[p][n])) \cup {Head(wire[p][n])}
  BY ReadingFacts
<1> DEFINE e == << >>
<1>3. e \in Seq(Message(signed)) /\ wire' = Wire(n, p, 1, e)
  OBVIOUS
<1>4. wire[n][p] \o e = wire[n][p]
  <2>1. wire[n][p] \in Seq(Message(signed))
    BY <1>1 DEF Types
  <2> QED
    BY <2>1, RangeIn
<1> HIDE DEF e
<1>5. /\ \A a, b \in Node : ~(a = n /\ b = p) /\ ~(a = p /\ b = n) => wire'[a][b] = wire[a][b]
      /\ wire'[p][n] = Tail(wire[p][n])
      /\ wire'[n][p] = IF Connected(n, p) THEN wire[n][p] \o e ELSE wire[n][p]
  BY <1>1, <1>2, <1>3, WireEffect
<1> QED
  BY <1>2, <1>4, <1>5

\* A message other than the version is read from registered peers only.
LEMMA ReadRegistered ==
    ASSUME BaseInv, ExchangeInv, NEW n \in Node, NEW p \in Node, NEW type, Reading(n, p, type),
           type # "version"
    PROVE  p \in peers[n] /\ Head(wire[p][n]) # Version /\ PairInv(n, p) /\ PairInv(p, n)
<1>1. Connected(n, p) /\ Connected(p, n) /\ Head(wire[p][n]).type = type
  BY ReadingFacts
<1>2. PairInv(n, p) /\ PairInv(p, n)
  BY <1>1 DEF ExchangeInv
<1>3. Head(wire[p][n]) # Version
  BY <1>1, Messages
<1> QED
  BY <1>2, <1>3 DEF PairInv, HandshakeOf

LEMMA SendExchange ==
    ASSUME BaseInv, ExchangeInv, NEW n \in Node, NEW t \in Tx, Send(n, t)
    PROVE  ExchangeInv'
<1> DEFINE S == signed \cup {t}
<1>1. signed \subseteq S /\ S \subseteq Tx /\ t \in S
  BY DEF BaseInv, Types
<1>2. AddTx(n, t, n) /\ UNCHANGED <<conns, peers, wire, reply, batch>>
  BY DEF Send
<1> HIDE DEF S
<1> QED
  BY <1>1, <1>2, AddTxExchange

LEMMA NewTxExchange ==
    ASSUME BaseInv, ExchangeInv, NEW n \in Node, NEW p \in Node, onNewTx(n, p)
    PROVE  ExchangeInv'
<1> DEFINE t == Head(wire[p][n]).tx
           S == signed
<1>1. /\ Reading(n, p, "newtx") /\ AddTx(n, t, p) /\ wire' = Wire(n, p, 1, << >>)
      /\ UNCHANGED <<signed, conns, peers, reply, batch>>
  BY DEF onNewTx
<1>2. /\ n # p /\ Connected(n, p) /\ Head(wire[p][n]) \in Message(signed)
      /\ Head(wire[p][n]).type = "newtx"
  BY <1>1, ReadingFacts
<1>3. t \in S /\ S \subseteq Tx /\ signed \subseteq S /\ Head(wire[p][n]) = NewTx(t)
  BY <1>2, MessageKinds DEF BaseInv, Types
<1>4. /\ \A a, b \in Node : ~(a = p /\ b = n) => wire'[a][b] = wire[a][b]
      /\ Range(wire[p][n]) = Range(wire'[p][n]) \cup {Head(wire[p][n])}
  BY <1>1, ReadEffect
<1>5. p \in peers[n] /\ PairInv(p, n)
  BY <1>1, ReadRegistered
<1> HIDE DEF t, S
<1>6. t \in Pool(p)
  <2>1. NewTx(t) \in Range(wire[p][n]) /\ t \in Carried(NewTx(t)) /\ t \in Tx
    BY <1>3, <1>4, Messages
  <2>2. Underway(t, p, n)
    BY <2>1 DEF Underway
  <2> QED
    BY <1>5, <2>1, <2>2 DEF PairInv, BackedBy
<1>7. /\ \A a, b \in Node : Range(wire'[a][b]) \subseteq Range(wire[a][b])
      /\ \A a, b \in Node : \A m \in Range(wire[a][b]) :
           m \in Range(wire'[a][b]) \/ (b = n /\ m = NewTx(t))
  BY <1>3, <1>4
<1>8. \A a, b \in Node : Connected(a, b) /\ b \notin peers[a] => wire'[b][a] = wire[b][a]
  BY <1>4, <1>5
<1>9. AddTx(n, t, p) /\ UNCHANGED <<conns, peers, reply>> /\ batch' = batch
  BY <1>1 DEF t
<1>10. /\ \A a, b \in Node : Range(batch'[a][b]) \subseteq Range(batch[a][b])
       /\ \A a, b \in Node : \A u \in Range(batch[a][b]) :
            u \in Range(batch'[a][b]) \/ (a = n /\ u = t)
  BY <1>9
<1> QED
  BY <1>3, <1>6, <1>7, <1>8, <1>9, <1>10, AddTxExchange

LEMMA MempoolNextExchange ==
    ASSUME BaseInv, ExchangeInv, NEW n \in Node, NEW p \in Node, onMempoolNext(n, p)
    PROVE  ExchangeInv'
<1> DEFINE t == Head(batch[n][p])
           S == signed
<1>1. /\ batch[n][p] # << >> /\ AddTx(n, t, p)
      /\ batch' = [batch EXCEPT ![n][p] = Tail(@)]
      /\ UNCHANGED <<signed, conns, peers, wire, reply>>
  BY DEF onMempoolNext
<1>2. batch \in [Node -> [Node -> Seq(signed)]] /\ signed \subseteq Tx
  BY DEF BaseInv, Types
<1>3. /\ t \in S /\ S \subseteq Tx /\ signed \subseteq S
      /\ Range(batch[n][p]) = Range(Tail(batch[n][p])) \cup {t}
  BY <1>1, <1>2, RangeRest
<1>4. /\ \A a, b \in Node : ~(a = n /\ b = p) => batch'[a][b] = batch[a][b]
      /\ batch'[n][p] = Tail(batch[n][p])
  BY <1>1, <1>2
<1> HIDE DEF t, S
<1>5. ASSUME Connected(n, p) PROVE t \in Pool(p)
  <2>1. Connected(p, n)
    BY <1>5, ConnectedPairs DEF BaseInv
  <2>2. Underway(t, p, n) /\ t \in Tx
    BY <1>3 DEF Underway
  <2> QED
    BY <2>1, <2>2 DEF ExchangeInv, PairInv, BackedBy
<1>6. /\ \A a, b \in Node : Range(batch'[a][b]) \subseteq Range(batch[a][b])
      /\ \A a, b \in Node : \A u \in Range(batch[a][b]) :
           u \in Range(batch'[a][b]) \/ (a = n /\ u = t)
  BY <1>3, <1>4
<1>7. AddTx(n, t, p) /\ UNCHANGED <<conns, peers, reply>> /\ wire' = wire
  BY <1>1 DEF t
<1>8. /\ \A a, b \in Node : Range(wire'[a][b]) \subseteq Range(wire[a][b])
      /\ \A a, b \in Node : \A m \in Range(wire[a][b]) :
           m \in Range(wire'[a][b]) \/ (b = n /\ m = NewTx(t))
      /\ \A a, b \in Node : Connected(a, b) /\ b \notin peers[a] => wire'[b][a] = wire[b][a]
  BY <1>7
<1> QED
  BY <1>3, <1>5, <1>6, <1>7, <1>8, AddTxExchange

\* A step on the connection of n and p leaves the other connections alone.
LEMMA OtherPairs ==
    ASSUME Types, ExchangeInv, NEW n \in Node, NEW p \in Node, UNCHANGED <<pool, conns>>,
           \A a, b \in Node : ~(a = n /\ b = p) /\ ~(a = p /\ b = n) =>
               /\ wire'[a][b] = wire[a][b] /\ spawned'[a][b] = spawned[a][b]
               /\ reply'[a][b] = reply[a][b] /\ batch'[a][b] = batch[a][b]
               /\ b \in peers'[a] <=> b \in peers[a],
           Connected(n, p) => PairInv(n, p)' /\ PairInv(p, n)'
    PROVE  ExchangeInv'
<1>1. SUFFICES ASSUME NEW a \in Node, NEW b \in Node, Connected(a, b)
               PROVE  PairInv(a, b)'
  BY DEF ExchangeInv, Connected
<1>2. CASE (a = n /\ b = p) \/ (a = p /\ b = n)
  BY <1>1, <1>2, ConnectedPairs
<1>3. CASE ~(a = n /\ b = p) /\ ~(a = p /\ b = n)
  <2>1. PairInv(a, b)
    BY <1>1 DEF ExchangeInv
  <2>2. pool'[a] = pool[a] /\ \A t : Holds(b, t) => Holds(b, t)'
    BY DEF Holds, Pool
  <2> QED
    BY <1>3, <2>1, <2>2, Untouched
<1> QED
  BY <1>2, <1>3

LEMMA GetMempoolExchange ==
    ASSUME BaseInv, ExchangeInv, NEW n \in Node, NEW p \in Node, onGetMempool(n, p)
    PROVE  ExchangeInv'
<1>1. Types
  BY DEF BaseInv
<1>2. /\ Reading(n, p, "getmempool") /\ wire' = Wire(n, p, 1, << >>)
      /\ reply' = [reply EXCEPT ![n][p] = IF Snapshot(n) = << >> THEN Nil ELSE Snapshot(n)]
      /\ UNCHANGED <<pool, conns, peers, spawned, batch>>
  BY DEF onGetMempool
<1>3. /\ n # p /\ reply[n][p] = Nil /\ Head(wire[p][n]) \in Message(signed)
      /\ Head(wire[p][n]).type = "getmempool"
  BY <1>2, ReadingFacts
<1>4. p \in peers[n] /\ PairInv(n, p) /\ PairInv(p, n)
  BY <1>2, ReadRegistered
<1>5. Head(wire[p][n]) = GetMempool /\ GetMempool # Version /\ Carried(GetMempool) = {}
  BY <1>3, MessageKinds, Messages
<1>6. /\ \A a, b \in Node : ~(a = p /\ b = n) => wire'[a][b] = wire[a][b]
      /\ Range(wire[p][n]) = Range(wire'[p][n]) \cup {GetMempool}
  BY <1>2, <1>5, ReadEffect
<1>7. /\ \A a, b \in Node : ~(a = n /\ b = p) => reply'[a][b] = reply[a][b]
      /\ reply'[n][p] = IF Snapshot(n) = << >> THEN Nil ELSE Snapshot(n)
  BY <1>1, <1>2 DEF Types
<1>8. /\ Pool(n)' = Pool(n) /\ Pool(p)' = Pool(p)
      /\ Snapshot(n)' = Snapshot(n) /\ Snapshot(p)' = Snapshot(p)
      /\ \A t : Holds(n, t)' <=> Holds(n, t)
      /\ \A t : Holds(p, t)' <=> Holds(p, t)
  BY <1>2 DEF Pool, Snapshot, Holds
<1>9. /\ Snapshot(n) \in Seq(signed) /\ Snapshot(n) # Nil
      /\ Range(Snapshot(n)) \subseteq Pool(n)
  <2>1. Snapshot(n) \in Seq(signed) /\ Range(Snapshot(n)) \subseteq Pool(n)
    BY <1>1, SnapshotFacts
  <2>2. Seq(signed) \subseteq Seq(Tx)
    BY <1>1, MessagesGrow DEF Types
  <2> QED
    BY <2>1, <2>2, RelayAssumption
<1>10. /\ \A t \in Range(Snapshot(n)) : Underway(t, n, p)'
       /\ \A t \in Tx : Underway(t, n, p)' => t \in Pool(n) \/ Underway(t, n, p)
  <2>1. Snapshot(n) = << >> => Range(Snapshot(n)) = {}
    BY <1>9, RangeIn
  <2>2. wire'[n][p] = wire[n][p]
    BY <1>3, <1>6
  <2> QED
    BY <1>2, <1>7, <1>9, <2>1, <2>2 DEF Underway
<1>11. PairInv(n, p)'
  <2>1. HandshakeOf(n, p)'
    BY <1>2, <1>4 DEF HandshakeOf
  <2>2. BackedBy(n, p)'
    BY <1>4, <1>8, <1>10 DEF PairInv, BackedBy
  <2>3. CoveredFor(n, p)'
    BY <1>8, <1>10 DEF CoveredFor
  <2> QED
    BY <2>1, <2>2, <2>3 DEF PairInv
<1>12. PairInv(p, n)'
  <2>1. \A t : Underway(t, p, n)' <=> Underway(t, p, n)
    BY <1>2, <1>3, <1>5, <1>6, <1>7 DEF Underway
  <2>2. wire'[n][p] = wire[n][p]
        /\ (Version \in Range(wire[p][n]) => Version \in Range(wire'[p][n]))
    BY <1>3, <1>5, <1>6
  <2>3. HandshakeOf(p, n)'
    BY <1>2, <1>4, <2>2 DEF PairInv, HandshakeOf
  <2>4. BackedBy(p, n)'
    BY <1>4, <1>8, <2>1 DEF PairInv, BackedBy
  <2>5. CoveredFor(p, n)'
    BY <1>4, <1>8, <2>1, <2>2 DEF PairInv, CoveredFor
  <2> QED
    BY <2>3, <2>4, <2>5 DEF PairInv
<1> QED
  BY <1>1, <1>2, <1>6, <1>7, <1>11, <1>12, OtherPairs

LEMMA MempoolExchange ==
    ASSUME BaseInv, ExchangeInv, NEW n \in Node, NEW p \in Node, onMempool(n, p)
    PROVE  ExchangeInv'
<1>1. Types
  BY DEF BaseInv
<1>2. /\ Reading(n, p, "mempool") /\ wire' = Wire(n, p, 1, << >>)
      /\ batch' = [batch EXCEPT ![n][p] = Head(wire[p][n]).txs]
      /\ UNCHANGED <<pool, conns, peers, spawned, reply>>
  BY DEF onMempool
<1> DEFINE h == Head(wire[p][n])
<1>3. n # p /\ batch[n][p] = << >> /\ h \in Message(signed) /\ h.type = "mempool"
  BY <1>2, ReadingFacts
<1>4. p \in peers[n] /\ PairInv(n, p) /\ PairInv(p, n)
  BY <1>2, ReadRegistered
<1>5. h # GetMempool /\ h # Version /\ Carried(h) = Range(h.txs)
  BY <1>3, MessageKinds, Messages
<1>6. /\ \A a, b \in Node : ~(a = p /\ b = n) => wire'[a][b] = wire[a][b]
      /\ Range(wire[p][n]) = Range(wire'[p][n]) \cup {h}
  BY <1>2, ReadEffect
<1>7. /\ \A a, b \in Node : ~(a = n /\ b = p) => batch'[a][b] = batch[a][b]
      /\ batch'[n][p] = h.txs
  BY <1>1, <1>2 DEF Types
<1> HIDE DEF h
<1>8. /\ Pool(n)' = Pool(n) /\ Pool(p)' = Pool(p)
      /\ Snapshot(n)' = Snapshot(n) /\ Snapshot(p)' = Snapshot(p)
      /\ \A t : Holds(n, t)' <=> Holds(n, t)
      /\ \A t : Holds(p, t)' <=> Holds(p, t)
  BY <1>2 DEF Pool, Snapshot, Holds
<1>9. Range(batch[n][p]) = {}
  <2>1. batch[n][p] \in Seq(signed)
    BY <1>1 DEF Types
  <2> QED
    BY <1>3, <2>1, RangeIn
<1>10. \A t : Underway(t, p, n)' <=> Underway(t, p, n)
  BY <1>2, <1>5, <1>6, <1>7, <1>9 DEF Underway
<1>11. \A t : Underway(t, n, p)' <=> Underway(t, n, p)
  BY <1>2, <1>3, <1>6, <1>7 DEF Underway
<1>12. /\ wire'[n][p] = wire[n][p]
       /\ Version \in Range(wire[p][n]) <=> Version \in Range(wire'[p][n])
       /\ GetMempool \in Range(wire[p][n]) <=> GetMempool \in Range(wire'[p][n])
  BY <1>3, <1>5, <1>6
<1>13. HandshakeOf(n, p)' /\ HandshakeOf(p, n)'
  BY <1>2, <1>4, <1>12 DEF PairInv, HandshakeOf
<1>14. BackedBy(n, p)' /\ BackedBy(p, n)'
  BY <1>4, <1>8, <1>10, <1>11 DEF PairInv, BackedBy
<1>15. CoveredFor(n, p)' /\ CoveredFor(p, n)'
  BY <1>4, <1>8, <1>10, <1>11, <1>12 DEF PairInv, CoveredFor
<1>16. PairInv(n, p)' /\ PairInv(p, n)'
  BY <1>13, <1>14, <1>15 DEF PairInv
<1> QED
  BY <1>1, <1>2, <1>6, <1>7, <1>16, OtherPairs

Single(m) == <<m>>

\* What n does when it takes read messages of p off the connection and writes m.
LEMMA WriteEffect ==
    ASSUME BaseInv, NEW n \in Node, NEW p \in Node, n # p,
           NEW read \in {0, 1}, read = 1 => wire[p][n] # << >>,
           NEW m \in Message(signed), wire' = Wire(n, p, read, Single(m))
    PROVE  /\ \A a, b \in Node : ~(a = n /\ b = p) /\ ~(a = p /\ b = n) => wire'[a][b] = wire[a][b]
           /\ wire'[p][n] = IF read = 0 THEN wire[p][n] ELSE Tail(wire[p][n])
           /\ Connected(n, p) =>
                /\ Range(wire'[n][p]) = Range(wire[n][p]) \cup {m}
                /\ wire[n][p] # << >> => wire'[n][p] # << >> /\ Head(wire'[n][p]) = Head(wire[n][p])
<1>1. Types
  BY DEF BaseInv
<1> DEFINE e == Single(m)
           w == wire[n][p]
<1>2. e \in Seq(Message(signed)) /\ wire' = Wire(n, p, read, e)
  BY DEF Single
<1>3. w \in Seq(Message(signed))
  BY <1>1 DEF Types
<1>4. w \o e = Append(w, m) /\ Range(Append(w, m)) = Range(w) \cup {m}
  BY <1>3, RangeAppend DEF Single
<1>5. w # << >> => Append(w, m) # << >> /\ Head(Append(w, m)) = Head(w)
  <2> HIDE DEF w
  <2> QED
    BY <1>3
<1> HIDE DEF e
<1>6. /\ \A a, b \in Node : ~(a = n /\ b = p) /\ ~(a = p /\ b = n) => wire'[a][b] = wire[a][b]
      /\ wire'[p][n] = IF read = 0 THEN wire[p][n] ELSE Tail(wire[p][n])
      /\ wire'[n][p] = IF Connected(n, p) THEN w \o e ELSE wire[n][p]
  BY <1>1, <1>2, WireEffect
<1> HIDE DEF w
<1>7. Connected(n, p) => wire'[n][p] = Append(w, m)
  BY <1>4, <1>6
<1>8. Connected(n, p) =>
        /\ Range(wire'[n][p]) = Range(w) \cup {m}
        /\ w # << >> => wire'[n][p] # << >> /\ Head(wire'[n][p]) = Head(w)
  BY <1>4, <1>5, <1>7
<1> QED
  BY <1>6, <1>8 DEF w

\* n has written m to p, and nothing else has changed between them but that it
\* has removed m from where it was kept.
LEMMA WrittenPairs ==
    ASSUME NEW n \in Node, NEW p \in Node, n # p, PairInv(n, p), PairInv(p, n),
           UNCHANGED <<pool, peers>>, NEW m,
           wire'[p][n] = wire[p][n], Range(wire'[n][p]) = Range(wire[n][p]) \cup {m},
           wire[n][p] # << >> => wire'[n][p] # << >> /\ Head(wire'[n][p]) = Head(wire[n][p]),
           spawned'[p][n] = spawned[p][n], reply'[p][n] = reply[p][n], batch' = batch,
           \A t : Underway(t, n, p)' <=> Underway(t, n, p)
    PROVE  PairInv(n, p)' /\ PairInv(p, n)'
<1>1. /\ Pool(n)' = Pool(n) /\ Pool(p)' = Pool(p)
      /\ Snapshot(n)' = Snapshot(n) /\ Snapshot(p)' = Snapshot(p)
      /\ \A t : Holds(n, t)' <=> Holds(n, t)
      /\ \A t : Holds(p, t)' <=> Holds(p, t)
  BY DEF Pool, Snapshot, Holds
<1>2. \A t : Underway(t, p, n)' <=> Underway(t, p, n)
  BY DEF Underway
<1>3. HandshakeOf(n, p)' /\ HandshakeOf(p, n)'
  BY DEF PairInv, HandshakeOf
<1>4. BackedBy(n, p)' /\ BackedBy(p, n)'
  BY <1>1, <1>2 DEF PairInv, BackedBy
<1>5. CoveredFor(n, p)' /\ CoveredFor(p, n)'
  BY <1>1, <1>2 DEF PairInv, CoveredFor
<1> QED
  BY <1>3, <1>4, <1>5 DEF PairInv

LEMMA SendMempoolExchange ==
    ASSUME BaseInv, ExchangeInv, NEW n \in Node, NEW p \in Node, SendMempool(n, p)
    PROVE  ExchangeInv'
<1>1. Types /\ Unconnected
  BY DEF BaseInv
<1> DEFINE m == Mempool(reply[n][p])
<1>2. /\ reply[n][p] # Nil /\ wire' = Wire(n, p, 0, <<m>>)
      /\ reply' = [reply EXCEPT ![n][p] = Nil]
      /\ UNCHANGED <<pool, conns, peers, spawned, batch>>
  BY DEF SendMempool
<1>3. n # p /\ reply[n][p] \in Seq(signed)
  BY <1>1, <1>2 DEF Types, Unconnected
<1>4. m \in Message(signed) /\ Carried(m) = Range(reply[n][p])
  BY <1>3, Messages DEF Message
<1> HIDE DEF m
<1>5. /\ \A a, b \in Node : ~(a = n /\ b = p) /\ ~(a = p /\ b = n) => wire'[a][b] = wire[a][b]
      /\ wire'[p][n] = wire[p][n]
      /\ Connected(n, p) =>
           /\ Range(wire'[n][p]) = Range(wire[n][p]) \cup {m}
           /\ wire[n][p] # << >> => wire'[n][p] # << >> /\ Head(wire'[n][p]) = Head(wire[n][p])
  <2>1. wire' = Wire(n, p, 0, Single(m))
    BY <1>2 DEF Single
  <2>2. n # p /\ m \in Message(signed)
    BY <1>3, <1>4
  <2> QED
    BY <2>1, <2>2, WriteEffect
<1>6. /\ \A a, b \in Node : ~(a = n /\ b = p) => reply'[a][b] = reply[a][b]
      /\ reply'[n][p] = Nil
  BY <1>1, <1>2 DEF Types
<1>7. ASSUME Connected(n, p) PROVE PairInv(n, p)' /\ PairInv(p, n)'
  <2>1. Connected(p, n) /\ PairInv(n, p) /\ PairInv(p, n)
    BY <1>1, <1>7, ConnectedPairs DEF ExchangeInv
  <2>2. \A t : Underway(t, n, p)' <=> Underway(t, n, p)
    BY <1>2, <1>4, <1>5, <1>6, <1>7 DEF Underway
  <2> QED
    BY <1>2, <1>3, <1>5, <1>6, <1>7, <2>1, <2>2, WrittenPairs
<1> QED
  BY <1>1, <1>2, <1>5, <1>6, <1>7, OtherPairs

LEMMA SpawnedExchange ==
    ASSUME BaseInv, ExchangeInv, NEW n \in Node, NEW p \in Node, WriteSpawned(n, p)
    PROVE  ExchangeInv'
<1>1. Types /\ Unconnected
  BY DEF BaseInv
<1>2. PICK m \in spawned[n][p] :
        /\ spawned' = [spawned EXCEPT ![n][p] = @ \ {m}] /\ wire' = Wire(n, p, 0, <<m>>)
        /\ UNCHANGED <<pool, conns, peers, reply, batch>>
  BY DEF WriteSpawned
<1>3. m \in Message(signed) /\ Connected(n, p)
  BY <1>1, <1>2 DEF Types, Unconnected
<1>4. n # p /\ Connected(p, n) /\ PairInv(n, p) /\ PairInv(p, n)
  BY <1>1, <1>3, ConnectedPairs DEF ExchangeInv
<1>5. /\ \A a, b \in Node : ~(a = n /\ b = p) /\ ~(a = p /\ b = n) => wire'[a][b] = wire[a][b]
      /\ wire'[p][n] = wire[p][n]
      /\ Range(wire'[n][p]) = Range(wire[n][p]) \cup {m}
      /\ wire[n][p] # << >> => wire'[n][p] # << >> /\ Head(wire'[n][p]) = Head(wire[n][p])
  <2>1. wire' = Wire(n, p, 0, Single(m))
    BY <1>2 DEF Single
  <2> QED
    BY <1>3, <1>4, <2>1, WriteEffect
<1>6. UNCHANGED <<pool, conns, peers, reply, batch>>
  BY <1>2
<1>7. /\ \A a, b \in Node : ~(a = n /\ b = p) => spawned'[a][b] = spawned[a][b]
      /\ spawned'[n][p] = spawned[n][p] \ {m}
  BY <1>1, <1>2 DEF Types
<1>8. \A t : Underway(t, n, p)' <=> Underway(t, n, p)
  BY <1>5, <1>6, <1>7 DEF Underway
<1>9. spawned'[p][n] = spawned[p][n]
  BY <1>4, <1>7
<1>10. PairInv(n, p)' /\ PairInv(p, n)'
  BY <1>4, <1>5, <1>6, <1>8, <1>9, WrittenPairs
<1> QED
  BY <1>1, <1>5, <1>6, <1>7, <1>10, OtherPairs

LEMMA PeerConnectExchange ==
    ASSUME BaseInv, ExchangeInv, NEW n \in Node, NEW p \in Node, onPeerConnect(n, p)
    PROVE  ExchangeInv'
<1>1. Types
  BY DEF BaseInv
<1>2. /\ Reading(n, p, "version") /\ wire' = Wire(n, p, 1, Single(GetMempool))
      /\ peers' = [peers EXCEPT ![n] = @ \cup {p}]
      /\ UNCHANGED <<pool, conns, spawned, reply, batch>>
  BY DEF onPeerConnect, Request, Single
<1>3. /\ n # p /\ Connected(n, p) /\ Connected(p, n) /\ wire[p][n] # << >>
      /\ Head(wire[p][n]) \in Message(signed) /\ Head(wire[p][n]).type = "version"
      /\ Range(wire[p][n]) = Range(Tail(wire[p][n])) \cup {Head(wire[p][n])}
  BY <1>2, ReadingFacts
<1>4. PairInv(n, p) /\ PairInv(p, n)
  BY <1>3 DEF ExchangeInv
<1>5. /\ Head(wire[p][n]) = Version /\ GetMempool # Version
      /\ Carried(Version) = {} /\ Carried(GetMempool) = {} /\ GetMempool \in Message(signed)
  BY <1>3, MessageKinds, Messages DEF Message
<1>6. /\ \A a, b \in Node : ~(a = n /\ b = p) /\ ~(a = p /\ b = n) => wire'[a][b] = wire[a][b]
      /\ wire'[p][n] = Tail(wire[p][n])
      /\ Range(wire'[n][p]) = Range(wire[n][p]) \cup {GetMempool}
      /\ wire[n][p] # << >> => wire'[n][p] # << >> /\ Head(wire'[n][p]) = Head(wire[n][p])
  <2>1. n # p /\ wire[p][n] # << >> /\ GetMempool \in Message(signed) /\ Connected(n, p)
    BY <1>3, <1>5
  <2>2. wire' = Wire(n, p, 1, Single(GetMempool))
    BY <1>2
  <2> HIDE DEF GetMempool
  <2> QED
    BY <2>1, <2>2, WriteEffect
<1>7. Range(wire[p][n]) = Range(wire'[p][n]) \cup {Version}
  BY <1>3, <1>5, <1>6
<1>8. /\ \A a, b \in Node : ~(a = n /\ b = p) => (b \in peers'[a] <=> b \in peers[a])
      /\ p \in peers'[n]
  BY <1>1, <1>2 DEF Types
<1>9. /\ Pool(n)' = Pool(n) /\ Pool(p)' = Pool(p)
      /\ Snapshot(n)' = Snapshot(n) /\ Snapshot(p)' = Snapshot(p)
      /\ \A t : Holds(n, t)' <=> Holds(n, t)
      /\ \A t : Holds(p, t)' <=> Holds(p, t)
  BY <1>2 DEF Pool, Snapshot, Holds
<1>10. /\ \A t : Underway(t, n, p)' <=> Underway(t, n, p)
       /\ \A t : Underway(t, p, n)' <=> Underway(t, p, n)
  BY <1>2, <1>5, <1>6, <1>7 DEF Underway
<1>11. HandshakeOf(n, p)' /\ HandshakeOf(p, n)'
  <2>1. n \in peers'[p] <=> n \in peers[p]
    BY <1>3, <1>8
  <2> QED
    BY <1>4, <1>6, <1>8, <2>1 DEF PairInv, HandshakeOf
<1>12. BackedBy(n, p)' /\ BackedBy(p, n)'
  BY <1>4, <1>9, <1>10 DEF PairInv, BackedBy
<1>13. CoveredFor(n, p)'
  BY <1>4, <1>5, <1>6, <1>7, <1>9, <1>10 DEF PairInv, CoveredFor
<1>14. CoveredFor(p, n)'
  BY <1>6 DEF CoveredFor
<1>15. PairInv(n, p)' /\ PairInv(p, n)'
  BY <1>11, <1>12, <1>13, <1>14 DEF PairInv
<1> QED
  BY <1>1, <1>2, <1>6, <1>8, <1>15, OtherPairs

LEMMA ConnectExchange ==
    ASSUME BaseInv, ExchangeInv, NEW l \in Links, Connect(l)
    PROVE  ExchangeInv'
<1>1. Types /\ Unconnected
  BY DEF BaseInv
<1>2. /\ l \notin conns /\ conns' = conns \cup {l}
      /\ \A n, p \in l : reply[n][p] = Nil /\ batch[n][p] = << >>
      /\ UNCHANGED <<pool, signed, peers, spawned, reply, batch>>
      /\ wire' = [n \in Node |-> [p \in Node |->
                    IF l = {n, p} THEN <<Version>> ELSE wire[n][p]]]
  BY DEF Connect
<1>3. SUFFICES ASSUME NEW a \in Node, NEW b \in Node, {a, b} \in conns'
               PROVE  PairInv(a, b)'
  BY DEF ExchangeInv, Connected
<1>4. {a, b} = {b, a}
  OBVIOUS
<1>5. CASE {a, b} # l
  <2>1. Connected(a, b)
    BY <1>2, <1>3, <1>5 DEF Connected
  <2>2. PairInv(a, b)
    BY <2>1 DEF ExchangeInv
  <2>3. wire'[a][b] = wire[a][b] /\ wire'[b][a] = wire[b][a]
    BY <1>2, <1>4, <1>5
  <2>4. pool'[a] = pool[a] /\ \A t : Holds(b, t) => Holds(b, t)'
    BY <1>2 DEF Holds, Pool
  <2>5. UNCHANGED <<peers, spawned, reply, batch>>
    BY <1>2
  <2> QED
    BY <2>2, <2>3, <2>4, <2>5, Untouched
<1>6. CASE {a, b} = l
  <2> DEFINE v == <<Version>>
  <2>1. wire'[a][b] = v /\ wire'[b][a] = v
    BY <1>2, <1>4, <1>6
  <2>2. v # << >> /\ Head(v) = Version /\ Range(v) = {Version} /\ Carried(Version) = {}
    <3>1. DOMAIN v = {1}
      OBVIOUS
    <3> QED
      BY <3>1, Messages DEF Range
  <2>3. ~Connected(a, b)
    BY <1>2, <1>6 DEF Connected
  <2>4. spawned'[a][b] = {} /\ reply'[a][b] = Nil /\ batch'[b][a] = << >>
    BY <1>1, <1>2, <1>6, <2>3 DEF Unconnected
  <2>5. Range(batch'[b][a]) = {}
    <3>1. << >> \in Seq(Tx)
      OBVIOUS
    <3> QED
      BY <2>4, <3>1, RangeIn
  <2> HIDE DEF v
  <2>6. \A t : ~Underway(t, a, b)'
    BY <2>1, <2>2, <2>4, <2>5 DEF Underway
  <2>7. HandshakeOf(a, b)'
    BY <2>1, <2>2 DEF HandshakeOf
  <2>8. BackedBy(a, b)' /\ CoveredFor(a, b)'
    BY <2>1, <2>2, <2>6 DEF BackedBy, CoveredFor
  <2> QED
    BY <2>7, <2>8 DEF PairInv
<1> QED
  BY <1>5, <1>6

LEMMA LoseExchange ==
    ASSUME ExchangeInv, NEW L, Lose(L),
           \A a, b \in Node : Connected(a, b) /\ {a, b} \notin L =>
               pool'[a] = pool[a] /\ reply'[a][b] = reply[a][b] /\ batch'[a][b] = batch[a][b]
    PROVE  ExchangeInv'
<1>1. /\ conns' = conns \ L
      /\ peers' = [n \in Node |-> {p \in peers[n] : {n, p} \notin L}]
      /\ wire' = [n \in Node |-> [p \in Node |-> IF {n, p} \in L THEN << >> ELSE wire[n][p]]]
      /\ spawned' = [n \in Node |-> [p \in Node |-> IF {n, p} \in L THEN {} ELSE spawned[n][p]]]
  BY DEF Lose
<1>2. SUFFICES ASSUME NEW a \in Node, NEW b \in Node, {a, b} \in conns'
               PROVE  PairInv(a, b)'
  BY DEF ExchangeInv, Connected
<1>3. {a, b} = {b, a} /\ {a, b} \notin L
  BY <1>1, <1>2
<1>4. Connected(a, b) /\ Connected(b, a)
  BY <1>1, <1>2, <1>3 DEF Connected
<1>5. PairInv(a, b)
  BY <1>4 DEF ExchangeInv
<1>6. /\ wire'[a][b] = wire[a][b] /\ wire'[b][a] = wire[b][a]
      /\ spawned'[a][b] = spawned[a][b] /\ (b \in peers'[a] <=> b \in peers[a])
  BY <1>1, <1>3
<1>7. reply'[a][b] = reply[a][b] /\ batch'[b][a] = batch[b][a]
      /\ pool'[a] = pool[a] /\ \A t : Holds(b, t) => Holds(b, t)'
  BY <1>3, <1>4 DEF Holds, Pool
<1> QED
  BY <1>5, <1>6, <1>7, Untouched

LEMMA DisconnectExchange ==
    ASSUME BaseInv, ExchangeInv, NEW l \in Links, Disconnect(l)
    PROVE  ExchangeInv'
BY LoseExchange DEF Disconnect

LEMMA RestartExchange ==
    ASSUME BaseInv, ExchangeInv, NEW n \in Node, Restart(n)
    PROVE  ExchangeInv'
<1>1. Types
  BY DEF BaseInv
<1> DEFINE L == {l \in conns : n \in l}
<1>2. /\ Lose(L)
      /\ pool' = [pool EXCEPT ![n] = << >>]
      /\ reply' = [reply EXCEPT ![n] = [p \in Node |-> Nil]]
      /\ batch' = [batch EXCEPT ![n] = [p \in Node |-> << >>]]
  BY DEF Restart
<1>3. ASSUME NEW a \in Node, NEW b \in Node, Connected(a, b), {a, b} \notin L
      PROVE  pool'[a] = pool[a] /\ reply'[a][b] = reply[a][b] /\ batch'[a][b] = batch[a][b]
  <2>1. a # n
    BY <1>3 DEF Connected
  <2> QED
    BY <1>1, <1>2, <2>1 DEF Types
<1> HIDE DEF L
<1> QED
  BY <1>2, <1>3, LoseExchange

LEMMA ExchangeStep == BaseInv /\ ExchangeInv /\ [Next]_vars => ExchangeInv'
<1> SUFFICES ASSUME BaseInv, ExchangeInv, [Next]_vars PROVE ExchangeInv'
  OBVIOUS
<1>1. CASE UNCHANGED vars
  <2>1. SUFFICES ASSUME NEW a \in Node, NEW b \in Node, Connected(a, b)
                 PROVE  PairInv(a, b)'
    BY <1>1 DEF ExchangeInv, Connected, vars
  <2>2. PairInv(a, b) /\ pool'[a] = pool[a] /\ \A t : Holds(b, t) => Holds(b, t)'
    BY <1>1, <2>1 DEF ExchangeInv, Holds, Pool, vars
  <2> QED
    BY <1>1, <2>2, Untouched DEF vars
<1>2. ASSUME NEW n \in Node, NEW t \in Tx, Send(n, t) PROVE ExchangeInv'
  BY <1>2, SendExchange
<1>3. ASSUME NEW n \in Node, NEW p \in Node, ReadLoop(n, p) \/ WriteSpawned(n, p)
      PROVE  ExchangeInv'
  <2>1. CASE onGetMempool(n, p)
    BY <2>1, GetMempoolExchange
  <2> QED
    BY <1>3, <2>1, PeerConnectExchange, SendMempoolExchange, NewTxExchange, MempoolExchange,
       MempoolNextExchange, SpawnedExchange DEF ReadLoop
<1>4. ASSUME NEW n \in Node, Restart(n) PROVE ExchangeInv'
  BY <1>4, RestartExchange
<1>5. ASSUME NEW l \in Links, Connect(l) \/ Disconnect(l) PROVE ExchangeInv'
  BY <1>5, ConnectExchange, DisconnectExchange
<1> QED
  BY <1>1, <1>2, <1>3, <1>4, <1>5 DEF Next

\* No tx slips between the mempool exchange and the flood, for any number of
\* nodes, links and transactions, wherever the handshakes, floods, replies, lost
\* connections and restarts interleave: of what one reply reaches, the other end
\* of a quiet connection has everything, or what a wallet signed in its place
\* (onPeerConnect, onGetMempool, onMempool, onNewTx, AddTx, Broadcast).
THEOREM NothingEverSlips == Spec => []NothingSlips
<1>1. ASSUME BaseInv, ExchangeInv, NEW n \in Node, NEW p \in Node, Quiet(n, p),
             NEW t \in Range(Snapshot(n)), First(t)
      PROVE  Holds(p, t)
  <2>1. p \in peers[n] /\ n \in {n, p} /\ p \in {n, p}
    BY <1>1 DEF Quiet
  <2>2. Connected(n, p)
    BY <1>1, <2>1 DEF BaseInv, Unconnected
  <2>3. /\ wire[n][p] = << >> /\ wire[p][n] = << >> /\ spawned[n][p] = {}
        /\ reply[n][p] = Nil /\ batch[p][n] = << >>
    BY <1>1, <2>1 DEF Quiet
  <2>4. Range(<< >>) = {}
    <3>1. << >> \in Seq(Tx)
      OBVIOUS
    <3> QED
      BY <3>1, RangeIn
  <2>5. ~Underway(t, n, p)
    BY <2>3, <2>4 DEF Underway
  <2> QED
    BY <1>1, <2>2, <2>3, <2>4, <2>5 DEF ExchangeInv, PairInv, CoveredFor
<1>2. BaseInv /\ ExchangeInv => NothingSlips
  BY <1>1 DEF NothingSlips
<1> QED
  BY <1>2, InitBase, BaseHolds, ExchangeStep, PTL DEF Spec
=============================================================================
