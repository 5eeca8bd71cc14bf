------------------------------- MODULE Ledger -------------------------------
(***************************************************************************)
(* The account ledger (internal/state/state.go), the intrinsic checks on a *)
(* transaction (internal/chain/tx.go) and the reward schedule              *)
(* (internal/chain/params.go).                                             *)
(*                                                                         *)
(* A transaction is a record with the fields of chain.Tx; its PubKey and   *)
(* Sig are abstracted to "auth": "none" (it carries neither), "valid" (the *)
(* key derives From and the signature verifies) or "bad".  A tx is its own *)
(* identity, so equality of records stands for equality of Tx.Hash.        *)
(*                                                                         *)
(* The map of State.accounts is a total function: State.get creates the    *)
(* zero account on first use, and every reader treats an absent account as *)
(* the zero account.  An operation that fails yields Invalid: its callers  *)
(* then drop the clone it worked on, or leave it as it was (ApplyTx checks *)
(* everything before its first write).                                     *)
(***************************************************************************)
EXTENDS Integers, Sequences, SequencesExt

CONSTANTS Address,          \* the well-formed addresses (crypto.Address.Valid)
          CoinbaseAddress,  \* the empty From address
          Invalid,          \* the result of an operation that returns an error
          MaxUint64,        \* 2^w - 1, the largest amount of the integer width
          InitialReward,    \* params.InitialReward
          HalvingInterval   \* params.HalvingInterval

(***************************************************************************)
(* All rewards of the schedule fit the integer width: the sum over all     *)
(* heights is below 2 * InitialReward * HalvingInterval.  This is what     *)
(* keeps State.Credit away from its panic("balance overflow").             *)
(***************************************************************************)
ASSUME LedgerAssumption ==
    /\ IsFiniteSet(Address) /\ CoinbaseAddress \notin Address
    /\ MaxUint64 \in Nat /\ InitialReward \in Nat
    /\ HalvingInterval \in Nat \ {0}
    /\ 2 * InitialReward * HalvingInterval <= MaxUint64

Accounts == [Address -> [balance : Nat, nonce : Nat]]

\* state.New()
NewState == [a \in Address |-> [balance |-> 0, nonce |-> 0]]

\* Unsigned addition of the integer width.
Add64(x, y) == (x + y) % (MaxUint64 + 1)

\* InitialReward >> k, one bit at a time.
Halved[k \in 0 .. 63] == IF k = 0 THEN InitialReward ELSE Halved[k - 1] \div 2

RewardAt(height) ==
    LET halvings == height \div HalvingInterval
    IN  IF halvings >= 64 THEN 0 ELSE Halved[halvings]

IsCoinbase(t) == t.from = CoinbaseAddress

Verify(t) ==
    IF IsCoinbase(t)
    THEN /\ t.auth = "none"
         /\ t.fee = 0
         /\ t.to \in Address
         /\ t.amount # 0
    ELSE /\ t.from \in Address
         /\ t.to \in Address
         /\ t.amount # 0 \/ t.fee # 0
         /\ t.auth = "valid"

Credit(s, a, amt) == [s EXCEPT ![a].balance = @ + amt]

\* Mutation: an old nonce is accepted again.
NonceFitsLoose(s, t) == t.nonce <= s[t.from].nonce

NonceFits(s, t) == t.nonce = s[t.from].nonce

ApplyTx(s, t) ==
    LET spend == Add64(t.amount, t.fee) IN
    IF /\ ~IsCoinbase(t)
       /\ NonceFits(s, t)
       /\ spend >= t.amount
       /\ s[t.from].balance >= spend
    THEN Credit([s EXCEPT ![t.from] = [balance |-> @.balance - spend,
                                       nonce   |-> @.nonce + 1]],
                t.to, t.amount)
    ELSE Invalid

\* A coinbase never passes: the empty address owns nothing and Verify makes
\* the amount nonzero.
ValidateTx(s, t) ==
    /\ Verify(t)
    /\ ~IsCoinbase(t)
    /\ NonceFits(s, t)
    /\ s[t.from].balance >= Add64(t.amount, t.fee)

(***************************************************************************)
(* The loop over b.Txs[1:]: the accumulator pairs the account state with   *)
(* the fees collected so far.                                              *)
(***************************************************************************)
ApplyVerified(acc, t) ==
    LET next == ApplyTx(acc.state, t)
        fees == Add64(acc.fees, t.fee)
    IN  IF acc.state # Invalid /\ Verify(t) /\ next # Invalid /\ fees >= t.fee
        THEN [state |-> next, fees |-> fees]
        ELSE [state |-> Invalid, fees |-> 0]

\* Mutation: a coinbase may pay more than it should.
CoinbasePaysAtLeast(b, fees) ==
    Head(b.txs).amount >= Add64(RewardAt(b.height), fees)

CoinbasePays(b, fees) ==
    Head(b.txs).amount = Add64(RewardAt(b.height), fees)

ApplyBlock(s, b) ==
    LET cb  == Head(b.txs)
        acc == FoldLeft(ApplyVerified, [state |-> s, fees |-> 0], Tail(b.txs))
    IN  IF \/ b.txs = << >>
           \/ ~IsCoinbase(cb)
           \/ acc.state = Invalid
           \/ ~Verify(cb)
           \/ ~CoinbasePays(b, acc.fees)
        THEN Invalid
        ELSE Credit(acc.state, cb.to, cb.amount)

(***************************************************************************)
(* The loop shared by revalidateMempoolLocked, rebuildMempoolLocked and    *)
(* BuildCandidate in internal/node/node.go: a tx in skip is passed over,   *)
(* one that does not apply is dropped, and the next one is tried.          *)
(***************************************************************************)
KeepApplicable(acc, t, skip) ==
    LET next == ApplyTx(acc.state, t) IN
    IF t \in skip \/ next = Invalid THEN acc
    ELSE [state |-> next, kept |-> Append(acc.kept, t)]

ApplyUsable(s, txs, skip) ==
    FoldLeft(LAMBDA acc, t : KeepApplicable(acc, t, skip),
             [state |-> s, kept |-> << >>], txs)

ApplyInOrder(s, txs) == ApplyUsable(s, txs, {})

\* The sum of all balances, as Info() reports the supply.
Supply(s) == MapThenSumSet(LAMBDA a : s[a].balance, Address)
=============================================================================
