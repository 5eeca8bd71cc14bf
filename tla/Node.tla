-------------------------------- MODULE Node --------------------------------
(***************************************************************************)
(* One node (internal/node/node.go): the block tree of module BlockTree    *)
(* composed with the mempool, the cached pending state, the seenTx filter, *)
(* the wallet's Send and the miner's BuildCandidate.                       *)
(*                                                                         *)
(* The tree calls into the mempool when it installs a new tip:             *)
(* dropConfirmedLocked after a block that extends the tip,                 *)
(* rebuildMempoolLocked after a replay.  Send takes the mutex twice: it    *)
(* reads the nonce and signs under it, releases it, and calls AddTx.       *)
(*                                                                         *)
(* mempoolTx and mempoolOrder are written together everywhere, the map     *)
(* holding exactly the hashes of the list; here they are one sequence.     *)
(***************************************************************************)
EXTENDS BlockTree

CONSTANTS Tx,           \* the transactions peers may send
          Wallet,       \* the address of n.wallet
          Payment,      \* what Send may be asked for: [to, amount, fee]
          Client,       \* the callers of Send, each of which calls it once
          MaxMempool,
          SeenResetAt

ASSUME NodeAssumption ==
    /\ Wallet \in Address
    /\ \A t \in Tx \cup Payment : /\ t.amount \in 0 .. MaxUint64
                                 /\ t.fee \in 0 .. MaxUint64
    /\ \A t \in Tx : t.time \in Int
    /\ MaxMempool \in Nat /\ SeenResetAt \in Nat

VARIABLES
    mempool,        \* n.mempoolOrder with the txs of n.mempoolTx
    pending,        \* n.pending: account state, or Nil
    pendingDirty,   \* n.pendingDirty
    seenTx,         \* n.seenTx
    sends           \* Client -> its call of Send: stage and tx

pool == <<mempool, pending, pendingDirty, seenTx>>
nodeVars == <<vars, pool, sends>>

Idle == [stage |-> "idle", tx |-> Nil]

NodeInit ==
    /\ Init
    /\ mempool = << >>
    /\ pending = Nil
    /\ pendingDirty = FALSE
    /\ seenTx = {}
    /\ sends = [c \in Client |-> Idle]

\* The process ends and takes the mempool and the calls of Send with it.
PoolLost ==
    /\ mempool' = << >>
    /\ pending' = Nil
    /\ pendingDirty' = FALSE
    /\ seenTx' = {}
    /\ sends' = [c \in Client |-> Idle]

-----------------------------------------------------------------------------
(***************************************************************************)
(* The mempool follows the tip.                                            *)
(***************************************************************************)
\* sort.SliceStable, by insertion: t goes behind all it is not less than, so
\* equal elements keep their order.
StableSort(s, less(_, _)) ==
    LET insert(sorted, t) ==
            InsertAt(sorted, 1 + Cardinality({i \in DOMAIN sorted : ~less(t, sorted[i])}), t)
    IN  FoldLeft(insert, << >>, s)

\* Installs the txs that still apply to s, and the state they lead to.
Keep(s, txs, skip) ==
    LET kept == ApplyUsable(s, txs, skip) IN
    /\ mempool' = kept.kept
    /\ pending' = kept.state
    /\ pendingDirty' = FALSE
    /\ UNCHANGED <<seenTx, sends>>

\* Mutation: confirmed txs are dropped, the others are not applied again.
dropConfirmedOnly(b) ==
    /\ mempool' = SelectSeq(mempool, LAMBDA t : t \notin Range(Block[b].txs))
    /\ pendingDirty' = TRUE
    /\ UNCHANGED <<pending, seenTx, sends>>

\* Mutation: the cached state is invalidated only if txs were dropped.
dropConfirmedStaleCache(b) ==
    IF mempool # << >>
    THEN Keep(state', mempool, Range(Block[b].txs))
    ELSE UNCHANGED <<pool, sends>>

dropConfirmedLocked(b) ==
    IF mempool # << >>
    THEN Keep(state', mempool, Range(Block[b].txs))
    ELSE /\ pendingDirty' = TRUE
         /\ UNCHANGED <<mempool, pending, seenTx, sends>>

\* The blocks of the path to b above genesis, newest first.
Descending(b) ==
    LET path == pathToGenesisLocked(b) IN
    [i \in 1 .. Height(b) |-> CHOOSE x \in path : Height(x) = Height(b) - i + 1]

TxsOf(path) == FlattenSeq([i \in DOMAIN path |-> Block[path[i]].txs])

\* Mutation: only the txs of the last block of the abandoned path.
RolledBackTipOnly == IF tip = Nil THEN << >> ELSE Block[tip].txs

\* Every tx of the abandoned path: newPath is scanned from genesis, so the
\* fork point switchChainLocked finds is always genesis.
RolledBack == IF tip = Nil THEN << >> ELSE TxsOf(Descending(tip))

Confirmed(b) == UNION {Range(Block[x].txs) : x \in pathToGenesisLocked(b)}

\* The first occurrence of each tx, coinbases left out.
add(order, t) ==
    IF IsCoinbase(t) \/ t \in Range(order) THEN order ELSE Append(order, t)

Candidates(txs) == FoldLeft(add, << >>, txs)

rebuildMempoolLocked ==
    LET order == StableSort(Candidates(mempool \o RolledBack),
                            LAMBDA t, u : t.time < u.time)
    IN  Keep(state', order, Confirmed(tip') \cup {t \in Range(order) : ~Verify(t)})

-----------------------------------------------------------------------------
(***************************************************************************)
(* Transactions arrive.                                                    *)
(***************************************************************************)
pendingStateLocked ==
    IF ~pendingDirty /\ pending # Nil
    THEN pending
    ELSE ApplyInOrder(state, mempool).state

markSeenTx(t) ==
    LET seen == seenTx \cup {t} IN
    seenTx' = IF Cardinality(seen) > SeenResetAt THEN {} ELSE seen

\* ApplyTx works on the cached state itself, before the check of the size.
AddTxSeen(t) ==
    /\ t \in seenTx
    /\ UNCHANGED pool

AddTxRejected(t) ==
    /\ t \notin seenTx
    /\ \/ ~ValidateTx(pendingStateLocked, t)
       \/ ApplyTx(pendingStateLocked, t) = Invalid
    /\ pending' = pendingStateLocked
    /\ pendingDirty' = FALSE
    /\ UNCHANGED <<mempool, seenTx>>

AddTxFull(t) ==
    /\ t \notin seenTx
    /\ ValidateTx(pendingStateLocked, t)
    /\ ApplyTx(pendingStateLocked, t) # Invalid
    /\ Len(mempool) >= MaxMempool
    /\ pending' = ApplyTx(pendingStateLocked, t)
    /\ pendingDirty' = FALSE
    /\ UNCHANGED <<mempool, seenTx>>

AddTxAccepted(t) ==
    /\ t \notin seenTx
    /\ ValidateTx(pendingStateLocked, t)
    /\ ApplyTx(pendingStateLocked, t) # Invalid
    /\ Len(mempool) < MaxMempool
    /\ markSeenTx(t)
    /\ mempool' = Append(mempool, t)
    /\ pending' = ApplyTx(pendingStateLocked, t)
    /\ pendingDirty' = FALSE

\* newtx gossip and each tx of a mempool reply.
onNewTx(t) ==
    /\ phase = "up" /\ LockFree
    /\ AddTxSeen(t) \/ AddTxRejected(t) \/ AddTxFull(t) \/ AddTxAccepted(t)
    /\ UNCHANGED <<vars, sends>>

\* Send, first critical section: the nonce is read and the tx signed.
SendSign(c, p) ==
    /\ phase = "up" /\ LockFree
    /\ sends[c] = Idle
    /\ p.to \in Address
    /\ sends' = [sends EXCEPT ![c] =
         [stage |-> "signed",
          tx |-> [from |-> Wallet, to |-> p.to, amount |-> p.amount,
                  fee |-> p.fee, nonce |-> pendingStateLocked[Wallet].nonce,
                  time |-> now, auth |-> "valid"]]]
    /\ pending' = pendingStateLocked
    /\ pendingDirty' = FALSE
    /\ UNCHANGED <<vars, mempool, seenTx>>

\* Send, second critical section: AddTx, whose error is Send's.
SendAdd(c) ==
    /\ phase = "up" /\ LockFree
    /\ sends[c].stage = "signed"
    /\ LET t == sends[c].tx
           finish(stage) == sends' = [sends EXCEPT ![c].stage = stage]
       IN  \/ (AddTxSeen(t) \/ AddTxAccepted(t)) /\ finish("sent")
           \/ (AddTxRejected(t) \/ AddTxFull(t)) /\ finish("failed")
    /\ UNCHANGED vars

-----------------------------------------------------------------------------
(***************************************************************************)
(* BuildCandidate: the template the miner works on.                        *)
(***************************************************************************)
FirstByFee(t, u) == t.fee > u.fee \/ (t.fee = u.fee /\ t.time < u.time)

\* Mutation: the sorted mempool is taken as it is.
CandidateTxsUnfiltered ==
    SubSeq(StableSort(mempool, FirstByFee), 1,
           Min({Len(mempool), MaxTxsPerBlock - 1}))

CandidateTxs ==
    LET txs == ApplyInOrder(state, StableSort(mempool, FirstByFee)).kept
    IN  SubSeq(txs, 1, Min({Len(txs), MaxTxsPerBlock - 1}))

BuildCandidate(miner) ==
    LET height == Height(tip) + 1
        time == Max({now, Block[tip].time + 1})
        fees == FoldLeft(LAMBDA sum, t : Add64(sum, t.fee), 0, CandidateTxs)
        coinbase == [from |-> CoinbaseAddress, to |-> miner,
                     amount |-> Add64(RewardAt(height), fees), fee |-> 0,
                     nonce |-> height, time |-> time, auth |-> "none"]
    IN  [height |-> height, prev |-> tip, time |-> time,
         difficulty |-> NextDifficulty(Block[tip], anchorLocked(tip)),
         miner |-> miner, txs |-> <<coinbase>> \o CandidateTxs,
         merkleOk |-> TRUE, powOk |-> TRUE]

-----------------------------------------------------------------------------
NodeNext ==
    \/ /\ NewFresh \/ NewFromDisk \/ Tick \/ Arrival
          \/ BootDone \/ Insertion \/ ForkChoice
       /\ UNCHANGED <<pool, sends>>
    \/ (Crash \/ \E b \in Hash : BootFails(b)) /\ PoolLost
    \/ \E b \in Hash : ExtendTip(b) /\ dropConfirmedLocked(b)
    \/ CommitChain /\ rebuildMempoolLocked
    \/ \E t \in Tx : onNewTx(t)
    \/ \E c \in Client : \E p \in Payment : SendSign(c, p)
    \/ \E c \in Client : SendAdd(c)

NodeSpec == NodeInit /\ [][NodeNext]_nodeVars /\ WF_vars(LockedStep)

-----------------------------------------------------------------------------
(***************************************************************************)
(* Properties.                                                             *)
(***************************************************************************)
\* All txs of the mempool apply to the confirmed state, one after the other in
\* the order of the list: no tip change, reorg, wholesale reset of seenTx or
\* race of two Sends leaves a stale, conflicting or duplicate tx behind
\* (revalidateMempoolLocked, rebuildMempoolLocked, AddTx).
MempoolApplies == ApplyInOrder(state, mempool).kept = mempool

\* The cached pending state, unless marked dirty, is the confirmed state with
\* the whole mempool applied (pendingStateLocked and its writers).  A mempool
\* at its cap is the exception: AddTx applies a tx to the cache before it
\* refuses it, and only the next tip change, which is also the only way to
\* get below the cap again, clears it.
PendingMatches ==
    ~pendingDirty /\ pending # Nil /\ Len(mempool) < MaxMempool =>
        pending = ApplyInOrder(state, mempool).state

\* The block BuildCandidate hands to the miner would be accepted: it passes
\* the structural checks as soon as the clock has advanced and applies to the
\* confirmed state.
CandidateApplies ==
    phase = "up" /\ LockFree /\ tip # Nil =>
        LET b == BuildCandidate(Wallet) IN
        /\ ValidateBasic(b, Block[tip], now + 1)
        /\ ApplyBlock(state, b) # Invalid

Without(txs, skip) ==
    LET keep(l, t) == IF IsCoinbase(t) \/ t \in skip THEN l ELSE Append(l, t)
    IN  FoldLeft(keep, << >>, txs)

\* The txs of the abandoned chain in the order they were confirmed, without
\* coinbases and without those the new chain confirms too.
Abandoned == Without(TxsOf(Reverse(Descending(tip))), Confirmed(tip'))

\* The rolled-back txs that are still valid on the new chain.
StillValid == Range(ApplyInOrder(state', Abandoned).kept)

Reorg == tip # Nil /\ tip' \notin {tip, Nil} /\ Prev(tip') # tip

Chronological(txs) ==
    \A i, j \in DOMAIN txs : i < j => txs[i].time < txs[j].time

\* On a reorg the txs of the abandoned branch that are still valid return to
\* the mempool (rebuildMempoolLocked), provided that the times the senders put
\* into their txs follow the order in which they were confirmed: the rebuilt
\* list is sorted by time, and a payment sorted before the one it follows is
\* dropped.
ChronologicalReturn ==
    [][Reorg /\ Chronological(Abandoned) =>
         StillValid \subseteq Range(mempool')]_nodeVars
=============================================================================
