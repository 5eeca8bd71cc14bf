------------------------------ MODULE BlockTree ------------------------------
(***************************************************************************)
(* The block tree of one node (internal/node/node.go): insertion, orphan   *)
(* promotion, fork choice, replay with checkpoints, rejection of branches  *)
(* that do not apply, the append-only block file and the boot from it.     *)
(*                                                                         *)
(* Every operation runs under the mutex n.mu.  The variable calls is the   *)
(* stack of calls still to be run by the holder of the mutex: it is empty  *)
(* iff the mutex is free, and while it is not, only the step of its top is *)
(* enabled (besides the clock and a crash).  insertBlockLocked and         *)
(* promoteOrphansLocked call each other, so the stack is as deep as the    *)
(* buffered branch is long.  A replay walks one block per step.            *)
(*                                                                         *)
(* The blocks that can ever arrive are the constant table Block, indexed   *)
(* by hash.  Hashes are natural numbers, so that < is the order of the hex *)
(* strings that breaks ties between tips of equal work.  A hash stands for *)
(* one block.  The header covers the txs through their Merkle root, which  *)
(* repeats the last hash of an odd level: lists of txs that differ only by *)
(* such a repetition are not told apart here.                              *)
(***************************************************************************)
EXTENDS Chain

CONSTANTS Hash,                \* the hashes of all blocks
          Genesis,             \* the hash of chain.Genesis
          Block,               \* hash -> block
          Nil,                 \* no tip, no replay
          CheckpointInterval,
          MaxOrphans,
          MaxTime,             \* bound of the clock
          StoreFaults,         \* {} or the faults of the block file considered
          Torn,                \* a line of the block file cut short by a crash
          Replay               \* hash -> reference state, see ReplayAssumption

Prev(b) == Block[b].prev
Height(b) == Block[b].height

ASSUME BlockAssumption ==
    /\ Hash \subseteq Nat /\ IsFiniteSet(Hash)
    /\ Genesis \in Hash
    /\ \A b \in Hash : /\ Height(b) \in Nat
                       /\ Block[b].difficulty \in Nat
                       /\ Block[b].time \in Int
                       /\ Block[b].txs \in Seq(Range(Block[b].txs))
                       /\ \A t \in Range(Block[b].txs) :
                            /\ t.amount \in 0 .. MaxUint64
                            /\ t.fee \in 0 .. MaxUint64
                            /\ t.time \in Int
    /\ \A b \in Hash \ {Genesis} : Prev(b) \in Hash
    /\ Prev(Genesis) \notin Hash
    /\ Height(Genesis) = 0 /\ Block[Genesis].txs = << >>
    /\ Nil \notin Hash /\ Torn \notin Hash
    /\ Nil \notin [target : Hash, at : Hash, fresh : Accounts]
    /\ CheckpointInterval \in Nat \ {0}
    /\ MaxOrphans \in Nat
    /\ MaxTime \in Nat
    /\ StoreFaults \subseteq {"append fails", "torn append"}

(***************************************************************************)
(* Replay[b] is the account state after applying every block from genesis  *)
(* to b in order, or Invalid when some block on the way does not apply.    *)
(* It is the reference the node's incremental state is compared with; no   *)
(* action refers to it.                                                    *)
(***************************************************************************)
ASSUME ReplayAssumption ==
    /\ Invalid \notin Accounts
    /\ Replay \in [Hash -> Accounts \cup {Invalid}]
    /\ Replay[Genesis] = NewState
    /\ \A b \in Hash \ {Genesis} :
         Replay[b] = IF Replay[Prev(b)] = Invalid
                     THEN Invalid
                     ELSE ApplyBlock(Replay[Prev(b)], Block[b])

VARIABLES
    phase,         \* "down", "booting" (n.booting) or "up"
    blocks,        \* n.blocks: hash -> cumulative work
    tip,           \* n.tip: a hash, or Nil
    state,         \* n.state
    checkpoints,   \* n.checkpoints: hash -> account state
    rejected,      \* n.rejected
    orphans,       \* n.orphans: parent hash -> list of blocks
    chainHeights,  \* n.chainHeights: height -> hash
    calls,         \* the calls still to run under n.mu, innermost first
    replay,        \* the replay in progress, or Nil
    disk,          \* the lines of blocks.jsonl
    now            \* n.nowMs()

memory == <<blocks, tip, state, checkpoints, rejected, orphans, chainHeights>>
vars == <<phase, memory, calls, replay, disk, now>>

-----------------------------------------------------------------------------
(***************************************************************************)
(* Paths and subtrees.  Ancestors[b] is the least set that contains b and, *)
(* with each block but genesis, its parent.                                *)
(***************************************************************************)
ParentClosed(S) == \A b \in S \ {Genesis} : Prev(b) \in S

Ancestors ==
    [b \in Hash |-> {e \in Hash : \A S \in SUBSET Hash :
                                     b \in S /\ ParentClosed(S) => e \in S}]

Known == DOMAIN blocks

\* The walk along PrevHash stops at the first block that is not in the tree.
\* The tree is parent-closed (invariant TreeRooted), so it reaches genesis.
pathToGenesisLocked(b) == Ancestors[b] \cap Known

\* Mutation: the children of a rejected block stay in the tree.
SubtreeRootOnly(b) == {b}

\* Mutation: the siblings of a rejected block go with it.
SubtreeWithSiblings(b) == {x \in Known : Prev(b) \in Ancestors[x] \ {x}}

\* b and the blocks that childrenLocked reaches from it.
Subtree(b) == {x \in Known : b \in pathToGenesisLocked(x)}

\* Mutation: the anchor is looked up in the active chain.
anchorActive(parent) ==
    LET height == Height(parent) + 1 - BlocksPerRetarget IN
    IF /\ BlocksPerRetarget # 0
       /\ (Height(parent) + 1) % BlocksPerRetarget = 0
       /\ height \in DOMAIN chainHeights
    THEN {Block[chainHeights[height]]} ELSE {}

\* The block BlocksPerRetarget - 1 parents above, or none.
anchorLocked(parent) ==
    {Block[a] : a \in {x \in pathToGenesisLocked(parent) :
        /\ BlocksPerRetarget # 0
        /\ (Height(parent) + 1) % BlocksPerRetarget = 0
        /\ Height(x) = Height(parent) + 1 - BlocksPerRetarget}}

AcceptableBlock(b) ==
    LET parent == Block[Prev(b)] IN
    /\ ValidateBasic(Block[b], parent, now)
    /\ Block[b].difficulty = NextDifficulty(parent, anchorLocked(Prev(b)))
    /\ ValidatePoW(Block[b])

\* Mutation: the longest chain wins, not the heaviest.
OutweighsByHeight(b, c) ==
    \/ Height(b) > Height(c)
    \/ Height(b) = Height(c) /\ b < c

\* Mutation: ties go to the larger hash.
OutweighsTieReversed(b, c) ==
    \/ blocks[b] > blocks[c]
    \/ blocks[b] = blocks[c] /\ b > c

\* More work wins, the smaller hash breaks a tie.
Outweighs(b, c) ==
    \/ blocks[b] > blocks[c]
    \/ blocks[b] = blocks[c] /\ b < c

IsBest(b) ==
    /\ b \in Known \ rejected
    /\ \A c \in Known \ rejected : c = b \/ Outweighs(b, c)

\* The map f with key x set to v.
With(f, x, v) == [y \in DOMAIN f \cup {x} |-> IF y = x THEN v ELSE f[y]]

IsCheckpointHeight(b) == Height(b) % CheckpointInterval = 0

\* Mutation: the snapshot shares the state that was current before.
SavedCheckpointStale(b, s) ==
    IF IsCheckpointHeight(b) THEN With(checkpoints, b, state) ELSE checkpoints

\* A snapshot of state s, just computed for block b.
SavedCheckpoint(b, s) ==
    IF IsCheckpointHeight(b) THEN With(checkpoints, b, s) ELSE checkpoints

\* Mutation: the error of ApplyBlock is ignored.
AppliesUnchecked(s, b) == TRUE

Applies(s, b) == ApplyBlock(s, Block[b]) # Invalid

-----------------------------------------------------------------------------
(***************************************************************************)
(* The frames of calls: insertBlockLocked(b), and the selectTipLocked() at *)
(* the end of the insertion of b.                                          *)
(***************************************************************************)
Insert(b) == [op |-> "insert", b |-> b]
Select(b) == [op |-> "select", b |-> b]

LockFree == calls = << >> /\ replay = Nil

\* The call on top of the stack; a replay runs before it.
Running(op) == replay = Nil /\ calls # << >> /\ Head(calls).op = op

Return == calls' = Tail(calls)

EmptyMap == [x \in {} |-> Nil]

NoOrphans == [p \in Hash |-> << >>]

Init ==
    /\ phase = "down"
    /\ blocks = EmptyMap
    /\ tip = Nil
    /\ state = NewState
    /\ checkpoints = EmptyMap
    /\ rejected = {}
    /\ orphans = NoOrphans
    /\ chainHeights = EmptyMap
    /\ calls = << >>
    /\ replay = Nil
    /\ disk = << >>
    /\ now = 0

-----------------------------------------------------------------------------
(***************************************************************************)
(* The block file.                                                         *)
(***************************************************************************)
\* Mutation: promoted orphans are taken for blocks that came from the file.
AppendBlockDirectOnly(b) ==
    disk' = IF Len(calls) > 1 THEN disk ELSE Append(disk, b)

\* The caller logs an error and goes on: the line may be missing, or be cut
\* short.
AppendBlock(b) ==
    \/ disk' = Append(disk, b)
    \/ "append fails" \in StoreFaults /\ disk' = disk
    \/ "torn append" \in StoreFaults /\ disk' = Append(disk, Torn)

\* LoadBlocks fails on a line it cannot parse.
LoadBlocks == Torn \notin Range(disk)

-----------------------------------------------------------------------------
(***************************************************************************)
(* Start and stop.                                                         *)
(***************************************************************************)
\* First boot: genesis enters the tree and is appended; if that fails, New
\* returns the error and the process ends.
NewFresh ==
    /\ phase = "down"
    /\ disk = << >>
    /\ AppendBlock(Genesis)
    /\ IF disk' = <<Genesis>>
       THEN /\ phase' = "booting"
            /\ blocks' = With(EmptyMap, Genesis, 0)
            /\ chainHeights' = With(EmptyMap, 0, Genesis)
       ELSE UNCHANGED <<phase, blocks, chainHeights>>
    /\ UNCHANGED <<tip, state, checkpoints, rejected, orphans, calls, replay, now>>

\* Later boots insert the lines of the file in order.
NewFromDisk ==
    /\ phase = "down"
    /\ disk # << >>
    /\ LoadBlocks
    /\ phase' = "booting"
    /\ calls' = [i \in DOMAIN disk |-> Insert(disk[i])]
    /\ UNCHANGED <<memory, replay, disk, now>>

\* Everything is loaded: booting is cleared and the tip selected, once.
BootDone ==
    /\ phase = "booting"
    /\ LockFree
    /\ phase' = "up"
    /\ calls' = <<Select(Genesis)>>
    /\ UNCHANGED <<memory, replay, disk, now>>

\* The process ends, by Stop, a kill or an error of New: memory is lost.
Exit ==
    /\ phase' = "down"
    /\ blocks' = EmptyMap
    /\ tip' = Nil
    /\ state' = NewState
    /\ checkpoints' = EmptyMap
    /\ rejected' = {}
    /\ orphans' = NoOrphans
    /\ chainHeights' = EmptyMap
    /\ calls' = << >>
    /\ replay' = Nil

Crash ==
    /\ phase # "down"
    /\ Exit
    /\ UNCHANGED <<disk, now>>

Tick ==
    /\ now < MaxTime
    /\ now' = now + 1
    /\ UNCHANGED <<phase, memory, calls, replay, disk>>

-----------------------------------------------------------------------------
(***************************************************************************)
(* A block arrives: from the miner, who built it on a block that was the   *)
(* tip, or from a peer.                                                    *)
(***************************************************************************)
SubmitSolution(b) ==
    /\ phase = "up" /\ LockFree
    /\ Prev(b) \in Known
    /\ calls' = <<Insert(b)>>
    /\ UNCHANGED <<phase, memory, replay, disk, now>>

acceptRemoteBlock(b) ==
    /\ phase = "up" /\ LockFree
    /\ b \notin Known \cup rejected
    /\ calls' = <<Insert(b)>>
    /\ UNCHANGED <<phase, memory, replay, disk, now>>

-----------------------------------------------------------------------------
(***************************************************************************)
(* insertBlockLocked, one action per way through it.  An error of a        *)
(* running node is only logged.                                            *)
(***************************************************************************)
Inserting(b) == Running("insert") /\ b = Head(calls).b

InsertKnown(b) ==
    /\ Inserting(b)
    /\ b \in Known
    /\ Return
    /\ UNCHANGED <<phase, memory, replay, disk, now>>

IsRefused(b) ==
    \/ b \in rejected
    \/ Height(b) = 0 /\ b # Genesis
    \/ Height(b) # 0 /\ Prev(b) \in Known /\ ~AcceptableBlock(b)

InsertRefused(b) ==
    /\ phase = "up" /\ Inserting(b)
    /\ b \notin Known
    /\ IsRefused(b)
    /\ Return
    /\ UNCHANGED <<phase, memory, replay, disk, now>>

InsertGenesis(b) ==
    /\ Inserting(b)
    /\ b \notin Known \cup rejected
    /\ b = Genesis
    /\ blocks' = With(blocks, b, 0)
    /\ chainHeights' = With(chainHeights, 0, b)
    /\ Return
    /\ UNCHANGED <<phase, tip, state, checkpoints, rejected, orphans, replay, disk, now>>

Buffered == UNION {Range(orphans[p]) : p \in Hash}

OrphanTotal == MapThenSumSet(LAMBDA p : Len(orphans[p]), Hash)

\* Mutation: a block that is already buffered is buffered again.
addOrphanTwice(b) ==
    IF OrphanTotal >= MaxOrphans
    THEN orphans
    ELSE [orphans EXCEPT ![Prev(b)] = Append(@, b)]

addOrphanLocked(b) ==
    IF b \in Buffered \/ OrphanTotal >= MaxOrphans
    THEN orphans
    ELSE [orphans EXCEPT ![Prev(b)] = Append(@, b)]

IsOrphan(b) ==
    /\ b \notin Known \cup rejected
    /\ Height(b) # 0 /\ Prev(b) \notin Known

InsertOrphan(b) ==
    /\ phase = "up" /\ Inserting(b)
    /\ IsOrphan(b)
    /\ orphans' = addOrphanLocked(b)
    /\ Return
    /\ UNCHANGED <<phase, blocks, tip, state, checkpoints, rejected, chainHeights, replay, disk, now>>

\* While the node boots any error, ErrOrphan included, ends New.
BootFails(b) ==
    /\ phase = "booting" /\ Inserting(b)
    /\ b \notin Known
    /\ IsRefused(b) \/ IsOrphan(b)
    /\ Exit
    /\ UNCHANGED <<disk, now>>

\* promoteOrphansLocked removes the list and inserts its blocks in order.
promoteOrphansLocked(b) ==
    [i \in DOMAIN orphans[b] |-> Insert(orphans[b][i])]

InsertBlock(b) ==
    /\ Inserting(b)
    /\ b \notin Known \cup rejected
    /\ Height(b) # 0 /\ Prev(b) \in Known
    /\ AcceptableBlock(b)
    /\ blocks' = With(blocks, b, blocks[Prev(b)] + Block[b].difficulty)
    /\ orphans' = [orphans EXCEPT ![b] = << >>]
    /\ IF phase = "booting"
       THEN /\ calls' = promoteOrphansLocked(b) \o Tail(calls)
            /\ disk' = disk
       ELSE /\ calls' = promoteOrphansLocked(b) \o <<Select(b)>> \o Tail(calls)
            /\ AppendBlock(b)
    /\ UNCHANGED <<phase, tip, state, checkpoints, rejected, chainHeights, replay, now>>

-----------------------------------------------------------------------------
(***************************************************************************)
(* selectTipLocked and switchChainLocked.                                  *)
(***************************************************************************)
KeepTip ==
    /\ Running("select")
    /\ IsBest(tip)
    /\ Return
    /\ UNCHANGED <<phase, memory, replay, disk, now>>

rejectSubtreeLocked(b) ==
    /\ rejected' = rejected \cup Subtree(b)
    /\ blocks' = Restrict(blocks, Known \ Subtree(b))

Extends(b) == tip # Nil /\ Prev(b) = tip

\* The fast path: the best block extends the tip.
ExtendTip(b) ==
    /\ Running("select")
    /\ IsBest(b) /\ Extends(b)
    /\ Applies(state, b)
    /\ state' = ApplyBlock(state, Block[b])
    /\ checkpoints' = SavedCheckpoint(b, state')
    /\ chainHeights' = With(chainHeights, Height(b), b)
    /\ tip' = b
    /\ Return
    /\ UNCHANGED <<phase, blocks, rejected, orphans, replay, disk, now>>

RejectExtension(b) ==
    /\ Running("select")
    /\ IsBest(b) /\ Extends(b)
    /\ ~Applies(state, b)
    /\ rejectSubtreeLocked(b)
    /\ Return
    /\ UNCHANGED <<phase, tip, state, checkpoints, orphans, chainHeights, replay, disk, now>>

\* The deepest of a set of blocks of one path.
Deepest(S) == {c \in S : \A d \in S : Height(d) <= Height(c)}

\* Mutation: without a checkpoint the replay starts from the current state.
ReplayBaseDirty(b) ==
    LET saved == pathToGenesisLocked(b) \cap DOMAIN checkpoints IN
    IF saved = {} THEN {[at |-> Genesis, fresh |-> state]}
    ELSE {[at |-> c, fresh |-> checkpoints[c]] : c \in Deepest(saved)}

\* The deepest block of the path to b that has a checkpoint; without one, and
\* always when there is no tip, the replay starts after genesis, which carries
\* no transactions.
ReplayBase(b) ==
    LET saved == pathToGenesisLocked(b) \cap DOMAIN checkpoints IN
    IF tip = Nil \/ saved = {} THEN {[at |-> Genesis, fresh |-> NewState]}
    ELSE {[at |-> c, fresh |-> checkpoints[c]] : c \in Deepest(saved)}

\* The slow path: the branch of the best block is replayed.
StartReplay(b) ==
    /\ Running("select")
    /\ IsBest(b) /\ b # tip /\ ~Extends(b)
    /\ \E base \in ReplayBase(b) :
         replay' = [target |-> b, at |-> base.at, fresh |-> base.fresh]
    /\ Return
    /\ UNCHANGED <<phase, memory, disk, now>>

\* b is the block after replay.at on the path to replay.target.
Replaying(b) ==
    /\ replay # Nil
    /\ b \in pathToGenesisLocked(replay.target) \ {Genesis}
    /\ Prev(b) = replay.at
    /\ replay.at # replay.target

ReplayBlock(b) ==
    /\ Replaying(b)
    /\ Applies(replay.fresh, b)
    /\ LET fresh == ApplyBlock(replay.fresh, Block[b]) IN
       /\ replay' = [replay EXCEPT !.at = b, !.fresh = fresh]
       /\ checkpoints' = SavedCheckpoint(b, fresh)
    /\ UNCHANGED <<phase, blocks, tip, state, rejected, orphans, chainHeights, calls, disk, now>>

ReplayFails(b) ==
    /\ Replaying(b)
    /\ ~Applies(replay.fresh, b)
    /\ rejectSubtreeLocked(b)
    /\ replay' = Nil
    /\ UNCHANGED <<phase, tip, state, checkpoints, orphans, chainHeights, calls, disk, now>>

\* Mutation: the index is updated in place, longer branches leave entries.
HeightIndexInPlace(path) ==
    [h \in DOMAIN chainHeights \cup {Height(e) : e \in path} |->
        IF \E e \in path : Height(e) = h
        THEN CHOOSE e \in path : Height(e) = h ELSE chainHeights[h]]

\* The active chain as the index chainHeights keeps it.
HeightIndex(path) ==
    [h \in {Height(e) : e \in path} |-> CHOOSE e \in path : Height(e) = h]

CommitChain ==
    /\ replay # Nil
    /\ replay.at = replay.target
    /\ LET path == pathToGenesisLocked(replay.target) IN
       /\ chainHeights' = HeightIndex(path)
       /\ checkpoints' = Restrict(checkpoints, DOMAIN checkpoints \cap path)
    /\ state' = replay.fresh
    /\ tip' = replay.target
    /\ replay' = Nil
    /\ UNCHANGED <<phase, blocks, rejected, orphans, calls, disk, now>>

-----------------------------------------------------------------------------
Arrival == \E b \in Hash : SubmitSolution(b) \/ acceptRemoteBlock(b)

Insertion ==
    \E b \in Hash : \/ InsertKnown(b) \/ InsertRefused(b) \/ InsertGenesis(b)
                    \/ InsertOrphan(b) \/ InsertBlock(b)

\* Fork choice, up to the point where a new tip is installed.
ForkChoice ==
    \/ KeepTip
    \/ \E b \in Hash : \/ RejectExtension(b) \/ StartReplay(b)
                       \/ ReplayBlock(b) \/ ReplayFails(b)

NewTip == CommitChain \/ \E b \in Hash : ExtendTip(b)

\* The steps of the holder of the mutex, and of New.
LockedStep ==
    \/ BootDone
    \/ \E b \in Hash : BootFails(b)
    \/ Insertion
    \/ ForkChoice
    \/ NewTip

Next == NewFresh \/ NewFromDisk \/ Crash \/ Tick \/ Arrival \/ LockedStep

\* The goroutine that holds the mutex keeps running.
Spec == Init /\ [][Next]_vars /\ WF_vars(LockedStep)

-----------------------------------------------------------------------------
(***************************************************************************)
(* Properties.                                                             *)
(***************************************************************************)
Frames == [op : {"insert", "select"}, b : Hash]

Replays == [target : Hash, at : Hash, fresh : Accounts]

\* The variables of the tree have their types.
TypeOK ==
    /\ phase \in {"down", "booting", "up"}
    /\ blocks \in [Known -> Nat] /\ Known \subseteq Hash
    /\ tip \in Hash \cup {Nil}
    /\ state \in Accounts
    /\ checkpoints \in [DOMAIN checkpoints -> Accounts]
    /\ DOMAIN checkpoints \subseteq Hash
    /\ rejected \subseteq Hash
    /\ orphans \in [Hash -> Seq(Hash)]
    /\ chainHeights \in [DOMAIN chainHeights -> Hash]
    /\ DOMAIN chainHeights \subseteq Nat
    /\ calls \in Seq(Frames)
    /\ replay \in Replays \cup {Nil}
    /\ disk \in Seq(Hash \cup {Torn})
    /\ now \in 0 .. MaxTime

\* Every block of the tree but genesis has its parent in the tree, one height
\* below it and lighter by exactly its own difficulty, and no block is both
\* in the tree and rejected: what pathToGenesisLocked, anchorLocked and fork
\* choice take for granted after any mix of insertions, promotions and
\* rejected subtrees.
TreeRooted ==
    /\ Known \cap rejected = {}
    /\ Known # {} => Genesis \in Known /\ blocks[Genesis] = 0
    /\ \A b \in Known \ {Genesis} :
         /\ Prev(b) \in Known
         /\ Height(b) = Height(Prev(b)) + 1
         /\ Block[b].difficulty > 0
         /\ blocks[b] = blocks[Prev(b)] + Block[b].difficulty

\* The confirmed state is the state a replay of the whole active chain from
\* genesis gives, whichever fast paths, reorgs, checkpoints and failed
\* switches produced it (switchChainLocked, replayLocked, baseStateLocked).
StateIsReplay ==
    IF tip = Nil THEN state = NewState
    ELSE tip \in Known /\ state = Replay[tip] /\ state # Invalid

\* A checkpoint is the replayed state of its block: none is left behind by a
\* replay that failed half-way or by a branch that lost (replayLocked).
CheckpointsSound ==
    \A c \in DOMAIN checkpoints :
        checkpoints[c] = Replay[c] /\ checkpoints[c] # Invalid

\* A block is rejected only if it, or a block it builds on, does not apply:
\* rejectSubtreeLocked never takes a valid branch with it.
RejectedSound == \A b \in rejected : Replay[b] = Invalid

\* When the mutex is free and the node has a tip, the tip is the heaviest
\* block of the tree, the smaller hash breaking ties, although each insert
\* runs a single selectTipLocked that gives up after the first bad branch.
TipIsBest ==
    phase = "up" /\ LockFree /\ tip # Nil =>
        \A b \in Known : \/ blocks[b] < blocks[tip]
                         \/ blocks[b] = blocks[tip] /\ tip <= b

\* chainHeights, which serves sync requests and the explorer, indexes exactly
\* the active chain: no height of an abandoned longer branch survives a switch
\* to a shorter, heavier one (commitChainLocked, switchChainLocked).
ChainHeightsIndex ==
    tip # Nil => /\ \A b \in pathToGenesisLocked(tip) :
                       /\ Height(b) \in DOMAIN chainHeights
                       /\ chainHeights[Height(b)] = b
                 /\ \A h \in DOMAIN chainHeights :
                       chainHeights[h] \in pathToGenesisLocked(tip)

\* When the mutex is free no buffered block waits for a parent that is already
\* in the tree, no block is buffered twice, and the buffer keeps its bound
\* (addOrphanLocked, promoteOrphansLocked).
OrphansWait ==
    LockFree =>
        /\ \A p \in Hash : orphans[p] # << >> => p \notin Known
        /\ \A p \in Hash : \A i, j \in DOMAIN orphans[p] :
              /\ Prev(orphans[p][i]) = p
              /\ orphans[p][i] = orphans[p][j] => i = j
        /\ OrphanTotal <= MaxOrphans

\* While the file works, it holds exactly the blocks the running node has
\* accepted, those rejected later included, once each (insertBlockLocked).
DiskHoldsTree ==
    phase = "up" =>
        /\ Range(disk) = Known \cup rejected
        /\ Len(disk) = Cardinality(Known \cup rejected)

\* New accepts every line of the file: its parent is loaded before it and it
\* passes the checks again, so a node that stopped or crashed at any point can
\* be started again (New, insertBlockLocked with fromDisk).
BootAccepts ==
    phase = "booting" =>
        \A b \in Hash : Inserting(b) =>
            \/ b = Genesis
            \/ b \notin Known /\ Prev(b) \in Known /\ AcceptableBlock(b)

\* The coins in circulation are exactly the rewards of the active chain: fees
\* move to the coinbase, nothing is created or lost (ApplyBlock, RewardAt).
\* With LedgerAssumption no balance can overflow, so Credit never panics.
SupplyIsIssued ==
    tip # Nil => Supply(state) = MapThenSumSet(RewardAt, 1 .. Height(tip))

\* The txs of a path, coinbases left out, as <<block, position>>.
Spends(path) ==
    {x \in path \X (1 .. MaxTxsPerBlock) :
        /\ x[2] \in DOMAIN Block[x[1]].txs
        /\ ~IsCoinbase(Block[x[1]].txs[x[2]])}

\* The nonce of an account counts the txs it has on the active chain, and no
\* tx is confirmed twice there, whatever was rolled back and confirmed again
\* in between (ApplyTx).
NonceCounts ==
    tip # Nil =>
        LET spends == Spends(pathToGenesisLocked(tip))
            tx(x) == Block[x[1]].txs[x[2]]
        IN  /\ \A a \in Address :
                 state[a].nonce = Cardinality({x \in spends : tx(x).from = a})
            /\ \A x, y \in spends : tx(x) = tx(y) => x = y

\* A started node has a tip: it reports, serves and mines on some chain.
ReloadsTip == phase = "up" /\ LockFree => tip # Nil

\* While the node runs, the tip is replaced only by a block that outweighs it:
\* no sequence of insertions, rejected branches and retries moves it back.
TipOnlyImproves ==
    [][tip # Nil /\ tip' \notin {tip, Nil} =>
          \/ blocks[tip'] > blocks[tip]
          \/ blocks[tip'] = blocks[tip] /\ tip' < tip]_vars

\* A valid block of the tree that is heavier than the tip.
Winning(b) ==
    /\ phase = "up" /\ tip # Nil
    /\ b \in Known /\ Replay[b] # Invalid
    /\ blocks[b] > blocks[tip]

\* A valid block that outweighs the tip is adopted or surpassed, unless the
\* process ends first: the recursion of insertBlockLocked and
\* promoteOrphansLocked and every replay end, and an invalid branch found on
\* the way does not keep the node on the lighter chain.
WinnerAdopted == \A b \in Hash : Winning(b) ~> ~Winning(b)

\* The tree with its stack of calls, stepwise replays, checkpoints, rejected
\* branches and crashes implements the abstract node of HeaviestChain: in one
\* step it moves to the heaviest valid block it has, with exactly the state of
\* that block's chain, and it lets go of invalid blocks only.
Promise == INSTANCE HeaviestChain WITH held <- blocks, ledger <- state, Empty <- NewState

HeaviestChain == Promise!Spec
=============================================================================
