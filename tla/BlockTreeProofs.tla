--------------------------- MODULE BlockTreeProofs ---------------------------
(***************************************************************************)
(* Proofs about BlockTree, for every table of blocks and all parameters:   *)
(* the ledger, the checkpoints and the rejected branches, the abstract     *)
(* node HeaviestChain, the tip and the height index.                       *)
(*                                                                         *)
(* One selectTipLocked gives up after the first branch that does not       *)
(* apply, so it need not settle on the best block.  That the tip is best   *)
(* when the mutex is free is a matter of counting: every insertion brings  *)
(* one block and one selectTipLocked, and every selectTipLocked removes at *)
(* least one of the blocks ahead of the tip, by rejecting or adopting it.  *)
(***************************************************************************)
EXTENDS BlockTree, FiniteSetTheorems, TLAPS

-----------------------------------------------------------------------------
(***************************************************************************)
(* Ancestors.  The least-set definition gives the facts a walk along       *)
(* PrevHash has, and an induction along a branch: whatever holds of a      *)
(* parent-closed set that contains b holds of every ancestor of b.         *)
(***************************************************************************)

\* Every ancestor of a member of a parent-closed set is in the set.
LEMMA ClosedContainsAncestors ==
    ASSUME NEW S \in SUBSET Hash, ParentClosed(S), NEW b \in S
    PROVE  Ancestors[b] \subseteq S
BY DEF Ancestors

\* A block is its own ancestor, and its ancestors are blocks.
LEMMA AncestorSelf ==
    ASSUME NEW b \in Hash
    PROVE  b \in Ancestors[b] /\ Ancestors[b] \subseteq Hash
BY DEF Ancestors

\* The ancestors of a block are closed under taking parents.
LEMMA AncestorsClosed ==
    ASSUME NEW b \in Hash
    PROVE  ParentClosed(Ancestors[b])
<1>1. SUFFICES ASSUME NEW e \in Ancestors[b] \ {Genesis}
               PROVE  Prev(e) \in Ancestors[b]
  BY DEF ParentClosed
<1>2. Prev(e) \in Hash
  BY AncestorSelf, BlockAssumption
<1>3. ASSUME NEW S \in SUBSET Hash, b \in S, ParentClosed(S)
      PROVE  Prev(e) \in S
  BY <1>3, ClosedContainsAncestors DEF ParentClosed
<1> QED
  BY <1>2, <1>3 DEF Ancestors

\* The ancestors of a block's parent are ancestors of the block.
LEMMA ParentAncestors ==
    ASSUME NEW b \in Hash \ {Genesis}
    PROVE  Ancestors[Prev(b)] \subseteq Ancestors[b]
<1>1. Prev(b) \in Ancestors[b]
  BY AncestorSelf, AncestorsClosed DEF ParentClosed
<1> QED
  BY <1>1, AncestorSelf, AncestorsClosed, ClosedContainsAncestors

\* A block that builds on one that does not apply does not apply either.
LEMMA InvalidSpreads ==
    ASSUME NEW x \in Hash, NEW b \in Ancestors[x], Replay[b] = Invalid
    PROVE  Replay[x] = Invalid
<1> DEFINE S == {y \in Hash : Replay[y] # Invalid}
<1>1. ParentClosed(S)
  BY ReplayAssumption, BlockAssumption DEF ParentClosed
<1>2. CASE x \in S
  BY <1>1, <1>2, ClosedContainsAncestors
<1> QED
  BY <1>2

-----------------------------------------------------------------------------
(***************************************************************************)
(* The inductive invariant.                                                *)
(***************************************************************************)

\* The state a replay has reached is the reference state of its last block;
\* its target is in the tree and outweighs the tip it is going to replace.
ReplaySound ==
    replay # Nil =>
        /\ replay.target \in Known
        /\ replay.fresh = Replay[replay.at] /\ replay.fresh # Invalid
        /\ tip # Nil => Outweighs(replay.target, tip)

\* A process that is not running has no memory.
DownIsEmpty ==
    phase = "down" =>
        /\ blocks = EmptyMap /\ tip = Nil /\ state = NewState
        /\ checkpoints = EmptyMap /\ rejected = {} /\ orphans = NoOrphans
        /\ chainHeights = EmptyMap /\ calls = << >> /\ replay = Nil

ChainSound ==
    /\ StateIsReplay
    /\ CheckpointsSound
    /\ RejectedSound

TreeInv == TypeOK /\ TreeRooted /\ ChainSound /\ ReplaySound /\ DownIsEmpty

\* The reference state of genesis is the empty state, which is no error.
LEMMA NewStateSound == NewState \in Accounts /\ NewState # Invalid
BY ReplayAssumption DEF NewState, Accounts

\* The memory of a process that is not running has its types.
LEMMA EmptyTypes ==
    /\ DOMAIN EmptyMap = {}
    /\ EmptyMap \in [{} -> Nat]
    /\ EmptyMap \in [{} -> Hash]
    /\ EmptyMap \in [{} -> Accounts]
    /\ NoOrphans \in [Hash -> Seq(Hash)]
    /\ << >> \in Seq(Frames)
    /\ << >> \in Seq(Hash \cup {Torn})
BY DEF EmptyMap, NoOrphans

\* The invariant holds of a process that is not running.
LEMMA InitInv == Init => TreeInv
<1> SUFFICES ASSUME Init PROVE TreeInv
  OBVIOUS
<1>0. now \in 0 .. MaxTime
  <2>1. MaxTime \in Nat
    BY BlockAssumption
  <2> QED
    BY <2>1 DEF Init
<1>1. TypeOK
  BY <1>0, NewStateSound, EmptyTypes DEF Init, TypeOK, Known
<1>2. TreeRooted
  BY EmptyTypes DEF Init, TreeRooted, Known
<1>3. ChainSound
  BY EmptyTypes DEF Init, ChainSound, StateIsReplay, CheckpointsSound, RejectedSound
<1>4. ReplaySound /\ DownIsEmpty
  BY DEF Init, ReplaySound, DownIsEmpty
<1> QED
  BY <1>1, <1>2, <1>3, <1>4 DEF TreeInv

\* The end of the process restores it.
LEMMA ExitInv ==
    ASSUME TreeInv, Exit, disk' = disk, now' = now
    PROVE  TreeInv'
<1>1. TypeOK'
  BY NewStateSound, EmptyTypes DEF Exit, TypeOK, Known, TreeInv
<1>2. TreeRooted'
  BY EmptyTypes DEF Exit, TreeRooted, Known
<1>3. ChainSound'
  BY EmptyTypes DEF Exit, ChainSound, StateIsReplay, CheckpointsSound, RejectedSound
<1>4. ReplaySound' /\ DownIsEmpty'
  BY DEF Exit, ReplaySound, DownIsEmpty
<1> QED
  BY <1>1, <1>2, <1>3, <1>4 DEF TreeInv

\* Steps that touch only the phase, the calls, the buffer of orphans, the file
\* and the clock of a process that goes on running.
LEMMA QuietInv ==
    ASSUME TreeInv,
           UNCHANGED <<blocks, tip, state, checkpoints, rejected, chainHeights, replay>>,
           phase' \in {"booting", "up"},
           orphans' \in [Hash -> Seq(Hash)],
           calls' \in Seq(Frames),
           disk' \in Seq(Hash \cup {Torn}),
           now' \in 0 .. MaxTime
    PROVE  TreeInv'
<1>1. TypeOK'
  BY DEF TreeInv, TypeOK, Known
<1>2. TreeRooted'
  BY DEF TreeInv, TreeRooted, Known
<1>3. ChainSound'
  BY DEF TreeInv, ChainSound, StateIsReplay, CheckpointsSound, RejectedSound, Known
<1>4. ReplaySound'
  BY DEF TreeInv, ReplaySound, Known, Outweighs
<1>5. DownIsEmpty'
  BY DEF DownIsEmpty
<1> QED
  BY <1>1, <1>2, <1>3, <1>4, <1>5 DEF TreeInv

\* The frames a step pushes, and what is left when it returns, are frames.
LEMMA FrameTypes ==
    ASSUME TypeOK
    PROVE  /\ \A b \in Hash : Insert(b) \in Frames /\ Select(b) \in Frames
           /\ calls # << >> => /\ Tail(calls) \in Seq(Frames)
                               /\ Head(calls) \in Frames
                               /\ Head(calls).b \in Hash
<1>1. \A b \in Hash : Insert(b) \in Frames /\ Select(b) \in Frames
  BY DEF Insert, Select, Frames
<1>2. ASSUME calls # << >>
      PROVE  Tail(calls) \in Seq(Frames) /\ Head(calls) \in Frames
  BY <1>2 DEF TypeOK
<1>3. ASSUME calls # << >>
      PROVE  Head(calls).b \in Hash
  BY <1>2, <1>3 DEF Frames
<1> QED
  BY <1>1, <1>2, <1>3

\* Inserting every block of a list pushes frames.
LEMMA InsertAllType ==
    ASSUME NEW s \in Seq(Hash)
    PROVE  [i \in DOMAIN s |-> Insert(s[i])] \in Seq(Frames)
<1>1. \A i \in 1 .. Len(s) : Insert(s[i]) \in Frames
  BY DEF Insert, Frames
<1> QED
  BY <1>1

\* Start, arrival and the ways through insertBlockLocked that leave the tree
\* as it is preserve the invariant.
LEMMA QuietSteps ==
    ASSUME TreeInv,
           \/ NewFromDisk \/ BootDone \/ Tick \/ Arrival \/ KeepTip
           \/ \E b \in Hash : InsertKnown(b) \/ InsertRefused(b) \/ InsertOrphan(b)
    PROVE  TreeInv'
<1> USE DEF TreeInv
<1>0. /\ TypeOK
      /\ orphans \in [Hash -> Seq(Hash)] /\ disk \in Seq(Hash \cup {Torn})
      /\ now \in 0 .. MaxTime
      /\ phase \in {"down", "booting", "up"}
  BY DEF TypeOK
<1>1. CASE NewFromDisk
  <2>1. disk \in Seq(Hash)
    <3>1. \A i \in 1 .. Len(disk) : disk[i] \in Hash \cup {Torn} /\ disk[i] # Torn
      BY <1>0, <1>1 DEF NewFromDisk, LoadBlocks, Range
    <3> QED
      BY <1>0, <3>1
  <2>2. calls' \in Seq(Frames)
    BY <1>1, <2>1, InsertAllType DEF NewFromDisk
  <2> QED
    BY <1>0, <1>1, <2>2, QuietInv DEF NewFromDisk, memory
<1>2. CASE BootDone
  <2>1. Select(Genesis) \in Frames
    BY <1>0, FrameTypes, BlockAssumption
  <2>2. calls' \in Seq(Frames)
    BY <1>2, <2>1 DEF BootDone
  <2> QED
    BY <1>0, <1>2, <2>2, QuietInv DEF BootDone, memory
<1>3. CASE Arrival
  <2>1. PICK b \in Hash : SubmitSolution(b) \/ acceptRemoteBlock(b)
    BY <1>3 DEF Arrival
  <2>2. Insert(b) \in Frames
    BY <1>0, FrameTypes
  <2>3. calls' = <<Insert(b)>> /\ phase' = "up"
    BY <2>1 DEF SubmitSolution, acceptRemoteBlock
  <2>4. calls' \in Seq(Frames)
    BY <2>2, <2>3
  <2> QED
    BY <1>0, <2>1, <2>3, <2>4, QuietInv DEF SubmitSolution, acceptRemoteBlock, memory
<1>4. CASE Tick
  <2>1. now' \in 0 .. MaxTime
    <3>1. MaxTime \in Nat
      BY BlockAssumption
    <3>2. now \in Nat /\ now < MaxTime /\ now' = now + 1
      BY <1>0, <1>4 DEF Tick
    <3> QED
      BY <3>1, <3>2
  <2>2. CASE phase = "down"
    <3>1. TypeOK'
      BY <1>4, <2>1 DEF Tick, memory, TypeOK, Known
    <3> QED
      BY <1>4, <3>1 DEF Tick, memory, TreeRooted, Known, ChainSound, StateIsReplay,
          CheckpointsSound, RejectedSound, ReplaySound, DownIsEmpty, Outweighs
  <2> QED
    BY <1>0, <1>4, <2>1, <2>2, QuietInv DEF Tick, memory, TypeOK
<1>5. CASE KeepTip
  <2>1. calls' \in Seq(Frames) /\ phase # "down"
    BY <1>0, <1>5, FrameTypes DEF KeepTip, Running, Return, DownIsEmpty
  <2> QED
    BY <1>0, <1>5, <2>1, QuietInv DEF KeepTip, memory
<1>6. ASSUME NEW b \in Hash, InsertKnown(b) \/ InsertRefused(b) \/ InsertOrphan(b)
      PROVE  TreeInv'
  <2>1. calls' \in Seq(Frames) /\ phase # "down"
    BY <1>0, <1>6, FrameTypes DEF InsertKnown, InsertRefused, InsertOrphan, Inserting, Running,
        Return, DownIsEmpty
  <2>2. CASE InsertKnown(b) \/ InsertRefused(b)
    BY <1>0, <2>1, <2>2, QuietInv DEF InsertKnown, InsertRefused, memory
  <2>3. CASE InsertOrphan(b)
    <3>1. Prev(b) \in Hash
      BY <2>3, BlockAssumption DEF InsertOrphan, IsOrphan
    <3>2. orphans' \in [Hash -> Seq(Hash)]
      BY <1>0, <2>3, <3>1 DEF InsertOrphan, addOrphanLocked
    <3> QED
      BY <1>0, <2>1, <2>3, <3>2, QuietInv DEF InsertOrphan
  <2> QED
    BY <1>6, <2>2, <2>3
<1> QED
  BY <1>1, <1>2, <1>3, <1>4, <1>5, <1>6

-----------------------------------------------------------------------------
(***************************************************************************)
(* Steps that grow the tree.                                               *)
(***************************************************************************)

\* The file holds hashes and torn lines.
LEMMA AppendType ==
    ASSUME TypeOK, NEW b \in Hash, AppendBlock(b)
    PROVE  disk' \in Seq(Hash \cup {Torn})
<1> DEFINE Line == Hash \cup {Torn}
<1>1. disk \in Seq(Line) /\ b \in Line /\ Torn \in Line
  BY DEF TypeOK
<1> HIDE DEF Line
<1>2. Append(disk, b) \in Seq(Line) /\ Append(disk, Torn) \in Seq(Line)
  BY <1>1
<1>3. disk' \in Seq(Line)
  BY <1>1, <1>2 DEF AppendBlock
<1> QED
  BY <1>3 DEF Line

\* A tree that holds genesis only, built by a first boot, or by the first
\* line of the file.
LEMMA GenesisInv ==
    ASSUME TreeInv, NewFresh \/ \E b \in Hash : InsertGenesis(b)
    PROVE  TreeInv'
<1> USE DEF TreeInv
<1>0. Genesis \in Hash /\ Height(Genesis) = 0 /\ 0 \in Nat
  BY BlockAssumption
<1>1. CASE NewFresh
  <2>1. /\ blocks = EmptyMap /\ tip = Nil /\ state = NewState
        /\ checkpoints = EmptyMap /\ rejected = {} /\ replay = Nil
        /\ chainHeights = EmptyMap /\ calls = << >> /\ orphans = NoOrphans
        /\ phase = "down" /\ disk = << >>
    BY <1>1 DEF NewFresh, DownIsEmpty
  <2>2. disk' \in Seq(Hash \cup {Torn})
    BY <1>0, <1>1, AppendType DEF NewFresh
  <2>3. CASE disk' = <<Genesis>>
    <3>1. /\ blocks' \in [{Genesis} -> Nat] /\ DOMAIN blocks' = {Genesis}
          /\ blocks'[Genesis] = 0
          /\ chainHeights' \in [{0} -> Hash] /\ DOMAIN chainHeights' = {0}
      BY <1>0, <1>1, <2>3 DEF NewFresh, With, EmptyMap
    <3>2. TypeOK'
      BY <1>0, <1>1, <2>1, <2>2, <2>3, <3>1, EmptyTypes, NewStateSound
         DEF NewFresh, TypeOK, Known
    <3>3. TreeRooted'
      BY <1>1, <2>1, <3>1 DEF NewFresh, TreeRooted, Known
    <3>4. ChainSound'
      BY <1>1, <2>1, EmptyTypes
         DEF NewFresh, ChainSound, StateIsReplay, CheckpointsSound, RejectedSound
    <3>5. ReplaySound' /\ DownIsEmpty'
      BY <1>1, <2>1, <2>3 DEF NewFresh, ReplaySound, DownIsEmpty
    <3> QED
      BY <3>2, <3>3, <3>4, <3>5
  <2>4. CASE disk' # <<Genesis>>
    <3>1. UNCHANGED <<phase, blocks, tip, state, checkpoints, rejected, orphans,
                      chainHeights, calls, replay, now>>
      BY <1>1, <2>4 DEF NewFresh
    <3>2. TypeOK'
      BY <2>2, <3>1 DEF TypeOK, Known
    <3> QED
      BY <3>1, <3>2 DEF TreeRooted, Known, ChainSound, StateIsReplay,
          CheckpointsSound, RejectedSound, ReplaySound, DownIsEmpty, Outweighs
  <2> QED
    BY <2>3, <2>4
<1>2. ASSUME NEW b \in Hash, InsertGenesis(b)
      PROVE  TreeInv'
  <2>1. /\ b = Genesis /\ Genesis \notin Known /\ Genesis \notin rejected
        /\ replay = Nil /\ calls # << >> /\ phase # "down"
    BY <1>2 DEF InsertGenesis, Inserting, Running, DownIsEmpty
  <2>2. Known = {} /\ tip = Nil
    BY <2>1, BlockAssumption DEF TreeRooted, ChainSound, StateIsReplay, TypeOK
  <2>3. /\ blocks' \in [{Genesis} -> Nat] /\ DOMAIN blocks' = {Genesis}
        /\ blocks'[Genesis] = 0
    BY <1>0, <1>2, <2>1, <2>2 DEF InsertGenesis, With, Known
  <2>4. /\ chainHeights' \in [DOMAIN chainHeights' -> Hash]
        /\ DOMAIN chainHeights' \subseteq Nat
    BY <1>0, <1>2, <2>1 DEF InsertGenesis, With, TypeOK
  <2>5. calls' \in Seq(Frames)
    BY <1>2, <2>1, FrameTypes DEF InsertGenesis, Return
  <2>6. TypeOK'
    BY <1>0, <1>2, <2>1, <2>3, <2>4, <2>5 DEF InsertGenesis, TypeOK, Known
  <2>7. TreeRooted'
    BY <1>2, <2>1, <2>3 DEF InsertGenesis, TreeRooted, Known
  <2>8. ChainSound'
    BY <1>2, <2>2 DEF InsertGenesis, ChainSound, StateIsReplay, CheckpointsSound, RejectedSound
  <2>9. ReplaySound' /\ DownIsEmpty'
    BY <1>2, <2>1 DEF InsertGenesis, ReplaySound, DownIsEmpty
  <2> QED
    BY <2>6, <2>7, <2>8, <2>9
<1> QED
  BY <1>1, <1>2

\* A block that passed the checks against its parent joins the tree.
LEMMA InsertBlockInv ==
    ASSUME TreeInv, NEW b \in Hash, InsertBlock(b)
    PROVE  TreeInv'
<1> USE DEF TreeInv
<1>0. /\ b \notin Known /\ b \notin rejected /\ Prev(b) \in Known /\ b # Genesis
      /\ replay = Nil /\ calls # << >> /\ phase # "down"
  BY BlockAssumption DEF InsertBlock, Inserting, Running, DownIsEmpty
<1>1. /\ Known \subseteq Hash /\ blocks \in [Known -> Nat]
      /\ Block[b].difficulty \in Nat
  BY BlockAssumption DEF TypeOK
<1>2. Height(b) = Height(Prev(b)) + 1 /\ Block[b].difficulty > 0
  BY <1>1 DEF InsertBlock, AcceptableBlock, ValidateBasic, ValidatePoW, Height
<1>3. blocks[Prev(b)] + Block[b].difficulty \in Nat
  BY <1>0, <1>1
<1>4. /\ blocks' \in [Known \cup {b} -> Nat] /\ Known' = Known \cup {b}
      /\ blocks'[b] = blocks[Prev(b)] + Block[b].difficulty
      /\ \A y \in Known : blocks'[y] = blocks[y]
  BY <1>0, <1>1, <1>3 DEF InsertBlock, Known, With
<1>5. calls' \in Seq(Frames)
  <2>1. promoteOrphansLocked(b) \in Seq(Frames)
    BY InsertAllType DEF promoteOrphansLocked, TypeOK
  <2>2. Tail(calls) \in Seq(Frames) /\ Select(b) \in Frames
    BY <1>0, FrameTypes
  <2>3. <<Select(b)>> \in Seq(Frames)
    BY <2>2
  <2>4. promoteOrphansLocked(b) \o <<Select(b)>> \in Seq(Frames)
    BY <2>1, <2>3
  <2>5. /\ promoteOrphansLocked(b) \o <<Select(b)>> \o Tail(calls) \in Seq(Frames)
        /\ promoteOrphansLocked(b) \o Tail(calls) \in Seq(Frames)
    BY <2>1, <2>2, <2>4
  <2> QED
    BY <2>5 DEF InsertBlock
<1>6. disk' \in Seq(Hash \cup {Torn})
  BY AppendType DEF InsertBlock, TypeOK
<1>7. TypeOK'
  <2>1. orphans' \in [Hash -> Seq(Hash)]
    BY DEF InsertBlock, TypeOK
  <2> QED
    BY <1>1, <1>4, <1>5, <1>6, <2>1 DEF InsertBlock, TypeOK, Known
<1>8. TreeRooted'
  <2>1. Genesis \in Known /\ blocks'[Genesis] = 0 /\ rejected' = rejected
    BY <1>0, <1>4 DEF TreeRooted, InsertBlock
  <2>2. \A y \in Known \ {Genesis} : /\ Prev(y) \in Known
                                     /\ Height(y) = Height(Prev(y)) + 1
                                     /\ Block[y].difficulty > 0
                                     /\ blocks'[y] = blocks'[Prev(y)] + Block[y].difficulty
    BY <1>4 DEF TreeRooted
  <2>3. blocks'[b] = blocks'[Prev(b)] + Block[b].difficulty
    BY <1>0, <1>4
  <2>4. Known \cap rejected = {}
    BY DEF TreeRooted
  <2> QED
    BY <1>0, <1>2, <1>4, <2>1, <2>2, <2>3, <2>4 DEF TreeRooted
<1>9. ChainSound'
  BY <1>4 DEF InsertBlock, ChainSound, StateIsReplay, CheckpointsSound, RejectedSound
<1>10. ReplaySound' /\ DownIsEmpty'
  BY <1>0 DEF InsertBlock, ReplaySound, DownIsEmpty
<1> QED
  BY <1>7, <1>8, <1>9, <1>10

-----------------------------------------------------------------------------
(***************************************************************************)
(* Steps of fork choice.                                                   *)
(***************************************************************************)

\* One more block applied to the reference state of its parent gives its own
\* reference state.
LEMMA ApplyIsReplay ==
    ASSUME NEW b \in Hash \ {Genesis}, NEW s,
           s = Replay[Prev(b)], s # Invalid
    PROVE  /\ ApplyBlock(s, Block[b]) = Replay[b]
           /\ Applies(s, b) <=> Replay[b] # Invalid
           /\ Replay[b] # Invalid => Replay[b] \in Accounts
BY ReplayAssumption DEF Applies

\* A snapshot of the reference state keeps the checkpoints sound.
LEMMA SavedCheckpointSound ==
    ASSUME TypeOK, CheckpointsSound, NEW b \in Hash, Replay[b] \in Accounts,
           Replay[b] # Invalid,
           checkpoints' = SavedCheckpoint(b, Replay[b])
    PROVE  /\ checkpoints' \in [DOMAIN checkpoints' -> Accounts]
           /\ DOMAIN checkpoints' \subseteq Hash
           /\ CheckpointsSound'
<1>1. CASE IsCheckpointHeight(b)
  <2>1. checkpoints' = With(checkpoints, b, Replay[b])
    BY <1>1 DEF SavedCheckpoint
  <2>2. /\ DOMAIN checkpoints' = DOMAIN checkpoints \cup {b}
        /\ checkpoints' \in [DOMAIN checkpoints \cup {b} -> Accounts]
        /\ checkpoints'[b] = Replay[b]
        /\ \A y \in DOMAIN checkpoints \ {b} : checkpoints'[y] = checkpoints[y]
    BY <2>1 DEF TypeOK, With
  <2> QED
    BY <2>2 DEF TypeOK, CheckpointsSound
<1>2. CASE ~IsCheckpointHeight(b)
  BY <1>2 DEF SavedCheckpoint, TypeOK, CheckpointsSound
<1> QED
  BY <1>1, <1>2

\* The fast path installs the reference state of the new tip.
LEMMA ExtendTipInv ==
    ASSUME TreeInv, NEW b \in Hash, ExtendTip(b)
    PROVE  TreeInv'
<1> USE DEF TreeInv
<1>0. /\ replay = Nil /\ calls # << >> /\ phase # "down"
      /\ b \in Known /\ tip # Nil /\ Prev(b) = tip /\ tip \in Hash
  BY DEF ExtendTip, Running, DownIsEmpty, IsBest, Extends, TypeOK
<1>1. b # Genesis /\ Height(b) \in Nat
  BY <1>0, BlockAssumption
<1>2. state = Replay[Prev(b)] /\ state # Invalid
  BY <1>0 DEF ChainSound, StateIsReplay
<1>3. state' = Replay[b] /\ Replay[b] # Invalid /\ Replay[b] \in Accounts
  BY <1>1, <1>2, ApplyIsReplay DEF ExtendTip
<1>4. /\ checkpoints' \in [DOMAIN checkpoints' -> Accounts]
      /\ DOMAIN checkpoints' \subseteq Hash
      /\ CheckpointsSound'
  BY <1>3, SavedCheckpointSound DEF ExtendTip, ChainSound
<1>5. /\ chainHeights' \in [DOMAIN chainHeights' -> Hash]
      /\ DOMAIN chainHeights' \subseteq Nat
  BY <1>1 DEF ExtendTip, TypeOK, With
<1>6. calls' \in Seq(Frames)
  BY <1>0, FrameTypes DEF ExtendTip, Return
<1>7. TypeOK'
  BY <1>3, <1>4, <1>5, <1>6 DEF ExtendTip, TypeOK, Known
<1>8. TreeRooted'
  BY DEF ExtendTip, TreeRooted, Known
<1>9. ChainSound'
  BY <1>0, <1>3, <1>4, BlockAssumption
     DEF ExtendTip, ChainSound, StateIsReplay, RejectedSound, Known
<1>10. ReplaySound' /\ DownIsEmpty'
  BY <1>0 DEF ExtendTip, ReplaySound, DownIsEmpty
<1> QED
  BY <1>7, <1>8, <1>9, <1>10

\* A branch is cut off at a block that does not apply to its parent's state:
\* the tip, genesis and the parents of all that is left stay in the tree.
LEMMA RejectSubtreeInv ==
    ASSUME TreeInv, NEW b \in Known \ {Genesis}, Replay[b] = Invalid,
           rejectSubtreeLocked(b),
           replay' = Nil, phase' = phase, phase # "down",
           calls' \in Seq(Frames),
           UNCHANGED <<tip, state, checkpoints, orphans, chainHeights, disk, now>>
    PROVE  TreeInv'
<1> USE DEF TreeInv
<1>0. Known \subseteq Hash /\ blocks \in [Known -> Nat] /\ Subtree(b) \subseteq Known
  BY DEF TypeOK, Subtree
<1>1. \A x \in Subtree(b) : Replay[x] = Invalid
  BY <1>0, InvalidSpreads DEF Subtree, pathToGenesisLocked
<1>2. Genesis \notin Subtree(b) /\ (tip # Nil => tip \notin Subtree(b))
  BY <1>1, ReplayAssumption, NewStateSound DEF ChainSound, StateIsReplay
<1>3. /\ Known' = Known \ Subtree(b)
      /\ blocks' \in [Known' -> Nat]
      /\ \A y \in Known' : blocks'[y] = blocks[y]
      /\ rejected' = rejected \cup Subtree(b)
  BY <1>0 DEF rejectSubtreeLocked, Restrict, Known
<1>4. TypeOK'
  BY <1>0, <1>3 DEF TypeOK, Known
<1>5. TreeRooted'
  <2>1. \A y \in Known' \ {Genesis} : Prev(y) \in Known'
    <3>1. SUFFICES ASSUME NEW y \in Known' \ {Genesis}, Prev(y) \in Subtree(b)
                   PROVE  FALSE
      BY <1>3 DEF TreeRooted
    <3>2. b \in Ancestors[Prev(y)] /\ b \in Known /\ y \in Known /\ y \in Hash
      BY <1>0, <1>3, <3>1 DEF Subtree, pathToGenesisLocked
    <3>3. b \in Ancestors[y]
      BY <3>2, ParentAncestors
    <3> QED
      BY <1>3, <3>2, <3>3 DEF Subtree, pathToGenesisLocked
  <2>2. \A y \in Known' \ {Genesis} : /\ Height(y) = Height(Prev(y)) + 1
                                      /\ Block[y].difficulty > 0
                                      /\ blocks'[y] = blocks'[Prev(y)] + Block[y].difficulty
    BY <1>3, <2>1 DEF TreeRooted
  <2>3. Known' # {} => Genesis \in Known' /\ blocks'[Genesis] = 0
    BY <1>2, <1>3 DEF TreeRooted
  <2>4. Known' \cap rejected' = {}
    BY <1>3 DEF TreeRooted
  <2> QED
    BY <2>1, <2>2, <2>3, <2>4 DEF TreeRooted
<1>6. ChainSound'
  BY <1>1, <1>2, <1>3 DEF ChainSound, StateIsReplay, CheckpointsSound, RejectedSound
<1>7. ReplaySound' /\ DownIsEmpty'
  BY DEF ReplaySound, DownIsEmpty
<1> QED
  BY <1>4, <1>5, <1>6, <1>7

\* The best block extends the tip and does not apply.
LEMMA RejectExtensionInv ==
    ASSUME TreeInv, NEW b \in Hash, RejectExtension(b)
    PROVE  TreeInv'
<1> USE DEF TreeInv
<1>1. /\ replay = Nil /\ calls # << >> /\ phase # "down"
      /\ b \in Known /\ tip # Nil /\ Prev(b) = tip /\ tip \in Hash
  BY DEF RejectExtension, Running, DownIsEmpty, IsBest, Extends, TypeOK
<1>2. b # Genesis
  BY <1>1, BlockAssumption
<1>3. Replay[b] = Invalid
  BY <1>1, <1>2, ApplyIsReplay DEF RejectExtension, ChainSound, StateIsReplay
<1>4. calls' \in Seq(Frames)
  BY <1>1, FrameTypes DEF RejectExtension, Return
<1> QED
  BY <1>1, <1>2, <1>3, <1>4, RejectSubtreeInv DEF RejectExtension

\* A replay starts from a sound checkpoint, or from the empty state.
LEMMA ReplayStarts ==
    ASSUME TreeInv, NEW b \in Hash, StartReplay(b)
    PROVE  /\ replay' \in Replays /\ replay' # Nil
           /\ replay'.target = b
           /\ replay'.fresh = Replay[replay'.at] /\ replay'.fresh # Invalid
<1> USE DEF TreeInv
<1>1. PICK base \in ReplayBase(b) :
           replay' = [target |-> b, at |-> base.at, fresh |-> base.fresh]
  BY DEF StartReplay
<1>2. /\ base.at \in Hash /\ base.fresh \in Accounts
      /\ base.fresh = Replay[base.at] /\ base.fresh # Invalid
  <2>1. CASE base = [at |-> Genesis, fresh |-> NewState]
    BY <2>1, BlockAssumption, ReplayAssumption, NewStateSound
  <2>2. CASE \E c \in DOMAIN checkpoints : base = [at |-> c, fresh |-> checkpoints[c]]
    BY <2>2 DEF ChainSound, CheckpointsSound, TypeOK
  <2> QED
    BY <2>1, <2>2 DEF ReplayBase, Deepest
<1>3. replay' \in Replays
  BY <1>1, <1>2 DEF Replays
<1>4. replay' # Nil
  BY <1>3, BlockAssumption DEF Replays
<1> QED
  BY <1>1, <1>2, <1>3, <1>4

\* The start of a replay changes nothing else.
LEMMA StartReplayInv ==
    ASSUME TreeInv, NEW b \in Hash, StartReplay(b)
    PROVE  TreeInv'
<1> USE DEF TreeInv
<1>1. /\ replay = Nil /\ calls # << >> /\ phase # "down" /\ b \in Known /\ b # tip
      /\ Known \subseteq Hash
  BY DEF StartReplay, Running, DownIsEmpty, IsBest, TypeOK
<1>2. calls' \in Seq(Frames)
  BY <1>1, FrameTypes DEF StartReplay, Return
<1>5. /\ replay' \in Replays /\ replay'.target = b
      /\ replay'.fresh = Replay[replay'.at] /\ replay'.fresh # Invalid
  BY ReplayStarts
<1>6. TypeOK'
  BY <1>2, <1>5 DEF StartReplay, memory, TypeOK, Known
<1>7. TreeRooted' /\ ChainSound'
  BY DEF StartReplay, memory, TreeRooted, ChainSound, StateIsReplay, CheckpointsSound,
      RejectedSound, Known
<1>8. tip # Nil => Outweighs(b, tip)
  BY <1>1 DEF StartReplay, IsBest, ChainSound, StateIsReplay, TreeRooted
<1>9. ReplaySound'
  <2>1. Known' = Known /\ tip' = tip /\ blocks' = blocks
    BY DEF StartReplay, memory, Known
  <2> QED
    BY <1>1, <1>5, <1>8, <2>1 DEF ReplaySound, Outweighs
<1>10. DownIsEmpty'
  BY <1>1 DEF StartReplay, DownIsEmpty
<1> QED
  BY <1>6, <1>7, <1>9, <1>10

\* What a step of a replay starts from.
LEMMA ReplayingFacts ==
    ASSUME TreeInv, NEW b \in Hash, Replaying(b)
    PROVE  /\ replay \in Replays /\ replay # Nil /\ phase # "down"
           /\ b \in Known \ {Genesis}
           /\ Prev(b) = replay.at
           /\ replay.fresh = Replay[Prev(b)] /\ replay.fresh # Invalid
BY DEF TreeInv, Replaying, TypeOK, ReplaySound, DownIsEmpty, pathToGenesisLocked

\* A block of the branch applies: the replay moves on to it.
LEMMA ReplayMoves ==
    ASSUME TreeInv, NEW b \in Hash, ReplayBlock(b)
    PROVE  /\ Replay[b] # Invalid /\ Replay[b] \in Accounts
           /\ checkpoints' = SavedCheckpoint(b, Replay[b])
           /\ replay' \in Replays /\ replay' # Nil
           /\ replay'.target = replay.target
           /\ replay'.at = b /\ replay'.fresh = Replay[b]
<1>1. /\ replay \in Replays
      /\ b \in Known \ {Genesis} /\ Prev(b) = replay.at
      /\ replay.fresh = Replay[Prev(b)] /\ replay.fresh # Invalid
  BY ReplayingFacts DEF ReplayBlock
<1>2. /\ ApplyBlock(replay.fresh, Block[b]) = Replay[b]
      /\ Replay[b] # Invalid /\ Replay[b] \in Accounts
  BY <1>1, ApplyIsReplay DEF ReplayBlock
<1>3. /\ replay' = [replay EXCEPT !.at = b, !.fresh = Replay[b]]
      /\ checkpoints' = SavedCheckpoint(b, Replay[b])
  BY <1>2 DEF ReplayBlock
<1>4. /\ replay' \in Replays /\ replay'.target = replay.target
      /\ replay'.at = b /\ replay'.fresh = Replay[b]
  BY <1>1, <1>2, <1>3 DEF Replays
<1>5. replay' # Nil
  BY <1>4, BlockAssumption DEF Replays
<1> QED
  BY <1>2, <1>3, <1>4, <1>5

\* A snapshot of its state is sound.
LEMMA ReplayBlockInv ==
    ASSUME TreeInv, NEW b \in Hash, ReplayBlock(b)
    PROVE  TreeInv'
<1> USE DEF TreeInv
<1>1. replay # Nil /\ phase # "down"
  BY ReplayingFacts DEF ReplayBlock
<1>4. /\ Replay[b] # Invalid /\ Replay[b] \in Accounts
      /\ checkpoints' = SavedCheckpoint(b, Replay[b])
      /\ replay' \in Replays /\ replay'.target = replay.target
      /\ replay'.at = b /\ replay'.fresh = Replay[b]
  BY ReplayMoves
<1>5. /\ checkpoints' \in [DOMAIN checkpoints' -> Accounts]
      /\ DOMAIN checkpoints' \subseteq Hash
      /\ CheckpointsSound'
  BY <1>4, SavedCheckpointSound DEF ChainSound
<1>6. TypeOK'
  BY <1>4, <1>5 DEF ReplayBlock, TypeOK, Known
<1>7. TreeRooted' /\ ChainSound'
  BY <1>5 DEF ReplayBlock, TreeRooted, ChainSound, StateIsReplay, RejectedSound, Known
<1>8. ReplaySound'
  BY <1>1, <1>4 DEF ReplayBlock, ReplaySound, Known, Outweighs
<1>9. DownIsEmpty'
  BY <1>1 DEF ReplayBlock, DownIsEmpty
<1> QED
  BY <1>6, <1>7, <1>8, <1>9

\* A block of the branch does not apply: its subtree is rejected.
LEMMA ReplayFailsInv ==
    ASSUME TreeInv, NEW b \in Hash, ReplayFails(b)
    PROVE  TreeInv'
<1>1. /\ replay \in Replays /\ replay # Nil /\ phase # "down"
      /\ b \in Known \ {Genesis} /\ Prev(b) = replay.at
      /\ replay.fresh = Replay[Prev(b)] /\ replay.fresh # Invalid
  BY ReplayingFacts DEF ReplayFails
<1>2. Replay[b] = Invalid
  BY <1>1, ApplyIsReplay DEF ReplayFails
<1>3. calls' \in Seq(Frames)
  BY DEF ReplayFails, TreeInv, TypeOK
<1> QED
  BY <1>1, <1>2, <1>3, RejectSubtreeInv DEF ReplayFails

\* The replayed branch becomes the active chain.
LEMMA CommitChainInv ==
    ASSUME TreeInv, CommitChain
    PROVE  TreeInv'
<1> USE DEF TreeInv
<1>1. /\ replay \in Replays /\ replay.target \in Known /\ phase # "down"
      /\ replay.fresh = Replay[replay.target] /\ replay.fresh # Invalid
  BY DEF CommitChain, TypeOK, ReplaySound, DownIsEmpty
<1>2. replay.target \in Hash /\ replay.fresh \in Accounts
  BY <1>1 DEF Replays
<1> DEFINE path == pathToGenesisLocked(replay.target)
<1>3. path \subseteq Hash
  BY DEF pathToGenesisLocked, TypeOK
<1>4. /\ chainHeights' \in [DOMAIN chainHeights' -> Hash]
      /\ DOMAIN chainHeights' \subseteq Nat
  <2>1. chainHeights' = HeightIndex(path)
    BY DEF CommitChain
  <2>2. \A h \in {Height(e) : e \in path} : (CHOOSE e \in path : Height(e) = h) \in Hash
    BY <1>3
  <2>3. \A e \in path : Height(e) \in Nat
    BY <1>3, BlockAssumption
  <2> QED
    BY <2>1, <2>2, <2>3 DEF HeightIndex
<1>5. /\ DOMAIN checkpoints' \subseteq DOMAIN checkpoints
      /\ checkpoints' \in [DOMAIN checkpoints' -> Accounts]
      /\ \A c \in DOMAIN checkpoints' : checkpoints'[c] = checkpoints[c]
  BY DEF CommitChain, Restrict, TypeOK
<1>6. TypeOK'
  BY <1>2, <1>4, <1>5 DEF CommitChain, TypeOK, Known
<1>7. TreeRooted'
  BY DEF CommitChain, TreeRooted, Known
<1>8. ChainSound'
  BY <1>1, <1>2, <1>5, BlockAssumption
     DEF CommitChain, ChainSound, StateIsReplay, CheckpointsSound, RejectedSound, Known
<1>9. ReplaySound' /\ DownIsEmpty'
  BY <1>1 DEF CommitChain, ReplaySound, DownIsEmpty
<1> QED
  BY <1>6, <1>7, <1>8, <1>9

-----------------------------------------------------------------------------
(***************************************************************************)
(* The theorems.                                                           *)
(***************************************************************************)

\* Every step preserves the invariant.
LEMMA NextInv == TreeInv /\ [Next]_vars => TreeInv'
<1> SUFFICES ASSUME TreeInv, [Next]_vars PROVE TreeInv'
  OBVIOUS
<1>1. CASE NewFresh
  BY <1>1, GenesisInv
<1>2. CASE NewFromDisk \/ Tick \/ Arrival
  BY <1>2, QuietSteps
<1>3. CASE Crash
  BY <1>3, ExitInv DEF Crash
<1>4. CASE LockedStep
  <2>1. CASE BootDone
    BY <2>1, QuietSteps
  <2>2. CASE \E b \in Hash : BootFails(b)
    BY <2>2, ExitInv DEF BootFails
  <2>3. CASE Insertion
    BY <2>3, QuietSteps, GenesisInv, InsertBlockInv DEF Insertion
  <2>4. CASE ForkChoice
    BY <2>4, QuietSteps, RejectExtensionInv, StartReplayInv, ReplayBlockInv, ReplayFailsInv
       DEF ForkChoice
  <2>5. CASE NewTip
    BY <2>5, CommitChainInv, ExtendTipInv DEF NewTip
  <2> QED
    BY <1>4, <2>1, <2>2, <2>3, <2>4, <2>5 DEF LockedStep
<1>5. CASE UNCHANGED vars
  BY <1>5 DEF vars, memory, TreeInv, TypeOK, TreeRooted, ChainSound, StateIsReplay,
      CheckpointsSound, RejectedSound, ReplaySound, DownIsEmpty, Known, Outweighs
<1> QED
  BY <1>1, <1>2, <1>3, <1>4, <1>5 DEF Next

\* The inductive invariant holds in every reachable state.
THEOREM TreeInvariant == Spec => []TreeInv
BY InitInv, NextInv, PTL DEF Spec

\* The variables keep their types (every operation under n.mu).
THEOREM TypeCorrect == Spec => []TypeOK
BY TreeInvariant, PTL DEF TreeInv

\* The tree is rooted in genesis after any mix of insertions, promotions and
\* rejected subtrees (insertBlockLocked, rejectSubtreeLocked).
THEOREM TreeIsRooted == Spec => []TreeRooted
BY TreeInvariant, PTL DEF TreeInv

\* The confirmed state is the one a full replay of the active chain gives
\* (switchChainLocked, replayLocked, baseStateLocked, commitChainLocked).
THEOREM StateIsReplayed == Spec => []StateIsReplay
BY TreeInvariant, PTL DEF TreeInv, ChainSound

\* Every checkpoint is the replayed state of its block (replayLocked,
\* commitChainLocked).
THEOREM CheckpointsAreSound == Spec => []CheckpointsSound
BY TreeInvariant, PTL DEF TreeInv, ChainSound

\* Only branches that do not apply are ever rejected (rejectSubtreeLocked).
THEOREM RejectionIsSound == Spec => []RejectedSound
BY TreeInvariant, PTL DEF TreeInv, ChainSound

\* A step that moves the tip moves it to a block that outweighs it.
LEMMA TipStep ==
    ASSUME TreeInv, [Next]_vars, tip # Nil, tip' # tip, tip' # Nil
    PROVE  Outweighs(tip', tip)
<1>1. CASE \E b \in Hash : ExtendTip(b)
  BY <1>1 DEF ExtendTip, IsBest, TreeInv, ChainSound, StateIsReplay, TreeRooted
<1>2. CASE CommitChain
  BY <1>2 DEF CommitChain, TreeInv, ReplaySound
<1>3. CASE NewFresh \/ NewFromDisk \/ Tick \/ Arrival \/ BootDone \/ UNCHANGED vars
  BY <1>3 DEF NewFresh, NewFromDisk, Tick, Arrival, BootDone, SubmitSolution,
      acceptRemoteBlock, vars, memory
<1>4. CASE Crash \/ \E b \in Hash : BootFails(b)
  BY <1>4 DEF Crash, BootFails, Exit
<1>5. CASE Insertion
  BY <1>5 DEF Insertion, InsertKnown, InsertRefused, InsertGenesis, InsertOrphan,
      InsertBlock, memory
<1>6. CASE ForkChoice
  BY <1>6 DEF ForkChoice, KeepTip, RejectExtension, StartReplay, ReplayBlock,
      ReplayFails, memory
<1> QED
  BY <1>1, <1>2, <1>3, <1>4, <1>5, <1>6 DEF Next, LockedStep, NewTip

\* While the node runs the tip is replaced only by a block with more work, or
\* equal work and a smaller hash (selectTipLocked, switchChainLocked).
THEOREM TipImproves == Spec => TipOnlyImproves
<1>1. TreeInv /\ [Next]_vars =>
        [tip # Nil /\ tip' \notin {tip, Nil} =>
            \/ blocks[tip'] > blocks[tip]
            \/ blocks[tip'] = blocks[tip] /\ tip' < tip]_vars
  BY TipStep DEF Outweighs
<1> QED
  BY <1>1, TreeInvariant, PTL DEF Spec, TipOnlyImproves
-----------------------------------------------------------------------------
(***************************************************************************)
(* Facts that the proofs about fork choice and about the block file share. *)
(***************************************************************************)

\* Nothing but insertions runs while the node boots: fork choice waits for the
\* end of it, no block is buffered and none is rejected.
BootQuiet ==
    phase = "booting" =>
        /\ tip = Nil /\ replay = Nil /\ rejected = {} /\ orphans = NoOrphans
        /\ \A i \in DOMAIN calls : calls[i].op = "insert"

\* The calls that are left when the innermost one returns.
LEMMA TailFrames ==
    ASSUME TypeOK, calls # << >>
    PROVE  /\ Head(calls) = calls[1] /\ Len(Tail(calls)) = Len(calls) - 1
           /\ \A i \in DOMAIN Tail(calls) : /\ i + 1 \in DOMAIN calls
                                            /\ Tail(calls)[i] = calls[i + 1]
BY DEF TypeOK

\* A boot stays quiet.
LEMMA BootQuietStep ==
    ASSUME TreeInv, BootQuiet, [Next]_vars
    PROVE  BootQuiet'
<1> USE DEF TreeInv
<1>1. CASE phase' # "booting"
  BY <1>1 DEF BootQuiet
<1>2. CASE NewFresh
  BY <1>2 DEF NewFresh, DownIsEmpty, BootQuiet
<1>3. CASE NewFromDisk
  BY <1>3 DEF NewFromDisk, memory, DownIsEmpty, BootQuiet, Insert
<1>4. CASE BootDone \/ Arrival \/ Crash \/ \E b \in Hash : BootFails(b)
  BY <1>1, <1>4 DEF BootDone, Arrival, SubmitSolution, acceptRemoteBlock, Crash, BootFails, Exit
<1>5. CASE Tick \/ UNCHANGED vars
  BY <1>5 DEF Tick, vars, memory, BootQuiet
<1>6. ASSUME NEW b \in Hash, phase = "booting",
             InsertKnown(b) \/ InsertGenesis(b) \/ InsertBlock(b)
      PROVE  BootQuiet'
  <2>1. calls # << >> /\ tip = Nil /\ replay = Nil /\ rejected = {} /\ orphans = NoOrphans
    BY <1>6 DEF InsertKnown, InsertGenesis, InsertBlock, Inserting, Running, BootQuiet
  <2>2. \A i \in DOMAIN Tail(calls) : Tail(calls)[i].op = "insert"
    BY <1>6, <2>1, TailFrames DEF BootQuiet
  <2>3. CASE InsertKnown(b) \/ InsertGenesis(b)
    BY <2>1, <2>2, <2>3 DEF InsertKnown, InsertGenesis, Return, memory, BootQuiet
  <2>4. CASE InsertBlock(b)
    <3>1. promoteOrphansLocked(b) = << >> /\ [orphans EXCEPT ![b] = << >>] = NoOrphans
      BY <2>1 DEF promoteOrphansLocked, NoOrphans
    <3>2. Tail(calls) \in Seq(Frames)
      BY <2>1, FrameTypes
    <3>3. calls' = Tail(calls) /\ orphans' = NoOrphans
      BY <1>6, <2>4, <3>1, <3>2 DEF InsertBlock
    <3> QED
      BY <2>1, <2>2, <2>4, <3>3 DEF InsertBlock, BootQuiet
  <2> QED
    BY <1>6, <2>3, <2>4
<1>7. CASE Insertion
  BY <1>1, <1>6, <1>7 DEF Insertion, InsertRefused, InsertOrphan, InsertKnown, InsertGenesis,
      InsertBlock
<1>8. CASE ForkChoice \/ NewTip
  <2>1. phase' = phase
    BY <1>8 DEF ForkChoice, NewTip, KeepTip, RejectExtension, StartReplay, ReplayBlock,
        ReplayFails, CommitChain, ExtendTip
  <2>2. replay # Nil \/ Running("select")
    BY <1>8 DEF ForkChoice, NewTip, KeepTip, RejectExtension, StartReplay, ReplayBlock,
        ReplayFails, CommitChain, ExtendTip, Replaying
  <2>3. Running("select") => 1 \in DOMAIN calls /\ calls[1].op = "select"
    BY TailFrames DEF Running, TypeOK
  <2> QED
    BY <1>1, <2>1, <2>2, <2>3 DEF BootQuiet
<1> QED
  BY <1>2, <1>3, <1>4, <1>5, <1>7, <1>8 DEF Next, LockedStep

\* The ancestors of a block are the block itself and those of its parent.
LEMMA ChildAncestors ==
    ASSUME NEW b \in Hash \ {Genesis}
    PROVE  Ancestors[b] = Ancestors[Prev(b)] \cup {b}
<1> DEFINE S == Ancestors[Prev(b)] \cup {b}
<1>1. Prev(b) \in Hash
  BY BlockAssumption
<1>2. S \in SUBSET Hash /\ b \in S
  BY <1>1, AncestorSelf
<1>3. ParentClosed(S)
  BY <1>1, AncestorSelf, AncestorsClosed DEF ParentClosed
<1>4. Ancestors[b] \subseteq S
  BY <1>2, <1>3, ClosedContainsAncestors
<1> QED
  BY <1>4, ParentAncestors, AncestorSelf

\* The path of a block of the tree is complete: it consists of all ancestors.
LEMMA PathComplete ==
    ASSUME TypeOK, TreeRooted, NEW b \in Known
    PROVE  pathToGenesisLocked(b) = Ancestors[b] /\ Ancestors[b] \subseteq Known
<1>1. Known \in SUBSET Hash /\ ParentClosed(Known)
  BY DEF TypeOK, TreeRooted, ParentClosed
<1>2. Ancestors[b] \subseteq Known
  BY <1>1, ClosedContainsAncestors
<1> QED
  BY <1>2 DEF pathToGenesisLocked

-----------------------------------------------------------------------------
(***************************************************************************)
(* The block tree implements HeaviestChain.  Besides TreeInv the proof     *)
(* needs one fact: a replay, which takes many steps, is still about the    *)
(* best block when it is over.                                             *)
(***************************************************************************)

\* The mutex is held during a replay, so no block joins or leaves the tree.
TargetIsBest == replay # Nil => IsBest(replay.target)

\* No step but the end of a replay changes what is best while it runs.
LEMMA TargetStep ==
    ASSUME TreeInv, TargetIsBest, [Next]_vars
    PROVE  TargetIsBest'
<1>1. CASE replay' = Nil
  BY <1>1 DEF TargetIsBest
<1>2. CASE UNCHANGED <<replay, blocks, rejected>>
  BY <1>2 DEF TargetIsBest, IsBest, Known, Outweighs
<1>3. ASSUME NEW b \in Hash, StartReplay(b)
      PROVE  TargetIsBest'
  <2>1. replay'.target = b /\ IsBest(b) /\ UNCHANGED <<blocks, rejected>>
    BY <1>3 DEF StartReplay, memory
  <2> QED
    BY <2>1 DEF TargetIsBest, IsBest, Known, Outweighs
<1>4. ASSUME NEW b \in Hash, ReplayBlock(b)
      PROVE  TargetIsBest'
  <2>1. replay \in Replays /\ replay # Nil
    BY <1>4, ReplayingFacts DEF ReplayBlock
  <2>2. replay'.target = replay.target /\ UNCHANGED <<blocks, rejected>>
    BY <1>4, <2>1 DEF ReplayBlock, Replays
  <2> QED
    BY <2>1, <2>2 DEF TargetIsBest, IsBest, Known, Outweighs
<1>5. CASE NewFresh \/ Crash \/ \E b \in Hash : BootFails(b)
  BY <1>1, <1>5 DEF NewFresh, Crash, BootFails, Exit, TreeInv, DownIsEmpty
<1>6. CASE NewFromDisk \/ Tick \/ Arrival \/ BootDone \/ KeepTip \/ UNCHANGED vars
  BY <1>2, <1>6 DEF NewFromDisk, Tick, Arrival, BootDone, SubmitSolution,
      acceptRemoteBlock, KeepTip, vars, memory
<1>7. CASE Insertion
  BY <1>1, <1>7 DEF Insertion, InsertKnown, InsertRefused, InsertGenesis,
      InsertOrphan, InsertBlock, Inserting, Running
<1>8. CASE NewTip \/ \E b \in Hash : RejectExtension(b) \/ ReplayFails(b)
  BY <1>1, <1>8 DEF NewTip, CommitChain, ExtendTip, RejectExtension, ReplayFails, Running
<1> QED
  BY <1>3, <1>4, <1>5, <1>6, <1>7, <1>8 DEF Next, LockedStep, ForkChoice

-----------------------------------------------------------------------------
(***************************************************************************)
(* One lemma per kind of step.                                             *)
(***************************************************************************)

\* The initial states are initial states of the promise.
LEMMA PromiseInit == Init => Promise!Init
BY DEF Init, Promise!Init, EmptyMap

\* A block that joins the tree is a block learned.
LEMMA PromiseLearn ==
    ASSUME TreeInv, NEW b \in Hash,
           InsertBlock(b) \/ InsertGenesis(b) \/ (b = Genesis /\ NewFresh)
    PROVE  Promise!Next \/ UNCHANGED Promise!promised
<1> USE DEF TreeInv
<1>1. CASE InsertBlock(b)
  <2>1. /\ b \notin Known /\ Prev(b) \in Known /\ b # Genesis
        /\ blocks' = With(blocks, b, blocks[Prev(b)] + Block[b].difficulty)
        /\ UNCHANGED <<tip, state>>
    BY <1>1, BlockAssumption DEF InsertBlock
  <2>2. Promise!Learn(b)
    BY <2>1 DEF Promise!Learn, Known, With, Prev
  <2> QED
    BY <2>2 DEF Promise!Next
<1>2. CASE InsertGenesis(b)
  <2>1. /\ b \notin Known /\ b = Genesis
        /\ blocks' = With(blocks, b, 0)
        /\ UNCHANGED <<tip, state>>
    BY <1>2 DEF InsertGenesis
  <2>2. Promise!Learn(b)
    BY <2>1 DEF Promise!Learn, Known, With
  <2> QED
    BY <2>2 DEF Promise!Next
<1>3. CASE b = Genesis /\ NewFresh
  <2>1. blocks = EmptyMap /\ UNCHANGED <<tip, state>>
    BY <1>3 DEF NewFresh, DownIsEmpty
  <2>2. CASE UNCHANGED blocks
    BY <2>1, <2>2 DEF Promise!promised
  <2>3. CASE blocks' = With(EmptyMap, Genesis, 0)
    <3>1. Promise!Learn(b)
      BY <1>3, <2>1, <2>3, EmptyTypes DEF Promise!Learn, With
    <3> QED
      BY <3>1 DEF Promise!Next
  <2> QED
    BY <1>3, <2>2, <2>3 DEF NewFresh
<1> QED
  BY <1>1, <1>2, <1>3

\* A rejected subtree consists of invalid blocks.
LEMMA PromiseDrop ==
    ASSUME TreeInv, NEW b \in Hash, RejectExtension(b) \/ ReplayFails(b)
    PROVE  Promise!Next
<1> USE DEF TreeInv
<1>1. Replay[b] = Invalid /\ rejectSubtreeLocked(b) /\ UNCHANGED <<tip, state>>
  <2>1. CASE RejectExtension(b)
    <3>1. b \in Known /\ Prev(b) = tip /\ tip # Nil /\ tip \in Hash
      BY <2>1 DEF RejectExtension, IsBest, Extends, TypeOK
    <3>2. b # Genesis
      BY <3>1, BlockAssumption
    <3> QED
      BY <2>1, <3>1, <3>2, ApplyIsReplay
         DEF RejectExtension, ChainSound, StateIsReplay
  <2>2. CASE ReplayFails(b)
    <3>1. /\ b \in Known \ {Genesis}
          /\ replay.fresh = Replay[Prev(b)] /\ replay.fresh # Invalid
      BY <2>2, ReplayingFacts DEF ReplayFails
    <3> QED
      BY <2>2, <3>1, ApplyIsReplay DEF ReplayFails
  <2> QED
    BY <2>1, <2>2
<1>2. Subtree(b) \in SUBSET {x \in Known : Replay[x] = Invalid}
  BY <1>1, InvalidSpreads DEF Subtree, pathToGenesisLocked, TypeOK
<1>3. blocks' = [c \in Known \ Subtree(b) |-> blocks[c]]
  BY <1>1, <1>2 DEF rejectSubtreeLocked, Restrict, Known
<1>4. Promise!Drop
  BY <1>1, <1>2, <1>3 DEF Promise!Drop, Promise!Valid, Known
<1> QED
  BY <1>4 DEF Promise!Next

\* The best block of the tree, if it is valid, is the heaviest valid one.
LEMMA PromiseAdopt ==
    ASSUME TreeInv, NEW b \in Known, IsBest(b), Replay[b] # Invalid,
           tip' = b, state' = Replay[b], UNCHANGED blocks
    PROVE  Promise!Next
<1>1. \A c \in Known : c # b => Outweighs(b, c)
  BY DEF IsBest, TreeInv, TreeRooted
<1>2. Promise!Adopt(b)
  BY <1>1 DEF Promise!Adopt, Promise!Valid, Promise!Heavier, Outweighs, Known
<1> QED
  BY <1>2 DEF Promise!Next, TreeInv, TypeOK

\* Every step of the tree is a step of the promise, or is not seen there.
LEMMA PromiseStep ==
    TreeInv /\ TargetIsBest /\ [Next]_vars => [Promise!Next]_Promise!promised
<1> SUFFICES ASSUME TreeInv, TargetIsBest, [Next]_vars
             PROVE  Promise!Next \/ UNCHANGED Promise!promised
  OBVIOUS
<1>1. CASE NewFresh \/ \E b \in Hash : InsertBlock(b) \/ InsertGenesis(b)
  BY <1>1, PromiseLearn, BlockAssumption
<1>2. CASE \E b \in Hash : RejectExtension(b) \/ ReplayFails(b)
  BY <1>2, PromiseDrop
<1>3. ASSUME NEW b \in Hash, ExtendTip(b)
      PROVE  Promise!Next
  <2>1. TreeInv'
    BY <1>3, ExtendTipInv
  <2>2. b \in Known /\ IsBest(b) /\ tip' = b /\ UNCHANGED blocks
    BY <1>3 DEF ExtendTip, IsBest
  <2>3. state' = Replay[b] /\ Replay[b] # Invalid
    BY <2>1, <2>2, BlockAssumption DEF TreeInv, ChainSound, StateIsReplay
  <2> QED
    BY <2>2, <2>3, PromiseAdopt
<1>4. CASE CommitChain
  <2>1. TreeInv'
    BY <1>4, CommitChainInv
  <2>2. /\ replay.target \in Known /\ IsBest(replay.target)
        /\ tip' = replay.target /\ UNCHANGED blocks
    BY <1>4 DEF CommitChain, TreeInv, ReplaySound, TargetIsBest
  <2>3. state' = Replay[replay.target] /\ Replay[replay.target] # Invalid
    BY <2>1, <2>2, BlockAssumption DEF TreeInv, TypeOK, ChainSound, StateIsReplay
  <2> QED
    BY <2>2, <2>3, PromiseAdopt
<1>5. CASE Crash \/ \E b \in Hash : BootFails(b)
  BY <1>5 DEF Crash, BootFails, Exit, EmptyMap, Promise!Next, Promise!Forget
<1>6. CASE \/ NewFromDisk \/ Tick \/ Arrival \/ BootDone \/ KeepTip \/ UNCHANGED vars
           \/ \E b \in Hash : \/ InsertKnown(b) \/ InsertRefused(b) \/ InsertOrphan(b)
                              \/ StartReplay(b) \/ ReplayBlock(b)
  BY <1>6 DEF NewFromDisk, Tick, Arrival, BootDone, SubmitSolution, acceptRemoteBlock,
      KeepTip, InsertKnown, InsertRefused, InsertOrphan, StartReplay, ReplayBlock,
      vars, memory, Promise!promised
<1> QED
  BY <1>1, <1>2, <1>3, <1>4, <1>5, <1>6
     DEF Next, LockedStep, Insertion, ForkChoice, NewTip

-----------------------------------------------------------------------------
\* The block tree implements the abstract node: whatever the order of arrivals,
\* promotions, replays, rejected branches, crashes and restarts, the node moves
\* in one step to the heaviest valid block it holds, with the state of that
\* block's chain (insertBlockLocked, selectTipLocked, switchChainLocked,
\* replayLocked, commitChainLocked, rejectSubtreeLocked).
THEOREM TreeKeepsPromise == Spec => HeaviestChain
<1>1. Init => TargetIsBest
  BY DEF Init, TargetIsBest
<1>2. TreeInv /\ TargetIsBest /\ [Next]_vars => TargetIsBest'
  BY TargetStep
<1>3. Spec => [](TreeInv /\ TargetIsBest)
  BY <1>1, <1>2, InitInv, NextInv, PTL DEF Spec
<1> QED
  BY <1>3, PromiseInit, PromiseStep, PTL DEF Spec, HeaviestChain, Promise!Spec

-----------------------------------------------------------------------------
(***************************************************************************)
(* The tip is best when the mutex is free.                                 *)
(***************************************************************************)

\* The blocks of the tree that outweigh the tip.
Ahead == {b \in Known : Outweighs(b, tip)}

\* The positions of the calls of selectTipLocked in a stack of calls.
Selects(stack) == {i \in DOMAIN stack : stack[i].op = "select"}

\* The calls of selectTipLocked that have not come to an end.
Owed == Cardinality(Selects(calls)) + (IF replay = Nil THEN 0 ELSE 1)

\* No more blocks are ahead of the tip than selectTipLocked will still run.
AheadCovered == tip # Nil => Cardinality(Ahead) <= Owed

ForkChoiceInv ==
    /\ TreeInv /\ BootQuiet /\ TargetIsBest
    /\ IsFiniteSet(Known)
    /\ AheadCovered

-----------------------------------------------------------------------------
(***************************************************************************)
(* Counting calls.                                                         *)
(***************************************************************************)

\* A stack holds finitely many calls.
LEMMA SelectsFinite ==
    ASSUME NEW s \in Seq(Frames)
    PROVE  IsFiniteSet(Selects(s)) /\ Cardinality(Selects(s)) \in Nat
<1>1. Selects(s) \in SUBSET (1 .. Len(s)) /\ Len(s) \in Nat
  BY DEF Selects
<1>2. IsFiniteSet(1 .. Len(s))
  BY <1>1, FS_Interval
<1>3. IsFiniteSet(Selects(s))
  BY <1>1, <1>2, FS_Subset
<1> QED
  BY <1>3, FS_CardinalityType

\* The calls of one stack on top of another add up.
LEMMA SelectsConcat ==
    ASSUME NEW s \in Seq(Frames), NEW t \in Seq(Frames)
    PROVE  Cardinality(Selects(s \o t)) = Cardinality(Selects(s)) + Cardinality(Selects(t))
<1> DEFINE shifted == {i \in Selects(s \o t) : i > Len(s)}
           f == [i \in Selects(t) |-> Len(s) + i]
<1>0. Len(s) \in Nat /\ Len(t) \in Nat
  OBVIOUS
<1>1. /\ s \o t \in Seq(Frames) /\ Len(s \o t) = Len(s) + Len(t)
      /\ \A i \in 1 .. Len(s) + Len(t) :
           (s \o t)[i] = IF i <= Len(s) THEN s[i] ELSE t[i - Len(s)]
  OBVIOUS
<1>2. Selects(s \o t) = Selects(s) \cup shifted
  BY <1>0, <1>1 DEF Selects
<1>3. Selects(s) \cap shifted = {}
  BY <1>0 DEF Selects
<1>4. ExistsBijection(Selects(t), shifted)
  <2>1. \A i \in Selects(t) : f[i] \in shifted
    BY <1>0, <1>1 DEF Selects
  <2>2. f \in [Selects(t) -> shifted]
    BY <2>1
  <2>3. \A i, j \in Selects(t) : f[i] = f[j] => i = j
    BY <1>0 DEF Selects
  <2>4. \A k \in shifted : \E i \in Selects(t) : f[i] = k
    <3>1. SUFFICES ASSUME NEW k \in shifted
                   PROVE  k - Len(s) \in Selects(t) /\ f[k - Len(s)] = k
      OBVIOUS
    <3> QED
      BY <1>0, <1>1 DEF Selects
  <2>5. f \in Bijection(Selects(t), shifted)
    BY <2>2, <2>3, <2>4 DEF Bijection, Injection, Surjection, IsInjective
  <2> QED
    BY <2>5 DEF ExistsBijection
<1>5. IsFiniteSet(shifted) /\ Cardinality(shifted) = Cardinality(Selects(t))
  BY <1>4, SelectsFinite, FS_Bijection
<1>6. Cardinality(Selects(s) \cup shifted) =
        Cardinality(Selects(s)) + Cardinality(shifted) - Cardinality(Selects(s) \cap shifted)
  BY <1>5, SelectsFinite, FS_Union
<1>7. Cardinality(Selects(s) \cap shifted) = 0
  BY <1>3, FS_EmptySet
<1>8. Cardinality(Selects(s)) \in Nat /\ Cardinality(Selects(t)) \in Nat
  BY SelectsFinite
<1> HIDE DEF shifted
<1> QED
  BY <1>2, <1>5, <1>6, <1>7, <1>8

\* Insertions are no calls of selectTipLocked.
LEMMA NoSelects ==
    ASSUME NEW s \in Seq(Frames), \A i \in DOMAIN s : s[i].op = "insert"
    PROVE  Cardinality(Selects(s)) = 0
<1>1. Selects(s) = {}
  BY DEF Selects
<1> QED
  BY <1>1, FS_EmptySet

\* A call of selectTipLocked that returns is one less to come, the return of an
\* insertion changes nothing.
LEMMA SelectsReturn ==
    ASSUME TypeOK, calls # << >>
    PROVE  /\ Tail(calls) \in Seq(Frames)
           /\ Cardinality(Selects(Tail(calls))) \in Nat
           /\ Head(calls).op = "insert" =>
                Cardinality(Selects(calls)) = Cardinality(Selects(Tail(calls)))
           /\ Head(calls).op = "select" =>
                Cardinality(Selects(calls)) = Cardinality(Selects(Tail(calls))) + 1
<1> DEFINE top == <<Head(calls)>>
<1>1. Tail(calls) \in Seq(Frames) /\ Head(calls) \in Frames
  BY FrameTypes
<1>2. top \in Seq(Frames) /\ calls = top \o Tail(calls)
  BY <1>1 DEF TypeOK
<1>3. Cardinality(Selects(calls)) =
        Cardinality(Selects(top)) + Cardinality(Selects(Tail(calls)))
  BY <1>1, <1>2, SelectsConcat
<1>4. ASSUME Head(calls).op = "insert" PROVE Cardinality(Selects(top)) = 0
  <2>1. \A i \in DOMAIN top : top[i].op = "insert"
    BY <1>4
  <2> QED
    BY <1>2, <2>1, NoSelects
<1>5. ASSUME Head(calls).op = "select" PROVE Cardinality(Selects(top)) = 1
  <2>1. Selects(top) = {1}
    BY <1>5 DEF Selects
  <2> QED
    BY <2>1, FS_Singleton
<1>6. Cardinality(Selects(Tail(calls))) \in Nat
  BY <1>1, SelectsFinite
<1> QED
  BY <1>1, <1>3, <1>4, <1>5, <1>6
-----------------------------------------------------------------------------
(***************************************************************************)
(* Every step keeps the count.                                             *)
(***************************************************************************)

\* The counted sets are finite.
LEMMA AheadFinite ==
    ASSUME IsFiniteSet(Known)
    PROVE  /\ IsFiniteSet(Ahead) /\ Cardinality(Ahead) \in Nat
           /\ \A S \in SUBSET Ahead : /\ IsFiniteSet(S)
                                      /\ Cardinality(S) \in Nat
                                      /\ Cardinality(S) <= Cardinality(Ahead)
<1>1. Ahead \in SUBSET Known
  BY DEF Ahead
<1>2. IsFiniteSet(Ahead)
  BY <1>1, FS_Subset
<1> QED
  BY <1>2, FS_Subset, FS_CardinalityType

\* Nothing is ahead of the best block.
LEMMA NothingAhead ==
    ASSUME TypeOK, TreeRooted, tip \in Hash, IsBest(tip)
    PROVE  Ahead = {} /\ Cardinality(Ahead) = 0
<1>1. Known \subseteq Hash /\ blocks \in [Known -> Nat] /\ Hash \subseteq Nat
  BY BlockAssumption DEF TypeOK
<1>2. ASSUME NEW c \in Known
      PROVE  ~Outweighs(c, tip)
  <2>1. c = tip \/ Outweighs(tip, c)
    BY DEF IsBest, TreeRooted
  <2>2. blocks[c] \in Nat /\ blocks[tip] \in Nat /\ c \in Nat /\ tip \in Nat
    BY <1>1 DEF IsBest
  <2> QED
    BY <2>1, <2>2 DEF Outweighs
<1> QED
  BY <1>2, FS_EmptySet DEF Ahead

\* The best block is ahead of any other tip.
LEMMA BestIsAhead ==
    ASSUME TreeInv, NEW b \in Hash, IsBest(b), b # tip, tip # Nil
    PROVE  b \in Ahead
BY DEF IsBest, Ahead, TreeInv, ChainSound, StateIsReplay, TreeRooted

\* A rejected subtree takes the block at its end with it, and nothing that
\* stays moves ahead.
LEMMA RejectShrinks ==
    ASSUME ForkChoiceInv, NEW b \in Known, NEW c \in Ahead, rejectSubtreeLocked(b),
           c \in Subtree(b), tip # Nil, tip' = tip, tip \in Known'
    PROVE  /\ IsFiniteSet(Known')
           /\ Cardinality(Ahead') \in Nat
           /\ Cardinality(Ahead') <= Cardinality(Ahead) - 1
<1> USE DEF ForkChoiceInv, TreeInv
<1>1. /\ Known' = Known \ Subtree(b)
      /\ \A y \in Known' : blocks'[y] = blocks[y]
  BY DEF rejectSubtreeLocked, Restrict, Known
<1>2. IsFiniteSet(Known')
  BY <1>1, FS_Subset
<1>3. Ahead' \in SUBSET (Ahead \ {c})
  BY <1>1 DEF Ahead, Outweighs
<1>4. IsFiniteSet(Ahead) /\ Cardinality(Ahead) \in Nat
  BY AheadFinite
<1>5. IsFiniteSet(Ahead \ {c}) /\ Cardinality(Ahead \ {c}) = Cardinality(Ahead) - 1
  BY <1>4, FS_RemoveElement
<1>6. /\ IsFiniteSet(Ahead')
      /\ Cardinality(Ahead') <= Cardinality(Ahead \ {c})
  BY <1>3, <1>5, FS_Subset
<1>7. Cardinality(Ahead') \in Nat
  BY <1>6, FS_CardinalityType
<1> QED
  BY <1>2, <1>4, <1>5, <1>6, <1>7

\* Steps that change neither the tree, nor the tip, nor what is owed.
LEMMA CoverUnchanged ==
    ASSUME ForkChoiceInv, UNCHANGED <<blocks, tip>>, Owed' = Owed
    PROVE  IsFiniteSet(Known') /\ AheadCovered'
BY DEF ForkChoiceInv, AheadCovered, Ahead, Outweighs, Known

\* Insertions.
LEMMA CoverInsertion ==
    ASSUME ForkChoiceInv, Insertion
    PROVE  IsFiniteSet(Known') /\ AheadCovered'
<1> USE DEF ForkChoiceInv, TreeInv
<1>1. ASSUME NEW b \in Hash, InsertKnown(b) \/ InsertRefused(b) \/ InsertOrphan(b)
      PROVE  IsFiniteSet(Known') /\ AheadCovered'
  <2>1. /\ calls # << >> /\ Head(calls).op = "insert" /\ calls' = Tail(calls)
        /\ replay' = replay /\ UNCHANGED <<blocks, tip>>
    BY <1>1 DEF InsertKnown, InsertRefused, InsertOrphan, Inserting, Running, Return, memory
  <2>2. Owed' = Owed
    BY <2>1, SelectsReturn DEF Owed
  <2> QED
    BY <2>1, <2>2, CoverUnchanged
<1>2. ASSUME NEW b \in Hash, InsertGenesis(b)
      PROVE  IsFiniteSet(Known') /\ AheadCovered'
  <2>1. b = Genesis /\ Genesis \notin Known /\ tip' = tip
        /\ blocks' = With(blocks, b, 0)
    BY <1>2 DEF InsertGenesis
  <2>2. Known = {} /\ tip = Nil
    BY <2>1, BlockAssumption DEF TreeRooted, ChainSound, StateIsReplay, TypeOK
  <2>3. Known' = {Genesis}
    BY <2>1, <2>2 DEF Known, With
  <2> QED
    BY <2>1, <2>2, <2>3, FS_Singleton DEF AheadCovered
<1>3. ASSUME NEW b \in Hash, InsertBlock(b)
      PROVE  IsFiniteSet(Known') /\ AheadCovered'
  <2>1. /\ calls # << >> /\ Head(calls).op = "insert" /\ replay = Nil /\ replay' = Nil
        /\ tip' = tip /\ phase # "down" /\ b \notin Known
        /\ blocks' = With(blocks, b, blocks[Prev(b)] + Block[b].difficulty)
    BY <1>3 DEF InsertBlock, Inserting, Running, DownIsEmpty
  <2>2. Known' = Known \cup {b} /\ \A y \in Known : blocks'[y] = blocks[y]
    BY <2>1 DEF Known, With
  <2>3. IsFiniteSet(Known')
    BY <2>2, FS_AddElement
  <2>4. CASE tip = Nil
    BY <2>1, <2>3, <2>4 DEF AheadCovered
  <2>5. CASE tip # Nil
    <3>1. phase = "up" /\ tip \in Known
      BY <2>1, <2>5 DEF BootQuiet, TypeOK, ChainSound, StateIsReplay
    <3>2. Ahead' \in SUBSET (Ahead \cup {b})
      BY <2>1, <2>2, <3>1 DEF Ahead, Outweighs
    <3>3. IsFiniteSet(Ahead) /\ Cardinality(Ahead) \in Nat
      BY AheadFinite
    <3>4. /\ IsFiniteSet(Ahead \cup {b})
          /\ Cardinality(Ahead \cup {b}) <= Cardinality(Ahead) + 1
      <4>1. /\ IsFiniteSet(Ahead \cup {b})
            /\ Cardinality(Ahead \cup {b}) =
                 IF b \in Ahead THEN Cardinality(Ahead) ELSE Cardinality(Ahead) + 1
        BY <3>3, FS_AddElement
      <4> QED
        BY <3>3, <4>1
    <3>5. /\ Cardinality(Ahead') <= Cardinality(Ahead \cup {b})
          /\ Cardinality(Ahead') \in Nat /\ Cardinality(Ahead \cup {b}) \in Nat
      BY <3>2, <3>4, FS_Subset, FS_CardinalityType
    <3> DEFINE pushed == promoteOrphansLocked(b)
    <3>6. /\ pushed \in Seq(Frames) /\ <<Select(b)>> \in Seq(Frames)
          /\ Tail(calls) \in Seq(Frames)
      <4>1. pushed \in Seq(Frames)
        BY InsertAllType DEF promoteOrphansLocked, TypeOK
      <4>2. Select(b) \in Frames /\ Tail(calls) \in Seq(Frames)
        BY <2>1, FrameTypes
      <4> QED
        BY <4>1, <4>2
    <3>7. calls' = (pushed \o <<Select(b)>>) \o Tail(calls)
      BY <1>3, <3>1 DEF InsertBlock
    <3>8. Cardinality(Selects(pushed)) = 0
      BY <3>6, NoSelects DEF promoteOrphansLocked, Insert
    <3>9. Cardinality(Selects(<<Select(b)>>)) = 1
      <4>1. Selects(<<Select(b)>>) = {1}
        BY DEF Selects, Select
      <4> QED
        BY <4>1, FS_Singleton
    <3> HIDE DEF pushed
    <3>10. /\ Cardinality(Selects(pushed \o <<Select(b)>>)) = 1
           /\ pushed \o <<Select(b)>> \in Seq(Frames)
      <4>1. Cardinality(Selects(pushed \o <<Select(b)>>)) =
              Cardinality(Selects(pushed)) + Cardinality(Selects(<<Select(b)>>))
        BY <3>6, SelectsConcat
      <4>2. pushed \o <<Select(b)>> \in Seq(Frames)
        BY <3>6
      <4> QED
        BY <3>8, <3>9, <4>1, <4>2
    <3>11. Cardinality(Selects(calls')) = 1 + Cardinality(Selects(Tail(calls)))
      BY <3>6, <3>7, <3>10, SelectsConcat
    <3>12. Cardinality(Selects(calls)) = Cardinality(Selects(Tail(calls)))
           /\ Cardinality(Selects(Tail(calls))) \in Nat
      BY <2>1, SelectsReturn
    <3>13. Cardinality(Ahead) <= Cardinality(Selects(calls))
      <4>1. Owed = Cardinality(Selects(calls))
        BY <2>1, <3>12 DEF Owed
      <4> QED
        BY <2>5, <4>1 DEF AheadCovered
    <3>14. Owed' = Cardinality(Selects(calls)) + 1
      <4>1. Owed' = Cardinality(Selects(calls')) + 0
        BY <2>1 DEF Owed
      <4> QED
        BY <3>11, <3>12, <4>1
    <3>15. Cardinality(Ahead') <= Owed'
      BY <3>3, <3>4, <3>5, <3>12, <3>13, <3>14
    <3> QED
      BY <2>3, <3>15 DEF AheadCovered
  <2> QED
    BY <2>4, <2>5
<1> QED
  BY <1>1, <1>2, <1>3 DEF Insertion
\* selectTipLocked and the replays it starts.
LEMMA CoverForkChoice ==
    ASSUME ForkChoiceInv, ForkChoice \/ NewTip, TreeInv'
    PROVE  IsFiniteSet(Known') /\ AheadCovered'
<1> USE DEF ForkChoiceInv, TreeInv
<1>0. Running("select") =>
        /\ replay = Nil /\ calls # << >> /\ Head(calls).op = "select"
        /\ Cardinality(Selects(Tail(calls))) \in Nat
        /\ Cardinality(Selects(calls)) = Cardinality(Selects(Tail(calls))) + 1
        /\ Owed = Cardinality(Selects(Tail(calls))) + 1
  <2>1. SUFFICES ASSUME Running("select") PROVE <1>0!2
    OBVIOUS
  <2>2. replay = Nil /\ calls # << >> /\ Head(calls).op = "select"
    BY <2>1 DEF Running
  <2>3. /\ Cardinality(Selects(Tail(calls))) \in Nat
        /\ Cardinality(Selects(calls)) = Cardinality(Selects(Tail(calls))) + 1
    BY <2>2, SelectsReturn
  <2> QED
    BY <2>2, <2>3 DEF Owed
<1>1. Cardinality(Selects(calls)) \in Nat
  BY SelectsFinite DEF TypeOK
<1>2. CASE KeepTip
  <2>1. /\ UNCHANGED <<blocks, tip, replay>> /\ calls' = Tail(calls) /\ IsBest(tip)
        /\ Running("select")
    BY <1>2 DEF KeepTip, memory, Return
  <2>2. tip \in Hash /\ Ahead' = Ahead /\ Known' = Known
    BY <2>1 DEF IsBest, TypeOK, Ahead, Outweighs, Known
  <2>3. Cardinality(Ahead') = 0
    BY <2>1, <2>2, NothingAhead
  <2>4. Owed' = Cardinality(Selects(Tail(calls))) + 0
    BY <1>0, <2>1 DEF Owed
  <2> QED
    BY <1>0, <2>1, <2>2, <2>3, <2>4 DEF AheadCovered
<1>3. ASSUME NEW b \in Hash, ExtendTip(b)
      PROVE  IsFiniteSet(Known') /\ AheadCovered'
  <2>1. /\ UNCHANGED <<blocks, rejected, replay>> /\ calls' = Tail(calls)
        /\ tip' = b /\ IsBest(b) /\ Running("select")
    BY <1>3 DEF ExtendTip, Return
  <2>2. Known' = Known /\ IsBest(b)'
    BY <2>1 DEF IsBest, Outweighs, Known
  <2>3. Cardinality(Ahead') = 0
    <3>1. (tip \in Hash /\ IsBest(tip))'
      BY <2>1, <2>2 DEF IsBest, Outweighs, Known
    <3>2. (Ahead = {})'
      <4>1. SUFFICES ASSUME NEW c \in Known PROVE ~Outweighs(c, b)
        BY <2>1, <2>2 DEF Ahead, Outweighs
      <4>2. c = b \/ Outweighs(b, c)
        BY <2>1 DEF IsBest, TreeRooted
      <4>3. blocks[c] \in Nat /\ blocks[b] \in Nat /\ c \in Nat /\ b \in Nat
        BY <2>1, BlockAssumption DEF IsBest, TypeOK
      <4> QED
        BY <4>2, <4>3 DEF Outweighs
    <3> QED
      BY <3>2, FS_EmptySet
  <2>4. Owed' = Cardinality(Selects(Tail(calls))) + 0
    BY <1>0, <2>1 DEF Owed
  <2> QED
    BY <1>0, <2>1, <2>2, <2>3, <2>4 DEF AheadCovered
<1>4. ASSUME NEW b \in Hash, RejectExtension(b)
      PROVE  IsFiniteSet(Known') /\ AheadCovered'
  <2>1. /\ Running("select") /\ IsBest(b) /\ tip # Nil /\ Prev(b) = tip /\ b \in Known
        /\ rejectSubtreeLocked(b) /\ calls' = Tail(calls) /\ UNCHANGED <<tip, replay>>
    BY <1>4 DEF RejectExtension, Extends, Return, IsBest
  <2>2. b # tip /\ tip \in Known'
    <3>1. tip \in Hash /\ tip \in Known' /\ b # Genesis
      BY <2>1, BlockAssumption DEF ChainSound, StateIsReplay, TypeOK
    <3>2. Height(b) = Height(tip) + 1 /\ Height(tip) \in Nat
      BY <2>1, <3>1, BlockAssumption DEF TreeRooted
    <3> QED
      BY <3>1, <3>2
  <2>3. b \in Ahead /\ b \in Subtree(b)
    BY <2>1, <2>2, BestIsAhead, AncestorSelf DEF Subtree, pathToGenesisLocked
  <2>4. /\ IsFiniteSet(Known') /\ Cardinality(Ahead') \in Nat
        /\ Cardinality(Ahead') <= Cardinality(Ahead) - 1
    BY <2>1, <2>2, <2>3, RejectShrinks
  <2>5. Cardinality(Ahead) \in Nat /\ Cardinality(Ahead) <= Owed
    BY <2>1, AheadFinite DEF AheadCovered
  <2>6. Owed' = Cardinality(Selects(Tail(calls))) + 0
    BY <1>0, <2>1 DEF Owed
  <2>7. Cardinality(Ahead') <= Owed'
    BY <1>0, <2>1, <2>4, <2>5, <2>6
  <2> QED
    BY <2>4, <2>7 DEF AheadCovered
<1>5. ASSUME NEW b \in Hash, StartReplay(b)
      PROVE  IsFiniteSet(Known') /\ AheadCovered'
  <2>1. /\ Running("select") /\ calls' = Tail(calls) /\ UNCHANGED <<blocks, tip>>
    BY <1>5 DEF StartReplay, Return, memory
  <2>2. replay' # Nil
    BY <1>5, ReplayStarts
  <2>3. Owed' = Cardinality(Selects(Tail(calls))) + 1
    BY <2>1, <2>2 DEF Owed
  <2> QED
    BY <1>0, <2>1, <2>3, CoverUnchanged
<1>6. ASSUME NEW b \in Hash, ReplayBlock(b)
      PROVE  IsFiniteSet(Known') /\ AheadCovered'
  <2>1. replay # Nil /\ UNCHANGED <<blocks, tip, calls>>
    BY <1>6 DEF ReplayBlock, Replaying
  <2>2. replay' # Nil
    BY <1>6, ReplayMoves
  <2>3. Owed' = Owed
    BY <2>1, <2>2 DEF Owed
  <2> QED
    BY <2>1, <2>3, CoverUnchanged
<1>7. ASSUME NEW b \in Hash, ReplayFails(b)
      PROVE  IsFiniteSet(Known') /\ AheadCovered'
  <2>1. /\ replay # Nil /\ replay' = Nil /\ UNCHANGED <<tip, calls>>
        /\ rejectSubtreeLocked(b) /\ b \in pathToGenesisLocked(replay.target)
        /\ replay.target \in Known /\ b \in Known
    BY <1>7 DEF ReplayFails, Replaying, ReplaySound, pathToGenesisLocked
  <2>2. replay.target \in Subtree(b)
    BY <2>1 DEF Subtree
  <2>3. CASE tip = Nil
    <3>1. Known' \in SUBSET Known
      BY <2>1 DEF rejectSubtreeLocked, Restrict, Known
    <3> QED
      BY <2>1, <2>3, <3>1, FS_Subset DEF AheadCovered
  <2>4. CASE tip # Nil
    <3>1. replay.target \in Ahead /\ tip \in Known'
      BY <2>1, <2>4 DEF ReplaySound, Ahead, ChainSound, StateIsReplay
    <3>2. /\ IsFiniteSet(Known') /\ Cardinality(Ahead') \in Nat
          /\ Cardinality(Ahead') <= Cardinality(Ahead) - 1
      BY <2>1, <2>2, <2>4, <3>1, RejectShrinks
    <3>3. Cardinality(Ahead) \in Nat /\ Cardinality(Ahead) <= Owed
      BY <2>4, AheadFinite DEF AheadCovered
    <3>4. /\ Owed = Cardinality(Selects(calls)) + 1
          /\ Owed' = Cardinality(Selects(calls)) + 0
      BY <2>1 DEF Owed
    <3>5. Cardinality(Ahead') <= Owed'
      BY <1>1, <3>2, <3>3, <3>4
    <3> QED
      BY <3>2, <3>5 DEF AheadCovered
  <2> QED
    BY <2>3, <2>4
<1>8. CASE CommitChain
  <2>1. /\ replay # Nil /\ tip' = replay.target /\ IsBest(replay.target)
        /\ UNCHANGED <<blocks, rejected, calls>> /\ replay' = Nil
    BY <1>8 DEF CommitChain, TargetIsBest
  <2>2. Known' = Known
    BY <2>1 DEF Known
  <2>3. (Ahead = {})'
    <3>1. SUFFICES ASSUME NEW c \in Known PROVE ~Outweighs(c, replay.target)
      BY <2>1, <2>2 DEF Ahead, Outweighs
    <3>2. c = replay.target \/ Outweighs(replay.target, c)
      BY <2>1 DEF IsBest, TreeRooted
    <3>3. /\ blocks[c] \in Nat /\ blocks[replay.target] \in Nat
          /\ c \in Nat /\ replay.target \in Nat
      BY <2>1, BlockAssumption DEF IsBest, TypeOK
    <3> QED
      BY <3>2, <3>3 DEF Outweighs
  <2>4. Cardinality(Ahead') = 0
    BY <2>3, FS_EmptySet
  <2>5. Owed' = Cardinality(Selects(calls)) + 0
    BY <2>1 DEF Owed
  <2> QED
    BY <1>1, <2>2, <2>4, <2>5 DEF AheadCovered
<1> QED
  BY <1>2, <1>3, <1>4, <1>5, <1>6, <1>7, <1>8 DEF ForkChoice, NewTip
\* Every step preserves the invariant of fork choice.
LEMMA ForkChoiceStep ==
    ASSUME ForkChoiceInv, [Next]_vars
    PROVE  ForkChoiceInv'
<1> USE DEF ForkChoiceInv
<1>1. TreeInv' /\ BootQuiet' /\ TargetIsBest'
  BY NextInv, BootQuietStep, TargetStep
<1>2. IsFiniteSet(Known') /\ AheadCovered'
  <2>1. CASE NewFresh
    <3>1. tip' = Nil
      BY <2>1 DEF NewFresh, TreeInv, DownIsEmpty
    <3>2. Known' = {Genesis} \/ Known' = Known
      BY <2>1, EmptyTypes DEF NewFresh, With, Known
    <3> QED
      BY <3>1, <3>2, FS_Singleton, ZenonT(60) DEF AheadCovered
  <2>2. CASE Crash \/ \E b \in Hash : BootFails(b)
    <3>1. tip' = Nil /\ Known' = {}
      BY <2>2, EmptyTypes DEF Crash, BootFails, Exit, Known
    <3> QED
      BY <3>1, FS_EmptySet DEF AheadCovered
  <2>3. CASE NewFromDisk \/ BootDone
    <3>1. tip' = Nil /\ Known' = Known
      BY <2>3 DEF NewFromDisk, BootDone, memory, Known, TreeInv, DownIsEmpty, BootQuiet
    <3> QED
      BY <3>1 DEF AheadCovered
  <2>4. CASE Tick \/ UNCHANGED vars
    BY <2>4, CoverUnchanged DEF Tick, vars, memory, Owed
  <2>5. CASE Arrival
    <3>1. PICK b \in Hash : SubmitSolution(b) \/ acceptRemoteBlock(b)
      BY <2>5 DEF Arrival
    <3>2. /\ calls = << >> /\ calls' = <<Insert(b)>>
          /\ UNCHANGED <<blocks, tip, replay>>
      BY <3>1 DEF SubmitSolution, acceptRemoteBlock, LockFree, memory
    <3>3. Selects(calls) = {} /\ Selects(calls') = {}
      BY <3>2 DEF Selects, Insert
    <3> QED
      BY <3>2, <3>3, CoverUnchanged DEF Owed
  <2>6. CASE Insertion
    BY <2>6, CoverInsertion
  <2>7. CASE ForkChoice \/ NewTip
    BY <1>1, <2>7, CoverForkChoice
  <2> QED
    BY <2>1, <2>2, <2>3, <2>4, <2>5, <2>6, <2>7 DEF Next, LockedStep
<1> QED
  BY <1>1, <1>2

\* The tip is the heaviest block of the tree whenever the mutex is free,
\* although a selectTipLocked that meets a bad branch gives up (insertBlockLocked,
\* selectTipLocked, switchChainLocked).
THEOREM TipAlwaysBest == Spec => []TipIsBest
<1>1. Init => ForkChoiceInv
  <2>1. SUFFICES ASSUME Init PROVE ForkChoiceInv
    OBVIOUS
  <2>2. TreeInv /\ Known = {}
    BY <2>1, InitInv, EmptyTypes DEF Init, Known
  <2> QED
    BY <2>1, <2>2, FS_EmptySet DEF Init, ForkChoiceInv, BootQuiet, TargetIsBest, AheadCovered
<1>2. ForkChoiceInv /\ [Next]_vars => ForkChoiceInv'
  BY ForkChoiceStep
<1>3. ForkChoiceInv => TipIsBest
  <2>1. SUFFICES ASSUME ForkChoiceInv, LockFree, tip # Nil, NEW b \in Known
                 PROVE  \/ blocks[b] < blocks[tip]
                        \/ blocks[b] = blocks[tip] /\ tip <= b
    BY DEF TipIsBest
  <2>2. Selects(calls) = {}
    BY <2>1 DEF LockFree, Selects
  <2>3. Cardinality(Selects(calls)) = 0 /\ Owed = Cardinality(Selects(calls)) + 0
    BY <2>1, <2>2, FS_EmptySet DEF LockFree, Owed
  <2>4. IsFiniteSet(Ahead) /\ Cardinality(Ahead) = 0
    <3>1. IsFiniteSet(Ahead) /\ Cardinality(Ahead) \in Nat
      BY <2>1, AheadFinite DEF ForkChoiceInv
    <3>2. Cardinality(Ahead) <= Owed
      BY <2>1 DEF ForkChoiceInv, AheadCovered
    <3> QED
      BY <2>3, <3>1, <3>2
  <2>5. ~Outweighs(b, tip)
    BY <2>1, <2>4, FS_EmptySet DEF Ahead
  <2>6. blocks[b] \in Nat /\ blocks[tip] \in Nat /\ b \in Nat /\ tip \in Nat
    BY <2>1, BlockAssumption DEF ForkChoiceInv, TreeInv, TypeOK, ChainSound, StateIsReplay
  <2> QED
    BY <2>5, <2>6 DEF Outweighs
<1> QED
  BY <1>1, <1>2, <1>3, PTL DEF Spec

-----------------------------------------------------------------------------
(***************************************************************************)
(* The index of the active chain.                                          *)
(***************************************************************************)

\* The blocks of a path have different heights, none above its end.
PathsClimb ==
    \A b \in Known : \A e, f \in Ancestors[b] :
        /\ Height(e) <= Height(b)
        /\ Height(e) = Height(f) => e = f

IndexInv == TreeInv /\ BootQuiet /\ PathsClimb /\ ChainHeightsIndex

\* A block of the tree that is still there has the same path after a step.
LEMMA PathStays ==
    ASSUME TypeOK, TreeRooted, TypeOK', TreeRooted', NEW b \in Known, b \in Known'
    PROVE  pathToGenesisLocked(b)' = pathToGenesisLocked(b)
<1>1. pathToGenesisLocked(b) = Ancestors[b]
  BY PathComplete
<1>2. Known' \in SUBSET Hash /\ ParentClosed(Known')
  BY DEF TypeOK, TreeRooted, ParentClosed
<1>3. Ancestors[b] \subseteq Known'
  BY <1>2, ClosedContainsAncestors
<1> QED
  BY <1>1, <1>3 DEF pathToGenesisLocked

\* How a step changes the blocks of the tree.
LEMMA TreeGrows ==
    ASSUME TreeInv, [Next]_vars, TreeInv'
    PROVE  \/ Known' \subseteq Known
           \/ Known' \subseteq {Genesis}
           \/ \E b \in Hash \ {Genesis} : /\ b \notin Known /\ Prev(b) \in Known
                                          /\ AcceptableBlock(b)
                                          /\ Known' = Known \cup {b}
<1> USE DEF TreeInv
<1>1. ASSUME NEW b \in Hash, InsertBlock(b)
      PROVE  /\ b \in Hash \ {Genesis} /\ b \notin Known /\ Prev(b) \in Known
             /\ AcceptableBlock(b) /\ Known' = Known \cup {b}
  BY <1>1, BlockAssumption DEF InsertBlock, With, Known
<1>2. CASE NewFresh \/ Crash \/ \E b \in Hash : BootFails(b)
  BY <1>2, EmptyTypes DEF NewFresh, Crash, BootFails, Exit, With, Known
<1>3. CASE \E b \in Hash : InsertGenesis(b)
  <2>1. Genesis \notin Known /\ Known' = Known \cup {Genesis}
    BY <1>3 DEF InsertGenesis, With, Known
  <2> QED
    BY <2>1 DEF TreeRooted
<1>4. CASE \E b \in Hash : InsertKnown(b) \/ InsertRefused(b) \/ InsertOrphan(b)
  BY <1>4 DEF InsertKnown, InsertRefused, InsertOrphan, memory, Known
<1>5. CASE NewFromDisk \/ Tick \/ Arrival \/ BootDone \/ UNCHANGED vars
  BY <1>5 DEF NewFromDisk, Tick, Arrival, BootDone, SubmitSolution,
      acceptRemoteBlock, vars, memory, Known
<1>6. CASE ForkChoice \/ NewTip
  BY <1>6 DEF ForkChoice, NewTip, KeepTip, RejectExtension, StartReplay,
      ReplayBlock, ReplayFails, CommitChain, ExtendTip, rejectSubtreeLocked, Restrict,
      memory, Known
<1> QED
  BY <1>1, <1>2, <1>3, <1>4, <1>5, <1>6 DEF Next, LockedStep, Insertion

\* A block joins above its parent.
LEMMA PathsClimbStep ==
    ASSUME TreeInv, PathsClimb, [Next]_vars, TreeInv'
    PROVE  PathsClimb'
<1> USE DEF TreeInv
<1>1. CASE Known' \subseteq Known
  BY <1>1 DEF PathsClimb
<1>2. CASE Known' \subseteq {Genesis}
  <2>1. {Genesis} \in SUBSET Hash /\ ParentClosed({Genesis})
    BY BlockAssumption DEF ParentClosed
  <2>2. Ancestors[Genesis] \subseteq {Genesis}
    BY <2>1, ClosedContainsAncestors
  <2>3. Height(Genesis) \in Nat
    BY BlockAssumption
  <2> QED
    BY <1>2, <2>2, <2>3 DEF PathsClimb
<1>3. ASSUME NEW b \in Hash \ {Genesis}, Prev(b) \in Known, Known' = Known \cup {b}
      PROVE  PathsClimb'
  <2>2. Ancestors[b] = Ancestors[Prev(b)] \cup {b}
    BY ChildAncestors
  <2>3. Height(b) = Height(Prev(b)) + 1
    BY <1>3 DEF TreeRooted
  <2>4. Ancestors[Prev(b)] \subseteq Hash
    BY <1>3, AncestorSelf DEF TypeOK
  <2>5. \A e \in Hash : Height(e) \in Nat
    BY BlockAssumption
  <2>6. Height(Prev(b)) \in Nat
    BY <1>3, <2>5 DEF TypeOK
  <2>7. \A e, f \in Ancestors[b] : /\ Height(e) <= Height(b)
                                   /\ Height(e) = Height(f) => e = f
    BY <1>3, <2>2, <2>3, <2>4, <2>5, <2>6 DEF PathsClimb
  <2> QED
    BY <1>3, <2>7 DEF PathsClimb
<1> QED
  BY <1>1, <1>2, <1>3, TreeGrows

\* The index still fits when neither it nor the tip changes.
LEMMA IndexUnchanged ==
    ASSUME IndexInv, TreeInv', tip' = tip, tip # Nil => chainHeights' = chainHeights
    PROVE  ChainHeightsIndex'
<1>1. CASE tip = Nil
  BY <1>1 DEF ChainHeightsIndex
<1>2. CASE tip # Nil
  <2>1. tip \in Known /\ tip \in Known'
    BY <1>2 DEF IndexInv, TreeInv, ChainSound, StateIsReplay
  <2>2. pathToGenesisLocked(tip)' = pathToGenesisLocked(tip)
    <3>1. pathToGenesisLocked(tip)' = Ancestors[tip] \cap Known'
      BY DEF pathToGenesisLocked
    <3> QED
      BY <2>1, PathStays DEF IndexInv, TreeInv
  <2> QED
    BY <1>2, <2>2 DEF IndexInv, ChainHeightsIndex
<1> QED
  BY <1>1, <1>2

\* The fast path adds the new tip to the index.
LEMMA IndexExtended ==
    ASSUME IndexInv, TreeInv', NEW b \in Hash, ExtendTip(b)
    PROVE  ChainHeightsIndex'
<1> USE DEF IndexInv, TreeInv
<1>1. /\ tip # Nil /\ Prev(b) = tip /\ b \in Known /\ tip \in Known /\ tip \in Hash
      /\ tip' = b /\ chainHeights' = With(chainHeights, Height(b), b) /\ Known' = Known
  BY DEF ExtendTip, IsBest, Extends, ChainSound, StateIsReplay, TypeOK, Known
<1>2. b # Genesis
  BY <1>1, BlockAssumption
<1>3. /\ pathToGenesisLocked(tip) = Ancestors[tip]
      /\ pathToGenesisLocked(b)' = Ancestors[b]
      /\ Ancestors[b] = Ancestors[tip] \cup {b}
  BY <1>1, <1>2, PathComplete, ChildAncestors DEF pathToGenesisLocked
<1>4. Height(b) = Height(tip) + 1 /\ Height(tip) \in Nat
  BY <1>1, <1>2, BlockAssumption DEF TreeRooted
<1>5. \A e \in Ancestors[tip] : Height(e) # Height(b)
  <2>1. \A e \in Ancestors[tip] : Height(e) <= Height(tip) /\ Height(e) \in Nat
    BY <1>1, AncestorSelf, BlockAssumption DEF PathsClimb
  <2> QED
    BY <1>4, <2>1
<1>6. /\ DOMAIN chainHeights' = DOMAIN chainHeights \cup {Height(b)}
      /\ chainHeights'[Height(b)] = b
      /\ \A h \in DOMAIN chainHeights \ {Height(b)} : chainHeights'[h] = chainHeights[h]
  BY <1>1 DEF With
<1> QED
  BY <1>1, <1>3, <1>5, <1>6 DEF ChainHeightsIndex

\* A replay that ends rebuilds the index from its path.
LEMMA IndexRebuilt ==
    ASSUME IndexInv, TreeInv', CommitChain
    PROVE  ChainHeightsIndex'
<1> USE DEF IndexInv, TreeInv
<1> DEFINE new == replay.target
           path == Ancestors[new]
<1>1. new \in Known /\ Known' = Known /\ tip' = new
  BY DEF CommitChain, ReplaySound, Known
<1>2. pathToGenesisLocked(new) = path /\ path \cap Known' = path
  BY <1>1, PathComplete DEF pathToGenesisLocked
<1>3. chainHeights' = HeightIndex(path)
  BY <1>2 DEF CommitChain
<1>4. \A e \in path : (CHOOSE x \in path : Height(x) = Height(e)) = e
  BY <1>1 DEF PathsClimb
<1> HIDE DEF path, new
<1>5. /\ DOMAIN chainHeights' = {Height(e) : e \in path}
      /\ \A e \in path : chainHeights'[Height(e)] = CHOOSE x \in path : Height(x) = Height(e)
  BY <1>3 DEF HeightIndex
<1>6. \A e \in path : chainHeights'[Height(e)] = e
  BY <1>4, <1>5
<1>7. pathToGenesisLocked(tip)' = path
  BY <1>1, <1>2 DEF pathToGenesisLocked, path
<1> QED
  BY <1>5, <1>6, <1>7 DEF ChainHeightsIndex

\* chainHeights indexes exactly the active chain after every switch to a
\* longer, shorter or heavier branch (switchChainLocked, commitChainLocked).
THEOREM HeightIndexExact == Spec => []ChainHeightsIndex
<1>1. Init => IndexInv
  <2>1. SUFFICES ASSUME Init PROVE IndexInv
    OBVIOUS
  <2>2. TreeInv /\ Known = {}
    BY <2>1, InitInv, EmptyTypes DEF Init, Known
  <2> QED
    BY <2>1, <2>2 DEF Init, IndexInv, BootQuiet, PathsClimb, ChainHeightsIndex
<1>2. ASSUME IndexInv, [Next]_vars
      PROVE  IndexInv'
  <2> USE DEF IndexInv
  <2>1. TreeInv' /\ BootQuiet' /\ PathsClimb'
    BY <1>2, NextInv, BootQuietStep, PathsClimbStep
  <2>2. CASE NewFresh \/ Crash \/ \E b \in Hash : BootFails(b)
    <3>1. tip' = Nil
      BY <1>2, <2>2 DEF NewFresh, Crash, BootFails, Exit, TreeInv, DownIsEmpty
    <3> QED
      BY <2>1, <3>1 DEF ChainHeightsIndex
  <2>3. CASE NewFromDisk \/ Tick \/ Arrival \/ BootDone \/ UNCHANGED vars
    BY <1>2, <2>1, <2>3, IndexUnchanged DEF NewFromDisk, Tick, Arrival, BootDone, SubmitSolution,
        acceptRemoteBlock, vars, memory
  <2>4. CASE Insertion
    <3>1. CASE \E b \in Hash : InsertGenesis(b)
      <4>1. tip' = tip /\ Genesis \notin Known
        <5>1. PICK b \in Hash : InsertGenesis(b)
          BY <3>1
        <5> QED
          BY <5>1 DEF InsertGenesis
      <4>2. tip = Nil
        BY <1>2, <4>1 DEF TreeInv, TreeRooted, ChainSound, StateIsReplay
      <4> QED
        BY <2>1, <4>1, <4>2 DEF ChainHeightsIndex
    <3>2. CASE \E b \in Hash : InsertKnown(b) \/ InsertRefused(b) \/ InsertOrphan(b)
                               \/ InsertBlock(b)
      BY <1>2, <2>1, <3>2, IndexUnchanged DEF InsertKnown, InsertRefused, InsertOrphan,
          InsertBlock, memory
    <3> QED
      BY <2>4, <3>1, <3>2 DEF Insertion
  <2>5. CASE ForkChoice
    BY <1>2, <2>1, <2>5, IndexUnchanged DEF ForkChoice, KeepTip, RejectExtension,
        StartReplay, ReplayBlock, ReplayFails, memory
  <2>6. CASE NewTip
    BY <1>2, <2>1, <2>6, IndexExtended, IndexRebuilt DEF NewTip
  <2> QED
    BY <1>2, <2>1, <2>2, <2>3, <2>4, <2>5, <2>6 DEF Next, LockedStep
<1>3. IndexInv => ChainHeightsIndex
  BY DEF IndexInv
<1> QED
  BY <1>1, <1>2, <1>3, PTL DEF Spec
=============================================================================
