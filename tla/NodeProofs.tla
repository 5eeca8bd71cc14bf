----------------------------- MODULE NodeProofs -----------------------------
(***************************************************************************)
(* The rest of the node, for every table of blocks and all parameters: the *)
(* block file, the orphan buffer, and the node with its mempool, which     *)
(* implements the block tree, so that what is proved of the tree holds of  *)
(* it, and whose mempool always applies.                                   *)
(*                                                                         *)
(* The file is proved sound while it works (no StoreFaults); what a failed *)
(* append does to the next boot is a matter of the runs.  The argument is  *)
(* that the file is a history: every line was acceptable when its parent   *)
(* was in the tree, the checks of insertBlockLocked depend on nothing but  *)
(* the ancestors and the clock, and both only grow.                        *)
(***************************************************************************)
EXTENDS Node, LedgerProofs, SequenceTheorems

(***************************************************************************)
(* The block file.                                                         *)
(***************************************************************************)

\* The checks of a block on its complete chain.
PassesChecks(b) ==
    LET parent == Block[Prev(b)]
        anchor == {Block[a] : a \in {x \in Ancestors[Prev(b)] :
                       /\ BlocksPerRetarget # 0
                       /\ (Height(Prev(b)) + 1) % BlocksPerRetarget = 0
                       /\ Height(x) = Height(Prev(b)) + 1 - BlocksPerRetarget}}
    IN  /\ ValidateBasic(Block[b], parent, now)
        /\ Block[b].difficulty = NextDifficulty(parent, anchor)
        /\ ValidatePoW(Block[b])

\* Line i of the file is a block that passes, after the line of its parent.
LineSound(i) ==
    /\ disk[i] # Genesis /\ PassesChecks(disk[i])
    /\ \E j \in 1 .. i - 1 : disk[j] = Prev(disk[i])

\* The file starts with genesis and has every block once.
FileSound ==
    /\ disk \in Seq(Hash)
    /\ disk # << >> => disk[1] = Genesis
    /\ \A i \in 2 .. Len(disk) : LineSound(i)
    /\ \A i, j \in 1 .. Len(disk) : disk[i] = disk[j] => i = j

\* The number of lines New has inserted.
Loaded == Len(disk) - Len(calls)

\* The tree of a booting node is the part of the file read so far, the calls
\* still to run are the rest.
BootFollowsFile ==
    phase = "booting" =>
        /\ Loaded \in Nat
        /\ Known = {disk[j] : j \in 1 .. Loaded}
        /\ \A i \in 1 .. Len(calls) : calls[i] = Insert(disk[Loaded + i])

\* The file of a running node has what it accepted.
FileHasTree == phase = "up" => Range(disk) = Known \cup rejected

FileInv ==
    /\ TreeInv /\ BootQuiet
    /\ FileSound
    /\ phase # "down" => disk # << >>
    /\ BootFollowsFile
    /\ FileHasTree

\* For a block on top of the tree these are the checks insertBlockLocked makes.
LEMMA ChecksAgree ==
    ASSUME TypeOK, TreeRooted, NEW b \in Hash, Prev(b) \in Known
    PROVE  AcceptableBlock(b) <=> PassesChecks(b)
<1>1. pathToGenesisLocked(Prev(b)) = Ancestors[Prev(b)]
  BY PathComplete
<1> QED
  BY <1>1 DEF AcceptableBlock, PassesChecks, anchorLocked

\* Time does not invalidate a block.
LEMMA ChecksStay ==
    ASSUME NEW b \in Hash, PassesChecks(b), now \in Nat, now' \in Nat, now' >= now
    PROVE  PassesChecks(b)'
<1>1. Block[b].time \in Int /\ MaxFutureTime \in Nat
  BY BlockAssumption, ChainAssumption
<1>2. ValidateBasic(Block[b], Block[Prev(b)], now)
  BY DEF PassesChecks
<1>3. ValidateBasic(Block[b], Block[Prev(b)], now')
  BY <1>1, <1>2 DEF ValidateBasic
<1> QED
  BY <1>3 DEF PassesChecks

\* No step turns the clock back.
LEMMA ClockForward ==
    ASSUME TypeOK, [Next]_vars, TypeOK'
    PROVE  now \in Nat /\ now' \in Nat /\ now' >= now
<1>1. now \in Nat /\ now' \in Nat
  <2>1. MaxTime \in Nat
    BY BlockAssumption
  <2>2. now \in 0 .. MaxTime /\ now' \in 0 .. MaxTime
    BY DEF TypeOK
  <2> QED
    BY <2>1, <2>2
<1>2. now' = now \/ now' = now + 1
  BY DEF Next, LockedStep, NewFresh, NewFromDisk, Crash, Tick, Arrival, SubmitSolution,
      acceptRemoteBlock, BootDone, BootFails, Insertion, InsertKnown, InsertRefused,
      InsertGenesis, InsertOrphan, InsertBlock, ForkChoice, KeepTip, RejectExtension,
      StartReplay, ReplayBlock, ReplayFails, NewTip, CommitChain, ExtendTip, vars
<1> QED
  BY <1>1, <1>2

\* A step that leaves the file alone leaves it sound.
LEMMA FileUnchanged ==
    ASSUME TypeOK, [Next]_vars, TypeOK', FileSound, disk' = disk
    PROVE  FileSound'
<1>1. now \in Nat /\ now' \in Nat /\ now' >= now
  BY ClockForward
<1>2. ASSUME NEW i \in 2 .. Len(disk) PROVE LineSound(i)'
  <2>1. disk[i] \in Hash /\ PassesChecks(disk[i])
    BY <1>2 DEF FileSound, LineSound
  <2>2. PassesChecks(disk[i])'
    <3>1. \A b \in Hash : PassesChecks(b) => PassesChecks(b)'
      BY <1>1, ChecksStay
    <3> QED
      BY <2>1, <3>1 DEF PassesChecks
  <2> QED
    BY <1>2, <2>2 DEF FileSound, LineSound
<1> QED
  BY <1>2 DEF FileSound

\* A block that insertBlockLocked accepts makes a sound line.
LEMMA FileAppended ==
    ASSUME TypeOK, TreeRooted, FileSound, NEW b \in Hash,
           b \notin Range(disk), b # Genesis, PassesChecks(b),
           Prev(b) \in Range(disk), disk' = Append(disk, b), now' = now
    PROVE  FileSound' /\ Range(disk)' = Range(disk) \cup {b} /\ disk' # << >>
<1>1. /\ disk \in Seq(Hash) /\ Len(disk) \in Nat /\ DOMAIN disk = 1 .. Len(disk)
      /\ disk' \in Seq(Hash) /\ Len(disk') = Len(disk) + 1 /\ DOMAIN disk' = 1 .. Len(disk')
      /\ disk'[Len(disk) + 1] = b
      /\ \A i \in 1 .. Len(disk) : disk'[i] = disk[i]
  BY DEF FileSound
<1>2. PICK k \in 1 .. Len(disk) : disk[k] = Prev(b)
  BY <1>1 DEF Range
<1>3. disk' # << >> /\ disk'[1] = Genesis
  BY <1>1, <1>2 DEF FileSound
<1>4. \A c : PassesChecks(c)' <=> PassesChecks(c)
  BY DEF PassesChecks
<1>5. ASSUME NEW i \in 2 .. Len(disk') PROVE LineSound(i)'
  <2>1. CASE i = Len(disk) + 1
    <3>1. disk'[k] = Prev(disk'[i]) /\ k \in 1 .. i - 1
      BY <1>1, <1>2, <2>1
    <3>2. disk'[i] # Genesis /\ PassesChecks(disk'[i])
      BY <1>1, <2>1
    <3> QED
      BY <3>1, <3>2 DEF LineSound, PassesChecks
  <2>2. CASE i \in 2 .. Len(disk)
    <3>1. LineSound(i)
      BY <2>2 DEF FileSound
    <3>2. PICK j \in 1 .. i - 1 : disk[j] = Prev(disk[i])
      BY <3>1 DEF LineSound
    <3>3. disk'[i] = disk[i] /\ disk'[j] = disk[j]
      BY <1>1, <2>2
    <3> QED
      BY <1>4, <3>1, <3>2, <3>3 DEF LineSound, PassesChecks
  <2> QED
    BY <1>1, <1>5, <2>1, <2>2
<1>6. \A i, j \in 1 .. Len(disk') : disk'[i] = disk'[j] => i = j
  <2>1. \A i \in 1 .. Len(disk) : disk[i] # b
    BY <1>1 DEF Range
  <2> QED
    BY <1>1, <2>1 DEF FileSound
<1>7. Range(disk)' = Range(disk) \cup {b}
  BY <1>1 DEF Range
<1> QED
  BY <1>1, <1>3, <1>5, <1>6, <1>7 DEF FileSound

\* New accepts the next line.
LEMMA NextLine ==
    ASSUME FileInv, phase = "booting", calls # << >>
    PROVE  LET b == Head(calls).b
           IN  /\ b = disk[Loaded + 1] /\ b \in Hash \ Known /\ Loaded \in Nat
               /\ IF Loaded = 0 THEN b = Genesis
                  ELSE b # Genesis /\ Prev(b) \in Known /\ PassesChecks(b)
<1> DEFINE b == Head(calls).b
           n == Loaded + 1
<1>1. /\ calls \in Seq(Frames) /\ disk \in Seq(Hash)
      /\ Len(calls) \in Nat \ {0} /\ Len(disk) \in Nat /\ Loaded \in Nat
      /\ Head(calls) = calls[1] /\ calls[1] = Insert(disk[n])
  <2>1. calls \in Seq(Frames) /\ disk \in Seq(Hash) /\ Loaded \in Nat
    BY DEF FileInv, TreeInv, TypeOK, FileSound, BootFollowsFile
  <2>2. Len(calls) \in Nat \ {0} /\ Len(disk) \in Nat /\ Head(calls) = calls[1]
    BY <2>1
  <2>3. 1 \in 1 .. Len(calls)
    BY <2>2
  <2>4. calls[1] = Insert(disk[n])
    BY <2>3 DEF FileInv, BootFollowsFile
  <2> QED
    BY <2>1, <2>2, <2>4
<1>2. n \in 1 .. Len(disk) /\ Loaded = n - 1
  BY <1>1 DEF Loaded
<1>3. b = disk[n] /\ b \in Hash
  BY <1>1, <1>2 DEF Insert
<1>4. Known = {disk[j] : j \in 1 .. n - 1}
  BY <1>2 DEF FileInv, BootFollowsFile
<1> HIDE DEF n, b
<1>5. b \notin Known
  BY <1>2, <1>3, <1>4 DEF FileInv, FileSound
<1>6. CASE n = 1
  BY <1>1, <1>2, <1>3, <1>5, <1>6 DEF FileInv, FileSound, n, b
<1>7. CASE n # 1
  <2>1. LineSound(n)
    BY <1>1, <1>2, <1>7 DEF FileInv, FileSound
  <2>2. b # Genesis /\ PassesChecks(b) /\ Prev(b) \in Known
    BY <1>3, <1>4, <2>1 DEF LineSound
  <2> QED
    BY <1>1, <1>2, <1>3, <1>5, <1>7, <2>2 DEF n, b
<1> QED
  BY <1>6, <1>7

\* A boot that inserts a line follows the file.
LEMMA BootAdvances ==
    ASSUME FileInv, phase = "booting", calls # << >>, phase' = phase, disk' = disk,
           calls' = Tail(calls), Known' = Known \cup {Head(calls).b}
    PROVE  BootFollowsFile'
<1>1. /\ Head(calls).b = disk[Loaded + 1] /\ Loaded \in Nat
      /\ Known = {disk[j] : j \in 1 .. Loaded}
  BY NextLine DEF FileInv, BootFollowsFile
<1>2. /\ calls \in Seq(Frames) /\ Len(disk) \in Nat
      /\ Len(calls) \in Nat /\ Len(calls') = Len(calls) - 1
      /\ \A i \in 1 .. Len(calls') : calls'[i] = calls[i + 1] /\ i + 1 \in 1 .. Len(calls)
  BY DEF FileInv, TreeInv, TypeOK
<1>3. Loaded' = Loaded + 1
  BY <1>2 DEF Loaded
<1>4. Known' = {disk[j] : j \in 1 .. Loaded + 1}
  BY <1>1
<1>5. ASSUME NEW i \in 1 .. Len(calls') PROVE calls'[i] = Insert(disk[Loaded + 1 + i])
  <2>1. calls'[i] = Insert(disk[Loaded + (i + 1)])
    BY <1>2 DEF FileInv, BootFollowsFile
  <2>2. Loaded + (i + 1) = Loaded + 1 + i
    BY <1>1, <1>2
  <2> QED
    BY <2>1, <2>2
<1>6. Loaded' \in Nat
  BY <1>1, <1>3
<1>7. \A i \in 1 .. Len(calls') : calls'[i] = Insert(disk'[Loaded' + i])
  BY <1>3, <1>5
<1>8. Known' = {disk'[j] : j \in 1 .. Loaded'}
  BY <1>3, <1>4
<1> QED
  BY <1>6, <1>7, <1>8 DEF BootFollowsFile

\* Every step keeps the file a sound history of the tree.
LEMMA FileStep ==
    ASSUME StoreFaults = {}, FileInv, [Next]_vars
    PROVE  FileInv'
<1> USE DEF FileInv
<1>0. TreeInv' /\ BootQuiet' /\ TypeOK /\ TypeOK' /\ TreeRooted
  BY NextInv, BootQuietStep DEF TreeInv
<1>a. disk' = disk => FileSound'
  BY <1>0, FileUnchanged
<1>1. CASE NewFresh
  <2>1. disk' = <<Genesis>> /\ phase' = "booting" /\ calls' = << >> /\ Known' = {Genesis}
    BY <1>0, <1>1, EmptyTypes
       DEF NewFresh, AppendBlock, TreeInv, DownIsEmpty, With, Known
  <2>2. /\ Genesis \in Hash /\ disk' \in Seq(Hash) /\ Len(disk') = 1 /\ Len(calls') = 0
        /\ disk'[1] = Genesis
    BY <2>1, BlockAssumption
  <2>3. FileSound'
    BY <2>2 DEF FileSound
  <2>4. BootFollowsFile'
    BY <2>1, <2>2 DEF BootFollowsFile, Loaded
  <2> QED
    BY <1>0, <2>1, <2>3, <2>4 DEF FileHasTree
<1>2. CASE NewFromDisk
  <2>1. /\ disk' = disk /\ disk # << >> /\ phase' = "booting" /\ Known = {} /\ Known' = {}
        /\ calls' = [i \in DOMAIN disk |-> Insert(disk[i])]
    BY <1>0, <1>2, EmptyTypes DEF NewFromDisk, memory, TreeInv, DownIsEmpty, Known
  <2>2. disk \in Seq(Hash) /\ Len(calls') = Len(disk) /\ Len(disk) \in Nat
    BY <2>1 DEF FileSound
  <2>3. Loaded' = 0
    BY <2>1, <2>2 DEF Loaded
  <2>4. \A i \in 1 .. Len(calls') : calls'[i] = Insert(disk'[0 + i])
    BY <2>1, <2>2
  <2>5. BootFollowsFile'
    BY <2>1, <2>3, <2>4 DEF BootFollowsFile
  <2> QED
    BY <1>0, <1>a, <2>1, <2>5 DEF FileHasTree
<1>3. CASE Crash \/ \E b \in Hash : BootFails(b)
  BY <1>0, <1>a, <1>3 DEF Crash, BootFails, Exit, BootFollowsFile, FileHasTree
<1>4. CASE Tick \/ Arrival \/ UNCHANGED vars
  <2>1. /\ UNCHANGED <<phase, disk, blocks, rejected>>
        /\ phase = "booting" => calls' = calls
    BY <1>4 DEF Tick, Arrival, SubmitSolution, acceptRemoteBlock, vars, memory
  <2>2. BootFollowsFile' /\ FileHasTree'
    BY <2>1 DEF BootFollowsFile, FileHasTree, Known, Loaded
  <2> QED
    BY <1>0, <1>a, <2>1, <2>2
<1>5. CASE BootDone
  <2>1. /\ phase = "booting" /\ phase' = "up" /\ disk' = disk /\ rejected' = {} /\ Known' = Known
        /\ calls = << >>
    BY <1>5 DEF BootDone, LockFree, memory, BootQuiet, Known
  <2>2. disk \in Seq(Hash) /\ Loaded = Len(disk)
    BY <2>1 DEF FileSound, Loaded
  <2>3. Known = Range(disk)
    BY <2>1, <2>2 DEF BootFollowsFile, Range
  <2> QED
    BY <1>0, <1>a, <2>1, <2>3 DEF BootFollowsFile, FileHasTree
<1>6. ASSUME NEW b \in Hash, phase = "booting",
             InsertKnown(b) \/ InsertGenesis(b) \/ InsertBlock(b)
      PROVE  FileInv'
  <2>1. calls # << >> /\ b = Head(calls).b /\ phase' = phase /\ disk' = disk
    BY <1>6 DEF InsertKnown, InsertGenesis, InsertBlock, Inserting, Running
  <2>2. b \notin Known
    BY <1>6, <2>1, NextLine
  <2>3. Known' = Known \cup {b}
    BY <1>6, <2>2 DEF InsertKnown, InsertGenesis, InsertBlock, With, Known
  <2>4. calls' = Tail(calls)
    <3>1. CASE InsertKnown(b) \/ InsertGenesis(b)
      BY <3>1 DEF InsertKnown, InsertGenesis, Return
    <3>2. CASE InsertBlock(b)
      <4>1. promoteOrphansLocked(b) = << >>
        BY <1>6 DEF promoteOrphansLocked, BootQuiet, NoOrphans
      <4>2. Tail(calls) \in Seq(Frames)
        BY <1>0, <2>1, FrameTypes
      <4> QED
        BY <1>6, <3>2, <4>1, <4>2 DEF InsertBlock
    <3> QED
      BY <1>6, <3>1, <3>2
  <2>5. BootFollowsFile'
    BY <1>6, <2>1, <2>3, <2>4, BootAdvances
  <2> QED
    BY <1>0, <1>a, <1>6, <2>1, <2>5 DEF FileHasTree
<1>7. ASSUME NEW b \in Hash, phase = "up", InsertGenesis(b)
      PROVE  FALSE
  <2>1. disk \in Seq(Hash) /\ disk # << >> /\ disk[1] = Genesis
    BY <1>7 DEF FileSound
  <2>2. Genesis \in Range(disk)
    BY <2>1 DEF Range
  <2> QED
    BY <1>7, <2>2 DEF FileHasTree, InsertGenesis
<1>8. ASSUME NEW b \in Hash, phase = "up", InsertBlock(b)
      PROVE  FileInv'
  <2>1. /\ b \notin Known \cup rejected /\ Prev(b) \in Known /\ b # Genesis /\ PassesChecks(b)
        /\ disk' = Append(disk, b) /\ phase' = phase /\ rejected' = rejected /\ now' = now
        /\ Known' = Known \cup {b}
    BY <1>0, <1>8, ChecksAgree, BlockAssumption DEF InsertBlock, AppendBlock, With, Known
  <2>2. b \notin Range(disk) /\ Prev(b) \in Range(disk)
    BY <1>8, <2>1 DEF FileHasTree
  <2>3. FileSound' /\ Range(disk)' = Range(disk) \cup {b} /\ disk' # << >>
    BY <1>0, <2>1, <2>2, FileAppended
  <2>4. FileHasTree' /\ BootFollowsFile'
    BY <1>8, <2>1, <2>3 DEF FileHasTree, BootFollowsFile
  <2> QED
    BY <1>0, <2>3, <2>4
<1>9. ASSUME disk' = disk, phase = "up", phase' = phase, Known' \cup rejected' = Known \cup rejected
      PROVE  FileInv'
  BY <1>0, <1>a, <1>9 DEF BootFollowsFile, FileHasTree
<1>10. CASE Insertion
  <2>1. PICK b \in Hash : InsertKnown(b) \/ InsertRefused(b) \/ InsertGenesis(b)
                          \/ InsertOrphan(b) \/ InsertBlock(b)
    BY <1>10 DEF Insertion
  <2>2. phase \in {"booting", "up"}
    BY <1>0, <2>1 DEF InsertKnown, InsertRefused, InsertGenesis, InsertOrphan, InsertBlock,
        Inserting, Running, TreeInv, DownIsEmpty, TypeOK
  <2>3. CASE InsertKnown(b) \/ InsertRefused(b) \/ InsertOrphan(b)
    BY <1>6, <1>9, <2>2, <2>3 DEF InsertKnown, InsertRefused, InsertOrphan, memory, Known
  <2>4. CASE InsertGenesis(b)
    BY <1>6, <1>7, <2>2, <2>4
  <2>5. CASE InsertBlock(b)
    BY <1>6, <1>8, <2>2, <2>5
  <2> QED
    BY <2>1, <2>3, <2>4, <2>5
<1>11. CASE ForkChoice \/ NewTip
  <2>1. disk' = disk /\ phase' = phase
    BY <1>11 DEF ForkChoice, NewTip, KeepTip, RejectExtension, StartReplay, ReplayBlock,
        ReplayFails, CommitChain, ExtendTip
  <2>2. replay # Nil \/ Running("select")
    BY <1>11 DEF ForkChoice, NewTip, KeepTip, RejectExtension, StartReplay, ReplayBlock,
        ReplayFails, CommitChain, ExtendTip, Replaying
  <2>3. Running("select") => 1 \in DOMAIN calls /\ calls[1].op = "select"
    BY <1>0, TailFrames DEF Running, TypeOK
  <2>4. phase = "up"
    BY <1>0, <2>2, <2>3 DEF BootQuiet, TreeInv, DownIsEmpty, TypeOK, Running
  <2>5. Known' \cup rejected' = Known \cup rejected
    <3>1. ASSUME NEW b, rejectSubtreeLocked(b)
          PROVE  Known' \cup rejected' = Known \cup rejected
      BY <3>1 DEF rejectSubtreeLocked, Restrict, Known, Subtree
    <3> QED
      BY <1>11, <3>1 DEF ForkChoice, NewTip, KeepTip, RejectExtension, StartReplay, ReplayBlock,
         ReplayFails, CommitChain, ExtendTip, memory, Known
  <2> QED
    BY <1>9, <2>1, <2>4, <2>5
<1> QED
  BY <1>1, <1>2, <1>3, <1>4, <1>5, <1>10, <1>11 DEF Next, LockedStep

\* The file is a sound history of the tree in every reachable state.
LEMMA FileInvariant ==
    ASSUME StoreFaults = {}
    PROVE  Spec => []FileInv
<1>1. Init => FileInv
  <2>1. SUFFICES ASSUME Init PROVE FileInv
    OBVIOUS
  <2> QED
    BY <2>1, InitInv DEF Init, FileInv, BootQuiet, FileSound, BootFollowsFile, FileHasTree
<1>2. FileInv /\ [Next]_vars => FileInv'
  BY FileStep
<1> QED
  BY <1>1, <1>2, PTL DEF Spec

\* A file that has every block once is as long as its set of blocks is large.
LEMMA LinesCount ==
    ASSUME FileSound
    PROVE  Len(disk) = Cardinality(Range(disk))
<1> DEFINE n == Len(disk)
<1>1. n \in Nat /\ disk \in Seq(Hash) /\ DOMAIN disk = 1 .. n
  BY DEF FileSound
<1>2. disk \in [1 .. n -> Range(disk)]
  BY <1>1 DEF Range
<1>3. disk \in Bijection(1 .. n, Range(disk))
  BY <1>1, <1>2 DEF FileSound, Range, Bijection, Injection, Surjection, IsInjective
<1>4. IsFiniteSet(1 .. n) /\ Cardinality(1 .. n) = n
  BY <1>1, FS_Interval
<1>5. ExistsBijection(1 .. n, Range(disk))
  BY <1>3 DEF ExistsBijection
<1> QED
  BY <1>4, <1>5, FS_Bijection

\* While the file works it holds exactly the blocks the running node has
\* accepted, once each (insertBlockLocked, AppendBlock).
THEOREM FileHoldsTree ==
    ASSUME StoreFaults = {}
    PROVE  Spec => []DiskHoldsTree
<1>1. FileInv => DiskHoldsTree
  BY LinesCount DEF FileInv, FileHasTree, DiskHoldsTree
<1> QED
  BY <1>1, FileInvariant, PTL

\* While the file works New accepts every line of it, whenever the process
\* stopped or crashed (New, insertBlockLocked with fromDisk).
THEOREM RestartSucceeds ==
    ASSUME StoreFaults = {}
    PROVE  Spec => []BootAccepts
<1>1. FileInv => BootAccepts
  <2>1. SUFFICES ASSUME FileInv, phase = "booting", NEW b \in Hash, Inserting(b)
                 PROVE  b = Genesis \/ (b \notin Known /\ Prev(b) \in Known /\ AcceptableBlock(b))
    BY DEF BootAccepts
  <2>2. calls # << >> /\ b = Head(calls).b
    BY <2>1 DEF Inserting, Running
  <2> QED
    BY <2>1, <2>2, NextLine, ChecksAgree DEF FileInv, TreeInv
<1> QED
  BY <1>1, FileInvariant, PTL

-----------------------------------------------------------------------------
(***************************************************************************)
(* The orphan buffer, whatever happens to the file.                        *)
(***************************************************************************)

\* The buffer as OrphanTotal counts it.
Total(o) == MapThenSumSet(LAMBDA p : Len(o[p]), Hash)

\* Before and after a step.
LEMMA TotalIs == OrphanTotal = Total(orphans) /\ OrphanTotal' = Total(orphans')
BY DEF OrphanTotal, Total, MapThenSumSet, MapThenFoldSet

Lengths(o) == [p \in Hash |-> Len(o[p])]

\* The sum of the lengths of all lists.
LEMMA TotalSums ==
    ASSUME NEW o
    PROVE  \E g : SumsUp(g, Lengths(o), Hash) /\ Total(o) = g[Hash]
<1> DEFINE Rec(g) == [s \in SUBSET Hash |->
                        IF s = {} THEN 0 ELSE Len(o[Pick(s)]) + g[s \ {Pick(s)}]]
           iter == CHOOSE g : g = Rec(g)
<1>1. \A g : SumsUp(g, Lengths(o), Hash) <=> g = Rec(g)
  <2>1. \A s \in SUBSET Hash : s # {} => Pick(s) \in Hash
    BY DEF Pick
  <2>2. \A s \in SUBSET Hash : s # {} => Lengths(o)[Pick(s)] = Len(o[Pick(s)])
    BY <2>1 DEF Lengths
  <2> QED
    BY <2>2 DEF SumsUp
<1>2. IsFiniteSet(Hash)
  BY BlockAssumption
<1>3. \E g : g = Rec(g)
  BY <1>1, <1>2, SumExists
<1>4. Total(o) = iter[Hash]
  BY DEF Total, MapThenSumSet, MapThenFoldSet, Pick
<1> HIDE DEF Rec
<1>5. iter = Rec(iter)
  BY <1>3
<1> QED
  BY <1>1, <1>4, <1>5

\* A change of one list changes the total by as much.
LEMMA TotalChanges ==
    ASSUME NEW o \in [Hash -> Seq(Hash)], NEW p \in Hash, NEW s \in Seq(Hash)
    PROVE  /\ Total(o) \in Nat /\ Total([o EXCEPT ![p] = s]) \in Nat
           /\ Total([o EXCEPT ![p] = s]) + Len(o[p]) = Total(o) + Len(s)
<1> DEFINE u == [o EXCEPT ![p] = s]
<1>1. PICK g : SumsUp(g, Lengths(o), Hash) /\ Total(o) = g[Hash]
  BY TotalSums
<1>2. PICK h : SumsUp(h, Lengths(u), Hash) /\ Total(u) = h[Hash]
  BY TotalSums
<1>3. \A q \in Hash : Lengths(o)[q] \in Nat /\ Lengths(u)[q] \in Nat
  BY DEF Lengths
<1>4. \A q \in Hash \ {p} : Lengths(o)[q] = Lengths(u)[q]
  BY DEF Lengths
<1>5. Lengths(o)[p] = Len(o[p]) /\ Lengths(u)[p] = Len(s)
  BY DEF Lengths
<1>6. IsFiniteSet(Hash)
  BY BlockAssumption
<1> DEFINE f == Lengths(o)
           k == Lengths(u)
<1>7. /\ SumsUp(g, f, Hash) /\ SumsUp(h, k, Hash)
      /\ \A q \in Hash : f[q] \in Nat /\ k[q] \in Nat
      /\ \A q \in Hash \ {p} : f[q] = k[q]
  BY <1>1, <1>2, <1>3, <1>4
<1>8. f[p] = Len(o[p]) /\ k[p] = Len(s)
  BY <1>5
<1> HIDE DEF u, f, k
<1>9. AddsUp(g, f, Hash) /\ AddsUp(h, k, Hash)
  BY <1>6, <1>7, SumAnyFirst
<1>10. /\ g[Hash] = f[p] + g[Hash \ {p}] /\ g[Hash \ {p}] \in Nat
       /\ h[Hash] = k[p] + h[Hash \ {p}]
  BY <1>9 DEF AddsUp
<1>11. g[Hash \ {p}] = h[Hash \ {p}]
  BY <1>6, <1>7, SumsAgree
<1>12. Len(s) \in Nat /\ Len(o[p]) \in Nat
  OBVIOUS
<1> QED
  BY <1>1, <1>2, <1>8, <1>9, <1>10, <1>11, <1>12, SMTT(30) DEF u

\* An empty buffer counts nothing.
LEMMA TotalOfNone == Total(NoOrphans) = 0
<1>1. PICK g : SumsUp(g, Lengths(NoOrphans), Hash) /\ Total(NoOrphans) = g[Hash]
  BY TotalSums
<1> DEFINE G == {T \in SUBSET Hash : g[T] = 0}
<1>2. ASSUME NEW T \in SUBSET Hash, \A U \in SUBSET T : U # T => U \in G
      PROVE  T \in G
  <2>1. CASE T = {}
    BY <1>1, <2>1 DEF SumsUp
  <2>2. CASE T # {}
    <3>1. Pick(T) \in T
      BY <2>2 DEF Pick
    <3>2. g[T \ {Pick(T)}] = 0 /\ Lengths(NoOrphans)[Pick(T)] = 0
      BY <1>2, <3>1 DEF Lengths, NoOrphans
    <3>3. g[T] = Lengths(NoOrphans)[Pick(T)] + g[T \ {Pick(T)}]
      BY <1>1, <2>2 DEF SumsUp
    <3> QED
      BY <3>2, <3>3
  <2> QED
    BY <2>1, <2>2
<1>3. IsFiniteSet(Hash)
  BY BlockAssumption
<1> HIDE DEF G
<1>4. \A T \in SUBSET Hash : T \in G
  BY <1>2, <1>3, SubsetInduction
<1> QED
  BY <1>1, <1>4 DEF G

\* The buffer is in order at every step, also while blocks are promoted.
BufferSound ==
    /\ \A p \in Hash : orphans[p] # << >> => p \notin Known
    /\ \A p \in Hash : \A i, j \in DOMAIN orphans[p] :
          /\ Prev(orphans[p][i]) = p
          /\ orphans[p][i] = orphans[p][j] => i = j
    /\ OrphanTotal <= MaxOrphans

\* Genesis is the first line of the file, the first block of a boot and in the
\* tree of every running node.
GenesisFirst ==
    /\ disk # << >> => disk[1] \in {Genesis, Torn}
    /\ phase # "down" => disk # << >>
    /\ phase = "booting" /\ Known = {} => calls # << >> /\ Head(calls) = Insert(Genesis)
    /\ phase = "up" => Genesis \in Known

BufferInv == TreeInv /\ BootQuiet /\ GenesisFirst /\ BufferSound

\* Genesis stays when the subtree of another block is rejected.
LEMMA GenesisStays ==
    ASSUME TreeInv, NEW b \in Known \ {Genesis}, rejectSubtreeLocked(b), Genesis \in Known
    PROVE  Genesis \in Known'
<1>1. {Genesis} \in SUBSET Hash /\ ParentClosed({Genesis})
  BY BlockAssumption DEF ParentClosed
<1>2. Ancestors[Genesis] \subseteq {Genesis}
  BY <1>1, ClosedContainsAncestors
<1> QED
  BY <1>2 DEF rejectSubtreeLocked, Restrict, Known, Subtree, pathToGenesisLocked

\* Whatever AddBlock leaves in the file, its first line stays.
LEMMA FirstLineStays ==
    ASSUME TypeOK, disk # << >>, NEW b \in Hash, AppendBlock(b)
    PROVE  disk' # << >> /\ disk'[1] = disk[1]
<1> DEFINE Line == Hash \cup {Torn}
<1>1. disk \in Seq(Line) /\ b \in Line /\ Torn \in Line
  BY DEF TypeOK
<1> HIDE DEF Line
<1>2. \A x \in Line : Append(disk, x) # << >> /\ Append(disk, x)[1] = disk[1]
  BY <1>1
<1>3. disk' = disk \/ \E x \in Line : disk' = Append(disk, x)
  BY <1>1 DEF AppendBlock
<1> QED
  BY <1>2, <1>3

\* Every step keeps genesis first.
LEMMA GenesisFirstStep ==
    ASSUME TreeInv, BootQuiet, GenesisFirst, [Next]_vars, TreeInv'
    PROVE  GenesisFirst'
<1> USE DEF TreeInv
<1>1. CASE NewFresh
  <2>1. blocks = EmptyMap /\ disk = << >>
    BY <1>1 DEF NewFresh, DownIsEmpty
  <2>2. disk' \in {<<Genesis>>, <<Torn>>, << >>}
    <3>1. disk' \in {Append(disk, Genesis), Append(disk, Torn), disk}
      BY <1>1 DEF NewFresh, AppendBlock
    <3>2. Append(<< >>, Genesis) = <<Genesis>> /\ Append(<< >>, Torn) = <<Torn>>
      OBVIOUS
    <3> QED
      BY <2>1, <3>1, <3>2
  <2>3. CASE disk' = <<Genesis>>
    BY <1>1, <2>3, EmptyTypes DEF NewFresh, GenesisFirst, With, Known
  <2>4. CASE disk' # <<Genesis>>
    BY <1>1, <2>2, <2>4 DEF NewFresh, GenesisFirst
  <2> QED
    BY <2>3, <2>4
<1>2. CASE NewFromDisk
  <2> DEFINE Line == Hash \cup {Torn}
  <2>1. disk \in Seq(Line) /\ disk # << >>
    BY <1>2 DEF NewFromDisk, TypeOK
  <2> HIDE DEF Line
  <2>2. 1 \in DOMAIN disk /\ DOMAIN disk = 1 .. Len(disk) /\ Len(disk) \in Nat
    BY <2>1
  <2>3. disk[1] = Genesis
    BY <1>2, <2>1, <2>2 DEF NewFromDisk, LoadBlocks, GenesisFirst, Range
  <2>4. calls' = [i \in 1 .. Len(disk) |-> Insert(disk[i])]
    BY <1>2, <2>2 DEF NewFromDisk
  <2>5. calls' # << >> /\ Head(calls') = calls'[1]
    BY <2>2, <2>4
  <2>6. calls'[1] = Insert(Genesis)
    BY <2>2, <2>3, <2>4
  <2> QED
    BY <1>2, <2>5, <2>6 DEF NewFromDisk, GenesisFirst
<1>3. CASE Crash \/ \E b \in Hash : BootFails(b)
  BY <1>3 DEF Crash, BootFails, Exit, GenesisFirst
<1>4. CASE Tick \/ Arrival \/ UNCHANGED vars
  BY <1>4 DEF Tick, Arrival, SubmitSolution, acceptRemoteBlock, vars, memory, GenesisFirst, Known
<1>5. CASE BootDone
  BY <1>5 DEF BootDone, LockFree, memory, GenesisFirst, TreeRooted, Known
<1>6. ASSUME NEW b \in Hash, InsertKnown(b) \/ InsertRefused(b) \/ InsertOrphan(b)
      PROVE  GenesisFirst'
  BY <1>6 DEF InsertKnown, InsertRefused, InsertOrphan, memory, GenesisFirst, Known,
      Inserting, Running
<1>7. ASSUME NEW b \in Hash, InsertGenesis(b)
      PROVE  GenesisFirst'
  BY <1>7 DEF InsertGenesis, GenesisFirst, Known, With
<1>8. ASSUME NEW b \in Hash, InsertBlock(b)
      PROVE  GenesisFirst'
  <2>1. Genesis \in Known /\ Known' = Known \cup {b} /\ phase' = phase /\ phase # "down"
    BY <1>8 DEF InsertBlock, With, Known, TreeRooted, Inserting, Running, DownIsEmpty
  <2>2. disk' = disk \/ AppendBlock(b)
    BY <1>8 DEF InsertBlock
  <2>3. disk' # << >> /\ disk'[1] = disk[1]
    BY <2>1, <2>2, FirstLineStays DEF GenesisFirst
  <2> QED
    BY <2>1, <2>3 DEF GenesisFirst
<1>9. ASSUME NEW b \in Hash, RejectExtension(b) \/ ReplayFails(b)
      PROVE  GenesisFirst'
  <2>1. b \in Known \ {Genesis} /\ rejectSubtreeLocked(b) /\ disk' = disk /\ phase' = phase
    BY <1>9, ReplayingFacts, BlockAssumption
       DEF RejectExtension, ReplayFails, IsBest, Extends, TypeOK
  <2>2. phase = "up"
    <3>1. replay # Nil \/ Running("select")
      BY <1>9 DEF RejectExtension, ReplayFails, Replaying
    <3>2. Running("select") => 1 \in DOMAIN calls /\ calls[1].op = "select"
      BY TailFrames DEF Running, TypeOK
    <3> QED
      BY <3>1, <3>2 DEF BootQuiet, DownIsEmpty, TypeOK, Running
  <2>3. Genesis \in Known'
    BY <2>1, <2>2, GenesisStays DEF GenesisFirst
  <2> QED
    BY <2>1, <2>2, <2>3 DEF GenesisFirst
<1>10. CASE KeepTip \/ NewTip \/ \E b \in Hash : StartReplay(b) \/ ReplayBlock(b)
  <2>1. UNCHANGED <<disk, phase, blocks>>
    BY <1>10 DEF NewTip, KeepTip, StartReplay, ReplayBlock, CommitChain, ExtendTip, memory
  <2>2. replay # Nil \/ Running("select")
    BY <1>10 DEF NewTip, KeepTip, StartReplay, ReplayBlock, CommitChain, ExtendTip, Replaying
  <2>3. Running("select") => 1 \in DOMAIN calls /\ calls[1].op = "select"
    BY TailFrames DEF Running, TypeOK
  <2>4. phase = "up"
    BY <2>2, <2>3 DEF BootQuiet, DownIsEmpty, TypeOK, Running
  <2> QED
    BY <2>1, <2>4 DEF GenesisFirst, Known
<1> QED
  BY <1>1, <1>2, <1>3, <1>4, <1>5, <1>6, <1>7, <1>8, <1>9, <1>10
     DEF Next, LockedStep, Insertion, ForkChoice

\* The buffer stays in order when it is left alone and no block joins the tree.
LEMMA BufferUnchanged ==
    ASSUME BufferSound, orphans' = orphans, Known' \subseteq Known
    PROVE  BufferSound'
BY TotalIs DEF BufferSound

\* An empty buffer is in order.
LEMMA BufferEmpty ==
    ASSUME orphans = NoOrphans
    PROVE  BufferSound
<1>1. MaxOrphans \in Nat
  BY BlockAssumption
<1>2. OrphanTotal = 0
  BY TotalIs, TotalOfNone
<1> QED
  BY <1>1, <1>2 DEF BufferSound, NoOrphans

\* An orphan is appended to the list of its parent.
LEMMA BufferGrows ==
    ASSUME TypeOK, BufferSound, NEW b \in Hash, InsertOrphan(b)
    PROVE  BufferSound'
<1>1. Known' = Known /\ b # Genesis /\ Prev(b) \in Hash /\ Prev(b) \notin Known
  BY BlockAssumption DEF InsertOrphan, IsOrphan, Known
<1>2. CASE orphans' = orphans
  BY <1>1, <1>2, BufferUnchanged
<1>3. CASE orphans' # orphans
  <2> DEFINE q == Prev(b)
             new == Append(orphans[q], b)
  <2>1. b \notin Buffered /\ ~(OrphanTotal >= MaxOrphans) /\ orphans' = [orphans EXCEPT ![q] = new]
    BY <1>3 DEF InsertOrphan, addOrphanLocked
  <2>2. /\ orphans \in [Hash -> Seq(Hash)] /\ orphans[q] \in Seq(Hash) /\ new \in Seq(Hash)
        /\ Len(orphans[q]) \in Nat /\ Len(new) = Len(orphans[q]) + 1
        /\ DOMAIN orphans[q] = 1 .. Len(orphans[q]) /\ DOMAIN new = 1 .. Len(orphans[q]) + 1
        /\ new[Len(orphans[q]) + 1] = b
        /\ \A i \in 1 .. Len(orphans[q]) : new[i] = orphans[q][i]
    BY <1>1 DEF TypeOK
  <2>3. \A i \in DOMAIN orphans[q] : orphans[q][i] # b
    BY <1>1, <2>1 DEF Buffered, Range
  <2>4. \A p \in Hash : orphans'[p] = IF p = q THEN new ELSE orphans[p]
    BY <2>1, <2>2
  <2>5. \A i, j \in DOMAIN new : Prev(new[i]) = q /\ (new[i] = new[j] => i = j)
    <3> DEFINE n == Len(orphans[q])
               old == orphans[q]
    <3>1. \A i, j \in DOMAIN old : Prev(old[i]) = q /\ (old[i] = old[j] => i = j)
      BY <1>1 DEF BufferSound
    <3>2. /\ n \in Nat /\ DOMAIN old = 1 .. n /\ DOMAIN new = 1 .. n + 1 /\ new[n + 1] = b
          /\ \A i \in 1 .. n : new[i] = old[i] /\ old[i] # b
      BY <2>2, <2>3
    <3> HIDE DEF new, n, old
    <3> QED
      BY <3>1, <3>2
  <2>6. OrphanTotal' <= MaxOrphans
    <3>1. /\ Total(orphans) \in Nat /\ Total([orphans EXCEPT ![q] = new]) \in Nat
          /\ Total([orphans EXCEPT ![q] = new]) + Len(orphans[q]) = Total(orphans) + Len(new)
      BY <1>1, <2>2, TotalChanges
    <3>2. OrphanTotal = Total(orphans) /\ OrphanTotal' = Total([orphans EXCEPT ![q] = new])
      BY <2>1, TotalIs
    <3>3. MaxOrphans \in Nat
      BY BlockAssumption
    <3> HIDE DEF new
    <3> QED
      BY <2>1, <2>2, <3>1, <3>2, <3>3
  <2> HIDE DEF new, q
  <2>7. \A p \in Hash : \A i, j \in DOMAIN orphans'[p] :
            Prev(orphans'[p][i]) = p /\ (orphans'[p][i] = orphans'[p][j] => i = j)
    BY <2>4, <2>5 DEF BufferSound
  <2>8. \A p \in Hash : orphans'[p] # << >> => p \notin Known'
    BY <1>1, <2>4 DEF BufferSound, q
  <2> QED
    BY <2>6, <2>7, <2>8 DEF BufferSound
<1> QED
  BY <1>2, <1>3

\* A block takes its list out of the buffer when it joins the tree.
LEMMA BufferShrinks ==
    ASSUME TypeOK, BufferSound, NEW b \in Hash, InsertBlock(b)
    PROVE  BufferSound'
<1>1. /\ orphans \in [Hash -> Seq(Hash)] /\ << >> \in Seq(Hash)
      /\ orphans' = [orphans EXCEPT ![b] = << >>]
      /\ Known' = Known \cup {b}
  BY DEF TypeOK, InsertBlock, With, Known
<1>2. \A p \in Hash : orphans'[p] = IF p = b THEN << >> ELSE orphans[p]
  BY <1>1
<1>3. OrphanTotal' <= MaxOrphans
  <2>1. /\ Total(orphans) \in Nat /\ Total([orphans EXCEPT ![b] = << >>]) \in Nat
        /\ Total([orphans EXCEPT ![b] = << >>]) + Len(orphans[b]) = Total(orphans) + Len(<< >>)
    BY <1>1, TotalChanges
  <2>2. OrphanTotal = Total(orphans) /\ OrphanTotal' = Total([orphans EXCEPT ![b] = << >>])
    BY <1>1, TotalIs
  <2>3. MaxOrphans \in Nat
    BY BlockAssumption
  <2>5. Len(orphans[b]) \in Nat /\ Len(<< >>) = 0
    BY <1>1
  <2>4. OrphanTotal <= MaxOrphans
    BY DEF BufferSound
  <2> QED
    BY <2>1, <2>2, <2>3, <2>4, <2>5
<1>4. \A p \in Hash : \A i, j \in DOMAIN orphans'[p] :
          Prev(orphans'[p][i]) = p /\ (orphans'[p][i] = orphans'[p][j] => i = j)
  BY <1>2 DEF BufferSound
<1>5. \A p \in Hash : orphans'[p] # << >> => p \notin Known'
  BY <1>1, <1>2 DEF BufferSound
<1> QED
  BY <1>3, <1>4, <1>5 DEF BufferSound

\* No buffered block ever waits for a parent that is in the tree, none is
\* buffered twice and the buffer keeps its bound, while blocks are promoted
\* and whatever happens to the file (addOrphanLocked, promoteOrphansLocked).
THEOREM OrphansOnlyWait == Spec => []OrphansWait
<1>1. Init => BufferInv
  BY InitInv, BufferEmpty, EmptyTypes
     DEF Init, BufferInv, BootQuiet, GenesisFirst
<1>2. ASSUME BufferInv, [Next]_vars
      PROVE  BufferInv'
  <2> USE DEF BufferInv
  <2>1. TreeInv' /\ BootQuiet' /\ GenesisFirst' /\ TypeOK
    BY <1>2, NextInv, BootQuietStep, GenesisFirstStep DEF TreeInv
  <2>2. CASE orphans' = orphans /\ Known' \subseteq Known
    BY <1>2, <2>1, <2>2, BufferUnchanged
  <2>3. ASSUME orphans' = NoOrphans PROVE BufferSound'
    <3>1. OrphanTotal' = 0 /\ MaxOrphans \in Nat
      BY <2>3, TotalIs, TotalOfNone, BlockAssumption
    <3> QED
      BY <2>3, <3>1 DEF BufferSound, NoOrphans
  <2>4. CASE NewFresh
    BY <1>2, <2>1, <2>3, <2>4 DEF NewFresh, TreeInv, DownIsEmpty
  <2>5. CASE Crash \/ \E b \in Hash : BootFails(b)
    BY <2>1, <2>3, <2>5 DEF Crash, BootFails, Exit
  <2>6. CASE NewFromDisk \/ Tick \/ Arrival \/ BootDone \/ UNCHANGED vars
    BY <2>2, <2>6 DEF NewFromDisk, Tick, Arrival, BootDone, SubmitSolution,
        acceptRemoteBlock, vars, memory, Known
  <2>7. CASE Insertion
    <3>1. PICK b \in Hash : \/ InsertKnown(b) \/ InsertRefused(b) \/ InsertGenesis(b)
                            \/ InsertOrphan(b) \/ InsertBlock(b)
      BY <2>7 DEF Insertion
    <3>2. CASE InsertKnown(b) \/ InsertRefused(b)
      BY <2>2, <3>2 DEF InsertKnown, InsertRefused, memory, Known
    <3>3. CASE InsertGenesis(b)
      <4>1. phase = "booting" /\ orphans' = orphans
        BY <1>2, <2>1, <3>3 DEF InsertGenesis, GenesisFirst, TreeInv, DownIsEmpty, TypeOK,
            Inserting, Running
      <4> QED
        BY <1>2, <2>1, <2>3, <4>1 DEF BootQuiet
    <3>4. CASE InsertOrphan(b)
      BY <1>2, <2>1, <3>4, BufferGrows
    <3>5. CASE InsertBlock(b)
      BY <1>2, <2>1, <3>5, BufferShrinks
    <3> QED
      BY <3>1, <3>2, <3>3, <3>4, <3>5
  <2>8. CASE ForkChoice \/ NewTip
    BY <2>2, <2>8 DEF ForkChoice, NewTip, KeepTip, RejectExtension, StartReplay,
        ReplayBlock, ReplayFails, CommitChain, ExtendTip, rejectSubtreeLocked, Restrict,
        memory, Known
  <2> QED
    BY <1>2, <2>4, <2>5, <2>6, <2>7, <2>8 DEF Next, LockedStep
<1>3. BufferInv => OrphansWait
  BY DEF BufferInv, BufferSound, OrphansWait
<1> QED
  BY <1>1, <1>2, <1>3, PTL DEF Spec

-----------------------------------------------------------------------------
(***************************************************************************)
(* The node with its mempool.                                              *)
(***************************************************************************)
\* Every step of the node is a step of the tree or leaves the tree alone.
LEMMA NodeStepIsTreeStep == [NodeNext]_nodeVars => [Next]_vars
<1> SUFFICES ASSUME [NodeNext]_nodeVars PROVE [Next]_vars
  OBVIOUS
<1>1. CASE NewFresh \/ NewFromDisk \/ Tick \/ Arrival \/ BootDone \/ Insertion \/ ForkChoice
  BY <1>1 DEF Next, LockedStep
<1>2. CASE Crash \/ \E b \in Hash : BootFails(b)
  BY <1>2 DEF Next, LockedStep
<1>3. CASE CommitChain \/ \E b \in Hash : ExtendTip(b)
  BY <1>3 DEF Next, LockedStep, NewTip
<1>4. CASE \/ \E t \in Tx : onNewTx(t)
           \/ \E c \in Client : \E p \in Payment : SendSign(c, p)
           \/ \E c \in Client : SendAdd(c)
  BY <1>4 DEF onNewTx, SendSign, SendAdd
<1>5. CASE UNCHANGED nodeVars
  BY <1>5 DEF nodeVars
<1> QED
  BY <1>1, <1>2, <1>3, <1>4, <1>5 DEF NodeNext

\* The specification of the tree alone, and that the node is one.
TreeSpec == Init /\ [][Next]_vars

LEMMA NodeImplementsTree == NodeSpec => TreeSpec
BY NodeStepIsTreeStep, PTL DEF NodeSpec, NodeInit, TreeSpec

\* Whatever the mempool does, the confirmed state of the node is the one a full
\* replay of the active chain gives (AddTx and Send work on clones).
THEOREM NodeStateIsReplayed == NodeSpec => []StateIsReplay
<1>1. TreeSpec => []TreeInv
  BY InitInv, NextInv, PTL DEF TreeSpec
<1>2. TreeInv => StateIsReplay
  BY DEF TreeInv, ChainSound
<1> QED
  BY <1>1, <1>2, NodeImplementsTree, PTL

\* The node with its mempool and wallet still keeps the promise of its tree: it
\* moves in one step to the heaviest valid block it holds, with the state of
\* that block's chain (switchChainLocked with its calls into the mempool).
THEOREM NodeKeepsPromise == NodeSpec => HeaviestChain
<1>1. Init => TargetIsBest
  BY DEF Init, TargetIsBest
<1>2. TreeInv /\ TargetIsBest /\ [Next]_vars => TargetIsBest'
  BY TargetStep
<1>3. TreeSpec => [](TreeInv /\ TargetIsBest)
  BY <1>1, <1>2, InitInv, NextInv, PTL DEF TreeSpec
<1>4. TreeSpec => HeaviestChain
  BY <1>3, PromiseInit, PromiseStep, PTL DEF TreeSpec, HeaviestChain, Promise!Spec
<1> QED
  BY <1>4, NodeImplementsTree, PTL

-----------------------------------------------------------------------------
(***************************************************************************)
(* The mempool.                                                            *)
(***************************************************************************)
\* Below a block of the tree there is an ancestor at every height.
LEMMA HeightsFilled ==
    ASSUME TypeOK, TreeRooted, NEW b \in Known, NEW k \in 0 .. Height(b)
    PROVE  \E x \in Ancestors[b] : Height(x) = k
<1> DEFINE N == Height(b)
           Filled(c) == \A h \in 0 .. Height(c) : \E x \in Ancestors[c] : Height(x) = h
           G == {n \in 0 .. N : \A c \in Known : Height(c) = n => Filled(c)}
<1>1. N \in Nat /\ Known \subseteq Hash /\ \A c \in Known : Height(c) \in Nat
  BY BlockAssumption DEF TypeOK
<1>2. 0 \in G
  BY <1>1, AncestorSelf
<1>3. ASSUME NEW n \in 0 .. N - 1, n \in G PROVE n + 1 \in G
  <2>1. ASSUME NEW c \in Known, Height(c) = n + 1 PROVE Filled(c)
    <3>1. c \in Hash \ {Genesis} /\ Prev(c) \in Known /\ Height(c) = Height(Prev(c)) + 1
      <4>1. Height(Genesis) = 0
        BY BlockAssumption
      <4> QED
        BY <1>1, <2>1, <4>1 DEF TreeRooted
    <3>2. Height(Prev(c)) = n
      BY <1>1, <2>1, <3>1
    <3>3. Filled(Prev(c))
      BY <1>3, <3>1, <3>2
    <3>4. Ancestors[c] = Ancestors[Prev(c)] \cup {c}
      BY <3>1, ChildAncestors
    <3>5. ASSUME NEW h \in 0 .. Height(c) PROVE \E x \in Ancestors[c] : Height(x) = h
      <4>1. CASE h = Height(c)
        BY <3>4, <4>1
      <4>2. CASE h \in 0 .. Height(Prev(c))
        BY <3>3, <3>4, <4>2
      <4> QED
        BY <2>1, <3>2, <4>1, <4>2
    <3> QED
      BY <3>5
  <2>2. n + 1 \in 0 .. N
    BY <1>1
  <2> QED
    BY <2>1, <2>2
<1>4. \A n \in 0 .. N : n \in G
  <2> HIDE DEF G, N
  <2> QED BY <1>1, <1>2, <1>3, CountingInduction
<1>5. N \in G
  BY <1>1, <1>4
<1> QED
  BY <1>5

LEMMA RangeOfJoin ==
    ASSUME NEW T, NEW l \in Seq(T), NEW m \in Seq(T)
    PROVE  l \o m \in Seq(T) /\ Range(l \o m) = Range(l) \cup Range(m)
<1> DEFINE j == l \o m
           a == Len(l)
           b == Len(m)
<1>1. /\ a \in Nat /\ b \in Nat /\ DOMAIN l = 1 .. a /\ DOMAIN m = 1 .. b
      /\ j \in Seq(T) /\ DOMAIN j = 1 .. a + b
      /\ \A i \in 1 .. a : j[i] = l[i]
      /\ \A i \in 1 .. b : j[a + i] = m[i]
  OBVIOUS
<1> HIDE DEF j, a, b
<1>2. /\ \A i \in 1 .. a : i \in 1 .. a + b
      /\ \A i \in 1 .. b : a + i \in 1 .. a + b
      /\ \A i \in 1 .. a + b : i \in 1 .. a \/ (i - a \in 1 .. b /\ a + (i - a) = i)
  BY <1>1
<1>3. ASSUME NEW x PROVE x \in Range(j) <=> x \in Range(l) \/ x \in Range(m)
  <2>1. ASSUME x \in Range(j) PROVE x \in Range(l) \/ x \in Range(m)
    <3>1. PICK i \in 1 .. a + b : x = j[i]
      BY <1>1, <2>1 DEF Range
    <3>2. CASE i \in 1 .. a
      BY <1>1, <3>1, <3>2 DEF Range
    <3>3. CASE i - a \in 1 .. b /\ a + (i - a) = i
      <4>1. j[a + (i - a)] = m[i - a]
        BY <1>1, <3>3
      <4> QED
        BY <1>1, <3>1, <3>3, <4>1 DEF Range
    <3> QED
      BY <1>2, <3>2, <3>3
  <2>2. ASSUME x \in Range(l) PROVE x \in Range(j)
    BY <1>1, <1>2, <2>2 DEF Range
  <2>3. ASSUME x \in Range(m) PROVE x \in Range(j)
    <3>1. PICK i \in 1 .. b : x = m[i]
      BY <1>1, <2>3 DEF Range
    <3>2. j[a + i] = m[i] /\ a + i \in 1 .. a + b
      BY <1>1, <1>2
    <3> QED
      BY <1>1, <3>1, <3>2 DEF Range
  <2> QED
    BY <2>1, <2>2, <2>3
<1> QED
  BY <1>1, <1>3 DEF j

\* The lists of a list of lists, joined.
LEMMA FlattenIsList ==
    ASSUME NEW T, NEW N \in Nat, NEW s \in [1 .. N -> Seq(T)]
    PROVE  /\ FlattenSeq(s) \in Seq(T)
           /\ Range(FlattenSeq(s)) = UNION {Range(s[i]) : i \in 1 .. N}
<1> DEFINE Rec(g) == [i \in 1 .. N |-> IF i = 1 THEN s[i] ELSE g[i - 1] \o s[i]]
           Upto(n) == \E g : \A i \in 1 .. n : g[i] = Rec(g)[i]
           G == {n \in 0 .. N : Upto(n)}
           flatten == CHOOSE f : f = Rec(f)
<1>1. s \in Seq(Seq(T)) /\ Len(s) = N
  OBVIOUS
<1>2. FlattenSeq(s) = IF N = 0 THEN s ELSE flatten[N]
  BY <1>1 DEF FlattenSeq
<1> HIDE DEF flatten
<1>3. 0 \in G
  OBVIOUS
<1>4. ASSUME NEW n \in 0 .. N - 1, n \in G PROVE n + 1 \in G
  <2>1. PICK g : \A i \in 1 .. n : g[i] = Rec(g)[i]
    BY <1>4
  <2>2. ASSUME NEW i \in 1 .. n + 1 PROVE Rec(g)[i] = Rec(Rec(g))[i]
    <3>1. CASE i = 1
      BY <3>1
    <3>2. CASE i # 1
      <4>1. i \in 1 .. N /\ i - 1 \in 1 .. n
        BY <3>2
      <4>2. g[i - 1] = Rec(g)[i - 1]
        BY <2>1, <4>1
      <4>3. Rec(g)[i] = g[i - 1] \o s[i] /\ Rec(Rec(g))[i] = Rec(g)[i - 1] \o s[i]
        BY <3>2, <4>1
      <4> QED
        BY <4>2, <4>3
    <3> QED
      BY <3>1, <3>2
  <2> HIDE DEF Rec
  <2>3. Upto(n + 1)
    BY <2>2
  <2> QED
    BY <2>3
<1>5. N \in G
  <2> HIDE DEF G
  <2>1. \A n \in 0 .. N : n \in G
    BY <1>3, <1>4, CountingInduction
  <2> QED
    BY <2>1
<1>6. PICK g : \A i \in 1 .. N : g[i] = Rec(g)[i]
  BY <1>5
<1> DEFINE h == Rec(g)
<1>7. h = Rec(h)
  <2>1. \A i \in 1 .. N : i # 1 => i - 1 \in 1 .. N
    OBVIOUS
  <2>2. \A i \in 1 .. N : i # 1 => g[i - 1] = h[i - 1]
    BY <1>6, <2>1
  <2>3. h = [i \in 1 .. N |-> IF i = 1 THEN s[i] ELSE g[i - 1] \o s[i]]
    OBVIOUS
  <2> HIDE DEF h
  <2> QED
    BY <2>2, <2>3
<1>8. flatten = Rec(flatten)
  <2> HIDE DEF h, Rec
  <2> QED BY <1>7 DEF flatten
<1>9. \A i \in 1 .. N : flatten[i] = IF i = 1 THEN s[i] ELSE flatten[i - 1] \o s[i]
  BY <1>8
<1> HIDE DEF Rec
<1> DEFINE Joins(l, n) == l \in Seq(T) /\ Range(l) = UNION {Range(s[i]) : i \in 1 .. n}
           F == {n \in 0 .. N : n # 0 => Joins(flatten[n], n)}
           All(n) == UNION {Range(s[i]) : i \in 1 .. n}
<1>10. 0 \in F
  OBVIOUS
<1>11. ASSUME NEW n \in 0 .. N - 1, n \in F PROVE n + 1 \in F
  <2> DEFINE m == n + 1
  <2>1. m \in 1 .. N /\ m - 1 = n /\ m \in 0 .. N
    OBVIOUS
  <2>2. flatten[m] = IF m = 1 THEN s[m] ELSE flatten[m - 1] \o s[m]
    BY <1>9, <2>1
  <2>3. s[m] \in Seq(T)
    BY <2>1
  <2>4. CASE n = 0
    <3>1. 1 .. m = {m} /\ flatten[m] = s[m]
      BY <2>2, <2>4
    <3> HIDE DEF m
    <3>2. UNION {Range(s[i]) : i \in 1 .. m} = Range(s[m])
      BY <3>1
    <3>3. Joins(flatten[m], m)
      BY <2>3, <3>1, <3>2
    <3> QED
      BY <2>1, <3>3 DEF m
  <2>5. CASE n # 0
    <3>1. Joins(flatten[n], n)
      BY <1>11, <2>5
    <3>2. flatten[m] = flatten[n] \o s[m]
      <4>1. m # 1
        BY <2>5
      <4> HIDE DEF m
      <4> QED
        BY <2>1, <2>2, <4>1
    <3>3. /\ flatten[m] \in Seq(T)
          /\ Range(flatten[m]) = All(n) \cup Range(s[m])
      <4>1. flatten[n] \in Seq(T) /\ Range(flatten[n]) = All(n)
        BY <3>1
      <4> HIDE DEF All, m
      <4> QED
        BY <2>3, <3>2, <4>1, RangeOfJoin
    <3>4. All(m) = All(n) \cup Range(s[m])
      <4>1. \A i : i \in 1 .. m <=> i \in 1 .. n \/ i = m
        BY <2>1
      <4> HIDE DEF m
      <4>2. ASSUME NEW x PROVE x \in All(m) <=> x \in All(n) \/ x \in Range(s[m])
        <5>1. x \in All(m) <=> \E i \in 1 .. m : x \in Range(s[i])
          OBVIOUS
        <5>2. x \in All(n) <=> \E i \in 1 .. n : x \in Range(s[i])
          OBVIOUS
        <5> HIDE DEF All
        <5> QED
          BY <4>1, <5>1, <5>2
      <4> HIDE DEF All
      <4> QED
        BY <4>2
    <3>5. Joins(flatten[m], m)
      <4>1. Range(flatten[m]) = All(m)
        BY <3>3, <3>4
      <4> QED
        BY <3>3, <4>1
    <3> QED
      BY <2>1, <3>5 DEF m
  <2> QED
    BY <2>4, <2>5
<1>12. N \in F
  <2> HIDE DEF F
  <2>1. \A n \in 0 .. N : n \in F
    BY <1>10, <1>11, CountingInduction
  <2> QED
    BY <2>1
<1>13. CASE N = 0
  <2>1. FlattenSeq(s) = s
    BY <1>2, <1>13
  <2>2. s = << >> /\ 1 .. N = {}
    BY <1>1, <1>13
  <2>3. Range(<< >>) = {}
    BY DEF Range
  <2>4. UNION {Range(s[i]) : i \in 1 .. N} = {}
    BY <2>2
  <2>5. << >> \in Seq(T)
    OBVIOUS
  <2> QED
    BY <2>1, <2>2, <2>3, <2>4, <2>5
<1>14. CASE N # 0
  BY <1>2, <1>12, <1>14
<1> QED
  BY <1>13, <1>14

\* The txs of all blocks.
BlockTxs == UNION {Range(Block[x].txs) : x \in Hash}

\* The txs along a list of blocks.
LEMMA TxsOfBlocks ==
    ASSUME NEW N \in Nat, NEW d \in [1 .. N -> Hash]
    PROVE  /\ TxsOf(d) \in Seq(BlockTxs)
           /\ Range(TxsOf(d)) = UNION {Range(Block[d[i]].txs) : i \in 1 .. N}
<1> DEFINE parts == [i \in 1 .. N |-> Block[d[i]].txs]
<1>1. ASSUME NEW x \in Hash PROVE Block[x].txs \in Seq(BlockTxs)
  <2>1. Block[x].txs \in Seq(Range(Block[x].txs))
    BY BlockAssumption
  <2>2. Range(Block[x].txs) \subseteq BlockTxs
    BY DEF BlockTxs
  <2> QED
    BY <2>1, <2>2
<1>2. parts \in [1 .. N -> Seq(BlockTxs)]
  BY <1>1
<1>3. TxsOf(d) = FlattenSeq(parts)
  BY DEF TxsOf
<1>4. \A i \in 1 .. N : parts[i] = Block[d[i]].txs
  OBVIOUS
<1> HIDE DEF parts
<1>5. UNION {Range(parts[i]) : i \in 1 .. N} = UNION {Range(Block[d[i]].txs) : i \in 1 .. N}
  BY <1>4
<1> QED
  BY <1>2, <1>3, <1>5, FlattenIsList, ZenonT(60)

\* The blocks of the active chain above genesis.
LEMMA DescendingIs ==
    ASSUME TreeInv, tip # Nil
    PROVE  /\ Height(tip) \in Nat
           /\ Descending(tip) \in [1 .. Height(tip) -> pathToGenesisLocked(tip)]
           /\ pathToGenesisLocked(tip) \subseteq Hash
<1> USE DEF TreeInv
<1> DEFINE N == Height(tip)
           d == Descending(tip)
<1>1. tip \in Known /\ tip \in Hash
  BY DEF ChainSound, StateIsReplay, TypeOK
<1>2. N \in Nat /\ DOMAIN d = 1 .. N
  BY <1>1, BlockAssumption DEF Descending
<1>3. ASSUME NEW i \in 1 .. N PROVE d[i] \in pathToGenesisLocked(tip)
  <2>1. N - i + 1 \in 0 .. N
    BY <1>2
  <2>2. \E x \in pathToGenesisLocked(tip) : Height(x) = Height(tip) - i + 1
    BY <1>1, <2>1, HeightsFilled, PathComplete
  <2> QED
    BY <2>2 DEF Descending
<1>4. pathToGenesisLocked(tip) \subseteq Hash
  BY <1>1, AncestorSelf DEF pathToGenesisLocked
<1>5. d = [i \in 1 .. N |-> d[i]]
  BY <1>2 DEF Descending
<1> QED
  BY <1>2, <1>3, <1>4, <1>5

\* The txs a reorg rolls back are a list, of txs of the active chain.
LEMMA RolledBackIsList ==
    ASSUME TreeInv
    PROVE  /\ RolledBack \in Seq(BlockTxs)
           /\ tip # Nil => Range(RolledBack) \subseteq Confirmed(tip)
<1>1. CASE tip = Nil
  BY <1>1 DEF RolledBack
<1>2. CASE tip # Nil
  <2> DEFINE N == Height(tip)
             d == Descending(tip)
  <2>1. /\ N \in Nat /\ d \in [1 .. N -> pathToGenesisLocked(tip)]
        /\ d \in [1 .. N -> Hash]
    BY <1>2, DescendingIs
  <2>2. RolledBack = TxsOf(d)
    BY <1>2 DEF RolledBack
  <2> HIDE DEF N, d
  <2>3. /\ TxsOf(d) \in Seq(BlockTxs)
        /\ Range(TxsOf(d)) = UNION {Range(Block[d[i]].txs) : i \in 1 .. N}
    BY <2>1, TxsOfBlocks
  <2>4. UNION {Range(Block[d[i]].txs) : i \in 1 .. N} \subseteq Confirmed(tip)
    BY <2>1 DEF Confirmed
  <2> QED
    BY <2>2, <2>3, <2>4
<1> QED
  BY <1>1, <1>2

\* The order of the blocks does not matter for which txs there are.
LEMMA ReversedTxs ==
    ASSUME TreeInv, tip # Nil
    PROVE  LET l == TxsOf(Reverse(Descending(tip)))
           IN  l \in Seq(BlockTxs) /\ Range(l) = Range(RolledBack)
<1> DEFINE N == Height(tip)
           d == Descending(tip)
           r == Reverse(d)
<1>1. N \in Nat /\ d \in [1 .. N -> Hash]
  BY DescendingIs
<1>2. RolledBack = TxsOf(d)
  BY DEF RolledBack
<1> HIDE DEF d, N
<1>3. Len(d) = N
  BY <1>1
<1>4. r = [i \in 1 .. N |-> d[(N - i) + 1]]
  BY <1>3 DEF Reverse
<1>5. r \in [1 .. N -> Hash]
  BY <1>1, <1>4
<1>6. \A i \in 1 .. N : /\ (N - i) + 1 \in 1 .. N /\ r[i] = d[(N - i) + 1]
                        /\ r[(N - i) + 1] = d[i]
  <2>1. \A i \in 1 .. N : (N - i) + 1 \in 1 .. N /\ (N - ((N - i) + 1)) + 1 = i
    BY <1>1
  <2> QED
    BY <1>4, <2>1
<1> HIDE DEF r
<1>7. UNION {Range(Block[d[i]].txs) : i \in 1 .. N} = UNION {Range(Block[r[i]].txs) : i \in 1 .. N}
  BY <1>6
<1>8. /\ TxsOf(r) \in Seq(BlockTxs)
      /\ Range(TxsOf(r)) = UNION {Range(Block[r[i]].txs) : i \in 1 .. N}
  BY <1>1, <1>5, TxsOfBlocks
<1>9. Range(TxsOf(d)) = UNION {Range(Block[d[i]].txs) : i \in 1 .. N}
  BY <1>1, TxsOfBlocks
<1>10. TxsOf(r) \in Seq(BlockTxs) /\ Range(TxsOf(r)) = Range(RolledBack)
  BY <1>2, <1>7, <1>8, <1>9
<1> QED
  BY <1>10 DEF r, d

\* The list r is s with t after its first k elements.
Inserted(r, s, k, t) ==
    /\ Len(r) = Len(s) + 1
    /\ \A i \in 1 .. k : r[i] = s[i]
    /\ r[k + 1] = t
    /\ \A i \in k + 1 .. Len(s) : r[i + 1] = s[i]

LEMMA InsertIs ==
    ASSUME NEW T, NEW s \in Seq(T), NEW t \in T, NEW k \in 0 .. Len(s)
    PROVE  InsertAt(s, 1 + k, t) \in Seq(T) /\ Inserted(InsertAt(s, 1 + k, t), s, k, t)
<1> DEFINE N == Len(s)
           l == SubSeq(s, 1, k)
           m == <<t>>
           e == SubSeq(s, 1 + k, N)
           lm == l \o m
           r == lm \o e
<1>1. N \in Nat /\ DOMAIN s = 1 .. N /\ k \in Nat /\ k <= N
  OBVIOUS
<1>2. l \in Seq(T) /\ Len(l) = k /\ \A i \in 1 .. k : l[i] = s[i]
  BY <1>1
<1>3. e \in Seq(T) /\ Len(e) = N - k /\ \A i \in 1 .. N - k : e[i] = s[k + i]
  <2> DEFINE a == 1 + k
  <2>1. a \in 1 .. N + 1 /\ N - a + 1 = N - k /\ a \in Int /\ N \in Int
    BY <1>1
  <2>2. \A i \in 1 .. N - k : a + i - 1 = k + i
    BY <1>1
  <2> HIDE DEF a, N
  <2>3. \A i \in a .. N : s[i] \in T
    BY <1>1, <2>1
  <2>4. /\ SubSeq(s, a, N) \in Seq(T)
        /\ Len(SubSeq(s, a, N)) = IF a <= N THEN N - a + 1 ELSE 0
        /\ \A i \in 1 .. N - a + 1 : SubSeq(s, a, N)[i] = s[a + i - 1]
    BY <2>1, <2>3, SubSeqProperties
  <2>5. e = SubSeq(s, a, N)
    BY DEF a
  <2> HIDE DEF e
  <2>6. Len(e) = N - k
    <3>1. CASE a <= N
      BY ONLY <2>1, <2>4, <2>5, <3>1
    <3>2. CASE ~(a <= N)
      <4>1. N - k = 0
        BY <1>1, <3>2 DEF a
      <4> QED
        BY ONLY <2>4, <2>5, <3>2, <4>1
    <3> QED
      BY <3>1, <3>2
  <2>7. ASSUME NEW i \in 1 .. N - k PROVE e[i] = s[k + i]
    <3>1. i \in 1 .. N - a + 1 /\ a + i - 1 = k + i
      BY <2>1, <2>2
    <3>2. SubSeq(s, a, N)[i] = s[a + i - 1]
      BY <2>4, <3>1
    <3> QED
      BY <2>5, <3>1, <3>2
  <2> QED
    BY <2>4, <2>5, <2>6, <2>7
<1>4. m \in Seq(T) /\ Len(m) = 1 /\ m[1] = t
  OBVIOUS
<1>5. InsertAt(s, 1 + k, t) = r
  <2>1. (1 + k) - 1 = k
    BY <1>1
  <2> QED
    BY <2>1 DEF InsertAt
<1> HIDE DEF N, l, m, e
<1>6. /\ lm \in Seq(T) /\ Len(lm) = k + 1 /\ lm[k + 1] = t
      /\ \A i \in 1 .. k : lm[i] = s[i]
  <2>0. l \in Seq(T) /\ m \in Seq(T)
    BY <1>2, <1>4
  <2>1. lm \in Seq(T) /\ Len(lm) = Len(l) + Len(m)
    BY <2>0, ConcatProperties
  <2>2. \A i \in 1 .. Len(l) + Len(m) : lm[i] = IF i <= Len(l) THEN l[i] ELSE m[i - Len(l)]
    BY <2>0, ConcatProperties
  <2> HIDE DEF lm
  <2>3. lm[k + 1] = m[(k + 1) - k]
    BY <1>1, <1>2, <1>4, <2>2
  <2>4. ASSUME NEW i \in 1 .. k PROVE lm[i] = s[i]
    BY <1>1, <1>2, <1>4, <2>2
  <2>5. (k + 1) - k = 1
    BY <1>1
  <2> QED
    BY <1>2, <1>4, <2>1, <2>3, <2>4, <2>5
<1> HIDE DEF lm
<1>7. /\ r \in Seq(T) /\ Len(r) = N + 1
      /\ \A i \in 1 .. k + 1 : r[i] = lm[i]
      /\ \A i \in 1 .. N - k : r[(k + 1) + i] = e[i]
  BY <1>1, <1>3, <1>6
<1> HIDE DEF r
<1>8. ASSUME NEW i \in k + 1 .. N PROVE r[i + 1] = s[i]
  <2>1. i - k \in 1 .. N - k /\ (k + 1) + (i - k) = i + 1 /\ k + (i - k) = i
    BY <1>1
  <2>2. r[(k + 1) + (i - k)] = e[i - k] /\ e[i - k] = s[k + (i - k)]
    BY <1>3, <1>7, <2>1
  <2> QED
    BY <2>1, <2>2
<1>9. \A i \in 1 .. k : r[i] = s[i]
  <2>1. \A i \in 1 .. k : i \in 1 .. k + 1
    BY <1>1
  <2> QED
    BY <1>6, <1>7, <2>1
<1>10. r[k + 1] = t
  <2>1. k + 1 \in 1 .. k + 1
    BY <1>1
  <2> QED
    BY <1>6, <1>7, <2>1
<1> QED
  BY <1>5, <1>7, <1>8, <1>9, <1>10 DEF N, Inserted

\* How many places of a list there are in S.
LEMMA PlacesCount ==
    ASSUME NEW N \in Nat, NEW S \in SUBSET (1 .. N)
    PROVE  Cardinality(S) \in 0 .. N
<1>1. IsFiniteSet(1 .. N) /\ Cardinality(1 .. N) = N
  BY FS_Interval
<1>2. Cardinality(S) \in Nat /\ Cardinality(S) <= N
  BY <1>1, FS_Subset, FS_CardinalityType
<1> QED
  BY <1>2

\* If they are the first ones, they are as many as the last of them says.
LEMMA FirstPlaces ==
    ASSUME NEW N \in Nat, NEW S \in SUBSET (1 .. N),
           \A i \in S : \A j \in 1 .. N : j < i => j \in S
    PROVE  S = 1 .. Cardinality(S)
<1>1. CASE S = {}
  <2>1. Cardinality(S) = 0
    BY <1>1, FS_EmptySet
  <2> QED
    BY <1>1, <2>1
<1>2. CASE S # {}
  <2> DEFINE m == Max(S)
  <2>1. S \in SUBSET (0 .. N)
    OBVIOUS
  <2>2. m \in S /\ \A i \in S : i <= m
    BY <1>2, <2>1, MaxExists
  <2> HIDE DEF m
  <2>3. m \in 1 .. N
    BY <2>2
  <2>4. S = 1 .. m
    <3>1. ASSUME NEW i \in S PROVE i \in 1 .. m
      BY <2>2, <2>3
    <3>2. ASSUME NEW i \in 1 .. m PROVE i \in S
      <4>1. CASE i = m
        BY <2>2, <4>1
      <4>2. CASE i < m
        BY <2>2, <2>3, <4>2
      <4> QED
        BY <2>3, <4>1, <4>2
    <3> QED
      BY <3>1, <3>2
  <2>5. m \in Nat /\ Cardinality(1 .. m) = m
    BY <2>3, FS_Interval
  <2> QED
    BY <2>4, <2>5
<1> QED
  BY <1>1, <1>2

\* The two sorts, and one step of each.
ByTime(txs) == StableSort(txs, LAMBDA t, u : t.time < u.time)

ByFee(txs) == StableSort(txs, FirstByFee)

InsertByTime(sorted, t) ==
    InsertAt(sorted, 1 + Cardinality({i \in DOMAIN sorted : ~(t.time < sorted[i].time)}), t)

InsertByFee(sorted, t) ==
    InsertAt(sorted, 1 + Cardinality({i \in DOMAIN sorted : ~FirstByFee(t, sorted[i])}), t)

\* The passes over a list of txs that make another list, one step of each: the
\* two sorts, Candidates and Without.
Kinds == {"time", "fee", "add", "without"}

Left(skip, l, t) == IF IsCoinbase(t) \/ t \in skip THEN l ELSE Append(l, t)

Pass(kind, skip, l, t) ==
    CASE kind = "time" -> InsertByTime(l, t)
      [] kind = "fee" -> InsertByFee(l, t)
      [] kind = "add" -> add(l, t)
      [] kind = "without" -> Left(skip, l, t)

PassOver(kind, skip, txs) ==
    FoldLeft(LAMBDA l, t : Pass(kind, skip, l, t), << >>, txs)

\* Whether t is in the list that a pass makes.
Takes(kind, skip, t) ==
    \/ kind \in {"time", "fee"}
    \/ kind = "add" /\ ~IsCoinbase(t)
    \/ kind = "without" /\ ~IsCoinbase(t) /\ t \notin skip

\* An insertion adds the tx.
LEMMA InsertTakes ==
    ASSUME NEW T, NEW s \in Seq(T), NEW t \in T, NEW S \in SUBSET (DOMAIN s)
    PROVE  LET r == InsertAt(s, 1 + Cardinality(S), t)
           IN  r \in Seq(T) /\ Range(r) = Range(s) \cup {t}
<1> DEFINE N == Len(s)
           k == Cardinality(S)
           r == InsertAt(s, 1 + k, t)
<1>1. N \in Nat /\ DOMAIN s = 1 .. N
  OBVIOUS
<1>2. k \in 0 .. N
  <2> HIDE DEF N
  <2> QED BY <1>1, PlacesCount
<1> HIDE DEF k
<1>a. r \in Seq(T) /\ Inserted(r, s, k, t)
  BY <1>2, InsertIs
<1> HIDE DEF r, N
<1>3. /\ r \in Seq(T) /\ Len(r) = N + 1
      /\ \A i \in 1 .. k : r[i] = s[i]
      /\ r[k + 1] = t
      /\ \A i \in k + 1 .. N : r[i + 1] = s[i]
  BY <1>a DEF Inserted, N
<1>4. DOMAIN r = 1 .. N + 1
  BY <1>3
<1>5. ASSUME NEW x PROVE x \in Range(r) <=> x \in Range(s) \/ x = t
  <2>1. ASSUME NEW i \in 1 .. N PROVE \E j \in 1 .. N + 1 : r[j] = s[i]
    <3>1. CASE i <= k
      <4>1. i \in 1 .. k /\ i \in 1 .. N + 1
        BY <1>1, <1>2, <3>1
      <4> QED
        BY <1>3, <4>1
    <3>2. CASE i > k
      <4>1. i \in k + 1 .. N /\ i + 1 \in 1 .. N + 1
        BY <1>1, <1>2, <3>2
      <4> QED
        BY <1>3, <4>1
    <3> QED
      BY <1>1, <1>2, <3>1, <3>2
  <2>2. ASSUME NEW j \in 1 .. N + 1 PROVE r[j] = t \/ \E i \in 1 .. N : r[j] = s[i]
    <3>1. CASE j <= k
      <4>1. j \in 1 .. k /\ j \in 1 .. N
        BY <1>1, <1>2, <3>1
      <4> QED
        BY <1>3, <4>1
    <3>2. CASE j = k + 1
      BY <1>3, <3>2
    <3>3. CASE j > k + 1
      <4>1. j - 1 \in k + 1 .. N /\ j - 1 \in 1 .. N /\ (j - 1) + 1 = j
        BY <1>1, <1>2, <3>3
      <4>2. r[(j - 1) + 1] = s[j - 1]
        BY <1>3, <4>1
      <4> QED
        BY <4>1, <4>2
    <3> QED
      BY <1>1, <1>2, <3>1, <3>2, <3>3
  <2>3. k + 1 \in 1 .. N + 1
    BY <1>1, <1>2
  <2>4. x \in Range(s) <=> \E i \in 1 .. N : x = s[i]
    BY <1>1 DEF Range
  <2>5. x \in Range(r) <=> \E j \in 1 .. N + 1 : x = r[j]
    BY <1>4 DEF Range
  <2>6. r[k + 1] = t
    BY <1>3
  <2> QED
    BY <2>1, <2>2, <2>3, <2>4, <2>5, <2>6
<1>6. Range(r) = Range(s) \cup {t}
  BY <1>5
<1> QED
  BY <1>3, <1>6 DEF r, k

\* One step of a pass.
LEMMA PassTakes ==
    ASSUME NEW T, NEW l \in Seq(T), NEW t \in T, NEW kind \in Kinds, NEW skip
    PROVE  /\ Pass(kind, skip, l, t) \in Seq(T)
           /\ Range(Pass(kind, skip, l, t)) = IF Takes(kind, skip, t) THEN Range(l) \cup {t}
                                              ELSE Range(l)
<1>1. Append(l, t) \in Seq(T) /\ Range(Append(l, t)) = Range(l) \cup {t}
  BY RangeOfAppend
<1>2. CASE kind = "time"
  <2> DEFINE S == {i \in DOMAIN l : ~(t.time < l[i].time)}
             r == InsertAt(l, 1 + Cardinality(S), t)
  <2>1. r \in Seq(T) /\ Range(r) = Range(l) \cup {t}
    <3>1. S \in SUBSET (DOMAIN l)
      OBVIOUS
    <3> HIDE DEF S
    <3> QED
      BY <3>1, InsertTakes
  <2>2. Pass(kind, skip, l, t) = r
    BY <1>2 DEF Pass, InsertByTime
  <2> HIDE DEF r
  <2> QED
    BY <1>2, <2>1, <2>2 DEF Takes
<1>3. CASE kind = "fee"
  <2> DEFINE S == {i \in DOMAIN l : ~FirstByFee(t, l[i])}
             r == InsertAt(l, 1 + Cardinality(S), t)
  <2>1. r \in Seq(T) /\ Range(r) = Range(l) \cup {t}
    <3>1. S \in SUBSET (DOMAIN l)
      OBVIOUS
    <3> HIDE DEF S
    <3> QED
      BY <3>1, InsertTakes
  <2>2. Pass(kind, skip, l, t) = r
    BY <1>3 DEF Pass, InsertByFee
  <2> HIDE DEF r
  <2> QED
    BY <1>3, <2>1, <2>2 DEF Takes
<1>4. CASE kind = "add"
  <2>1. Pass(kind, skip, l, t) = IF IsCoinbase(t) \/ t \in Range(l) THEN l ELSE Append(l, t)
    BY <1>4 DEF Pass, add
  <2>2. Takes(kind, skip, t) <=> ~IsCoinbase(t)
    BY <1>4 DEF Takes
  <2>3. t \in Range(l) => Range(l) = Range(l) \cup {t}
    OBVIOUS
  <2> QED
    BY <1>1, <2>1, <2>2, <2>3
<1>5. CASE kind = "without"
  <2>1. Pass(kind, skip, l, t) = IF IsCoinbase(t) \/ t \in skip THEN l ELSE Append(l, t)
    BY <1>5 DEF Pass, Left
  <2>2. Takes(kind, skip, t) <=> ~IsCoinbase(t) /\ t \notin skip
    BY <1>5 DEF Takes
  <2> QED
    BY <1>1, <2>1, <2>2
<1> QED
  BY <1>2, <1>3, <1>4, <1>5 DEF Kinds

\* The lists after 0, 1, 2 ... txs.
PassRuns(run, kind, skip, txs) ==
    /\ run[0] = << >>
    /\ \A n \in 1 .. Len(txs) : run[n] = Pass(kind, skip, run[n - 1], txs[n])
    /\ PassOver(kind, skip, txs) = run[Len(txs)]

LEMMA PassExists ==
    ASSUME NEW T, NEW txs \in Seq(T), NEW kind \in Kinds, NEW skip
    PROVE  \E run : PassRuns(run, kind, skip, txs)
<1> DEFINE N == Len(txs)
           base == << >>
           step == [x \in Seq(T) \X (1 .. N) |-> Pass(kind, skip, x[1], txs[x[2]])]
           Rec(g) == [p \in SUBSET (1 .. N) |->
                         IF p = {} THEN base
                         ELSE Pass(kind, skip, g[p \ {Max(p)}], txs[Max(p)])]
           iter == CHOOSE g : g = Rec(g)
<1>1. N \in Nat /\ DOMAIN txs = 1 .. N /\ \A i \in 1 .. N : txs[i] \in T
  OBVIOUS
<1>2. base \in Seq(T)
  OBVIOUS
<1>3. step \in [Seq(T) \X (1 .. N) -> Seq(T)]
  <2>1. \A l \in Seq(T) : \A t \in T : Pass(kind, skip, l, t) \in Seq(T)
    BY PassTakes
  <2> QED
    BY <1>1, <2>1
<1>4. PassOver(kind, skip, txs) = iter[1 .. N]
  BY <1>1 DEF PassOver, FoldLeft, MapThenFoldSet
<1>5. ASSUME NEW g, FoldsUp(g, step, base, N)
      PROVE  g = Rec(g)
  <2>1. \A p \in SUBSET (1 .. N) : g[p] \in Seq(T)
    <3> HIDE DEF base, step, N
    <3> QED BY <1>1, <1>2, <1>3, <1>5, FoldPrefixes
  <2>2. \A p \in SUBSET (1 .. N) : p # {} => Max(p) \in 1 .. N /\ p \ {Max(p)} \in SUBSET (1 .. N)
    <3> HIDE DEF N
    <3> QED BY <1>1, MaxSmaller
  <2>3. \A p \in SUBSET (1 .. N) : p # {} =>
            step[<<g[p \ {Max(p)}], Max(p)>>] = Pass(kind, skip, g[p \ {Max(p)}], txs[Max(p)])
    BY <2>1, <2>2
  <2> HIDE DEF base, step, N
  <2> QED
    BY <1>5, <2>3 DEF FoldsUp
<1>6. \E g : g = Rec(g)
  <2> HIDE DEF base, step, N, Rec
  <2> QED BY <1>1, <1>2, <1>3, <1>5, FoldExists
<1>7. iter = Rec(iter)
  <2> HIDE DEF Rec
  <2> QED BY <1>6
<1> HIDE DEF iter
<1> DEFINE run == [n \in 0 .. N |-> iter[1 .. n]]
<1>8. run[0] = << >> /\ run[N] = iter[1 .. N]
  <2>1. 1 .. 0 = {} /\ iter[{}] = base
    BY <1>7
  <2> HIDE DEF N
  <2> QED
    BY <1>1, <2>1
<1>9. ASSUME NEW n \in 1 .. N PROVE run[n] = Pass(kind, skip, run[n - 1], txs[n])
  <2> HIDE DEF N
  <2>1. n \in Nat \ {0} /\ n - 1 \in 0 .. N /\ n \in 0 .. N
    BY <1>1
  <2>2. Max(1 .. n) = n /\ (1 .. n) \ {n} = 1 .. n - 1
    BY <2>1, MaxOfPrefix
  <2>3. 1 .. n \in SUBSET (1 .. N) /\ 1 .. n # {}
    <3>1. n \in 1 .. n /\ \A i \in 1 .. n : i \in 1 .. N
      BY <1>1
    <3> QED
      BY <3>1
  <2>4. iter[1 .. n] = Pass(kind, skip, iter[1 .. n - 1], txs[n])
    BY <1>7, <2>2, <2>3
  <2> QED
    BY <2>1, <2>4
<1> HIDE DEF run
<1> QED
  BY <1>4, <1>8, <1>9 DEF PassRuns

\* What a pass makes of a list.
LEMMA PassMakes ==
    ASSUME NEW T, NEW txs \in Seq(T), NEW kind \in Kinds, NEW skip
    PROVE  /\ PassOver(kind, skip, txs) \in Seq(T)
           /\ Range(PassOver(kind, skip, txs)) = {t \in Range(txs) : Takes(kind, skip, t)}
<1> DEFINE N == Len(txs)
           First(n) == {t \in {txs[i] : i \in 1 .. n} : Takes(kind, skip, t)}
<1>1. PICK run : PassRuns(run, kind, skip, txs)
  BY PassExists
<1>2. N \in Nat /\ DOMAIN txs = 1 .. N /\ \A i \in 1 .. N : txs[i] \in T
  OBVIOUS
<1> DEFINE Good(l, n) == l \in Seq(T) /\ Range(l) = First(n)
           G == {n \in 0 .. N : Good(run[n], n)}
<1>3. 0 \in G
  <2>1. run[0] = << >> /\ << >> \in Seq(T) /\ Range(<< >>) = {}
    BY <1>1 DEF PassRuns, Range
  <2>2. First(0) = {}
    OBVIOUS
  <2>3. Good(run[0], 0)
    BY <2>1, <2>2
  <2> HIDE DEF N, Good
  <2> QED
    BY <1>2, <2>3
<1>4. ASSUME NEW n \in 0 .. N - 1, n \in G PROVE n + 1 \in G
  <2> DEFINE m == n + 1
             t == txs[m]
  <2>1. m \in 1 .. N /\ m - 1 = n /\ m \in 0 .. N /\ t \in T
    BY <1>2
  <2>2. run[m] = Pass(kind, skip, run[n], t)
    BY <1>1, <2>1 DEF PassRuns
  <2>3. run[n] \in Seq(T) /\ Range(run[n]) = First(n)
    BY <1>4
  <2>4. /\ run[m] \in Seq(T)
        /\ Range(run[m]) = IF Takes(kind, skip, t) THEN First(n) \cup {t} ELSE First(n)
    <3> DEFINE l == run[n]
    <3> HIDE DEF First, t, m, l
    <3>1. l \in Seq(T) /\ Range(l) = First(n) /\ run[m] = Pass(kind, skip, l, t)
      BY <2>2, <2>3 DEF l
    <3>2. /\ Pass(kind, skip, l, t) \in Seq(T)
          /\ Range(Pass(kind, skip, l, t)) = IF Takes(kind, skip, t) THEN Range(l) \cup {t}
                                             ELSE Range(l)
      BY <2>1, <3>1, PassTakes
    <3> QED
      BY <3>1, <3>2
  <2>5. \A i : i \in 1 .. m <=> i \in 1 .. n \/ i = m
    BY <1>2
  <2> HIDE DEF m
  <2>6. First(m) = IF Takes(kind, skip, t) THEN First(n) \cup {t} ELSE First(n)
    BY <2>5
  <2> HIDE DEF First, t
  <2>7. Good(run[m], m)
    BY <2>4, <2>6
  <2> QED
    BY <2>1, <2>7 DEF m
<1>5. \A n \in 0 .. N : n \in G
  <2> HIDE DEF G, N
  <2> QED BY <1>2, <1>3, <1>4, CountingInduction
<1>6. Good(run[N], N)
  <2> HIDE DEF Good, N
  <2> QED BY <1>2, <1>5
<1>7. First(N) = {t \in Range(txs) : Takes(kind, skip, t)}
  BY <1>2 DEF Range
<1> HIDE DEF First
<1> QED
  BY <1>1, <1>6, <1>7 DEF PassRuns

\* Leaving out coinbases and what occurs twice is a pass.
LEMMA CandidatesPass ==
    ASSUME NEW txs
    PROVE  Candidates(txs) = PassOver("add", {}, txs)
<1> DEFINE S == DOMAIN txs
           Rec(g) == [p \in SUBSET S |->
                         IF p = {} THEN << >> ELSE add(g[p \ {Max(p)}], txs[Max(p)])]
           Run(g) == [p \in SUBSET S |->
                         IF p = {} THEN << >>
                         ELSE Pass("add", {}, g[p \ {Max(p)}], txs[Max(p)])]
<1>1. \A g : Rec(g) = Run(g)
  <2>1. \A l, t : add(l, t) = Pass("add", {}, l, t)
    BY DEF Pass
  <2> QED
    BY <2>1
<1>2. Candidates(txs) = (CHOOSE g : g = Rec(g))[S]
  BY DEF Candidates, FoldLeft, MapThenFoldSet
<1>3. PassOver("add", {}, txs) = (CHOOSE g : g = Run(g))[S]
  BY DEF PassOver, FoldLeft, MapThenFoldSet
<1> HIDE DEF Rec, Run
<1>4. (CHOOSE g : g = Rec(g)) = (CHOOSE g : g = Run(g))
  BY <1>1
<1> QED
  BY <1>2, <1>3, <1>4

\* So is leaving out the txs of a set.
LEMMA WithoutPass ==
    ASSUME NEW txs, NEW skip
    PROVE  Without(txs, skip) = PassOver("without", skip, txs)
<1> DEFINE S == DOMAIN txs
           Rec(g) == [p \in SUBSET S |->
                         IF p = {} THEN << >> ELSE Left(skip, g[p \ {Max(p)}], txs[Max(p)])]
           Run(g) == [p \in SUBSET S |->
                         IF p = {} THEN << >>
                         ELSE Pass("without", skip, g[p \ {Max(p)}], txs[Max(p)])]
<1>1. \A g : Rec(g) = Run(g)
  <2>1. \A l, t : Left(skip, l, t) = Pass("without", skip, l, t)
    BY DEF Pass, Left
  <2> QED
    BY <2>1
<1>2. Without(txs, skip) = (CHOOSE g : g = Rec(g))[S]
  BY DEF Without, Left, FoldLeft, MapThenFoldSet
<1>3. PassOver("without", skip, txs) = (CHOOSE g : g = Run(g))[S]
  BY DEF PassOver, FoldLeft, MapThenFoldSet
<1> HIDE DEF Rec, Run
<1>4. (CHOOSE g : g = Rec(g)) = (CHOOSE g : g = Run(g))
  BY <1>1
<1> QED
  BY <1>2, <1>3, <1>4

\* The two sorts are passes.
LEMMA ByTimePass ==
    ASSUME NEW txs
    PROVE  ByTime(txs) = PassOver("time", {}, txs)
<1> DEFINE S == DOMAIN txs
           Rec(g) == [p \in SUBSET S |->
                         IF p = {} THEN << >> ELSE InsertByTime(g[p \ {Max(p)}], txs[Max(p)])]
           Run(g) == [p \in SUBSET S |->
                         IF p = {} THEN << >>
                         ELSE Pass("time", {}, g[p \ {Max(p)}], txs[Max(p)])]
<1>1. \A g : Rec(g) = Run(g)
  <2>1. \A l, t : InsertByTime(l, t) = Pass("time", {}, l, t)
    BY DEF Pass
  <2> QED
    BY <2>1
<1>2. ByTime(txs) = (CHOOSE g : g = Rec(g))[S]
  BY DEF ByTime, StableSort, InsertByTime, FoldLeft, MapThenFoldSet
<1>3. PassOver("time", {}, txs) = (CHOOSE g : g = Run(g))[S]
  BY DEF PassOver, FoldLeft, MapThenFoldSet
<1> HIDE DEF Rec, Run
<1>4. (CHOOSE g : g = Rec(g)) = (CHOOSE g : g = Run(g))
  BY <1>1
<1> QED
  BY <1>2, <1>3, <1>4

LEMMA ByFeePass ==
    ASSUME NEW txs
    PROVE  ByFee(txs) = PassOver("fee", {}, txs)
<1> DEFINE S == DOMAIN txs
           Rec(g) == [p \in SUBSET S |->
                         IF p = {} THEN << >> ELSE InsertByFee(g[p \ {Max(p)}], txs[Max(p)])]
           Run(g) == [p \in SUBSET S |->
                         IF p = {} THEN << >>
                         ELSE Pass("fee", {}, g[p \ {Max(p)}], txs[Max(p)])]
<1>1. \A g : Rec(g) = Run(g)
  <2>1. \A l, t : InsertByFee(l, t) = Pass("fee", {}, l, t)
    BY DEF Pass
  <2> QED
    BY <2>1
<1>2. ByFee(txs) = (CHOOSE g : g = Rec(g))[S]
  BY DEF ByFee, StableSort, InsertByFee, FoldLeft, MapThenFoldSet
<1>3. PassOver("fee", {}, txs) = (CHOOSE g : g = Run(g))[S]
  BY DEF PassOver, FoldLeft, MapThenFoldSet
<1> HIDE DEF Rec, Run
<1>4. (CHOOSE g : g = Rec(g)) = (CHOOSE g : g = Run(g))
  BY <1>1
<1> QED
  BY <1>2, <1>3, <1>4

\* Sorted by time.
InTime(l) == \A i, j \in 1 .. Len(l) : i < j => ~(l[j].time < l[i].time)

LEMMA InsertInTime ==
    ASSUME NEW T, \A t \in T : t.time \in Int, NEW l \in Seq(T), NEW t \in T, InTime(l)
    PROVE  InTime(InsertByTime(l, t))
<1> DEFINE N == Len(l)
           S == {i \in DOMAIN l : ~(t.time < l[i].time)}
           k == Cardinality(S)
           r == InsertAt(l, 1 + k, t)
<1>1. N \in Nat /\ DOMAIN l = 1 .. N /\ \A i \in 1 .. N : l[i].time \in Int
  OBVIOUS
<1>2. S = 1 .. k
  <2>1. ASSUME NEW i \in S, NEW j \in 1 .. N, j < i PROVE j \in S
    <3>1. ~(l[i].time < l[j].time) /\ i \in 1 .. N
      BY <1>1, <2>1 DEF InTime
    <3> QED
      BY <1>1, <3>1
  <2>2. S \in SUBSET (1 .. N)
    BY <1>1
  <2> HIDE DEF S, N
  <2> QED
    BY <1>1, <2>1, <2>2, FirstPlaces
<1>3. k \in 0 .. N
  <2>1. S \in SUBSET (1 .. N)
    BY <1>1
  <2> HIDE DEF S, N
  <2> QED
    BY <1>1, <2>1, PlacesCount
<1>4. \A i \in 1 .. N : i \in 1 .. k <=> ~(t.time < l[i].time)
  BY <1>1, <1>2
<1>5. InsertByTime(l, t) = r
  BY DEF InsertByTime
<1> HIDE DEF S, k
<1>6. r \in Seq(T) /\ Inserted(r, l, k, t)
  BY <1>3, InsertIs
<1> HIDE DEF r, N
<1>7. /\ Len(r) = N + 1 /\ r[k + 1] = t
      /\ \A i \in 1 .. k : r[i] = l[i]
      /\ \A i \in k + 1 .. N : r[i + 1] = l[i]
  BY <1>6 DEF Inserted, N
<1>8. ASSUME NEW a \in 1 .. k PROVE ~(t.time < r[a].time) /\ r[a] = l[a] /\ a \in 1 .. N
  BY <1>1, <1>3, <1>4, <1>7
<1>9. ASSUME NEW b \in k + 2 .. N + 1
      PROVE  t.time < r[b].time /\ r[b] = l[b - 1] /\ b - 1 \in 1 .. N
  <2>1. b - 1 \in k + 1 .. N /\ b - 1 \in 1 .. N /\ (b - 1) + 1 = b /\ ~(b - 1 \in 1 .. k)
    BY <1>1, <1>3
  <2>2. r[(b - 1) + 1] = l[b - 1]
    BY <1>7, <2>1
  <2>3. t.time < l[b - 1].time
    BY <1>4, <2>1
  <2> QED
    BY <2>1, <2>2, <2>3
<1>10. \A i \in 1 .. N + 1 : i \in 1 .. k \/ i = k + 1 \/ i \in k + 2 .. N + 1
  BY <1>1, <1>3
<1>11. ASSUME NEW a \in 1 .. N + 1, NEW b \in 1 .. N + 1, a < b
       PROVE  ~(r[b].time < r[a].time)
  <2>1. t.time \in Int
    OBVIOUS
  <2>2. CASE a \in 1 .. k /\ b \in 1 .. k
    BY <1>8, <1>11, <2>2 DEF InTime, N
  <2>3. CASE a \in 1 .. k /\ b = k + 1
    BY <1>7, <1>8, <2>3
  <2>4. CASE a \in 1 .. k /\ b \in k + 2 .. N + 1
    <3>1. ~(t.time < r[a].time) /\ t.time < r[b].time /\ r[a].time \in Int /\ r[b].time \in Int
      BY <1>1, <1>8, <1>9, <2>4
    <3> QED
      BY <2>1, <3>1
  <2>5. CASE a = k + 1 /\ b \in k + 2 .. N + 1
    <3>1. t.time < r[b].time /\ r[b].time \in Int /\ r[a] = t
      BY <1>1, <1>7, <1>9, <2>5
    <3> QED
      BY <2>1, <3>1
  <2>6. CASE a \in k + 2 .. N + 1 /\ b \in k + 2 .. N + 1
    <3>1. a - 1 < b - 1 /\ a - 1 \in 1 .. N /\ b - 1 \in 1 .. N
      BY <1>9, <1>11, <2>6
    <3>2. ~(l[b - 1].time < l[a - 1].time)
      BY <3>1 DEF InTime, N
    <3> QED
      BY <1>9, <2>6, <3>2
  <2>7. ~(a = k + 1 /\ b \in 1 .. k) /\ ~(a = k + 1 /\ b = k + 1)
        /\ ~(a \in k + 2 .. N + 1 /\ (b \in 1 .. k \/ b = k + 1))
    BY <1>1, <1>3, <1>11
  <2> QED
    BY <1>10, <2>2, <2>3, <2>4, <2>5, <2>6, <2>7
<1>12. InTime(r)
  BY <1>7, <1>11 DEF InTime
<1> QED
  BY <1>5, <1>12

\* Sorting by time sorts by time, and keeps the txs.
LEMMA SortedByTime ==
    ASSUME NEW T, \A t \in T : t.time \in Int, NEW txs \in Seq(T)
    PROVE  /\ ByTime(txs) \in Seq(T) /\ Range(ByTime(txs)) = Range(txs)
           /\ InTime(ByTime(txs))
<1> DEFINE N == Len(txs)
<1>1. PICK run : PassRuns(run, "time", {}, txs)
  BY PassExists DEF Kinds
<1>2. N \in Nat /\ \A i \in 1 .. N : txs[i] \in T
  OBVIOUS
<1> DEFINE Good(l) == l \in Seq(T) /\ InTime(l)
           G == {n \in 0 .. N : Good(run[n])}
<1>3. 0 \in G
  <2>1. run[0] = << >> /\ << >> \in Seq(T) /\ InTime(<< >>)
    BY <1>1 DEF PassRuns, InTime
  <2>2. Good(run[0])
    BY <2>1
  <2> HIDE DEF N, Good
  <2> QED
    BY <1>2, <2>2
<1>4. ASSUME NEW n \in 0 .. N - 1, n \in G PROVE n + 1 \in G
  <2> DEFINE m == n + 1
             l == run[n]
             t == txs[m]
  <2>1. m \in 1 .. N /\ m - 1 = n /\ m \in 0 .. N /\ t \in T
    BY <1>2
  <2>2. run[m] = Pass("time", {}, l, t)
    BY <1>1, <2>1 DEF PassRuns
  <2>3. l \in Seq(T) /\ InTime(l)
    BY <1>4
  <2> HIDE DEF l, t, m
  <2>4. Pass("time", {}, l, t) \in Seq(T)
    BY <2>1, <2>3, PassTakes DEF Kinds
  <2>5. Pass("time", {}, l, t) = InsertByTime(l, t)
    BY DEF Pass
  <2>6. InTime(InsertByTime(l, t))
    BY <2>1, <2>3, InsertInTime
  <2>7. Good(run[m])
    BY <2>2, <2>4, <2>5, <2>6
  <2> QED
    BY <2>1, <2>7 DEF m
<1>5. \A n \in 0 .. N : n \in G
  <2> HIDE DEF G, N
  <2> QED BY <1>2, <1>3, <1>4, CountingInduction
<1>6. Good(run[N])
  <2> HIDE DEF Good, N
  <2> QED BY <1>2, <1>5
<1>7. ByTime(txs) = run[N]
  BY <1>1, ByTimePass DEF PassRuns
<1>8. Range(PassOver("time", {}, txs)) = {t \in Range(txs) : Takes("time", {}, t)}
  BY PassMakes DEF Kinds
<1>9. Range(ByTime(txs)) = Range(txs)
  BY <1>8, ByTimePass DEF Takes
<1> QED
  BY <1>6, <1>7, <1>9

\* Sorting by fee keeps the txs.
LEMMA SortedByFee ==
    ASSUME NEW T, NEW txs \in Seq(T)
    PROVE  ByFee(txs) \in Seq(T)
BY PassMakes, ByFeePass DEF Kinds

\* What Candidates and Without leave.
LEMMA CandidatesAre ==
    ASSUME NEW T, NEW txs \in Seq(T)
    PROVE  /\ Candidates(txs) \in Seq(T)
           /\ Range(Candidates(txs)) = {t \in Range(txs) : ~IsCoinbase(t)}
<1>1. /\ PassOver("add", {}, txs) \in Seq(T)
      /\ Range(PassOver("add", {}, txs)) = {t \in Range(txs) : Takes("add", {}, t)}
  BY PassMakes DEF Kinds
<1>2. \A t : Takes("add", {}, t) <=> ~IsCoinbase(t)
  BY DEF Takes
<1> QED
  BY <1>1, <1>2, CandidatesPass

LEMMA WithoutAre ==
    ASSUME NEW T, NEW txs \in Seq(T), NEW skip
    PROVE  /\ Without(txs, skip) \in Seq(T)
           /\ Range(Without(txs, skip)) = {t \in Range(txs) : ~IsCoinbase(t) /\ t \notin skip}
<1>1. /\ PassOver("without", skip, txs) \in Seq(T)
      /\ Range(PassOver("without", skip, txs)) = {t \in Range(txs) : Takes("without", skip, t)}
  BY PassMakes DEF Kinds
<1>2. \A t : Takes("without", skip, t) <=> ~IsCoinbase(t) /\ t \notin skip
  BY DEF Takes
<1> QED
  BY <1>1, <1>2, WithoutPass

\* A list of txs that Verify accepts, with amounts of the integer width.
Verified(l) == \E T : l \in Seq(T) /\ \A t \in T : FieldsFit(t) /\ Verify(t)

\* The mempool is a list of verified txs, all of it applies, and the cache agrees
\* with it.
PoolInv ==
    /\ Verified(mempool)
    /\ MempoolApplies
    /\ PendingMatches

\* What Keep installs is sound.
LEMMA KeptPool ==
    ASSUME NEW T, NEW txs \in Seq(T), NEW skip, Keep(state', txs, skip),
           \A t \in T \ skip : FieldsFit(t) /\ Verify(t)
    PROVE  PoolInv'
<1> DEFINE kept == ApplyUsable(state', txs, skip)
           N == Len(txs)
<1>1. mempool' = kept.kept /\ pending' = kept.state
  BY DEF Keep
<1>2. N \in Nat /\ DOMAIN txs = 1 .. N /\ \A i \in 1 .. N : txs[i] \in T
  OBVIOUS
<1> HIDE DEF N
<1>3. /\ kept.kept \in Seq(KeptOf(txs, N, skip))
      /\ ApplyInOrder(state', kept.kept).kept = kept.kept
      /\ ApplyInOrder(state', kept.kept).state = kept.state
  BY <1>2, KeptApplies
<1>4. \A t \in KeptOf(txs, N, skip) : FieldsFit(t) /\ Verify(t)
  BY <1>2 DEF KeptOf
<1> HIDE DEF kept
<1>5. Verified(kept.kept)
  BY <1>3, <1>4 DEF Verified
<1>6. Verified(mempool')
  BY <1>1, <1>5
<1>7. MempoolApplies' /\ PendingMatches'
  BY <1>1, <1>3 DEF MempoolApplies, PendingMatches
<1> QED
  BY <1>6, <1>7 DEF PoolInv, Verified

\* After a reorg the list is rebuilt from the old one and the abandoned chain.
LEMMA RebuiltPool ==
    ASSUME TreeInv, PoolInv, rebuildMempoolLocked
    PROVE  PoolInv'
<1> DEFINE txs == mempool \o RolledBack
           order == ByTime(Candidates(txs))
           skip == Confirmed(tip') \cup {t \in Range(order) : ~Verify(t)}
<1>1. PICK T : mempool \in Seq(T) /\ \A t \in T : FieldsFit(t) /\ Verify(t)
  BY DEF PoolInv, Verified
<1> DEFINE U == T \cup BlockTxs
<1>2. txs \in Seq(U)
  <2>1. mempool \in Seq(U) /\ RolledBack \in Seq(U)
    BY <1>1, RolledBackIsList
  <2> QED
    BY <2>1
<1>3. \A t \in U : FieldsFit(t)
  <2>1. \A t \in BlockTxs : FieldsFit(t)
    BY TableFits DEF BlockTxs, BlockFits
  <2> QED
    BY <1>1, <2>1
<1> HIDE DEF txs, U
<1>4. order \in Seq(U)
  <2>1. Candidates(txs) \in Seq(U)
    BY <1>2, CandidatesAre
  <2>2. \A t \in U : t.time \in Int
    BY <1>3 DEF FieldsFit
  <2> QED
    BY <2>1, <2>2, SortedByTime
<1>5. Keep(state', order, skip)
  BY Zenon DEF rebuildMempoolLocked, ByTime, txs
<1> HIDE DEF order
<1>6. order \in Seq(Range(order)) /\ Range(order) \subseteq U
  BY <1>4 DEF Range
<1>7. \A t \in Range(order) \ skip : FieldsFit(t) /\ Verify(t)
  BY <1>3, <1>6
<1> DEFINE R == Range(order)
<1>8. order \in Seq(R) /\ \A t \in R \ skip : FieldsFit(t) /\ Verify(t)
  BY <1>6, <1>7
<1> HIDE DEF skip, R
<1> QED
  BY <1>5, <1>8, KeptPool

\* The pending state AddTx and Send work on, below the cap.
LEMMA PendingIs ==
    ASSUME PoolInv, Len(mempool) < MaxMempool
    PROVE  pendingStateLocked = ApplyInOrder(state, mempool).state
BY DEF PoolInv, PendingMatches, pendingStateLocked

\* AddTx keeps the mempool sound, whether it takes the tx or not.
LEMMA AddTxPool ==
    ASSUME PoolInv, UNCHANGED state, NEW t, FieldsFit(t),
           AddTxSeen(t) \/ AddTxRejected(t) \/ AddTxFull(t) \/ AddTxAccepted(t)
    PROVE  PoolInv'
<1>0. PICK T : mempool \in Seq(T) /\ \A x \in T : FieldsFit(x) /\ Verify(x)
  BY DEF PoolInv, Verified
<1>1. CASE AddTxSeen(t)
  BY <1>1 DEF AddTxSeen, pool, PoolInv, Verified, MempoolApplies, PendingMatches
<1>2. CASE AddTxRejected(t)
  BY <1>2, PendingIs DEF AddTxRejected, PoolInv, Verified, MempoolApplies, PendingMatches
<1>3. CASE AddTxFull(t)
  <2>1. Len(mempool) \in Nat /\ MaxMempool \in Nat
    BY <1>0, NodeAssumption
  <2>2. mempool' = mempool /\ ~(Len(mempool) < MaxMempool)
    BY <1>3, <2>1 DEF AddTxFull
  <2> QED
    BY <2>2 DEF PoolInv, Verified, MempoolApplies, PendingMatches
<1>4. CASE AddTxAccepted(t)
  <2> DEFINE acc == ApplyInOrder(state, mempool)
             more == Append(mempool, t)
  <2>1. /\ pendingStateLocked = acc.state /\ acc.kept = mempool
        /\ mempool' = more /\ pending' = ApplyTx(acc.state, t)
        /\ ApplyTx(acc.state, t) # Invalid
    BY <1>4, PendingIs DEF AddTxAccepted, PoolInv, MempoolApplies
  <2>2. ApplyInOrder(state, more) = KeepApplicable(acc, t, {})
    BY <1>0, OneMoreApplies
  <2>3. KeepApplicable(acc, t, {}) = [state |-> ApplyTx(acc.state, t), kept |-> more]
    BY <2>1 DEF KeepApplicable
  <2>4. Verified(more)
    <3> DEFINE U == T \cup {t}
    <3>1. mempool \in Seq(U) /\ t \in U
      BY <1>0
    <3>2. \A x \in U : FieldsFit(x) /\ Verify(x)
      BY <1>0, <1>4 DEF AddTxAccepted, ValidateTx
    <3> HIDE DEF U
    <3>3. more \in Seq(U)
      BY <3>1
    <3> QED
      BY <3>2, <3>3 DEF Verified
  <2> HIDE DEF acc, more
  <2>5. Verified(mempool')
    BY <2>1, <2>4
  <2>6. MempoolApplies' /\ PendingMatches'
    BY <2>1, <2>2, <2>3 DEF MempoolApplies, PendingMatches
  <2> QED
    BY <2>5, <2>6 DEF PoolInv, Verified
<1> QED
  BY <1>1, <1>2, <1>3, <1>4

\* The amounts of a signed tx are those Send was asked for.
SendsFit ==
    /\ sends = [c \in Client |-> [stage |-> sends[c].stage, tx |-> sends[c].tx]]
    /\ \A c \in Client : sends[c].stage # "idle" => FieldsFit(sends[c].tx)

LEMMA SendsFitStep ==
    ASSUME TreeInv, SendsFit, [NodeNext]_nodeVars
    PROVE  SendsFit'
<1>1. CASE sends' = sends
  BY <1>1 DEF SendsFit
<1>2. CASE sends' = [c \in Client |-> Idle]
  BY <1>2 DEF SendsFit, Idle
<1>3. ASSUME NEW c \in Client, NEW p \in Payment, SendSign(c, p) PROVE SendsFit'
  <2> DEFINE t == [from |-> Wallet, to |-> p.to, amount |-> p.amount,
                   fee |-> p.fee, nonce |-> pendingStateLocked[Wallet].nonce,
                   time |-> now, auth |-> "valid"]
  <2>1. sends' = [sends EXCEPT ![c] = [stage |-> "signed", tx |-> t]]
    BY <1>3 DEF SendSign
  <2>2. FieldsFit(t)
    <3>1. now \in 0 .. MaxTime
      BY DEF TreeInv, TypeOK
    <3>2. now \in Int
      BY <3>1
    <3> QED
      BY <3>2, NodeAssumption DEF FieldsFit, Uint64
  <2> HIDE DEF t
  <2> QED
    BY <2>1, <2>2 DEF SendsFit
<1>4. ASSUME NEW c \in Client, SendAdd(c) PROVE SendsFit'
  <2>1. PICK stage : sends' = [sends EXCEPT ![c] = [sends[c] EXCEPT !.stage = stage]]
    BY <1>4 DEF SendAdd
  <2>2. FieldsFit(sends[c].tx)
    BY <1>4 DEF SendAdd, SendsFit
  <2>3. sends[c] = [stage |-> sends[c].stage, tx |-> sends[c].tx]
    BY DEF SendsFit
  <2>4. sends' = [sends EXCEPT ![c] = [stage |-> stage, tx |-> sends[c].tx]]
    <3>1. \A x, t : [[stage |-> x, tx |-> t] EXCEPT !.stage = stage] = [stage |-> stage, tx |-> t]
      OBVIOUS
    <3>2. [sends[c] EXCEPT !.stage = stage] = [stage |-> stage, tx |-> sends[c].tx]
      BY <2>3, <3>1
    <3> QED
      BY <2>1, <3>2
  <2> QED
    BY <2>2, <2>4 DEF SendsFit
<1> QED
  BY <1>1, <1>2, <1>3, <1>4 DEF NodeNext, PoolLost, dropConfirmedLocked,
     rebuildMempoolLocked, Keep, pool, onNewTx, nodeVars

\* Every step of the node keeps the mempool sound.
LEMMA PoolStep ==
    ASSUME TreeInv, PoolInv, SendsFit, [NodeNext]_nodeVars
    PROVE  PoolInv'
<1>0. ASSUME mempool' = << >>, pending' = Nil \/ pendingDirty' PROVE PoolInv'
  <2>1. ApplyInOrder(state', << >>).kept = << >> /\ << >> \in Seq({})
    BY NothingApplies
  <2>2. Verified(mempool')
    BY <1>0, <2>1 DEF Verified
  <2> QED
    BY <1>0, <2>1, <2>2 DEF PoolInv, Verified, MempoolApplies, PendingMatches
<1>1. ASSUME UNCHANGED <<state, pool>> PROVE PoolInv'
  BY <1>1 DEF pool, PoolInv, Verified, MempoolApplies, PendingMatches
<1>2. CASE /\ NewFresh \/ NewFromDisk \/ Tick \/ Arrival
              \/ BootDone \/ Insertion \/ ForkChoice
           /\ UNCHANGED <<pool, sends>>
  <2>1. UNCHANGED state
    BY <1>2 DEF NewFresh, NewFromDisk, Tick, Arrival, SubmitSolution, acceptRemoteBlock,
        BootDone, Insertion, InsertKnown, InsertRefused, InsertGenesis, InsertOrphan,
        InsertBlock, ForkChoice, KeepTip, RejectExtension, StartReplay, ReplayBlock,
        ReplayFails, memory
  <2> QED
    BY <1>1, <1>2, <2>1
<1>3. CASE (Crash \/ \E b \in Hash : BootFails(b)) /\ PoolLost
  BY <1>0, <1>3 DEF PoolLost
<1>4. ASSUME NEW b \in Hash, ExtendTip(b), dropConfirmedLocked(b) PROVE PoolInv'
  <2>1. CASE mempool = << >>
    BY <1>0, <1>4, <2>1 DEF dropConfirmedLocked
  <2>2. CASE mempool # << >>
    <3> DEFINE skip == Range(Block[b].txs)
    <3>1. PICK T : mempool \in Seq(T) /\ \A t \in T : FieldsFit(t) /\ Verify(t)
      BY DEF PoolInv, Verified
    <3>2. Keep(state', mempool, skip)
      BY <1>4, <2>2 DEF dropConfirmedLocked
    <3> HIDE DEF skip
    <3> QED
      BY <3>1, <3>2, KeptPool
  <2> QED
    BY <2>1, <2>2
<1>5. CASE CommitChain /\ rebuildMempoolLocked
  BY <1>5, RebuiltPool
<1>6. ASSUME NEW t \in Tx, onNewTx(t) PROVE PoolInv'
  <2>1. FieldsFit(t)
    BY NodeAssumption DEF FieldsFit, Uint64
  <2> QED
    BY <1>6, <2>1, AddTxPool DEF onNewTx, vars, memory
<1>7. ASSUME NEW c \in Client, NEW p \in Payment, SendSign(c, p) PROVE PoolInv'
  BY <1>7, PendingIs DEF SendSign, vars, memory, PoolInv, Verified, MempoolApplies, PendingMatches
<1>8. ASSUME NEW c \in Client, SendAdd(c) PROVE PoolInv'
  <2>1. FieldsFit(sends[c].tx)
    BY <1>8 DEF SendAdd, SendsFit
  <2> QED
    BY <1>8, <2>1, AddTxPool DEF SendAdd, vars, memory
<1>9. CASE UNCHANGED nodeVars
  BY <1>1, <1>9 DEF nodeVars, vars, memory
<1> QED
  BY <1>2, <1>3, <1>4, <1>5, <1>6, <1>7, <1>8, <1>9 DEF NodeNext

\* The mempool of a running node is sound.
LEMMA PoolInvariant == NodeSpec => []PoolInv
<1>1. NodeInit => PoolInv /\ SendsFit
  <2>1. ApplyInOrder(state, << >>).kept = << >> /\ << >> \in Seq({})
    BY NothingApplies
  <2> QED
    BY <2>1 DEF NodeInit, PoolInv, Verified, MempoolApplies, PendingMatches, SendsFit, Idle
<1>2. TreeSpec => []TreeInv
  BY InitInv, NextInv, PTL DEF TreeSpec
<1>3. TreeInv /\ PoolInv /\ SendsFit /\ [NodeNext]_nodeVars => PoolInv' /\ SendsFit'
  BY PoolStep, SendsFitStep
<1> QED
  BY <1>1, <1>2, <1>3, NodeImplementsTree, PTL DEF NodeSpec

\* All txs of the mempool apply to the confirmed state, one after the other,
\* whatever the peers, the wallet and the tree do and in whatever order (AddTx,
\* revalidateMempoolLocked, rebuildMempoolLocked).
THEOREM MempoolAlwaysApplies == NodeSpec => []MempoolApplies
BY PoolInvariant, PTL DEF PoolInv

\* Below the cap the cached pending state is the confirmed state with the whole
\* mempool applied (pendingStateLocked and its writers).
THEOREM PendingAlwaysMatches == NodeSpec => []PendingMatches
BY PoolInvariant, PTL DEF PoolInv

-----------------------------------------------------------------------------
(***************************************************************************)
(* The template of the miner.                                              *)
(***************************************************************************)

\* No block of the tree is further ahead of the clock than allowed.
TimesPassed == \A b \in Known : Block[b].time <= now + MaxFutureTime

\* Blocks join the tree only when they are not, and the clock moves forward.
LEMMA TimesPassedStep ==
    ASSUME Block[Genesis].time <= MaxFutureTime,
           TreeInv, TimesPassed, [Next]_vars, TreeInv'
    PROVE  TimesPassed'
<1>1. now \in Nat /\ now' \in Nat /\ now' >= now
  BY ClockForward DEF TreeInv
<1>2. MaxFutureTime \in Nat /\ Genesis \in Hash /\ Known \subseteq Hash
      /\ \A b \in Hash : Block[b].time \in Int
  BY BlockAssumption, ChainAssumption DEF TreeInv, TypeOK
<1>3. ASSUME NEW b \in Hash, Block[b].time <= now + MaxFutureTime
      PROVE  Block[b].time <= now' + MaxFutureTime
  BY <1>1, <1>2, <1>3
<1>4. CASE Known' \subseteq Known
  BY <1>2, <1>3, <1>4 DEF TimesPassed
<1>5. CASE Known' \subseteq {Genesis}
  BY <1>1, <1>2, <1>5 DEF TimesPassed
<1>6. ASSUME NEW b \in Hash, AcceptableBlock(b), Known' = Known \cup {b}
      PROVE  TimesPassed'
  <2>1. Block[b].time <= now + MaxFutureTime
    BY <1>6 DEF AcceptableBlock, ValidateBasic
  <2> QED
    BY <1>2, <1>3, <1>6, <2>1 DEF TimesPassed
<1> QED
  BY <1>4, <1>5, <1>6, TreeGrows

\* The larger and the smaller of two numbers.
LEMMA MaxMinOfTwo ==
    ASSUME NEW x \in Int, NEW y \in Int
    PROVE  /\ Max({x, y}) \in {x, y} /\ Max({x, y}) >= x /\ Max({x, y}) >= y
           /\ Min({x, y}) \in {x, y} /\ Min({x, y}) <= x /\ Min({x, y}) <= y
<1>1. \E z \in {x, y} : \A w \in {x, y} : z >= w
  OBVIOUS
<1>2. \E z \in {x, y} : \A w \in {x, y} : z <= w
  OBVIOUS
<1>3. Max({x, y}) \in {x, y} /\ \A w \in {x, y} : Max({x, y}) >= w
  BY <1>1 DEF Max
<1>4. Min({x, y}) \in {x, y} /\ \A w \in {x, y} : Min({x, y}) <= w
  BY <1>2 DEF Min
<1> QED
  BY <1>3, <1>4

\* The beginning of a list that applies also applies.
LEMMA PrefixSteps ==
    ASSUME NEW T, NEW l \in Seq(T), NEW m \in 0 .. Len(l), NEW s, NEW st, Steps(st, s, l)
    PROVE  /\ SubSeq(l, 1, m) \in Seq(T) /\ Len(SubSeq(l, 1, m)) = m
           /\ Steps(st, s, SubSeq(l, 1, m))
<1> DEFINE k == SubSeq(l, 1, m)
<1>1. /\ k \in Seq(T) /\ Len(k) = m
      /\ \A n \in 1 .. m : k[n] = l[n] /\ n \in 1 .. Len(l)
  OBVIOUS
<1> HIDE DEF k
<1>2. Steps(st, s, k)
  BY <1>1 DEF Steps
<1> QED
  BY <1>1, <1>2 DEF k

\* The payments of the template: verified, few enough, and each of them applies
\* in its turn.
LEMMA CandidateTxsSound ==
    ASSUME PoolInv
    PROVE  \E T : /\ CandidateTxs \in Seq(T)
                  /\ \A t \in T : FieldsFit(t) /\ Verify(t) /\ ~IsCoinbase(t)
                  /\ Len(CandidateTxs) \in 0 .. MaxTxsPerBlock - 1
                  /\ \E st : Steps(st, state, CandidateTxs)
<1>1. PICK T : mempool \in Seq(T) /\ \A t \in T : FieldsFit(t) /\ Verify(t)
  BY DEF PoolInv, Verified
<1> DEFINE sorted == ByFee(mempool)
           N == Len(sorted)
           txs == ApplyInOrder(state, sorted).kept
           K == KeptOf(sorted, N, {})
<1>2. sorted \in Seq(T)
  BY <1>1, SortedByFee
<1> HIDE DEF sorted
<1>3. N \in Nat /\ DOMAIN sorted = 1 .. N /\ \A i \in 1 .. N : sorted[i] \in T
  BY <1>2
<1>4. \A t \in K : FieldsFit(t) /\ Verify(t) /\ ~IsCoinbase(t)
  <2> HIDE DEF N
  <2> QED BY <1>1, <1>3 DEF KeptOf
<1>5. txs \in Seq(K) /\ \E st : Steps(st, state, txs)
  <2> HIDE DEF N
  <2> QED BY <1>3, KeptApplies DEF ApplyInOrder
<1>6. PICK st : Steps(st, state, txs)
  BY <1>5
<1> DEFINE x == Len(txs)
           y == MaxTxsPerBlock - 1
           m == Min({x, y})
<1>7. CandidateTxs = SubSeq(txs, 1, m)
  BY DEF CandidateTxs, ByFee, sorted
<1>8. x \in Nat /\ y \in Nat
  <2> HIDE DEF txs, K
  <2> QED BY <1>5, ChainAssumption
<1> HIDE DEF txs, K
<1>9. m \in 0 .. x /\ m \in 0 .. y
  <2> HIDE DEF x, y
  <2>1. x \in Int /\ y \in Int
    BY <1>8
  <2>2. m \in {x, y} /\ m <= x /\ m <= y
    BY <2>1, MaxMinOfTwo
  <2> HIDE DEF m
  <2> QED
    BY <1>8, <2>2
<1>10. /\ SubSeq(txs, 1, m) \in Seq(K) /\ Len(SubSeq(txs, 1, m)) = m
       /\ Steps(st, state, SubSeq(txs, 1, m))
  <2> HIDE DEF m
  <2> QED BY <1>5, <1>6, <1>9, PrefixSteps
<1> HIDE DEF m
<1> QED
  BY <1>4, <1>7, <1>9, <1>10

\* The coinbase of the template.
TemplateCoinbase(time) ==
    [from |-> CoinbaseAddress, to |-> Wallet,
     amount |-> Add64(RewardAt(Height(tip) + 1), FeeSum(CandidateTxs)), fee |-> 0,
     nonce |-> Height(tip) + 1, time |-> time, auth |-> "none"]

\* The fields of the template that the checks of a block look at.
LEMMA TemplateFields ==
    LET b == BuildCandidate(Wallet)
        time == Max({now, Block[tip].time + 1})
    IN  /\ b.height = Height(tip) + 1 /\ b.time = time /\ b.miner = Wallet /\ b.merkleOk
        /\ b.txs = <<TemplateCoinbase(time)>> \o CandidateTxs
<1> DEFINE fees == FoldLeft(LAMBDA sum, t : Add64(sum, t.fee), 0, CandidateTxs)
           time == Max({now, Block[tip].time + 1})
           cb == [from |-> CoinbaseAddress, to |-> Wallet,
                  amount |-> Add64(RewardAt(Height(tip) + 1), fees), fee |-> 0,
                  nonce |-> Height(tip) + 1, time |-> time, auth |-> "none"]
           diff == NextDifficulty(Block[tip], anchorLocked(tip))
           txs == <<cb>> \o CandidateTxs
<1>1. fees = FeeSum(CandidateTxs)
  BY DEF FeeSum, FoldLeft, MapThenFoldSet
<1>2. BuildCandidate(Wallet) =
         [height |-> Height(tip) + 1, prev |-> tip, time |-> time,
          difficulty |-> diff, miner |-> Wallet, txs |-> txs,
          merkleOk |-> TRUE, powOk |-> TRUE]
  BY Zenon DEF BuildCandidate
<1> HIDE DEF fees
<1>3. cb = TemplateCoinbase(time)
  BY <1>1 DEF TemplateCoinbase
<1> HIDE DEF cb, time, diff
<1>4. txs = <<TemplateCoinbase(time)>> \o CandidateTxs
  BY <1>3
<1> HIDE DEF txs
<1> QED
  BY <1>2, <1>4 DEF time

\* A coinbase in front of a list.
LEMMA InFront ==
    ASSUME NEW T, NEW l \in Seq(T), NEW cb
    PROVE  LET txs == <<cb>> \o l
           IN  /\ txs # << >> /\ txs[1] = cb /\ Head(txs) = cb /\ Tail(txs) = l
               /\ Len(txs) = Len(l) + 1
               /\ \A i \in 2 .. Len(txs) : txs[i] \in T
<1> DEFINE U == T \cup {cb}
           N == Len(l)
           txs == <<cb>> \o l
<1>1. l \in Seq(U) /\ <<cb>> \in Seq(U) /\ Len(<<cb>>) = 1 /\ <<cb>>[1] = cb
  OBVIOUS
<1>2. N \in Nat /\ \A i \in 1 .. N : l[i] \in T
  OBVIOUS
<1> HIDE DEF U
<1>3. /\ txs \in Seq(U) /\ Len(txs) = N + 1 /\ txs[1] = cb
      /\ \A i \in 1 .. N : txs[i + 1] = l[i]
  BY <1>1, <1>2
<1> HIDE DEF txs
<1>4. txs # << >> /\ Head(txs) = cb
  BY <1>2, <1>3
<1>5. Tail(txs) = l
  <2>1. Tail(txs) \in Seq(U) /\ Len(Tail(txs)) = N
    BY <1>2, <1>3, <1>4
  <2>2. \A i \in 1 .. N : Tail(txs)[i] = l[i]
    BY <1>2, <1>3, <1>4
  <2> QED
    BY <1>1, <2>1, <2>2
<1>6. ASSUME NEW i \in 2 .. Len(txs) PROVE txs[i] \in T
  <2>1. i - 1 \in 1 .. N /\ (i - 1) + 1 = i
    BY <1>2, <1>3
  <2>2. txs[(i - 1) + 1] = l[i - 1]
    BY <1>3, <2>1
  <2> QED
    BY <1>2, <2>1, <2>2
<1> QED
  BY <1>3, <1>4, <1>5, <1>6 DEF txs

\* The reward of the block after the tip is not 0, or its payments carry fees.
CandidatePays == RewardAt(Height(tip) + 1) # 0 \/ FeeSum(CandidateTxs) # 0

\* What the template pays its miner is what the block may pay: neither the sum of
\* the fees nor the reward on top of them wraps around.
LEMMA TemplateApplies ==
    ASSUME TreeInv, BranchesIssue, PoolInv, tip # Nil, CandidatePays
    PROVE  ApplyBlock(state, BuildCandidate(Wallet)) # Invalid
<1> DEFINE h == Height(tip)
           b == BuildCandidate(Wallet)
           c == CandidateTxs
           time == Max({now, Block[tip].time + 1})
           cb == TemplateCoinbase(time)
           reward == RewardAt(h + 1)
           fees == FeeSum(c)
           acc == FoldLeft(ApplyVerified, [state |-> state, fees |-> 0], c)
<1>1. /\ tip \in Known /\ state = Replay[tip] /\ state # Invalid
      /\ tip \in Hash /\ state \in Accounts
  BY ReplayAssumption DEF TreeInv, ChainSound, StateIsReplay, TypeOK
<1>2. h \in Nat
  BY <1>1, TableFits
<1>3. Supply(state) = Issued(h) /\ Issued(h) \in Nat
  BY <1>1, <1>2, IssuedStep DEF BranchesIssue
<1>4. reward \in Nat /\ Issued(h) + reward <= MaxUint64 /\ MaxUint64 \in Nat
  <2> DEFINE k == h + 1
  <2>1. k \in Nat /\ Issued(k) = Issued(h) + RewardAt(k)
    BY <1>2, IssuedStep
  <2> HIDE DEF k
  <2>2. RewardAt(k) \in Nat /\ Issued(k) <= MaxUint64
    BY <2>1, RewardIs, IssuanceFits
  <2> QED
    BY <2>1, <2>2, LedgerAssumption DEF k
<1>5. PICK T : /\ c \in Seq(T)
               /\ \A t \in T : FieldsFit(t) /\ Verify(t) /\ ~IsCoinbase(t)
               /\ \E st : Steps(st, state, c)
  BY CandidateTxsSound
<1> HIDE DEF h, c, reward, time
<1>6. acc.state \in Accounts /\ acc.fees = fees /\ fees \in Nat /\ fees <= Supply(state)
  <2>1. PICK st : Steps(st, state, c)
    BY <1>5
  <2>2. Supply(state) <= MaxUint64
    BY <1>3, <1>4
  <2> DEFINE s == state
  <2>3. s \in Accounts /\ Supply(s) <= MaxUint64 /\ Steps(st, s, c)
    BY <1>1, <2>1, <2>2
  <2> HIDE DEF s
  <2>4. LET a == FoldLeft(ApplyVerified, [state |-> s, fees |-> 0], c)
        IN  /\ a.state \in Accounts /\ a.fees = FeeSum(c)
            /\ a.fees \in Nat /\ a.fees <= Supply(s)
    BY <1>5, <2>3, TemplatePays
  <2> QED
    BY <2>4 DEF s
<1>7. /\ b.height = h + 1 /\ b.txs = <<cb>> \o c
      /\ cb.from = CoinbaseAddress /\ cb.to = Wallet /\ cb.fee = 0 /\ cb.auth = "none"
      /\ cb.amount = Add64(reward, fees)
  BY TemplateFields DEF TemplateCoinbase, h, c, reward, time
<1>8. reward # 0 \/ fees # 0
  BY DEF CandidatePays, h, c, reward
<1> HIDE DEF acc, fees, cb, b
<1>9. cb.amount = reward + fees /\ cb.amount # 0 /\ cb.amount \in Nat
  <2>1. reward \in Uint64 /\ fees \in Uint64 /\ reward + fees <= MaxUint64
    BY <1>3, <1>4, <1>6 DEF Uint64
  <2>2. Add64(reward, fees) = reward + fees
    BY <2>1, AddWraps
  <2> QED
    BY <1>4, <1>6, <1>7, <1>8, <2>2
<1>10. b.txs # << >> /\ Head(b.txs) = cb /\ Tail(b.txs) = c
  BY <1>5, <1>7, InFront
<1>11. Wallet \in Address
  BY NodeAssumption
<1>12. IsCoinbase(cb) /\ Verify(cb)
  BY <1>7, <1>9, <1>11 DEF IsCoinbase, Verify
<1>13. CoinbasePays(b, acc.fees)
  BY <1>6, <1>7, <1>10 DEF CoinbasePays, reward
<1>14. acc.state # Invalid
  BY <1>6, ReplayAssumption
<1>15. FoldLeft(ApplyVerified, [state |-> state, fees |-> 0], Tail(b.txs)) = acc
  BY <1>10 DEF acc
<1>16. ApplyBlock(state, b) = Credit(acc.state, cb.to, cb.amount)
  BY <1>10, <1>12, <1>13, <1>14, <1>15 DEF ApplyBlock
<1>17. Credit(acc.state, cb.to, cb.amount) \in Accounts
  BY <1>6, <1>7, <1>9, <1>11, CreditAdds
<1> QED
  BY <1>16, <1>17, ReplayAssumption DEF b

\* The template passes the structural checks as soon as the clock has advanced.
LEMMA TemplateIsBasic ==
    ASSUME TreeInv, PoolInv, TimesPassed, tip # Nil
    PROVE  ValidateBasic(BuildCandidate(Wallet), Block[tip], now + 1)
<1> DEFINE b == BuildCandidate(Wallet)
           c == CandidateTxs
           time == Max({now, Block[tip].time + 1})
           cb == TemplateCoinbase(time)
<1>1. tip \in Known /\ tip \in Hash
  BY DEF TreeInv, ChainSound, StateIsReplay, TypeOK
<1>2. now \in Nat
  <2>1. MaxTime \in Nat
    BY BlockAssumption
  <2>2. now \in 0 .. MaxTime
    BY DEF TreeInv, TypeOK
  <2> QED
    BY <2>1, <2>2
<1>3. /\ Block[tip].time \in Int /\ Block[tip].time <= now + MaxFutureTime
      /\ MaxFutureTime \in Nat /\ MaxTxsPerBlock \in Nat \ {0}
  BY <1>1, BlockAssumption, ChainAssumption DEF TimesPassed
<1>4. PICK T : /\ c \in Seq(T) /\ \A t \in T : ~IsCoinbase(t)
               /\ Len(c) \in 0 .. MaxTxsPerBlock - 1
  BY CandidateTxsSound
<1>5. time \in Int /\ time > Block[tip].time /\ time <= now + 1 + MaxFutureTime
  <2> DEFINE x == now
             y == Block[tip].time + 1
  <2>1. x \in Int /\ y \in Int
    BY <1>2, <1>3
  <2> HIDE DEF x, y
  <2>2. Max({x, y}) \in {x, y} /\ Max({x, y}) >= y
    BY <2>1, MaxMinOfTwo
  <2>3. time = Max({x, y})
    BY DEF x, y
  <2> HIDE DEF time
  <2> QED
    BY <1>2, <1>3, <2>1, <2>2, <2>3 DEF x, y
<1> HIDE DEF c
<1>6. /\ b.height = Height(tip) + 1 /\ b.time = time /\ b.miner = Wallet /\ b.merkleOk
      /\ b.txs = <<cb>> \o c
  BY TemplateFields DEF c
<1>7. IsCoinbase(cb)
  BY DEF IsCoinbase, TemplateCoinbase
<1>8. Block[tip].height + 1 = Height(tip) + 1 /\ Wallet \in Address
  BY NodeAssumption DEF Height
<1> HIDE DEF b, cb, time
<1>9. /\ b.txs # << >> /\ b.txs[1] = cb /\ Len(b.txs) = Len(c) + 1
      /\ \A i \in 2 .. Len(b.txs) : b.txs[i] \in T
  BY <1>4, <1>6, InFront
<1>10. Len(b.txs) <= MaxTxsPerBlock
  BY <1>3, <1>4, <1>9
<1>11. \A i \in 2 .. Len(b.txs) : ~IsCoinbase(b.txs[i])
  BY <1>4, <1>9
<1>12. ValidateBasic(b, Block[tip], now + 1)
  BY <1>5, <1>6, <1>7, <1>8, <1>9, <1>10, <1>11 DEF ValidateBasic
<1> QED
  BY <1>12 DEF b

\* The block BuildCandidate hands to the miner would be accepted, whatever the
\* mempool holds and whatever was reorganised before, as long as it pays its
\* miner anything (Verify refuses a coinbase of amount 0): the payments left
\* after the sort by fee apply one after the other, the coinbase is exactly what
\* ApplyBlock recomputes, and no sum wraps around.  Genesis must not lie further
\* ahead of the clock than a block may.
THEOREM CandidateAlwaysApplies ==
    ASSUME Block[Genesis].time <= MaxFutureTime
    PROVE  NodeSpec => [](CandidatePays => CandidateApplies)
<1>1. Init => BranchesIssue /\ TimesPassed
  BY InitInv, EmptyTypes DEF Init, BranchesIssue, TimesPassed, Known
<1>2. TreeInv /\ BranchesIssue /\ TimesPassed /\ [Next]_vars /\ TreeInv'
      => BranchesIssue' /\ TimesPassed'
  BY BranchesIssueStep, TimesPassedStep
<1>3. TreeSpec => []TreeInv
  BY InitInv, NextInv, PTL DEF TreeSpec
<1>4. TreeSpec => [](TreeInv /\ BranchesIssue /\ TimesPassed)
  BY <1>1, <1>2, <1>3, PTL DEF TreeSpec
<1>5. TreeInv /\ BranchesIssue /\ TimesPassed /\ PoolInv
      => (CandidatePays => CandidateApplies)
  BY TemplateApplies, TemplateIsBasic DEF CandidateApplies
<1> QED
  BY <1>4, <1>5, NodeImplementsTree, PoolInvariant, PTL
-----------------------------------------------------------------------------
(***************************************************************************)
(* A reorg: what is still valid returns.                                   *)
(***************************************************************************)

\* Txs that apply one after the other carry nonces their senders have not used.
LEMMA StepsAhead ==
    ASSUME NEW s \in Accounts, NEW T, \A t \in T : FieldsFit(t) /\ Verify(t),
           NEW l \in Seq(T), NEW st, Steps(st, s, l)
    PROVE  \A n \in 1 .. Len(l) : /\ l[n].from \in Address /\ l[n].nonce \in Nat
                                  /\ s[l[n].from].nonce <= l[n].nonce
<1> DEFINE N == Len(l)
           Grown(u) == u \in Accounts /\ \A x \in Address : s[x].nonce <= u[x].nonce
           G == {n \in 0 .. N : Grown(st[n])}
<1>1. N \in Nat /\ \A n \in 1 .. N : l[n] \in T
  OBVIOUS
<1>2. \A n \in 1 .. N : st[n] = ApplyTx(st[n - 1], l[n]) /\ st[n] # Invalid
  BY DEF Steps
<1> HIDE DEF N
<1>3. 0 \in G
  <2>1. \A x \in Address : s[x].nonce \in Nat
    BY DEF Accounts
  <2>2. Grown(s)
    BY <2>1
  <2>3. st[0] = s
    BY DEF Steps
  <2> HIDE DEF Grown
  <2> QED
    BY <1>1, <2>2, <2>3
<1>4. ASSUME NEW n \in 1 .. N, Grown(st[n - 1])
      PROVE  /\ Grown(st[n])
             /\ l[n].from \in Address /\ l[n].nonce \in Nat
             /\ s[l[n].from].nonce <= l[n].nonce
  <2> DEFINE u == st[n - 1]
             v == st[n]
             t == l[n]
  <2>1. u \in Accounts /\ v = ApplyTx(u, t) /\ v # Invalid /\ FieldsFit(t) /\ Verify(t)
    BY <1>1, <1>2, <1>4
  <2>2. \A x \in Address : s[x].nonce <= u[x].nonce
    BY <1>4
  <2> HIDE DEF u, v, t
  <2>3. /\ t.from \in Address /\ t.nonce = u[t.from].nonce
        /\ v[t.from].nonce = u[t.from].nonce + 1
        /\ \A c \in Address \ {t.from} : v[c].nonce = u[c].nonce
    BY <2>1, PaymentCounts
  <2>4. v \in Accounts
    BY <2>1, PaymentMoves
  <2>5. \A x \in Address : s[x].nonce \in Nat /\ u[x].nonce \in Nat
    BY <2>1 DEF Accounts
  <2>6. \A x \in Address : s[x].nonce <= v[x].nonce
    BY <2>2, <2>3, <2>5
  <2> QED
    BY <2>2, <2>3, <2>4, <2>5, <2>6 DEF v, t
<1>5. ASSUME NEW n \in 0 .. N - 1, n \in G PROVE n + 1 \in G
  <2>1. n + 1 \in 1 .. N /\ (n + 1) - 1 = n /\ n + 1 \in 0 .. N
    BY <1>1
  <2> HIDE DEF Grown
  <2> QED
    BY <1>4, <1>5, <2>1
<1>6. \A n \in 0 .. N : n \in G
  <2> HIDE DEF G
  <2> QED BY <1>1, <1>3, <1>5, CountingInduction
<1>7. \A n \in 1 .. N : Grown(st[n - 1])
  <2>1. \A n \in 1 .. N : n - 1 \in 0 .. N
    BY <1>1
  <2> HIDE DEF Grown
  <2> QED
    BY <1>6, <2>1
<1> HIDE DEF Grown
<1> QED
  BY <1>4, <1>7 DEF N

\* The payments in the mempool have nonces that the active chain has not used.
LEMMA MempoolAhead ==
    ASSUME PoolInv, state \in Accounts, NEW t \in Range(mempool)
    PROVE  /\ FieldsFit(t) /\ Verify(t) /\ t.from \in Address /\ t.nonce \in Nat
           /\ state[t.from].nonce <= t.nonce
<1>1. PICK T : mempool \in Seq(T) /\ \A x \in T : FieldsFit(x) /\ Verify(x)
  BY DEF PoolInv, Verified
<1> DEFINE N == Len(mempool)
<1>2. N \in Nat /\ DOMAIN mempool = 1 .. N
  BY <1>1
<1>3. \E st : Steps(st, state, mempool)
  <2>1. ApplyUsable(state, mempool, {}).kept = mempool
    BY DEF PoolInv, MempoolApplies, ApplyInOrder
  <2> DEFINE kept == ApplyUsable(state, mempool, {})
  <2>2. \E st : Steps(st, state, kept.kept)
    <3> HIDE DEF N
    <3> QED BY <1>2, KeptApplies
  <2> HIDE DEF kept
  <2> QED
    BY <2>1, <2>2 DEF kept
<1>4. PICK st : Steps(st, state, mempool)
  BY <1>3
<1>5. \A n \in 1 .. N : /\ mempool[n].from \in Address /\ mempool[n].nonce \in Nat
                        /\ state[mempool[n].from].nonce <= mempool[n].nonce
  BY <1>1, <1>4, StepsAhead
<1>6. PICK n \in 1 .. N : t = mempool[n]
  BY <1>2 DEF Range
<1> HIDE DEF N
<1>7. t \in T
  BY <1>1, <1>2, <1>6
<1> QED
  BY <1>1, <1>5, <1>6, <1>7

\* The payments the active chain has confirmed.
Paid == {t \in Confirmed(tip) : ~IsCoinbase(t)}

\* Their nonces are used, and a sender used each for one payment.
LEMMA PaidOnce ==
    ASSUME TreeInv, BranchesCount, tip # Nil
    PROVE  /\ state \in Accounts
           /\ \A t \in Paid : /\ FieldsFit(t) /\ Verify(t)
                              /\ t.from \in Address /\ t.nonce \in Nat
                              /\ t.nonce < state[t.from].nonce
           /\ \A t, r \in Paid : t.from = r.from /\ t.nonce = r.nonce => t = r
<1> DEFINE path == pathToGenesisLocked(tip)
<1>1. tip \in Known /\ tip \in Hash /\ state = Replay[tip] /\ state # Invalid
  BY DEF TreeInv, ChainSound, StateIsReplay, TypeOK
<1>2. state \in Accounts
  BY <1>1, ReplayAssumption
<1>3. path = Ancestors[tip] /\ path \subseteq Known /\ path \subseteq Hash
  <2>1. path = Ancestors[tip]
    BY <1>1, PathComplete DEF TreeInv
  <2>2. path \subseteq Known
    BY DEF pathToGenesisLocked
  <2>3. path \subseteq Hash
    BY <1>1, <2>1, AncestorSelf
  <2> QED
    BY <2>1, <2>2, <2>3
<1>4. Numbered(state, Spends(path))
  BY <1>1, <1>3 DEF BranchesCount
<1>5. ASSUME NEW t \in Paid PROVE \E x \in Spends(path) : TxAt(x) = t
  <2>1. PICK b \in path : t \in Range(Block[b].txs)
    BY DEF Paid, Confirmed
  <2> DEFINE l == Block[b].txs
             S == Range(l)
  <2>2. l \in Seq(S) /\ Len(l) <= MaxTxsPerBlock
    BY <1>3, BlockAssumption DEF BranchesCount
  <2>3. PICK i \in DOMAIN l : t = l[i]
    BY <2>1 DEF Range
  <2>4. MaxTxsPerBlock \in Nat
    BY ChainAssumption
  <2>5. i \in 1 .. MaxTxsPerBlock
    <3> HIDE DEF l, S
    <3> QED BY <2>2, <2>3, <2>4
  <2>6. ~IsCoinbase(t)
    BY DEF Paid
  <2> DEFINE x == <<b, i>>
  <2>7. x \in Spends(path) /\ TxAt(x) = t
    BY <2>3, <2>5, <2>6 DEF Spends, TxAt
  <2> QED
    BY <2>7
<1>6. \A t \in Paid : FieldsFit(t)
  BY <1>3, TableFits DEF Paid, Confirmed, BlockFits
<1> HIDE DEF path
<1>7. ASSUME NEW t \in Paid
      PROVE  /\ FieldsFit(t) /\ Verify(t) /\ t.from \in Address /\ t.nonce \in Nat
             /\ t.nonce < state[t.from].nonce
  BY <1>4, <1>5, <1>6 DEF Numbered
<1>8. ASSUME NEW t \in Paid, NEW r \in Paid, t.from = r.from, t.nonce = r.nonce PROVE t = r
  <2>1. PICK x \in Spends(path) : TxAt(x) = t
    BY <1>5
  <2>2. PICK y \in Spends(path) : TxAt(y) = r
    BY <1>5
  <2>3. x = y
    BY <1>4, <1>8, <2>1, <2>2 DEF Numbered
  <2> QED
    BY <2>1, <2>2, <2>3
<1> QED
  BY <1>2, <1>7, <1>8

\* A rebuild after a reorg.
LEMMA RebuildReturns ==
    ASSUME TreeInv, BranchesCount, PoolInv, tip # Nil, state' \in Accounts,
           rebuildMempoolLocked, Chronological(Abandoned)
    PROVE  StillValid \subseteq Range(mempool')
<1> DEFINE txs == mempool \o RolledBack
           order == ByTime(Candidates(txs))
           new == Confirmed(tip')
           skip == new \cup {t \in Range(order) : ~Verify(t)}
           back == TxsOf(Reverse(Descending(tip)))
           old == Without(back, new)
<1>1. PICK T : mempool \in Seq(T) /\ \A t \in T : FieldsFit(t) /\ Verify(t)
  BY DEF PoolInv, Verified
<1> DEFINE U == T \cup BlockTxs
<1>2. mempool \in Seq(U) /\ RolledBack \in Seq(U) /\ Range(RolledBack) \subseteq Confirmed(tip)
  BY <1>1, RolledBackIsList
<1>3. \A t \in U : FieldsFit(t) /\ t.time \in Int
  <2>1. \A t \in BlockTxs : FieldsFit(t)
    BY TableFits DEF BlockTxs, BlockFits
  <2> QED
    BY <1>1, <2>1 DEF FieldsFit
<1>4. back \in Seq(U) /\ Range(back) = Range(RolledBack)
  BY ReversedTxs
<1> HIDE DEF U
<1>5. txs \in Seq(U) /\ Range(txs) = Range(mempool) \cup Range(RolledBack)
  BY <1>2, RangeOfJoin
<1>6. Keep(state', order, skip) /\ Abandoned = old
  BY Zenon DEF rebuildMempoolLocked, ByTime, Abandoned
<1> HIDE DEF txs, back, new
<1>7. /\ order \in Seq(U) /\ InTime(order)
      /\ Range(order) = {t \in Range(txs) : ~IsCoinbase(t)}
  <2>1. /\ Candidates(txs) \in Seq(U)
        /\ Range(Candidates(txs)) = {t \in Range(txs) : ~IsCoinbase(t)}
    BY <1>5, CandidatesAre
  <2> QED
    BY <1>3, <2>1, SortedByTime
<1>8. old \in Seq(U) /\ Range(old) = {t \in Range(back) : ~IsCoinbase(t) /\ t \notin new}
  BY <1>4, WithoutAre
<1> HIDE DEF order, old
<1>9. \A t \in Range(old) : t \in Paid /\ t \in Range(order) /\ t \notin new
  BY <1>2, <1>4, <1>5, <1>7, <1>8 DEF Paid
<1>10. \A t \in Paid : Verify(t) /\ t.from \in Address /\ t.nonce \in Nat /\ t.nonce < state[t.from].nonce
  BY PaidOnce
<1>11. \A t \in Range(old) : FieldsFit(t) /\ Verify(t) /\ t.time \in Int /\ t \notin skip
  <2>1. Range(old) \subseteq U
    BY <1>8 DEF Range
  <2> QED
    BY <1>3, <1>9, <1>10, <2>1
<1>12. ASSUME NEW t \in Range(order), t \notin skip
       PROVE  /\ FieldsFit(t) /\ Verify(t)
              /\ \A r \in Range(old) : r.from = t.from /\ r.nonce = t.nonce => r = t
  <2>1. Verify(t) /\ FieldsFit(t)
    <3>1. Range(order) \subseteq U
      BY <1>7 DEF Range
    <3> QED
      BY <1>3, <1>12, <3>1
  <2>2. CASE t \in Range(RolledBack)
    <3>1. t \in Paid
      BY <1>2, <1>7, <2>2 DEF Paid
    <3> QED
      BY <1>9, <2>1, <3>1, PaidOnce
  <2>3. CASE t \in Range(mempool)
    <3>1. t.from \in Address /\ t.nonce \in Nat /\ state[t.from].nonce <= t.nonce
      BY <2>3, PaidOnce, MempoolAhead
    <3>2. state[t.from].nonce \in Nat
      BY <3>1, PaidOnce DEF Accounts
    <3>3. ASSUME NEW r \in Range(old), r.from = t.from, r.nonce = t.nonce PROVE FALSE
      <4>1. r.nonce < state[t.from].nonce /\ r.nonce \in Nat
        BY <1>9, <1>10, <3>3
      <4> QED
        BY <3>1, <3>2, <3>3, <4>1
    <3> QED
      BY <2>1, <3>3
  <2> QED
    BY <1>5, <1>7, <2>2, <2>3
<1>13. DOMAIN old = 1 .. Len(old) /\ DOMAIN order = 1 .. Len(order)
  BY <1>7, <1>8
<1>14. \A i \in 1 .. Len(old) : old[i] \in Range(old)
  BY <1>13 DEF Range
<1>15. \A k \in 1 .. Len(order) : order[k] \in Range(order)
  BY <1>13 DEF Range
<1>16. \A t \in Range(order) : \E k \in 1 .. Len(order) : order[k] = t
  BY <1>13 DEF Range
<1> HIDE DEF skip
<1>17. Returning(old, order, skip)
  <2>1. \A i \in 1 .. Len(old) : /\ FieldsFit(old[i]) /\ Verify(old[i])
                                 /\ old[i].time \in Int
                                 /\ old[i] \notin skip
                                 /\ \E k \in 1 .. Len(order) : order[k] = old[i]
    BY <1>9, <1>11, <1>14, <1>16
  <2>2. \A i, h \in 1 .. Len(old) : i < h => old[i].time < old[h].time
    BY <1>6, <1>13 DEF Chronological
  <2>3. \A k, m \in 1 .. Len(order) : k < m => ~(order[m].time < order[k].time)
    BY <1>7 DEF InTime
  <2>4. \A k \in 1 .. Len(order) : order[k] \notin skip =>
         /\ FieldsFit(order[k]) /\ Verify(order[k])
         /\ \A i \in 1 .. Len(old) :
              old[i].from = order[k].from /\ old[i].nonce = order[k].nonce
                => old[i] = order[k]
    BY <1>12, <1>14, <1>15
  <2> QED
    BY <2>1, <2>2, <2>3, <2>4 DEF Returning
<1> DEFINE s == state'
<1>18. s \in Accounts /\ mempool' = ApplyUsable(s, order, skip).kept
  BY <1>6 DEF Keep
<1> HIDE DEF s
<1>19. Range(ApplyInOrder(s, old).kept) \subseteq Range(ApplyUsable(s, order, skip).kept)
  BY <1>7, <1>8, <1>17, <1>18, WhatAppliesReturns
<1> QED
  BY <1>6, <1>18, <1>19 DEF StillValid, s

\* Only switchChainLocked takes the node to another branch.
LEMMA ReorgRebuilds ==
    ASSUME [NodeNext]_nodeVars, Reorg
    PROVE  CommitChain /\ rebuildMempoolLocked
<1>1. ASSUME UNCHANGED tip PROVE FALSE
  BY <1>1 DEF Reorg
<1>2. CASE /\ NewFresh \/ NewFromDisk \/ Tick \/ Arrival
              \/ BootDone \/ Insertion \/ ForkChoice
           /\ UNCHANGED <<pool, sends>>
  <2>1. UNCHANGED tip
    BY <1>2 DEF NewFresh, NewFromDisk, Tick, Arrival, SubmitSolution, acceptRemoteBlock,
        BootDone, Insertion, InsertKnown, InsertRefused, InsertGenesis, InsertOrphan,
        InsertBlock, ForkChoice, KeepTip, RejectExtension, StartReplay, ReplayBlock,
        ReplayFails, memory
  <2> QED
    BY <1>1, <2>1
<1>3. CASE Crash \/ \E b \in Hash : BootFails(b)
  BY <1>3 DEF Crash, BootFails, Exit, Reorg
<1>4. CASE \E b \in Hash : ExtendTip(b)
  BY <1>4 DEF ExtendTip, Extends, Reorg
<1>5. CASE \E t \in Tx : onNewTx(t)
  BY <1>1, <1>5 DEF onNewTx, vars, memory
<1>6. CASE \E c \in Client : (\E p \in Payment : SendSign(c, p)) \/ SendAdd(c)
  BY <1>1, <1>6 DEF SendSign, SendAdd, vars, memory
<1>7. CASE UNCHANGED nodeVars
  BY <1>1, <1>7 DEF nodeVars, vars, memory
<1> QED
  BY <1>2, <1>3, <1>4, <1>5, <1>6, <1>7 DEF NodeNext

\* On a reorg the txs of the abandoned branch that are still valid return to the
\* mempool, provided that their times follow the order in which they were
\* confirmed (rebuildMempoolLocked): none is lost to the sort, to a tx of the
\* mempool that is tried before it, or to one of the new branch.
THEOREM ReorgReturns == NodeSpec => ChronologicalReturn
<1>1. Init => BranchesCount
  BY InitInv, EmptyTypes DEF Init, BranchesCount, Known
<1>2. TreeInv /\ BranchesCount /\ [Next]_vars /\ TreeInv' => BranchesCount'
  BY BranchesCountStep
<1>3. TreeSpec => []TreeInv
  BY InitInv, NextInv, PTL DEF TreeSpec
<1>4. TreeSpec => [](TreeInv /\ BranchesCount)
  BY <1>1, <1>2, <1>3, PTL DEF TreeSpec
<1>5. TreeInv /\ BranchesCount /\ PoolInv /\ TreeInv' /\ [NodeNext]_nodeVars
      => [Reorg /\ Chronological(Abandoned) => StillValid \subseteq Range(mempool')]_nodeVars
  <2>1. SUFFICES ASSUME TreeInv, BranchesCount, PoolInv, TreeInv', [NodeNext]_nodeVars,
                        Reorg, Chronological(Abandoned)
                 PROVE  StillValid \subseteq Range(mempool')
    OBVIOUS
  <2>2. rebuildMempoolLocked /\ tip # Nil
    BY <2>1, ReorgRebuilds DEF Reorg
  <2>3. state' \in Accounts
    <3>1. tip' # Nil
      BY <2>1 DEF Reorg
    <3>2. tip' \in Hash /\ state' = Replay[tip'] /\ state' # Invalid
      BY <2>1, <3>1 DEF TreeInv, ChainSound, StateIsReplay, TypeOK
    <3> QED
      BY <3>2, ReplayAssumption
  <2> QED
    BY <2>1, <2>2, <2>3, RebuildReturns
<1> QED
  BY <1>4, <1>5, NodeImplementsTree, PoolInvariant, PTL DEF NodeSpec, ChronologicalReturn
=============================================================================
