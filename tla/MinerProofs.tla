----------------------------- MODULE MinerProofs -----------------------------
(***************************************************************************)
(* The invariants of the mining goroutine, for every number of threads,    *)
(* every capacity of the subscription and every set of GPU faults.         *)
(***************************************************************************)
EXTENDS Miner, TLAPS

-----------------------------------------------------------------------------
\* What the parts of the inductive invariant are about.
Hashing == pc \in {"spawned", "select", "join"}
OnGPU == pc \in {"gpu", "search"}

\* MinerTypeOK, one conjunct per variable.
Types ==
    /\ tip \in 0 .. MaxTips
    /\ tips = Nil \/ (tips \in Seq(1 .. MaxTips) /\ Len(tips) <= TipBuffer)
    /\ pc \in Places
    /\ cand \in 1 .. MaxTips \cup {Nil}
    /\ found \in 1 .. MaxTips \cup {Nil}
    /\ solution \in 1 .. MaxTips \cup {Nil}
    /\ threads \subseteq Thread
    /\ stop \in BOOLEAN /\ ctx \in BOOLEAN
    /\ gpu \in BOOLEAN /\ device \in BOOLEAN /\ deferred \in BOOLEAN
    /\ backend \in {"auto", "cpu", "gpu"} /\ active \in {"cpu", "gpu"}

\* From the subscription to the end of the round there is a channel, and while
\* a candidate is searched, and until its solution is submitted, it is known.
RoundStarted ==
    /\ pc \in {"subscribed", "spawned", "select", "join", "gpu", "search"} => tips # Nil
    /\ pc \in {"spawned", "select", "join", "gpu", "search", "submit"} => cand \in 1 .. MaxTips

\* The threads are told to stop only when the select is over.
StopAfterSelect == pc \in {"spawned", "select"} => ~stop

\* The GPU is the active backend only while there is a handle.
HandleHeld ==
    /\ device = gpu
    /\ OnGPU => gpu
    /\ pc # "start" /\ ~Ended /\ active = "gpu" => gpu
    /\ gpu => deferred
    /\ Ended => ~gpu

MinerInv ==
    /\ Types
    /\ RoundStarted
    /\ StopAfterSelect
    /\ NoticeWaits
    /\ SolutionHeard
    /\ ThreadsJoined
    /\ HandleHeld

-----------------------------------------------------------------------------
(***************************************************************************)
(* The channel of the subscription.                                        *)
(***************************************************************************)
LEMMA ChannelIsNotNil ==
    ASSUME NEW s \in Seq(1 .. MaxTips)
    PROVE  s # Nil
<1>1. s \in Seq(Nat)
  BY MinerAssumption
<1> QED
  BY <1>1, MinerAssumption

\* A published tip is found in the channel, unless older notices fill it.
LEMMA Published ==
    ASSUME Types, NEW t \in 1 .. MaxTips
    PROVE  /\ tips = Nil => publishLocked(t) = Nil
           /\ tips # Nil => /\ publishLocked(t) \in Seq(1 .. MaxTips)
                            /\ Len(publishLocked(t)) <= TipBuffer
                            /\ publishLocked(t) # Nil
                            /\ publishLocked(t) # << >>
<1>1. CASE tips = Nil
  BY <1>1 DEF publishLocked
<1>2. CASE tips # Nil /\ Len(tips) >= TipBuffer
  BY <1>2, MinerAssumption DEF publishLocked, Types
<1>3. CASE tips # Nil /\ ~(Len(tips) >= TipBuffer)
  <2>1. publishLocked(t) = Append(tips, t)
    BY <1>3 DEF publishLocked
  <2>2. /\ Append(tips, t) \in Seq(1 .. MaxTips)
        /\ Len(Append(tips, t)) = Len(tips) + 1
        /\ Len(tips) \in Nat
    BY <1>3 DEF Types
  <2>3. Append(tips, t) # Nil
    BY <2>2, ChannelIsNotNil
  <2>4. Len(tips) + 1 <= TipBuffer
    BY <1>3, <2>2, MinerAssumption
  <2> QED
    BY <2>1, <2>2, <2>3, <2>4, <1>3
<1> QED
  BY <1>1, <1>2, <1>3

\* A new tip leaves a notice with whoever is subscribed, the first tip excepted.
LEMMA SwitchNotifies ==
    ASSUME MinerInv, switchChainLocked
    PROVE  /\ tip' \in 1 .. MaxTips
           /\ tips' = Nil \/ (tips' \in Seq(1 .. MaxTips) /\ Len(tips') <= TipBuffer)
           /\ tips # Nil => tips' # Nil
           /\ Searching => tips' # << >>
<1>1. tip + 1 \in 1 .. MaxTips
  BY MinerAssumption DEF MinerInv, Types, switchChainLocked
<1>2. CASE tip = 0
  BY <1>1, <1>2, MinerAssumption
     DEF MinerInv, Types, RoundStarted, NoticeWaits, Searching, switchChainLocked
<1>3. CASE tip # 0
  BY <1>1, <1>3, Published
     DEF MinerInv, Types, RoundStarted, Searching, switchChainLocked
<1> QED
  BY <1>2, <1>3

\* Taking a notice leaves a channel.
LEMMA NoticeTaken ==
    ASSUME Types, tips # Nil, tips # << >>
    PROVE  /\ Tail(tips) \in Seq(1 .. MaxTips)
           /\ Len(Tail(tips)) <= TipBuffer
           /\ Tail(tips) # Nil
<1>1. tips \in Seq(1 .. MaxTips) /\ Len(tips) <= TipBuffer
  BY DEF Types
<1>2. Tail(tips) \in Seq(1 .. MaxTips) /\ Len(Tail(tips)) = Len(tips) - 1 /\ Len(tips) \in Nat
  BY <1>1
<1>3. Tail(tips) # Nil
  BY <1>2, ChannelIsNotNil
<1>4. Len(tips) - 1 <= TipBuffer
  BY <1>1, <1>2, MinerAssumption
<1> QED
  BY <1>2, <1>3, <1>4

-----------------------------------------------------------------------------
(***************************************************************************)
(* The inductive invariant.                                                *)
(***************************************************************************)
LEMMA MinerInitInv == Init => MinerInv
<1> SUFFICES ASSUME Init PROVE MinerInv
  OBVIOUS
<1>1. tip \in 0 .. MaxTips
  BY MinerAssumption DEF Init
<1>2. backend \in {"auto", "cpu", "gpu"}
  BY MinerAssumption DEF Init
<1>3. Types
  BY <1>1, <1>2 DEF Init, Types, Places
<1>4. RoundStarted /\ StopAfterSelect /\ NoticeWaits /\ SolutionHeard
  BY DEF Init, RoundStarted, StopAfterSelect, NoticeWaits, SolutionHeard, Searching
<1>5. ThreadsJoined /\ HandleHeld
  BY DEF Init, ThreadsJoined, HandleHeld, OnGPU, Ended
<1> QED
  BY <1>3, <1>4, <1>5 DEF MinerInv

\* What the node does: only tip and channel change.
LEMMA NewTipInv == MinerInv /\ NewTip => MinerInv'
<1> SUFFICES ASSUME MinerInv, NewTip PROVE MinerInv'
  OBVIOUS
<1>1. switchChainLocked /\ UNCHANGED <<pc, round, ctx, hardware>>
  BY DEF NewTip
<1>2. /\ tip' \in 1 .. MaxTips
      /\ tips' = Nil \/ (tips' \in Seq(1 .. MaxTips) /\ Len(tips') <= TipBuffer)
      /\ tips # Nil => tips' # Nil
      /\ Searching => tips' # << >>
  BY <1>1, SwitchNotifies
<1>3. Types'
  BY <1>1, <1>2 DEF MinerInv, Types, round, hardware
<1>4. (RoundStarted /\ StopAfterSelect)'
  BY <1>1, <1>2 DEF MinerInv, RoundStarted, StopAfterSelect, round
<1>5. NoticeWaits'
  BY <1>1, <1>2 DEF NoticeWaits, Searching
<1>6. (SolutionHeard /\ ThreadsJoined /\ HandleHeld)'
  BY <1>1 DEF MinerInv, SolutionHeard, ThreadsJoined, HandleHeld, OnGPU, Ended, round, hardware
<1> QED
  BY <1>3, <1>4, <1>5, <1>6 DEF MinerInv

\* The threads.
LEMMA ThreadInv == MinerInv /\ (\E t \in Thread : ThreadStep(t)) => MinerInv'
<1> SUFFICES ASSUME MinerInv, NEW t \in Thread, ThreadStep(t) PROVE MinerInv'
  OBVIOUS
<1>0. Hashing
  BY DEF MinerInv, ThreadsJoined, ThreadStep, ThreadFinds, ThreadStops, Hashing
<1>1. CASE ThreadFinds(t)
  <2>1. cand \in 1 .. MaxTips /\ cand # Nil
    BY <1>0, MinerAssumption DEF MinerInv, RoundStarted, Hashing
  <2>2. found' \in 1 .. MaxTips /\ found' # Nil
    BY <1>1, <2>1, MinerAssumption DEF ThreadFinds, Offer, MinerInv, Types
  <2> QED
    BY <1>0, <1>1, <2>1, <2>2
       DEF ThreadFinds, MinerInv, Types, RoundStarted, StopAfterSelect, NoticeWaits, Hashing,
           SolutionHeard, ThreadsJoined, HandleHeld, Searching, OnGPU, Ended, round, hardware
<1>2. CASE ThreadStops(t)
  <2>1. pc = "join"
    BY <1>0, <1>2 DEF ThreadStops, MinerInv, StopAfterSelect, Hashing
  <2> QED
    BY <1>2, <2>1
       DEF ThreadStops, MinerInv, Types, RoundStarted, StopAfterSelect, NoticeWaits,
           SolutionHeard, ThreadsJoined, HandleHeld, Searching, OnGPU, Ended, round, hardware
<1> QED
  BY <1>1, <1>2 DEF ThreadStep

\* The steps between rounds: the backend, the subscription, the candidate.
LEMMA BetweenRoundsInv ==
    MinerInv /\ (\/ EnsureBackend \/ Finish \/ SubscribeTips \/ NoTipYet \/ BuildCandidate
                 \/ Unsubscribe \/ ReachSelect \/ Cancel \/ Over) => MinerInv'
<1> USE DEF MinerInv, Types, RoundStarted, StopAfterSelect, NoticeWaits, SolutionHeard,
            ThreadsJoined, HandleHeld, Searching, OnGPU, Ended, round, hardware
<1>1. MinerInv /\ EnsureBackend => MinerInv'
  <2> SUFFICES ASSUME MinerInv, EnsureBackend PROVE MinerInv'
    OBVIOUS
  <2>1. /\ pc = "start" /\ pc' = "loop" /\ pc' \in Places
        /\ UNCHANGED <<tip, tips, round, ctx, backend>>
    BY DEF EnsureBackend, Places
  <2>2. CASE active' = "cpu" /\ gpu' = FALSE
    <3>1. device' = FALSE /\ deferred' = FALSE
      BY <2>2 DEF EnsureBackend
    <3> QED
      BY <2>1, <2>2, <3>1
  <2>3. CASE active' = "gpu" /\ gpu' = TRUE
    <3>1. device' = TRUE /\ deferred' = TRUE
      BY <2>3 DEF EnsureBackend
    <3> QED
      BY <2>1, <2>3, <3>1
  <2> QED
    BY <2>2, <2>3 DEF EnsureBackend
<1>2. MinerInv /\ Finish => MinerInv'
  <2> SUFFICES ASSUME MinerInv, Finish PROVE MinerInv'
    OBVIOUS
  <2>1. /\ pc' \in {"done", "panicked"} /\ pc' \in Places
        /\ UNCHANGED <<tip, tips, round, ctx, backend, active, deferred>>
    BY DEF Finish, Places
  <2>2. gpu' = FALSE /\ device' = FALSE
    BY DEF Finish
  <2>3. threads = {}
    BY DEF Finish
  <2> QED
    BY <2>1, <2>2, <2>3, ZenonT(60)
<1>3. MinerInv /\ SubscribeTips => MinerInv'
  <2>1. << >> \in Seq(1 .. MaxTips) /\ Len(<< >>) = 0
    OBVIOUS
  <2>2. << >> # Nil
    BY <2>1, ChannelIsNotNil
  <2>3. 0 <= TipBuffer
    BY MinerAssumption
  <2> QED
    BY <2>1, <2>2, <2>3 DEF SubscribeTips, Places
<1>4. MinerInv /\ NoTipYet => MinerInv'
  BY DEF NoTipYet, HasTip, Places
<1>5. MinerInv /\ BuildCandidate => MinerInv'
  <2> SUFFICES ASSUME MinerInv, BuildCandidate PROVE MinerInv'
    OBVIOUS
  <2>1. cand' \in 1 .. MaxTips /\ cand' = tip' /\ tips' # Nil
    BY MinerAssumption DEF BuildCandidate, HasTip
  <2>2. CASE StartThreads
    BY <2>1, <2>2 DEF BuildCandidate, StartThreads, Places
  <2>3. CASE active = "gpu" /\ pc' = "gpu" /\ UNCHANGED <<threads, stop, found, solution>>
    BY <2>1, <2>3 DEF BuildCandidate, Places
  <2> QED
    BY <2>2, <2>3 DEF BuildCandidate
<1>6. MinerInv /\ Unsubscribe => MinerInv'
  BY DEF Unsubscribe, Places
<1>7. MinerInv /\ ReachSelect => MinerInv'
  BY DEF ReachSelect, Places
<1>8. MinerInv /\ Cancel => MinerInv'
  BY DEF Cancel
<1>9. MinerInv /\ Over => MinerInv'
  BY DEF Over, vars
<1> QED
  BY <1>1, <1>2, <1>3, <1>4, <1>5, <1>6, <1>7, <1>8, <1>9

\* The end of a round on the CPU.
LEMMA EndOfRoundInv == MinerInv /\ (Select \/ Join \/ Submit) => MinerInv'
<1> USE DEF MinerInv, Types, RoundStarted, StopAfterSelect, NoticeWaits, SolutionHeard,
            ThreadsJoined, HandleHeld, Searching, OnGPU, Ended, round, hardware
<1>1. MinerInv /\ Select => MinerInv'
  <2> SUFFICES ASSUME MinerInv, Select PROVE MinerInv'
    OBVIOUS
  <2>1. /\ tips' \in Seq(1 .. MaxTips) /\ Len(tips') <= TipBuffer /\ tips' # Nil
        /\ found' \in 1 .. MaxTips \cup {Nil} /\ solution' \in 1 .. MaxTips \cup {Nil}
    BY NoticeTaken DEF Select
  <2> QED
    BY <2>1 DEF Select, Places
<1>2. MinerInv /\ Join => MinerInv'
  BY DEF Join, ThreadsEnded, Places
<1>3. MinerInv /\ Submit => MinerInv'
  <2> SUFFICES ASSUME MinerInv, Submit PROVE MinerInv'
    OBVIOUS
  <2>1. /\ tip' \in 0 .. MaxTips
        /\ tips' = Nil \/ (tips' \in Seq(1 .. MaxTips) /\ Len(tips') <= TipBuffer)
    BY SwitchNotifies DEF Submit, SubmitSolution
  <2> QED
    BY <2>1 DEF Submit, Places
<1> QED
  BY <1>1, <1>2, <1>3

\* The round on the GPU.
LEMMA GPUInv ==
    MinerInv /\ (GPUAbandon \/ GPUDispatch \/ GPUMiss \/ GPUHit \/ GPUFails) => MinerInv'
<1> USE DEF MinerInv, Types, RoundStarted, StopAfterSelect, NoticeWaits, SolutionHeard,
            ThreadsJoined, HandleHeld, Searching, OnGPU, Ended, round, hardware
<1>1. MinerInv /\ GPUAbandon => MinerInv'
  <2> SUFFICES ASSUME MinerInv, GPUAbandon PROVE MinerInv'
    OBVIOUS
  <2>1. tips' \in Seq(1 .. MaxTips) /\ Len(tips') <= TipBuffer
    BY NoticeTaken DEF GPUAbandon
  <2> QED
    BY <2>1 DEF GPUAbandon, Places
<1>2. MinerInv /\ GPUDispatch => MinerInv'
  BY DEF GPUDispatch, GPUIdle, Places
<1>3. MinerInv /\ GPUMiss => MinerInv'
  BY DEF GPUMiss, Places
<1>4. MinerInv /\ GPUHit => MinerInv'
  BY DEF GPUHit, Places
<1>5. MinerInv /\ GPUFails => MinerInv'
  BY DEF GPUFails, RetireGPU, StartThreads, Places
<1> QED
  BY <1>1, <1>2, <1>3, <1>4, <1>5

LEMMA MinerNextInv == MinerInv /\ [Next]_vars => MinerInv'
<1>1. MinerInv /\ UNCHANGED vars => MinerInv'
  BY DEF MinerInv, Types, RoundStarted, StopAfterSelect, NoticeWaits, SolutionHeard,
         ThreadsJoined, HandleHeld, Searching, OnGPU, Ended, round, hardware, vars
<1> QED
  BY <1>1, NewTipInv, ThreadInv, BetweenRoundsInv, EndOfRoundInv, GPUInv DEF Next, MainStep

-----------------------------------------------------------------------------
\* The inductive invariant holds throughout: types, a channel and a candidate
\* for every round, no stop before the select, and a handle with every round on
\* the GPU (Run, mineOnce, mineOnceCPU, mineOnceGPU).
THEOREM MinerInvariant == Spec => []MinerInv
BY MinerInitInv, MinerNextInv, PTL DEF Spec

\* The variables of the miner have their types (publishLocked keeps the channel
\* within its buffer, BuildCandidate returns nil without a tip).
THEOREM MinerTypes == Spec => []MinerTypeOK
<1>1. MinerInv => MinerTypeOK
  <2> SUFFICES ASSUME MinerInv PROVE MinerTypeOK
    OBVIOUS
  <2>1. {cand, found, solution} \subseteq 1 .. MaxTips \cup {Nil}
    BY DEF MinerInv, Types
  <2>2. {stop, ctx, gpu, device, deferred} \subseteq BOOLEAN
    BY DEF MinerInv, Types
  <2> QED
    BY <2>1, <2>2 DEF MinerInv, Types, MinerTypeOK
<1> QED
  BY <1>1, MinerInvariant, PTL

\* A notice waits for whoever searches a candidate that is not on the tip
\* (mineOnce, publishLocked).
THEOREM NoNoticeLost == Spec => []NoticeWaits
BY MinerInvariant, PTL DEF MinerInv

\* A solution found while the round waits is in the channel, whenever the round
\* reaches its select (the buffer of found in mineOnceCPU).
THEOREM EverySolutionHeard == Spec => []SolutionHeard
BY MinerInvariant, PTL DEF MinerInv

\* No thread outlives its round and the device is open exactly while there is a
\* handle, and searched only then (wg.Wait in mineOnceCPU; resolveBackend,
\* mineOnceGPU, the deferred call of Run).
THEOREM NothingOutlives == Spec => []ResourcesHeld
<1>1. MinerInv => ResourcesHeld
  BY DEF MinerInv, HandleHeld, ResourcesHeld, DeviceHeld, OnGPU, Ended
<1> QED
  BY <1>1, MinerInvariant, PTL
=============================================================================
