-------------------------------- MODULE Miner --------------------------------
(***************************************************************************)
(* The mining goroutine (internal/miner/miner.go) and the tip subscription *)
(* it lives on (SubscribeTips and publishLocked of internal/node/node.go). *)
(*                                                                         *)
(* A round subscribes to tips, builds a candidate on the current tip and   *)
(* searches it, with hashing threads or on the GPU, until a solution, a    *)
(* new tip or the end of the process ends the round.  The tip of the node  *)
(* is a counter: 0 before the first tip, one more with every change, made  *)
(* by peers (NewTip) or by a submitted solution.  What the node does with  *)
(* blocks is the matter of BlockTree.                                      *)
(***************************************************************************)
EXTENDS Integers, Sequences

CONSTANTS Thread,      \* the hashing threads
          Requested,   \* the backends that may be asked for
          GPUFaults,   \* {} or the failures of the GPU considered
          TipBuffer,   \* capacity of a subscription's channel
          MaxTips,     \* bound of the tip counter
          Nil

ASSUME MinerAssumption ==
    /\ Thread # {}
    /\ Requested \subseteq {"auto", "cpu", "gpu"}
    /\ GPUFaults \subseteq {"open", "shape", "search"}
    /\ TipBuffer \in Nat \ {0}
    /\ MaxTips \in Nat \ {0}
    /\ Nil \notin Nat /\ Nil \notin Seq(Nat)

VARIABLES
    tip,        \* n.tip
    tips,       \* the channel of the subscription, Nil when there is none
    pc,         \* where the mining goroutine is
    cand,       \* the tip the candidate was built on
    threads,    \* the threads that are hashing
    stop,       \* the channel stop is closed
    found,      \* the channel found: a solution, or Nil
    solution,   \* the solution the round ends with, or Nil
    ctx,        \* the context is cancelled
    backend,    \* m.backend, the backend asked for
    active,     \* m.active
    gpu,        \* m.gpu # nil
    device,     \* the GPU is held open
    deferred    \* Run has deferred the call that closes m.gpu

round == <<cand, threads, stop, found, solution>>
hardware == <<backend, active, gpu, device, deferred>>
vars == <<tip, tips, pc, round, ctx, hardware>>

Init ==
    /\ tip \in {0, 1}
    /\ tips = Nil
    /\ pc = "start"
    /\ cand = Nil /\ threads = {} /\ stop = FALSE /\ found = Nil /\ solution = Nil
    /\ ctx = FALSE
    /\ backend \in Requested
    /\ active = "cpu" /\ gpu = FALSE /\ device = FALSE /\ deferred = FALSE

-----------------------------------------------------------------------------
(***************************************************************************)
(* The node.                                                               *)
(***************************************************************************)
\* A full channel keeps what it has: the send does not block.
publishLocked(t) ==
    IF tips = Nil \/ Len(tips) >= TipBuffer THEN tips ELSE Append(tips, t)

\* Mutation: one of the ways to a new tip forgets to publish it.
switchChainSilent ==
    /\ tip < MaxTips
    /\ tip' = tip + 1
    /\ tips' \in {tips, publishLocked(tip + 1)}

\* The tip changes; the first one is not published (switchChainLocked).
switchChainLocked ==
    /\ tip < MaxTips
    /\ tip' = tip + 1
    /\ tips' = IF tip = 0 THEN tips ELSE publishLocked(tip + 1)

\* A block of a peer becomes the tip.
NewTip ==
    /\ switchChainLocked
    /\ UNCHANGED <<pc, round, ctx, hardware>>

\* A solution on the tip extends it.  A late one lands on a side branch, or
\* wins the tie against the block that was faster.
SubmitSolution(s) ==
    \/ switchChainLocked
    \/ s # tip /\ UNCHANGED <<tip, tips>>

-----------------------------------------------------------------------------
(***************************************************************************)
(* The goroutine of Run.                                                   *)
(***************************************************************************)
\* resolveBackend: the GPU is opened unless the CPU was asked for; "auto"
\* closes it again when the benchmark fails or the CPU is at least as fast.
EnsureBackend ==
    /\ pc = "start"
    /\ \/ /\ backend \in {"cpu", "auto"} \/ "open" \in GPUFaults
          /\ active' = "cpu" /\ gpu' = FALSE
       \/ /\ backend \in {"gpu", "auto"}
          /\ active' = "gpu" /\ gpu' = TRUE
    /\ device' = gpu'
    /\ deferred' = gpu'
    /\ pc' = "loop"
    /\ UNCHANGED <<tip, tips, round, ctx, backend>>

\* Run returns: the deferred call closes m.gpu, whatever it is by now.
Finish ==
    /\ pc = "loop" /\ ctx
    /\ pc' = IF deferred /\ ~gpu THEN "panicked" ELSE "done"
    /\ gpu' = FALSE
    /\ device' = (device /\ ~(deferred /\ gpu))
    /\ UNCHANGED <<tip, tips, round, ctx, backend, active, deferred>>

SubscribeTips ==
    /\ pc = "loop" /\ ~ctx
    /\ tips' = << >>
    /\ pc' = "subscribed"
    /\ UNCHANGED <<tip, round, ctx, hardware>>

\* Mutation: a candidate is built although there is no tip.
HasTipUnchecked == TRUE

HasTip == tip # 0

NoTipYet ==
    /\ pc = "subscribed" /\ ~HasTip
    /\ pc' = "sleep"
    /\ UNCHANGED <<tip, tips, round, ctx, hardware>>

StartThreads ==
    /\ pc' = "spawned"
    /\ threads' = Thread
    /\ stop' = FALSE /\ found' = Nil /\ solution' = Nil

BuildCandidate ==
    /\ pc = "subscribed" /\ HasTip
    /\ cand' = tip
    /\ \/ active = "cpu" /\ StartThreads
       \/ active = "gpu" /\ "shape" \in GPUFaults /\ StartThreads
       \/ active = "gpu" /\ pc' = "gpu" /\ UNCHANGED <<threads, stop, found, solution>>
    /\ UNCHANGED <<tip, tips, ctx, hardware>>

\* mineOnce returns, its deferred cancel ends the subscription; half a second
\* has passed when there was no candidate.
Unsubscribe ==
    /\ pc \in {"sleep", "return"}
    /\ tips' = Nil
    /\ pc' = "loop"
    /\ cand' = Nil /\ solution' = Nil
    /\ UNCHANGED <<tip, threads, stop, found, ctx, hardware>>

-----------------------------------------------------------------------------
(***************************************************************************)
(* mineOnceCPU.                                                            *)
(***************************************************************************)
\* Mutation: a channel without a buffer takes a solution only while the
\* goroutine waits at its select.
OfferUnbuffered == IF pc = "select" THEN cand ELSE found

\* The send to found: the first solution is kept, a later one dropped.
Offer == IF found = Nil THEN cand ELSE found

\* A hash meets the target; the thread looked at stop before it hashed.
ThreadFinds(t) ==
    /\ t \in threads
    /\ tip < MaxTips
    /\ found' = Offer
    /\ threads' = threads \ {t}
    /\ UNCHANGED <<tip, tips, pc, cand, stop, solution, ctx, hardware>>

ThreadStops(t) ==
    /\ t \in threads /\ stop
    /\ threads' = threads \ {t}
    /\ UNCHANGED <<tip, tips, pc, cand, stop, found, solution, ctx, hardware>>

ReachSelect ==
    /\ pc = "spawned"
    /\ pc' = "select"
    /\ UNCHANGED <<tip, tips, round, ctx, hardware>>

\* The select: any case that is ready, in no particular order.
Select ==
    /\ pc = "select"
    /\ \/ /\ found # Nil
          /\ solution' = found /\ found' = Nil
          /\ UNCHANGED tips
       \/ /\ tips # << >>
          /\ tips' = Tail(tips)
          /\ UNCHANGED <<solution, found>>
       \/ /\ ctx
          /\ UNCHANGED <<tips, solution, found>>
    /\ stop' = TRUE
    /\ pc' = "join"
    /\ UNCHANGED <<tip, cand, threads, ctx, hardware>>

\* wg.Wait returns.
ThreadsEnded == threads = {}

Join ==
    /\ pc = "join"
    /\ ThreadsEnded
    /\ pc' = IF solution = Nil THEN "return" ELSE "submit"
    /\ UNCHANGED <<tip, tips, round, ctx, hardware>>

Submit ==
    /\ pc = "submit"
    /\ SubmitSolution(solution)
    /\ pc' = "return"
    /\ UNCHANGED <<round, ctx, hardware>>

-----------------------------------------------------------------------------
(***************************************************************************)
(* mineOnceGPU.                                                            *)
(***************************************************************************)
\* The loop polls before every dispatch.
GPUAbandon ==
    /\ pc = "gpu"
    /\ \/ ctx /\ UNCHANGED tips
       \/ tips # << >> /\ tips' = Tail(tips)
    /\ pc' = "return"
    /\ UNCHANGED <<tip, round, ctx, hardware>>

\* Mutation: the loop polls for the end of the process only.
GPUIdleNoTips == ~ctx

\* Mutation: the loop polls for tips only.
GPUIdleNoContext == tips = << >>

GPUIdle == ~ctx /\ tips = << >>

GPUDispatch ==
    /\ pc = "gpu"
    /\ GPUIdle
    /\ pc' = "search"
    /\ UNCHANGED <<tip, tips, round, ctx, hardware>>

GPUMiss ==
    /\ pc = "search"
    /\ pc' = "gpu"
    /\ UNCHANGED <<tip, tips, round, ctx, hardware>>

GPUHit ==
    /\ pc = "search"
    /\ tip < MaxTips
    /\ solution' = cand
    /\ pc' = "submit"
    /\ UNCHANGED <<tip, tips, cand, threads, stop, found, ctx, hardware>>

\* Mutation: the device stays open when the handle is dropped.
RetireGPULeaking == gpu' = FALSE /\ UNCHANGED device

RetireGPU == gpu' = FALSE /\ device' = FALSE

\* The GPU is retired and the candidate is searched by the threads.
GPUFails ==
    /\ pc = "search" /\ "search" \in GPUFaults
    /\ RetireGPU
    /\ active' = "cpu"
    /\ StartThreads
    /\ UNCHANGED <<tip, tips, cand, ctx, backend, deferred>>

\* The user ends the process (main.go cancels the context).
Cancel ==
    /\ ~ctx
    /\ ctx' = TRUE
    /\ UNCHANGED <<tip, tips, pc, round, hardware>>

-----------------------------------------------------------------------------
MainStep ==
    \/ EnsureBackend \/ Finish \/ SubscribeTips \/ NoTipYet \/ BuildCandidate
    \/ Unsubscribe \/ ReachSelect \/ Select \/ Join \/ Submit
    \/ GPUAbandon \/ GPUDispatch \/ GPUMiss \/ GPUHit \/ GPUFails

ThreadStep(t) == ThreadFinds(t) \/ ThreadStops(t)

Ended == pc \in {"done", "panicked"}

\* The process is over.
Over == Ended /\ UNCHANGED vars

Next == NewTip \/ Cancel \/ MainStep \/ (\E t \in Thread : ThreadStep(t)) \/ Over

\* The goroutine and its threads are scheduled; no solution is ever promised,
\* and a thread may hash without luck until it is stopped.
Fairness == WF_vars(MainStep) /\ \A t \in Thread : WF_vars(ThreadStops(t))

Spec == Init /\ [][Next]_vars /\ Fairness

-----------------------------------------------------------------------------
(***************************************************************************)
(* Properties.                                                             *)
(***************************************************************************)
Places == {"start", "loop", "subscribed", "sleep", "spawned", "select", "join",
           "submit", "return", "gpu", "search", "done", "panicked"}

\* The variables have their types: a subscription never holds more than its
\* buffer, and no candidate is built while there is no tip.
MinerTypeOK ==
    /\ tip \in 0 .. MaxTips
    /\ tips # Nil => tips \in Seq(1 .. MaxTips) /\ Len(tips) <= TipBuffer
    /\ pc \in Places
    /\ {cand, found, solution} \subseteq 1 .. MaxTips \cup {Nil}
    /\ threads \subseteq Thread
    /\ {stop, ctx, gpu, device, deferred} \subseteq BOOLEAN
    /\ backend \in {"auto", "cpu", "gpu"} /\ active \in {"cpu", "gpu"}

\* The places where a candidate is being searched.
Searching == pc \in {"spawned", "select", "gpu", "search"}

\* Whoever searches a candidate that is no longer on the tip has a notice of
\* the new tip waiting: no change is lost between the subscription and the
\* candidate, and none because the channel was full (mineOnce subscribes
\* before it builds, publishLocked keeps old notices).
NoticeWaits == Searching /\ cand # tip => tips # << >>

\* A thread that has found a solution has it heard, whether or not the round
\* had reached its select when the hash was found: while the round waits and
\* some thread has ended, a solution is in the channel (the buffer of found).
SolutionHeard ==
    pc \in {"spawned", "select"} /\ threads # Thread => found # Nil

\* wg.Wait: only a round that has not ended has threads.
ThreadsJoined == pc \notin {"spawned", "select", "join"} => threads = {}

DeviceHeld ==
    /\ device = gpu
    /\ pc \in {"gpu", "search"} => device
    /\ Ended => ~device

\* Nothing outlives its use.  No thread is hashing for an earlier candidate when
\* a block is submitted or the next round starts (wg.Wait), and the device is
\* open exactly while the miner holds a handle to it: it is neither searched
\* after a failure has closed it nor left open when Run returns.
ResourcesHeld == ThreadsJoined /\ DeviceHeld

\* Work on a candidate that the network has passed by ends.
StaleAbandoned == (Searching /\ cand # tip) ~> ~(Searching /\ cand # tip)

\* When the context is cancelled Run returns, wherever the round is: with
\* threads hashing, a solution in the channel, a dispatch on the GPU.  After
\* the GPU was retired it ends in the panic of the deferred m.gpu.Close, which
\* Finish keeps apart from a regular return.
ShutdownEnds == ctx ~> Ended
=============================================================================
