---------------------------- MODULE HeaviestChain ----------------------------
(***************************************************************************)
(* What the block tree of a node promises the rest of the program: a node  *)
(* holds some blocks, each with the work of its chain, and may learn more. *)
(* It is either on no chain or on one that applies from genesis to its     *)
(* end, and its ledger is the result of applying that chain.  It changes   *)
(* chains in one step, and only to the heaviest of the valid blocks it     *)
(* holds.  When it stops everything is forgotten.                          *)
(***************************************************************************)
EXTENDS Naturals

CONSTANTS Hash, Genesis, Block, Nil,
          Replay,    \* hash -> the ledger after its chain, or Invalid
          Invalid,
          Empty      \* the ledger before the first block

VARIABLES
    held,     \* hash -> work, of the blocks the node holds
    tip,      \* the last block of the chain the node is on, or Nil
    ledger

promised == <<held, tip, ledger>>

Valid(b) == Replay[b] # Invalid

Heavier(b, c) == held[b] > held[c] \/ (held[b] = held[c] /\ b < c)

Init == held = [b \in {} |-> Nil] /\ tip = Nil /\ ledger = Empty

\* A block whose parent is there joins.
Learn(b) ==
    /\ b \notin DOMAIN held
    /\ b = Genesis \/ Block[b].prev \in DOMAIN held
    /\ held' = [c \in DOMAIN held \cup {b} |->
         CASE c # b -> held[c]
           [] c = b /\ b = Genesis -> 0
           [] OTHER -> held[Block[b].prev] + Block[b].difficulty]
    /\ UNCHANGED <<tip, ledger>>

\* Invalid blocks may be dropped at any time.
Drop ==
    /\ \E gone \in SUBSET {b \in DOMAIN held : ~Valid(b)} :
         held' = [c \in DOMAIN held \ gone |-> held[c]]
    /\ UNCHANGED <<tip, ledger>>

Adopt(b) ==
    /\ b \in DOMAIN held /\ Valid(b)
    /\ \A c \in DOMAIN held : c # b /\ Valid(c) => Heavier(b, c)
    /\ tip' = b
    /\ ledger' = Replay[b]
    /\ UNCHANGED held

Forget ==
    /\ held' = [b \in {} |-> Nil]
    /\ tip' = Nil
    /\ ledger' = Empty

Next == Drop \/ Forget \/ \E b \in Hash : Learn(b) \/ Adopt(b)

Spec == Init /\ [][Next]_promised
=============================================================================
