------------------------------ MODULE MCSwitch ------------------------------
(***************************************************************************)
(* An instance of Switch for TLC: a seed S and two clients.  A and B know  *)
(* S and advertise the same LAN address, which leads S to A; nobody can    *)
(* dial B.  S is given no address to advertise and takes the one it is     *)
(* bound to.  S and A dial each other.  One more address, other, may be in *)
(* the configuration of OtherOf and leads to OtherIs: when that is S, the  *)
(* seed dials itself.                                                      *)
(***************************************************************************)
EXTENDS Switch

CONSTANTS S, A, B,
          seed, other, lan, any,   \* addresses
          OtherOf, OtherIs,
          Twice                    \* dials again before a handshake is over

MCListen == [n \in Node |-> any]
MCAdvertise == [n \in Node |-> IF n = S THEN any ELSE lan]
MCBound == [n \in Node |-> IF n = S THEN seed ELSE any]
MCSeeds ==
    [n \in Node |-> (IF n = S THEN {} ELSE {seed}) \cup (IF n = OtherOf THEN {other} ELSE {})]
MCRoute ==
    [n \in Node |-> [a \in Addr |->
        CASE a = seed -> S
          [] a = other -> OtherIs
          [] a = lan /\ n = S /\ A \in Node -> A
          [] OTHER -> Nil]]
MCSlots == [n \in Node |-> IF n = Twice THEN 2 ELSE 1]

\* B, whom nobody can dial, ends up connected to the seed for good, although A
\* advertises the same address and B's connection may be lost or reset by a
\* restart on either side (register tells peers apart by their nonces).
ClientStays == <>[](Linked(B, S) \/ closed[B] \/ closed[S])
=============================================================================
