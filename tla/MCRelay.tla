------------------------------- MODULE MCRelay -------------------------------
(***************************************************************************)
(* An instance of Relay for TLC: two laptops n1 and q1 behind a seed s1.   *)
(* The wallet of n1 makes two payments t0 and t1, that of q1 makes u0.     *)
(* After a restart the wallet of n1 may also sign r0, with the nonce of t0.*)
(***************************************************************************)
EXTENDS Relay

CONSTANTS n1, s1, q1, t0, t1, r0, u0

MCFrom == [t \in Tx |-> IF t = u0 THEN q1 ELSE n1]
MCNonce == [t \in Tx |-> IF t = t1 THEN 1 ELSE 0]
=============================================================================
