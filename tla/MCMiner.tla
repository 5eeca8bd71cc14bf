------------------------------- MODULE MCMiner -------------------------------
(***************************************************************************)
(* An instance of Miner for TLC: two threads, a subscription with room for *)
(* two notices, so that it is full while the tip moves on.                 *)
(***************************************************************************)
EXTENDS Miner

CONSTANTS t1, t2
=============================================================================
