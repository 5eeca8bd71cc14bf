------------------------------- MODULE MCSync -------------------------------
(***************************************************************************)
(* An instance of Sync for TLC: two nodes that mine a chain each,          *)
(*                                                                         *)
(*   G --- a1 --- a2                 n mines a1 and a2                     *)
(*    \--- b1 --- b2 --- b3          p mines b1, b2 and b3                 *)
(*                                                                         *)
(* or build on each other's blocks as far as the table allows.  The hashes *)
(* of n are the smaller ones, so that equal work leaves n where it is.     *)
(* Hash is the part of the table a configuration uses: G, a1, b1 and b2.   *)
(***************************************************************************)
EXTENDS Sync

CONSTANTS n1, p1

B(prev, height, miner) ==
    [prev |-> prev, height |-> height, difficulty |-> 1, miner |-> miner, txs |-> 1]

MCBlock == [h \in 0 .. 5 |->
    CASE h = 0 -> [B(-1, 0, Nil) EXCEPT !.txs = 0]
      [] h = 1 -> B(0, 1, n1)
      [] h = 2 -> B(1, 2, n1)
      [] h = 3 -> B(0, 1, p1)
      [] h = 4 -> B(3, 2, p1)
      [] h = 5 -> B(4, 3, p1)]
=============================================================================
