----------------------------- MODULE MCBlockTree -----------------------------
(***************************************************************************)
(* An instance of BlockTree for TLC.  Retargets every second block, a      *)
(* checkpoint every second block, two miners:                              *)
(*                                                                         *)
(*   G --- a1 --- a2                a1 is early: a2 carries difficulty 2   *)
(*    \      \--- x2 --- x3         x2 does not apply: its coinbase pays   *)
(*     \                            too much; x3 is one of the heaviest    *)
(*      \- b1 --- b2 --- b3 --- e4  e4 contains alice's payment twice      *)
(*                  \--- c3                                                *)
(*                                                                         *)
(* a2, b3 and c3 have equal work and win in the order c3, a2, b3: a reorg  *)
(* may shorten the chain.  x3 and e4 have equal work too.  a2 and c3 both  *)
(* contain alice's payment.  e4 is too far in the future until the clock   *)
(* ticks.  z1 claims a difficulty it may not have, g0 is the genesis of    *)
(* another network.                                                        *)
(***************************************************************************)
EXTENDS BlockTree

CONSTANTS alice, bob

Pay(miner, height, amount) ==
    [from |-> CoinbaseAddress, to |-> miner, amount |-> amount, fee |-> 0,
     nonce |-> height, time |-> 0, auth |-> "none"]

B(height, prev, time, difficulty, miner, amount, txs) ==
    [height |-> height, prev |-> prev, time |-> time,
     difficulty |-> difficulty, miner |-> miner,
     txs |-> <<Pay(miner, height, amount)>> \o txs,
     merkleOk |-> TRUE, powOk |-> TRUE]

Spend == [from |-> alice, to |-> bob, amount |-> 1, fee |-> 1, nonce |-> 0,
          time |-> 1, auth |-> "valid"]

G  == 5
a1 == 7
a2 == 9
x2 == 1
x3 == 8
b1 == 6
b2 == 3
b3 == 10
c3 == 2
z1 == 4
g0 == 11
e4 == 12

MCBlock == [h \in {G, a1, a2, x2, x3, b1, b2, b3, c3, z1, g0, e4} |->
    CASE h = G  -> [B(0, -1, 0, 1, CoinbaseAddress, 0, << >>) EXCEPT !.txs = << >>]
      [] h = a1 -> B(1, G, 1, 1, alice, 4, << >>)
      [] h = a2 -> B(2, a1, 2, 2, alice, 2 + 1, <<Spend>>)
      [] h = x2 -> B(2, a1, 3, 2, bob, 4, << >>)
      [] h = x3 -> B(3, x2, 4, 2, bob, 2, << >>)
      [] h = b1 -> B(1, G, 2, 1, alice, 4, << >>)
      [] h = b2 -> B(2, b1, 3, 1, bob, 2, << >>)
      [] h = b3 -> B(3, b2, 4, 1, alice, 2, << >>)
      [] h = c3 -> B(3, b2, 5, 1, bob, 2 + 1, <<Spend>>)
      [] h = e4 -> B(4, b3, 6, 2, alice, 1 + 2, <<Spend, Spend>>)
      [] h = z1 -> B(1, G, 1, 4, bob, 4, << >>)
      [] h = g0 -> [B(0, G, 1, 1, CoinbaseAddress, 0, << >>) EXCEPT !.txs = << >>]]

MCReplay[h \in Hash] ==
    IF h = G THEN NewState
    ELSE LET s == MCReplay[MCBlock[h].prev] IN
         IF s = Invalid THEN Invalid ELSE ApplyBlock(s, MCBlock[h])
=============================================================================
