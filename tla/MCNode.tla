------------------------------- MODULE MCNode -------------------------------
(***************************************************************************)
(* An instance of Node for TLC: no retargets, so the longer branch wins.   *)
(*                                                                         *)
(*   G --- a1 --- a2[t0] --- a3[t1]                                        *)
(*    \--- b1 --- b2 ------- b3[u0]                                        *)
(*                  \------- c3                                            *)
(*                                                                         *)
(* alice mines every block.  t0 and t1 are her first and second payment,   *)
(* u0 a competing first payment, v0 bob's payment out of what t0 gave him; *)
(* w0 is not signed by its sender.                                         *)
(***************************************************************************)
EXTENDS Node

CONSTANTS alice, bob, c1, c2,
          T0, T1   \* the times alice's clock showed at t0 and t1

Spend(from, to, amount, fee, nonce, time) ==
    [from |-> from, to |-> to, amount |-> amount, fee |-> fee,
     nonce |-> nonce, time |-> time, auth |-> "valid"]

t0 == Spend(alice, bob, 2, 0, 0, T0)
t1 == Spend(alice, bob, 1, 1, 1, T1)
u0 == Spend(alice, bob, 1, 0, 0, 3)
v0 == Spend(bob, alice, 1, 0, 0, 4)
w0 == [Spend(alice, bob, 1, 0, 0, 5) EXCEPT !.auth = "bad"]

B(height, prev, time, amount, txs) ==
    [height |-> height, prev |-> prev, time |-> time, difficulty |-> 1,
     miner |-> alice,
     txs |-> <<[from |-> CoinbaseAddress, to |-> alice, amount |-> amount,
                fee |-> 0, nonce |-> height, time |-> time,
                auth |-> "none"]>> \o txs,
     merkleOk |-> TRUE, powOk |-> TRUE]

G  == 5
a1 == 7
a2 == 3
a3 == 8
b1 == 6
b2 == 9
b3 == 4
c3 == 1

MCBlock == [h \in {G, a1, a2, a3, b1, b2, b3, c3} |->
    CASE h = G  -> [B(0, -1, 0, 0, << >>) EXCEPT !.txs = << >>]
      [] h = a1 -> B(1, G, 1, RewardAt(1), << >>)
      [] h = a2 -> B(2, a1, 2, RewardAt(2), <<t0>>)
      [] h = a3 -> B(3, a2, 3, RewardAt(3) + 1, <<t1>>)
      [] h = b1 -> B(1, G, 2, RewardAt(1), << >>)
      [] h = b2 -> B(2, b1, 3, RewardAt(2), << >>)
      [] h = b3 -> B(3, b2, 4, RewardAt(3), <<u0>>)
      [] h = c3 -> B(3, b2, 5, RewardAt(3), << >>)]

MCReplay[h \in Hash] ==
    IF h = G THEN NewState
    ELSE LET s == MCReplay[MCBlock[h].prev] IN
         IF s = Invalid THEN Invalid ELSE ApplyBlock(s, MCBlock[h])

MCTx == {t0, t1, u0, v0, w0}

MCPayment == {[to |-> bob, amount |-> 1, fee |-> 0]}
=============================================================================
