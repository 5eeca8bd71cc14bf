-------------------------------- MODULE Relay --------------------------------
(***************************************************************************)
(* Relaying of pending transactions between nodes (internal/node/node.go): *)
(* AddTx and the flood it starts, and the mempool exchange of a new        *)
(* connection.  What one node does with its mempool when blocks arrive is  *)
(* the matter of Node, the exchange of blocks that of Sync; here no block  *)
(* is found, all senders have the funds and no mempool is at its cap.      *)
(*                                                                         *)
(* A connection carries one FIFO of messages in each direction, read by    *)
(* one goroutine per end.  It takes the node's mutex anew for every tx of  *)
(* a mempool message, and writes its answers after it has released the     *)
(* mutex.  Broadcast writes from one goroutine per peer: these messages    *)
(* wait in spawned and reach the FIFO in any order.                        *)
(*                                                                         *)
(* No write has a deadline.  One that the buffers of the connection cannot *)
(* take waits until the other end reads: for ever, if that one is waiting  *)
(* with a write of its own.                                                *)
(***************************************************************************)
EXTENDS Integers, Sequences, SequencesExt

CONSTANTS Node,
          Links,                \* the pairs {n, p} of nodes that can be connected
          Tx,
          From, Nonce,          \* tx -> its sender, its nonce after the confirmed one
          Origin,               \* tx -> the node that signs it
          MempoolReplyBudget,
          SocketRoom,           \* transactions the buffers of a connection hold
          MaxFaults,            \* lost connections and restarts
          Nil

ASSUME RelayAssumption ==
    /\ \A l \in Links : \E n, p \in Node : n # p /\ l = {n, p}
    /\ \A t \in Tx : Nonce[t] \in Nat /\ Origin[t] \in Node
    /\ MempoolReplyBudget \in Nat \ {0}
    /\ SocketRoom \in Nat /\ MaxFaults \in Nat
    /\ Nil \notin Seq(Tx)

VARIABLES
    pool,      \* node -> mempoolOrder
    signed,    \* the transactions that exist
    conns,     \* the connected pairs
    peers,     \* node -> the peers it has registered
    wire,      \* n -> p -> the messages from n that p has not read
    spawned,   \* n -> p -> the broadcasts of n not yet written to p
    reply,     \* n -> p -> the mempool reply n is about to write to p, or Nil
    batch,     \* n -> p -> the rest of the mempool message of p that n reads
    faults

vars == <<pool, signed, conns, peers, wire, spawned, reply, batch, faults>>

-----------------------------------------------------------------------------
Version == [type |-> "version"]
GetMempool == [type |-> "getmempool"]
Mempool(list) == [type |-> "mempool", txs |-> list]
NewTx(t) == [type |-> "newtx", tx |-> t]

Pool(n) == Range(pool[n])
Connected(n, p) == {n, p} \in conns

\* The FIFOs after n has taken read messages of p and written msgs to it; a
\* write to a lost connection fails unnoticed.
Wire(n, p, read, msgs) ==
    [wire EXCEPT ![p][n] = SubSeq(@, 1 + read, Len(@)),
                 ![n][p] = IF Connected(n, p) THEN @ \o msgs ELSE @]

\* Broadcast: every registered peer but one gets a goroutine.
Broadcast(n, except, m) ==
    [spawned EXCEPT ![n] =
        [p \in Node |-> IF p \in peers[n] \ {except} THEN @[p] \cup {m} ELSE @[p]]]

\* Two read loops write more than the buffers hold, and neither reads.
Stuck(n, p) ==
    /\ Connected(n, p)
    /\ reply[n][p] # Nil /\ Len(reply[n][p]) > SocketRoom
    /\ reply[p][n] # Nil /\ Len(reply[p][n]) > SocketRoom

Init ==
    /\ pool = [n \in Node |-> << >>]
    /\ signed = {}
    /\ conns = {}
    /\ peers = [n \in Node |-> {}]
    /\ wire = [n \in Node |-> [p \in Node |-> << >>]]
    /\ spawned = [n \in Node |-> [p \in Node |-> {}]]
    /\ reply = [n \in Node |-> [p \in Node |-> Nil]]
    /\ batch = [n \in Node |-> [p \in Node |-> << >>]]
    /\ faults = 0

-----------------------------------------------------------------------------
(***************************************************************************)
(* AddTx.                                                                  *)
(***************************************************************************)
\* Mutation: nonces that were used are accepted, and seenTx is not asked.
AcceptableReplayed(n, t) ==
    Nonce[t] <= Cardinality({u \in Pool(n) : From[u] = From[t]})

\* Not seen, and valid in the pending state: its nonce is the next one of its
\* sender.
Acceptable(n, t) ==
    /\ t \notin Pool(n)
    /\ Nonce[t] = Cardinality({u \in Pool(n) : From[u] = From[t]})

\* Mutation: the caller writes to the peers itself.
AddTxSynchronous(n, t, except) ==
    /\ Acceptable(n, t) => \A p \in peers[n] \ {except} : ~Stuck(n, p)
    /\ pool' = [pool EXCEPT ![n] = IF Acceptable(n, t) THEN Append(@, t) ELSE @]
    /\ spawned' = IF Acceptable(n, t) THEN Broadcast(n, except, NewTx(t)) ELSE spawned

\* A tx that is refused leaves no trace, not even in seenTx.
AddTx(n, t, except) ==
    IF Acceptable(n, t)
    THEN /\ pool' = [pool EXCEPT ![n] = Append(@, t)]
         /\ spawned' = Broadcast(n, except, NewTx(t))
    ELSE UNCHANGED <<pool, spawned>>

\* The wallet of n signs its next tx.  After a restart that is one with a nonce
\* which the wallet has used before.
Send(n, t) ==
    /\ t \in Tx \ signed
    /\ Origin[t] = n
    /\ Acceptable(n, t)
    /\ signed' = signed \cup {t}
    /\ AddTx(n, t, n)
    /\ UNCHANGED <<conns, peers, wire, reply, batch, faults>>

-----------------------------------------------------------------------------
(***************************************************************************)
(* The read loop of n for p.                                               *)
(***************************************************************************)
Reading(n, p, type) ==
    /\ reply[n][p] = Nil /\ batch[n][p] = << >>
    /\ wire[p][n] # << >>
    /\ Head(wire[p][n]).type = type

\* Mutation: the mempool of a new peer is not asked for.
RequestNothing == << >>

Request == <<GetMempool>>

onPeerConnect(n, p) ==
    /\ Reading(n, p, "version")
    /\ peers' = [peers EXCEPT ![n] = @ \cup {p}]
    /\ wire' = Wire(n, p, 1, Request)
    /\ UNCHANGED <<pool, signed, conns, spawned, reply, batch, faults>>

\* The oldest pending transactions, as many as the budget allows.
Snapshot(n) ==
    IF Len(pool[n]) <= MempoolReplyBudget THEN pool[n]
    ELSE SubSeq(pool[n], 1, MempoolReplyBudget)

\* onGetMempool: the reply is made under the mutex ...
onGetMempool(n, p) ==
    /\ Reading(n, p, "getmempool")
    /\ reply' = [reply EXCEPT ![n][p] = IF Snapshot(n) = << >> THEN Nil ELSE Snapshot(n)]
    /\ wire' = Wire(n, p, 1, << >>)
    /\ UNCHANGED <<pool, signed, conns, peers, spawned, batch, faults>>

\* ... and written later.
SendMempool(n, p) ==
    /\ reply[n][p] # Nil /\ ~Stuck(n, p)
    /\ wire' = Wire(n, p, 0, <<Mempool(reply[n][p])>>)
    /\ reply' = [reply EXCEPT ![n][p] = Nil]
    /\ UNCHANGED <<pool, signed, conns, peers, spawned, batch, faults>>

onNewTx(n, p) ==
    /\ Reading(n, p, "newtx")
    /\ AddTx(n, Head(wire[p][n]).tx, p)
    /\ wire' = Wire(n, p, 1, << >>)
    /\ UNCHANGED <<signed, conns, peers, reply, batch, faults>>

\* onMempool: the message is taken off the connection ...
onMempool(n, p) ==
    /\ Reading(n, p, "mempool")
    /\ batch' = [batch EXCEPT ![n][p] = Head(wire[p][n]).txs]
    /\ wire' = Wire(n, p, 1, << >>)
    /\ UNCHANGED <<pool, signed, conns, peers, spawned, reply, faults>>

\* ... and its transactions are added one by one.
onMempoolNext(n, p) ==
    /\ batch[n][p] # << >>
    /\ AddTx(n, Head(batch[n][p]), p)
    /\ batch' = [batch EXCEPT ![n][p] = Tail(@)]
    /\ UNCHANGED <<signed, conns, peers, wire, reply, faults>>

-----------------------------------------------------------------------------
(***************************************************************************)
(* The other goroutines, the dialer and the faults.                        *)
(***************************************************************************)
\* A goroutine of Broadcast; Send holds the peer's writeMu while it waits.
WriteSpawned(n, p) ==
    \E m \in spawned[n][p] :
        /\ ~Stuck(n, p)
        /\ spawned' = [spawned EXCEPT ![n][p] = @ \ {m}]
        /\ wire' = Wire(n, p, 0, <<m>>)
        /\ UNCHANGED <<pool, signed, conns, peers, reply, batch, faults>>

\* dialLoop; both ends have closed the previous connection.
Connect(l) ==
    /\ l \notin conns
    /\ \A n, p \in l : reply[n][p] = Nil /\ batch[n][p] = << >>
    /\ conns' = conns \cup {l}
    /\ wire' = [n \in Node |-> [p \in Node |->
                   IF l = {n, p} THEN <<Version>> ELSE wire[n][p]]]
    /\ UNCHANGED <<pool, signed, peers, spawned, reply, batch, faults>>

\* Mutation: the peers stay registered.
LoseRegistered(L) ==
    /\ faults < MaxFaults
    /\ faults' = faults + 1
    /\ conns' = conns \ L
    /\ wire' = [n \in Node |-> [p \in Node |->
                   IF {n, p} \in L THEN << >> ELSE wire[n][p]]]
    /\ spawned' = [n \in Node |-> [p \in Node |->
                      IF {n, p} \in L THEN {} ELSE spawned[n][p]]]
    /\ UNCHANGED peers

\* The connections in L are gone, with all that was under way on them.
Lose(L) ==
    /\ faults < MaxFaults
    /\ faults' = faults + 1
    /\ conns' = conns \ L
    /\ peers' = [n \in Node |-> {p \in peers[n] : {n, p} \notin L}]
    /\ wire' = [n \in Node |-> [p \in Node |->
                   IF {n, p} \in L THEN << >> ELSE wire[n][p]]]
    /\ spawned' = [n \in Node |-> [p \in Node |->
                      IF {n, p} \in L THEN {} ELSE spawned[n][p]]]

\* A read loop finishes what it has begun.
Disconnect(l) ==
    /\ l \in conns
    /\ Lose({l})
    /\ UNCHANGED <<pool, signed, reply, batch>>

\* The mempool is not kept on disk.
Restart(n) ==
    /\ Lose({l \in conns : n \in l})
    /\ pool' = [pool EXCEPT ![n] = << >>]
    /\ reply' = [reply EXCEPT ![n] = [p \in Node |-> Nil]]
    /\ batch' = [batch EXCEPT ![n] = [p \in Node |-> << >>]]
    /\ UNCHANGED signed

ReadLoop(n, p) ==
    \/ onPeerConnect(n, p) \/ onGetMempool(n, p) \/ SendMempool(n, p)
    \/ onNewTx(n, p) \/ onMempool(n, p) \/ onMempoolNext(n, p)

Next ==
    \/ \E n \in Node, t \in Tx : Send(n, t)
    \/ \E n, p \in Node : ReadLoop(n, p) \/ WriteSpawned(n, p)
    \/ \E n \in Node : Restart(n)
    \/ \E l \in Links : Connect(l) \/ Disconnect(l)

\* Read loops and goroutines run and dialLoop retries for ever; whether
\* transactions are signed or connections lost is open.
Fairness ==
    /\ \A l \in Links : \A n \in l : \A p \in l \ {n} :
         WF_vars(ReadLoop(n, p)) /\ WF_vars(WriteSpawned(n, p))
    /\ \A l \in Links : WF_vars(Connect(l))

Spec == Init /\ [][Next]_vars /\ Fairness

-----------------------------------------------------------------------------
(***************************************************************************)
(* Properties.                                                             *)
(***************************************************************************)
\* The variables have their types; whom a node broadcasts to it is connected with.
RelayTypeOK ==
    /\ signed \subseteq Tx
    /\ conns \subseteq Links
    /\ \A n \in Node : pool[n] \in Seq(signed) /\ \A p \in peers[n] : Connected(n, p)

\* Whatever order transactions arrive in, and whatever a wallet signed again
\* after a restart, every mempool has those of one sender in the order of their
\* nonces, without gaps or repetitions, so that a candidate can include all of
\* them (AddTx).
NoncesInOrder ==
    \A n \in Node : \A i \in DOMAIN pool[n] :
        Nonce[pool[n][i]] =
            Cardinality({j \in 1 .. i - 1 : From[pool[n][j]] = From[pool[n][i]]})

\* A tx that can be accepted without another one before it.
First(t) == Nonce[t] = 0

\* n has t pending, or a tx that the same wallet signed with the same nonce.
Holds(n, t) == \E u \in Pool(n) : From[u] = From[t] /\ Nonce[u] = Nonce[t]

\* n and p have registered each other and nothing is under way between them.
Quiet(n, p) ==
    /\ p \in peers[n] /\ n \in peers[p]
    /\ \A x, y \in {n, p} : /\ wire[x][y] = << >> /\ spawned[x][y] = {}
                            /\ reply[x][y] = Nil /\ batch[x][y] = << >>

\* No tx slips between the mempool exchange and the flood, whether it was added
\* before, during or after the handshake: whenever a connection is quiet, each
\* end holds the transactions of the other that depend on no other, as far as
\* one reply reaches, or has one in the place of those it refused (onPeerConnect,
\* onGetMempool, Broadcast).
NothingSlips ==
    \A n, p \in Node :
        n # p /\ Quiet(n, p) =>
            \A t \in Range(Snapshot(n)) : First(t) => Holds(p, t)

\* A registered peer does not stay without a pending tx that depends on no other
\* and that one reply reaches: it comes to have it or one in its place, unless
\* the connection to that very peer is lost or stuck.  Neither a stuck connection
\* nor lost ones keep a node from relaying to its other peers (Broadcast, AddTx,
\* onMempool).
LinksRelay ==
    \A l \in Links : \A n \in l, p \in l : \A t \in Tx :
        n # p /\ First(t) =>
            []<>(t \in Range(Snapshot(n)) /\ p \in peers[n] => Holds(p, t) \/ Stuck(n, p))

Somewhere(t) == \E n \in Node : t \in Pool(n)
Everywhere(t) == \A n \in Node : t \in Pool(n)

\* The README: the seed relays transactions.  All of them, that is, also the
\* second of two payments a wallet makes.
SeedRelays == \A t \in Tx : Somewhere(t) ~> Everywhere(t)
=============================================================================
