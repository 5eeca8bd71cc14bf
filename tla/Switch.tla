------------------------------- MODULE Switch -------------------------------
(***************************************************************************)
(* Peer connections (internal/p2p/p2p.go): dialling, accepting, the        *)
(* version handshake, registration, the exchange of addresses, lost        *)
(* connections, Stop and restarts.  What the registered connections carry  *)
(* is the matter of Sync.                                                  *)
(*                                                                         *)
(* A connection has two ends, each with a goroutine of its own             *)
(* (serveConn).  An end is "backlog" until acceptLoop takes it, "taken"    *)
(* until its goroutine runs, "shaking" after it has written its version,   *)
(* "up" once it is registered, "closed" when its goroutine is done; "shut" *)
(* is an end that Stop has closed and whose goroutine has yet to notice.   *)
(* An end notices that the other side, or the network, is gone after       *)
(* reading some or all of what was sent before.                            *)
(*                                                                         *)
(* The loops ask whether the switch is full, or closed, before they dial   *)
(* or serve, and hold no lock while they do: it may be either by the time  *)
(* the connection stands.                                                  *)
(*                                                                         *)
(* Every process draws a nonce that no other has, and never 0, so the      *)
(* rules for peers without a nonce do not apply between these nodes.       *)
(***************************************************************************)
EXTENDS Integers, FiniteSets

CONSTANTS Node, Addr,
          Listen, Advertise,          \* node -> the addresses New is given
          Bound,                      \* node -> the address the listener has
          Unspecified,                \* addresses nobody can dial
          Seeds,                      \* node -> addresses
          Route,                      \* node -> addr -> whom a dial reaches, or Nil
          Slots,                      \* node -> bound of its open dialled connections
          MaxPeers,
          PeersCap,                   \* addresses per peers message
          MaxFaults,                  \* lost connections, stops and restarts
          Nil

Conn == UNION {{n} \X (1 .. Slots[n]) : n \in Node}

Side == {"dial", "accept"}
Places == {"backlog", "taken", "shaking", "up", "shut", "closed"}

ASSUME SwitchAssumption ==
    /\ Advertise \in [Node -> Addr] /\ Listen \in [Node -> Addr] /\ Bound \in [Node -> Addr]
    /\ Unspecified \subseteq Addr
    /\ Seeds \in [Node -> SUBSET Addr]
    /\ Route \in [Node -> [Addr -> Node \cup {Nil}]]
    /\ Slots \in [Node -> Nat]
    /\ MaxPeers \in Nat \ {0} /\ PeersCap \in Nat /\ MaxFaults \in Nat
    /\ Nil \notin Addr \cup Node \cup (Node \X Nat)
    /\ Nil \notin [addr : Addr, to : Node, dial : Places, accept : Places,
                   nonces : [Side -> (Node \X Nat) \cup {Nil}], lost : BOOLEAN]

VARIABLES
    conn,     \* connection -> its record, or Nil
    peers,    \* node -> the ends in s.peers
    known,    \* node -> s.known
    pass,     \* node -> the addresses dialPass has yet to try
    dialing,  \* node -> the address dialPass is dialling, or Nil
    closed,   \* node -> s.closed
    nonce,    \* node -> s.Nonce
    mail,     \* end -> the addresses under way to it in peers messages
    faults

vars == <<conn, peers, known, pass, dialing, closed, nonce, mail, faults>>

-----------------------------------------------------------------------------
(***************************************************************************)
(* Ends.                                                                   *)
(***************************************************************************)
End == Conn \X Side

Exists(e) == conn[e[1]] # Nil
Across(e) == <<e[1], IF e[2] = "dial" THEN "accept" ELSE "dial">>
At(e) == IF Exists(e) THEN conn[e[1]][e[2]] ELSE "closed"
Owner(e) == IF e[2] = "dial" THEN e[1][1] ELSE conn[e[1]].to

\* Peer.Dial, the key in s.peers: the dialled address, or the ephemeral address
\* of a peer that dialled us.
Key(e) == IF e[2] = "dial" THEN conn[e[1]].addr ELSE e[1]

\* The nonce in the version of the other end; Nil when none was written.
PeerNonce(e) == conn[e[1]].nonces[Across(e)[2]]

\* The connections after the ends in E have reached place p.
Moved(E, p) ==
    [c \in Conn |->
        IF conn[c] = Nil THEN Nil
        ELSE LET place(s) == IF <<c, s>> \in E THEN p ELSE conn[c][s] IN
             IF place("dial") = "closed" /\ place("accept") = "closed" THEN Nil
             ELSE [conn[c] EXCEPT !.dial = place("dial"), !.accept = place("accept")]]

\* Mutation: one more than MaxPeers.
fullOffByOne(n) == Cardinality(peers[n]) > MaxPeers

full(n) == Cardinality(peers[n]) >= MaxPeers

\* What New makes of the seeds; those of the file come with them.
Learned(n, seeds) == seeds \ {Listen[n], Advertise[n]}

\* What a node advertises once Start has bound its listener.
Advertised(n) == IF Advertise[n] = Listen[n] THEN Bound[n] ELSE Advertise[n]

Own(n) == {Listen[n], Advertised(n), Bound[n]}

\* Mutation: the address is compared with what New was given.
AddKnownAsGiven(n, A) ==
    IF closed[n] THEN known[n]
    ELSE known[n] \cup (A \ (Unspecified \cup {Listen[n], Advertise[n]}))

\* AddKnown for every address of A.
AddKnown(n, A) ==
    IF closed[n] THEN known[n] ELSE known[n] \cup (A \ (Unspecified \cup Own(n)))

Init ==
    /\ conn = [c \in Conn |-> Nil]
    /\ peers = [n \in Node |-> {}]
    /\ known = [n \in Node |-> Learned(n, Seeds[n])]
    /\ pass = [n \in Node |-> {}]
    /\ dialing = [n \in Node |-> Nil]
    /\ closed = [n \in Node |-> FALSE]
    /\ nonce = [n \in Node |-> <<n, 0>>]
    /\ mail = [e \in End |-> {}]
    /\ faults = 0

-----------------------------------------------------------------------------
(***************************************************************************)
(* dialLoop and acceptLoop.                                                *)
(***************************************************************************)
\* dialPass: the candidates are the known addresses that are no keys of
\* peers.
StartPass(n) ==
    /\ ~closed[n] /\ pass[n] = {} /\ dialing[n] = Nil /\ ~full(n)
    /\ pass' = [pass EXCEPT ![n] = known[n] \ {Key(e) : e \in peers[n]}]
    /\ UNCHANGED <<conn, peers, known, dialing, closed, nonce, mail, faults>>

EndPass(n) ==
    /\ pass[n] # {} /\ dialing[n] = Nil
    /\ closed[n] \/ full(n)
    /\ pass' = [pass EXCEPT ![n] = {}]
    /\ UNCHANGED <<conn, peers, known, dialing, closed, nonce, mail, faults>>

\* The next candidate, in a random order.  The bound of Slots is kept here.
DialNext(n, a) ==
    /\ dialing[n] = Nil /\ a \in pass[n]
    /\ ~closed[n] /\ ~full(n)
    /\ \E c \in Conn : c[1] = n /\ conn[c] = Nil
    /\ pass' = [pass EXCEPT ![n] = @ \ {a}]
    /\ dialing' = [dialing EXCEPT ![n] = a]
    /\ UNCHANGED <<conn, peers, known, closed, nonce, mail, faults>>

\* Somebody listens there.
Reachable(n, a) == Route[n][a] \in {p \in Node : ~closed[p]}

\* DialTimeout returns an error.  A timeout is a connection that is lost.
DialFails(n, a) ==
    /\ dialing[n] = a /\ ~Reachable(n, a)
    /\ dialing' = [dialing EXCEPT ![n] = Nil]
    /\ UNCHANGED <<conn, peers, known, pass, closed, nonce, mail, faults>>

\* The connection stands once the other side's kernel has taken it, and is
\* served whatever has become of the switch: serveConn writes our version.
Dial(n, a, c) ==
    /\ dialing[n] = a /\ Reachable(n, a)
    /\ c[1] = n /\ conn[c] = Nil
    /\ dialing' = [dialing EXCEPT ![n] = Nil]
    /\ conn' = [conn EXCEPT ![c] =
         [addr |-> a, to |-> Route[n][a], dial |-> "shaking", accept |-> "backlog",
          nonces |-> [dial |-> nonce[n], accept |-> Nil], lost |-> FALSE]]
    /\ UNCHANGED <<peers, known, pass, closed, nonce, mail, faults>>

\* acceptLoop closes the connection at once when the switch is full ...
Accept(c) ==
    /\ At(<<c, "accept">>) = "backlog"
    /\ conn' = Moved({<<c, "accept">>}, IF full(conn[c].to) THEN "closed" ELSE "taken")
    /\ UNCHANGED <<peers, known, pass, dialing, closed, nonce, mail, faults>>

\* ... or starts serveConn, which writes our version.
Greet(c) ==
    /\ At(<<c, "accept">>) = "taken"
    /\ conn' = [conn EXCEPT ![c].accept = "shaking",
                            ![c].nonces.accept = nonce[conn[c].to]]
    /\ UNCHANGED <<peers, known, pass, dialing, closed, nonce, mail, faults>>

-----------------------------------------------------------------------------
(***************************************************************************)
(* serveConn.                                                              *)
(***************************************************************************)
\* Mutation: whatever is registered under the same key goes.
DroppedByKey(e) == {x \in peers[Owner(e)] : Key(x) = Key(e)}

\* dropPeer removes the peer itself from the map, if it is there.
Dropped(e) == {e}

dropPeer(e) ==
    /\ conn' = Moved({e}, "closed")
    /\ peers' = [peers EXCEPT ![Owner(e)] = @ \ Dropped(e)]
    /\ mail' = [mail EXCEPT ![e] = {}]

isSelf(e) == PeerNonce(e) = nonce[Owner(e)]

\* Mutation: two peers may not advertise the same address.
registerByAdvert(e) ==
    /\ ~closed[Owner(e)]
    /\ \A x \in peers[Owner(e)] :
         /\ Advertised(Owner(Across(x))) # Advertised(Owner(Across(e)))
         /\ Key(x) # Key(e)

\* Mutation: only the key is looked at.
registerByKey(e) ==
    /\ ~closed[Owner(e)]
    /\ \A x \in peers[Owner(e)] : Key(x) # Key(e)

\* Mutation: the switch registers peers after Stop.
registerClosed(e) ==
    \A x \in peers[Owner(e)] : PeerNonce(x) # PeerNonce(e) /\ Key(x) # Key(e)

\* What register requires of a peer.
register(e) ==
    /\ ~closed[Owner(e)]
    /\ \A x \in peers[Owner(e)] : PeerNonce(x) # PeerNonce(e) /\ Key(x) # Key(e)

\* A version was written to this end.
VersionThere(e) == At(e) = "shaking" /\ PeerNonce(e) # Nil

\* The handshake is done, the peer's address becomes known.
Register(e) ==
    /\ VersionThere(e)
    /\ ~isSelf(e) /\ register(e)
    /\ conn' = Moved({e}, "up")
    /\ LET n == Owner(e) IN
       /\ peers' = [peers EXCEPT ![n] = @ \cup {e}]
       /\ known' = [known EXCEPT ![n] = AddKnown(n, {Advertised(Owner(Across(e)))})]
    /\ UNCHANGED <<pass, dialing, closed, nonce, mail, faults>>

\* Mutation: a peer that fails register stays connected.
RefusedLeftOpen(e) ==
    UNCHANGED <<conn, peers, mail>>

Refused(e) == dropPeer(e)

Refuse(e) ==
    /\ VersionThere(e)
    /\ isSelf(e) \/ ~register(e)
    /\ Refused(e)
    /\ UNCHANGED <<known, pass, dialing, closed, nonce, faults>>

\* The other side closed the connection, or it is lost, or Stop closed it: a
\* read, or the write of our version, fails.
ReadFails(e) ==
    /\ At(e) \in {"taken", "shaking", "up", "shut"}
    /\ At(e) = "shut" \/ At(Across(e)) \in {"closed", "shut"} \/ conn[e[1]].lost
    /\ dropPeer(e)
    /\ UNCHANGED <<known, pass, dialing, closed, nonce, faults>>

handlePeersMsg(e) ==
    /\ At(e) = "up"
    /\ mail[e] # {}
    /\ known' = [known EXCEPT ![Owner(e)] = AddKnown(Owner(e), mail[e])]
    /\ mail' = [mail EXCEPT ![e] = {}]
    /\ UNCHANGED <<conn, peers, pass, dialing, closed, nonce, faults>>

\* Of a message only what the receiver does not know yet matters.
News(n, addrs) == AddKnown(n, addrs) \ known[n]

\* Every 60 s all peers are sent known addresses.
peersLoop(n) ==
    /\ ~closed[n]
    /\ \E addrs \in SUBSET known[n] :
         /\ addrs # {} /\ Cardinality(addrs) <= PeersCap
         /\ Cardinality(addrs) = PeersCap \/ addrs = known[n]
         /\ mail' = [e \in End |-> IF Exists(e) /\ Across(e) \in peers[n]
                                     /\ At(e) \in {"shaking", "up"}
                                   THEN mail[e] \cup News(Owner(e), addrs) ELSE mail[e]]
    /\ UNCHANGED <<conn, peers, known, pass, dialing, closed, nonce, faults>>

-----------------------------------------------------------------------------
(***************************************************************************)
(* Stop and faults.                                                        *)
(***************************************************************************)
Fault == faults < MaxFaults /\ faults' = faults + 1

\* Connections that were not accepted yet are gone with the listener.
Backlog(n) == {e \in End : Exists(e) /\ Owner(e) = n /\ At(e) = "backlog"}

\* Stop closes the registered connections; dials and handshakes go on until
\* register refuses them.
Stop(n) ==
    /\ ~closed[n]
    /\ Fault
    /\ closed' = [closed EXCEPT ![n] = TRUE]
    /\ conn' = [c \in Conn |->
         LET shut == Moved(peers[n], "shut")[c] IN
         IF <<c, "accept">> \in Backlog(n) THEN Moved({<<c, "accept">>}, "closed")[c]
         ELSE shut]
    /\ UNCHANGED <<peers, known, pass, dialing, nonce, mail>>

\* The process ends, with all its sockets, and is started again: it draws a
\* new nonce and knows its seeds and what the peers file held.  The file is
\* written without a lock, so it is some earlier set of known addresses.
Restart(n) ==
    /\ Fault
    /\ LET ends == {e \in End : Exists(e) /\ Owner(e) = n} IN
       /\ conn' = Moved(ends, "closed")
       /\ mail' = [e \in End |-> IF e \in ends THEN {} ELSE mail[e]]
    /\ peers' = [peers EXCEPT ![n] = {}]
    /\ \E saved \in SUBSET known[n] :
         known' = [known EXCEPT ![n] = Learned(n, Seeds[n] \cup saved)]
    /\ pass' = [pass EXCEPT ![n] = {}]
    /\ dialing' = [dialing EXCEPT ![n] = Nil]
    /\ closed' = [closed EXCEPT ![n] = FALSE]
    /\ nonce' = [nonce EXCEPT ![n] = <<n, @[2] + 1>>]

Lose(c) ==
    /\ conn[c] # Nil /\ ~conn[c].lost
    /\ Fault
    /\ conn' = [conn EXCEPT ![c].lost = TRUE]
    /\ UNCHANGED <<peers, known, pass, dialing, closed, nonce, mail>>

-----------------------------------------------------------------------------
dialLoop(n) ==
    \/ StartPass(n) \/ EndPass(n)
    \/ \E a \in Addr : \/ DialNext(n, a) \/ DialFails(n, a)
                       \/ \E c \in Conn : Dial(n, a, c)

serveConn(e) ==
    Exists(e) /\ (Register(e) \/ Refuse(e) \/ ReadFails(e) \/ handlePeersMsg(e))

Next ==
    \/ \E n \in Node : dialLoop(n) \/ peersLoop(n) \/ Stop(n) \/ Restart(n)
    \/ \E c \in Conn : Accept(c) \/ Greet(c) \/ Lose(c)
    \/ \E e \in End : serveConn(e)

\* The loops run for ever, every accepted connection is served, and a lost
\* connection is noticed (TCP keep-alive is on by default).
Fairness ==
    /\ \A n \in Node : WF_vars(dialLoop(n))
    /\ \A c \in Conn : WF_vars(Accept(c)) /\ WF_vars(Greet(c))
    /\ \A e \in End : WF_vars(serveConn(e))

Spec == Init /\ [][Next]_vars /\ Fairness

-----------------------------------------------------------------------------
(***************************************************************************)
(* Properties.                                                             *)
(***************************************************************************)
\* The variables have their types, and a node lists an address of its own
\* (given, advertised or bound) among those it dials only if it was configured
\* as a seed: its peers send it back to no effect, and so does the peers file.
SwitchTypeOK ==
    /\ \A c \in Conn : conn[c] # Nil =>
         /\ conn[c].addr \in Addr /\ conn[c].to \in Node
         /\ conn[c].dial \in Places /\ conn[c].accept \in Places
         /\ conn[c].dial # "closed" \/ conn[c].accept # "closed"
    /\ \A n \in Node : /\ known[n] \subseteq Addr
                       /\ known[n] \cap Own(n) \subseteq Learned(n, Seeds[n])
                       /\ pass[n] \subseteq known[n]
                       /\ dialing[n] \in known[n] \cup {Nil}

OneLinkPerPeer ==
    \A n \in Node : \A x, y \in peers[n] :
        /\ PeerNonce(x) # nonce[n]
        /\ PeerNonce(x) = PeerNonce(y) => x = y

ServedIsRegistered ==
    \A n \in Node :
        peers[n] = {e \in End : Exists(e) /\ Owner(e) = n /\ At(e) \in {"up", "shut"}}

\* A node has one connection per peer process at most, and none to itself,
\* whichever side dialled, whatever addresses are advertised and however often
\* connections break and processes restart (register, isSelf).  And those it
\* reads messages from are exactly those it broadcasts to: dropping a duplicate
\* never removes the connection it duplicates, and nothing closed stays behind
\* (dropPeer).
RegistrySound == OneLinkPerPeer /\ ServedIsRegistered

\* The handshakes of n.
Handshakes(n) == {e \in End : Exists(e) /\ Owner(e) = n /\ At(e) \in {"taken", "shaking"}}

\* The limit is looked at before a connection is dialled or served and not at
\* its registration, so MaxPeers may be exceeded.  But a switch that stays full
\* comes to rest: the dials and handshakes that were under way when it filled
\* up end, and the addresses it knows and the nodes that dial it start no more
\* (full, dialLoop, acceptLoop).
FullSettles ==
    \A n \in Node :
        <>[](Cardinality(peers[n]) >= MaxPeers) =>
            <>[](dialing[n] = Nil /\ Handshakes(n) = {})

Half(c) == (At(<<c, "dial">>) = "up") # (At(<<c, "accept">>) = "up")

\* A connection that one side has registered and the other has not does not
\* stay so: two nodes that dial each other never keep one half each.
HalvesResolve == \A c \in Conn : []<>~Half(c)

\* After Stop every connection of the node is closed, the ones in the middle
\* of their handshake included.
StopDrains ==
    \A n \in Node : []<>(~closed[n] \/ \A e \in End :
                            Exists(e) /\ Owner(e) = n => At(e) = "closed")

Linked(n, p) ==
    \E c \in Conn : /\ conn[c] # Nil
                    /\ <<c, "dial">> \in peers[n] /\ <<c, "accept">> \in peers[p]
                    /\ conn[c].to = p
=============================================================================
