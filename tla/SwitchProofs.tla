---------------------------- MODULE SwitchProofs ----------------------------
(***************************************************************************)
(* Proofs about Switch, for every set of nodes, addresses and routes.      *)
(***************************************************************************)
EXTENDS Switch, TLAPS

ConnRecord ==
    [addr : Addr, to : Node, dial : Places, accept : Places,
     nonces : [Side -> (Node \X Nat) \cup {Nil}], lost : BOOLEAN]

\* The types of all variables.
Types ==
    /\ conn \in [Conn -> ConnRecord \cup {Nil}]
    /\ peers \in [Node -> SUBSET End]
    /\ known \in [Node -> SUBSET Addr]
    /\ pass \in [Node -> SUBSET Addr]
    /\ dialing \in [Node -> Addr \cup {Nil}]
    /\ closed \in [Node -> BOOLEAN]
    /\ nonce \in [Node -> Node \X Nat]
    /\ mail \in [End -> SUBSET Addr]

\* The places of an accepting end before serveConn.
Unserved == {"backlog", "taken"}

\* The version of the accepting side is not written before the connection is
\* served, and a peer is registered after its version was read.
VersionsRead ==
    /\ \A c \in Conn : conn[c] # Nil /\ conn[c].accept \in Unserved => conn[c].nonces["accept"] = Nil
    /\ \A n \in Node : \A e \in peers[n] : PeerNonce(e) # Nil

\* A connection is forgotten once both of its ends are closed.
OpenConns ==
    \A c \in Conn : conn[c] # Nil => conn[c].dial # "closed" \/ conn[c].accept # "closed"

\* The addresses of its own that a node knows are seeds.
OwnAreSeeds(n, addrs) == addrs \cap Own(n) \subseteq Learned(n, Seeds[n])

\* What a node dials, or is about to dial, it knows.
OwnSeeded ==
    \A n \in Node : /\ OwnAreSeeds(n, known[n])
                    /\ pass[n] \subseteq known[n]
                    /\ dialing[n] \in known[n] \cup {Nil}

RegistryInv ==
    Types /\ OpenConns /\ OwnSeeded /\ VersionsRead /\ OneLinkPerPeer /\ ServedIsRegistered

\* An end consists of a connection and a side.
LEMMA EndParts ==
    ASSUME NEW e \in End
    PROVE  /\ e[1] \in Conn /\ e[2] \in Side /\ e = <<e[1], e[2]>>
           /\ Across(e) \in End /\ Across(e)[1] = e[1] /\ Across(e)[2] \in Side
           /\ e[1][1] \in Node
BY DEF End, Side, Across, Conn

\* What Moved does to the connections.
LEMMA MovedConns ==
    ASSUME Types, NEW E, NEW p \in Places, NEW c \in Conn
    PROVE  LET m == Moved(E, p)[c]
               place(s) == IF <<c, s>> \in E THEN p ELSE conn[c][s]
           IN  IF conn[c] = Nil \/ (place("dial") = "closed" /\ place("accept") = "closed")
               THEN m = Nil
               ELSE /\ m \in ConnRecord /\ m # Nil
                    /\ m.addr = conn[c].addr /\ m.to = conn[c].to /\ m.lost = conn[c].lost
                    /\ m.nonces = conn[c].nonces
                    /\ m.dial = place("dial") /\ m.accept = place("accept")
<1> DEFINE place(s) == IF <<c, s>> \in E THEN p ELSE conn[c][s]
           m == Moved(E, p)[c]
<1>1. CASE conn[c] = Nil
  BY <1>1 DEF Moved
<1>2. CASE conn[c] # Nil /\ place("dial") = "closed" /\ place("accept") = "closed"
  BY <1>2 DEF Moved
<1>3. CASE conn[c] # Nil /\ ~(place("dial") = "closed" /\ place("accept") = "closed")
  <2>1. conn[c] \in ConnRecord
    BY <1>3 DEF Types
  <2>2. m = [conn[c] EXCEPT !.dial = place("dial"), !.accept = place("accept")]
    BY <1>3 DEF Moved
  <2>3. place("dial") \in Places /\ place("accept") \in Places
    BY <2>1 DEF ConnRecord
  <2> HIDE DEF place
  <2>4. /\ m \in ConnRecord
        /\ m.addr = conn[c].addr /\ m.to = conn[c].to /\ m.lost = conn[c].lost
        /\ m.nonces = conn[c].nonces
        /\ m.dial = place("dial") /\ m.accept = place("accept")
    BY <2>1, <2>2, <2>3 DEF ConnRecord
  <2>5. Nil \notin ConnRecord
    BY SwitchAssumption DEF ConnRecord
  <2> QED
    BY <1>3, <2>4, <2>5 DEF place
<1> QED
  BY <1>1, <1>2, <1>3

\* What a step does to end e that moves it to place q, or leaves it where it is,
\* and keeps the rest of its connection.
EndMoves(e, q) ==
    /\ At(e)' = IF Exists(e) THEN q ELSE "closed"
    /\ Exists(e)' => /\ Exists(e) /\ Owner(e)' = Owner(e)
                     /\ PeerNonce(e)' = PeerNonce(e) /\ Key(e)' = Key(e)
                     /\ Owner(Across(e))' = Owner(Across(e))
    /\ At(e)' # "closed" => Exists(e)'

\* What Moved does to an end.
LEMMA MovedEnd ==
    ASSUME Types, NEW E, NEW p \in Places, NEW e \in End,
           conn'[e[1]] = Moved(E, p)[e[1]]
    PROVE  EndMoves(e, IF e \in E THEN p ELSE At(e))
<1> DEFINE c == e[1]
           place(s) == IF <<c, s>> \in E THEN p ELSE conn[c][s]
           m == Moved(E, p)[c]
<1>2. c \in Conn /\ e[2] \in {"dial", "accept"} /\ e = <<c, e[2]>>
  BY EndParts DEF Side
<1>3. IF conn[c] = Nil \/ (place("dial") = "closed" /\ place("accept") = "closed")
      THEN m = Nil
      ELSE /\ m \in ConnRecord /\ m # Nil
           /\ m.addr = conn[c].addr /\ m.to = conn[c].to /\ m.lost = conn[c].lost
           /\ m.nonces = conn[c].nonces
           /\ m.dial = place("dial") /\ m.accept = place("accept")
  BY <1>2, MovedConns
<1>4. conn'[c] = m
  OBVIOUS
<1> HIDE DEF m
<1>6. At(e)' = IF Exists(e) THEN IF e \in E THEN p ELSE At(e) ELSE "closed"
  BY <1>2, <1>3, <1>4 DEF At, Exists
<1>7. Exists(e)' => /\ Exists(e) /\ Owner(e)' = Owner(e)
                    /\ PeerNonce(e)' = PeerNonce(e) /\ Key(e)' = Key(e)
                    /\ Owner(Across(e))' = Owner(Across(e))
  BY <1>2, <1>3, <1>4 DEF Exists, Owner, PeerNonce, Key, Across
<1> QED
  BY <1>6, <1>7 DEF At, EndMoves

\* Moved keeps the type of the connections, and forgets those it closes.
LEMMA MovedTypes ==
    ASSUME Types,
           conn' = [c \in Conn |-> conn'[c]],
           \A c \in Conn : \E E \in SUBSET End, p \in Places : conn'[c] = Moved(E, p)[c]
    PROVE  conn' \in [Conn -> ConnRecord \cup {Nil}] /\ OpenConns'
<1>1. SUFFICES ASSUME NEW c \in Conn
               PROVE  /\ conn'[c] \in ConnRecord \cup {Nil}
                      /\ conn'[c] # Nil => conn'[c].dial # "closed" \/ conn'[c].accept # "closed"
  BY DEF OpenConns
<1>2. PICK E \in SUBSET End, p \in Places : conn'[c] = Moved(E, p)[c]
  OBVIOUS
<1> DEFINE place(s) == IF <<c, s>> \in E THEN p ELSE conn[c][s]
           m == Moved(E, p)[c]
<1>3. IF conn[c] = Nil \/ (place("dial") = "closed" /\ place("accept") = "closed")
      THEN m = Nil
      ELSE /\ m \in ConnRecord /\ m # Nil
           /\ m.addr = conn[c].addr /\ m.to = conn[c].to /\ m.lost = conn[c].lost
           /\ m.nonces = conn[c].nonces
           /\ m.dial = place("dial") /\ m.accept = place("accept")
  BY MovedConns
<1> HIDE DEF m, place
<1>4. conn'[c] = m
  BY <1>2 DEF m
<1> QED
  BY <1>3, <1>4

-----------------------------------------------------------------------------
\* End e is as registered, or not, after a step as place At(e)' tells.
Registers(e) ==
    At(e)' \in {"up", "shut"} =>
        Exists(e)' /\ Exists(e) /\ Owner(e)' = Owner(e) /\ PeerNonce(e)' = PeerNonce(e)

\* Registered are those that are being served, if the step registers and drops
\* the ends it moves to and from these places.
LEMMA ServedStep ==
    ASSUME peers' \in [Node -> SUBSET End],
           \A e \in End : Registers(e),
           \A n \in Node : \A e \in End :
               e \in peers'[n] <=> Exists(e) /\ Owner(e) = n /\ At(e)' \in {"up", "shut"}
    PROVE  ServedIsRegistered'
<1>1. SUFFICES ASSUME NEW n \in Node, NEW e \in End
               PROVE  e \in peers'[n] <=>
                        Exists(e)' /\ Owner(e)' = n /\ At(e)' \in {"up", "shut"}
  BY DEF ServedIsRegistered
<1> QED
  BY DEF Registers

\* A step that registers nobody keeps the peers apart.
LEMMA ApartStep ==
    ASSUME Types, OneLinkPerPeer, VersionsRead,
           \A n \in Node : peers'[n] \subseteq peers[n],
           \A n \in Node : \A e \in peers'[n] : PeerNonce(e)' = PeerNonce(e),
           \A n \in Node : peers'[n] # {} => nonce'[n] = nonce[n]
    PROVE  /\ OneLinkPerPeer'
           /\ \A n \in Node : \A e \in peers'[n] : PeerNonce(e)' # Nil
<1>1. ASSUME NEW n \in Node, NEW x \in peers'[n], NEW y \in peers'[n]
      PROVE  /\ PeerNonce(x)' # nonce'[n] /\ PeerNonce(x)' # Nil
             /\ PeerNonce(x)' = PeerNonce(y)' => x = y
  <2>1. x \in peers[n] /\ y \in peers[n] /\ nonce'[n] = nonce[n]
    BY <1>1
  <2>2. PeerNonce(x)' = PeerNonce(x) /\ PeerNonce(y)' = PeerNonce(y)
    BY <1>1
  <2>3. PeerNonce(x) # nonce[n] /\ PeerNonce(x) # Nil /\ (PeerNonce(x) = PeerNonce(y) => x = y)
    BY <2>1 DEF OneLinkPerPeer, VersionsRead
  <2> QED
    BY <2>1, <2>2, <2>3
<1> QED
  BY <1>1 DEF OneLinkPerPeer

\* A connection in the backlog has no version of the accepting side.
LEMMA BacklogStep ==
    ASSUME VersionsRead,
           \A c \in Conn : conn'[c] # Nil /\ conn'[c].accept \in Unserved =>
               \/ conn[c] # Nil /\ conn[c].accept \in Unserved /\ conn'[c].nonces = conn[c].nonces
               \/ conn'[c].nonces["accept"] = Nil
    PROVE  \A c \in Conn : conn'[c] # Nil /\ conn'[c].accept \in Unserved =>
               conn'[c].nonces["accept"] = Nil
BY DEF VersionsRead

\* AddKnown lists none of a node's own addresses.
LEMMA LearnedOK ==
    ASSUME Types, OwnSeeded, NEW n \in Node, NEW A \in SUBSET Addr
    PROVE  /\ AddKnown(n, A) \in SUBSET Addr
           /\ known[n] \subseteq AddKnown(n, A)
           /\ OwnAreSeeds(n, AddKnown(n, A))
BY DEF Types, OwnSeeded, OwnAreSeeds, AddKnown

LEMMA InitInv == Init => RegistryInv
<1> SUFFICES ASSUME Init PROVE RegistryInv
  OBVIOUS
<1>1. Types
  <2>1. known \in [Node -> SUBSET Addr]
    BY SwitchAssumption DEF Init, Learned
  <2>2. nonce \in [Node -> Node \X Nat]
    BY DEF Init
  <2> QED
    BY <2>1, <2>2 DEF Init, Types
<1>2. OpenConns /\ VersionsRead /\ OneLinkPerPeer
  BY DEF Init, OpenConns, VersionsRead, OneLinkPerPeer
<1>3. OwnSeeded
  BY DEF Init, OwnSeeded, OwnAreSeeds
<1>4. \A e \in End : ~Exists(e)
  BY EndParts DEF Init, Exists
<1>5. ServedIsRegistered
  BY <1>4 DEF Init, ServedIsRegistered
<1> QED
  BY <1>1, <1>2, <1>3, <1>5 DEF RegistryInv

-----------------------------------------------------------------------------
\* Steps that move ends, each to a place q[e] that is not the backlog.
LEMMA MoveKeeps ==
    ASSUME VersionsRead, NEW q,
           \A e \in End : EndMoves(e, q[e]) /\ (q[e] \in Unserved => At(e) \in Unserved)
    PROVE  /\ \A e \in End : Registers(e)
           /\ \A e \in End : At(e)' \in {"up", "shut"} <=> Exists(e) /\ q[e] \in {"up", "shut"}
           /\ \A c \in Conn : conn'[c] # Nil /\ conn'[c].accept \in Unserved =>
                  conn'[c].nonces["accept"] = Nil
<1>1. \A e \in End : Registers(e)
  BY DEF EndMoves, Registers
<1>2. \A e \in End : At(e)' \in {"up", "shut"} <=> Exists(e) /\ q[e] \in {"up", "shut"}
  BY DEF EndMoves
<1>3. ASSUME NEW c \in Conn, conn'[c] # Nil, conn'[c].accept \in Unserved
      PROVE  conn'[c].nonces["accept"] = Nil
  <2> DEFINE a == <<c, "accept">>
             d == <<c, "dial">>
  <2>1. a \in End /\ d \in End
    BY DEF End, Side
  <2>2. At(a)' \in Unserved /\ Exists(a)' /\ Exists(d)'
    BY <1>3 DEF At, Exists
  <2>3. At(a) \in Unserved /\ Exists(a)
    BY <2>1, <2>2 DEF EndMoves
  <2>4. conn[c] # Nil /\ conn[c].accept \in Unserved
    BY <2>3 DEF At, Exists
  <2>5. PeerNonce(d)' = PeerNonce(d)
    BY <2>1, <2>2 DEF EndMoves
  <2>6. conn[c].nonces["accept"] = Nil
    BY <2>4 DEF VersionsRead
  <2> QED
    BY <2>5, <2>6 DEF PeerNonce, Across
<1> QED
  BY <1>1, <1>2, <1>3

\* dropPeer of an end that is being served or shaking hands.
LEMMA DropKeeps ==
    ASSUME RegistryInv, NEW e \in End, Exists(e), dropPeer(e),
           UNCHANGED <<known, pass, dialing, closed, nonce>>
    PROVE  RegistryInv'
<1> USE DEF RegistryInv
<1> DEFINE q == [x \in End |-> IF x = e THEN "closed" ELSE At(x)]
<1>1. e[1] \in Conn /\ conn[e[1]] \in ConnRecord /\ Owner(e) \in Node
  BY EndParts DEF Types, Exists, Owner, ConnRecord
<1>2. conn' = Moved({e}, "closed")
  BY DEF dropPeer
<1>3. \A x \in End : EndMoves(x, IF x \in {e} THEN "closed" ELSE At(x))
  BY <1>2, MovedEnd DEF Places
<1>4. \A x \in End : EndMoves(x, q[x]) /\ (q[x] \in Unserved => At(x) \in Unserved)
  BY <1>3 DEF Unserved
<1>5. conn' \in [Conn -> ConnRecord \cup {Nil}] /\ OpenConns'
  <2>1. conn' = [c \in Conn |-> conn'[c]]
    BY <1>2 DEF Moved
  <2>2. {e} \in SUBSET End /\ "closed" \in Places
    BY DEF Places
  <2> QED
    BY <1>2, <2>1, <2>2, MovedTypes
<1> HIDE DEF q
<1>6. /\ \A x \in End : Registers(x)
      /\ \A x \in End : At(x)' \in {"up", "shut"} <=> Exists(x) /\ q[x] \in {"up", "shut"}
      /\ \A c \in Conn : conn'[c] # Nil /\ conn'[c].accept \in Unserved =>
             conn'[c].nonces["accept"] = Nil
  BY <1>4, MoveKeeps
<1>7. peers' = [peers EXCEPT ![Owner(e)] = @ \ {e}]
  BY DEF dropPeer, Dropped
<1>8. peers' \in [Node -> SUBSET End] /\ \A n \in Node : peers'[n] \subseteq peers[n]
  BY <1>1, <1>7 DEF Types
<1>9. mail' \in [End -> SUBSET Addr]
  BY DEF dropPeer, Types
<1>10. ServedIsRegistered'
  <2>1. ASSUME NEW n \in Node, NEW x \in End
        PROVE  x \in peers'[n] <=> Exists(x) /\ Owner(x) = n /\ At(x)' \in {"up", "shut"}
    <3>1. x \in peers[n] <=> Exists(x) /\ Owner(x) = n /\ At(x) \in {"up", "shut"}
      BY DEF ServedIsRegistered
    <3>2. x \in peers'[n] <=> x \in peers[n] /\ ~(n = Owner(e) /\ x = e)
      BY <1>7 DEF Types
    <3>3. q[x] = IF x = e THEN "closed" ELSE At(x)
      BY DEF q
    <3> QED
      BY <1>6, <3>1, <3>2, <3>3
  <2> QED
    BY <2>1, <1>6, <1>8, ServedStep
<1>11. \A n \in Node : \A x \in peers'[n] : PeerNonce(x)' = PeerNonce(x)
  BY <1>6, <1>8, <1>10 DEF ServedIsRegistered, Registers
<1>12. OneLinkPerPeer' /\ VersionsRead'
  BY <1>6, <1>8, <1>11, ApartStep DEF VersionsRead
<1>13. Types' /\ OwnSeeded'
  BY <1>5, <1>8, <1>9 DEF Types, OwnSeeded
<1> QED
  BY <1>5, <1>10, <1>12, <1>13

\* Register.
LEMMA RegisterKeeps ==
    ASSUME RegistryInv, NEW e \in End, Exists(e), Register(e)
    PROVE  RegistryInv'
<1> USE DEF RegistryInv
<1> DEFINE q == [x \in End |-> IF x = e THEN "up" ELSE At(x)]
           n0 == Owner(e)
<1>1. e[1] \in Conn /\ conn[e[1]] \in ConnRecord /\ n0 \in Node /\ Owner(Across(e)) \in Node
  BY EndParts DEF Types, Exists, Owner, ConnRecord, Across
<1>2. conn' = Moved({e}, "up")
  BY DEF Register
<1>3. \A x \in End : EndMoves(x, IF x \in {e} THEN "up" ELSE At(x))
  BY <1>2, MovedEnd DEF Places
<1>4. \A x \in End : EndMoves(x, q[x]) /\ (q[x] \in Unserved => At(x) \in Unserved)
  BY <1>3 DEF Unserved
<1>5. conn' \in [Conn -> ConnRecord \cup {Nil}] /\ OpenConns'
  <2>1. conn' = [c \in Conn |-> conn'[c]]
    BY <1>2 DEF Moved
  <2>2. {e} \in SUBSET End /\ "up" \in Places
    BY DEF Places
  <2> QED
    BY <1>2, <2>1, <2>2, MovedTypes
<1> HIDE DEF q
<1>6. /\ \A x \in End : Registers(x)
      /\ \A x \in End : At(x)' \in {"up", "shut"} <=> Exists(x) /\ q[x] \in {"up", "shut"}
      /\ \A c \in Conn : conn'[c] # Nil /\ conn'[c].accept \in Unserved =>
             conn'[c].nonces["accept"] = Nil
  BY <1>4, MoveKeeps
<1>7. peers' = [peers EXCEPT ![n0] = @ \cup {e}]
  BY DEF Register
<1>8. peers' \in [Node -> SUBSET End]
  BY <1>1, <1>7 DEF Types
<1>10. ServedIsRegistered'
  <2>1. ASSUME NEW n \in Node, NEW x \in End
        PROVE  x \in peers'[n] <=> Exists(x) /\ Owner(x) = n /\ At(x)' \in {"up", "shut"}
    <3>1. x \in peers[n] <=> Exists(x) /\ Owner(x) = n /\ At(x) \in {"up", "shut"}
      BY DEF ServedIsRegistered
    <3>2. x \in peers'[n] <=> x \in peers[n] \/ (n = n0 /\ x = e)
      BY <1>7 DEF Types
    <3>3. q[x] = IF x = e THEN "up" ELSE At(x)
      BY DEF q
    <3> QED
      BY <1>6, <3>1, <3>2, <3>3
  <2> QED
    BY <2>1, <1>6, <1>8, ServedStep
<1>11. \A n \in Node : \A x \in peers'[n] : PeerNonce(x)' = PeerNonce(x)
  BY <1>6, <1>8, <1>10 DEF ServedIsRegistered, Registers
<1>12. /\ PeerNonce(e) # Nil /\ PeerNonce(e) # nonce[n0]
       /\ \A x \in peers[n0] : PeerNonce(x) # PeerNonce(e)
  BY DEF Register, VersionThere, isSelf, register
<1>13. OneLinkPerPeer' /\ VersionsRead'
  <2>1. ASSUME NEW n \in Node, NEW x \in peers'[n], NEW y \in peers'[n]
        PROVE  /\ PeerNonce(x) # nonce[n] /\ PeerNonce(x) # Nil
               /\ PeerNonce(x) = PeerNonce(y) => x = y
    <3>1. x \in peers[n] \/ (n = n0 /\ x = e)
      BY <1>7 DEF Types
    <3>2. y \in peers[n] \/ (n = n0 /\ y = e)
      BY <1>7 DEF Types
    <3> QED
      BY <3>1, <3>2, <1>12 DEF OneLinkPerPeer, VersionsRead
  <2>2. nonce' = nonce
    BY DEF Register
  <2> HIDE DEF RegistryInv
  <2>3. OneLinkPerPeer'
    BY <2>1, <2>2, <1>11 DEF OneLinkPerPeer
  <2>4. \A n \in Node : \A x \in peers'[n] : PeerNonce(x)' # Nil
    BY <2>1, <1>11
  <2> QED
    BY <2>3, <2>4, <1>6 DEF VersionsRead
<1>14. known' \in [Node -> SUBSET Addr] /\ OwnSeeded'
  <2> DEFINE A == {Advertised(Owner(Across(e)))}
  <2>1. A \in SUBSET Addr
    BY <1>1, SwitchAssumption DEF Advertised
  <2>2. known' = [known EXCEPT ![n0] = AddKnown(n0, A)] /\ pass' = pass /\ dialing' = dialing
    BY DEF Register
  <2>3. /\ AddKnown(n0, A) \in SUBSET Addr
        /\ known[n0] \subseteq AddKnown(n0, A)
        /\ OwnAreSeeds(n0, AddKnown(n0, A))
    BY <1>1, <2>1, LearnedOK
  <2> HIDE DEF A
  <2> QED
    BY <1>1, <2>2, <2>3 DEF Types, OwnSeeded
<1>15. Types'
  BY <1>5, <1>8, <1>14 DEF Types, Register
<1> QED
  BY <1>5, <1>10, <1>13, <1>14, <1>15

\* Stop: the registered ends are shut and stay registered until their
\* goroutines notice; what is in the backlog was never registered.
LEMMA StopKeeps ==
    ASSUME RegistryInv, NEW n \in Node, Stop(n)
    PROVE  RegistryInv'
<1> USE DEF RegistryInv
<1> DEFINE q == [x \in End |-> IF x[2] = "accept" /\ x \in Backlog(n) THEN "closed"
                               ELSE IF x \in peers[n] THEN "shut" ELSE At(x)]
<1>1. conn' = [c \in Conn |-> IF <<c, "accept">> \in Backlog(n)
                              THEN Moved({<<c, "accept">>}, "closed")[c]
                              ELSE Moved(peers[n], "shut")[c]]
  BY DEF Stop
<1>2. UNCHANGED <<peers, known, pass, dialing, nonce, mail>> /\ closed' \in [Node -> BOOLEAN]
  BY DEF Stop, Types
<1>3. \A x \in peers[n] : x \in End /\ At(x) \in {"up", "shut"}
  BY DEF ServedIsRegistered
<1>4. ASSUME NEW x \in End
      PROVE  EndMoves(x, q[x]) /\ (q[x] \in Unserved => At(x) \in Unserved)
  <2>1. x[1] \in Conn /\ x = <<x[1], x[2]>> /\ x[2] \in {"dial", "accept"}
    BY EndParts DEF Side
  <2>2. CASE <<x[1], "accept">> \in Backlog(n)
    <3>1. conn'[x[1]] = Moved({<<x[1], "accept">>}, "closed")[x[1]]
      BY <1>1, <2>1, <2>2
    <3>2. EndMoves(x, IF x \in {<<x[1], "accept">>} THEN "closed" ELSE At(x))
      BY <3>1, MovedEnd DEF Places
    <3>3. x \notin peers[n]
      <4>1. conn[x[1]] # Nil /\ conn[x[1]].accept = "backlog"
        BY <2>2 DEF Backlog, Exists, At
      <4>2. CASE x[2] = "accept"
        BY <4>1, <4>2, <1>3, <2>1 DEF At, Exists
      <4>3. CASE x[2] = "dial"
        <5>1. PeerNonce(x) = Nil
          BY <4>1, <4>3, <2>1 DEF VersionsRead, PeerNonce, Across, Unserved
        <5> QED
          BY <5>1 DEF VersionsRead
      <4> QED
        BY <2>1, <4>2, <4>3
    <3>4. q[x] = IF x \in {<<x[1], "accept">>} THEN "closed" ELSE At(x)
      BY <2>1, <2>2, <3>3
    <3> QED
      BY <3>2, <3>4 DEF Unserved
  <2>3. CASE <<x[1], "accept">> \notin Backlog(n)
    <3>1. conn'[x[1]] = Moved(peers[n], "shut")[x[1]]
      BY <1>1, <2>1, <2>3
    <3>2. EndMoves(x, IF x \in peers[n] THEN "shut" ELSE At(x))
      BY <3>1, MovedEnd DEF Places
    <3>3. q[x] = IF x \in peers[n] THEN "shut" ELSE At(x)
      BY <2>1, <2>3
    <3> QED
      BY <3>2, <3>3 DEF Unserved
  <2> QED
    BY <2>2, <2>3
<1>5. conn' \in [Conn -> ConnRecord \cup {Nil}] /\ OpenConns'
  <2>1. conn' = [c \in Conn |-> conn'[c]]
    BY <1>1
  <2>2. "shut" \in Places /\ "closed" \in Places /\ peers[n] \in SUBSET End
    BY DEF Places, Types
  <2>3. \A c \in Conn : {<<c, "accept">>} \in SUBSET End
    BY DEF End, Side
  <2>4. \A c \in Conn : conn'[c] = Moved({<<c, "accept">>}, "closed")[c] \/
                        conn'[c] = Moved(peers[n], "shut")[c]
    BY <1>1
  <2>5. \A c \in Conn : \E E \in SUBSET End, p \in Places : conn'[c] = Moved(E, p)[c]
    BY <2>2, <2>3, <2>4
  <2> QED
    BY <2>1, <2>5, MovedTypes
<1>6. /\ \A x \in End : Registers(x)
      /\ \A x \in End : At(x)' \in {"up", "shut"} <=> Exists(x) /\ q[x] \in {"up", "shut"}
      /\ \A c \in Conn : conn'[c] # Nil /\ conn'[c].accept \in Unserved =>
             conn'[c].nonces["accept"] = Nil
  <2> HIDE DEF q
  <2> QED
    BY <1>4, MoveKeeps
<1>10. ServedIsRegistered'
  <2>1. ASSUME NEW m \in Node, NEW x \in End
        PROVE  x \in peers'[m] <=> Exists(x) /\ Owner(x) = m /\ At(x)' \in {"up", "shut"}
    <3>1. \A k \in Node : x \in peers[k] <=> Exists(x) /\ Owner(x) = k /\ At(x) \in {"up", "shut"}
      BY DEF ServedIsRegistered
    <3>2. q[x] \in {"up", "shut"} <=> At(x) \in {"up", "shut"}
      BY <1>3 DEF Backlog
    <3> QED
      BY <1>2, <1>6, <3>1, <3>2
  <2>2. peers' \in [Node -> SUBSET End]
    BY <1>2 DEF Types
  <2> QED
    BY <2>1, <2>2, <1>6, ServedStep
<1>11. \A m \in Node : \A x \in peers'[m] : PeerNonce(x)' = PeerNonce(x)
  BY <1>6, <1>10 DEF ServedIsRegistered, Registers
<1>12. OneLinkPerPeer' /\ VersionsRead'
  BY <1>2, <1>6, <1>11, ApartStep DEF VersionsRead
<1>13. Types' /\ OwnSeeded'
  BY <1>2, <1>5 DEF Types, OwnSeeded
<1> QED
  BY <1>5, <1>10, <1>12, <1>13

\* Restart: all ends of the node are closed and none is registered.
LEMMA RestartKeeps ==
    ASSUME RegistryInv, NEW n \in Node, Restart(n)
    PROVE  RegistryInv'
<1> USE DEF RegistryInv
<1> DEFINE ends == {x \in End : Exists(x) /\ Owner(x) = n}
           q == [x \in End |-> IF x \in ends THEN "closed" ELSE At(x)]
<1>1. conn' = Moved(ends, "closed")
  BY DEF Restart
<1>2. /\ peers' = [peers EXCEPT ![n] = {}]
      /\ nonce' = [nonce EXCEPT ![n] = <<n, @[2] + 1>>]
      /\ pass' = [pass EXCEPT ![n] = {}]
      /\ dialing' = [dialing EXCEPT ![n] = Nil]
      /\ closed' = [closed EXCEPT ![n] = FALSE]
      /\ mail' = [x \in End |-> IF x \in ends THEN {} ELSE mail[x]]
  BY DEF Restart
<1>3. \A x \in End : EndMoves(x, IF x \in ends THEN "closed" ELSE At(x))
  BY <1>1, MovedEnd DEF Places
<1>4. \A x \in End : EndMoves(x, q[x]) /\ (q[x] \in Unserved => At(x) \in Unserved)
  BY <1>3 DEF Unserved
<1>5. conn' \in [Conn -> ConnRecord \cup {Nil}] /\ OpenConns'
  <2>1. conn' = [c \in Conn |-> conn'[c]]
    BY <1>1 DEF Moved
  <2>2. ends \in SUBSET End /\ "closed" \in Places
    BY DEF Places
  <2> HIDE DEF ends
  <2> QED
    BY <1>1, <2>1, <2>2, MovedTypes
<1>6. /\ \A x \in End : Registers(x)
      /\ \A x \in End : At(x)' \in {"up", "shut"} <=> Exists(x) /\ q[x] \in {"up", "shut"}
      /\ \A c \in Conn : conn'[c] # Nil /\ conn'[c].accept \in Unserved =>
             conn'[c].nonces["accept"] = Nil
  <2> HIDE DEF q
  <2> QED
    BY <1>4, MoveKeeps
<1>8. peers' \in [Node -> SUBSET End] /\ \A m \in Node : peers'[m] \subseteq peers[m]
  BY <1>2 DEF Types
<1>10. ServedIsRegistered'
  <2>1. ASSUME NEW m \in Node, NEW x \in End
        PROVE  x \in peers'[m] <=> Exists(x) /\ Owner(x) = m /\ At(x)' \in {"up", "shut"}
    <3>1. x \in peers[m] <=> Exists(x) /\ Owner(x) = m /\ At(x) \in {"up", "shut"}
      BY DEF ServedIsRegistered
    <3>2. x \in peers'[m] <=> x \in peers[m] /\ m # n
      BY <1>2 DEF Types
    <3>3. q[x] = IF x \in ends THEN "closed" ELSE At(x)
      OBVIOUS
    <3> QED
      BY <1>6, <3>1, <3>2, <3>3
  <2> QED
    BY <2>1, <1>6, <1>8, ServedStep
<1>11. \A m \in Node : \A x \in peers'[m] : PeerNonce(x)' = PeerNonce(x)
  BY <1>6, <1>8, <1>10 DEF ServedIsRegistered, Registers
<1>12. OneLinkPerPeer' /\ VersionsRead'
  <2>1. \A m \in Node : peers'[m] # {} => nonce'[m] = nonce[m]
    BY <1>2 DEF Types
  <2> QED
    BY <2>1, <1>6, <1>8, <1>11, ApartStep DEF VersionsRead
<1>13. known' \in [Node -> SUBSET Addr] /\ OwnSeeded'
  <2>1. PICK saved \in SUBSET known[n] :
          known' = [known EXCEPT ![n] = Learned(n, Seeds[n] \cup saved)]
    BY DEF Restart
  <2>2. Learned(n, Seeds[n] \cup saved) \in SUBSET Addr
    BY SwitchAssumption DEF Learned, Types
  <2>3. OwnAreSeeds(n, Learned(n, Seeds[n] \cup saved))
    BY DEF Learned, OwnSeeded, OwnAreSeeds
  <2> QED
    BY <1>2, <2>1, <2>2, <2>3 DEF Types, OwnSeeded
<1>14. Types'
  <2>1. nonce' \in [Node -> Node \X Nat]
    BY <1>2 DEF Types
  <2>2. /\ mail' \in [End -> SUBSET Addr] /\ closed' \in [Node -> BOOLEAN]
        /\ pass' \in [Node -> SUBSET Addr] /\ dialing' \in [Node -> Addr \cup {Nil}]
    BY <1>2 DEF Types
  <2> QED
    BY <1>5, <1>8, <1>13, <2>1, <2>2 DEF Types
<1> QED
  BY <1>5, <1>10, <1>12, <1>13, <1>14

\* Steps that neither register nor close a registered end.
LEMMA QuietKeeps ==
    ASSUME RegistryInv,
           UNCHANGED <<peers, nonce>>,
           \A e \in End : Registers(e) /\ (At(e)' \in {"up", "shut"} <=> At(e) \in {"up", "shut"}),
           \A c \in Conn : conn'[c] # Nil /\ conn'[c].accept \in Unserved =>
               conn'[c].nonces["accept"] = Nil
    PROVE  OneLinkPerPeer' /\ ServedIsRegistered' /\ VersionsRead'
<1> USE DEF RegistryInv
<1>1. ServedIsRegistered'
  <2>1. peers' \in [Node -> SUBSET End]
    BY DEF Types
  <2>2. \A n \in Node : \A e \in End :
          e \in peers'[n] <=> Exists(e) /\ Owner(e) = n /\ At(e)' \in {"up", "shut"}
    BY DEF ServedIsRegistered
  <2> QED
    BY <2>1, <2>2, ServedStep
<1>2. \A n \in Node : \A e \in peers'[n] : PeerNonce(e)' = PeerNonce(e)
  BY <1>1 DEF ServedIsRegistered, Registers
<1>3. OneLinkPerPeer' /\ \A n \in Node : \A e \in peers'[n] : PeerNonce(e)' # Nil
  BY <1>2, ApartStep
<1> QED
  BY <1>1, <1>3 DEF VersionsRead

LEMMA DialKeeps ==
    ASSUME RegistryInv, NEW n \in Node, NEW a \in Addr, NEW c \in Conn, Dial(n, a, c)
    PROVE  RegistryInv'
<1> USE DEF RegistryInv
<1> DEFINE r == [addr |-> a, to |-> Route[n][a], dial |-> "shaking", accept |-> "backlog",
                 nonces |-> [dial |-> nonce[n], accept |-> Nil], lost |-> FALSE]
<1>1. /\ conn[c] = Nil /\ conn' = [conn EXCEPT ![c] = r]
      /\ dialing' = [dialing EXCEPT ![n] = Nil]
      /\ UNCHANGED <<peers, known, pass, closed, nonce, mail>>
  BY DEF Dial
<1>2. r \in ConnRecord /\ r # Nil
  <2>1. Route[n][a] \in Node
    BY DEF Dial, Reachable
  <2>2. [dial |-> nonce[n], accept |-> Nil] \in [Side -> (Node \X Nat) \cup {Nil}]
    BY DEF Side, Types
  <2>3. r \in ConnRecord
    BY <2>1, <2>2 DEF ConnRecord, Places
  <2> QED
    BY <2>3, SwitchAssumption DEF ConnRecord
<1>3. /\ r.accept = "backlog" /\ r.dial = "shaking" /\ r.nonces["accept"] = Nil
  OBVIOUS
<1>4. ASSUME NEW e \in End
      PROVE  Registers(e) /\ (At(e)' \in {"up", "shut"} <=> At(e) \in {"up", "shut"})
  <2> HIDE DEF r
  <2>1. e[1] \in Conn /\ e[2] \in {"dial", "accept"}
    BY EndParts DEF Side
  <2>2. CASE e[1] = c
    <3>1. At(e) = "closed"
      BY <1>1, <2>2 DEF At, Exists
    <3>2. conn'[e[1]] = r
      BY <1>1, <2>2 DEF Types
    <3>3. At(e)' \in {"shaking", "backlog"}
      BY <1>2, <1>3, <2>1, <3>2 DEF At, Exists
    <3> QED
      BY <3>1, <3>3 DEF Registers
  <2>3. CASE e[1] # c
    <3>1. conn'[e[1]] = conn[e[1]]
      BY <1>1, <2>1, <2>3 DEF Types
    <3> QED
      BY <3>1 DEF Registers, At, Exists, Owner, PeerNonce
  <2> QED
    BY <2>2, <2>3
<1> HIDE DEF r
<1>5. \A x \in Conn : conn'[x] = IF x = c THEN r ELSE conn[x]
  BY <1>1 DEF Types
<1>6. \A x \in Conn : conn'[x] # Nil /\ conn'[x].accept \in Unserved => conn'[x].nonces["accept"] = Nil
  BY <1>3, <1>5 DEF VersionsRead
<1>7. OpenConns'
  BY <1>3, <1>5 DEF OpenConns
<1>8. Types' /\ OwnSeeded'
  BY <1>1, <1>2 DEF Types, OwnSeeded
<1>9. OneLinkPerPeer' /\ ServedIsRegistered' /\ VersionsRead'
  BY <1>1, <1>4, <1>6, QuietKeeps
<1> QED
  BY <1>7, <1>8, <1>9

LEMMA LoseKeeps ==
    ASSUME RegistryInv, NEW c \in Conn, Lose(c)
    PROVE  RegistryInv'
<1> USE DEF RegistryInv
<1>1. /\ conn[c] # Nil /\ conn' = [conn EXCEPT ![c].lost = TRUE]
      /\ UNCHANGED <<peers, known, pass, dialing, closed, nonce, mail>>
  BY DEF Lose
<1>2. conn[c] \in ConnRecord
  BY <1>1 DEF Types
<1>3. ASSUME NEW x \in Conn, conn[x] # Nil
      PROVE  /\ conn'[x] \in ConnRecord /\ conn'[x] # Nil
             /\ conn'[x].dial = conn[x].dial /\ conn'[x].accept = conn[x].accept
             /\ conn'[x].nonces = conn[x].nonces /\ conn'[x].to = conn[x].to
  <2>1. conn[x] \in ConnRecord
    BY <1>3 DEF Types
  <2>2. conn'[x] = IF x = c THEN [conn[x] EXCEPT !.lost = TRUE] ELSE conn[x]
    BY <1>1 DEF Types
  <2>3. Nil \notin ConnRecord
    BY SwitchAssumption DEF ConnRecord
  <2>4. [conn[x] EXCEPT !.lost = TRUE] \in ConnRecord
    BY <2>1 DEF ConnRecord
  <2> QED
    BY <2>1, <2>2, <2>3, <2>4 DEF ConnRecord
<1>4. \A x \in Conn : conn[x] = Nil => conn'[x] = Nil
  BY <1>1 DEF Types
<1>5. ASSUME NEW e \in End
      PROVE  Registers(e) /\ (At(e)' \in {"up", "shut"} <=> At(e) \in {"up", "shut"})
  <2>1. e[1] \in Conn /\ e[2] \in {"dial", "accept"}
    BY EndParts DEF Side
  <2>2. CASE conn[e[1]] = Nil
    BY <1>4, <2>1, <2>2 DEF Registers, At, Exists
  <2>3. CASE conn[e[1]] # Nil
    BY <1>3, <2>1, <2>3 DEF Registers, At, Exists, Owner, PeerNonce
  <2> QED
    BY <2>2, <2>3
<1>6. \A x \in Conn : conn'[x] # Nil /\ conn'[x].accept \in Unserved => conn'[x].nonces["accept"] = Nil
  BY <1>3, <1>4 DEF VersionsRead
<1>7. OpenConns'
  BY <1>3, <1>4 DEF OpenConns
<1>8. Types' /\ OwnSeeded'
  <2>1. conn' \in [Conn -> ConnRecord \cup {Nil}]
    BY <1>1, <1>3, <1>4 DEF Types
  <2> QED
    BY <1>1, <2>1 DEF Types, OwnSeeded
<1>9. OneLinkPerPeer' /\ ServedIsRegistered' /\ VersionsRead'
  BY <1>1, <1>5, <1>6, QuietKeeps
<1> QED
  BY <1>7, <1>8, <1>9

\* What Greet does to the connection it serves.
LEMMA GreetServes ==
    ASSUME Types, NEW c \in Conn, Greet(c)
    PROVE  /\ conn[c] \in ConnRecord /\ conn[c] # Nil /\ conn[c].accept = "taken"
           /\ conn'[c] \in ConnRecord /\ conn'[c] # Nil
           /\ conn'[c].accept = "shaking" /\ conn'[c].dial = conn[c].dial
           /\ conn'[c].nonces["dial"] = conn[c].nonces["dial"]
           /\ conn'[c].to = conn[c].to /\ conn'[c].addr = conn[c].addr
           /\ \A x \in Conn \ {c} : conn'[x] = conn[x]
           /\ conn' \in [Conn -> ConnRecord \cup {Nil}]
<1>1. conn[c] # Nil /\ conn[c].accept = "taken"
  BY DEF Greet, At, Exists
<1>2. conn[c] \in ConnRecord
  BY <1>1 DEF Types
<1>3. conn' = [conn EXCEPT ![c].accept = "shaking", ![c].nonces.accept = nonce[conn[c].to]]
  BY DEF Greet
<1> DEFINE v == nonce[conn[c].to]
           ns == [conn[c].nonces EXCEPT !["accept"] = v]
           r == [conn[c] EXCEPT !.accept = "shaking", !.nonces = ns]
<1>4. v \in Node \X Nat
  BY <1>2 DEF Types, ConnRecord
<1>5. conn[c].nonces \in [Side -> (Node \X Nat) \cup {Nil}]
  BY <1>2 DEF ConnRecord
<1>6. ns \in [Side -> (Node \X Nat) \cup {Nil}] /\ ns["dial"] = conn[c].nonces["dial"]
  <2> HIDE DEF v
  <2> QED
    BY <1>4, <1>5 DEF Side
<1>7. conn' = [conn EXCEPT ![c] = r]
  BY <1>2, <1>3 DEF Types, ConnRecord
<1> HIDE DEF ns, v
<1>8. /\ r \in ConnRecord /\ r.accept = "shaking" /\ r.dial = conn[c].dial
      /\ r.nonces = ns /\ r.to = conn[c].to /\ r.addr = conn[c].addr
  BY <1>2, <1>6 DEF ConnRecord, Places
<1> HIDE DEF r
<1>9. Nil \notin ConnRecord
  BY SwitchAssumption DEF ConnRecord
<1>10. conn'[c] = r /\ (\A x \in Conn \ {c} : conn'[x] = conn[x])
       /\ conn' \in [Conn -> ConnRecord \cup {Nil}]
  BY <1>7, <1>8 DEF Types
<1> QED
  BY <1>1, <1>2, <1>6, <1>8, <1>9, <1>10

LEMMA AcceptKeeps ==
    ASSUME RegistryInv, NEW c \in Conn, Accept(c)
    PROVE  RegistryInv'
<1> USE DEF RegistryInv
<1> DEFINE a == <<c, "accept">>
           p == IF full(conn[c].to) THEN "closed" ELSE "taken"
<1>1. /\ a \in End /\ At(a) = "backlog" /\ p \in {"closed", "taken"}
      /\ UNCHANGED <<peers, known, pass, dialing, closed, nonce, mail>>
  BY DEF Accept, End, Side
<1>2. conn' = Moved({a}, p)
  BY DEF Accept
<1> HIDE DEF p
<1> DEFINE q == [x \in End |-> IF x = a THEN p ELSE At(x)]
<1>3. \A x \in End : EndMoves(x, IF x \in {a} THEN p ELSE At(x))
  BY <1>1, <1>2, MovedEnd DEF Places
<1>4. \A x \in End : EndMoves(x, q[x]) /\ (q[x] \in Unserved => At(x) \in Unserved)
  BY <1>1, <1>3 DEF Unserved
<1>5. \A x \in End : Exists(x) /\ q[x] \in {"up", "shut"} <=> At(x) \in {"up", "shut"}
  BY <1>1 DEF At
<1> HIDE DEF q
<1>6. /\ \A x \in End : Registers(x)
      /\ \A x \in End : At(x)' \in {"up", "shut"} <=> Exists(x) /\ q[x] \in {"up", "shut"}
      /\ \A x \in Conn : conn'[x] # Nil /\ conn'[x].accept \in Unserved =>
             conn'[x].nonces["accept"] = Nil
  BY <1>4, MoveKeeps
<1>7. OneLinkPerPeer' /\ ServedIsRegistered' /\ VersionsRead'
  BY <1>1, <1>5, <1>6, QuietKeeps
<1>8. conn' \in [Conn -> ConnRecord \cup {Nil}] /\ OpenConns'
  <2>1. conn' = [x \in Conn |-> conn'[x]]
    BY <1>2 DEF Moved
  <2>2. {a} \in SUBSET End /\ p \in Places
    BY <1>1 DEF Places
  <2> QED
    BY <1>2, <2>1, <2>2, MovedTypes
<1>9. Types' /\ OwnSeeded'
  BY <1>1, <1>8 DEF Types, OwnSeeded
<1> QED
  BY <1>7, <1>8, <1>9

LEMMA GreetKeeps ==
    ASSUME RegistryInv, NEW c \in Conn, Greet(c)
    PROVE  RegistryInv'
<1> USE DEF RegistryInv
<1>1. UNCHANGED <<peers, known, pass, dialing, closed, nonce, mail>>
  BY DEF Greet
<1>2. /\ conn[c] \in ConnRecord /\ conn[c] # Nil /\ conn[c].accept = "taken"
      /\ conn'[c] \in ConnRecord /\ conn'[c] # Nil
      /\ conn'[c].accept = "shaking" /\ conn'[c].dial = conn[c].dial
      /\ conn'[c].nonces["dial"] = conn[c].nonces["dial"]
      /\ conn'[c].to = conn[c].to
      /\ \A x \in Conn \ {c} : conn'[x] = conn[x]
      /\ conn' \in [Conn -> ConnRecord \cup {Nil}]
  BY GreetServes
<1>3. ASSUME NEW e \in End
      PROVE  Registers(e) /\ (At(e)' \in {"up", "shut"} <=> At(e) \in {"up", "shut"})
  <2>1. e[1] \in Conn /\ e[2] \in {"dial", "accept"} /\ e = <<e[1], e[2]>>
    BY EndParts DEF Side
  <2>2. CASE e[1] # c
    <3>1. conn'[e[1]] = conn[e[1]]
      BY <1>2, <2>1, <2>2
    <3> QED
      BY <3>1 DEF Registers, At, Exists, Owner, PeerNonce
  <2>3. CASE e[1] = c /\ e[2] = "accept"
    BY <1>2, <2>3 DEF Registers, At, Exists
  <2>4. CASE e[1] = c /\ e[2] = "dial"
    <3>1. PeerNonce(e) = Nil
      BY <1>2, <2>4 DEF VersionsRead, PeerNonce, Across, Unserved
    <3>2. ~\E n \in Node : e \in peers[n]
      BY <3>1 DEF VersionsRead
    <3>3. Owner(e) \in Node /\ Exists(e)
      BY <1>2, <2>4, EndParts DEF Owner, Exists
    <3>4. At(e) \notin {"up", "shut"}
      BY <3>2, <3>3 DEF ServedIsRegistered
    <3>5. At(e)' = At(e)
      BY <1>2, <2>4 DEF At, Exists
    <3> QED
      BY <3>4, <3>5 DEF Registers
  <2> QED
    BY <2>1, <2>2, <2>3, <2>4
<1>4. \A x \in Conn : conn'[x] # Nil /\ conn'[x].accept \in Unserved =>
          conn'[x].nonces["accept"] = Nil
  BY <1>2 DEF VersionsRead, Unserved
<1>5. OneLinkPerPeer' /\ ServedIsRegistered' /\ VersionsRead'
  BY <1>1, <1>3, <1>4, QuietKeeps
<1>6. OpenConns'
  BY <1>2 DEF OpenConns
<1>7. Types' /\ OwnSeeded'
  BY <1>1, <1>2 DEF Types, OwnSeeded
<1> QED
  BY <1>5, <1>6, <1>7

\* Steps that change addresses only.
LEMMA AddressesKeep ==
    ASSUME RegistryInv, UNCHANGED <<conn, peers, closed, nonce>>,
           known' \in [Node -> SUBSET Addr], pass' \in [Node -> SUBSET Addr],
           dialing' \in [Node -> Addr \cup {Nil}],
           mail' \in [End -> SUBSET Addr], OwnSeeded'
    PROVE  RegistryInv'
<1> USE DEF RegistryInv
<1>1. Types' /\ OpenConns' /\ VersionsRead'
  BY DEF Types, OpenConns, VersionsRead, PeerNonce
<1>2. OneLinkPerPeer' /\ ServedIsRegistered'
  BY DEF OneLinkPerPeer, ServedIsRegistered, PeerNonce, Exists, Owner, At
<1> QED
  BY <1>1, <1>2

LEMMA PassKeeps ==
    ASSUME RegistryInv, NEW n \in Node, NEW a \in Addr,
           StartPass(n) \/ EndPass(n) \/ DialNext(n, a) \/ DialFails(n, a)
    PROVE  RegistryInv'
<1>1. Types /\ OwnSeeded /\ UNCHANGED <<conn, peers, known, closed, nonce, mail>>
  BY DEF RegistryInv, StartPass, EndPass, DialNext, DialFails
<1>2. \E P \in SUBSET known[n] : pass' = [pass EXCEPT ![n] = P]
  <2>1. CASE StartPass(n)
    BY <2>1 DEF StartPass
  <2>2. CASE EndPass(n)
    BY <2>2 DEF EndPass
  <2>3. CASE DialNext(n, a)
    BY <1>1, <2>3 DEF DialNext, OwnSeeded
  <2>4. CASE DialFails(n, a)
    <3>1. pass' = [pass EXCEPT ![n] = pass[n]]
      BY <1>1, <2>4 DEF DialFails, Types
    <3> QED
      BY <1>1, <3>1 DEF OwnSeeded
  <2> QED
    BY <2>1, <2>2, <2>3, <2>4
<1>3. \E d \in known[n] \cup {Nil} : dialing' = [dialing EXCEPT ![n] = d]
  <2>1. CASE StartPass(n) \/ EndPass(n)
    <3>1. dialing' = [dialing EXCEPT ![n] = dialing[n]]
      BY <1>1, <2>1 DEF StartPass, EndPass, Types
    <3> QED
      BY <1>1, <3>1 DEF OwnSeeded
  <2>2. CASE DialNext(n, a)
    BY <1>1, <2>2 DEF DialNext, OwnSeeded
  <2>3. CASE DialFails(n, a)
    BY <2>3 DEF DialFails
  <2> QED
    BY <2>1, <2>2, <2>3
<1>4. /\ pass' \in [Node -> SUBSET Addr] /\ dialing' \in [Node -> Addr \cup {Nil}]
      /\ OwnSeeded'
  BY <1>1, <1>2, <1>3 DEF Types, OwnSeeded
<1> QED
  BY <1>1, <1>4, AddressesKeep DEF Types

LEMMA PeersMsgKeeps ==
    ASSUME RegistryInv, NEW e \in End, Exists(e), handlePeersMsg(e)
    PROVE  RegistryInv'
<1> DEFINE n == Owner(e)
<1>1. Types /\ OwnSeeded /\ UNCHANGED <<conn, peers, pass, dialing, closed, nonce>>
  BY DEF RegistryInv, handlePeersMsg
<1>2. n \in Node /\ mail[e] \in SUBSET Addr
  BY <1>1, EndParts DEF Types, Exists, Owner, ConnRecord
<1>3. /\ AddKnown(n, mail[e]) \in SUBSET Addr
      /\ known[n] \subseteq AddKnown(n, mail[e])
      /\ OwnAreSeeds(n, AddKnown(n, mail[e]))
  BY <1>1, <1>2, LearnedOK
<1>4. known' = [known EXCEPT ![n] = AddKnown(n, mail[e])] /\ mail' = [mail EXCEPT ![e] = {}]
  BY DEF handlePeersMsg
<1> HIDE DEF n
<1>5. known' \in [Node -> SUBSET Addr] /\ mail' \in [End -> SUBSET Addr] /\ OwnSeeded'
  BY <1>1, <1>2, <1>3, <1>4 DEF Types, OwnSeeded
<1> QED
  BY <1>1, <1>5, AddressesKeep DEF Types

LEMMA PeersLoopKeeps ==
    ASSUME RegistryInv, NEW n \in Node, peersLoop(n)
    PROVE  RegistryInv'
<1>1. Types /\ OwnSeeded /\ UNCHANGED <<conn, peers, known, pass, dialing, closed, nonce>>
  BY DEF RegistryInv, peersLoop
<1>2. PICK addrs \in SUBSET known[n] :
        mail' = [e \in End |-> IF Exists(e) /\ Across(e) \in peers[n]
                                  /\ At(e) \in {"shaking", "up"}
                               THEN mail[e] \cup News(Owner(e), addrs) ELSE mail[e]]
  BY DEF peersLoop
<1>3. ASSUME NEW e \in End, Exists(e)
      PROVE  News(Owner(e), addrs) \in SUBSET Addr
  <2>1. Owner(e) \in Node
    BY <1>1, <1>3, EndParts DEF Types, Exists, Owner, ConnRecord
  <2>2. addrs \in SUBSET Addr
    BY <1>1, <1>2 DEF Types
  <2>3. AddKnown(Owner(e), addrs) \in SUBSET Addr
    BY <1>1, <2>1, <2>2, LearnedOK
  <2> QED
    BY <2>3 DEF News
<1>4. mail' \in [End -> SUBSET Addr]
  BY <1>1, <1>2, <1>3 DEF Types
<1>5. OwnSeeded'
  BY <1>1 DEF OwnSeeded
<1> QED
  BY <1>1, <1>4, <1>5, AddressesKeep DEF Types

\* The invariant is inductive.
LEMMA InvStep == RegistryInv /\ [Next]_vars => RegistryInv'
<1> SUFFICES ASSUME RegistryInv, [Next]_vars PROVE RegistryInv'
  OBVIOUS
<1>1. CASE UNCHANGED vars
  <2>1. /\ known' \in [Node -> SUBSET Addr] /\ pass' \in [Node -> SUBSET Addr]
        /\ dialing' \in [Node -> Addr \cup {Nil}]
        /\ mail' \in [End -> SUBSET Addr] /\ OwnSeeded'
    BY <1>1 DEF RegistryInv, Types, OwnSeeded, vars
  <2> QED
    BY <1>1, <2>1, AddressesKeep DEF vars
<1>2. ASSUME NEW n \in Node, dialLoop(n) PROVE RegistryInv'
  <2>1. CASE StartPass(n) \/ EndPass(n)
    <3>1. Advertise[n] \in Addr
      BY SwitchAssumption
    <3> QED
      BY <2>1, <3>1, PassKeeps
  <2>2. ASSUME NEW a \in Addr, DialNext(n, a) \/ DialFails(n, a) PROVE RegistryInv'
    BY <2>2, PassKeeps
  <2>3. ASSUME NEW a \in Addr, NEW c \in Conn, Dial(n, a, c) PROVE RegistryInv'
    BY <2>3, DialKeeps
  <2> QED
    BY <1>2, <2>1, <2>2, <2>3 DEF dialLoop
<1>3. ASSUME NEW n \in Node, peersLoop(n) \/ Stop(n) \/ Restart(n) PROVE RegistryInv'
  BY <1>3, PeersLoopKeeps, StopKeeps, RestartKeeps
<1>4. ASSUME NEW c \in Conn, Accept(c) \/ Greet(c) \/ Lose(c) PROVE RegistryInv'
  BY <1>4, AcceptKeeps, GreetKeeps, LoseKeeps
<1>5. ASSUME NEW e \in End, serveConn(e) PROVE RegistryInv'
  <2>1. Exists(e)
    BY <1>5 DEF serveConn
  <2>2. CASE Register(e)
    BY <2>1, <2>2, RegisterKeeps
  <2>3. CASE Refuse(e) \/ ReadFails(e)
    <3>1. dropPeer(e) /\ UNCHANGED <<known, pass, dialing, closed, nonce>>
      BY <2>3 DEF Refuse, Refused, ReadFails
    <3> QED
      BY <2>1, <3>1, DropKeeps
  <2>4. CASE handlePeersMsg(e)
    BY <2>1, <2>4, PeersMsgKeeps
  <2> QED
    BY <1>5, <2>2, <2>3, <2>4 DEF serveConn
<1> QED
  BY <1>1, <1>2, <1>3, <1>4, <1>5 DEF Next

LEMMA InvHolds == Spec => []RegistryInv
BY InitInv, InvStep, PTL DEF Spec

\* The variables of the switch keep their types, and a node that was not given
\* an address of its own as a seed never lists or dials one: neither the address
\* New was given nor the one Start binds and advertises, however many peers send
\* it back and whatever the peers file held (New, Start, AddKnown, dialPass).
THEOREM SwitchTypeCorrect == Spec => []SwitchTypeOK
<1>1. RegistryInv => SwitchTypeOK
  BY DEF RegistryInv, Types, OpenConns, OwnSeeded, OwnAreSeeds, SwitchTypeOK, ConnRecord
<1> QED
  BY <1>1, InvHolds, PTL

\* Every node has at most one connection per peer process and none to itself,
\* and the connections it reads from are exactly those it broadcasts to: for
\* any number of nodes, any routes between them, however often connections are
\* lost and nodes stopped or restarted (register, isSelf, dropPeer, Stop).
THEOREM RegistryAlwaysSound == Spec => []RegistrySound
<1>1. RegistryInv => RegistrySound
  BY DEF RegistryInv, RegistrySound
<1> QED
  BY <1>1, InvHolds, PTL
=============================================================================
