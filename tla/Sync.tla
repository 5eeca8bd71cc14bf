-------------------------------- MODULE Sync --------------------------------
(***************************************************************************)
(* Block synchronisation between nodes (internal/node/node.go): gossip of  *)
(* new blocks, block locators, batched replies, the poll of syncLoop, lost *)
(* connections and restarts.                                               *)
(*                                                                         *)
(* A node is abstracted to the set of blocks it holds.  All blocks of the  *)
(* table apply, so by invariant TipIsBest of BlockTree its tip is the best *)
(* of them, and by invariant ChainHeightsIndex its active chain is the     *)
(* path to that tip.                                                       *)
(*                                                                         *)
(* A connection carries one FIFO of messages in each direction.  The read  *)
(* loop of a connection handles one message at a time, writes its answers  *)
(* itself and takes the node's mutex anew for every block of a reply, so   *)
(* that a reply is read in several steps.  Broadcast writes from one       *)
(* goroutine per peer: these messages wait in spawned and reach the FIFO   *)
(* in any order.                                                           *)
(***************************************************************************)
EXTENDS Integers, Sequences, SequencesExt

CONSTANTS Node,
          Links,          \* the pairs {n, p} of nodes that can be connected
          Hash, Genesis,
          Block,          \* hash -> [prev, height, difficulty, miner, txs]
          Nil,
          SyncBatch,      \* blocks per reply
          SyncTxBudget,   \* transactions after which a reply is cut off
          DenseEntries,   \* entries of a locator before its gaps double
          MaxOrphans,
          MaxQueue,       \* a poll starts while fewer messages are under way
          MaxFaults       \* lost connections and restarts

Prev(b) == Block[b].prev
Height(b) == Block[b].height

ASSUME SyncAssumption ==
    /\ Hash \subseteq Nat /\ IsFiniteSet(Hash)
    /\ Genesis \in Hash /\ Nil \notin Hash
    /\ Height(Genesis) = 0
    /\ \A b \in Hash \ {Genesis} : /\ Prev(b) \in Hash
                                   /\ Height(b) \in Nat
                                   /\ Height(b) = Height(Prev(b)) + 1
                                   /\ Block[b].difficulty \in Nat \ {0}
    /\ \A l \in Links : \E n, p \in Node : n # p /\ l = {n, p}
    /\ SyncBatch \in Nat \ {0} /\ SyncTxBudget \in Nat \ {0}
    /\ DenseEntries \in Nat /\ MaxOrphans \in Nat
    /\ MaxQueue \in Nat /\ MaxFaults \in Nat

VARIABLES
    known,     \* node -> the blocks of its tree
    orphans,   \* node -> its buffered blocks
    conns,     \* the connected pairs
    peers,     \* node -> the peers whose version it has read
    wire,      \* n -> p -> the messages from n that p has not read
    spawned,   \* n -> p -> the broadcasts of n not yet written to p
    batch,     \* n -> p -> the reply of p that n is reading, or Nil
    faults

net == <<conns, peers, wire, spawned, batch, faults>>
vars == <<known, orphans, net>>

-----------------------------------------------------------------------------
(***************************************************************************)
(* Trees and fork choice.                                                  *)
(***************************************************************************)
ParentClosed(S) == \A b \in S \ {Genesis} : Prev(b) \in S

Ancestors ==
    [b \in Hash |-> {e \in Hash : \A S \in SUBSET Hash :
                                     b \in S /\ ParentClosed(S) => e \in S}]

Work ==
    [b \in Hash |->
        MapThenSumSet(LAMBDA e : Block[e].difficulty, Ancestors[b] \ {Genesis})]

\* What selectTipLocked settles on when every block applies.
Best(S) == CHOOSE b \in S : \A c \in S : \/ Work[b] > Work[c]
                                         \/ Work[b] = Work[c] /\ b <= c

Tip(n) == Best(known[n])

ActiveChain(n) == Ancestors[Tip(n)]

-----------------------------------------------------------------------------
(***************************************************************************)
(* Locators and replies.                                                   *)
(***************************************************************************)
\* How far below its first entry the entries of a locator lie: one step apart
\* at first, then with doubling gaps.
Depths == 0 .. DenseEntries \cup {DenseEntries + 2^(k + 1) - 2 : k \in 1 .. 20}

\* The entries lie on one branch, so their heights give their order.
locatorLocked(e) ==
    {x \in Ancestors[e] : x = Genesis \/ Height(e) - Height(x) \in Depths}

\* Mutation: an entry that is known counts, active chain or not.
CommonHeightAnyBranch(n, locator) ==
    Max({0} \cup {Height(x) : x \in locator \cap known[n]})

\* The newest entry of the locator on the active chain; height 0 without one.
CommonHeight(n, locator) ==
    Max({0} \cup {Height(x) : x \in locator \cap ActiveChain(n)})

\* Mutation: the common block is sent again.
FirstHeightInclusive(common) == common

\* Mutation: the block after the common one is left out.
FirstHeightSkipping(common) == common + 2

FirstHeight(common) == common + 1

\* The block of the active chain at height h.
chainHeights(n, h) == CHOOSE x \in ActiveChain(n) : Height(x) = h

\* The active chain from height start on, oldest first.
ChainFrom(n, start) ==
    [i \in 1 .. Height(Tip(n)) - start + 1 |-> chainHeights(n, start + i - 1)]

\* At most SyncBatch blocks; none after the budget of transactions is spent.
blocksAfterLocatorLocked(n, locator) ==
    LET chain == ChainFrom(n, FirstHeight(CommonHeight(n, locator)))
        spent(i) == MapThenSumSet(LAMBDA j : Block[chain[j]].txs, 1 .. i - 1)
        fits == {i \in DOMAIN chain : i <= SyncBatch /\ spent(i) < SyncTxBudget}
    IN  SubSeq(chain, 1, Max({0} \cup fits))

Version == [type |-> "version"]
GetBlocks(locator) == [type |-> "getblocks", locator |-> locator]
Blocks(list) == [type |-> "blocks", blocks |-> list]
NewBlock(b) == [type |-> "newblock", block |-> b]

-----------------------------------------------------------------------------
(***************************************************************************)
(* Writing to a peer.  A write to a lost connection fails unnoticed.       *)
(***************************************************************************)
Connected(n, p) == {n, p} \in conns

\* The read loop of n for p, having taken "read" messages of p, answers.
Answer(n, p, read, answers) ==
    wire' = [wire EXCEPT ![p][n] = SubSeq(@, 1 + read, Len(@)),
                         ![n][p] = IF Connected(n, p) THEN @ \o answers ELSE @]

\* Broadcast: every peer but one gets a goroutine.
Broadcast(n, except, msgs) ==
    [spawned EXCEPT ![n] =
        [p \in Node |-> IF p \in peers[n] \ {except}
                        THEN @[p] \cup msgs ELSE @[p]]]

Init ==
    /\ known = [n \in Node |-> {Genesis}]
    /\ orphans = [n \in Node |-> {}]
    /\ conns = {}
    /\ peers = [n \in Node |-> {}]
    /\ wire = [n \in Node |-> [p \in Node |-> << >>]]
    /\ spawned = [n \in Node |-> [p \in Node |-> {}]]
    /\ batch = [n \in Node |-> [p \in Node |-> Nil]]
    /\ faults = 0

-----------------------------------------------------------------------------
(***************************************************************************)
(* A block joins the tree, and with it the buffered blocks that were       *)
(* waiting for it; those are announced to all peers.                       *)
(***************************************************************************)
\* Mutation: the buffered blocks stay where they are.
PromotedNone(n, b) == {}

Promoted(n, b) ==
    {x \in orphans[n] : /\ b \in Ancestors[x]
                        /\ Ancestors[x] \subseteq known[n] \cup orphans[n] \cup {b}}

insertBlockLocked(n, b, announced, except) ==
    LET promoted == Promoted(n, b)
        toOthers == {NewBlock(x) : x \in promoted \cup announced}
        toSender == {NewBlock(x) : x \in promoted}
    IN  /\ known' = [known EXCEPT ![n] = @ \cup {b} \cup promoted]
        /\ orphans' = [orphans EXCEPT ![n] = @ \ promoted]
        /\ spawned' = [Broadcast(n, except, toOthers) EXCEPT ![n][except] =
                          IF except \in peers[n] THEN @ \cup toSender ELSE @]

\* The miner of n finds a block on a block that is, or was, the tip.
SubmitSolution(n, b) ==
    /\ Block[b].miner = n
    /\ b \notin known[n]
    /\ Prev(b) \in known[n]
    /\ insertBlockLocked(n, b, {b}, n)
    /\ UNCHANGED <<conns, peers, wire, batch, faults>>

addOrphanLocked(n, b) ==
    orphans' = [orphans EXCEPT ![n] =
        IF Cardinality(@) >= MaxOrphans THEN @ ELSE @ \cup {b}]

IsNew(n, b) == b \notin known[n] /\ Prev(b) \in known[n]

\* A block that p sent: known, without its parent, or new to n, in which case
\* it is announced if it came by gossip.
acceptRemoteBlock(n, p, b, announced, read) ==
    \/ /\ b \in known[n]
       /\ Answer(n, p, read, << >>)
       /\ UNCHANGED <<known, orphans, spawned>>
    \/ /\ b \notin known[n] /\ Prev(b) \notin known[n]
       /\ addOrphanLocked(n, b)
       /\ Answer(n, p, read, <<GetBlocks(locatorLocked(Tip(n)))>>)
       /\ UNCHANGED <<known, spawned>>
    \/ /\ IsNew(n, b)
       /\ insertBlockLocked(n, b, announced, p)
       /\ Answer(n, p, read, << >>)

-----------------------------------------------------------------------------
(***************************************************************************)
(* The read loop of n for p.                                               *)
(***************************************************************************)
Reading(n, p, type) ==
    /\ batch[n][p] = Nil
    /\ wire[p][n] # << >>
    /\ Head(wire[p][n]).type = type

onPeerConnect(n, p) ==
    /\ Reading(n, p, "version")
    /\ peers' = [peers EXCEPT ![n] = @ \cup {p}]
    /\ Answer(n, p, 1, <<GetBlocks(locatorLocked(Tip(n)))>>)
    /\ UNCHANGED <<known, orphans, conns, spawned, batch, faults>>

onGetBlocks(n, p) ==
    /\ Reading(n, p, "getblocks")
    /\ LET out == blocksAfterLocatorLocked(n, Head(wire[p][n]).locator)
       IN  Answer(n, p, 1, IF out = << >> THEN << >> ELSE <<Blocks(out)>>)
    /\ UNCHANGED <<known, orphans, conns, peers, spawned, batch, faults>>

onNewBlock(n, p) ==
    /\ Reading(n, p, "newblock")
    /\ LET b == Head(wire[p][n]).block IN acceptRemoteBlock(n, p, b, {b}, 1)
    /\ UNCHANGED <<conns, peers, batch, faults>>

\* onBlocks: the reply is taken off the connection ...
onBlocks(n, p) ==
    /\ Reading(n, p, "blocks")
    /\ batch' = [batch EXCEPT ![n][p] =
         [todo |-> Head(wire[p][n]).blocks, deepest |-> Nil]]
    /\ Answer(n, p, 1, << >>)
    /\ UNCHANGED <<known, orphans, conns, peers, spawned, faults>>

\* ... its blocks are inserted one by one, and not announced ...
onBlocksNext(n, p) ==
    /\ batch[n][p] # Nil
    /\ batch[n][p].todo # << >>
    /\ LET b == Head(batch[n][p].todo) IN
       /\ acceptRemoteBlock(n, p, b, {}, 0)
       /\ batch' = [batch EXCEPT ![n][p] =
            [todo |-> Tail(@.todo), deepest |-> IF IsNew(n, b) THEN b ELSE @.deepest]]
    /\ UNCHANGED <<conns, peers, faults>>

\* Mutation: the next batch is requested from the tip.
NextRequestFromTip(n, deepest) == locatorLocked(Tip(n))

NextRequest(n, deepest) == locatorLocked(deepest)

\* ... and the next batch is requested from the last new block, if any.
onBlocksDone(n, p) ==
    /\ batch[n][p] # Nil
    /\ batch[n][p].todo = << >>
    /\ batch' = [batch EXCEPT ![n][p] = Nil]
    /\ LET deepest == batch[n][p].deepest IN
       Answer(n, p, 0, IF deepest = Nil THEN << >>
                       ELSE <<GetBlocks(NextRequest(n, deepest))>>)
    /\ UNCHANGED <<known, orphans, conns, peers, spawned, faults>>

-----------------------------------------------------------------------------
(***************************************************************************)
(* The other goroutines, the dialer and the faults.                        *)
(***************************************************************************)
\* A goroutine of Broadcast writes its message.
WriteSpawned(n, p) ==
    \E m \in spawned[n][p] :
        /\ spawned' = [spawned EXCEPT ![n][p] = @ \ {m}]
        /\ Answer(n, p, 0, <<m>>)
        /\ UNCHANGED <<known, orphans, conns, peers, batch, faults>>

\* The messages under way on a connection, in both directions.
Traffic(n, p) == Len(wire[n][p]) + Len(wire[p][n])
                 + Cardinality(spawned[n][p]) + Cardinality(spawned[p][n])

\* Every 10 s all peers are asked to continue the chain.
syncLoop(n) ==
    /\ peers[n] # {}
    /\ \A p \in peers[n] : Traffic(n, p) < MaxQueue
    /\ spawned' = Broadcast(n, n, {GetBlocks(locatorLocked(Tip(n)))})
    /\ UNCHANGED <<known, orphans, conns, peers, wire, batch, faults>>

\* dialLoop; both ends have closed the previous connection.
Connect(l) ==
    /\ l \notin conns
    /\ \A n, p \in l : batch[n][p] = Nil
    /\ conns' = conns \cup {l}
    /\ wire' = [n \in Node |-> [p \in Node |->
                   IF l = {n, p} THEN <<Version>> ELSE wire[n][p]]]
    /\ UNCHANGED <<known, orphans, peers, spawned, batch, faults>>

\* The connections in L are gone, with all that was under way on them.  A read
\* loop finishes the reply it has read.
Lose(L) ==
    /\ conns' = conns \ L
    /\ peers' = [n \in Node |-> {p \in peers[n] : {n, p} \notin L}]
    /\ wire' = [n \in Node |-> [p \in Node |->
                   IF {n, p} \in L THEN << >> ELSE wire[n][p]]]
    /\ spawned' = [n \in Node |-> [p \in Node |->
                      IF {n, p} \in L THEN {} ELSE spawned[n][p]]]
    /\ faults < MaxFaults
    /\ faults' = faults + 1

Disconnect(l) ==
    /\ l \in conns
    /\ Lose({l})
    /\ UNCHANGED <<known, orphans, batch>>

\* The process ends and is started again: the tree comes back from the file.
Restart(n) ==
    /\ Lose({l \in conns : n \in l})
    /\ orphans' = [orphans EXCEPT ![n] = {}]
    /\ batch' = [batch EXCEPT ![n] = [p \in Node |-> Nil]]
    /\ UNCHANGED known

ReadLoop(n, p) ==
    \/ onPeerConnect(n, p) \/ onGetBlocks(n, p) \/ onNewBlock(n, p)
    \/ onBlocks(n, p) \/ onBlocksNext(n, p) \/ onBlocksDone(n, p)

Next ==
    \/ \E n \in Node, b \in Hash : SubmitSolution(n, b)
    \/ \E n, p \in Node : ReadLoop(n, p) \/ WriteSpawned(n, p)
    \/ \E n \in Node : syncLoop(n) \/ Restart(n)
    \/ \E l \in Links : Connect(l) \/ Disconnect(l)

\* Read loops and goroutines run, the ticker of syncLoop fires and dialLoop
\* retries for ever; whether blocks are mined or connections lost is open.
Fairness ==
    /\ \A l \in Links : \A n \in l : \A p \in l \ {n} :
         WF_vars(ReadLoop(n, p)) /\ WF_vars(WriteSpawned(n, p))
    /\ \A l \in Links : WF_vars(Connect(l))
    /\ \A n \in Node : WF_vars(syncLoop(n))

Spec == Init /\ [][Next]_vars /\ Fairness

-----------------------------------------------------------------------------
(***************************************************************************)
(* Properties.                                                             *)
(***************************************************************************)
\* The variables have their types, every tree is closed under parents and every
\* locator and reply in flight is about blocks of its sender's tree.
SyncTypeOK ==
    /\ \A n \in Node : /\ known[n] \subseteq Hash /\ ParentClosed(known[n])
                       /\ orphans[n] \subseteq Hash \ known[n]
                       /\ Cardinality(orphans[n]) <= MaxOrphans
                       /\ \A p \in peers[n] : Connected(n, p)
    /\ \A n, p \in Node : \A i \in DOMAIN wire[n][p] :
         LET m == wire[n][p][i] IN
         /\ m.type = "getblocks" => m.locator \subseteq known[n]
         /\ m.type = "blocks" => Range(m.blocks) \subseteq known[n]
         /\ m.type = "newblock" => m.block \in known[n]

\* A run of blocks, each the child of the one before, that continues a block
\* of the tree of n.
Continues(n, list) ==
    /\ Prev(list[1]) \in known[n]
    /\ \A i \in 2 .. Len(list) : Prev(list[i]) = list[i - 1]

\* A reply always connects to something the requester has, whichever branch
\* the responder has moved to since the request was made
\* (blocksAfterLocatorLocked): no block of a reply is ever an orphan.
RepliesConnect ==
    \A n, p \in Node :
        /\ \A i \in DOMAIN wire[p][n] :
             wire[p][n][i].type = "blocks" => Continues(n, wire[p][n][i].blocks)
        /\ batch[n][p] # Nil /\ batch[n][p].todo # << >> =>
             Continues(n, batch[n][p].todo)

\* The nodes agree.
Agreed == \A n, p \in Node : Tip(n) = Tip(p)

\* Connected nodes end up on one chain when no more blocks are mined and no
\* more connections are lost (onBlocks, acceptRemoteBlock, syncLoop).
Converges == <>[]Agreed

\* Once the nodes agree the polls go unanswered and gossip dies out: neither
\* replies nor announcements are exchanged for ever (onGetBlocks).
BecomesQuiet ==
    <>[](\A n, p \in Node : \A i \in DOMAIN wire[n][p] :
            wire[n][p][i].type \notin {"blocks", "newblock"})
=============================================================================
