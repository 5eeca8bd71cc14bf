----------------------------- MODULE SyncProofs -----------------------------
(***************************************************************************)
(* Proofs about Sync, for every set of nodes and links and every finite    *)
(* table of blocks.                                                        *)
(***************************************************************************)
EXTENDS Sync, FoldTheorems

(***************************************************************************)
(* Paths.                                                                  *)
(***************************************************************************)
\* What the table of blocks gives.
LEMMA Table ==
    /\ Genesis \in Hash /\ Height(Genesis) = 0 /\ Hash \subseteq Nat
    /\ \A b \in Hash : Height(b) \in Nat
    /\ \A b \in Hash \ {Genesis} : /\ Prev(b) \in Hash
                                   /\ Height(b) = Height(Prev(b)) + 1
                                   /\ Height(b) > 0
<1>1. Genesis \in Hash /\ Height(Genesis) = 0 /\ Hash \subseteq Nat
  BY SyncAssumption
<1>2. \A b \in Hash \ {Genesis} : /\ Prev(b) \in Hash /\ Height(b) \in Nat
                                  /\ Height(b) = Height(Prev(b)) + 1
  BY SyncAssumption
<1>3. \A b \in Hash : Height(b) \in Nat
  BY <1>1, <1>2
<1>4. ASSUME NEW b \in Hash \ {Genesis} PROVE Height(b) > 0
  <2>1. Height(Prev(b)) \in Nat /\ Height(b) = Height(Prev(b)) + 1
    BY <1>2, <1>3
  <2> QED
    BY <2>1
<1> QED
  BY <1>1, <1>2, <1>3, <1>4

\* A closed set that has a block has the path to it.
LEMMA PathWithin ==
    ASSUME NEW S \in SUBSET Hash, ParentClosed(S), NEW b \in S
    PROVE  Ancestors[b] \subseteq S
BY DEF Ancestors

LEMMA PathClosed ==
    ASSUME NEW b \in Hash
    PROVE  b \in Ancestors[b] /\ Ancestors[b] \subseteq Hash /\ ParentClosed(Ancestors[b])
<1>1. b \in Ancestors[b] /\ Ancestors[b] \subseteq Hash
  BY DEF Ancestors
<1>2. ASSUME NEW e \in Ancestors[b] \ {Genesis} PROVE Prev(e) \in Ancestors[b]
  <2>1. Prev(e) \in Hash
    BY <1>1, Table
  <2>2. ASSUME NEW S \in SUBSET Hash, b \in S, ParentClosed(S) PROVE Prev(e) \in S
    BY <2>2 DEF Ancestors, ParentClosed
  <2> QED
    BY <2>1, <2>2 DEF Ancestors
<1> QED
  BY <1>1, <1>2 DEF ParentClosed

\* The path to a block is the path to its parent and the block.
LEMMA PathStep ==
    ASSUME NEW b \in Hash \ {Genesis}
    PROVE  Ancestors[b] = Ancestors[Prev(b)] \cup {b}
<1>1. Prev(b) \in Hash
  BY Table
<1> DEFINE S == Ancestors[Prev(b)] \cup {b}
<1>2. S \in SUBSET Hash /\ ParentClosed(S) /\ b \in S
  BY <1>1, PathClosed DEF ParentClosed
<1> HIDE DEF S
<1>3. Ancestors[b] \subseteq S
  BY <1>2, PathWithin
<1>4. Prev(b) \in Ancestors[b] /\ b \in Ancestors[b] /\ Ancestors[b] \in SUBSET Hash
  BY PathClosed DEF ParentClosed
<1>5. Ancestors[Prev(b)] \subseteq Ancestors[b]
  BY <1>4, PathClosed, PathWithin
<1> QED
  BY <1>3, <1>4, <1>5 DEF S

LEMMA PathOfGenesis == Ancestors[Genesis] = {Genesis}
<1>1. {Genesis} \in SUBSET Hash /\ ParentClosed({Genesis})
  BY Table DEF ParentClosed
<1> QED
  BY <1>1, Table, PathWithin, PathClosed

\* A path has one block at each height from 0 to that of its end.
OnePerHeight(b) ==
    /\ \A x \in Ancestors[b] : Height(x) \in 0 .. Height(b)
    /\ \A h \in 0 .. Height(b) : \E x \in Ancestors[b] : Height(x) = h
    /\ \A x, y \in Ancestors[b] : Height(x) = Height(y) => x = y

LEMMA PathHeights ==
    ASSUME NEW b \in Hash
    PROVE  OnePerHeight(b)
<1> DEFINE N == Height(b)
           G == {k \in 0 .. N : \A c \in Hash : Height(c) = k => OnePerHeight(c)}
<1>1. N \in Nat
  BY Table
<1>2. 0 \in G
  <2>1. ASSUME NEW c \in Hash, Height(c) = 0 PROVE OnePerHeight(c)
    <3>1. c = Genesis
      BY <2>1, Table
    <3> QED
      BY <3>1, PathOfGenesis, Table DEF OnePerHeight
  <2> QED
    BY <1>1, <2>1
<1>3. ASSUME NEW k \in 0 .. N - 1, k \in G PROVE k + 1 \in G
  <2>1. ASSUME NEW c \in Hash, Height(c) = k + 1 PROVE OnePerHeight(c)
    <3>1. c # Genesis /\ k \in Nat
      BY <2>1, Table
    <3>2. Prev(c) \in Hash /\ Height(c) = Height(Prev(c)) + 1 /\ Height(Prev(c)) \in Nat
      BY <3>1, Table
    <3>3. OnePerHeight(Prev(c)) /\ Height(Prev(c)) = k
      BY <1>3, <2>1, <3>1, <3>2
    <3>4. Ancestors[c] = Ancestors[Prev(c)] \cup {c}
      BY <3>1, PathStep
    <3> QED
      BY <2>1, <3>1, <3>3, <3>4 DEF OnePerHeight
  <2> QED
    BY <1>1, <2>1
<1> HIDE DEF G, N
<1>4. \A k \in 0 .. N : k \in G
  BY <1>1, <1>2, <1>3, CountingInduction
<1>5. N \in 0 .. N
  BY <1>1
<1> QED
  BY <1>4, <1>5 DEF G, N

\* The first k elements of a sequence.
LEMMA FirstPart ==
    ASSUME NEW S, NEW s \in Seq(S), NEW k \in 1 .. Len(s)
    PROVE  /\ SubSeq(s, 1, k) \in Seq(S) /\ Len(SubSeq(s, 1, k)) = k
           /\ \A i \in 1 .. k : SubSeq(s, 1, k)[i] = s[i]
OBVIOUS

-----------------------------------------------------------------------------
(***************************************************************************)
(* Fork choice and replies.                                                *)
(***************************************************************************)
\* The work of a block is a number.
LEMMA WorkIsNat ==
    ASSUME NEW b \in Hash
    PROVE  Work[b] \in Nat
<1> DEFINE S == Ancestors[b] \ {Genesis}
           f == [e \in S |-> Block[e].difficulty]
           Rec(g) == [s \in SUBSET S |->
                        IF s = {} THEN 0 ELSE Block[Pick(s)].difficulty + g[s \ {Pick(s)}]]
           iter == CHOOSE g : g = Rec(g)
<1>1. S \subseteq Hash \ {Genesis}
  BY PathClosed
<1>2. IsFiniteSet(S)
  BY <1>1, SyncAssumption, FS_Subset
<1>3. \A e \in S : f[e] \in Nat
  BY <1>1, SyncAssumption
<1>4. Work[b] = iter[S]
  BY DEF Work, MapThenSumSet, MapThenFoldSet, Pick
<1> HIDE DEF S
<1>5. \A g : SumsUp(g, f, S) <=> g = Rec(g)
  <2>1. \A s \in SUBSET S : s # {} => f[Pick(s)] = Block[Pick(s)].difficulty
    BY DEF Pick
  <2> HIDE DEF f
  <2> QED
    BY <2>1 DEF SumsUp
<1> HIDE DEF f
<1>6. \E g : g = Rec(g)
  BY <1>2, <1>5, SumExists
<1> HIDE DEF Rec
<1>7. SumsUp(iter, f, S)
  BY <1>5, <1>6
<1>8. iter[S] \in Nat
  <2> HIDE DEF iter
  <2> QED
    BY <1>2, <1>3, <1>7, SumIsNat
<1> QED
  BY <1>4, <1>8

\* b is at least as good as c.
Beats(b, c) == Work[b] > Work[c] \/ (Work[b] = Work[c] /\ b <= c)

\* Every set of blocks has a best one.
LEMMA BestExists ==
    ASSUME NEW S \in SUBSET Hash, S # {}
    PROVE  Best(S) \in S
<1> DEFINE G == {T \in SUBSET S : T # {} => \E b \in T : \A c \in T : Beats(b, c)}
<1>1. {} \in G
  OBVIOUS
<1>2. \A b \in S : Work[b] \in Nat /\ b \in Nat
  BY WorkIsNat, Table
<1>3. ASSUME NEW T \in SUBSET S, NEW x \in S \ T, T \in G PROVE T \cup {x} \in G
  <2>1. CASE T = {}
    BY <1>2, <2>1 DEF Beats
  <2>2. CASE T # {}
    <3>1. PICK b \in T : \A c \in T : Beats(b, c)
      BY <1>3, <2>2
    <3>2. CASE Beats(x, b)
      <4>1. \A c \in T \cup {x} : Beats(x, c)
        BY <1>2, <3>1, <3>2 DEF Beats
      <4> QED
        BY <4>1
    <3>3. CASE ~Beats(x, b)
      <4>1. \A c \in T \cup {x} : Beats(b, c)
        BY <1>2, <3>1, <3>3 DEF Beats
      <4> QED
        BY <4>1
    <3> QED
      BY <3>2, <3>3
  <2> QED
    BY <2>1, <2>2
<1>4. IsFiniteSet(S)
  BY SyncAssumption, FS_Subset
<1>5. S \in G
  <2> HIDE DEF G
  <2> QED
    BY <1>1, <1>3, <1>4, ElementInduction
<1>6. \E b \in S : \A c \in S : Beats(b, c)
  BY <1>5
<1> QED
  BY <1>6 DEF Best, Beats

\* A tree as every node keeps it.
Rooted(S) == S \in SUBSET Hash /\ Genesis \in S /\ ParentClosed(S)

\* The tip is in the tree, and so are its chain and every locator.
LEMMA TipWithin ==
    ASSUME NEW n \in Node, Rooted(known[n])
    PROVE  /\ Tip(n) \in known[n] /\ Tip(n) \in Hash
           /\ ActiveChain(n) \subseteq known[n]
           /\ \A e \in known[n] : locatorLocked(e) \subseteq known[n]
<1>1. Tip(n) \in known[n] /\ Tip(n) \in Hash
  BY BestExists DEF Tip, Rooted
<1>2. \A e \in known[n] : Ancestors[e] \subseteq known[n]
  BY PathWithin DEF Rooted
<1> QED
  BY <1>1, <1>2 DEF ActiveChain, locatorLocked

\* A list of blocks that are each the child of the one before, the first one
\* the child of a block in S.
Chained(list, S) ==
    /\ list # << >>
    /\ Prev(list[1]) \in S
    /\ \A i \in 2 .. Len(list) : Prev(list[i]) = list[i - 1]

\* A reply to a locator of blocks in S is a run of blocks of the sender's
\* chain that continues S.
LEMMA ReplyConnects ==
    ASSUME NEW n \in Node, Rooted(known[n]), NEW S \in SUBSET Hash, Genesis \in S,
           NEW locator \in SUBSET S,
           NEW out, out = blocksAfterLocatorLocked(n, locator), out # << >>
    PROVE  out \in Seq(known[n]) /\ Chained(out, S)
<1> DEFINE t == Tip(n)
           N == Height(t)
           H == {0} \cup {Height(x) : x \in locator \cap ActiveChain(n)}
           common == CommonHeight(n, locator)
           chain == ChainFrom(n, FirstHeight(common))
           at(h) == chainHeights(n, h)
<1>1. t \in Hash /\ t \in known[n] /\ ActiveChain(n) \subseteq known[n] /\ N \in Nat
  BY TipWithin, Table
<1>2. OnePerHeight(t) /\ ActiveChain(n) = Ancestors[t] /\ ActiveChain(n) \subseteq Hash
  BY <1>1, PathHeights, PathClosed DEF ActiveChain
<1>3. ASSUME NEW h \in 0 .. N
      PROVE  /\ at(h) \in ActiveChain(n) /\ Height(at(h)) = h
             /\ \A x \in ActiveChain(n) : Height(x) = h => x = at(h)
  BY <1>2 DEF chainHeights, OnePerHeight
<1>4. common \in H /\ common \in 0 .. N
  <2>1. H \in SUBSET (0 .. N) /\ H # {}
    BY <1>1, <1>2 DEF OnePerHeight
  <2>2. common = Max(H)
    BY DEF CommonHeight
  <2> HIDE DEF H, common, N
  <2> QED
    BY <1>1, <2>1, <2>2, MaxExists
<1>5. at(common) \in S
  <2>1. CASE common = 0
    <3>1. Genesis \in ActiveChain(n) /\ Height(Genesis) = 0
      <4>1. PICK x \in Ancestors[t] : Height(x) = 0
        BY <1>1, <1>2 DEF OnePerHeight
      <4>2. x \in Hash
        BY <1>2, <4>1
      <4>3. x = Genesis
        BY <4>1, <4>2, Table
      <4> QED
        BY <1>2, <4>1, <4>3, Table
    <3>2. Genesis = at(common)
      BY <1>3, <1>4, <2>1, <3>1
    <3> QED
      BY <3>2
  <2>2. CASE common # 0
    <3>1. PICK x \in locator \cap ActiveChain(n) : Height(x) = common
      BY <1>4, <2>2
    <3> HIDE DEF common, at
    <3>2. x = at(common)
      BY <1>3, <1>4, <3>1
    <3> QED
      BY <3>1, <3>2
  <2> QED
    BY <2>1, <2>2
<1> DEFINE L == N - common
<1>6. chain = [i \in 1 .. L |-> at(common + i)] /\ L \in Nat
  <2>1. L \in Nat /\ N - FirstHeight(common) + 1 = L
    BY <1>1, <1>4 DEF FirstHeight
  <2>2. \A i \in 1 .. L : FirstHeight(common) + i - 1 = common + i
    BY <1>1, <1>4 DEF FirstHeight
  <2>3. chain = [i \in 1 .. N - FirstHeight(common) + 1 |-> at(FirstHeight(common) + i - 1)]
    BY DEF ChainFrom
  <2> HIDE DEF chain, L, common, N, at
  <2> QED
    BY <2>1, <2>2, <2>3
<1>7. \A i \in 1 .. L : common + i \in 0 .. N
  BY <1>1, <1>4
<1>8. chain \in Seq(known[n]) /\ Len(chain) = L
  <2> HIDE DEF chain, common, at, L
  <2>1. \A i \in 1 .. L : at(common + i) \in known[n]
    BY <1>1, <1>3, <1>7
  <2> QED
    BY <1>6, <2>1
<1>9. ASSUME NEW i \in 1 .. L PROVE Prev(at(common + i)) = at(common + (i - 1))
  <2> DEFINE h == common + i
             x == at(h)
  <2>1. h \in 1 .. N /\ h - 1 \in 0 .. N
    BY <1>1, <1>4
  <2> HIDE DEF h, at, common
  <2>2. x \in ActiveChain(n) /\ Height(x) = h
    BY <1>3, <2>1
  <2>3. x # Genesis
    BY <2>1, <2>2, Table
  <2>4. Prev(x) \in ActiveChain(n) /\ Height(Prev(x)) = h - 1
    <3>1. Prev(x) \in Hash /\ Height(x) = Height(Prev(x)) + 1 /\ Height(Prev(x)) \in Nat
      BY <1>2, <2>2, <2>3, Table
    <3>2. Prev(x) \in ActiveChain(n)
      BY <1>1, <1>2, <2>2, <2>3, PathClosed DEF ParentClosed
    <3> QED
      BY <2>1, <2>2, <3>1, <3>2
  <2>5. Prev(x) = at(h - 1)
    BY <1>3, <2>1, <2>4
  <2>6. h = common + i /\ h - 1 = common + (i - 1)
    BY <1>4 DEF h
  <2> HIDE DEF x
  <2>7. x = at(common + i)
    BY <2>6 DEF x
  <2> QED
    BY <2>5, <2>6, <2>7
<1>10. PICK k \in 0 .. L : out = SubSeq(chain, 1, k)
  <2> DEFINE fits == {i \in DOMAIN chain : /\ i <= SyncBatch
                        /\ MapThenSumSet(LAMBDA j : Block[chain[j]].txs, 1 .. i - 1) < SyncTxBudget}
             M == {0} \cup fits
  <2>1. out = SubSeq(chain, 1, Max(M))
    BY DEF blocksAfterLocatorLocked
  <2>2. DOMAIN chain = 1 .. L
    <3> HIDE DEF chain, L
    <3> QED BY <1>8
  <2> HIDE DEF chain, L
  <2>3. M \in SUBSET (0 .. L) /\ M # {}
    <3>1. fits \subseteq DOMAIN chain
      OBVIOUS
    <3> HIDE DEF fits
    <3> QED
      BY <1>6, <2>2, <3>1
  <2> HIDE DEF M
  <2>4. Max(M) \in 0 .. L
    BY <1>6, <2>3, MaxExists
  <2> QED
    BY <2>1, <2>4
<1> HIDE DEF chain, L, common, at, N
<1>11. k \in 1 .. L
  <2>1. k = 0 => out = << >>
    BY <1>8, <1>10
  <2> QED
    BY <1>6, <1>10, <2>1
<1>12. /\ out \in Seq(known[n]) /\ Len(out) = k
       /\ \A i \in 1 .. k : out[i] = at(common + i)
  <2>1. out \in Seq(known[n]) /\ Len(out) = k /\ \A i \in 1 .. k : out[i] = chain[i]
    BY <1>8, <1>10, <1>11, FirstPart, ZenonT(60)
  <2> QED
    BY <1>6, <1>11, <2>1
<1>13. Prev(out[1]) = at(common)
  <2>1. 1 \in 1 .. L /\ common + 1 - 1 = common
    BY <1>4, <1>6, <1>11
  <2> QED
    BY <1>9, <1>11, <1>12, <2>1
<1>14. ASSUME NEW i \in 2 .. Len(out) PROVE Prev(out[i]) = out[i - 1]
  <2>1. i \in 1 .. L /\ i \in 1 .. k /\ i - 1 \in 1 .. k /\ common + (i - 1) = common + i - 1
    BY <1>4, <1>6, <1>11, <1>12
  <2> QED
    BY <1>9, <1>12, <2>1
<1> QED
  BY <1>5, <1>12, <1>13, <1>14 DEF Chained

-----------------------------------------------------------------------------
(***************************************************************************)
(* The inductive invariant.                                                *)
(***************************************************************************)
\* What a node with tree S may send to one with tree R: locators, replies and
\* announcements of its own blocks, the replies continuing R.
Sendable(S, R) ==
    {Version} \cup {GetBlocks(L) : L \in SUBSET S} \cup {NewBlock(b) : b \in S}
    \cup {Blocks(l) : l \in {k \in Seq(S) : Chained(k, R)}}

Message == Sendable(Hash, Hash)

\* The types of all variables.
Types ==
    /\ known \in [Node -> SUBSET Hash]
    /\ orphans \in [Node -> SUBSET Hash]
    /\ conns \subseteq Links
    /\ peers \in [Node -> SUBSET Node]
    /\ wire \in [Node -> [Node -> Seq(Message)]]
    /\ spawned \in [Node -> [Node -> SUBSET Message]]
    /\ batch \in [Node -> [Node -> [todo : Seq(Hash), deepest : Hash \cup {Nil}] \cup {Nil}]]

\* Trees are closed under parents, and no block of a tree is buffered.
Trees ==
    \A n \in Node : /\ Rooted(known[n])
                    /\ orphans[n] \cap known[n] = {}
                    /\ Cardinality(orphans[n]) <= MaxOrphans

\* Nothing is under way between nodes that are not connected; and a node does
\* not talk to itself.
Unconnected ==
    /\ \A n, p \in Node : ~Connected(n, p) =>
         wire[n][p] = << >> /\ spawned[n][p] = {} /\ p \notin peers[n]
    /\ \A n \in Node : batch[n][n] = Nil

\* Messages are about the blocks of their sender, and replies continue the tree
\* of their receiver.
Sent ==
    \A n, p \in Node : /\ wire[n][p] \in Seq(Sendable(known[n], known[p]))
                       /\ spawned[n][p] \subseteq Sendable(known[n], known[p])

\* What is left of a reply continues the tree, and the next one is requested
\* from a block of the tree.
BatchFits(n, r) ==
    r # Nil => /\ r.todo # << >> => Chained(r.todo, known[n])
               /\ r.deepest # Nil => r.deepest \in known[n]

Batches == \A n, p \in Node : BatchFits(n, batch[n][p])

SyncInv == Types /\ Trees /\ Unconnected /\ Sent /\ Batches

\* Larger trees, more messages.
LEMMA SendableGrows ==
    ASSUME NEW S, NEW T, S \subseteq T, NEW R, NEW U, R \subseteq U
    PROVE  /\ Sendable(S, R) \subseteq Sendable(T, U)
           /\ Seq(Sendable(S, R)) \subseteq Seq(Sendable(T, U))
           /\ \A l : Chained(l, R) => Chained(l, U)
<1>1. \A l : Chained(l, R) => Chained(l, U)
  BY DEF Chained
<1>2. Seq(S) \subseteq Seq(T)
  OBVIOUS
<1>3. Sendable(S, R) \subseteq Sendable(T, U)
  BY <1>1, <1>2 DEF Sendable
<1>4. ASSUME NEW A, NEW B, A \subseteq B PROVE Seq(A) \subseteq Seq(B)
  BY <1>4
<1> QED
  BY <1>1, <1>3, <1>4

\* The four kinds of messages.
LEMMA MessageKinds ==
    ASSUME NEW S, NEW R, NEW m \in Sendable(S, R)
    PROVE  /\ m.type = "getblocks" => m.locator \in SUBSET S
           /\ m.type = "blocks" => m.blocks \in Seq(S) /\ Chained(m.blocks, R)
           /\ m.type = "newblock" => m.block \in S
<1>1. CASE m = Version
  BY <1>1 DEF Version
<1>2. ASSUME NEW L \in SUBSET S, m = GetBlocks(L)
      PROVE  m.type = "getblocks" /\ m.locator = L
  BY <1>2 DEF GetBlocks
<1>3. ASSUME NEW b \in S, m = NewBlock(b)
      PROVE  m.type = "newblock" /\ m.block = b
  BY <1>3 DEF NewBlock
<1>4. ASSUME NEW l \in {k \in Seq(S) : Chained(k, R)}, m = Blocks(l)
      PROVE  m.type = "blocks" /\ m.blocks = l
  BY <1>4 DEF Blocks
<1> QED
  BY <1>1, <1>2, <1>3, <1>4 DEF Sendable

\* Trees only grow, and stay in order.
Grown ==
    /\ known' \in [Node -> SUBSET Hash] /\ orphans' \in [Node -> SUBSET Hash]
    /\ \A n \in Node : known[n] \subseteq known'[n]
    /\ Trees'

\* The FIFOs after a step that loses no connection.
WireSound ==
    /\ wire' \in [Node -> [Node -> Seq(Message)]]
    /\ \A a, b \in Node : /\ wire'[a][b] \in Seq(Sendable(known'[a], known'[b]))
                          /\ ~Connected(a, b) => wire'[a][b] = << >>

\* The broadcasts after a step that loses no connection.
SpawnedSound ==
    /\ spawned' \in [Node -> [Node -> SUBSET Message]]
    /\ \A a, b \in Node : /\ spawned'[a][b] \subseteq Sendable(known'[a], known'[b])
                          /\ ~Connected(a, b) => spawned'[a][b] = {}

\* The replies being read after a step.
BatchSound ==
    /\ batch' \in [Node -> [Node -> [todo : Seq(Hash), deepest : Hash \cup {Nil}] \cup {Nil}]]
    /\ \A a, b \in Node : BatchFits(a, batch[a][b])'
    /\ \A a \in Node : batch'[a][a] = Nil

LEMMA ConnectedPairs ==
    ASSUME Types, NEW n \in Node, NEW p \in Node
    PROVE  (Connected(n, p) <=> Connected(p, n)) /\ (Connected(n, p) => n # p)
<1>1. {n, p} = {p, n}
  OBVIOUS
<1>2. {n, p} \in Links => n # p
  BY SyncAssumption
<1> QED
  BY <1>1, <1>2 DEF Connected, Types

\* A step is sound when its parts are.
LEMMA SoundStep ==
    ASSUME SyncInv, Grown, WireSound, SpawnedSound, BatchSound, conns' = conns,
           peers' \in [Node -> SUBSET Node],
           \A a \in Node : \A b \in peers'[a] : Connected(a, b)
    PROVE  SyncInv'
<1>1. Types'
  BY DEF SyncInv, Types, Grown, WireSound, SpawnedSound, BatchSound
<1>2. Unconnected'
  BY DEF Unconnected, WireSound, SpawnedSound, BatchSound, Connected
<1>3. Sent'
  BY DEF Sent, WireSound, SpawnedSound
<1>4. Batches'
  BY DEF Batches, BatchSound
<1> QED
  BY <1>1, <1>2, <1>3, <1>4 DEF SyncInv, Grown

\* What is left alone stays sound while trees grow.
LEMMA StaysSound ==
    ASSUME SyncInv, Grown
    PROVE  /\ wire' = wire => WireSound
           /\ spawned' = spawned => SpawnedSound
           /\ batch' = batch => BatchSound
           /\ \A a, b \in Node : /\ wire[a][b] \in Seq(Sendable(known'[a], known'[b]))
                                 /\ spawned[a][b] \subseteq Sendable(known'[a], known'[b])
           /\ \A a \in Node : \A r : BatchFits(a, r) => BatchFits(a, r)'
           /\ \A a \in Node : \A b \in peers[a] : Connected(a, b)
           /\ \A a, b \in Node : Sendable(known'[a], known'[b]) \subseteq Message
<1>1. Types /\ Unconnected /\ Sent /\ Batches
  BY DEF SyncInv
<1>2. ASSUME NEW a \in Node, NEW b \in Node
      PROVE  /\ wire[a][b] \in Seq(Sendable(known'[a], known'[b]))
             /\ spawned[a][b] \subseteq Sendable(known'[a], known'[b])
             /\ Sendable(known'[a], known'[b]) \subseteq Message
  <2>1. known[a] \subseteq known'[a] /\ known[b] \subseteq known'[b]
        /\ known'[a] \subseteq Hash /\ known'[b] \subseteq Hash
    BY DEF Grown
  <2>2. /\ Sendable(known[a], known[b]) \subseteq Sendable(known'[a], known'[b])
        /\ Seq(Sendable(known[a], known[b])) \subseteq Seq(Sendable(known'[a], known'[b]))
    BY <2>1, SendableGrows
  <2>3. Sendable(known'[a], known'[b]) \subseteq Message
    BY <2>1, SendableGrows DEF Message
  <2> QED
    BY <1>1, <2>2, <2>3 DEF Sent
<1>3. ASSUME NEW a \in Node, NEW r, BatchFits(a, r) PROVE BatchFits(a, r)'
  <2>1. known[a] \subseteq known'[a]
    BY DEF Grown
  <2> QED
    BY <1>3, <2>1 DEF BatchFits, Chained
<1>4. \A a \in Node : \A b \in peers[a] : Connected(a, b)
  BY <1>1 DEF Types, Unconnected
<1>5. wire' = wire => WireSound
  BY <1>1, <1>2 DEF WireSound, Types, Unconnected
<1>6. spawned' = spawned => SpawnedSound
  BY <1>1, <1>2 DEF SpawnedSound, Types, Unconnected
<1>7. batch' = batch => BatchSound
  <2>1. SUFFICES ASSUME batch' = batch PROVE BatchSound
    OBVIOUS
  <2>2. \A a, b \in Node : BatchFits(a, batch[a][b])'
    BY <1>1, <2>1 DEF Batches, BatchFits, Chained, Grown
  <2> QED
    BY <1>1, <2>1, <2>2 DEF BatchSound, Types, Unconnected
<1> QED
  BY <1>2, <1>3, <1>4, <1>5, <1>6, <1>7

-----------------------------------------------------------------------------
(***************************************************************************)
(* Parts of steps.                                                         *)
(***************************************************************************)
\* Reading and answering.
LEMMA AnswerSound ==
    ASSUME SyncInv, Grown, NEW n \in Node, NEW p \in Node, n # p,
           NEW read \in {0, 1}, read = 1 => wire[p][n] # << >>,
           NEW msgs \in Seq(Sendable(known'[n], known'[p])), Answer(n, p, read, msgs)
    PROVE  WireSound
<1> DEFINE F(a, b) == Sendable(known'[a], known'[b])
           r == SubSeq(wire[p][n], 1 + read, Len(wire[p][n]))
           w == IF Connected(n, p) THEN wire[n][p] \o msgs ELSE wire[n][p]
<1>1. wire \in [Node -> [Node -> Seq(Message)]] /\ Unconnected
  BY DEF SyncInv, Types
<1>2. \A a, b \in Node : wire[a][b] \in Seq(F(a, b)) /\ F(a, b) \subseteq Message
  BY StaysSound
<1>3. r \in Seq(F(p, n)) /\ (wire[p][n] = << >> => r = << >>)
  <2> DEFINE M == F(p, n)
             v == wire[p][n]
  <2>1. v \in Seq(M)
    BY <1>2
  <2> HIDE DEF M, v
  <2>2. SubSeq(v, 1, Len(v)) \in Seq(M) /\ SubSeq(v, 2, Len(v)) \in Seq(M)
        /\ (v = << >> => SubSeq(v, 1, Len(v)) = << >>)
    BY <2>1
  <2>3. CASE read = 0
    BY <2>2, <2>3 DEF v, M
  <2>4. CASE read = 1
    BY <2>2, <2>4 DEF v, M
  <2> QED
    BY <2>3, <2>4
<1>4. w \in Seq(F(n, p)) /\ (~Connected(n, p) => w = << >>)
  <2> DEFINE M == F(n, p)
             v == wire[n][p]
  <2>1. v \in Seq(M) /\ msgs \in Seq(M)
    BY <1>2
  <2> HIDE DEF M, v
  <2>2. v \o msgs \in Seq(M)
    BY <2>1
  <2>3. ~Connected(n, p) => v = << >>
    BY <1>1 DEF Unconnected, v
  <2> QED
    BY <2>1, <2>2, <2>3 DEF v, M
<1>5. ~Connected(p, n) => r = << >>
  BY <1>1, <1>3 DEF Unconnected
<1>6. wire' = [wire EXCEPT ![p][n] = r, ![n][p] = w]
  BY <1>1 DEF Answer
<1>7. r \in Seq(Message) /\ w \in Seq(Message)
  <2>1. F(p, n) \subseteq Message /\ F(n, p) \subseteq Message
    BY <1>2
  <2>2. ASSUME NEW A, NEW B, A \subseteq B PROVE Seq(A) \subseteq Seq(B)
    BY <2>2
  <2>3. Seq(F(p, n)) \subseteq Seq(Message) /\ Seq(F(n, p)) \subseteq Seq(Message)
    BY <2>1, <2>2
  <2> HIDE DEF F, r, w
  <2> QED
    BY <1>3, <1>4, <2>3
<1> HIDE DEF r, w, F
<1>8. /\ wire' \in [Node -> [Node -> Seq(Message)]]
      /\ \A a, b \in Node : ~(a = n /\ b = p) /\ ~(a = p /\ b = n) => wire'[a][b] = wire[a][b]
      /\ wire'[p][n] = r /\ wire'[n][p] = w
  <2> DEFINE v == [wire EXCEPT ![p] = [wire[p] EXCEPT ![n] = r]]
             u == [v EXCEPT ![n] = [v[n] EXCEPT ![p] = w]]
  <2>1. /\ v \in [Node -> [Node -> Seq(Message)]] /\ v[p][n] = r
        /\ \A a, b \in Node : ~(a = p /\ b = n) => v[a][b] = wire[a][b]
    BY <1>1, <1>7
  <2>2. wire' = u
    BY <1>1, <1>6
  <2> HIDE DEF v
  <2>3. /\ u \in [Node -> [Node -> Seq(Message)]] /\ u[n][p] = w
        /\ \A a, b \in Node : ~(a = n /\ b = p) => u[a][b] = v[a][b]
    BY <1>7, <2>1
  <2> HIDE DEF u
  <2> QED
    BY <2>1, <2>2, <2>3
<1>9. ASSUME NEW a \in Node, NEW b \in Node
      PROVE  wire'[a][b] \in Seq(F(a, b)) /\ (~Connected(a, b) => wire'[a][b] = << >>)
  <2>1. CASE a = n /\ b = p
    BY <1>4, <1>8, <2>1
  <2>2. CASE a = p /\ b = n
    BY <1>3, <1>5, <1>8, <2>2
  <2>3. CASE ~(a = n /\ b = p) /\ ~(a = p /\ b = n)
    <3>1. wire'[a][b] = wire[a][b]
      BY <1>8, <2>3
    <3>2. ~Connected(a, b) => wire[a][b] = << >>
      BY <1>1 DEF Unconnected
    <3>3. wire[a][b] \in Seq(F(a, b))
      BY <1>2
    <3> QED
      BY <3>1, <3>2, <3>3
  <2> QED
    BY <2>1, <2>2, <2>3
<1> QED
  BY <1>8, <1>9 DEF WireSound, F

\* Promotion takes the buffered blocks whose path is complete now.
LEMMA PromotedSound ==
    ASSUME Types, Trees, NEW n \in Node, NEW b \in Hash, IsNew(n, b)
    PROVE  /\ Promoted(n, b) \subseteq orphans[n]
           /\ Rooted(known[n] \cup {b} \cup Promoted(n, b))
           /\ b \in orphans[n] => b \in Promoted(n, b)
<1> DEFINE K == known[n] \cup {b} \cup Promoted(n, b)
<1>1. Rooted(known[n]) /\ orphans[n] \cap known[n] = {} /\ orphans[n] \subseteq Hash
  BY DEF Trees, Types
<1>2. Promoted(n, b) \subseteq orphans[n]
  BY DEF Promoted
<1>3. b # Genesis /\ Prev(b) \in known[n] /\ b \notin known[n]
  BY <1>1 DEF IsNew, Rooted
<1>4. Ancestors[b] \subseteq known[n] \cup {b}
  <2>1. Ancestors[b] = Ancestors[Prev(b)] \cup {b}
    BY <1>3, PathStep
  <2>2. Ancestors[Prev(b)] \subseteq known[n]
    BY <1>1, <1>3, PathWithin DEF Rooted
  <2> QED
    BY <2>1, <2>2
<1>5. b \in orphans[n] => b \in Promoted(n, b)
  BY <1>4, PathClosed DEF Promoted
<1>6. ASSUME NEW x \in Promoted(n, b) PROVE Prev(x) \in K
  <2>1. /\ x \in orphans[n] /\ x \in Hash /\ x # Genesis /\ b \in Ancestors[x]
        /\ Ancestors[x] \subseteq known[n] \cup orphans[n] \cup {b}
    BY <1>1 DEF Promoted, Rooted
  <2>2. Ancestors[x] = Ancestors[Prev(x)] \cup {x} /\ Prev(x) \in Hash
    BY <2>1, PathStep, Table
  <2>3. Prev(x) \in Ancestors[x]
    BY <2>2, PathClosed
  <2>4. CASE x = b
    BY <1>3, <2>4
  <2>5. CASE x # b /\ Prev(x) \in orphans[n]
    <3>1. b \in Ancestors[Prev(x)]
      BY <2>1, <2>2, <2>5
    <3>2. Ancestors[Prev(x)] \subseteq known[n] \cup orphans[n] \cup {b}
      BY <2>1, <2>2
    <3>3. Prev(x) \in Promoted(n, b)
      BY <2>5, <3>1, <3>2 DEF Promoted
    <3> QED
      BY <3>3
  <2>6. CASE x # b /\ Prev(x) \notin orphans[n]
    BY <2>1, <2>3, <2>6
  <2> QED
    BY <2>4, <2>5, <2>6
<1>7. ParentClosed(K)
  BY <1>1, <1>3, <1>6 DEF ParentClosed, Rooted
<1>8. K \in SUBSET Hash /\ Genesis \in K
  BY <1>1, <1>2 DEF Rooted
<1> QED
  BY <1>2, <1>5, <1>7, <1>8 DEF Rooted

\* A subset of the buffer keeps its bound.
LEMMA BufferShrinks ==
    ASSUME NEW O \in SUBSET Hash, Cardinality(O) <= MaxOrphans, NEW P \in SUBSET O
    PROVE  Cardinality(P) <= MaxOrphans
<1>1. IsFiniteSet(O) /\ MaxOrphans \in Nat
  BY SyncAssumption, FS_Subset
<1>2. Cardinality(P) <= Cardinality(O) /\ Cardinality(O) \in Nat /\ Cardinality(P) \in Nat
  BY <1>1, FS_Subset, FS_CardinalityType
<1> QED
  BY <1>1, <1>2

\* Insertion of a new block, and what it announces.
LEMMA InsertSound ==
    ASSUME SyncInv, NEW n \in Node, NEW b \in Hash, IsNew(n, b),
           NEW announced \in SUBSET {b}, NEW x \in Node,
           insertBlockLocked(n, b, announced, x)
    PROVE  Grown /\ SpawnedSound /\ b \in known'[n]
<1> DEFINE P == Promoted(n, b)
           A == {NewBlock(y) : y \in P \cup announced}
           B == {NewBlock(y) : y \in P}
<1>1. Types /\ Trees /\ Unconnected
  BY DEF SyncInv
<1>2. /\ known' = [known EXCEPT ![n] = @ \cup {b} \cup P]
      /\ orphans' = [orphans EXCEPT ![n] = @ \ P]
      /\ spawned' = [Broadcast(n, x, A) EXCEPT ![n][x] =
                        IF x \in peers[n] THEN @ \cup B ELSE @]
  BY DEF insertBlockLocked
<1>3. P \subseteq orphans[n] /\ Rooted(known[n] \cup {b} \cup P) /\ (b \in orphans[n] => b \in P)
  BY <1>1, PromotedSound
<1>4. known'[n] = known[n] \cup {b} \cup P /\ \A a \in Node \ {n} : known'[a] = known[a]
  BY <1>1, <1>2 DEF Types
<1>5. orphans'[n] = orphans[n] \ P /\ \A a \in Node \ {n} : orphans'[a] = orphans[a]
  BY <1>1, <1>2 DEF Types
<1>6. known' \in [Node -> SUBSET Hash] /\ orphans' \in [Node -> SUBSET Hash]
  BY <1>1, <1>2, <1>3 DEF Types, Rooted
<1> HIDE DEF P
<1>7. Trees'
  <2>1. ASSUME NEW a \in Node
        PROVE  /\ Rooted(known'[a]) /\ orphans'[a] \cap known'[a] = {}
               /\ Cardinality(orphans'[a]) <= MaxOrphans
    <3>1. CASE a = n
      <4>1. orphans[n] \in SUBSET Hash /\ Cardinality(orphans[n]) <= MaxOrphans
            /\ orphans[n] \cap known[n] = {}
        BY <1>1 DEF Types, Trees
      <4>2. Cardinality(orphans[n] \ P) <= MaxOrphans
        BY <4>1, BufferShrinks
      <4> QED
        BY <1>3, <1>4, <1>5, <3>1, <4>1, <4>2
    <3>2. CASE a # n
      BY <1>1, <1>4, <1>5, <3>2 DEF Trees
    <3> QED
      BY <3>1, <3>2
  <2> QED
    BY <2>1 DEF Trees, Rooted
<1>8. Grown
  BY <1>4, <1>6, <1>7 DEF Grown
<1>9. b \in known'[n]
  BY <1>4
<1>10. /\ \A a, c \in Node : /\ spawned[a][c] \subseteq Sendable(known'[a], known'[c])
                             /\ Sendable(known'[a], known'[c]) \subseteq Message
       /\ \A a \in Node : \A c \in peers[a] : Connected(a, c)
  BY <1>8, StaysSound
<1>11. \A c \in Node : A \subseteq Sendable(known'[n], known'[c])
                       /\ B \subseteq Sendable(known'[n], known'[c])
  <2>1. P \cup announced \subseteq known'[n]
    BY <1>4
  <2> QED
    BY <2>1 DEF Sendable
<1> HIDE DEF A, B
<1>12. /\ spawned' \in [Node -> [Node -> SUBSET Message]]
       /\ \A a, c \in Node : \/ spawned'[a][c] = spawned[a][c]
                             \/ /\ spawned'[a][c] \subseteq spawned[a][c] \cup A \cup B
                                /\ a = n /\ c \in peers[n]
  <2> DEFINE s == Broadcast(n, x, A)
             t == IF x \in peers[n] THEN s[n][x] \cup B ELSE s[n][x]
  <2>1. spawned \in [Node -> [Node -> SUBSET Message]] /\ A \subseteq Message /\ B \subseteq Message
        /\ peers[n] \subseteq Node
    BY <1>1, <1>10, <1>11 DEF Types
  <2>2. /\ s \in [Node -> [Node -> SUBSET Message]]
        /\ \A a, c \in Node : s[a][c] = IF a = n /\ c \in peers[n] \ {x} THEN spawned[a][c] \cup A
                                        ELSE spawned[a][c]
    BY <2>1 DEF Broadcast
  <2>3. spawned' = [s EXCEPT ![n] = [s[n] EXCEPT ![x] = t]]
    BY <1>2, <2>2
  <2> HIDE DEF s
  <2>4. t \in SUBSET Message
    BY <2>1, <2>2
  <2>5. t \subseteq spawned[n][x] \cup A \cup B /\ (x \notin peers[n] => t = spawned[n][x])
    BY <2>2
  <2> HIDE DEF t
  <2>6. /\ spawned' \in [Node -> [Node -> SUBSET Message]]
        /\ \A a, c \in Node : spawned'[a][c] = IF a = n /\ c = x THEN t ELSE s[a][c]
    BY <2>2, <2>3, <2>4
  <2>7. ASSUME NEW a \in Node, NEW c \in Node
        PROVE  \/ spawned'[a][c] = spawned[a][c]
               \/ /\ spawned'[a][c] \subseteq spawned[a][c] \cup A \cup B
                  /\ a = n /\ c \in peers[n]
    <3>1. CASE a = n /\ c = x
      <4>1. spawned'[a][c] = t
        BY <2>6, <3>1
      <4> QED
        BY <2>5, <3>1, <4>1
    <3>2. CASE ~(a = n /\ c = x)
      <4>1. spawned'[a][c] = s[a][c]
        BY <2>6, <3>2
      <4> QED
        BY <2>2, <4>1
    <3> QED
      BY <3>1, <3>2
  <2> QED
    BY <2>6, <2>7
<1>13. SpawnedSound
  BY <1>1, <1>10, <1>11, <1>12, SMTT(40) DEF SpawnedSound, Unconnected
<1> QED
  BY <1>8, <1>9, <1>13

\* A node whose tree does not change.
LEMMA SameTree ==
    ASSUME SyncInv, known' = known, orphans' = orphans
    PROVE  Grown
BY DEF SyncInv, Types, Trees, Grown

\* A locator of n's tree can be sent to anyone.
LEMMA LocatorSendable ==
    ASSUME SyncInv, Grown, NEW n \in Node, NEW p \in Node, NEW e \in known[n]
    PROVE  <<GetBlocks(locatorLocked(e))>> \in Seq(Sendable(known'[n], known'[p]))
<1>1. locatorLocked(e) \subseteq known[n]
  BY TipWithin DEF SyncInv, Trees
<1>2. locatorLocked(e) \in SUBSET known'[n]
  BY <1>1 DEF Grown
<1>3. GetBlocks(locatorLocked(e)) \in Sendable(known'[n], known'[p])
  BY <1>2 DEF Sendable
<1> HIDE DEF GetBlocks, Sendable
<1> QED
  BY <1>3

\* acceptRemoteBlock in its three outcomes.
LEMMA AcceptSound ==
    ASSUME SyncInv, NEW n \in Node, NEW p \in Node, n # p, NEW b \in Hash,
           NEW announced \in SUBSET {b}, NEW read \in {0, 1},
           read = 1 => wire[p][n] # << >>,
           acceptRemoteBlock(n, p, b, announced, read)
    PROVE  /\ Grown /\ WireSound /\ SpawnedSound
           /\ Prev(b) \in known[n] => b \in known'[n]
<1>1. Types /\ Trees /\ Tip(n) \in known[n]
  BY TipWithin DEF SyncInv, Trees
<1> DEFINE F == Sendable(known'[n], known'[p])
           none == << >>
           ask == <<GetBlocks(locatorLocked(Tip(n)))>>
<1>2. none \in Seq(F)
  OBVIOUS
<1>3. CASE b \in known[n] /\ Answer(n, p, read, << >>) /\ UNCHANGED <<known, orphans, spawned>>
  <2>1. Grown
    BY <1>3, SameTree
  <2>2. WireSound
    BY <1>2, <1>3, <2>1, AnswerSound
  <2> QED
    BY <1>3, <2>1, <2>2, StaysSound
<1>4. CASE /\ b \notin known[n] /\ Prev(b) \notin known[n]
           /\ addOrphanLocked(n, b)
           /\ Answer(n, p, read, <<GetBlocks(locatorLocked(Tip(n)))>>)
           /\ UNCHANGED <<known, spawned>>
  <2>1. orphans' \in [Node -> SUBSET Hash]
        /\ orphans'[n] = (IF Cardinality(orphans[n]) >= MaxOrphans THEN orphans[n] ELSE orphans[n] \cup {b})
        /\ \A a \in Node \ {n} : orphans'[a] = orphans[a]
    BY <1>1, <1>4 DEF addOrphanLocked, Types
  <2>2. Cardinality(orphans'[n]) <= MaxOrphans /\ orphans'[n] \cap known[n] = {}
    <3>1. orphans[n] \in SUBSET Hash /\ orphans[n] \cap known[n] = {}
          /\ Cardinality(orphans[n]) <= MaxOrphans
      BY <1>1 DEF Types, Trees
    <3>2. IsFiniteSet(orphans[n]) /\ MaxOrphans \in Nat
      BY <3>1, SyncAssumption, FS_Subset
    <3>3. /\ Cardinality(orphans[n]) \in Nat
          /\ Cardinality(orphans[n] \cup {b}) \in {Cardinality(orphans[n]), Cardinality(orphans[n]) + 1}
      <4>1. b \in orphans[n] => orphans[n] \cup {b} = orphans[n]
        OBVIOUS
      <4> QED
        BY <3>2, <4>1, FS_AddElement, FS_CardinalityType
    <3> QED
      BY <1>4, <2>1, <3>1, <3>2, <3>3
  <2>3. Trees'
    BY <1>1, <1>4, <2>1, <2>2 DEF Trees
  <2>4. Grown
    BY <1>1, <1>4, <2>1, <2>3 DEF Grown, Types
  <2>5. ask \in Seq(F)
    BY <1>1, <2>4, LocatorSendable
  <2>6. Answer(n, p, read, ask)
    BY <1>4
  <2> HIDE DEF ask
  <2>7. WireSound
    BY <2>4, <2>5, <2>6, AnswerSound
  <2> QED
    BY <1>4, <2>4, <2>7, StaysSound
<1>5. CASE IsNew(n, b) /\ insertBlockLocked(n, b, announced, p) /\ Answer(n, p, read, << >>)
  <2>1. Grown /\ SpawnedSound /\ b \in known'[n]
    BY <1>5, InsertSound
  <2>2. WireSound
    BY <1>2, <1>5, <2>1, AnswerSound
  <2> QED
    BY <2>1, <2>2
<1> QED
  BY <1>3, <1>4, <1>5 DEF acceptRemoteBlock

-----------------------------------------------------------------------------
(***************************************************************************)
(* One lemma per action.                                                   *)
(***************************************************************************)
LEMMA InitInv == Init => SyncInv
<1> SUFFICES ASSUME Init PROVE SyncInv
  OBVIOUS
<1>1. Types
  BY Table DEF Init, Types
<1>2. Trees
  <2>1. Rooted({Genesis})
    BY Table DEF Rooted, ParentClosed
  <2>2. Cardinality({}) = 0 /\ MaxOrphans \in Nat
    BY FS_EmptySet, SyncAssumption
  <2> QED
    BY <2>1, <2>2 DEF Init, Trees
<1>3. Unconnected /\ Sent /\ Batches
  BY DEF Init, Unconnected, Sent, Batches, BatchFits
<1> QED
  BY <1>1, <1>2, <1>3 DEF SyncInv

\* Who reads a message is connected.
LEMMA ReadingFacts ==
    ASSUME SyncInv, NEW n \in Node, NEW p \in Node, NEW type, Reading(n, p, type)
    PROVE  /\ n # p /\ Connected(n, p) /\ wire[p][n] # << >>
           /\ Head(wire[p][n]) \in Sendable(known[p], known[n])
           /\ Head(wire[p][n]).type = type
<1>1. Types /\ Unconnected /\ Sent
  BY DEF SyncInv
<1>2. wire[p][n] # << >> /\ Head(wire[p][n]).type = type
  BY DEF Reading
<1>3. Connected(p, n)
  BY <1>1, <1>2 DEF Unconnected
<1>4. Connected(n, p) /\ n # p
  BY <1>1, <1>3, ConnectedPairs
<1>5. Head(wire[p][n]) \in Sendable(known[p], known[n])
  <2> DEFINE M == Sendable(known[p], known[n])
  <2>1. wire[p][n] \in Seq(M)
    BY <1>1 DEF Sent
  <2> HIDE DEF M
  <2>2. Head(wire[p][n]) \in M
    BY <1>2, <2>1
  <2> QED
    BY <2>2 DEF M
<1> QED
  BY <1>2, <1>4, <1>5

LEMMA SubmitInv ==
    ASSUME SyncInv, NEW n \in Node, NEW b \in Hash, SubmitSolution(n, b)
    PROVE  SyncInv'
<1>1. /\ IsNew(n, b) /\ insertBlockLocked(n, b, {b}, n)
      /\ UNCHANGED <<conns, peers, wire, batch, faults>>
  BY DEF SubmitSolution, IsNew
<1>2. Grown /\ SpawnedSound
  BY <1>1, InsertSound
<1>3. WireSound /\ BatchSound /\ \A a \in Node : \A c \in peers'[a] : Connected(a, c)
  BY <1>1, <1>2, StaysSound
<1>4. peers' \in [Node -> SUBSET Node] /\ conns' = conns
  BY <1>1 DEF SyncInv, Types
<1> QED
  BY <1>2, <1>3, <1>4, SoundStep

LEMMA PeerConnectInv ==
    ASSUME SyncInv, NEW n \in Node, NEW p \in Node, onPeerConnect(n, p)
    PROVE  SyncInv'
<1> DEFINE ask == <<GetBlocks(locatorLocked(Tip(n)))>>
<1>1. /\ Reading(n, p, "version") /\ peers' = [peers EXCEPT ![n] = @ \cup {p}]
      /\ Answer(n, p, 1, ask) /\ UNCHANGED <<known, orphans, conns, spawned, batch, faults>>
  BY DEF onPeerConnect
<1>2. n # p /\ Connected(n, p) /\ wire[p][n] # << >>
  BY <1>1, ReadingFacts
<1>3. Grown
  BY <1>1, SameTree
<1>4. Tip(n) \in known[n]
  BY TipWithin DEF SyncInv, Trees
<1>5. ask \in Seq(Sendable(known'[n], known'[p]))
  BY <1>3, <1>4, LocatorSendable
<1> HIDE DEF ask
<1>6. WireSound
  BY <1>1, <1>2, <1>3, <1>5, AnswerSound
<1>7. SpawnedSound /\ BatchSound /\ \A a \in Node : \A c \in peers[a] : Connected(a, c)
  BY <1>1, <1>3, StaysSound
<1>8. peers \in [Node -> SUBSET Node]
  BY DEF SyncInv, Types
<1>9. peers' \in [Node -> SUBSET Node] /\ \A a \in Node : \A c \in peers'[a] : Connected(a, c)
  BY <1>1, <1>2, <1>7, <1>8
<1> QED
  BY <1>1, <1>3, <1>6, <1>7, <1>9, SoundStep

LEMMA GetBlocksInv ==
    ASSUME SyncInv, NEW n \in Node, NEW p \in Node, onGetBlocks(n, p)
    PROVE  SyncInv'
<1> DEFINE out == blocksAfterLocatorLocked(n, Head(wire[p][n]).locator)
           msgs == IF out = << >> THEN << >> ELSE <<Blocks(out)>>
<1>1. /\ Reading(n, p, "getblocks") /\ Answer(n, p, 1, msgs)
      /\ UNCHANGED <<known, orphans, conns, peers, spawned, batch, faults>>
  BY DEF onGetBlocks
<1>2. n # p /\ wire[p][n] # << >> /\ Head(wire[p][n]).locator \in SUBSET known[p]
  BY <1>1, ReadingFacts, MessageKinds
<1>3. Grown
  BY <1>1, SameTree
<1>4. Rooted(known[n]) /\ Rooted(known[p])
  BY DEF SyncInv, Trees
<1>5. out # << >> => out \in Seq(known[n]) /\ Chained(out, known[p])
  BY <1>2, <1>4, ReplyConnects DEF Rooted
<1>6. msgs \in Seq(Sendable(known'[n], known'[p]))
  <2> DEFINE M == Sendable(known'[n], known'[p])
  <2>1. out # << >> => Blocks(out) \in M
    BY <1>1, <1>5 DEF Sendable
  <2> HIDE DEF M, out, Blocks
  <2>2. msgs \in Seq(M)
    BY <2>1
  <2> QED
    BY <2>2 DEF M
<1> HIDE DEF msgs
<1>7. WireSound
  BY <1>1, <1>2, <1>3, <1>6, AnswerSound
<1>8. SpawnedSound /\ BatchSound /\ \A a \in Node : \A c \in peers[a] : Connected(a, c)
  BY <1>1, <1>3, StaysSound
<1>9. peers' \in [Node -> SUBSET Node]
  BY <1>1 DEF SyncInv, Types
<1> QED
  BY <1>1, <1>3, <1>7, <1>8, <1>9, SoundStep

LEMMA NewBlockInv ==
    ASSUME SyncInv, NEW n \in Node, NEW p \in Node, onNewBlock(n, p)
    PROVE  SyncInv'
<1> DEFINE b == Head(wire[p][n]).block
<1>1. /\ Reading(n, p, "newblock") /\ acceptRemoteBlock(n, p, b, {b}, 1)
      /\ UNCHANGED <<conns, peers, batch, faults>>
  BY DEF onNewBlock
<1>2. n # p /\ wire[p][n] # << >> /\ b \in known[p]
  BY <1>1, ReadingFacts, MessageKinds
<1>3. b \in Hash /\ peers \in [Node -> SUBSET Node]
  BY <1>2 DEF SyncInv, Types
<1> HIDE DEF b
<1>4. Grown /\ WireSound /\ SpawnedSound
  BY <1>1, <1>2, <1>3, AcceptSound
<1>5. BatchSound /\ \A a \in Node : \A c \in peers[a] : Connected(a, c)
  BY <1>1, <1>4, StaysSound
<1> QED
  BY <1>1, <1>3, <1>4, <1>5, SoundStep

\* The read loop of n for p replaces the reply it works on by r.
LEMMA BatchReplaced ==
    ASSUME SyncInv, Grown, NEW n \in Node, NEW p \in Node, n # p,
           NEW r \in [todo : Seq(Hash), deepest : Hash \cup {Nil}] \cup {Nil},
           r # Nil /\ r.todo # << >> => Chained(r.todo, known'[n]),
           r # Nil /\ r.deepest # Nil => r.deepest \in known'[n],
           batch' = [batch EXCEPT ![n][p] = r]
    PROVE  BatchSound
<1> DEFINE R == [todo : Seq(Hash), deepest : Hash \cup {Nil}] \cup {Nil}
<1>1. batch \in [Node -> [Node -> R]]
  BY DEF SyncInv, Types
<1>2. r \in R
  OBVIOUS
<1> HIDE DEF R
<1>3. /\ batch' \in [Node -> [Node -> R]]
      /\ \A a, b \in Node : batch'[a][b] = IF a = n /\ b = p THEN r ELSE batch[a][b]
  BY <1>1, <1>2
<1>4. ASSUME NEW a \in Node, NEW b \in Node PROVE BatchFits(a, batch[a][b])'
  <2>1. CASE a = n /\ b = p
    <3>1. batch'[a][b] = r
      BY <1>3, <2>1
    <3> QED
      BY <2>1, <3>1 DEF BatchFits
  <2>2. CASE ~(a = n /\ b = p)
    <3>1. batch'[a][b] = batch[a][b] /\ BatchFits(a, batch[a][b]) /\ known[a] \subseteq known'[a]
      BY <1>3, <2>2 DEF SyncInv, Batches, Grown
    <3> QED
      BY <3>1 DEF BatchFits, Chained
  <2> QED
    BY <2>1, <2>2
<1>5. \A a \in Node : batch'[a][a] = Nil
  BY <1>3 DEF SyncInv, Unconnected
<1> QED
  BY <1>3, <1>4, <1>5 DEF BatchSound, R

LEMMA BlocksInv ==
    ASSUME SyncInv, NEW n \in Node, NEW p \in Node, onBlocks(n, p)
    PROVE  SyncInv'
<1> DEFINE list == Head(wire[p][n]).blocks
           r == [todo |-> list, deepest |-> Nil]
           none == << >>
<1>1. /\ Reading(n, p, "blocks") /\ Answer(n, p, 1, none)
      /\ batch' = [batch EXCEPT ![n][p] = r]
      /\ UNCHANGED <<known, orphans, conns, peers, spawned, faults>>
  BY DEF onBlocks
<1>2. n # p /\ wire[p][n] # << >> /\ list \in Seq(known[p]) /\ Chained(list, known[n])
  BY <1>1, ReadingFacts, MessageKinds
<1>3. Grown
  BY <1>1, SameTree
<1>4. none \in Seq(Sendable(known'[n], known'[p]))
  OBVIOUS
<1>5. WireSound
  BY <1>1, <1>2, <1>3, <1>4, AnswerSound
<1>6. list \in Seq(Hash)
  <2>1. known[p] \subseteq Hash
    BY DEF SyncInv, Types
  <2> QED
    BY <1>2, <2>1
<1> HIDE DEF list
<1>7. r \in [todo : Seq(Hash), deepest : Hash \cup {Nil}] /\ r.todo = list /\ r.deepest = Nil
  BY <1>6
<1> HIDE DEF r
<1>8. Chained(r.todo, known'[n])
  BY <1>1, <1>2, <1>7
<1>9. BatchSound
  BY <1>1, <1>2, <1>3, <1>7, <1>8, BatchReplaced
<1>10. SpawnedSound /\ \A a \in Node : \A c \in peers[a] : Connected(a, c)
  BY <1>1, <1>3, StaysSound
<1>11. peers' \in [Node -> SUBSET Node]
  BY <1>1 DEF SyncInv, Types
<1> QED
  BY <1>1, <1>3, <1>5, <1>9, <1>10, <1>11, SoundStep

\* The reply that n reads.
LEMMA BatchFacts ==
    ASSUME SyncInv, NEW n \in Node, NEW p \in Node, batch[n][p] # Nil
    PROVE  /\ n # p
           /\ batch[n][p].todo \in Seq(Hash) /\ batch[n][p].deepest \in Hash \cup {Nil}
           /\ batch[n][p].todo # << >> => Chained(batch[n][p].todo, known[n])
           /\ batch[n][p].deepest # Nil => batch[n][p].deepest \in known[n]
<1>1. n # p
  BY DEF SyncInv, Unconnected
<1>2. batch[n][p] \in [todo : Seq(Hash), deepest : Hash \cup {Nil}]
  BY DEF SyncInv, Types
<1>3. BatchFits(n, batch[n][p])
  BY DEF SyncInv, Batches
<1> QED
  BY <1>1, <1>2, <1>3 DEF BatchFits

\* The rest of a chain continues a tree that has its first block.
LEMMA ChainedRest ==
    ASSUME NEW l \in Seq(Hash), l # << >>, NEW S, Chained(l, S),
           NEW T, Head(l) \in T, Tail(l) # << >>
    PROVE  Chained(Tail(l), T)
<1>1. Len(l) \in Nat /\ Head(l) = l[1] /\ Tail(l) \in Seq(Hash)
      /\ Len(Tail(l)) = Len(l) - 1
  OBVIOUS
<1>2. Len(l) >= 2
  BY <1>1
<1>3. \A i \in 1 .. Len(l) - 1 : Tail(l)[i] = l[i + 1]
  BY <1>1
<1>4. Tail(l)[1] = l[2] /\ Prev(l[2]) = l[1]
  <2>1. 2 \in 2 .. Len(l) /\ 1 \in 1 .. Len(l) - 1
    BY <1>1, <1>2
  <2> QED
    BY <1>3, <2>1 DEF Chained
<1>5. ASSUME NEW i \in 2 .. Len(Tail(l)) PROVE Prev(Tail(l)[i]) = Tail(l)[i - 1]
  <2>1. /\ i \in 1 .. Len(l) - 1 /\ i - 1 \in 1 .. Len(l) - 1
        /\ i + 1 \in 2 .. Len(l) /\ (i - 1) + 1 = i /\ (i + 1) - 1 = i
    BY <1>1
  <2>2. Tail(l)[i] = l[i + 1] /\ Tail(l)[i - 1] = l[i]
    BY <1>3, <2>1
  <2>3. Prev(l[i + 1]) = l[i]
    BY <2>1 DEF Chained
  <2> QED
    BY <2>2, <2>3
<1> QED
  BY <1>1, <1>4, <1>5 DEF Chained

LEMMA BlocksNextInv ==
    ASSUME SyncInv, NEW n \in Node, NEW p \in Node, onBlocksNext(n, p)
    PROVE  SyncInv'
<1> DEFINE todo == batch[n][p].todo
           b == Head(todo)
           deepest == IF IsNew(n, b) THEN b ELSE batch[n][p].deepest
           r == [todo |-> Tail(todo), deepest |-> deepest]
<1>1. /\ batch[n][p] # Nil /\ todo # << >> /\ acceptRemoteBlock(n, p, b, {}, 0)
      /\ batch' = [batch EXCEPT ![n][p] =
            [todo |-> Tail(@.todo), deepest |-> IF IsNew(n, b) THEN b ELSE @.deepest]]
      /\ UNCHANGED <<conns, peers, faults>>
  BY DEF onBlocksNext
<1>2. batch' = [batch EXCEPT ![n][p] = r]
  BY <1>1 DEF SyncInv, Types
<1>3. /\ n # p /\ todo \in Seq(Hash) /\ Chained(todo, known[n])
      /\ batch[n][p].deepest \in Hash \cup {Nil}
      /\ batch[n][p].deepest # Nil => batch[n][p].deepest \in known[n]
  BY <1>1, BatchFacts
<1> HIDE DEF todo
<1>4. b \in Hash /\ b = todo[1] /\ Tail(todo) \in Seq(Hash)
  BY <1>1, <1>3
<1>5. Prev(b) \in known[n]
  BY <1>3, <1>4 DEF Chained
<1> HIDE DEF b
<1>6. Grown /\ WireSound /\ SpawnedSound /\ b \in known'[n]
  BY <1>1, <1>3, <1>4, <1>5, AcceptSound
<1>7. deepest \in Hash \cup {Nil} /\ (deepest # Nil => deepest \in known'[n])
  BY <1>3, <1>4, <1>6 DEF Grown
<1> HIDE DEF deepest
<1>8. /\ r \in [todo : Seq(Hash), deepest : Hash \cup {Nil}]
      /\ r.todo = Tail(todo) /\ r.deepest = deepest
  BY <1>4, <1>7
<1> HIDE DEF r
<1>9. r.todo # << >> => Chained(r.todo, known'[n])
  <2>1. Tail(todo) # << >> => Chained(Tail(todo), known'[n])
    BY <1>1, <1>3, <1>6, ChainedRest DEF b
  <2> QED
    BY <1>8, <2>1
<1>10. BatchSound
  BY <1>2, <1>3, <1>6, <1>7, <1>8, <1>9, BatchReplaced
<1>11. \A a \in Node : \A c \in peers[a] : Connected(a, c)
  BY <1>6, StaysSound
<1>12. peers' \in [Node -> SUBSET Node]
  BY <1>1 DEF SyncInv, Types
<1> QED
  BY <1>1, <1>6, <1>10, <1>11, <1>12, SoundStep

LEMMA BlocksDoneInv ==
    ASSUME SyncInv, NEW n \in Node, NEW p \in Node, onBlocksDone(n, p)
    PROVE  SyncInv'
<1> DEFINE deepest == batch[n][p].deepest
           ask == <<GetBlocks(locatorLocked(deepest))>>
           msgs == IF deepest = Nil THEN << >> ELSE ask
<1>1. /\ batch[n][p] # Nil /\ batch' = [batch EXCEPT ![n][p] = Nil] /\ Answer(n, p, 0, msgs)
      /\ UNCHANGED <<known, orphans, conns, peers, spawned, faults>>
  BY DEF onBlocksDone, NextRequest
<1>2. n # p /\ (deepest # Nil => deepest \in known[n])
  BY <1>1, BatchFacts
<1>3. Grown
  BY <1>1, SameTree
<1>4. msgs \in Seq(Sendable(known'[n], known'[p]))
  <2> DEFINE M == Sendable(known'[n], known'[p])
  <2>1. deepest # Nil => ask \in Seq(M)
    BY <1>2, <1>3, LocatorSendable
  <2> HIDE DEF M, ask
  <2>2. msgs \in Seq(M)
    BY <2>1
  <2> QED
    BY <2>2 DEF M
<1> HIDE DEF msgs
<1>5. WireSound
  BY <1>1, <1>2, <1>3, <1>4, AnswerSound
<1>6. BatchSound
  BY <1>1, <1>2, <1>3, BatchReplaced
<1>7. SpawnedSound /\ \A a \in Node : \A c \in peers[a] : Connected(a, c)
  BY <1>1, <1>3, StaysSound
<1>8. peers' \in [Node -> SUBSET Node]
  BY <1>1 DEF SyncInv, Types
<1> QED
  BY <1>1, <1>3, <1>5, <1>6, <1>7, <1>8, SoundStep

LEMMA WriteSpawnedInv ==
    ASSUME SyncInv, NEW n \in Node, NEW p \in Node, WriteSpawned(n, p)
    PROVE  SyncInv'
<1>1. PICK m \in spawned[n][p] :
        /\ spawned' = [spawned EXCEPT ![n][p] = @ \ {m}] /\ Answer(n, p, 0, <<m>>)
        /\ UNCHANGED <<known, orphans, conns, peers, batch, faults>>
  BY DEF WriteSpawned
<1>2. Types /\ Unconnected
  BY DEF SyncInv
<1>3. n # p
  BY <1>1, <1>2, ConnectedPairs DEF Unconnected
<1>4. Grown
  BY <1>1, SameTree
<1>5. m \in Sendable(known'[n], known'[p])
  BY <1>1, <1>4, StaysSound
<1> DEFINE w == <<m>>
<1>6. w \in Seq(Sendable(known'[n], known'[p])) /\ Answer(n, p, 0, w)
  BY <1>1, <1>5
<1> HIDE DEF w
<1>7. WireSound
  BY <1>3, <1>4, <1>6, AnswerSound
<1>8. /\ spawned' \in [Node -> [Node -> SUBSET Message]]
      /\ \A a, b \in Node : spawned'[a][b] \subseteq spawned[a][b]
  BY <1>1, <1>2 DEF Types
<1>9. SpawnedSound
  <2>1. \A a, b \in Node : spawned[a][b] \subseteq Sendable(known'[a], known'[b])
    BY <1>4, StaysSound
  <2>2. \A a, b \in Node : ~Connected(a, b) => spawned'[a][b] = {}
    BY <1>2, <1>8 DEF Unconnected
  <2> QED
    BY <1>8, <2>1, <2>2 DEF SpawnedSound
<1>10. BatchSound /\ \A a \in Node : \A c \in peers[a] : Connected(a, c)
  BY <1>1, <1>4, StaysSound
<1>11. peers' \in [Node -> SUBSET Node]
  BY <1>1, <1>2 DEF Types
<1> QED
  BY <1>1, <1>4, <1>7, <1>9, <1>10, <1>11, SoundStep

LEMMA SyncLoopInv ==
    ASSUME SyncInv, NEW n \in Node, syncLoop(n)
    PROVE  SyncInv'
<1> DEFINE m == GetBlocks(locatorLocked(Tip(n)))
<1>1. /\ spawned' = Broadcast(n, n, {m})
      /\ UNCHANGED <<known, orphans, conns, peers, wire, batch, faults>>
  BY DEF syncLoop
<1>2. Types /\ Unconnected
  BY DEF SyncInv
<1>3. Grown
  BY <1>1, SameTree
<1>4. /\ WireSound /\ BatchSound /\ \A a \in Node : \A c \in peers[a] : Connected(a, c)
      /\ \A a, b \in Node : /\ spawned[a][b] \subseteq Sendable(known'[a], known'[b])
                            /\ Sendable(known'[a], known'[b]) \subseteq Message
  BY <1>1, <1>3, StaysSound
<1>5. \A p \in Node : m \in Sendable(known'[n], known'[p])
  <2>1. locatorLocked(Tip(n)) \in SUBSET known[n]
    BY TipWithin DEF SyncInv, Trees
  <2> QED
    BY <1>1, <2>1 DEF Sendable
<1> HIDE DEF m
<1>6. m \in Message
  BY <1>4, <1>5
<1>7. /\ spawned' \in [Node -> [Node -> SUBSET Message]]
      /\ \A a, b \in Node : spawned'[a][b] =
            IF a = n /\ b \in peers[n] \ {n} THEN spawned[a][b] \cup {m} ELSE spawned[a][b]
  BY <1>1, <1>2, <1>6 DEF Broadcast, Types
<1>8. SpawnedSound
  <2>1. ASSUME NEW a \in Node, NEW b \in Node
        PROVE  /\ spawned'[a][b] \subseteq Sendable(known'[a], known'[b])
               /\ ~Connected(a, b) => spawned'[a][b] = {}
    <3> DEFINE F == Sendable(known'[a], known'[b])
    <3>1. spawned[a][b] \subseteq F /\ (a = n => m \in F)
      BY <1>4, <1>5
    <3>2. /\ ~Connected(a, b) => spawned[a][b] = {}
          /\ b \in peers[a] => Connected(a, b)
      BY <1>2, <1>4 DEF Unconnected
    <3> HIDE DEF F
    <3>3. spawned'[a][b] \subseteq F /\ (~Connected(a, b) => spawned'[a][b] = {})
      <4>1. CASE a = n /\ b \in peers[n] \ {n}
        <5>1. spawned'[a][b] = spawned[a][b] \cup {m}
          BY <1>7, <4>1
        <5> QED
          BY <3>1, <3>2, <4>1, <5>1
      <4>2. CASE ~(a = n /\ b \in peers[n] \ {n})
        <5>1. spawned'[a][b] = spawned[a][b]
          BY <1>7, <4>2
        <5> QED
          BY <3>1, <3>2, <5>1
      <4> QED
        BY <4>1, <4>2
    <3> QED
      BY <3>3 DEF F
  <2> QED
    BY <1>7, <2>1 DEF SpawnedSound
<1>9. peers' \in [Node -> SUBSET Node]
  BY <1>1, <1>2 DEF Types
<1> QED
  BY <1>1, <1>3, <1>4, <1>8, <1>9, SoundStep

LEMMA ConnectInv ==
    ASSUME SyncInv, NEW l \in Links, Connect(l)
    PROVE  SyncInv'
<1>1. /\ conns' = conns \cup {l} /\ UNCHANGED <<known, orphans, peers, spawned, batch, faults>>
      /\ wire' = [n \in Node |-> [p \in Node |->
                    IF l = {n, p} THEN <<Version>> ELSE wire[n][p]]]
  BY DEF Connect
<1>2. Types /\ Trees /\ Unconnected /\ Sent /\ Batches
  BY DEF SyncInv
<1> DEFINE v == <<Version>>
<1>3. \A S, R : v \in Seq(Sendable(S, R))
  BY DEF Sendable
<1>4. v \in Seq(Message)
  BY <1>3 DEF Message
<1>5. wire' = [n \in Node |-> [p \in Node |-> IF l = {n, p} THEN v ELSE wire[n][p]]]
  BY <1>1
<1> HIDE DEF v
<1>6. wire' \in [Node -> [Node -> Seq(Message)]]
  BY <1>2, <1>4, <1>5 DEF Types
<1>7. Types'
  BY <1>1, <1>2, <1>6 DEF Types
<1>8. Unconnected'
  <2>1. \A n, p \in Node : Connected(n, p)' <=> Connected(n, p) \/ l = {n, p}
    BY <1>1 DEF Connected
  <2>2. \A n, p \in Node : l # {n, p} => wire'[n][p] = wire[n][p]
    BY <1>5
  <2> QED
    BY <1>1, <1>2, <2>1, <2>2 DEF Unconnected
<1>9. Sent'
  <2>1. \A n, p \in Node : wire'[n][p] \in Seq(Sendable(known[n], known[p]))
    BY <1>2, <1>3, <1>5 DEF Sent
  <2> QED
    BY <1>1, <1>2, <2>1 DEF Sent
<1>10. Trees' /\ Batches'
  BY <1>1, <1>2 DEF Trees, Batches, BatchFits
<1> QED
  BY <1>7, <1>8, <1>9, <1>10 DEF SyncInv

\* Lose, with what Disconnect and Restart do besides.
LEMMA LoseInv ==
    ASSUME SyncInv, NEW L, Lose(L), known' = known, Trees',
           orphans' \in [Node -> SUBSET Hash], BatchSound
    PROVE  SyncInv'
<1>1. Types /\ Unconnected /\ Sent
  BY DEF SyncInv
<1>2. /\ conns' = conns \ L
      /\ peers' = [n \in Node |-> {p \in peers[n] : {n, p} \notin L}]
      /\ wire' = [n \in Node |-> [p \in Node |-> IF {n, p} \in L THEN << >> ELSE wire[n][p]]]
      /\ spawned' = [n \in Node |-> [p \in Node |-> IF {n, p} \in L THEN {} ELSE spawned[n][p]]]
  BY DEF Lose
<1>3. << >> \in Seq(Message) /\ \A S, R : << >> \in Seq(Sendable(S, R))
  OBVIOUS
<1>4. wire' \in [Node -> [Node -> Seq(Message)]]
  BY <1>1, <1>2, <1>3 DEF Types
<1>5. spawned' \in [Node -> [Node -> SUBSET Message]] /\ peers' \in [Node -> SUBSET Node]
  BY <1>1, <1>2 DEF Types
<1>6. Types'
  BY <1>1, <1>2, <1>4, <1>5 DEF Types, BatchSound
<1>7. Unconnected'
  BY <1>1, <1>2 DEF Unconnected, Connected, BatchSound
<1>8. Sent'
  BY <1>1, <1>2, <1>3 DEF Sent
<1>9. Batches'
  BY DEF Batches, BatchSound
<1> QED
  BY <1>6, <1>7, <1>8, <1>9 DEF SyncInv

LEMMA DisconnectInv ==
    ASSUME SyncInv, NEW l \in Links, Disconnect(l)
    PROVE  SyncInv'
<1>1. Lose({l}) /\ UNCHANGED <<known, orphans, batch>>
  BY DEF Disconnect
<1>2. Grown
  BY <1>1, SameTree
<1>3. BatchSound
  BY <1>1, <1>2, StaysSound
<1> QED
  BY <1>1, <1>2, <1>3, LoseInv DEF Grown

LEMMA RestartInv ==
    ASSUME SyncInv, NEW n \in Node, Restart(n)
    PROVE  SyncInv'
<1>1. /\ Lose({l \in conns : n \in l}) /\ known' = known
      /\ orphans' = [orphans EXCEPT ![n] = {}]
      /\ batch' = [batch EXCEPT ![n] = [p \in Node |-> Nil]]
  BY DEF Restart
<1>2. Types /\ Trees /\ Unconnected /\ Batches
  BY DEF SyncInv
<1>3. orphans' \in [Node -> SUBSET Hash]
      /\ \A a \in Node : orphans'[a] = IF a = n THEN {} ELSE orphans[a]
  BY <1>1, <1>2 DEF Types
<1>4. Trees'
  <2>1. Cardinality({}) = 0 /\ MaxOrphans \in Nat
    BY FS_EmptySet, SyncAssumption
  <2> QED
    BY <1>1, <1>2, <1>3, <2>1 DEF Trees
<1> DEFINE R == [todo : Seq(Hash), deepest : Hash \cup {Nil}] \cup {Nil}
<1>5. batch \in [Node -> [Node -> R]] /\ Nil \in R
  BY <1>2 DEF Types
<1> HIDE DEF R
<1>6. /\ batch' \in [Node -> [Node -> R]]
      /\ \A a, b \in Node : batch'[a][b] = IF a = n THEN Nil ELSE batch[a][b]
  BY <1>1, <1>5
<1>7. BatchSound
  BY <1>1, <1>2, <1>6 DEF BatchSound, BatchFits, Batches, Unconnected, R
<1> QED
  BY <1>1, <1>3, <1>4, <1>7, LoseInv

LEMMA SyncStep == SyncInv /\ [Next]_vars => SyncInv'
<1> SUFFICES ASSUME SyncInv, [Next]_vars PROVE SyncInv'
  OBVIOUS
<1>1. CASE UNCHANGED vars
  BY <1>1 DEF vars, net, SyncInv, Types, Trees, Unconnected, Connected, Sent, Batches, BatchFits
<1>2. ASSUME NEW n \in Node, NEW b \in Hash, SubmitSolution(n, b) PROVE SyncInv'
  BY <1>2, SubmitInv
<1>3. ASSUME NEW n \in Node, NEW p \in Node, ReadLoop(n, p) \/ WriteSpawned(n, p) PROVE SyncInv'
  BY <1>3, PeerConnectInv, GetBlocksInv, NewBlockInv, BlocksInv, BlocksNextInv,
     BlocksDoneInv, WriteSpawnedInv DEF ReadLoop
<1>4. ASSUME NEW n \in Node, syncLoop(n) \/ Restart(n) PROVE SyncInv'
  BY <1>4, SyncLoopInv, RestartInv
<1>5. ASSUME NEW l \in Links, Connect(l) \/ Disconnect(l) PROVE SyncInv'
  BY <1>5, ConnectInv, DisconnectInv
<1> QED
  BY <1>1, <1>2, <1>3, <1>4, <1>5 DEF Next

LEMMA SyncHolds == Spec => []SyncInv
BY InitInv, SyncStep, PTL DEF Spec

\* A message in a FIFO.
LEMMA MessageIn ==
    ASSUME SyncInv, NEW n \in Node, NEW p \in Node, NEW i \in DOMAIN wire[n][p]
    PROVE  wire[n][p][i] \in Sendable(known[n], known[p])
<1>1. wire[n][p] \in Seq(Sendable(known[n], known[p]))
  BY DEF SyncInv, Sent
<1> QED
  BY <1>1

-----------------------------------------------------------------------------
\* Every node's tree stays closed under parents, no block of it is buffered and
\* the buffer keeps its bound; and every locator, reply and announcement under
\* way is about blocks of its sender, for any number of nodes, blocks, lost
\* connections and restarts (insertBlockLocked, addOrphanLocked, locatorLocked,
\* blocksAfterLocatorLocked).
THEOREM SyncTypeCorrect == Spec => []SyncTypeOK
<1>1. SyncInv => SyncTypeOK
  <2> SUFFICES ASSUME SyncInv PROVE SyncTypeOK
    OBVIOUS
  <2>1. ASSUME NEW n \in Node
        PROVE  /\ known[n] \subseteq Hash /\ ParentClosed(known[n])
               /\ orphans[n] \subseteq Hash \ known[n]
               /\ Cardinality(orphans[n]) <= MaxOrphans
               /\ \A p \in peers[n] : Connected(n, p)
    BY DEF SyncInv, Types, Trees, Rooted, Unconnected
  <2>2. ASSUME NEW n \in Node, NEW p \in Node, NEW i \in DOMAIN wire[n][p]
        PROVE  LET m == wire[n][p][i] IN
               /\ m.type = "getblocks" => m.locator \subseteq known[n]
               /\ m.type = "blocks" => Range(m.blocks) \subseteq known[n]
               /\ m.type = "newblock" => m.block \in known[n]
    <3> DEFINE m == wire[n][p][i]
    <3>1. m \in Sendable(known[n], known[p])
      BY MessageIn
    <3> HIDE DEF m
    <3>2. /\ m.type = "getblocks" => m.locator \in SUBSET known[n]
          /\ m.type = "blocks" => m.blocks \in Seq(known[n])
          /\ m.type = "newblock" => m.block \in known[n]
      BY <3>1, MessageKinds
    <3>3. \A S : \A s \in Seq(S) : Range(s) \subseteq S
      BY DEF Range
    <3>4. /\ m.type = "getblocks" => m.locator \subseteq known[n]
          /\ m.type = "blocks" => Range(m.blocks) \subseteq known[n]
          /\ m.type = "newblock" => m.block \in known[n]
      BY <3>2, <3>3
    <3> QED
      BY <3>4 DEF m
  <2> QED
    BY <2>1, <2>2 DEF SyncTypeOK
<1> QED
  BY <1>1, SyncHolds, PTL

\* A reply always connects to something the requester has, whichever branch
\* the responder has moved to since the request, and whatever either of them
\* has received meanwhile: for any number of nodes and branches, any gaps in the
\* locators and any limits of the replies (locatorLocked,
\* blocksAfterLocatorLocked, onBlocks).
THEOREM RepliesAlwaysConnect == Spec => []RepliesConnect
<1>1. SyncInv => RepliesConnect
  <2> SUFFICES ASSUME SyncInv, NEW n \in Node, NEW p \in Node
               PROVE  /\ \A i \in DOMAIN wire[p][n] :
                           wire[p][n][i].type = "blocks" => Continues(n, wire[p][n][i].blocks)
                      /\ batch[n][p] # Nil /\ batch[n][p].todo # << >> =>
                           Continues(n, batch[n][p].todo)
    BY DEF RepliesConnect
  <2>1. \A l : Chained(l, known[n]) => Continues(n, l)
    BY DEF Chained, Continues
  <2>2. ASSUME NEW i \in DOMAIN wire[p][n], wire[p][n][i].type = "blocks"
        PROVE  Continues(n, wire[p][n][i].blocks)
    BY <2>1, <2>2, MessageIn, MessageKinds
  <2>3. batch[n][p] # Nil /\ batch[n][p].todo # << >> => Continues(n, batch[n][p].todo)
    BY <2>1, BatchFacts
  <2> QED
    BY <2>2, <2>3
<1> QED
  BY <1>1, SyncHolds, PTL
=============================================================================
