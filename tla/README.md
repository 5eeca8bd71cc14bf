# bluGOLD: TLA+ models and proofs

bluGOLD is a small proof-of-work coin in Go.  A node keeps a block tree, an
account ledger and a mempool under one mutex, stores blocks in an append-only
file, exchanges blocks and transactions with peers over TCP, and serves a
wallet, an explorer and a miner.  This directory holds TLA+ models of its
concurrent and stateful parts, TLC runs that check them on small instances, and
TLAPS proofs.

## 1. Inventory of the system

| Component | State | Operations | Interacts with |
|---|---|---|---|
| `internal/crypto` | wallet file | derive address, sign, verify | chain, node |
| `internal/chain` | none (pure) | `ValidateBasic`, `ValidatePoW`, `NextDifficulty`, `RewardAt`, `Tx.Verify` | state, node, miner |
| `internal/state` | accounts (balance, nonce) | `ApplyTx`, `ValidateTx`, `ApplyBlock`, `Clone` | node |
| `internal/store` | `blocks.jsonl`, `peers.json` | `AppendBlock`, `LoadBlocks`, `SavePeers`, `LoadPeers` | node |
| `internal/node`, tree | blocks, tip, state, checkpoints, rejected, orphans, chainHeights | `New`, `insertBlockLocked`, `selectTipLocked`, `switchChainLocked`, `Stop` | store, state, p2p |
| `internal/node`, mempool | mempool list, cached pending state, `seenTx` | `AddTx`, `Send`, `BuildCandidate`, drop/revalidate/rebuild on a tip change | tree, wallet, miner, p2p |
| `internal/node`, sync | none of its own | locators, `getblocks`/`blocks`, gossip, `syncLoop` | tree, p2p |
| `internal/node`, relay | none of its own | `getmempool`/`mempool`, `newtx` flood | mempool, p2p |
| `internal/node`, tip subscriptions | one bounded channel per subscriber | `SubscribeTips`, `publishLocked` | tree, miner |
| `internal/wire`, `internal/p2p` | connections, registered peers, known addresses | dial, accept, handshake, read loop, broadcast, address exchange | node |
| `internal/miner` | candidate, worker threads, backend, GPU handle | `Run`, `mineOnce` on CPU or GPU, fallback | node |
| `internal/api`, `cmd/blugold` | none | HTTP views and command line | node |

What is hard to test here, and what has to hold:

* *Tree.*  Blocks arrive in any order; insertion and orphan promotion call each
  other; a branch is found invalid only when it wins; a replay starts from a
  checkpoint and may fail half-way.  State, checkpoints, index and file must
  agree with the active chain after every such history, and the heaviest valid
  branch must win.
* *Boot.*  The process may stop between any two steps; appends may fail.  The
  file must load again and give back a tip.
* *Mempool.*  A cached state is updated in place by several writers; reorgs put
  transactions back; `Send` takes the mutex twice; caps and resets.
* *Sync.*  Replies are computed on a chain that may have changed since the
  request; gossip is written by one goroutine per message and peer; connections
  and processes come and go.  Nodes must end on one chain and fall silent.
* *Relay.*  A transaction reaches a peer by the mempool reply of the handshake
  or by the flood, and may fall between the two; replies and floods are written
  by different goroutines; a write blocks while nobody reads; a restart loses the
  mempool, and the wallet signs a used nonce again.
* *Peers.*  Two nodes dial each other at once; clients behind one router
  advertise the same address; the limit is checked before the handshake; seeds
  are filtered before the node knows its own address; stale registrations meet
  redials; `Stop` meets handshakes.
* *Miner.*  A solution, a new tip and the end of the process race; a bounded
  channel drops notices; the GPU fails in the middle of a round.

`PROJECT.json` lists every component and every hazard with its line.

## 2. Modules

| Module | Models | EXTENDS |
|---|---|---|
| `Ledger` | `state.go`, `tx.go`, `RewardAt` as operators | |
| `Chain` | `ValidateBasic`, `ValidatePoW`, `NextDifficulty` | `Ledger` |
| `BlockTree` | the tree of one node, its file, boot and crash | `Chain` |
| `Node` | `BlockTree` composed with mempool, `Send`, `BuildCandidate` | `BlockTree` |
| `HeaviestChain` | what the tree promises the rest of the program, abstractly | |
| `Sync` | block sync between nodes over lossy connections | |
| `Relay` | pending transactions between nodes: flood and mempool exchange | |
| `Miner` | the mining goroutine, its threads or GPU, its tip subscription | |
| `Switch` | dialling, handshakes, registration, addresses, `Stop`, restarts | |
| `FoldTheorems` | induction over finite sets and counters, sums over finite sets, folds over sequences | |
| `BlockTreeProofs` | state, checkpoints, rejections, fork choice and height index of the tree; `BlockTree` implements `HeaviestChain`; proved | `BlockTree` |
| `LedgerProofs` | money supply, nonces and the loop over a mempool, proved | `BlockTreeProofs`, `FoldTheorems` |
| `NodeProofs` | the block file, the orphan buffer, the mempool, the candidate, reorgs; proved | `Node`, `LedgerProofs` |
| `SyncProofs` | types and replies of `Sync`, proved | `Sync`, `FoldTheorems` |
| `RelayProofs` | nonces in the mempools and completeness of the exchange of `Relay`, proved | `Relay` |
| `SwitchProofs` | the registry and the known addresses of `Switch`, proved | `Switch` |
| `MinerProofs` | invariants of `Miner`, proved | `Miner` |
| `MCBlockTree`, `MCNode`, `MCSync`, `MCRelay`, `MCMiner`, `MCSwitch` | the tables and topologies TLC uses | |

**BlockTree.**  Everything runs under `n.mu`.  The variable `calls` is the stack
of calls the holder of the mutex still has to run: `insertBlockLocked` pushes
the inserts of `promoteOrphansLocked` and then its own `selectTipLocked`.  The
mutex is free when the stack is empty and no replay is under way.  The stack
lets the model follow the mutual recursion without a recursive operator, shows
every intermediate state to the invariants, and lets a crash fall between any
two steps.  One action stands for each way through `insertBlockLocked`
(`InsertKnown`, `InsertRefused`, `InsertGenesis`, `InsertOrphan`, `InsertBlock`,
`BootFails`) and through `selectTipLocked`/`switchChainLocked` (`KeepTip`,
`ExtendTip`, `RejectExtension`, `StartReplay`, `ReplayBlock`, `ReplayFails`,
`CommitChain`).  `AppendBlock` may lose or cut a line when `StoreFaults` says so.

The blocks that may arrive are a constant table; `Replay`, the state after each
block by a full replay from genesis, is a constant constrained by an assumption,
which TLC evaluates on the tables of the MC modules.  No action refers to it.

**Node.**  The mempool's reaction is conjoined to the two actions that install
a tip: `dropConfirmedLocked` to `ExtendTip`, `rebuildMempoolLocked` to
`CommitChain`.  `AddTx` has four outcomes.  `Send` is two actions, `SendSign`
and `SendAdd`, because it releases the mutex between them.  `BuildCandidate` is
an operator, since it changes nothing.

**Sync.**  Each node is its set of blocks; that its tip is the best of them and
its index the path to the tip is what `TipIsBest` and `ChainHeightsIndex` of
`BlockTree` establish.  A connection has a FIFO in each direction; `onBlocks`
takes the mutex once per block, so it is three actions; `Broadcast` leaves
messages in `spawned`, from where they reach the FIFO in any order.  A reply
(`ChainFrom`) walks the index `chainHeights` from the height after the first
common locator entry, as `onGetBlocks` does.

**HeaviestChain.**  A node holds blocks and is on one of them, or on none; it
learns a block with the work of its chain, drops blocks whose chain does not
apply, forgets everything when the process ends, and otherwise moves in one
step to a valid block that is the best it holds, its ledger being the replay of
that chain.  `BlockTree` refines it (`Promise`, with `held <- blocks` and
`ledger <- state`): orphans, checkpoints, the half-done replay and the call
stack are hidden steps.

**Relay.**  One read loop per end of a connection, which takes the node's mutex
anew for every transaction and writes its replies after releasing it
(`onGetMempool`, then `SendMempool`); one goroutine per broadcast and peer
(`spawned`).  `Stuck` is a pair of read loops that both wait in a write the
buffers cannot take; `SocketRoom` says how much they take.  `Send` takes the next
nonce of the local mempool, which a restart empties, so two transactions of one
wallet may carry the same nonce and a node refuses the one that comes second.  A
reply (`Snapshot`) carries the oldest transactions up to `MempoolReplyBudget`.
The properties of the exchange speak of these, and of a node that *holds* a
transaction when it has it or the one signed in its place (`Holds`).  Blocks,
funds and the mempool's cap are left to `Node`.

**Miner.**  The tip is a counter; `pc` is where the goroutine of `Run` is.  The
channel of the subscription and `found` are bounded, a full one drops what is
sent.  The `select` takes any case that is ready.  A thread that has looked at
`stop` may still find a solution.  `Finish` is the deferred `m.gpu.Close()`, with
its panic when the handle is nil.

**Switch.**  A connection has two ends, each served by a goroutine: waiting in
the backlog, taken by `acceptLoop`, shaking hands, up, shut by `Stop`, closed.
`register`, `isSelf`, `full`, `AddKnown` and `dropPeer` are operators with the
code's conditions.  A dial pass works on the candidates it started with.  The
loops ask `full()` and then dial or serve without a lock, so these are steps of
their own: `DialNext`, where the switch is asked, and `Dial`, where the connection
stands, up to 3 s later; `Accept` and `Greet`.  `Learned` is the filter of `New`,
which sees the addresses it was given; `Own` is what `AddKnown` compares with once
`Start` has bound the listener and may have rewritten `Advertise` (`Advertised`).
An end notices that the other is gone at any later time, so registrations go
stale.

The composition of the parts is by interface: `Sync` and `Relay` use connections
as `Switch` provides them (both ends registered, FIFO, lost as a whole), `Sync`
uses a tree that is on its best block as `BlockTree` provides it, and `Miner`
submits blocks that enter `BlockTree` by `SubmitSolution`.

**Abstractions.**  Keys and signatures are one of "none", "valid", "bad".
Proof of work and the Merkle check are outcomes stored with the block.  A hash
stands for one block; transaction lists that differ only by the repetition the
Merkle tree makes on odd levels are not told apart.  Hashes are numbers, ordered
like their hex strings.  Integer widths are kept by `MaxUint64`.  Logging, JSON
and framing are left out.

## 3. Runs

| Run | Shows |
|---|---|
| `tree` | 12 blocks: two branches that do not apply, forks of equal work, retargets, a block from the future, a foreign genesis, two orphan places, crash and restart at every step.  All invariants of `BlockTree` but `ReloadsTip`, and the refinement of `HeaviestChain`. |
| `adoption` | `WinnerAdopted` under weak fairness of the mutex holder, with both file faults. |
| `node` | Mempool, pending state and candidate through reorgs, gossip and two racing `Send`s, with a mempool that reaches its cap of 2 and `seenTx` reset at every transaction. |
| `sync` | `RepliesConnect` and `Converges` with forks of 1 and 2 blocks, a one-place orphan buffer and two faults; a missing branch fits one reply. |
| `sync_converge` | `Converges` and `BecomesQuiet` with replies that the transaction budget cuts to one block, no fault. |
| `relay` | Two laptops behind a seed, unbuffered connections that can get stuck, replies of one transaction, a payment on each laptop and one that is signed again with a used nonce, one fault: `NothingSlips`, `LinksRelay`. |
| `miner` | Two threads or a GPU with all its failures, a channel of two notices and five tips, so that notices are dropped. |
| `switch` | A seed with one place, two clients with the same LAN address, a double dial, a self-dial, no fault: `RegistrySound`, and own addresses that come back from peers are not listed (`SwitchTypeOK`). |
| `switch_live` | The same clients and two places, with one lost connection, `Stop` or restart: `RegistrySound`, `ClientStays`, `HalvesResolve`, `StopDrains`, and `FullSettles`, also of a switch beyond its limit. |

Runs expected to find a violation; each quotes the text it contradicts in
`PROJECT.json`:

| Run | Shows |
|---|---|
| `reload` | `New` selects a tip once.  If the heaviest branch of the file does not apply, the node is left without a tip until another block arrives. |
| `sync_interrupted` | A multi-batch download that is interrupted is never continued: the first batch is all known, so nothing is accepted and no next batch is requested. |
| `relay_order` | Two payments of one wallet are flooded by separate goroutines, or the second overtakes the mempool reply with the first; it is refused for its nonce, leaves no trace in `seenTx`, and is not sent again. |

Further consequences of the modelled code are not runs of their own:

* With failing appends `BootAccepts` does not hold: a failed append is only
  logged, children of the missing block are appended after it, and `New` then
  refuses the file.
* `AddTx` applies a transaction to the cached pending state before it looks at
  the cap, so one refused with "mempool full" stays applied until the next tip
  change; `PendingMatches` excepts a full mempool for this reason.
  `rebuildMempoolLocked` does not look at the cap at all, so a reorg may exceed it.
* Rolled-back transactions are retried in the order of their timestamps; two of
  one sender with equal or decreasing times are tried in the wrong order and the
  later nonce is lost.  `ChronologicalReturn` has the premise under which they
  return, and is proved.
* Two equal `Send`s in the same millisecond sign the same transaction; `AddTx`
  takes the second for a repeat and both report success for one payment.
* When the reward has halved to 0, a candidate without fees carries a coinbase
  of amount 0, which `Verify` refuses; `CandidateApplies` is checked with rewards
  above 0, and proved whenever the coinbase pays anything.
* After a GPU error `m.gpu` is nil, but the deferred call of `Run` still closes
  it: the mining goroutine panics at shutdown (`Finish`, place "panicked").
* CONTEXT says that the dial loop tops up peers to 32 at most.  `full()` is asked
  before a connection is dialled or served and `register` does not ask again, so
  handshakes that overlap exceed `MaxPeers`; both runs of `Switch` reach such
  states.  What the limit does guarantee is `FullSettles`: a switch that stays full,
  or above its limit, finishes what is under way and starts no more.
* CONTEXT says that seeds are filtered for the listen, advertise and bound address
  at construction.  `New` compares them with the first two as given; the bound
  address exists only after `Start`, which may rewrite `Advertise`.  A seed that is
  the node's own bound address is kept and dialled again and again, and the
  nonce closes each of these connections.  `SwitchTypeOK` says that this is the
  only way a node comes to dial an address of its own.
* A payment signed again after a restart with a nonce that is pending elsewhere
  is refused by every node that holds the first one: neither reaches all nodes.
  And a mempool larger than one reply is not learned as a whole by a new peer, as
  PROTOCOL says.  `NothingSlips` and `LinksRelay` are stated around both.

**Bounds.**  `CheckpointInterval` and `BlocksPerRetarget` are 2 so that paths of
four blocks cross two checkpoints and two retargets; the orphan buffer has 1 or 2
places so that it fills; the clock takes 1 step so that a block moves from too
far in the future to acceptable; `MaxUint64` is small and satisfies
`LedgerAssumption` with room.  In `Sync` the chains have at most three blocks, the
genesis included, too few for a locator to leave out a height: that replies
connect after gaps too is the theorem `RepliesAlwaysConnect`, which holds for any
`DenseEntries`.  A poll starts only
when fewer than `MaxQueue` messages are under way, and `MaxFaults` bounds lost
connections and restarts together.  Two nodes are enough for every two-party
exchange of blocks.  `Relay` has a third node, the seed, so that transactions
travel over two hops, and either no buffer (everything can get stuck) or room for
all (`relay_order`).  In `relay` `MempoolReplyBudget` is 1, so that replies are shorter
than the mempools, and one restart lets a wallet sign a nonce again that its
peers hold: in reachable states a quiet connection has different first
transactions of one wallet at its ends, and transactions beyond the budget at
one end only.  `Miner`: `TipBuffer` is 2 instead of 4 and `MaxTips`
5, so that a round can miss notices.  `Switch`: `Slots` bounds the
dialled connections a node has open, whatever their state, to one, and to two for
the node that dials twice; the proofs take any bound.  `MaxPeers` is 1 or 2 so that
it is reached; one fault is enough for a stale registration to meet a redial.

**Fairness.**  `BlockTree`: the goroutine that holds the mutex keeps running.
`Sync`: read loops and broadcast goroutines run, `syncLoop`'s ticker fires, and
`dialLoop` retries every 3 s for ever.  `Relay`: the same without the ticker.
`Miner`: the goroutine of `Run` and the threads that were told to stop are
scheduled; that a solution is ever found is not assumed.  `Switch`: dial loops
run, connections are accepted and served, and a lost connection is noticed,
which Go's default TCP keep-alive ensures.  Nothing is assumed about mining or
payments, nor that faults happen.

Deadlock checking is off only where the system really may rest: with a torn
block file, which `LoadBlocks` refuses for ever, and in `Relay` once nothing is left
to relay.

## 4. Proofs

Every theorem holds for all values of the constants that satisfy the assumptions
of the module it is about.

**The tree** (`BlockTreeProofs`).  `TypeCorrect`, `TreeIsRooted`,
`StateIsReplayed`, `CheckpointsAreSound`, `RejectionIsSound` are the invariants of
the same content; `TipImproves` is the action property `TipOnlyImproves`.  They
follow from one inductive invariant, `TreeInv` (theorem `TreeInvariant`).
`StateIsReplay` is not inductive by itself: a commit installs the state of the
replay, which started from a checkpoint.  So `TreeInv` adds that checkpoints are
sound, that the replay in progress carries the replayed state of the block it has
reached and that its target is in the tree and outweighs the tip
(`ReplaySound`), that only blocks of branches that do not apply are rejected,
that the tree is rooted, and that a stopped node has empty memory
(`DownIsEmpty`).  The lemmas on `Ancestors` (a least closed set) give that the
path to a block is closed under parents, that a block on top of an invalid one is
invalid (`InvalidSpreads`), and so that a removed subtree leaves a rooted tree and
takes no valid block with it (`RejectSubtreeInv`).  `ApplyIsReplay` ties one call
of `ApplyBlock` to the reference `Replay`; that the reference consists of account
states is part of `ReplayAssumption`.

**Fork choice and index** (`BlockTreeProofs`).

* `TreeKeepsPromise`: every step of the tree is a step of the abstract node of
  `HeaviestChain` or leaves it unchanged.  Besides `TreeInv` it needs
  `TargetIsBest`: while a replay runs, its target is still the best block of the
  tree, because nothing is inserted before the replay commits or fails.  A commit
  is then an abstract `Adopt`, a rejected subtree an abstract `Drop`, since all of
  it is invalid.
* `TipAlwaysBest` (invariant `TipIsBest`): whenever the mutex is free, nothing in
  the tree outweighs the tip.  While calls are under way this is false, so the
  inductive invariant `AheadCovered` counts: there are never more blocks ahead of
  the tip than `selectTipLocked` calls and replays still to come.  An insertion
  adds one block and one call; a fork choice that keeps the tip finds none ahead,
  one that moves the tip takes the best, and one that rejects removes at least
  the block it was about to adopt.
* `HeightIndexExact` (invariant `ChainHeightsIndex`): `chainHeights` maps exactly
  the heights of the active chain to its blocks, also after a reorganisation to a
  longer or shorter chain.  It needs `PathsClimb`: on a path, a height determines
  the block.

**Ledger** (`LedgerProofs`).

* `SupplyFollowsSchedule` (`SupplyIsIssued`): the coins in the accounts are exactly
  the rewards of the heights up to the tip.  A payment takes from its sender what
  it gives to the recipient and to the fees (`PaymentMoves`), also when sender
  and recipient are one; along the loop of `ApplyBlock` supply and fees together
  stay the same (`LoopConserves`); the coinbase returns the fees and adds the
  reward (`BlockIssues`).  `BranchesIssue` carries this along every branch of the
  tree whose blocks apply, one accepted block at a time.  The arithmetic is modulo
  the integer width, so the sums must be shown not to wrap: `IssuanceFits` bounds
  all rewards up to a height by `2 * InitialReward * HalvingInterval`, which
  `LedgerAssumption` places within the width.  The bound itself is not inductive
  over heights; `Within` says how much the rewards still to come may add, given
  that each halving leaves half or less (`RhoHalves`).
* `NoncesCountPayments` (`NonceCounts`): an account's nonce is the number of its
  payments on the active chain, and none is confirmed there twice.  The
  invariant along a branch (`Numbered`) adds that its payments have passed
  `Verify`, that those of an account carry nonces below the one it has reached,
  so that the next one, which must carry exactly that nonce, is new, and that no
  two of them carry the same nonce (`PaymentCounts`, `LoopCounts`,
  `BranchesCount`).

**Mempool** (`NodeProofs`).  `MempoolAlwaysApplies` (`MempoolApplies`) and
`PendingAlwaysMatches` (`PendingMatches`), from the invariant `PoolInv`, which joins
the two: each needs the other, since `AddTx` judges a transaction by the cached
state and the cache is only right if the list applies.  The core is
`KeptApplies`: what the loop over a list keeps (`revalidateMempoolLocked`,
`rebuildMempoolLocked`) applies again as a whole and leads to the same state,
whatever the list was and in whatever order; `OneMoreApplies` is the step of
`AddTx`.  The order that the sorts give does not matter here, only that the
candidates of a rebuild are a list, for which a path has a block at every height
(`HeightsFilled`).

**Reorg** (`NodeProofs`).  `ReorgReturns` (action property `ChronologicalReturn`): on
a reorg, the payments of the abandoned branch that are still valid on the new one
return to the mempool if their times follow the order in which they were
confirmed.  The definition of "still valid" runs over the abandoned payments alone;
`rebuildMempoolLocked` runs over a longer list, in which payments of the old
mempool lie between them and may be tried first.  `WhatAppliesReturns` compares
the two loops at the places where they have met the same abandoned payments
(`Abreast`).  There, every account that still has an abandoned payment to make has
the same nonce in both and at least as much money in the longer one, or it can
make none in either (`Follows`): a payment of the mempool that applies can only
add to the balance of such an account, never spend from it.  This rests on what
the node's other invariants say of nonces: a payment in the mempool carries one
that the old chain had not used (`MempoolAhead`), so it is accepted only after
its sender's abandoned payments or not at all; and on the old chain each nonce of
a sender is used once (`PaidOnce`, from `Numbered`).  That the loops meet the
abandoned payments in the same order is where the premise enters: the list is
sorted by time (`SortedByTime`, an insertion sort as a fold, `InsertInTime`), and
strictly increasing times leave no other order.

**Candidate** (`NodeProofs`).  `CandidateAlwaysApplies` (`CandidateApplies`): the
template of `BuildCandidate` would be accepted, for any mempool, tip and clock.
Three things could go wrong with it.  *The transactions*: they are sorted by fee,
filtered and cut off; `KeptApplies` and `PrefixSteps` show that what is left still
applies one by one, and `Verified`, a part of `PoolInv`, that each has passed
`Verify`, as `ApplyBlock` will check again (`SortedByFee`, `CandidateTxsSound`).
*The amounts*: reward and fees are added modulo the integer width; the fees come
out of balances, so with the reward they are within the rewards of all heights up
to the next, which fit (`TemplatePays`, from `SupplyFollowsSchedule`'s invariant).
*The time*: it is the clock or one above the tip's time, which is at most
`MaxFutureTime` ahead of a clock that never moves back (`TimesPassed`).  The
theorem has two hypotheses: `CandidatePays`, that the reward or the fees are not
0, without which it is false, see the coinbase of amount 0 above; and that the
genesis block is dated at most `MaxFutureTime` after the clock first read.

**File and orphans** (`NodeProofs`).

* `FileHoldsTree` (`DiskHoldsTree`) and `RestartSucceeds` (`BootAccepts`): the file
  contains the tree and loads again after a crash at any step.  The inductive
  invariant `FileInv` says that the file is a history of insertions (each line
  acceptable after the lines before it), and that a boot under way has inserted
  exactly the lines it has read (`BootFollowsFile`).  That a line stays
  acceptable needs that the clock only moves forward.  Both theorems have the
  hypothesis `StoreFaults = {}`: with failing appends they are false, see above.
* `OrphansOnlyWait` (`OrphansWait`): buffered blocks wait for a parent the node
  does not have, and the buffer keeps its bound.  `BufferInv` includes that the
  counter of the buffer is the number of blocks in it (sums over finite sets,
  `FoldTheorems`), and that the genesis block is the first line loaded.
* `NodeStateIsReplayed` and `NodeKeepsPromise` carry results on the tree over to the
  node with mempool and wallet, by the lemma `NodeImplementsTree`: a step of the
  node is one of the tree or leaves it alone.

**Sync** (`SyncProofs`).  `SyncTypeCorrect` and `RepliesAlwaysConnect`
(`RepliesConnect`): a reply that arrives connects to the receiver's tree, however
both trees have changed since the request.  In `SyncInv` every message under
way is about blocks of its sender, every reply is a chain whose first block's
parent the receiver already had when it asked, and the trees are closed under
parents and only grow while a connection lives.  The core is `ReplyConnects`: the
first entry of the locator that lies on the responder's chain is a block both
have, and the walk over `chainHeights` from there yields the responder's path
without a gap (`PathHeights`).

**Relay** (`RelayProofs`).  `RelayTypeCorrect`; `NoncesAlwaysInOrder`
(`NoncesInOrder`, proved only: `node` checks the order of one mempool, as part of
`MempoolApplies`); and `NothingEverSlips` (`NothingSlips`): whenever a connection is
quiet, each end holds the transactions of the other that depend on no other and
that one reply reaches, or those their wallets signed in their place.  There is
no hypothesis on the budget or on what wallets sign.  The inductive invariant
`ExchangeInv` covers the time before that: such a transaction that the other end
does not hold is in a message, in a read loop, or will be in the reply to a
request that is under way or still has to be made (`CoveredFor`), which needs the
order of version and request on the connection (`HandshakeOf`), that nothing is
sent that the sender does not have (`BackedBy`), and that pools list the payments
of a wallet in the order of their nonces (`PoolsInOrder`).  Two lemmas carry the
budget and the rivals: pools grow at their end, so a reply made after a
transaction was added reaches nothing new but that one, which is being flooded
(`SnapshotGrows`), and a first transaction is refused only by a node that holds it
(`FirstAcceptable`).

**Switch** (`SwitchProofs`).  `RegistryAlwaysSound` (`RegistrySound`): a node has one
connection per peer process at most and none to itself, and reads from exactly
the connections it has registered.  `SwitchTypeCorrect` (`SwitchTypeOK`): of its own
addresses, given, advertised or bound, a node lists or dials only those that were
configured as seeds and passed the filter of `New`.  `RegistryInv` adds that a peer is registered
after its version was read (`VersionsRead`), that a connection is forgotten once
both ends are closed (`OpenConns`), and what the lists hold of own addresses
(`OwnSeeded`).

**Miner** (`MinerProofs`).  `MinerTypeOK`, `NoticeWaits`, `SolutionHeard` and
`ResourcesHeld` for any set of threads and any channel.  The inductive invariant
`MinerInv` adds that a round has a channel and a candidate (so that a notice has
somewhere to go and a solution is not empty), that no thread is told to stop
before the select is over, and that the GPU is the active backend only while
there is a handle and then its closing has been deferred.  `SwitchNotifies` is
the lemma on notices: one is left, or the channel was full of older ones, which
serve as well.

**Induction.**  The library's induction theorems quantify over an operator,
which the installed provers cannot instantiate.  `FoldTheorems` states induction
in first-order form instead: a set of subsets of a finite set that contains the
empty set and is closed under adding an element contains the whole set
(`SubsetInduction`, `ElementInduction`), and likewise for counters up to a bound
(`CountingInduction`).  A property is passed as the set of the elements that
have it.  From this come the existence of maxima, the value of `MapThenSumSet`
when an element is added, the one-block-per-height lemma of `SyncProofs`, and the
values of `FoldLeft` after each prefix of a sequence (`FoldExists`,
`FoldPrefixes`).  That a recursive function or a fold has the value its equation
says is itself proved by counting up to the length (`HalvedSteps`,
`UsableExists`, `FlattenIsList`, `PassExists`).

**Assumptions used:** `LedgerAssumption` (finitely many addresses, all rewards fit
the width), `ChainAssumption` (among it that a block has room for its coinbase),
`BlockAssumption`
(hashes are finitely many; the transactions of a block are a list, their amounts
and fees have the integer width and their times are integers; the genesis block
has none; the marker `Nil` is none of the records it is compared with),
`NodeAssumption` (amounts and fees of payments have the integer width, times are
integers), `ReplayAssumption`, `MinerAssumption`, `SwitchAssumption`,
`RelayAssumption`, `SyncAssumption`; TLC evaluates all of them on the instances.

**Only model-checked:** all liveness, since the prover has no reasoning about
fairness or `ENABLED`.

## 5. Not modelled

* Cryptographic primitives, SHA-256 midstates and OpenCL: bit-level computation,
  whose outcomes the models choose freely.
* HTTP and the command line: stateless views and sequential start-up, among it
  the creation of the wallet file.  Of `runNode` only the shutdown is modelled.
* Framing, size limits and JSON; the temporary files of `store` and `crypto`.
* Peers that send no nonce in their version: this program always sends one, so
  the rules for them never apply between its nodes.
* Hash rate counters and logging.

## 6. Plan

1. Three nodes in a line in `Sync`.
2. `Relay` with blocks that confirm what is relayed.
