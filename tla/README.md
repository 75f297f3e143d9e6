# A TLA+ verification of the BlockSettleDB server core

`src/cppForSwig` is a bitcoin database server (ArmoryDB). It reads the block
files a bitcoin node writes, organises the headers into a main branch, scans
blocks for the addresses its clients registered, keeps their history in LMDB
databases, tracks unconfirmed transactions, and serves all of it over an
encrypted websocket. This directory models its core: the queue between the
threads, the header chain, the wallet history under reorganisations, stops and
kills, the threads of a scan, the way a block announcement takes from the node to
the databases, unconfirmed transactions and client broadcasts, and the pools that
serve one client connection.

## 1. The system and its parts

| Part | State | Operations | Talks to | What is hard, what makes it correct |
|---|---|---|---|---|
| `BlockingQueue` (`ThreadSafeClasses.h`) | a deque, `flag_`, `waiting_`, `terminated_`, `completed_`, two mutexes, a condition variable | `push_back`, `pop_front`, `terminate`, `completed` | every thread pool of the server | Queue and flag are under different mutexes. No lost wake-up, exact counters, closing releases everybody, remaining entries are served. |
| `TimedQueue`, `Pile`, `TransactionalMap` | the same with a time-out; a map replaced under a mutex | push, pop with time-out, terminate | notifications, zero-conf inventory | A terminate must not be missed until the time-out. |
| `Blockchain` | `headerMap_`, `headersById_`, `headersByHeight_`, `newlyParsedBlocks_`, `topBlockPtr_`, `topBlockId_`, per header sum, height, main-branch flag, `nextHash_` | `addBlocksInBulk`, `organize`, `forceOrganize`, `updateBranchingMaps`, `putNewBareHeaders` | called by `DatabaseBuilder`, read by everybody | Blocks of competing branches in any order. Main branch is one chain to a heaviest block; a reported branch point is the fork. |
| `DatabaseBuilder` | `topBlockOffset_`, `forceRescanSSH_` | `init`, `update`, `updateBlocksInDB`, `undoHistory`, `scanHistory`, repair | main thread; owns the scanner | Start-up after any interruption must end in the history of the main branch. |
| `BlockchainScanner`, `SshParser` | STXO, TXHINTS, SUBSSH, SSH databases; `utxoMap_`, batches | `scan`, `undo`, `updateSSH` | three threads and queues inside | One batch is several transactions. Nothing lost, nothing counted twice. |
| `ScrAddrFilter` | address maps, `scanHeight_` per address, merkle of the address set | register, unregister, `scanFrom`, `resetSshDB` | own thread, side scans through the builder | Registration against a concurrent update. |
| BDM main thread, `BitcoinP2P`, `nodeRPC` | connection and promises, `invBlockStack_` | connect loop, inventory, update loop | node, builder, zero-conf | Reconnects, missed inventory, an exception that ends the loop. Every block is eventually taken into account. |
| `ZeroConfContainer` | batches with counter and promise, hash-to-batch map, watcher map, mempool snapshot | inventory, getdata reply, reject, broadcast, time-out, purge | P2P, main thread, notifications | A time-out racing late answers, hashes shared by batches, purge queued behind a waiting batch. |
| `Clients`, `WebSocketServer` | per-viewer spin locks, shared queues, read queue per connection | payload, notification, read and write pools | viewers, AEAD channel | Put-back pools change the order of one viewer's work. |
| `BlockDataViewer`, `BtcWallet`, `ScrAddrObj`, `HistoryPager` | per-client caches | refresh on notification | databases | Staleness against a reorganisation. |
| BIP150/151 | handshake and rekey state | handshake steps, rekey | websocket | Both ends change keys at the same packet. |
| Wallets, signer, scripts, coin selection, bridge | client-side | sequential | - | Cryptography and formats. |

`PROJECT.json` lists each of them with its status and the reason, and the
hazards at their lines.

Life of a block: the node appends it to a block file and announces it; the main
thread calls `DatabaseBuilder::update`; new blocks are parsed (one thread per
file), organised and stored in the HEADERS db; on a reorganisation the abandoned
blocks are undone in STXO and SSH; the new blocks are scanned in batches into
STXO, SUBSSH and TXHINTS, and added up into SSH balances. A start-up goes the
same way through `init`, from what the databases say.

Life of a broadcast: a client's packets go through the read, parser and write
pools of the websocket server; the command registers the transactions in the
watcher map and queues a batch for the zero-conf thread; the node asks for the
transactions, announces them back on the second connection, and the matcher
counts them into their batch; a batch that is complete is parsed into the mempool
snapshot and its clients hear of it, one that times out goes on to the node's RPC.
A new block interrupts the zero-conf thread for a purge the main thread waits for.

## 2. The modules

| Module | Models | Uses |
|---|---|---|
| `ChainTree` | a tree of blocks (constants only) | - |
| `ClosableQueue` | what a `BlockingQueue` promises (abstract) | - |
| `BlockingQueue` | `ThreadSafeClasses.h`, one step per atomic access | implements `ClosableQueue` |
| `MainBranch` | what the header side promises the rest (abstract) | `ChainTree` |
| `Blockchain` | `Blockchain.cpp`, header side of the builder and HEADERS db | `ChainTree`, implements `MainBranch` |
| `BlockHistory` | scanner, undo, balances, start-up modes as LMDB transactions | `ChainTree`, its header side implements `MainBranch` |
| `ScanPipeline` | the threads of one scan | three instances of `ClosableQueue` |
| `NodeFeed` | `BitcoinP2P.cpp` connection, announcements, main loop | - |
| `ZcBatch` | batches of `ZeroConf.cpp`, broadcasts and RPC of `BDM_Server.cpp` | - |
| `Dispatch` | `Server.cpp`, parser pool of `BDM_Server.cpp`, BIP151 sessions, `WebSocketClient.cpp` | - |
| `ChainTree_proofs` | lemmas about the tree, for the two modules below | TLAPS |
| `Blockchain_proofs` | theorems of `Blockchain` | `ChainTree_proofs` |
| `BlockHistory_proofs` | theorems of `BlockHistory` | `ChainTree_proofs` |
| `BlockingQueue_proofs`, `ScanPipeline_proofs`, `NodeFeed_proofs`, `ZcBatch_proofs`, `Dispatch_proofs` | theorems of these modules | TLAPS |
| `MC*` | instances for TLC | - |

### ChainTree
What a set of blocks is: parent, height, chain of ancestors, cumulative work and
hash order, as constants with the assumptions that make them a tree. A *walk*
from a block through its parents, which is how `Blockchain.cpp` computes
everything, is set difference of chains (`Above`) and the first block met
(`FirstMet`), so no definition is recursive and all of it can be used in proofs.
Work is `getDifficultySum` after the whole chain is summed up. `WalkAssumption`
says a walk stops at the first block of a set it meets; it follows from the tree
being well-founded by an induction over data, which is why it is assumed, and TLC
evaluates it on every tree used. `FiniteAssumption` (finitely many blocks) gives the
proofs a heaviest one among any set of blocks.

### ClosableQueue and BlockingQueue
`BlockingQueue` is the class and the `Queue` it derives from, for any sets of
producers, consumers, polling consumers (`pop_front(false)`) and consumers that
call again after `StopBlockingLoop` (`Retriers`: `processOutputs` does). One action
per atomic access: an access under `mu_`, one under `condVarMutex_`, a load or
store of an atomic. The program counters (`ppc`, `cpc`, `kpc`) name the place in
`push_back`, `pop_front` and in `terminate` / `completed`. `condVarMutex_` is held for
more than one step in two places: by a consumer between its check of the flag and its
wait (`locked`), and by `terminate` over its three accesses, the stores of
`terminated_` and of `completed_` and the notification (`TerminateStore`,
`TerminateComplete`, `TerminateNotify`). The mutex does not hide the two stores: both
booleans are loaded without it, so a consumer may stop while a producer is still
admitted. A condition variable may wake up for no reason (`PopSpuriousWakeup`).
Bound: `MaxPush` pushes per producer. `clear()` is not modelled.

`ClosableQueue` is what is left when counters, mutexes and waits are taken away:
first in first out, each entry to one consumer, no admission once closed, and a
consumer that leaves for good only after a terminate has begun, or when the queue is
closed and it has at some moment found it empty. That the observation may be out of date
is part of the promise, because it is what the code does (finding `pipeline_lost`).
So is the moment in a terminate when consumers already leave and producers are still
admitted (`closed = "terminating"`).
`BlockingQueue!ImplementsClosableQueue` is the refinement, checked by TLC and proved.

### MainBranch
What is left of the header side when ids, heights, sums, flags and the HEADERS db are
taken away: the headers that connect to the genesis block (`have`), the top among them
(`best`), the top before the last update and where the two chains part. `Update` adds
headers and moves to a heavier chain only, a tie going to the top or else to the first
in hash order (`IsBest`, as the choice in `organizeChain` has it); `Restart` may lose
headers and starts from the best of the rest. It is the link between the two chain
modules: both are shown to implement it.

### Blockchain
`Blockchain.cpp` and the header half of `DatabaseBuilder` and `lmdb_wrapper`.
Variables are the members named in their comments. Actions: the node writes a
block (`NodeWrites`, external); `ParseBlocks` (parse files, `addBlocksInBulk`,
ids in every order competing file threads can draw them); `Organize` (sums along
every connected run, choice of the top, marking of the main branch);
`RebuildAfterReorg` (the recursive call of `organizeChain(true)`);
`PutNewBareHeaders` (duplicate ids); `UpdateBranchingMaps`; `Crash`;
`LoadHeaders`, `ForceOrganize` and `RewindOffset` for a start-up. The rebuild is
a step of its own although the code does not release the thread in between, so
that `RebuildSettles` can speak of the recursion; nothing but the node can step
in.
Bounds: `MaxId`, `MaxCrash`, and `CrashHeight` (kills happen with that much on
disk; it keeps the state space small, kills before it start from less of the
same). `Tracking` selects the path `init` takes after loading.

### BlockHistory
The history half of `DatabaseBuilder`, `BlockchainScanner`, `parseSubSsh` and the
start-up modes of `BlockDataManager`. One action per LMDB transaction, because a
kill can fall between any two: `UpdateBlocksInDB`, `UndoSpentness`, `UndoSsh`,
`Scan`, `ParseBatch`, `WriteStxo`, `WriteSubssh`, `WriteHints` (own thread),
`EndBatch`, `UpdateSSH`; around them `Stop`, `Kill`, `Restart` in the modes load,
rescan and balance, `PlanScan`, and `RegisterNewAddresses`.
A balance is kept as how often each block's output and input are in it, so
"wrong balance" is visible block by block.

Abstractions, each of which limits what the runs say:
* each block has one transaction, found in no other block, with one output to a
  tracked address and at most one input; an unspent output is preloaded when its
  transaction has a hint (`PreloadUtxos`);
* all addresses are at the same `scanHeight_`, hence one address;
* the header side is one step that follows `Blockchain`, with parents before
  children; orphans are the business of `Blockchain`;
* new addresses are registered while the builder is idle (the concurrent case is
  a listed hazard);
* `resetDatabases` is one step; rebuild mode and supernode are left out;
* a batch is parsed when the one before it is committed. That the threads of a
  scan, which work ahead, leave the same databases is `PipelineIsSequential` of
  `ScanPipeline`;
* `resolveTxHashes`, which fills TXHINTS for spenders outside the history, is
  left out.

`BlockHistory` has the result of an update as one step instead of composing with
`Blockchain`: the product of both is out of reach for TLC. That the step is right is
a theorem instead: both modules implement `MainBranch` (section 4).

### ScanPipeline
`scan_nocheck` with its threads: the scan thread cuts the range into batches,
pushes them, throttles itself on `writeQueueDepth_` and finally closes the first
queue and joins; `processOutputs`, `processInputs` and `writeBlockData` hand batches
on through `outputQueue_`, `inputQueue_`, `commitQueue_`; the workers of a stage draw
blocks from the batch's counter and merge what they found; the hint writer of a
batch runs next to the commit. A queue operation of the model is an action of the
`ClosableQueue` instance for that queue, so a stage can stop on a stale look at it.
Blocks spend each other's outputs, so a stage that looks at the wrong maps shows in
STXO. A stage has at least one worker (`WorkersSome`: a thread count is accepted only
when it is above zero, `BlockDataManagerConfig.cpp:684`), and no block spends an output
that does not exist yet (`SpendsBackwards`, a rule of the node). `dead` is the process gone: an exception that leaves a thread. Unsigned
counters are modulo `UintMod`. What the workers of one stage do with one block is a
step (drawing, parsing), their merge under the mutex another one.

### NodeFeed
The connection loop with handshake, data stack and reader thread, the block
announcement that is held for a second, `invBlockStack_` and the main loop: pop,
read the block files, update, wait for the zero-conf purge, drain, repeat. A connection
is lost in three ways, `MaxDrops` times in all: the node closes it (`NodeDrop`), it is
gone before the version message is out (`ConnectRefused`), or the reader leaves on an
exception while the link is up (`ReaderFail`). An update may throw, the server may be
stopped at any moment. Blocks are numbers, the chain state is how many are in it:
what happens inside an update is `BlockHistory`. `signalled` is a history variable,
the number of blocks that were on disk at the last signal.

### ZcBatch
The batches of `ZeroConfContainer` from creation to the end of `parseNewZC`: clients
register and broadcast (`BroadcastZC`, `BroadcastBatch`), the node asks, answers,
announces on either of the two connections or rejects, the inventory thread
requests, the matcher finds the batch of a hash, preprocessing threads count it
down and set its promise, the zero-conf thread wakes on the promise or on the
time-out, takes the watcher entries, parses or reports, the RPC thread takes over
what failed, and a new block asks for a purge. `watcher` and `extra` are
`watcherMap_`, guarded by a lock that is taken for one step at a time. A time-out
may happen whenever the promise is not set, which covers every timing. The two pushes
of `initiateZcBatch` (`ZeroConf.cpp:2474` and 2477) are one step: what happens between
them matters only to a transaction that is broadcast again.
Abstractions: every transaction is valid, touches an address of ours and is not
replaced or chained; viewers do not disconnect; bound: `BlockAfter`, the batches
after which the new block comes.

### Dispatch
One connection past its handshake. The client encrypts packets, may rekey before
one, and may have one delivered in two parts; `commandThread` queues the packet and
then a token; readers, parsers and writers are pools whose threads take a spin lock
of the connection or put their work back; the parser keeps packets of commands
whose turn has not come, and a payload without data hands over a command that was
complete early; the writer rekeys and encrypts. Encryption is a key number and a
sequence number; a packet decrypts when both agree. `leftOver` has an entry per copy
of the connection map, and `Join` makes a copy.
Bounds: `Fragments` (commands and their packets), `MaxUpsets` (rekeys, cuts and
copies together).
Abstractions: only the first packet of a command is cut, and in two parts, where the
websocket library (`server-ws.c`) may cut any packet anywhere; the client's own
left-over path (`WebSocketClient.cpp:472`) is dropped, because the library's client side
hands over whole frames of these sizes; a reader's lookup of the connection and its lock
(`Server.cpp:485` and 492) are one step, so `QuietJoins` also stands for no copy of the
map between the two; a reply always serialises (`Server.cpp:600` is the failure).

## 3. The runs

All passing runs are exhaustive, without symmetry.

| Run | Instance | Distinct states | Shows |
|---|---|---|---|
| `queue` | 2 producers with 2 pushes each, 2 consumers, one of which polls and retries, close at any time, fair threads | 239381 | counters exact, no sleeper next to an entry, none left in a closed queue, entries are taken, closing stops every blocking consumer, `completed()` returns, all of it implements `ClosableQueue` |
| `chain_fork` | branches of 2 and 3 equally difficult blocks, all orders and batchings, one kill | 4666 | main branch, branch point, duplicate ids, all of it implements `MainBranch` (ties keep the top), a rebuild takes one call |
| `chain_orphans` | a short heavy branch against a long light one, children before parents, two blocks per file so file threads compete for ids | 4339 | orphans stay out and join when connected; the top is the heaviest |
| `history_race` | two branches that spend the same output, a tie at every height, all batchings, fair updates | 2184 | balances are those of the main branch after each update, no block counted twice or below zero on the way, an update comes to its end with every block it has stored in the history |
| `history_restart` | three changes of lead, two interruptions: clean stop then load, or kill between any two transactions then rescan | 38388 | the same for balances and spentness, and no failed start-up |
| `pipeline` | 3 batches of 2 blocks, 2 workers per stage, depth 2, an unreadable block, an exception while any of the batches is made | 48880 | databases of a sequential scan at every moment, batches in flight bounded, hints at most one batch behind, the scan ends but for the case named in the property |
| `nodefeed` | 3 blocks, any number of them on disk at the start, 2 lost connections (closed, refused, or a failed reader), failing updates, a shutdown | 126177 | no announced block is forgotten, a lost connection is replaced by one that is up, greeted and read from |
| `zcbatch` | 2 requests that share one of 2 transactions, one rejectable, one preprocessing thread, one new block | 263590 | watcher entries stay with their batches, what is parsed has a body, the purge is answered, every request is settled |
| `dispatch` | 1 registration and 2 commands, one of 2 packets, 2 threads per pool, 2 upsets | 198384 | both directions decrypt, no packet is stranded, every command is answered |

Why the bounds are enough for what the properties tell apart. Two producers and
two consumers give every pair of threads the queue's races are about; a third
repeats one of them, and the theorems hold for any number. The trees have a
fork, a tie, a lead that changes several times, an output spent on both branches
(at once on one, in the last block on the other), and outputs spent in the same
batch and in another one. Two interruptions let a start-up be followed by another
one from what it left behind. Three batches fill the pipeline (one in each of the
three stages) with a depth of two, so the throttle waits; two blocks and two workers
per batch let the workers race for the last block. Two losses let a connection be
lost twice, and three blocks leave one that is announced to nobody. Two requests
with one transaction in common are the smallest case in which batches share a
watcher entry. Three messages, one in two packets, with two threads per pool, let
packets, commands and replies each overtake each other once; two upsets let both
sides rekey at the same time, or a rekey meet a packet in two parts.

Deadlock is not checked: every model comes to rest when its clients, its node or its
producers have done what they may, and so does the system when nothing arrives.

### Fairness
* Queue: weak fairness of each thread inside an operation, and of a consumer's
  loop, since the consumers of the server call `pop_front` until it throws. Nobody
  is obliged to push or to close, but a close begun goes on (`CloseStep`). Weak
  fairness is enough for the steps that need a mutex too.
* History: weak fairness of the builder thread once an update or a start-up has begun,
  and of a restart. Nothing obliges an update to begin: the main thread calls `update`
  for an announcement, and blocks that nobody announces wait. `UpdatesEnd` therefore
  speaks of the blocks an update has stored; that an announced block gets to an update
  is `SignalledProcessed` of `NodeFeed`. The node and the clients owe nothing.
* Pipeline: weak fairness of the scan thread, the three stages, each worker and the
  hint writer, all of which the scan starts itself, while the process lives.
* NodeFeed: weak fairness of the connection loop, reader and main loop, and of the
  node's answer to a version message. Nothing obliges the node to write a block,
  a connection to be lost, or anybody to stop the server. The purge the main thread
  waits for is answered at once; that it is answered is `PurgeAnswered` of `ZcBatch`.
* ZcBatch: weak fairness of the server's threads; the time-out is a step of the
  zero-conf thread. The node owes no answer at all; an RPC call returns.
* Dispatch: weak fairness of `commandThread` and of each thread of the pools. A thread
  that finds a lock taken and puts its work back is not blocked in the model: it has
  no step to take. The client is not obliged to send.

### Runs that end in a violation
Each states what a comment of the repository says, and shows a behaviour of the code
that differs. The findings in `PROJECT.json` quote both.

* `history_kill`: a kill between the STXO and SUBSSH transactions of a batch loses
  that batch's spends.
* `pipeline_lost`: `completed()` may stop a stage before the last batch, and the scan
  reports the top all the same.
* `dispatch_leftover`: a client that joins while a reader works makes the reader's
  half packet disappear, and the connection is closed.

### Disagreements seen without a run of their own
The following instances violate a property too. They are kept here so that nobody
takes a passing run for more than it says; each is the cfg named, with the constants
changed as given.

Header chain:
* `IdsNotReused` (`Blockchain.cpp:598`; its comment at 588 has ids unique): a restart
  hands out an id in use. `Blockchain_fork.cfg`, `FileCap = 1`, `Rewind = 0`.
* `ByHeightIsMain` (`Blockchain.cpp:375`): after a reorganisation to a shorter
  branch `headersByHeight_` still answers for heights above the top.
  `Blockchain_orphans.cfg`, `InOrder = TRUE`.
* `HeadersAgree` (`Blockchain.cpp:509`): an orphan that waits through a rebuild
  has height 0 and is stored there. `Blockchain_fork.cfg`, `InOrder = FALSE`,
  `MaxCrash = 0`.
* `ValidDupIsMain` with `Tracking = "new"` (`DatabaseBuilder.cpp:174`): the path
  of `init` for new addresses does not update `validDupByHeight_`.

History:
* `NeverFails` (`DatabaseBuilder.cpp:836`): two equally heavy branches at a load can
  end in "failed to repair DB". `BlockHistory_restart.cfg`, `ChainWork <- TieWork`,
  no kills.
* `HistoryIsMain` with new addresses and a load (`lmdb_wrapper.cpp:2839`): the full
  rescan they force drops old history. `BlockHistory_race.cfg`,
  `CleanModes = {"load"}`, `MaxStops = 1`.
* `HistoryIsMain` with `CleanModes = {"balance"}` (`DatabaseBuilder.cpp:603`): a server
  started to rescan balances adds the history again with each block.
* `HistoryIsMain` with a kill at `undo` and a load: headers are stored before the
  history is undone, so the next start sees no reorganisation
  (`DatabaseBuilder.cpp:378`). The same with a kill at `join` or at `ssh`
  (`DatabaseBuilder.cpp:160`). `BlockHistory_kill.cfg` with that `KillAt`.
* `HistoryIsMain` with `HeavyWork` and no stop at all: `validDupByHeight_` keeps
  entries above a shorter new top (`BlockchainScanner.cpp:1183`,
  `SshParser.cpp:106`).

Scan:
* `ScanEnds` without its second clause (`BlockchainScanner.cpp:281`): when making the
  first batch throws, the comment at 199 wants to "let the scan terminate", but the
  first pop of `processOutputs` retries for ever and the join never returns. The run
  `pipeline` has this case (`MayHalt = {1, 2, 3}`) and the property names it: the scan
  ends, or its thread waits in the join having pushed no batch. No other halt hangs it.

Node:
* `ShutdownReturns` (`BitcoinP2P.cpp:1343`): `shutdown` waits for the connection loop,
  which loops while `run_`; nothing clears `run_`.
* `SignalsOnConnect` (`BitcoinP2P.cpp:1042`): on a second connection `connectedPromise_`
  is set again and throws before the announcement "for good measure" is queued: blocks
  written while the node was out of reach wait for the next announcement. Therefore
  `SignalledProcessed` speaks of announced blocks only.
* `Reconnects` with `EarlyDrop = TRUE`, and without that condition in the property:
  a connection lost before the verack is read, by the node or by the reader's
  exception, leaves the loop waiting on a promise (`BitcoinP2P.cpp:1036`).

Zero-conf:
* `PurgeAnswered` with `Rebroadcasts = TRUE` (`ZeroConf.cpp:2653`): the hashes of a
  finished batch are cleared from the matcher by hash, also when a newer batch has
  entered the same hash; that batch, if it keeps the transaction, waits without a
  time-out, and the main thread behind it.
* `WatcherOwned` with `Rebroadcasts = TRUE` (`BDM_Server.cpp:2996`): the RPC thread takes
  the entry of a failed call before it fails the batch; a client that sends the
  transaction again in between makes an entry that is not its own to keep.
* `ParsedHaveBody` with `NetTx = {h1}` (`ZeroConf.cpp:2374`): a timed-out batch waits until
  as many of its transactions are counted as it keeps, but a body the other node sent
  for one it does not keep counts as well. The batch of {h1, h2} has the body of h1 from
  the network, keeps h2, which the watcher node has just asked for, and is parsed
  without a body for h2.
* `NeverAborts` (`ZeroConf.cpp:2632`): a second reject for one batch sets its promise
  again, outside any try block. `Rejectable = {h1, h2}`, `Requests = {r1}`,
  `Wants <- WantsBoth`, `BlockAfter = 1`.

Seen while reading, outside the models: `Server.cpp:547`, and `Server.cpp:600` when a
reply fails to serialise, leave the write pool for good with the connection's lock held; the message ids a client hands out count every payload
(`WebSocketClient.cpp:63`) while a viewer counts from its registration
(`BDM_Server.cpp:2284`), so a command before the registration shifts them.

Hence `history_restart` starts with a rescan after a kill, has no two branches of
equal weight, and no shorter heavier branch; `zcbatch` has one rejectable transaction
and no transaction broadcast again or known to the network before; `dispatch` has other clients join only while no
reader works. Those are the conditions under which the code keeps its promise, and
not conveniences of the model.

## 4. What is proved

The proofs are in the eight `*_proofs` modules. They hold for every value of the
constants the named assumptions allow; where a theorem has a hypothesis of its own, it
is a condition under which the code keeps its promise, and section 3 names the instance
that fails without it.

**Queue**: `TypeCorrect`, `CountersCorrect`, `WakeupsNotLost`, `SleepersReleased`,
`QueueRefinement`, from `ThreadsFinite` and `MaxPushNat` only. The invariant `IInv` is
the typing, the two accounting equations, and three facts that make them inductive:
* `SleepersSawFlagDown`: while the queue is open nobody sleeps on a raised flag;
* `PushCounted`: a producer about to push has counted the push;
* `CloserSet`: the closing thread's place says which booleans are set, that it has
  `condVarMutex_` to itself from the first store of a terminate to its notification, and
  that past its spin loop no consumer sleeps.

`FlagAccounting` says the flag is the number of queued entries, less the pushes
that have not raised it, plus the pops that have not lowered it. With it a
sleeper next to an entry forces a push in flight, which is `NoLostWakeup`.

`QueueRefinement` (`Spec => ImplementsClosableQueue`) has one step per action
(`NextSimulates`): the load of `completed_` by a producer is `Admit`, its access under
`mu_` is `Enqueue`, a consumer's access under `mu_` is `Take` or `SeeEmpty`, the loads
that make it throw are `Stop`, a load that finds `completed_` unset is `LookAgain`, each
store of the closing thread is a `Close` (the two of a terminate are two, and between
them the abstract queue is `"terminating"`); every other access is invisible
(`InvisibleStep`). It rests on `IInv` for the types and for which boolean the closing
thread has set. Together with it the three queues of `ScanPipeline` stand for the
real ones as far as safety goes: what holds of the pipeline over every behaviour of
`ClosableQueue` holds over the behaviours of `BlockingQueue`.

**Chain**: `MainBranchUnlessIdsReused` holds with any number of kills and
restarts, on the condition that `headersById_` answers `topBlockId_` with the top
(`TopIdIsTop`). The condition is there because the code does not ensure it across
a restart (`IdsNotReused` above). Within one run of the server (`MaxCrash = 0`) `IdInv`
proves the condition, which gives `MainBranchCorrect`, `TopCorrect`,
`BranchPointCorrect` and `RebuildsSettle` without it.
`ChainInv` strengthens the three properties by `SumOK` (a solved sum is the work
of a chain that is known down to the genesis block), by sums being there along
the whole main branch, and by what holds between a reorganisation and its rebuild:
the top is the first heaviest block, so the second pass picks it again, and the
recorded branch point is where the two chains part. The lemmas say what one walk
computes (`TraceLemma`), what the choice among all headers returns
(`HeaviestLemma`, `FirstHeaviestUnique`) and what marking leaves behind
(`MarkLemma`). `HeadersTyped` needs none of the conditions: `KeptInv` (what is in memory is in
the block files and has an id, what is in the HEADERS db is in memory, sums are unset or
right, a branch point is there while history is undone) holds through kills and with ids
used twice. `ChainTree_proofs` holds what they need of the tree: a chain has one
block per height (`HeightOnChain`), two chains part at one block (`ForkExists`), a
non-empty set of blocks has a heaviest one (`HeaviestExists`). Where an induction over
heights would be the natural argument, the proof takes the least counterexample
(`LeastNatural`) instead.

Duplicate ids: `DuplicatesUnique` holds with
any number of kills: `DupInv` says that the known headers and the HEADERS db are each
a prefix of the block files, hence closed under `prevHash`, so a header that is about
to be stored meets every stored header of its height. Its clause about the offset the
next parse starts from (what lies before it is in memory) is claimed only once a load
has ended: until then, and after a second kill during a load, the map is behind it.
`ValidDupUnlessIdsReused` adds that `validDupByHeight_` names the main branch, with kills, for the start-up path of known
addresses (`Tracking = "same"`) and under `TopIdIsTop` as above; `ValidDupCorrect` is
the same without that condition and within one run of the server. All three need
`InOrder`, parents before children in the files: `HeadersAgree` above is the orphan
that is stored at height 0 without it. `TiesKeepTop`: the top changes only for a chain
with strictly more work, within one run of the server and in any order of the blocks.

**Chain and history are about the same chain**: `BlockchainRefinement`
(`Spec => ImplementsMainBranch`, one run of the server) and `RefinementUnlessIdsReused`
(any number of kills, under `TopIdIsTop`) map `MainBranch` to the headers with a sum, the
top and the last `ReorganizationState`; a server that is down or loading has no top yet
and is mapped to the one it is going to find (`CurrentTop`). `Organize` is an
`Update` and `Crash` a `Restart`; parsing, the rebuild after a reorganisation, the put, the
maps and a start-up are invisible. What carries it is `ChainInv` and `HeldInv`: what the
HEADERS db holds is in memory, and what connects has been organised but for the blocks
just parsed, so that the rebuild changes nothing, and a restart loses headers and never
finds new ones. `HistoryFollowsMainBranch` says of the header side of `BlockHistory`
that it stays within `MainBranch` too, with no condition at all (`HeaderInv`: whole chains
are on disk and stored). So the theorems on histories below rest on what `Blockchain`
implements and not on a restatement of it.

**History**: `HistoryCorrect`, `StxoCorrect`, `TallyCorrect`, `BuilderNeverFails` and
`HistoryTyped`, for every tree, every way blocks arrive, every batch size, and any number
of interruptions, under `Setting`:
* `NeverShorter`: a heavier chain is not shorter (`HeavyWork` above fails without it);
* a clean stop is followed by a load, a kill by a rescan (the other two pairs are
  `CleanModes = {"balance"}` and the run `history_kill`);
* when there are interruptions, no two branches of equal weight, and no registration of
  new addresses (`TieWork`, and new addresses with a load).

`history_race` and `history_restart` are both instances of it. `HistoryInv` says what each
database holds at each place of the builder thread: SSH one chain up to `scanHeight_`,
each block once; STXO one chain up to the batch written last; SUBSSH the batch before
or the same. At rest that chain is the main branch (`RestInv`); during an undo
it is the old branch down to where the undo has come, for STXO and SSH separately
(`UndoInv`); during a scan the new branch up to the batch in work (`ScanInv`). `BootInv`
says which of these places a start-up can be at, and that it has not failed. The lemmas are `UndoneState`
(undoing the blocks above the branch point restores the state of the scan up to it),
`ScannedState` (a batch adds its own blocks' outputs and spends, once), `InputFound` (an
input's output is in STXO or in the batch) and `UtxoAfter`.

**Scan pipeline**: `PipelineSequential`, `ThrottleCorrect`, `HintsLag` and `PipelineTyped`,
for any number of batches, blocks and workers, any depth, unreadable blocks and
exceptions, and any behaviour of the three queues that `ClosableQueue` allows, which
is every behaviour of the real ones by `QueueRefinement`. `PipeInv` gives each
stage the number of the batch it is at (`Conveyor`: each queue holds exactly the
numbers between two stages, in order; a stage that keeps its last batch does so until
the queue before it is closed), says which blocks the workers of the outputs stage hold
between drawing and merging (`OutputsHeld`), that what the inputs stage has matched is
what the blocks drawn so far spend of the outputs there are (`Matched`), so that a batch
handed on carries exactly the spends of its blocks (`Passed`), and that STXO is the
sequential scan up to the batch committed last (`Committed`). That batches leave the
inputs stage complete although its workers race for the last block is the
clause that a worker which is done found the counter at its end.

**Node**: `FeedTyped` and `SignalsNotLost`, for any number of blocks and failing updates,
connections lost in any of the three ways, and a shutdown at any moment. `FeedInv` is `Kinds` (the type of each variable but for
the bound on the queue), `Progress` (what is signalled or read is on disk, and the chain
state is behind what was read), `JoinedFirst` (the reader is joined before the next
connection), `Greeted` (a node that has not greeted has sent nothing) and
`Announcements`: what is in the data stack, in `invBlockStack_` and in the reader's delay
is at most one per block on disk, one for the first connection, and the greeting
while it is in the data stack (`VerackQueued`).
`SignalsNotLost` states `SignalPending`, the safety half of `SignalledProcessed`: while an
announced block is missing from the chain state, an entry is queued, or the main loop has
yet to read the block files, or has read the block, or has drained an entry and will
update again, unless an exception or the shutdown has ended the loop.

**Zero-conf**: `ZcTypes`, `EntriesFound` and `ParsedComplete`, for any number of clients,
batches, new blocks and preprocessing threads, from `ZcBatchAssumption`. `ZcTypes` has no
other condition; its one hard part is that the counter of a batch, an unsigned number in
the code, is never taken below zero. `Books` in `TypeInv` says why: a body is matched
to a batch at most once (`JobsOnce`) and is there before it is counted (`CountedReady`), so
the counter is at least the number of hashes without a body or still to be counted
(`CounterCovers`).

The other two are under `FirstBroadcasts`: clients broadcast what no batch has had and
the network does not know (section 3 has the two instances without it). `OwnInv` gives each
transaction one owner at a time: a registered request (`TodoOnce`), then one batch of a
client (`ClientOnce`), then the RPC thread and its batch (`RpcOnce`); the watcher
map's entries of clients are exactly those the first two own (`EntryOwned`), and that of an RPC batch
is there until its call fails, which fails the batch before it collects (`RpcEntry`). The
latter needs that nobody else can fulfil the promise of such a batch: while the call is
out no body of its transaction has come from anywhere (`CallsFirst`, `Bodies`), which is
where the network's knowing the transaction would hurt. `BodyInv` says that the bodies of a client's batch
come from the watcher node alone until it is parsed (`LiveTold`, `ParsedTold`), which are
the ones a failed batch keeps: its wait for a number of transactions ends when the bodies
it has, a subset of what it keeps, are as many, that is, all of them. A batch whose
promise is fulfilled is complete by then (`SuccessComplete`).

**Dispatch**: `PacketsNotStranded`, `RepliesDecrypt` and `StreamsInOrder`, for pools of any
size and any commands; the first two with other clients that join at any moment (no
condition on `QuietJoins`).
`NoPacketStranded` is inductive once the readers' records are known to be records:
a packet enters the queue one step before its token, a token is given up for a place
in the loop, and the loop is left only on an empty queue. `RepliesDecrypt` states
`RepliesInOrder`, the server-to-client half of `StreamsDecrypt`. Its invariant
`WriteInv` has three parts: `WritersApart` (`writeLock_` admits one thread),
`SessionsAgree` (the server's session equals the client's, or is ahead by the one
packet that the thread under the lock has encrypted and not sent), and `RepliesNamed`
(no reply can be taken for a rekey). `StreamsInOrder` states all of `StreamsDecrypt`, under
`QuietJoins` (`dispatch_leftover` is the case without it). Its invariant `ReadInv` adds
`ReadersApart` (`readLock_` admits one thread, which works on the map in force) and
`WireWhole`: the part left over, the packet in the reader's hands, `readQueue_` and
`packetQueue_`, one after the other, are what a session encrypts on its way from the
server's to the client's (`Train`): each packet under the session the one before leaves
behind, a rekey changing the key, the two parts of a cut packet next to each other. The
lemmas are about trains: what the client sends is one (`TrainSent`), trains join
(`TrainJoin`), and one is left when whole packets are taken off the front
(`TrainRest`).

`DispatchTyped` needs no condition either, and is more than typing: `TypeOK` has that no
piece of a command that has run is in `messageMap_`, where nothing would ever take it out
again. `DispatchInv` follows each piece from the client to its command: `PlaceInv` (queues,
readers' hands and parts left over hold packets), `FlightInv` (a piece on its way has one
sequence number, and while the session has yet to meet it, it is not held anywhere behind
the session and its command has not run), `HeldInv` (behind the session a piece is either
queued, or in one parser's hands, or in the map, and its command has not run),
`ParsersApart` (`packetProcess_threadLock_` admits one thread) and `ReplyInv` (nothing but
the registration is sent or answered before it). A command is therefore complete exactly
when none of its pieces is anywhere else (`ProcessKeeps`).

**Only model-checked**: all liveness (the prover has no fairness reasoning), and the
properties of the main branch across a restart without the condition `TopIdIsTop`, which
`chain_fork` checks with one kill. Every invariant of a passing run is stated by a
theorem, under the conditions given above.

## 5. Correspondence

`PROJECT.json` maps each definition to its lines. Definitions whose comment
begins with "Mutant" are no part of a specification: each is a plausible mistake
in the definition that follows it, and the property paired with it fails when it
is put in its place.

## 6. Not modelled, and the plan

Hazards of the code that no property covers, besides the ones in `PROJECT.json` with a
note: client threads that read the header maps during a rebuild, when `topBlockPtr_` is
null (`Blockchain.cpp:289`, a data race); `TimedQueue`, whose `terminate` notifies
without the mutex and is noticed at the time-out at the latest
(`ThreadSafeClasses.h:552`); notifications of one viewer that overtake each other in
the put-back pool (`BDM_Server.cpp:2521`); registration of addresses during an update
(`ScrAddrFilter.cpp:362`).

Next, in this order:
1. The notification threads of the viewers; registration of addresses against a
   concurrent update, in `BlockHistory`.
2. Chained and replaced transactions, and the mempool database, in `ZcBatch`.

Left out for good: payload, database and script formats, cryptography and the
handshake that sets up the keys (two parties that take turns), key derivation, coin
selection, per-client caches and paging, the supernode scanner (same protocol over
sharded tables), vendored libraries. LMDB itself is taken as what the wrapper relies
on: a committed write transaction is atomic and durable.
