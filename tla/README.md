# A verification project for WeaveDB

WeaveDB is a document database whose engine runs in a rollup node.  Clients
sign queries; a node executes them against a local store, keeps a write-ahead
log (WAL) of the signed queries, ships that log to a HyperBEAM process, and
validators replay the HyperBEAM log to compute and publish compressed state.
Scheduler units, compute units and bundlers serve the AO protocol over the same
log.  This directory holds TLA+ models of the parts that carry that logic, the
TLC runs that check them and the TLAPS proofs about them.

## 1. Inventory

| component | source | state | operations | hard behaviour | modelled in |
|---|---|---|---|---|---|
| weavekv | `core/src/weavekv.js`, `io.js`, `kv*.js` | buffer `l`, cache `s`, queue `c`, counter `i`, flag `on`; durable keys, `__wal__`, `__priv_wal__`, `__meta__/current` | `put`, `del`, `get`, `reset`, `commit`, the private flush | flush suspended at two awaits, flag cleared by several frames, restart | `WeaveKV`, `CommitLog` |
| write pipeline | `core/src/db.js`, `build.js`, `queue.js`, `dev_*.js` | `_config/info`, `__ts__`, `_accounts`, `_` dirs, access rules, documents | `normalize`, `verify`, `parse`, `auth`, `write`, `result`; `init`, `mkdir`, `setAuth`, `add`, `set`, `update`, `del`, `batch` | one failing step of several, side effects of reads, numbering | `Engine` |
| B+ tree | `core/src/bpt.js` | nodes, root | `insert`, `delete`, `rmIndex`, `range`, `search` | splits, borrows, merges, separators | `BPTree` |
| indexes | `core/src/indexer.js`, `dev_add_index.js`, `dev_remove_index.js` | a tree per index, the list of indexes | `put`, `update`, `del`, `addIndex`, `removeIndex` | several fields of one index change at once, late indexes | `Directory` |
| triggers | `core/src/dev_trigger.js`, `dev_add_trigger.js`, `dev_remove_trigger.js` | `dirinfo.triggers`, bodies | `addTrigger`, `removeTrigger`, `trigger` | one reference counter for all, which change is an event | `Directory` |
| upgrade and version gate | `core/src/core.js`, `dev_upgrade.js`, `dev_revert.js`, `dev_migrate.js`, `dev_version.js` | `_db`, `old_db`, the store object they share; `info.version`, `info.upgrading` | `upgrade`, `revert`, `migrate`, the swap of the engine | an awaited download between commit and swap, which may overtake a flush, its failure, restart | `Service` |
| SDK client | `sdk/src/db.js` | `_nonce`, `count` | `set`, `sign`, `nonce` | overlapping calls, lost answers, the one retry | `Service` |
| WAL shipping | `hb/src/wal.js`, `commit_wal.js` | in-memory `height`, `__meta__/height` | `commit`, `start` | error after the message was accepted, restart of the loop | `RollupNode` |
| recovery | `hb/src/recover.js` | `i`, `height`, store | `recover` | replay of a log with duplicates, crash half way | `RollupNode` |
| node server | `hb/src/server.js`, `server-utils.js` | `dbs`, `dbmap`, `pids` | `/set`, recovery at the start | awaits between check and assignment, init of a database that is listed already | `RollupNode` |
| message sync | `hb/src/sync.js` | `slot`, `__msg__`, `__slot__`, `ongoing` | `get`, `startSync`, `stopSync` | crash between pages | `Validator` |
| validator | `hb/src/validate.js`, `validator.js` | `wslot`, `cslot`, `__wmsg__`, `__changes__`, `nonce` | `onslot`, `write`, `commit`, `schedule`, `compute` | crash between write and bookkeeping, retry of a schedule | `Validator` |
| scheduler unit | `hb/src/su.js` | `msgs`, `ongoing`, the stored messages | `POST /` | duplicate submissions, three deliveries that fail independently, restart | `AOUnits` |
| compute unit | `hb/src/cu.js` | `wslot`, `__results__`, `subs` | `write`, results over HTTP | crash between commit, result and slot | `AOUnits` |
| bundler | `hb/src/bundler.js`, `bundler-utils.js` | `min`, `current`, `missing`, `done`; `msgs`, `ongoing` | `POST /tx`, `processMissing`, `processMessage` | out-of-order slots, duplicates, two handlers of one message | `Bundler` |
| planner and query parser | `core/src/planner.js`, `parser.js`, `dev_get.js` | none | `get` | merging of sorted results | not modelled |
| ZK prover | `hb/src/zkp.js`, `zkjson.js`, `zkdb_ab.js` | as the compute unit, plus proofs | `commit`, `/zkp` | circuits | not modelled |
| Rust rollup | `rollup/src/*.rs` | a port of engine and node | as above | as above | not modelled |

The components interact as follows.  The SDK posts a signed query to the node
server, which looks up the engine of the database and calls its queue; the
engine runs one query at a time through its pipeline of devices over weavekv.
A directory's documents are in B+ trees over the same store, and a change of a
document runs triggers.  weavekv makes committed transactions durable in the
background.  The WAL loop of the same process polls the durable WAL and posts
bundles to HyperBEAM.  On startup recovery replays the HyperBEAM log into the
local store.  A validator (another process) polls the HyperBEAM log through
sync, unpacks the bundles, replays the queries in slot order into its own
engine, and posts the compressed changes.  A scheduler unit puts the messages
of other processes into a HyperBEAM log and asks a compute unit, which follows
that log with an engine of its own, for their results; a bundler uploads them.

What makes each part correct, in one line each: the store loses no committed
transaction and its WAL is a gapless, append-only history of it; the pipeline
takes a query whole or not at all, once, in nonce order; a tree finds what was
put in and nothing else, in order; an index holds what its directory has; a
trigger runs when it is declared to; the engine is the one the database's
version admits, and what the client is told is so; the node ships every durable
WAL entry and never one that a crash can take back; recovery changes nothing
that is already there; a validator replays the whole log, once and in order, and
posts the changes in order; a message is scheduled, executed and answered once,
and done means that nothing is left to be done; the bundler accounts for every
slot.

`PROJECT.json` lists, under `hazards`, where in the code each of these is at
risk, and under `components` the parts that are left out, with the reason.

## 2. Modules

| module | models | state |
|---|---|---|
| `CommitLog` | what a transactional store promises: a log that grows, a durable prefix that grows, a crash that cuts the log back to it | `log`, `durable` |
| `Nonces` | which query the engine accepts after which others, as far as nonces and init go (`dev_verify.js`) | none |
| `QueryLog` | what the engine promises of the log of one database: a legal history, and one accepted query after another | `log` |
| `WalFeed` | what a node promises those who follow its HyperBEAM log: bundles of consecutive entries of its durable WAL | `size`, `hb` |
| `WeaveKV` | `core/src/weavekv.js` statement by statement between awaits | the variables of the closure, the suspended flushes, the durable keys |
| `Engine` | the routes `write` and `read` of `core/src/db.js`, `build.js`, `queue.js` and the devices they run | the committed database, the database seen through the buffer, the documents in the store, the log of committed queries, the clock |
| `BPTree` | `core/src/bpt.js` | one tree, and the documents that should be in it |
| `Directory` | `core/src/indexer.js` and the trigger devices | the documents, the entries of every index, the triggers and their bodies |
| `Service` | `sdk/src/db.js` against `core/src/core.js` with the version devices | the client's counters and where each call is; the engine, the one kept aside, the version; the store |
| `RollupNode` | one database of `hb/src/server.js` with `wal.js` and `recover.js`, on top of a `CommitLog` | the store, `__meta__/height`, the HyperBEAM log, the WAL loops, the locals of `recover()` |
| `Validator` | `hb/src/sync.js` and `hb/src/validate.js` | their durable keys, where each of the three timers' functions stands, what the validation process has taken |
| `AOUnits` | `hb/src/su.js` and `hb/src/cu.js` with HyperBEAM between them | `msgs` and what is stored of them, where each handler is; the log; effects, results and `wslot` |
| `Bundler` | `hb/src/bundler.js` and the upload of `bundler-utils.js` | `msgs`, `ongoing`, where each handler is; the book of the slots |
| `WeaveKVProofs`, `EngineProofs`, `ServiceProofs`, `DirectoryProofs`, `RollupNodeProofs`, `ValidatorProofs`, `AOUnitsProofs`, `BundlerProofs` | the theorems about the module of the same name | |

`MCWeaveKV`, `MCEngine`, `MCBPTree`, `MCDirectory`, `MCService`,
`MCRollupNode`, `MCValidator`, `MCAOUnits` and `MCBundler` hold the values that
the configurations give to the constants.

How they compose.  Three abstract specifications stand between the modules, and
each is implemented by the module below it:

- `CommitLog`: `WeaveKV` implements it (`ImplementsCommitLog`), and `RollupNode`
  instantiates it for its store, so that the node is checked against what the store
  was shown to promise and not against the store's internals.
- `QueryLog`: `Engine` implements it (`ImplementsQueryLog`), by the mapping that
  forgets of a query everything but its signer, its nonce and whether it is init, a
  batch that writes nothing (`void`), or any other.
  Its operator `accepts` (module `Nonces`) is what the engine answers in
  `RollupNode` and `Validator`; `AOUnits` and `Service` have verdicts of their own,
  for one signer (`accepts`, `verdict`).
- `WalFeed`: `RollupNode` implements it (`ImplementsWalFeed`), by the numbers of the
  entries in the HyperBEAM log; the bundles that `ship` appends in `Validator` are
  the ones of `WalFeed`, with repeats, gaps and late arrivals.  That the WAL they
  come from is one an engine accepts, which `Validator` assumes (`Legal(Wal)`), is
  the theorem `LogIsLegal` about `RollupNode`; that the entry under a number never
  changes is in `ShippedIsDurable`.

`Directory` takes a tree as the set of its entries; that a tree of `bpt.js` is one is
what `BPTree` is checked for.  `AOUnits` takes from `Validator` that sync forgets
no message of the log (`SavedSlotIsComplete`).

**WeaveKV.**  A flush is a record with a program counter: it waits for its
`io.transaction` (`queued`), for the promise of it (`ran`), or for the frames of
the recursion to return (`unwind`, with `depth` frames).  `transaction` is the
callback, which drains the whole queue at once; `settle` is what follows the
await up to the next one; `unwind` is one frame clearing `on`.  `restart` also
stands for a rejected transaction, which nothing catches.  `null` and
`undefined` are two values, because `??` treats them alike and the rest of the
code does not.  Values, timestamps, hashpaths and the `delta` option are data.

**Engine.**  A query runs without an await, so it is one action.  `passes` says
of a database, a query, a clock and the documents in the store that no device
throws, and `run` is the database that is left then; both go through the
operations of a batch, of which there may be none, one after the other (`Steps`).
`dev_batch.js` has a writer for documents only (`HasWriter`): in a batch `init`,
`mkdir` and `setAuth` are authorised and then do nothing.  So a batch may be
committed before init, if it writes nothing, and this is a third kind of query for
`Nonces`, accepted at any time.
Documents are their ids.  `visible` is `get()` of weavekv as seen from a query:
what the query has deleted, and what is deleted but not flushed, is still found.
`flush` is the background flush of `WeaveKV`, here in one step.  An access rule
is the set of operations it names and whom it allows; `dirinfo.auth` is built
key by key (`Assigned`), because a key that comes again keeps its place.  A
replica is a recursive function, `replay`, over the log.  The histories that a
behaviour may begin with are logs none of whose queries throws
(`HistoryAssumption`).  `Queries` is the log for `QueryLog`.

**BPTree.**  `insert` and `delete` are the two operations; everything the code
does in between (`_split`, `splitChildren`, `rmIndex`, `balance`,
`updateIndexes`) is a function from trees to trees, one per function of the
source.  The ids of nodes are opaque in the code, so after each operation the
nodes that can be reached are numbered again in preorder and the others are
dropped; two trees that differ in the ids only are one state.  A pointer to a
node that is gone becomes `Dangling` and breaks `TypeOK`, a part of
`IsBalanced`.  The store is flushed
between operations.

**Directory.**  `put` creates or replaces a document and `del` removes one, with
what they do to every tree; `addIndex` and `removeIndex` see the documents that
`range()` returns; `addTrigger` and `removeTrigger` change the two places a
trigger is stored in.  `ran` is the set of triggers the last query ran.  A change of a
document throws when a trigger has lost its body, and nothing else depends on
triggers; section 5 says why no property is claimed of them.

**Service.**  A call of `set()` is `new`, then `sent`, at the node (`fetching`
while the node downloads an engine for it), `answered`, and over; a refused nonce
takes it through `renonce` and `nonced` back to `sent`.  `write` is the engine's
turn, including what the wrapper in `core.js` does after it without an await;
`fetched` and `notFetched` are the two ends of the awaited download.  A new engine
comes with a new store object, which both engines use from then on: it starts from
the durable store, and what the old object has not flushed is `pending`, read by
nobody until it is flushed.  A query or a read in between is recorded in `stale`.  A
recovery downloads the engine of the database's version, or fails to and leaves
none (`unfetched`).

**RollupNode.**  `set` and `initDB` are the two branches of `/set`; `poll`,
`answer` and `fail` are the WAL loop at its awaits; `accept`, `arrive` and
`vanish` are HyperBEAM; `recover`, `replay`, `nextPage` and `recoverFails` are
the recovery that the server runs when it starts, once for each time the list of
pids holds the database (`pids`, `left`): `initDB` lists it again, and starts a loop,
whether or not the recovery has done so (`server.js:167`).  `calm` records whether
that has started a loop beside another one, or a bundle of a dead process was on
its way when a recovery began.  `Numbers` is the HyperBEAM log for `WalFeed`.
`lossy`, chosen once, tells whether requests may fail and answers be lost.

**Validator.**  `ship` is the node, as a `WalFeed`: any bundle of consecutive entries
of the WAL, also one that comes again, late, or before those it follows.  `get`,
`nextMsg`, `onslot`, `nextPage` are sync; `write`,
`dbWrite`, `mark`, `wkvCommit`, `flush`, `putCh`, `putChanges` are one turn of
`write()` with the store's callback; `post`, `take`, `done`, `exit` are one turn
of `commit()`.  A restart is a `Validator` object created again for the same
process id: durable keys stay, the module variable `nonce` is 2 again.  `Attaches`
says that entry 0 has the second element that `write()` reads a version from, which
only an empty batch does not.

**AOUnits.**  A handler of `POST /` is at one of its awaits: scheduling, waiting
for the result, uploading (`arweave`), sending the result (`aos`), or about to
decide whether the message is done.  `ongoing` is that a handler is not `idle`.
`execute`, `store` and `mark` are `write()` of the compute unit.  Both units may
die; a request that waits for a unit that dies throws.

**Bundler.**  A handler is a message and one of two that may work on it at once.
`begin` to `end` are the steps of `processMessage` between its awaits; `record`
is the synchronous bookkeeping of the slot with the put that follows.  An upload
succeeds, fails, or is pretended (`bundler-utils.js:48`).  `valid`, chosen at the
start, is the slots whose message is an ANS-104 item with a valid signature; the
others are dropped (`bundler.js:194`, `:202`).

## 3. Runs

| run | bounds | distinct states | what it shows |
|---|---|---|---|
| `kv` | one public and one private key, one value besides null, three numbered transactions at a time, any number of restarts | 124 884 | WAL gapless and append-only, store equal to its replay, no lost flush, every durable entry reported once and in order, reads return the latest value except behind an unflushed delete, implements `CommitLog`, every commit becomes durable unless the process restarts |
| `engine` | two signers, two directories, a new database or one with an open directory, three more committed queries, one tick, one read, three rule lists, four batches (half failing, rewriting what it deletes, empty, without a writer) | 171 039 | nonces count committed queries, the stored rules are those of the last `setAuth`, `add` creates a document, `ts64` increases, a replica agrees, implements `QueryLog` |
| `bpt` | trees of order 3 and 4, nine documents in any order of insertions and deletions | 18 553 | no dangling pointer, every document is found, nodes are filled and leaves at one depth, every range query in both directions is exact |
| `directory` | two documents, two fields, two values, one two-field index, two triggers of four kinds, `range()` of one document | 30 598 | every index that saw all documents is exact |
| `service` | three calls, two engines, one crash | 1 939 443 | a call takes effect at most once and is told so, a client that waits is never refused for its nonce, the engine fits the version, after a recovery that may find no engine, too |
| `service_revert` | two calls | | violation: a revert that overtakes a running download leaves no engine |
| `node` | one signer, two entries, four slots, two crashes, two inits that attach, lossy or not | 326 219 | only durable entries are shipped, in bundles of consecutive ones under their numbers (implements `WalFeed`); no query takes effect twice; recovery on a surviving store commits nothing; without lost requests every entry is shipped exactly once, in order, and eventually, while the node is `calm` |
| `node_fresh` | three entries in one or more bundles | | violation: recovery into an empty directory loses the database |
| `validator` | three entries of two signers, two slots with any bundles, pages of one slot, batches of two, one crash and any number of exits, or none | 328 188 | the download forgets nothing, no entry takes effect twice, out of order or without init and its signer's earlier ones, changes are posted in order and once; without a crash the whole log is replayed, what is posted is a prefix of what took effect, and every entry shipped with all before it is eventually posted |
| `validator_loses` | two slots, one crash | | violation: entries marked as replayed but not committed are lost |
| `ao` | two messages, three slots, two failures or crashes at any await of either unit, with and without a bundler | 201 415 | effects follow the log, done is complete, nothing is scheduled or answered twice while nothing fails, a posted message is answered |
| `bundler` | three slots, any of them with a message that cannot be uploaded, two posts in all, two failed uploads or crashes | 275 487 | the book accounts for every slot once, a recorded slot was uploaded, a missing slot is done eventually if it can be uploaded |

Why the bounds are enough.  In `kv` two commits during one flush, and a commit
during the unwinding of another, need three transactions; overlapping flushes do
occur.  In `engine` the open directory stands behind three queries, so that set,
delete and a third query fit: that is what it takes to write behind an unflushed
deletion.  Two signers tell the owner from others, two rules with one key are the
case in which `dirinfo.auth` has fewer entries than bodies.  In `bpt` nine
documents give three levels with both orders, so that inner nodes split, lend,
join and lose the root; the code's order of 100 is even, as 4 is, and 3 has the other
rounding.  In `directory` two values let one field change while the other stays,
and one document more than `RangeCap` makes an index see too few.  In `service`
an upgrade, a query that overtakes its download and a revert or migration are
three calls; a longer sequence (upgrade, migrate, upgrade, revert before the
second download ends, which puts back the engine before the last) is beyond the
run, and is covered by the proof of `EngineFits`.  In the node run a second
loop takes an init that attaches again; two of them, and two crashes, show the list
of pids with a repetition, two recoveries of one start and a loop of each, and a
process may have three loops.  Two entries and four slots leave room for each entry
to be shipped twice.  The list of a long-lived node may be longer (`MaxLoop`); the
proofs are about any.  The pages of the code are 100 and 20 slots long, which four
slots never fill.  In
the validator runs pages of one slot and batches of two entries make page and
batch boundaries fall between bundles and inside them, two bundles are what it
takes to overlap, to leave a gap and to close one late, and the second signer's
two entries tell a lost entry of one's own from that of another.  In `ao` a third slot is what a
message that is scheduled twice takes, beside the other one.  In `bundler` the
slots 0, 1 and 2 are the process itself, a slot that can be skipped, and one that
skips it; two posts, whichever they are, make one skip the other or repeat it, and
what was skipped comes from `processMissing` without a bound.  The proofs are about
any number of posts.

Symmetry is used over the signers in `engine`, the values and the keys of
triggers in `directory`, and the calls in `service`: the modules treat them
alike, and none of these runs checks liveness.

`CHECK_DEADLOCK FALSE` is set where the bounds on writes, slots, calls or crashes
end a behaviour.

Fairness.  In `WeaveKV` the store runs the transactions it is handed and the
event loop runs ready microtasks: weak fairness of the steps of each flush; none
of queries or restarts.  In `RollupNode` the WAL timer, HyperBEAM's answers, the
flush and the steps of a recovery are fair, and a server that is down is started
again; client requests and crashes are not.  In `Validator` the three timers, the
store and the validation process are fair, one condition per timer, because each
function runs to its end before its timer is set again.  In `AOUnits` each handler
goes on as long as what it waits for answers, and the compute unit's timer
fires.  In `Bundler` each handler goes on and the timer of `processMissing`
fires; posts and failures are not fair.  `Service`, `Engine`, `BPTree` and
`Directory` are checked for safety only.

### Findings

`PROJECT.json` has the lines of code and of what they contradict.

1. `node_fresh`: recovery attaches the engine at entry 1, and init is entry 0.
2. `validator_loses`: `__wslot__` is durable before the entries it covers.
3. `service_revert`: the engine to go back to is kept only when the download has
   succeeded, and a revert is allowed, and asked for, when it has not: because it
   is still running, as in the trace, or because it failed.

## 4. Proofs

`WeaveKVProofs`, for all keys, values and bounds (from `KVAssumption` only: null
and undefined are no values, and differ):

- `TypeCorrect`: `Spec => []TypeOK`.  The work is in `Applied` and `Logged`, which
  choose the last entry of a batch that touches a key; `LastExists` shows by
  well-founded induction that there is one.
- `WalIsGapless`: `WalGapless` is inductive given the types: it says of the WAL,
  the queue and the counter together what is true of each of them alone only
  because of the others.
- `WalIsAppendOnly`: from `WalGapless`, since a drained number is above `current`
  and so not in the WAL yet.
- `FlushIsNeverLost`: `NoLostFlush` is not inductive, since `commit` starts no
  flush when `on` is set.  The strengthening is `FlagIsSound`: the flag is up only
  while some flush will look at the queue again.  It survives the frames that clear
  the flag late because they only ever clear it.
- `StoreIsAReplay`: inductive with `WalGapless`, which puts a drained batch after
  all older entries, so that the last change in the batch is the last change in
  the WAL.
- `StoreImplementsCommitLog`: the abstract log is the public part of the WAL
  followed by the queue (`Committed`), the durable prefix has length
  `current + 1`.  `commit` is `Commit`, `transaction` of a queue that is not empty
  is `Flush`, `restart` is `Crash`, everything else is a stutter.
- `ReadsAreLatest`: `ReadsLatest` says nothing of what the cache holds while a
  flush is under way.  The strengthening `CacheIsAhead` does: the cache has what
  the queue will leave in the store, and knows every key the queue touches.
- `EventsAreInOrder`: `ReportsContinue` lays the flushes whose transaction has run
  end to end (`Chain`): they cover, in the order they are settled, exactly the
  numbers from the last one reported to `current`.

`EngineProofs` (from `EngineAssumption` and `HistoryAssumption`), for any signers,
directories, lists of rules, batches and histories:

- The invariant under all six theorems is `EngineInv`: the committed state and
  the one a query starts from are `Good`, and differ only in what `normalize` sets.
  `Good` says that directories have indexes of their own, that there is neither
  owner nor directory before init (so nothing else passes), and that the stored
  bodies are those of the last `setAuth`.  There is one lemma for each operation
  (`InitGood`, `MkdirGood`, `SetAuthGood`, `AddGood`, `DocsGood`); `RunGood` carries
  them through a batch.
- The recursions (`AuthOf`, `Steps`, `replay`) are functions, and the lemmas
  `AuthExists`, `StepsExist` and `ReplayExists` show that functions that obey their
  equations exist; what they compute then follows by induction over a set of
  numbers (`Induction`).
- `NoncesCount`: a query that is committed adds one to its signer's nonce and one
  entry to the log; `HistoryNonce` is the same for the log behind the database.
- `BodiesAreTheLast`: the two halves of `RulesAreTheLast` are part of `Good`; the
  bodies of two directories do not meet, because their indexes differ.
- `AddsCreate`: `GenFinds` shows that the probe of `genDocID` ends: among one more
  numbers than there are documents, one is free.
- `ReplicasAgree`: what `normalize` sets decides nothing (`PassSame`, `EffectSame`),
  and without an unflushed deletion a query sees the documents of the committed
  state only (`RedoSame`).  The strengthening `AgreeInv` is about every clock of the
  replica, since the clock moves on after the replay.
- `TimestampsIncrease`: for behaviours in which fewer than a thousand queries are
  counted in one millisecond (`FewPerTick`).  Without that the claim is false: `ts64`
  is `ts * 1000 + count`, and nothing in `setTS64` bounds the count.  `TimeInv` says
  that reads move the time and the count only ahead of the last entry's.
- `EngineImplementsQueryLog`: the strengthening `LogFits` ties the state to the log:
  the log is `Legal`, every signer's nonce is that of the signer's last query in
  it, and there is an id just if init is in it (`Fits`).  With it the checks of
  the pipeline are those of `accepts` (`FitsOneMore`); `RunId` shows of a query that
  passes, whatever operations it has, that it makes the database just if it is
  init, and writes something only if there is one.  `HistoryFits` is the
  same for the history, by induction over its queries.

`RollupNodeProofs` (from `NodeAssumption`: pages are not empty):

- `NoQueryTwice`: a query takes effect only if its nonce follows the last one of
  its signer, and the last one is chosen from the log.  That there is a last one in
  every prefix of the log (`LastExists`) is part of the invariant: it is shown along
  the behaviour, as the log grows and is cut back, instead of by induction over
  its length.  The types need that no bundle is empty (`Filled`) and that
  recovery stands at an entry (`AtEntry`).
- `ShippedStays`: `ShippedIsDurable` is inductive given the types, because a loop
  takes what it ships from the durable prefix, which a crash keeps.
- `RecoveryChangesNothing`: a message in the HyperBEAM log is an entry the engine
  has, so the nonce of its signer has reached it (`ShippedIsRefused`).
- `ShipsOnce`: under `PagesFit`: the pages of recovery have one length, or the log
  fits in the first.  With the lengths in the code, 100 and 20, that is a log of
  fewer than 20 slots; section 5 says what happens to a longer one, and the theorem
  holds for any length once the two are the same.  The strengthening `ShipInv` says
  that while no request is lost and the node is `calm`, there is one loop and the
  list has the pid once, that at most one bundle of a dead process is still on its
  way, that both go on where the HyperBEAM log ends, and that the counter of a
  recovery is the number of entries before its place in the log.  Once the node is
  not calm it fails; section 5.
- `LogIsLegal`: the log grows by accepted queries and is cut back to a prefix
  (`LegalOneMore`, `LegalPrefix`).
- `NodeImplementsWalFeed`: a flush is `Grow`; a bundle that HyperBEAM schedules, of a
  living process or a dead one, is `Ship`, because it is a copy of durable entries
  (`ShippedIsDurable`) and not empty (`Filled`); everything else is a stutter.

`ValidatorProofs` (from `ValidatorAssumption`: pages and batches are not empty, and
the WAL is legal):

- `DownloadIsComplete`: the strengthening `SyncInv` says where in its page `get()`
  is: up to the slot in memory everything is stored but what is left of the
  message being stored (`Place`, `AtMsg`, `Downloaded`), and `__slot__` is below
  that message.
- `EffectsInOrder` and `ReplayIsWhole`: the strengthening `WriteInv` puts what the
  engine has seen below the entry that is executed next, in all places where
  `write()` can be, although `wslot` is advanced before the batch is committed.
- `EffectsFollowSigners`: the strengthening `LegalInv` says that what the engine has
  seen, taken as a log of its own, is legal.  A batch that a crash forgets cuts it
  back to a prefix, and what passes is what `accepts` admits.  In a legal log each
  signer's nonces are 1, 2, ... (`LegalFollows`, `LegalOrdered`, by induction); the
  WAL is legal too, so a nonce stands for one entry of its signer, and the nonces
  before it for the signer's entries before it (`LegalIsInOrder`).  `KnownInv` keeps
  the entries that are shipped and downloaded within the WAL.
- `PostsInOrder`: `PostInv` bounds the nonce of the process by what the validation
  process has taken, so that after a restart it is refused rather than taken again.
- `PostsAreTheStore`: `BatchInv` has a sequence of prefixes of the store, one for
  each batch that is recorded, each the one before and that batch (`AddUp`); that
  they are what `FlattenSeq` gives is `FlattenIs`, by induction.

`AOUnitsProofs` (from `AOAssumption` and `NoneAssumption`: there is a number of
messages, and the mark of a missing record is no record):

- `DoneMeansDone`: `AOInv` says of every record in memory and on disk, and of the
  locals of every handler, what they have behind them (`At`), so that it survives
  the loss of the memory and of answers.
- `NothingTwice`: `OnceInv` ties the log, what was sent, the results and the
  effects together while nothing has failed.
- `EffectsAreTheLog`: `FollowInv` says which slots are behind `write()` at each of
  its awaits; that the replay of a prefix does not change when the log grows is
  shown by induction.

`BundlerProofs` (from `SlotAssumption` and `NoneAssumption`):

- `BookIsExact`: `Accounted` is inductive with the types; the bookkeeping of one
  slot, with the loop of `delDone`, is a lemma of its own.
- `RecordedWasUploaded`: with `MemInv`, what memory says of a message is so, and a
  handler that is about to record a slot has its uploads behind it, also when a
  second handler shares the record.

`ServiceProofs` (from `VersionAssumption`: the versions are not names of
queries):

- `AnswersAreTrue`: how often a call took effect follows from where it is
  (`RanIsKnown`).
- `EngineAlwaysFits`: the strengthening `EngineIsKnown` follows the engine that is
  kept aside (`Known`) through downloads, migrations and reverts.  It is about the
  state the last query made, which may be in a store object that was replaced; what
  that means for the durable store is `StoreIsRead`.  A database that was recovered
  without an engine stays as it is (`Fits`).
- `SequentialAlwaysSucceeds`: `SeqInv` says that one call is under way, and that the
  retry is signed with the nonce that the engine waits for, and that nothing was
  left `pending` when the nonce was asked for.

`DirectoryProofs` (from `DirectoryAssumption` and `NoneAssumption`):

- `IndexesAreExact`: one lemma for each of the ways a document comes, changes and
  goes, about the entries of an arbitrary index; and one for an index that is built
  or given up.

Only model-checked: liveness (`EventuallyDurable`, `EventuallyShipped`,
`EventuallyPublished`, `EventuallySent`, `MissingIsRetried`), which is out of the
prover's reach; and `BPTree` (`EveryKeyIsFound`, `IsBalanced`,
`RangeIsExact`), whose algorithms are `RECURSIVE` operators on trees, which the
prover does not take.  Every other invariant and action property of a passing
run is stated by a theorem.  The proofs are about safety of `Spec`; the fairness
conditions are not used.

## 5. What the models do not say

What was seen in the code while it was modelled, and is outside what the runs
check or presuppose.

**Store and engine.**

- `weavekv.js:52` stores the public data under `__priv_wal__` too.
- A batch is committed whatever it holds (`dev_parse.js:35`): one that is empty, or
  has only operations that `dev_batch.js` has no writer for, takes a nonce and a WAL
  entry and writes nothing, on a database without init, too.
- `get()` looks behind a `null` (`weavekv.js:9`).  A document that is deleted and
  set again before the flush, or in one batch, is treated as an update
  (`indexer.js:526`): it is stored, but not in the id tree, so no range query finds
  it.  For the same reason `update` of a deleted document passes, and `add` steps
  over its id (`utils.js:71`).  What such a query does depends on the speed of the
  flush, so a replica may differ; `ReplicaAgrees` is about logs without one.
- The clock in `Engine` is not set back.  If it is, `setTS64` (`utils.js:340`)
  starts a count at 0 for a millisecond that already had one, and timestamps
  repeat.  They also do when a thousand queries are counted in one millisecond,
  since the count runs into the next one; `TimestampsIncrease` leaves that out.
- A replica does not reach the same `info.ts`, `__ts__` and `ts64`: `setEnv`
  (`dev_normalize.js:77`) looks for `msg.ts`, but `pickInput`
  (`dev_normalize_httpsig.js:144`) has rebuilt `msg` from the signed headers, so
  a replayed query gets the clock of the process that replays it.
  `ReplicaAgrees` leaves those fields out.
- `flush` in `Engine` shows the whole committed state at once.  LMDB shows it a
  moment after the callback, which only makes deletions visible for longer.
- The contents of documents, schemas, FPJSON, cryptography, ARJSON and ZK circuits
  are not modelled.

**B+ tree.**  `endAt`, `endBefore`, `limit` and the cap of 1000 only cut a result
short, and cursors are bounds with a tie-break; they are left out, as are the
planner and its merging of several ranges.  A removed node is a `null` in the
store, and is visible until the flush in the same way as a document is: the ghost
of a removed root is not modelled.

**Directory.**

- `del()` looks at the top-level fields of a document only (`indexer.js:218`), `put()`
  at nested ones too: entries of nested fields stay when the document is deleted.
  Nested and array fields are left out, and so are nulls, which `put()` inserts
  twice.
- `addIndex` and `removeIndex` work on what one `range()` returns (`indexer.js:71`),
  at most 1000 documents.  `IndexIsExact` leaves out an index for which that was
  not all (`capped`).
- `dev_add_trigger.js:21` starts `triggers_index` at -1 on every call, so all
  triggers of a directory have reference 0: the body of the last one added
  replaces the others, and after removing one every later write of the directory
  throws.  `structure.mdx:117` gives each trigger a place of its own.
- `dev_trigger.js:53` compares the fields of the old document only: an update that
  adds fields fires no trigger, or leaves the new fields out of what is matched
  (`triggers.mdx:19`).  The models do as the code does, and no property is claimed
  of what runs: beside these two faults it would say what the code says.  The guide (`triggers.mdx:17`) names `any` as the default match,
  the code takes `all`; the models give every trigger its match.
- What a trigger does to other directories is an FPJSON program and is left out.

**Client and upgrade.**

- Overlapping calls share `_nonce` and `count` (`sdk/src/db.js:246`): a call may be
  refused for its nonce although it did nothing wrong, and `count` stays 1 if the
  retry throws, so that the next refusal is not retried.  `SequentialSucceeds` is
  about a client that waits.
- `old_db` is not cleared by a migration: upgrade, migrate, upgrade again and
  revert before the download has ended puts the engine before the last one back.
  `EngineFits` excepts an engine that a revert put back wrongly (`orphaned`).
- The engine that is downloaded brings a store object of its own (`core.js:73`,
  `kv_nosql.js:3`), which reads the store at once.  When the old object has not
  flushed the upgrade by then, the new one knows nothing of it: queries are checked
  against the old version and the old nonce, and what they write is mixed with what
  the old object flushes later; the WAL entries of both get the same numbers.
  `Service` has the two objects and flushes their states whole, in any order;
  `EngineFits` and `SequentialSucceeds` except a database on which a query, or a
  client's question for its nonce, ran in that time (`stale`).
- A recovery that cannot download the engine attaches the database without one
  (`core.js:53`): every query throws until the next start.  Attaching an engine with
  a version on init has the same fault; it is in `Service` only.
- `Service` is about a database that has shipped something, so that a recovery
  attaches it (`recover.js:23`), and about one start of it after a crash.
- A database without a version skips the gate, and can never migrate.
- `server.js:143`: two inits of one database pass the check before `dbs[pid]` is
  set, because `Core.init` is awaited in between.  `remove_db` deletes `dbmap[id]`
  before it reads it.  Neither is modelled.

**Rollup node.**

- The first page of recovery is slots 0 to 99 and the next one starts at 20
  (`recover.js:71`): with more than 20 messages the pages overlap, messages are
  counted twice, and `__meta__/height` exceeds the WAL, so that later entries are not
  shipped.  The same follows from duplicates, however they come about: lost answers,
  a second loop, or a bundle of a dead process that is scheduled after its successor
  has read the log.  `ShippedOnce` and `EventuallyShipped` are about a node that loses
  no request and is `calm`.  One that is not loses entries even so: it dies before it
  has shipped anything, init starts a second loop, both ship the first entry, the
  node dies before it writes the height, and recovery counts two messages; the
  second entry of the WAL is never shipped.  That HyperBEAM still gets bundles of
  durable entries only, and that no query takes effect twice, holds for these too.
- A node that is restarted before it has shipped anything does not attach its
  database (`recover.js:23`), but starts its WAL loop; `initDB` is how the database
  comes back, with another loop, and once more in the list of pids
  (`server.js:167`).  Each later start then recovers it that often and starts as
  many loops.  The list is taken to be durable when init is answered; lmdb's put of
  it is not awaited, so a crash right after init may forget the database.
- `wal.js:22`: an entry without a signature would be read again for ever; `/set`
  cannot make one.
- `server.js:53`: a recovery that fails leaves the database detached.

**Validator.**

- A nonce that was refused after a restart is refused for ever: `nonce` starts at 2
  (`validate.js:45`), and the retry (`:138`) asks for the old result again.
  `EventuallyPublished` is about a process that lives.
- After a WAL whose entry 0 is an empty batch, which the engine accepts, `write()`
  finds no version to read (`validate.js:327`), throws on every turn, and replays
  nothing.  `Attaches` is false then; `EventuallyPublished` leaves it out.
- An entry that the node never ships again leaves a hole: `write()` waits for its
  number for ever, whatever follows.  `WalFeed` does not exclude it (the node's
  height may be too large, see above); `EventuallyPublished` is about entries that
  are shipped with all before them.
- A crash between `__ch__` and `__changes__` (`validate.js:235`) leaves a number
  without changes, and `commit()` never gets past it.  `PostedIsStore` is claimed
  for a process that lives.
- `validator.js:73`: a spawn with a given `vid` throws, and a failed build leaves
  `dbs[pid]` set.  The HTTP front of the validator is not modelled.
- A request of `sync` that fails ends `get()` early; the next one starts where it
  stopped.  The model fetches the next page instead.

**Scheduler and compute unit.**

- A message whose schedule is answered with another status than 200 is
  acknowledged with 201 and never scheduled (`refuse`).
- A failed request for a result leaves `reply` unset, so that posting the message
  again schedules it again; so does a restart, which forgets what is not done.
  `OnceWhileNothingFails` is about the time before the first failure.
- Without a bundler no message is ever done (`su.js:172`).
- When a slot is executed again after a crash, the result of the second, refused
  execution replaces the first (`cu.js:204`).
- An exception of the engine leaves `wslot` where it is while `isData` is true:
  `write(true)` calls itself for ever (`cu.js:233`).  `EventuallySent` is about an
  engine that answers.
- `cu.js:61`: the timer of 60 seconds answers a request whose result may still
  come; here it is one of the ways `throw` happens.  Two `add` calls for one process
  may create two compute units.

**Bundler.**

- `undone` never gets an entry, so `processUndone` retries nothing.
- A message whose assignment was not uploaded is never worked on again in the same
  process, and `processMissing` asks for it for ever; a failed slot above `current`
  is not asked for until a later one is done.  `MissingIsRetried` leaves these out.
- `POST /tx` deletes `ongoing` after a duplicate that it skipped
  (`bundler.js:327`): that is how a message gets two handlers.
- One upload in five is reported as successful without a request
  (`bundler-utils.js:48`).  `RecordedIsUploaded` counts what was reported.
- A message that is no ANS-104 item (`bundler.js:194`), or not signed as one (`:202`),
  is dropped without a trace: when a later slot is done its own becomes missing, and
  is fetched every ten seconds for ever.  `MissingIsRetried` is about the others
  (`valid`); the book stays exact.
- The put of the book after `record` is taken as atomic with it.  A message that
  arrives in two slots leaves the second one missing for ever.

**Not modelled** beside these: the planner and query parser, schemas, the
compressed-state branch of the engine, the SQL and vector variants, the ZK prover,
the gateway, the explorer, the CLI, Solidity, the Rust port and the previous
generation of the program under `legacy`; `PROJECT.json` has the reason for each.
They make up most of the lines of the repository.

## 6. Plan

What is left, in this order:

1. The races of `server.js`: two inits of one database, `remove_db` during a
   query, several databases, and the HTTP front of the validator.
2. `Planner`: the choice of an index and the merging of sorted ranges with cursors,
   against a sorted list of the documents that match.
3. Array and nested fields in `Directory`, and what triggers write.
4. The engine's trees behind an unflushed deletion: `BPTree` over `visible`.
5. Proofs: `BPTree` with recursive functions in place of its operators, at least
   that `insert` and `delete` keep the keys in order.
