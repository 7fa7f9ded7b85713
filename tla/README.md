# TLA+ verification of rag3db: transactions and recovery, dataflow runs, the daemon, the code index

rag3db is a fork of the Kuzu graph engine (C++, `src/src/`) with an agent runtime on
top of it (Rust, `src/extension/rag3weaver/`). The repository's README puts the main
effort of the fork into "write, rollback and recovery paths, because an agent that
writes into a live database must never lose or corrupt it". This project models that
part of the engine (the lock manager, the transaction manager, and the files that a
commit, a checkpoint and a recovery write) and the concurrent parts of the runtime: the
streams and threads of a dataflow run, runs in the background, executions under
checkpoints and their resumption, the daemon that clients launch and share, and the index
that follows the files of a working tree.

Contents

1. Inventory of the system
2. Plan
3. Modules and how they correspond to the code
4. Runs: what they check, bounds, fairness
5. Findings
6. Proofs
7. What is assumed, only model-checked, or not modelled

Run a model with `tlc -workers 2 -config X.cfg M`, the proofs with
`tlapm LockManagerProofs.tla` (and `TransactionManagerProofs.tla`,
`CheckpointRecoveryProofs.tla`, `CheckpointedRunProofs.tla`, `DaemonLaunchProofs.tla`,
`DaemonHostProofs.tla`, `CodeIndexProofs.tla`, `BackgroundRunProofs.tla`).
`PROJECT.json` holds the component list, the runs, the
map from definitions to source lines, one mutant per checked property, the hazards
and the theorems.

---------------------------------------------------------------------------------------

## 1. Inventory

### 1.1 The engine's write path (modelled)

**Lock manager** (`transaction/lock_manager.cpp`).
State: one `Entry` per resource (holders with a mode, waiters in arrival order), the
resources held by each transaction, what each waiter waits for, one mutex and one
condition variable. Operations: `acquire` of a list of requests (sorted by resource,
merged to the strongest mode), `releaseAll` at the end of a transaction. A request is
granted, refused because it would close a cycle, refused after `busyTimeout`, or
interrupted. Callers: `Transaction::acquireLocks`, which first asks without waiting and
only then waits, with the patience of the connection.
Correct when: incompatible modes never coexist; no cycle of waiters exists undetected;
what is recorded for a transaction is what it holds; the map of entries neither leaks
nor loses an entry that a sleeping waiter still refers to; locks last until the end of
the transaction; an exclusive waiter is not starved.

**Transaction manager** (`transaction/transaction_manager.cpp`, `transaction.cpp`,
`transaction_context.cpp`).
State: active transactions with their snapshot, the last timestamp and transaction id,
a *gate* (`checkpointPending`) that holds BEGINs back, the queue of forced commits
(`queuedCheckpointCommits`, `commitQueuedNow`), the automatic request
(`autoCheckpointRequested`), the numbers of checkpoints started and completed, the two
flags that refuse everything until a reopening (`checkpointFailed`, `rollbackFailed`).
Operations: BEGIN, COMMIT (read, journaled write, forced, with pre-commit action),
ROLLBACK, failed statement, CHECKPOINT, and the internal ones: waiting for the others,
committing in the queue, writing the requested checkpoint as the last to leave.
One public mutex serialises it all and is given up in the waits and while a checkpoint
is written, which is where the interleavings come from.
Correct when: a COMMIT that returned is durable, by the journal or by a checkpoint; no
checkpoint contains a part of a transaction; nothing commits while a checkpoint is
written; no open snapshot loses its blocks; one checkpoint at a time; nobody waits for
ever.

**Files** (`storage/checkpointer.cpp`, `shadow_file.cpp`, `wal/wal.cpp`,
`wal/wal_replayer.cpp`).
State: the data file (header, pages replaced in place, pages written directly), the
shadow file, the journal; for each, what was written and what is durable. Operations:
append and sync of a commit; the eleven steps of a checkpoint; the recovery of the next
opening. Correct when the files, read by an opening at any moment, give a committed
state, the one before or the one after the step that was under way.

How they interact: a statement takes locks from the lock manager and keeps them until
its transaction ends; `TransactionManager::commit`/`rollback` end the transaction, release
them and decide about checkpoints; `Checkpointer::writeCheckpoint` runs with the public
mutex given up, while BEGINs of writers are held and those of readers are not.

### 1.2 The rest of the engine (not modelled)

| Component | State | Operations | Hard behaviour | Properties worth having |
|---|---|---|---|---|
| Readers lock (`storage/readers_lock.cpp`) | a shared/exclusive lock on a file, across processes | read-only opening, checkpoint | both waits are bounded, and the checkpoint goes ahead after its own | a reader never serves a mixture of two checkpoints |
| MVCC (`version_info`, `update_info`, `undo_buffer`) | version numbers per row, chains of updates | insert, delete, update, commit, rollback, reclaim | a reader walks a chain that a commit stamps and a checkpoint reclaims | a snapshot sees each row as at its timestamp |
| Pages (`page_manager`, `free_space_manager`, `optimistic_allocator`) | free ranges, uncheckpointed frees | allocate, free, rollback, checkpoint | a range freed by one transaction and needed by the last checkpoint | no page has two owners |
| Buffer manager | page state word, eviction queue, memory counter | pin, unpin, optimistic read, evict, spill | optimistic reads race with eviction | a successful optimistic read saw one version |
| Hash index, disk arrays, overflow file | slots, split level, in-memory and on-disk halves | insert, delete, split, checkpoint, rollback | a split undone half-way | lookup = last committed value |
| Catalog (`catalog_set`) | version chains of entries | create, alter, drop, commit, rollback | write-write conflict, visibility | one visible version per name and snapshot |
| Task scheduler | worker threads, queue of tasks | schedule, wait, `BlockingWait` | a worker that waits for a lock is replaced | the number of runnable workers never falls to zero with tasks left |
| Parser, binder, planner, optimizer, processor, functions | — | — | sequential, data-heavy | out of scope |

### 1.3 The runtime of rag3weaver (modelled in part)

**Streams and concurrent runs** (`dataflow/stream.rs`, `concurrent.rs`).
State: one hub per run with bounded channels (elements, senders and receivers left), the
workers it counts as alive, what each of them waits for, the cause of a cancellation;
one thread per node; a main thread that writes checkpoints. Operations: send, recv_any,
release of an end, registration and departure of a worker, cancel; for a node: waiting
for its inputs, executing, sending its outputs, finishing; for the run: attach, mount,
save, join. Every wait sleeps on one condition variable.
Correct when: a reader never takes an interrupted stream for a complete one; a deadlock
is declared exactly when it is one; the store holds exactly what completed; every run
ends.

**Background runs** (`dataflow/background.rs`).
State: the registry entry (alive, first cause), the timer of `max_duration`, the caller's
ends of the run's streams. Operations: spawn, stop, the timer's close and cancel, the
caller's send, receive, timed variants and close, the announcement of the end.
Correct when: a stop reaches the run whenever it comes and is told with its first cause;
nobody is left in the hub; a caller in the middle of an operation is answered.

**Checkpointed execution** (`dataflow/runtime.rs`, `checkpoint_store.rs`, the drain of
`catalog.rs`).
State: the row of an execution, a row per node, files written by a thread of their own;
in memory, which nodes are done, which values are published and how many readers each
has left. Operations: create, run a level, store its results, mark the end, resume.
Correct when: an execution recorded as completed has executed all it had to; a resume
gives each node the inputs of an uninterrupted run and executes nothing twice that reads
back.

**Daemon life cycle** (`daemon_lifecycle.rs`, `daemon_client.rs`,
`bin/rag3weaver-backend.rs`).
State: `daemon.json`, the lock beside it, the port. Operations: a client reads, probes,
launches under the lock, polls; a host looks, binds, writes the file, serves, and removes
the file as it leaves. Correct when: one launch at a time; a serving host stays listed; a
client that keeps trying gets in.

**Daemon host** (`daemon_host.rs`).
State: a hosted backend behind a read-write lock, the queue of requests and its workers,
the idle watcher, the way out. Operations: open, reread, reopen, let go, close, call,
stop, shutdown. Correct when: no call loses the instance it took; a sound instance is
dropped only on demand; every request is answered; the host exits with the backend
closed.

**Code index, watch and edits** (`code_sync.rs`, `watch.rs`, `catalog/retard.rs`,
`catalog/synchronisation.rs`, `dataflow/reindex_nodes.rs`, `code_tools.rs`).
State: a row and the scopes of every file of the source, the snapshot session of the
source, the catalog's lock, the registry of the indexing in progress (files read, files to
take up again), what the watch knows of the disk, the events on the bus, the lag (files
known to have changed and not reindexed). Operations: a whole indexing by batches, its end
that takes away what no batch carried, its resumption of the files edited meanwhile, its
suspension and failure; an edit, with the catalog or, during an indexing, without it; a
scan, its publication, the reaction that reindexes or leaves the files to the indexing;
restart and reconciliation. Correct when: an edit that was left to the indexing is read by
it after the write; and the index never differs from a file without a sign that it does.

How they interact: a client's call goes through the daemon host to a backend, whose
catalog drains dataflow graphs by levels under checkpoints; graphs with streams and
spawned graphs run concurrently over a hub; the idle stop of the host asks for runs in
the background and cancels them on the way out. The watch, its reaction, the edits of an
agent and a whole indexing share one catalog of the backend.

Not modelled in rag3weaver (222 659 lines of Rust, of which the map covers about 4 000):

| Component | Why not |
|---|---|
| Generated networks (`generated/*_onnx.rs`), embeddings, reranking, language models | numerical code and calls to services: no state to interleave |
| Code parsing and build check (`code.rs`, `dialect.rs`, ...) | text processing; compilers run as child processes |
| Search chains, renderers, node library (`dataflow/*_nodes.rs`) | sequential functions on records; a node is any sequence of reads and emissions in `ConcurrentRun` |
| Catalog and backend (`catalog.rs`, `backend.rs`) | schema, records and query generation behind one mutex; only its drain has steps of its own |
| Writer mark and standalone daemon | planned; the mark is a file lock of the operating system |
| Read pool, burst | planned: lending of connections, buffered writes |

The parts listed last are the ones where a model would still add something. The others
are the bulk of the lines; a model of them would restate sequential data processing.

`extension/vector`: the HNSW graph algorithm is numerical; its pre-commit action is the
transaction kind `INDEX`. `extension/geo`, `algo`, connectors, language bindings, shell:
data-heavy or thin.

### 1.4 Where the difficulty is

The hazards are listed one by one, with their lines, in `PROJECT.json`. In short:
waits that are invisible to the deadlock detection; the mutex given up while a
checkpoint is written; a commit that throws half-way and is still active; a wait that
times out after others relied on it; a flag that is raised again before a sleeper looks
at it; a crash between any two writes or syncs, during recovery too; a journal replayed
over a checkpoint that already holds it.

In the runtime: a channel that ends because its writer failed, seen before the
cancellation; a deadlock detector that must neither cry wolf nor sleep; a stop that
arrives before the run attached its hub, or races with the timer for the cause; a row
that names a file never written; files removed before the end is recorded; the count of
readers left after a restore; two clients that launch together, a file removed after
somebody else wrote it; a backend reopened by one call while another runs on it; workers
asleep when the host is told to stop; a file that is written while it is being indexed; a
lag struck off by a reindexing that read the file too early; events that the bus dropped;
an indexing that stops between two batches.

---------------------------------------------------------------------------------------

## 2. Plan

Done, in this order: `LockManager`, its proofs, `TransactionManager`,
`CheckpointRecovery` with its abstract specification `DurableStore`; then `StreamHub`,
`ConcurrentRun` and `BackgroundRun` (each over the one before), `CheckpointedRun`,
`DaemonLaunch`, `DaemonHost`, `CodeIndex`, and the proofs of the last three; then the
proofs of `TransactionManager`, of `CheckpointRecovery` with its refinement of
`DurableStore`, of `NeverSilentlyStale` of `CodeIndex`, and of `CheckpointedRun`; then
those of `ConcurrentRun` and `BackgroundRun`. Every safety property of the passing runs is
now a theorem, but for `RecoveryNeverStuck`, which speaks of `ENABLED` (section 7).

Next, models:

1. `ReadersLock`: a read-only opening beside a writing process that checkpoints
   (`readers_lock.cpp`, the read-only branch of `wal_replayer.cpp`), composed with
   `CheckpointRecovery`'s file states.
2. `PageOwnership`: page ranges across allocation, optimistic writes, rollback and
   checkpoint; it discharges what `CheckpointRecovery` assumes of `OptimisticWrite`.
3. `VersionChain`: row versions, the undo buffer, and the reclaiming done at a
   checkpoint with `oldestReaderTS`; composed with the timestamps of
   `TransactionManager`.
4. `CREATE INDEX`'s wait for earlier writers (`waitForWriteTransactionsStartedBefore`).
5. `TaskScheduler` with `BlockingWait`, and `PageState` of the buffer manager.
6. rag3weaver: `WriterMark` beside `DaemonLaunch`; sub-graphs on the channels of a parent
   (`execute_delegated`) in `ConcurrentRun`; the read pool; the debt of embeddings beside
   `CodeIndex`.

Next, proofs: those of the modules above, as they are written.

---------------------------------------------------------------------------------------

## 3. Modules

### 3.1 `LockManager`

| Model | Code |
|---|---|
| `mtx`, `pc` | the mutex of `LockManager`, the position of a thread in `acquire` |
| `resources`, `holders`, `waiters`, `ahead` | `entries`; `ahead[r]` orders the waiters of `r` by arrival |
| `heldBy`, `waitingFor` | the fields of the same names |
| `request`, `todo`, `patient` | the ordered list being acquired, what is left of it, `timeout > 0` |
| `AcquireLocks` / `Acquire` | `Transaction::acquireLocks`: the call without patience, then the patient one |
| `AlreadyHeld`, `GrantNow`, `RefuseDeadlock`, `GiveUpAtOnce`, `Enqueue` | the branches of the loop of `acquire` |
| `WakeGranted`, `WakeGivesUp` | the end of the wait: granted, or timed out or interrupted |
| `ReleaseAll` | `releaseAll` |
| `canGrant`, `collectBlockers`, `reaches` | the functions of the same names |

One call of `acquire` takes the mutex at `Acquire` and keeps it over all its steps until
it waits or returns, as the code does. `reaches` is the depth-first search as a
reachability statement: the target is in every set that contains the start and is closed
under blockers. This form has no recursion and is the one the proofs use.

### 3.2 `TransactionManager`

A connection is a record: `pc`, kind of transaction, id, snapshot, and the lock it waits
for. `pc` names where the thread is *when it does not run*: `begin` (held), `gate`,
`drain`, `drainQueue` (the waits of `stopNewTransactionsAndWaitForOthersNoLock`),
`queued`, `queueDone` (those of `commitInCheckpointQueueNoLock`), `writing`. A function
between two waits is one action; where it branches on a decision of its own (the commit,
then the checkpoint, then the leaving) it is a chain of actions during which `mtx`
belongs to the connection.

| Model | Code |
|---|---|
| `BeginTransaction`, `BeginRefused`, `held`, `CancelAutoCheckpointRequest` | `beginTransaction`, `waitWhileCheckpointPendingNoLock` |
| `CommitRead`, `CommitWrite`, `CommitForced`, `CommitAlone` | the ways through `commit` |
| `NoCheckpointNow`, `AutoCheckpointNow`, `AutoCheckpointRequest` | the end of `commit`: threshold, request (A8) |
| `Leave`, `LeaveAndWrite` | `writeRequestedCheckpointIfLastNoLock` |
| `stopNewTransactions`, `PassGate`, `DrainWait`, `Drained`, `QueueDrained`, `DrainTimeout` | `stopNewTransactionsAndWaitForOthersNoLock` |
| `QueueCommit`, `QueueAbandoned`, `QueueServed` | `commitInCheckpointQueueNoLock` (A7) |
| `StartCheckpoint`, `CheckpointDone`, `CheckpointRefused`, `CheckpointFails` | `checkpointNoLock` and its three outcomes |
| `Rollback`, `RollbackThrows`, `FailAfterStatement` | `rollback`, `Transaction::rollback`, a failed statement of an explicit transaction |
| `Crash` | death of the process and the next opening |

Data is the identity of transactions: `memory` (applied), `half` (a part is in memory),
`journal`, `disk` (the last complete checkpoint) and `image` (the one being written, taken
when the writing starts, because no writer may change memory from then on:
the part `NothingCommitsWhileWriting` of
`GateIsSound` checks exactly that). A checkpoint that failed has already advanced the
structures of memory, and `transaction_manager.h:205-211` says that what the process holds
no longer matches the files. What exactly is wrong is not modelled: a checkpoint that is
written afterwards finds any part of what was applied (`readable`) and its image, and the
disk when it is complete, are marked `wrong`. A statement that waits for a lock
keeps only *whose* lock it is; that the lock manager refuses cycles of such waits is
what `LockManagerProofs` proves, and `LockWait` uses it. The configuration (`inMemory`,
`multiWrites`) is chosen by `Init` and never changes.

### 3.3 `CheckpointRecovery`, `DurableStore`

Each file exists twice, as written and as durable; a sync makes the two equal; a crash
chooses a mixture, page by page: old, new, or a torn page. The data file is reduced to
one page of each sort the code distinguishes: the header; `index`, a page replaced in
place through the shadow file; and pages written directly where the current header
designates nothing. `pc` walks through `Checkpointer::writeCheckpoint` (storage,
serialization and header, flush of the shadow pages, sync of the shadow file, sync of
the data file, mark, sync of the mark, application, sync, emptying and removal of the
journal, removal of the shadow file) and through `WALReplayer::replay`.

`DurableStore` is the promise: `durable`, what an opening would serve, goes to `target`
in one step, and a crash leaves one of the two. The refinement mapping takes `durable`
from the durable files (`durableState`) and `target` from memory, or, during a recovery,
from the files as written. After a failed checkpoint the module goes on to a closing or a
crash; the further checkpoint of a CHECKPOINT that already stood at the gate is a matter of
`TransactionManager` (finding `txn_failures`) and is not repeated here.

### 3.4 `StreamHub`, `ConcurrentRun`, `BackgroundRun`

A hub is a record and each of its methods an operator from hub to hub, because every
method takes the one mutex. `asleep` holds the workers inside the condition variable that
no notification has woken; `waiting` what each declared, which it keeps until it has the
mutex again, as in the code. `ConcurrentRun` holds the hub in a variable and adds the
threads; `BackgroundRun` adds the launching side. The graph, with what may fail in it, is
a record chosen by `Init`: whether nodes may fail or panic, whether there are checkpoints
and which mode keeps them (`keepState`, the mode Full, in which the persister writes the
ends of nodes), whether the store fails, whether the graph validates, and how it was
launched. The input of a launched run may be read element by element or whole.

| Model | Code |
|---|---|
| `Send`, `RecvAny`, `Sleep`, `Awake`, `DetectDeadlock`, `Servable` | `StreamHub::send`, `recv_any`, `wait`, `detect_deadlock` |
| `ReleaseSender`, `ReleaseReceiver`, `WorkerDone`, `CancelHub` | the methods of the same meaning |
| `Scan`, `Await`, `Context` | the departure of a node: `retain`, `recv_any`, the context |
| `TakePending`, `Next_`, `Emit`, `CloseInput`, `Return`, `Panic` | what a node may do in `execute` |
| `Fail`, `SendOutput`, `Complete`, `Finish`, `Leave` | after `execute`, down to `WorkerGuard` |
| `DropInputs`, `Replay` | a node restored from a checkpoint |
| `Attach`, `Mount`, `Start`, `Save`, `Join` | the main thread of the run |
| `PullHandle`, `FireCancel` | `CancelHandle::cancel`: flag and copy under its mutex, cancellations after it |
| `Refuse`, `Fond...` | the background thread: refusal of the graph, closing, departure, cause, announcement, removal |
| `StopEntry`, `Timer...` | the registry's stops, the timer's close, grace and cancel |
| `Caller...` | `LiveIn` and `LiveOut`: blocking, tried and timed operations |

### 3.5 `CheckpointedRun`

`exec`, `row` and `files` survive a crash; `spool` is the queue of the writing thread,
which a crash empties (the crash is the death of the process: what was written to files
stays); `restored` remembers which nodes an attempt began with; the other variables are the locals of
`execute_inner_with_checkpoint`. A path is known by the process and the attempt that
wrote it, which is what its name holds. `Skipped` is the least set that
`skip_until_fixpoint` can stop at (`SkipReason` is one round of it), and `Taken` the least
set of nodes that a run nothing interrupts executes: a node is taken when each of its
required ports is fed by a node that is taken and publishes.

| Model | Code |
|---|---|
| `Drain`, `CreateRow`, `CreateNodeRow` | the drain of the catalog, `create_execution` |
| `Resume`, `ResumeRefused`, `Restored` | `drain_resume`, `load_execution`, the restored nodes |
| `StartLevel`, `SkipReason`, `Skipped`, `ReadyAfter`, `HandOut` | the head of the loop: `skip_until_fixpoint`, ready nodes, hand-out of values |
| `RunNode`, `StoreOk`, `StoreRefused`, `StoreErr` | the threads of a level, the storing of their results; a refusal comes from `port_value_to_checkpoint`, in either mode, or from the store |
| `MarkFailed`, `MarkFlush`, `MarkStatus`, `MarkRows` | `mark_failed`, the steps of `mark_completed` |
| `SpillWrite`, `Crash` | the writing thread; the death of the process |

### 3.6 `DaemonLaunch`

Each read, probe, removal and write of a client or a host is an action, because they are
different processes. A probe has three outcomes: an answer, no answer, and a host that
is about to serve, which is waited for.

| Model | Code |
|---|---|
| `EnsureRead`, `EnsureProbe` | `try_attach` |
| `TakeLock`, `Reprobe`, `RemoveStale`, `Spawn`, `Poll`, `LaunchWait` | `ensure_locked` |
| `LaunchFails` | the errors of `ensure` and `ensure_locked` before the child runs: directory, lock file, log, spawn |
| `Lose`, `ClientDies` | a call that finds its host gone (`reprendre`); a death |
| `HostLook` ... `HostWrite` | `servir_le_demon` up to serving |
| `Stop`, `IdleStop`, `Close`, `LeaveRead`, `LeaveRemove` | the end of a host, `remove_if_mine` |

### 3.7 `DaemonHost`

| Model | Code |
|---|---|
| `slot`, `opened`, `sick`, `indexing` | `Hosted`: the backend and its number, `must_reopen`, `indexings_running` |
| `CanWrite`, `WriteRefused` | `ecrire_le_slot` and its bound |
| `Look`, `OpenClosed`, `Take`, `Reopen`, `Serve`, `LetGo` | `with_backend` |
| `OpenRequest`, `CloseRequest`, `StopRequest` | `POST /backend/open`, `/backend/close`, `/arret` |
| `WorkerLoop`, `Recv`, `Arrive`, `StopServer` | the loop of a request thread, the server's queue of requests and of errors (a worker that is given an error leaves), `Stopper::stop` |
| `IdleLook`, `IdleCheck`, `IdleStop`, `IdlerLeave` | the thread of the idle stop |
| `Join`, `Shutdown`, `Exit` | the way out of `serve` |
| `AgentTakes`, `Sicken`, `IndexingEnds` | a judge or teammate; what happens to the base meanwhile |

### 3.8 `CodeIndex`

| Model | Code |
|---|---|
| `disk`, `row`, `scopes`, `session` | the files; `File.content_hash`; the scopes; the snapshot sessions of the source on files and on scopes, which open and close together |
| `registry` | `EN_COURS`: enrolled, `lus`, `a_reprendre` |
| `SyncEnrol`, `SyncBegin`, `SyncMark`, `SyncRead`, `SyncWrite`, `SyncFinish` | `sync_source` and `synchroniser`, batch by batch |
| `SyncResume`, `SyncReread`, `SyncRewrite`, `SyncLeave` | the resumption, `reprendre_ou_sortir` |
| `SyncFail`, `SyncSuspend` | an error anywhere (part of a batch may be written; between `begin_snapshot` and `synchroniser` the sessions stay open, elsewhere they are given up); a stop between two batches |
| `EditCall` ... `EditIngest`, `EditNotIngested` | `edit_file_shared_with_hash`, `write_edit`, `reingest_file`, and its failure between any two of its writes: scopes of before taken away, row, scopes |
| `Scan`, `Publish` | `Scanner::scan_inner`; a turn of the watch's thread |
| `ReactStart` ... `ReactSay` | `ReindexFileNode::execute`, with `reindexer_en_lot` |
| `EventsMissed`, `OutsideChange`, `Restart` | the bus overflows; another program writes; the process dies and `mount_watches` reconciles |
| `promised`, `hidden`, `incomplete` | history: what was promised, which files fall under the three named exceptions, whether an indexing stopped half-way |

A file is its content, and a content stands for the scopes it defines; two contents share
none. The settling time of the watch is the choice of the files that have settled (`s` of
`Scan`). Steps that nobody can tell apart are one: the lock of the catalog and the
enrolment (`SyncEnrol`), the way out of the registry and the end of the lock
(`SyncLeave`), the reaction's short first lock (`ReactStart`).

### 3.9 The `MC` modules

Constants for TLC: sets of requests, configurations, graphs, symmetry sets. They define
nothing else. Definitions marked "Mutant" in the modules are not used by any
specification; each is a plausible bug of the definition that follows it, and
`PROJECT.json` says which property catches it.

---------------------------------------------------------------------------------------

## 4. Runs

| Run | Checks | Bounds |
|---|---|---|
| `lock_safety` | exclusion, no cycle of waiters, the two walks over an entry agree, if all wait one can be served, bookkeeping, locks kept, grouped requests never refused as deadlocks | 3 transactions, 2 resources, 2 calls each, all modes singly and as the groups of `MCRequests` |
| `lock_liveness` | an exclusive waiter is served once holders end | 3 transactions, 1 resource, 2 calls |
| `txn_faults` | durability of acknowledged commits, snapshots, the gate, no half transaction in a checkpoint but after a failed rollback, no further checkpoint after a failed one but from the gate, the order of commits | 3 connections, 3 transactions of every kind, 1 CHECKPOINT, every fault, lock waits; on disk with several writers, on disk with one, in memory |
| `txn_liveness` | `EveryWaitEnds`: a held BEGIN proceeds; commits and CHECKPOINT do not wait for ever | 3 connections, 3 transactions, failing checkpoints |
| `files_safety` | the files implement `DurableStore`; a recovery reads one image, replays nothing twice, is never stuck; the last checkpoint is untouched | 3 column pages, 3 transactions, 3 checkpoints, 2 crashes |
| `streams` | the detector misses only half-ended waits, outcomes are true, the store is exact, stops are sound, waiters are told the truth, the run comes to an end and its caller is answered, outside two cases (section 5) | the 10 graphs of `MCBackgroundRun`, channels of 1 |
| `checkpointed` | the recorded end is one, the store of ports is sound, a resume starts nodes with their inputs, redoes nothing, and ends | 3 graphs of 4 nodes, 1 crash, 2 errors |
| `daemon_launch` | one launch at a time, a serving host stays listed, a client gets in | 2 clients, 2 hosts, 1 started by hand, 1 stop, 1 death or failed launch, fixed and free ports |
| `daemon_host` | a call keeps its instance, sound instances are kept, everyone is answered and the host exits | 2 request threads, 1 agent, 2 requests or errors of the server, 1 call of the agent |
| `code_index` | an edit left to the indexing is owed to it; the index never differs from a file without a sign | 2 files, 2 contents, 1 edit tool, 2 writes, 2 indexings, 1 fault, 4 of these together |
| `txn_failures`, `streams_missed_deadlock` | the statements of section 5 that the code does not keep | small instances that show them |

**Why the bounds are enough.** Three transactions are what the lock rules need to differ:
a holder, a waiter, and one that upgrades or jumps the queue; two resources are needed
for a cycle that is not an upgrade. In the transaction manager three connections are an
owner of the checkpoint, a queued commit and a third that slips in. A transaction id is not reused after a
crash, so the same bound covers both sides of it. In the files, two crashes are the
death of the engine and the death of its recovery; three pages are one designated, one
written by a checkpoint, one written by a COPY; three checkpoints let a page be used
again. In the streams, channels of one element make every second emission wait; the
graphs cover a diamond whose long branch is needed before the short one is read, a fan
out on one port with one slow reader, its resumption with a store that fails and its run
without the ends of nodes kept, a caller at both ends with and without a timer, a caller
whose input is read whole, a panic, a graph that does not validate, and the deadlock of
section 5. Four nodes under checkpoints give an optional and a required
reader of one value and a chain long enough for a gap between restored nodes; two errors
are a failure and the failure of its handling. In the daemon, two of each are the one
that acts and the one that slips in between; a third host would only repeat a launch. In the code index, two files are a batch done and a batch to
come, or the file that is read and the one that is edited meanwhile; two contents are the
one before and the one after; `MaxStimuli` bounds writes, indexings and faults together,
four of which are two writes around a fault and an indexing, or two indexings with a write
and a fault between them (`PromisesAreOwed` is proved without any bound, section 6.7).
Symmetry is used on transactions, connections, column pages, files and contents, in runs without
temporal formulas over fairness.

**Deadlock check.** It is off where a bound makes the system stop, and in `streams`, where
the deadlock of section 5 does; there `SomeoneCanMove`, `EveryWaitEnds`,
`RecoveryNeverStuck`, `RunEnds`, `ResumedUntilCompleted`, `ClientGetsIn` and
`EveryoneIsAnswered` say what must not be stuck. `lock_safety`, `lock_liveness` and
`streams_missed_deadlock` check it.

**Fairness.** Lock manager: a thread that asks for the mutex again and again gets it and
every transaction ends (strong fairness, because both are disabled whenever another
thread has the mutex); a waiter wakes up every `WAIT_SLICE`, so one that stays grantable
is served, but one that is grantable only now and then need not be. Timeouts and
interruptions are not assumed to happen: `ExclusiveWaiterServed` must hold without them. Transaction manager: weak fairness of what the manager does for one
connection (`Serve`: continue, wake up, write the checkpoint, fire a timeout; the waits
are `wait_for`/`wait` with a predicate) and of the rollback that a failed commit gets.
Nothing forces a client to end a healthy transaction, so `HeldBeginProceeds` says that
an idle open transaction cannot hold everyone.

Runs: the operating system runs every thread that can run (weak fairness of the main
thread, of each node, of a cancellation under way, of the background thread and of the
timer), and a node returns once its reads and emissions are answered. The caller of a
background run is only assumed to be scheduled in the middle of an operation; it need
not begin one. Checkpointed executions: the drain and the writing thread run on, and
whoever opens the base resumes what `check_pending_checkpoints` lists. Daemon launch:
processes run on, a client retries every ten seconds, an idle host stops; strong fairness
of `TakeLock`, because the lock of a file goes to one who waits although others take it in
between. Daemon host: calls come to an end and threads run on; nothing forces a request,
a signal, or an idle moment to come.

---------------------------------------------------------------------------------------

## 5. Findings

Each is a run that must end with a violation; `PROJECT.json` quotes the sentence and
the lines.

* **`txn_failures`**, two ways past the refusal of a condemned database:
  * a rollback that threw half-way sets `rollbackFailed`, which `transaction_manager.h` says
    refuses the database "comme après un point de reprise raté". `commit` never tests it: a
    transaction that was open at that moment commits, passes the threshold, and begins a
    checkpoint of the half-undone transaction;
  * a failed checkpoint sets `checkpointFailed`: `transaction_manager.h:205-211` says that
    memory then no longer matches the files, that "a later checkpoint would make it
    durable", and that every checkpoint is refused until the database is reopened.
    `checkpoint()` tests the flag before it waits at the gate
    (`transaction_manager.cpp:370-375`) and not after: a CHECKPOINT that waited there while
    the other one failed passes and writes that memory.

  `FailuresStayInMemory` asks for the least of what the header promises, that no disk holds
  both, and its one trace shows both: a rollback throws, a commit begins a checkpoint all
  the same, that checkpoint fails, and the CHECKPOINT at the gate writes what is left. Each
  happens without the other too. `HalfOnlyAfterFailedRollback` and
  `OnlyTheGateOutlivesFailure` (checked in `txn_faults`, proved) say that there is no third
  way, and `AckedIsDurable` holds for every disk that was not written after a failed
  checkpoint.
* **`streams_missed_deadlock`** — `stream.rs` says that the deadlock is exact: when every
  live worker waits, the run is cancelled. `detect_deadlock` takes a read on several
  channels for servable when *one* of them has no sender left; `recv_any` returns the end
  only when *all* have none. A node that waits on two inputs, one of which has ended,
  while the producer of the other waits for it, sleeps for ever with it. That this is the
  only case missed is `MissedOnlyHalfEnded`, checked in `streams`.

Observations without a run of their own:

* A forced transaction is said never to end its commit without its checkpoint, or the
  database refuses everything (`transaction.cpp`). A queued forced commit is applied in
  memory before the owner of the checkpoint is done waiting; if the owner then gives up,
  others begin, read it and journal on top of it while no file holds it. A crash there
  loses the forced commit (not acknowledged) and keeps the ones on top. With one writer
  it cannot happen (`SingleWriterStandsOnDurable`, a part of `CommitsAreOrderly`).
* `lock_manager.h` wants every wait that can enter a cycle to pass through the lock
  manager. A forced commit keeps its locks and waits for the others on the manager's own
  condition variable; a writer that waits for one of the locks closes a cycle nobody
  detects. It ends with the 5 s bound of the checkpoint wait.
* A queued commit whose checkpoint gave up is said to take its place
  (`transaction_manager.h`). Its wait has no bound and looks at `checkpointPending` when it
  wakes up: an automatic request posed in between puts it back to sleep, and as it is
  itself an active writer, the request is never served. Only a BEGIN of another
  connection, held for its own bound, ends it. The waits at the gate share this window,
  which is why `NobodyWaitsForever` has the disjunct `autoCheckpointRequested`.
* A node's panic in a spawned run is raised again where its thread is joined and kills the
  background thread: the run is never announced and stays in the registry (the
  exception in `RunEnds`).
* `background.rs:754-755` says that the run has ended "son entrée aussi (une poignée reprise
  plus tard voit `NoReader`...)". The end closes the sender; the reader of a channel is
  given up by `finish`, which knows the inputs read element by element only
  (`stream.rs:566-570`, `concurrent.rs:626-629`). A live input that is read whole
  (`kinds.rs:152-173` refuses that on edges only) keeps its reader: once the run is over, a
  handle fills the channel and then sleeps in `send` for ever. This is an exception in
  `CallerIsAnswered`; without it TLC refutes the property on the graph `Collect`.
* `LiveOut::recv` is said to return the end of the run or its cancellation
  (`background.rs:456-457`), `LiveIn::send` `NoReader` (399-400). A graph that
  `validate_with` refuses (`concurrent.rs:510`) mounts no thread, so that nobody releases
  the channels given to the caller: both wait for ever. This is the other exception in
  `CallerIsAnswered` (`graph.valid`); without it TLC refutes the property on `Invalid`.
* `runtime.rs:762-765` says that a node whose batch does not read back is replayed, not
  skipped over an empty batch. `mark_completed` removes the files before it updates the
  status. If that update fails, the execution is resumed with its rows and without its
  files. A node stored as completed without an output, because no consumer was left,
  counts as done; a consumer of it that has to be replayed finds no input, is skipped, and
  the execution ends as completed (the exception `cleaned` in `StartedWithItsInputs`).
* The output of an attempt is what none of its nodes took. After a resume it therefore keeps
  a replayed value whose readers were all restored (`runtime.rs:1071-1075`, where a value is
  published whatever its count), and lacks the outputs of restored nodes that nobody reads.
  `PortsAreSound` says exactly this; the drain of the catalog does not look at it.
* A request thread that `server.recv` gives an error leaves (`daemon_host.rs:1186`), and
  nothing replaces it: after as many errors as there are threads the host answers nobody and
  stays until a signal or its idleness ends it. `EveryoneIsAnswered` speaks of the requests
  that a thread took.
* A `reingest_file` that fails after its `begin_snapshot` leaves a session on the grain of
  the file (`code_sync.rs:296-311`), and an error between the `begin_snapshot`s and
  `synchroniser` leaves those of the source (`code_sync.rs:893-910`). They are kept in the
  base: the first refuses every whole indexing (`synchronisation.rs:233-260`, `takeover` too)
  until that file is indexed again, the second every indexing without `takeover`.
* The index of a working tree, cases that `NeverSilentlyStale` names: a change taken back
  before the watch hashed it counts as a touch, although an indexing or a reaction may
  have read it in between; an edit that waited for the catalog indexes the text it wrote,
  whatever the file holds by then; a reingestion that failed after the old scopes were
  taken away or after the row and before the scopes were written, or removals left to a suspended session, are not found by the reconciliation
  of a restart, which compares the hash of the row only.
* A file created after the indexing listed the source is told "read at its batch"
  (`note_change`), and no batch reads it: the exception in `PromisesAreOwed`. The watch,
  where one is mounted, brings it.
* A source that lists no file any more pauses the watch "la même pause, pas une suppression
  en masse" (`watch.rs:510-511`). The pause lasts one scan: the next does not list, finds
  every known file absent, and says each of them removed. The reconciliation of a restart
  does not pause either.
* The reaction does not look at what `note_change` answers: if the indexing has left the
  registry since `indexing_in_progress`, the file keeps its lag and has no event. A lot
  that is done again file by file counts a removal as done, and clears its lag, when a
  suspended session deferred it.
* A free port, a host started by hand, or a client that dies in the middle of a launch can
  each leave a host that serves and is not the one `daemon.json` names. On the fixed port it
  keeps the port while a client stays attached to it, and the others cannot get
  in until then (the exceptions in `ServingHostIsListed` and `ClientGetsIn`).
* Judges and teammates are not joined: one may hold or reopen the backend while the host
  closes it (`late` in `DaemonHost`, the exception in `BackendIsWhole`).
* A journal sync that throws leaves the bytes of the COMMIT in the journal
  (`wal.cpp:30-39`), while `transaction_manager.h:216` says that on reopening the journal
  carries nothing of the transaction. The fault `journal` of `TransactionManager` keeps
  the bytes; the properties checked hold with it.
* Pre-commit actions are said to run when the others have left (`transaction.h:148-150`);
  in the queue they run beside the owner and the other queued commits
  (`hnsw_index.cpp:857-861` names this as a limit). `PreCommitRunsAlone`, a part of
  `CommitsAreOrderly`, has that exception.
* In memory, two commits with pre-commit actions wait for each other until one times
  out: the second stands at the gate while it is active (the exception in
  `NobodyActiveAtGate`, a part of `GateIsSound`).
* A shared waiter may be passed by later shared requests that then upgrade: there is no
  freedom from starvation for shared requests, and none is claimed.

---------------------------------------------------------------------------------------

## 6. Proofs

### 6.1 `LockManagerProofs`

For every set of transactions, every set of integer resources, every set of requests and
every bound on calls, from the assumptions in `LockManager` (resources are integers,
`Nobody` is not a transaction or a resource, requests are pairs of a resource and a
mode, the bound is a natural number):

* `TypeCorrect`, `ExclusionHolds`, `BookkeepingHolds` (`HeldByExact`, `EntryIffUsed`,
  `QueueExact`), `LocksKeptToTheEndHolds`;
* `NoWaitCycleHolds`: no set of waiters in which each waits for a member;
* `BlockersExplainTheWaitHolds`: a waiter can be granted exactly when it has no blocker in
  the wait-for graph, so the detection misses nothing;
* `SomeoneCanMoveHolds`: when every transaction waits, one of them can be served without
  a timeout;
* `GroupedNeverDeadlockHolds`: grouped calls alone are never refused as deadlocks.

The invariants are proved together. `IInv` = `TypeOK`, `CallState`, `QueueExact`,
`MutualExclusion`, `HeldByExact`, `EntryIffUsed`, `NoWaitCycle`. None is inductive
alone: that a wake-up removes the right waiter needs `CallState` (a waiter waits for the
next of its requests), which needs `QueueExact` (who is in the queue of a resource is
exactly who waits for it); `NoWaitCycle` needs all of them.

`NoWaitCycle` is the hard one, because the code searches only when a request is about to
wait. The proof shows that no other step adds an edge towards a transaction that is
itself waiting: a grant, an upgrade or a queue jump makes edges only *towards* the
transaction that runs (`EdgesTowardsRunner`), which waits for nothing, and a departure
only removes edges; a request that enters a queue adds edges from itself alone, and the
search of `reaches` has found none that returns (`NewWaiterClosesNoCycle`: the
transactions from which the newcomer cannot be reached are closed under blockers).

`GroupedNeverDeadlockHolds` (an action property) is what `lock_manager.h` says of grouped
calls: while every transaction is in its first call of `acquireLocks`, no request is refused.
It needs more than the order of one walk, because a call whose locks are not all free is made
a second time, patiently, with the locks of the first try still held. The strengthening,
`GroupsAreOrdered`, says that during the first group what is held is held in the mode asked
for and comes before everything of the group that is not held yet (so there is no upgrade
either), and that what has left `todo` is held. Then those that wait for `r` or for something
after it, together with those that wait for nothing, are closed under blockers; a blocker of
a request for `r` is among them, and the one that asks, which holds only what comes before
`r`, is not (`FirstGroupsCloseNoCycle`).

### 6.2 `TransactionManagerProofs`

For any finite set of connections, any kinds of transactions, configurations and faults
and any bounds (the assumptions of `TransactionManager`; that the set is finite is used
only to count the BEGINs for which a number is left):

* `TypeCorrect`;
* `AckedDurable`: a COMMIT that returned is in the journal or in the last checkpoint at
  every moment, unless a checkpoint was written after a failed one (`disk.wrong`);
* `OnlyTheGate` (an action property): how far that exception reaches. After a failed
  checkpoint nobody new comes to write one, and the disk becomes wrong by no other step;
* `SnapshotsKept`: no snapshot that is open while a checkpoint is written loses its blocks;
* `GateSound`: one owner of the gate, nobody that others wait for at it, nothing committed
  while the checkpoint is written;
* `HalfOnly` (an action property): only a rollback that failed brings a half to the disk;
* `Orderly` (an action property): with one writer a commit reaches the journal only on top
  of durable ones, and outside the queue a pre-commit action runs alone.

They rest on one invariant, `IInv`, kept by each of the 37 actions of a connection and by
the crash. It has three layers. The first reads the fields of the manager off the positions
of the connections: who is active (`ActiveInv`), what each one stopped for (`PurposeInv`),
who keeps the mutex (`MtxInv`), who owns the gate (`GateInv`), who is queued, and who
writes (`QueueInv`), and that a checkpoint is started when no writer is open (`AloneInv`).
The second is about numbers: they are given once, and what is active is applied nowhere
yet (`IdInv`, `BoundInv`). The third relates memory, journal and disk: the image of a
checkpoint is what memory still holds at its end, or, after a failed one, a part of it that
is marked wrong (`WritingInv`); what is acknowledged, or
about to be, is durable (`DurableInv`); a half belongs to a transaction that waits for its
rollback (`HalfInv`); a commit that lives in memory alone has no writer beside it
(`SingleInv`).

`AckedIsDurable` looks local and needs nearly all of it. The journal is emptied at the end
of a checkpoint: nothing may have been journaled since its image was taken, hence no writer
open, hence the gate, hence one owner. And a queued commit returns because a checkpoint
completed whose number is greater than its ticket: that this one *started* after it was
applied is the conjunct of `DurableInv` about `queueDone`, and it holds because a ticket is
taken only while the owner of the gate has not started its checkpoint.

### 6.3 `CheckpointRecoveryProofs`

For any set of pages and any bounds on transactions, checkpoints and crashes:

* `TypeCorrect`;
* `RecoveryExact`: whatever died and whenever, the recovery too, an opening reads one
  checkpoint whole, replays no transaction that it already holds, and serves every
  acknowledged one;
* `LastCheckpointSafe`: no transaction and no checkpoint in progress writes a page that
  the last complete checkpoint needs;
* `Refinement`: `Spec => StoreSpec`. Every step of a commit, a checkpoint, a failure, a
  crash or a recovery maps to a step of `DurableStore` or to none.

The state after a crash is chosen anew for every page and for each of the three files, so
the invariant has to say of what is *shown* and of what is *on the medium* at once which
state an opening would serve. `IInv` is split by where the mark of the checkpoint is:
nowhere (`QuietInv`: one image in both, and the same journal but for a commit not yet
synced); in the journal shown only (`MarkingInv`: both the old image and the shadow file
are whole, so that either outcome of the sync is a state); in both (`MarkedInv`: the
shadow file is the image, however much of it is copied); on the medium only (`StaleInv`:
the journal was emptied or removed, the removal may be lost, and the data file already
agrees with the shadow file that would come back). `JournalInv` says that no journal holds
what the image below it holds, `MemoryInv` what each step of the engine knows, and
`AckedInv` that what is acknowledged is on the medium and that what is on the medium is
shown. From these a lemma computes what `Recovered` gives for every file state a crash can
leave, and the refinement follows action by action: the state served changes where the
record of a commit, or the mark, is written or lost, and nowhere else.

### 6.4 `CheckpointedRunProofs`

`CompletedIsTheEndHolds`, `PortsAreSoundHolds`, `StartedWithItsInputsHolds` and
`DoneIsNotRedoneHolds`, for any graph over a finite set of nodes, any numbers of crashes
and of failed writes, and both ways of keeping a drain. Assumed: the nodes are numbered so
that edges go upwards (`GraphAssumption`: the graph has no cycle), each port that is
modelled has a producer, and only nodes publish.

`IInv` has ten parts. `Types`, `Position` (what each place of the drain says of rows, status
and nodes at work) and `Order` (a node starts once, after its producers) are the frame.
`LeftInv` ties `remaining_consumers` to the readers that have not started; it is an equality
for a node whose value is published or that is not done, and only a bound for one restored
without its value, since a resume counts the readers of all nodes alike. `InputInv` says
when a published value is in the store: until a reader of this attempt took it last, and to
the end if all its readers were restored, which is what `PortsAreSound` says of the end; `RowInv`, `SavedInv`, `DidInv` and `EndInv` tie the rows, the files and
the spool to what was executed: a node that reads back, or will once the spool is written, is
done in the attempt at work.

`ValueInv` is what the values need, and the part that is not obvious from the code. An
output whose readers are all done is saved without its value (`OutputOf`), so a resume
restores it unpublished. That is harmless only because each of its readers reads back as
well: they were restored themselves when the output was saved, and while the execution is
under way no file is removed. The last two conjuncts of `ValueInv` state it, and the removal
of the files by a `mark_completed` that is then not recorded is exactly the exception that
`StartedWithItsInputs` names.

Two facts speak of the whole graph: nothing skipped is taken, and a level with nodes left
finds one ready. Each is proved by its least counterexample (`SmallestNode`), from `Taken` and
`Skipped` being fixpoints (`TakenIsFed`, `SkippedIsFixpoint`): the least taken node that is
skipped has a required port, hence a taken producer that publishes, which is smaller, hence
not skipped, hence done, and its value is there for a reader that has not started.

### 6.5 `DaemonLaunchProofs`

`LaunchIsSoundHolds`, for any sets of clients and hosts and any bounds, from
`Nobody \notin Host \union Client` and `FreePorts \subseteq BOOLEAN`. What has to be shown
is that `RemoveStale` and `LeaveRemove`, which remove `daemon.json` whatever it names by
then, never hit the file of a serving host. `IInv` = `Typed`, `OneLaunch`, `PortIsHeld`,
`StartIsWatched`, `ProbeIsTrue`, `ServingHostIsListed`. A host that starts is the child of
the client that holds the lock (`StartIsWatched`, which rests on `OneLaunch`), so while a
client is between its probe and its launch no host can come to serve, and the silence it
heard stays true (`ProbeIsTrue`); a host that is leaving still holds the fixed port
(`PortIsHeld`), so no other has written the file when it removes it.

### 6.6 `DaemonHostProofs`

`BackendIsWholeHolds` and `HealthyIsKeptHolds`, for any finite set of request threads and
any number of requests and calls, from `Agent \notin Worker` and `IsFiniteSet(Worker)`.
`IInv` = the types (`SlotTyped`, `ThreadTyped`, `EndTyped`, `QueueTyped`), `ReadersHold`,
`InstIsPast`, `LetGoIsSick`, `WorkersAreGone`, `ClosedIsClosed`. `HealthyIsKept` needs two
of them: the number a call remembers was given out before (`InstIsPast`), so an instance
opened since has another number; and if the number is still the one, the open instance
is the one that was seen sick (`LetGoIsSick`).

### 6.7 `CodeIndexProofs`

`PromisesAreOwedHolds`, for any sets of files, contents and edit tools and any bounds, from
`Absent \notin Content` and the names of the holders being distinct. The comment of
`note_change` gives the argument in two sentences (the indexing marks before it reads, the
edit writes before it asks); the proof adds what they leave out: the batches, the
resumption, failures and the way out. `IInv` = `Types`, `Holders`, `Batches`,
`PromisesAreOwed`. `Holders` says that the source is enrolled exactly while the indexing
holds the catalog; `Batches`, that the registry's `lus` are the batches done or in hand
and that the queue holds only such files. Without the first a promise could outlive its
indexing; without the second a file could be marked and neither be read again nor be
queued.

`NeverSilentlyStaleHolds`, from the same assumptions: a file whose row or scopes differ from
the disk is in the lag, in what the watch found or has yet to see, under an indexing that
has not carried its last batch, in a source marked incomplete, or one of the named
exceptions. `SignInv` = `IndexTypes`, `Sessions`, `ReadsAreSigned`, `CarriedIsSigned`,
`IndexIsSigned` is inductive beside `IInv`. What makes it hold is what every thread has in
its hands: a text that the indexing, the reaction or an edit has read and not yet written
either is still the file's, or the file has a sign that outlasts the writing
(`ReadsAreSigned`); of a file that the indexing is done with, the row it will keep is exact
or signed (`CarriedIsSigned`), so that the end of the session, which takes away what no
batch carried, hides nothing (`IndexIsSigned`).

### 6.8 `BackgroundRunProofs`

For any set of graphs (any nodes, edges, ports, restored nodes, failures and panics), any
capacity of at least one and any number of elements, for runs in the foreground and
launched ones:

* `DetectorMissesOnlyHalfEnded`: `[]MissedOnlyHalfEnded`;
* `OutcomesTrue`: `[]OutcomesAreTrue`;
* `StoreHoldsWhatCompleted`: `[]SavedExactly`;
* `StopGoesThrough`: `[]StopIsSound`;
* `HubTellsTheTruth`: `WaitersAreToldTheTruth`, which is three action properties.

Assumed: no node is called `caller`, `launch` or `timer` and the numbers of channels are
positive (`GraphsAssumption`; in the code both are ids that the hub gives out), the settings
of a launch are Booleans and the caller is at the other end of the two channels that `spawn`
makes for it (`LaunchAssumption`). That a graph is finite or has no cycle is not needed: a
node may be its own reader, and the detector is what ends such a run.

A first part says of each method of the hub what it returns and what it leaves alone
(`SendFacts`, `RecvAnyFacts`, `WorkerDoneFacts`, ...). The invariant `IInv` has eight parts.

* `HubInv`: the hub has its type, and the detector has nothing left to declare: if the run is
  not cancelled and every live worker waits, some wait passes for servable (`Detected`). A
  worker that is running makes it true at once, so only the steps after which everybody may
  be waiting matter: the code looks for a deadlock in exactly two places, where a worker
  goes to sleep and where one departs, and the proof shows that two are enough. The release
  of an end, a value sent or read, and a registration keep `Detected` because the one who
  does it is itself up, or because they only make waits servable.
* `ThreadsInv`, per node: it is counted as waiting only where its code is inside a send or a
  read; who fails, is cancelled or panics leaves a cancelled hub behind (`Interrupted`, the
  order that `Fail` is written for); an output ends only when its node has an ending
  (`Releases`); and what the departure has struck off its list is at its end (`ReadWhole`).
* `MainInv`, `NamesInv`: where the main thread is, and for each kind of worker exactly when it
  is signed in. The worker `launch` stands for the nodes until they are signed in themselves:
  it is up all the while, so no deadlock can be declared before the start.
* `SaveInv`: what completed is in the store or in the queue, and nothing else is in either.
* `HandleInv`, `CallerInv`, `FondInv`: the handle, the caller and the background thread.

Truth of an end comes from `Releases` and `Interrupted`: a channel without senders in a run
that is not cancelled belongs to a node with an ending that is none of the bad ones
(`EndIsProduced`). `Return` looks at the cancellation after `execute`; without that look
(its mutant) the step from `exec` to `outputs` breaks `ReadWhole`.

`MissedOnlyHalfEnded` then follows in one step: all are asleep and blocked, so `Detected`
gives a wait that passes for servable; whoever waits is alive, except a caller that came
after the end, and then nobody else is left; and a wait that is blocked and passes for
servable is a read on several channels of which one has ended (`BlockedButServable`).

One lemma per action shows `SoundStep`: the invariant is kept, a deadlock that this step
declares finds every signed-in worker but one in a wait nothing answers (and that one is
neither `launch` nor `timer`), and an end that this step tells is true. The action
properties rest on that, and on `NamesInv`: who can still act is signed in.

The proof corrected one property. `TruncatedNeverCompletes` used to say that a whole input
of a completed node is empty and without senders. That is so for an input fed by nodes.
For the open input of a launched run it is not, when that input is read whole: `LiveIn::send`
does not look at `closed`, so a caller may put an element into a channel it has closed and
whose end was read (`refuse_complete_on_open` looks at the edges of the graph only, so such
an input is not refused). The property now says for that channel only that no sender is
left; the graph `Collect` of the run has the case. Nothing in the code promises that such an
element is read, so no property claims it; that the sender is told is promised, and not
kept (section 5).

---------------------------------------------------------------------------------------

## 7. Limits

**Only model-checked**: `RecoveryNeverStuck` and all liveness
(`RunEnds` and `CallerIsAnswered` of `BackgroundRun`, `ResumedUntilCompleted` of
`CheckpointedRun` too). Liveness under fairness and `ENABLED` (`RecoveryNeverStuck`) are
beyond this prover.

**Form of updates**: where a step changes several fields of one element of a function, the
models write the element anew (`![c] = [@ EXCEPT !.a = x, !.b = y]`, or the record in
full) and never `![c].a = x, ![c].b = y`: tlapm 1.4.5 translates two updates of the same
index for its SMT solver in a contradictory way. To be sure that no proof leans on it, each
action of the proved modules was also tried for `FALSE` from the invariant and the action,
which must not be provable, and is not.

**Assumed**:

* Directory changes (creation and removal of the journal and of the shadow file) become
  durable in their order, at the latest with the next sync. The code syncs no directory.
  Without this, a journal that ends with CHECKPOINT could come back after a power loss
  beside the shadow file of a later checkpoint.
* A page the last checkpoint designates is not given out before the next one completes
  (`OptimisticWrite`): the page manager's promise, to be modelled.
* The fields of the header that a checkpoint changes fit a sector.
* A sync that fails is a fault of `TransactionManager` only; in `CheckpointRecovery` a
  failing step ends the checkpoint.
* In `DaemonLaunch`, a lock of the operating system goes with its process, and an idle
  host does not stop in the seconds between a client's probe and its attachment.
* In `CheckpointedRun`, a crash is the death of the process. The files are never synced
  (`std::fs::write`, `checkpoint_store.rs:117`), so the machine may lose one that a row
  names: its node does not read back then and runs again, which is not modelled.
* In `CodeIndex`, a change of content moves the stamp of its file, a listing is a picture of
  one moment, and a batch or a lot writes each of its files whole or not at all (the edit
  tool's writes are modelled one by one).
* In `CodeIndex`, a change is noted before or after the instant of a read. The code compares
  milliseconds and takes equality for before (`retard.rs:74`): a change that is written,
  seen and noted in the very millisecond in which the reading of the file began loses its
  lag; its event still brings the reaction.
* In `CodeIndex`, a session left on the grain of a file (section 5) is not state of its own:
  the refusal it causes is one of the errors of `SyncFail`. The two sessions of the source
  are one: that the first is given up when the second is not granted is `SyncFail` without
  a change.
* The lock waits of `TransactionManager` are single locks of writers that last to the end
  of the transaction; the details are `LockManager`'s.

**Abstracted**: `refreshSnapshot`'s test of `hasWritten` (a write transaction may move its
snapshot forward whenever it waits for nothing); the snapshot floor is `startTS`; the
checkpoint threshold is a nondeterministic choice; timeouts fire at any moment while the
wait lasts. In the runtime: the elements of a stream are counted, not valued; a node has
one output under checkpoints; what makes a base sick, a manifest change or an embedder
come back may happen at any moment; the background runs and the watch that hold an idle
stop back are a choice. In the code index: refusals of the end (too many rows missing)
and every other error of an indexing are `SyncFail`.

**Not modelled**: corruption in the middle of a journal and the bytes set aside when it is
cut (`setAsideCutBytes`), read-only openings, `CREATE INDEX`'s wait for earlier writers;
sub-graphs on the channels of a parent (`execute_delegated`), callbacks of a cancellation,
a second actor on the same live input (`LiveIn::for_another_thread`: a worker of the hub that
the detector counts until it closes its own handle, also after the end of the run), taps; undo contexts, the twin of the checkpoint store over SQL, the stop handle of a run
by levels; the systemd unit, a second host on an explicit `--address`, the token; several
backends in one host, sessions, the streams of the IDE; of the code index, the debt of
embeddings, the two ways of writing relations, the gate for generated files, `takeover`,
`plan_only` and several catalogs on one tree; and the components of 1.2 and
1.3 named there.
