# Futriis in TLA+

Futriis is a document store in Go. One process keeps collections in memory, logs transactions to a
segmented write-ahead log, replays the log at start, saves snapshots now and then, checks sessions
and permissions, copies tasks to another data centre and migrates its own schema. Cluster code for
many nodes is there, but a start with more than one node ends the process, so the program as built is
a single node.

This directory holds TLA+ models of the parts that run, the TLC configurations that check them, and
proofs that TLAPS checks. Line numbers are those of the repository; *T* is
`src/internal/storage/transactions.go`.

## The system

| Component | State | Operations | Hard behaviour | What makes it correct |
|---|---|---|---|---|
| Segmented WAL (*T*, `SegmentedWALManager`) | `writeChan`, `ackChan`, the writer's batch, segment files, the `bufio.Writer` of the newest | `WriteSync`, `writerLoop`, `flushBatch`, rotation, `ReadAll`, `Close` | callers against one writer, timeouts, failing writes, a crash in a write, restart, shutdown | records neither lost, duplicated nor reordered; a nil answer means something; nothing waits for ever |
| Transaction manager (*T*; `commands/crud.go`) | the one `currentTx`, `activeTransactions`, operations, timers, counters, `tx.mu` | begin, stage, commit, abort, timeout, list | clients share `currentTx`; timer against commit; log timeout and retry; a commit that fails half-way; a read lock taken twice | log before apply, a nil commit applied what it logged and nothing is committed twice while it stays, list and counters right, everything ends |
| Asynchronous recovery (*T*) | `recordChan`, `errChan`, workers, `isRunning` | `Push`, worker, `errorMonitor`, `Stop` | stop against push, full channels, databases that do not exist yet | a record the channel took settles once, `Stop` drains |
| Task queue, worker pool (`cluster/worker_pool.go`) | linked list with `head`, `tail`, `size`; `activeWorkers`, `wg` | `Enqueue`, `Dequeue`, `Submit`, worker, dispatcher, `Stop` | compare-and-swap races, lagging size and tail, the last worker leaving as a task arrives, a panic in a task | a FIFO queue; every task runs; worker count within its limit |
| Collections (`storage/collection.go`, `document.go`) | documents, indexes, constraints, counters in `sync.Map`s and atomics | insert, delete, restore, expiry, index creation, drop | check-then-act against concurrent calls, a lock taken or released twice | uniqueness, counts equal contents, calls return |
| Persistence (`storage/persistence.go`, `main.go`) | snapshot files, versions, `pm.mu`, `stopChan` | `checkpointLoop`, `SaveAll`, cleanup, `Stop`, the end of `main` | three savers of the same databases, files removed while others are written, names used again after a restart | the newest snapshot survives; a `Stop` that returns has saved |
| Migrator to another data centre (`cluster/crossdc_migrator.go`) | task status, `tasks.json`, checkpoints in memory and in files, the change queue | start, pause, resume, cancel, the run and its workers, three loops, `Stop` | checkpoints ahead of the sends, two runs of one task, a full error channel, calls that come while `Stop` is at work, restart | what counts as migrated is on the target; runs end |
| Access control (`acl/manger.go`) | users, roles, sessions in three maps, `m.mu` | logins, changes of users and roles, `CheckPermission`, cleanup | calls with the mutex against calls without it, copies of roles in sessions | sessions match users, their number is limited, a yes was justified |
| Schema migration (`migration/schema_migrator.go`, `main.go`) | the schema and the list of applied migrations, in memory and in two files | load, migrate, save | an error, a panic or the end of the process between any two steps | nothing half-migrated, nothing taken for done that is not |
| MVCC, visibility map, read cache, versions; sagas; deadlock detector; leader fallback; Raft coordinator, shards, TCC, pipeline, batch commit, joint consensus; replicator; gossip, healing, backpressure; triggers, limits, audit; configuration; backup, autoscaling; plugins; HTTP, REPL; metrics, logging | | | | not modelled, see the end |

**How they interact.** Clients (the REPL, each HTTP request, plugins) call the access control, then
the transaction manager, which calls the log (`WriteSync`) and then the collections, or the
collections directly. `main` opens the log and replays it through the recovery manager; nothing loads
the databases of an earlier life, and a record fails until a client has created its database again.
Checkpoints read the collections while clients change them. Cluster code submits functions to the
worker pool, whose workers take them from the task queue. `main` migrates the schema at each start. At
shutdown a goroutine of `main` saves all databases, stops the persistence and closes the log, while
`main` itself returns half a second after the REPL. `PROJECT.json` lists every component with its
status, and under `hazards` what is hard to test, line by line.

## Modules

| Module | Models | Notes |
|---|---|---|
| `DurableLog` | what the log promises | abstract: accept, and append some accepted records in order |
| `WAL` | `SegmentedWALManager` | implements `DurableLog`: what a start would read with `ReadAll` is its log |
| `Transactions` | `TransactionManager`, the staging commands | the log inside it is `WAL` with one record per flush |
| `Recovery` | `startAsyncRecovery`, `AsyncRecoveryManager` | |
| `TaskQueue` | what the pool needs of its queue | abstract FIFO queue; nil only if it was empty during the call |
| `LockFreeQueue` | `LockFreeQueue` | implements `TaskQueue` |
| `WorkerPool` | `WorkerPool`: `Submit`, the workers, the dispatcher, `Stop` | takes `TaskQueue` for its queue (`INSTANCE`) |
| `Collection` | `Collection`: documents, indexes, constraints, counters | |
| `Persistence` | `PersistenceManager` under `main` | |
| `Migrator` | `CrossDCMigrator` | |
| `Acl` | `ACLManager` | |
| `SchemaMigrator` | `SchemaMigrator` under `main` | |
| `WALProofs`, `TransactionsProofs`, `LockFreeQueueProofs`, `WorkerPoolProofs`, `MigratorProofs`, `AclProofs`, `CollectionProofs` | | TLAPS proofs about the module of that name |
| `MainProofs` | | TLAPS proofs about `Recovery`, `SchemaMigrator` and `Persistence`: what `main` does to the data before it serves, beside it and at the end |
| `MCTransactions`, `MCCollection`, `MCMigrator` | | the same modules with definitions for constants that are functions or sequences; the other runs need none |

Definitions keep the names of the source where TLA+ allows it. An action is what a goroutine does
between two points where another can act: a channel operation, a lock, an atomic load, store or
compare-and-swap. Small decisions (a comparison, a bound, what a variable is reset to) are
definitions of their own; next to each stands a definition `..._slip`, the same decision with a
plausible mistake, which no action uses. `PROJECT.json` pairs each checked property with the slip
that breaks it.

**WAL.** A record is the number of its acceptance by `writeChan`. `Send`, `TakeAck` and `Timeout` are
the three ways through `WriteSync`; `Receive`, `Tick`, `WriterStop` the cases of `writerLoop`; `Rotate`,
`WriteRecord`, `FlushAndSync`, `SendAck`, `EndFlush` the parts of `flushBatch`. `CloseStart`,
`CloseEnd`, `Exit` are the shutdown, `Crash` ends the process anywhere, `Restart` is
`NewSegmentedWALManager` with the reading that follows it. A write that fails, or is cut short by a
crash, leaves any prefix of the buffer in the file, possibly with a torn record at its end. `ReadAll` is
the reading at start, over all files; in a process that runs it would read nothing of a segment that a
rotation has closed, and nothing calls it there. Nothing past a torn record is read (`Readable`): the
code skips a record whose JSON or checksum is wrong, but the torn one announces more bytes than it has
and takes in what follows, so that reading goes on inside a later record, whose text, taken for a
length, is beyond the 100 MB at which it ends. A loaded segment is not opened for appending, so the next
write goes where reading left the file: its end, or, past a torn record, possibly short of it; what will
be written over counts as torn from then on. Segment size is counted in records. The index file and LSNs
are left out: the LSN of a record is never assigned, and recovery uses neither.

**Transactions.** `current` is `currentTx`. A call is split where it can be interrupted: staging into
the check of `currentTx`, the wait for `tx.mu` and the append; a commit into its checks and the send to
the log, the wait, one step per applied operation, the marking and the clearing; an abort into the
reading of `currentTx`, the marking and the clearing; the timer callback into check and action;
`GetActiveTransactions` into its read lock (`ListRead`) and the second one inside `GetSavepoints`
(`ListAgain`). `Remove` is a document leaving the storage by a delete, a drop or its expiry,
`ApplyFails` an operation that meets no database, no collection or a limit. A write lock that waits
keeps new readers out (`WriterWaits`, `MayRead`). A commit that fails calls the abort, which reads
`currentTx` anew. The stores of a begin, those of a timer that aborts, and `State` with the counters and
the timer at the end of a commit or an abort are one step each: no guard of another step reads two of
them. Inserts are one step; a document carries the key a unique index would hold. In the code fields are
lost to a panic in `Document.SetField`, so that key is the same for all documents of a collection with a
unique index. Counters wrap at `Width`.

**Recovery.** Replaying a record fails while its database does not exist and may fail or succeed
after. A record that `Push` gives up after its 100 milliseconds is lost (`dropped`): the loop goes on to the
next and nothing comes back to it. `Wait`, which nothing calls, and the flag that depends on it are left out.

**LockFreeQueue.** Node `t` is the node made for task `t`, node 0 the dummy. The locals a round of
a loop has loaded are cleared when the round ends. `linked`, `taken`, `got` and `sawEmpty` are
history variables; `Queue`, the tasks behind the head, is what the queue holds.

**WorkerPool.** A call of the queue is one step of `TaskQueue`, which is sound because
`LockFreeQueue` implements it; `size` follows in a step of its own, as in the code. `spc`, `wpc`
and `dpc` say where each caller of `Submit`, each worker and the dispatcher is; every load, add and
compare-and-swap of `activeWorkers` and every `wg.Add` and `wg.Done` is a step. `Goroutines` are the
slots for workers: a `go wp.worker()` takes a free one, and a worker that replaces one that panicked
takes its slot. The dispatcher's test that the last completion is five seconds ago may go either
way. The statistics, a panic of the dispatcher itself and a second call of `Stop` are left out, and
so is the check the `WaitGroup` makes of an `Add` from zero concurrent with `Wait`.

**Collection.** `call[c]` is the call of a caller with what it has loaded so far. An insert is
`InsertCheck` (limit and `_id`), `InsertUnique`, `InsertStore` (`LoadOrStore`), `InsertIndex`,
`InsertCount`, and `Meta`, the section under `c.mu` that ends it. Delete, permanent delete and restore
share `LoadId`, `LockIndexes`, `Mark`, `Unindex`, `Remove`, `Discount` and `Reindex`, each with the
rules of its operation. A restore with its entries in the indexes is one step (`Reindex`), and so is the
soft delete by which a `Find` meets an expired document (`FindExpired`). `CreateIndex` takes `c.mu`,
ranges over the documents and publishes; over duplicates it unlocks in the callback and again in its
`defer`, and an unlock of a free mutex ends the process (`dead`). `Drop` takes `c.mu` and, with
`AutoIndexID`, asks for it again. Constraints and roles are copy-on-write maps: a call loads one,
changes its copy and stores it. An insert runs against documents without fields, since `SetField` panics
before it changes anything (`document.go:140-142`; `atomic.Value` cannot compare maps).

**Persistence.** The three savers (`checkpointLoop`, the `SaveAll` of the shutdown, that of `Stop`) take
`pm.mu` for each database: draw a version (`Begin`), read the collections one after the other while
clients write (`Read`), write the temporary file (`WriteTmp`), `Rename`, or fail and leave the temporary
file behind (`SaveFails`). `CleanupList` and `CleanupRemove` are `cleanupOldCheckpoints`, which counts
temporary files and those of every database. Snapshots are compressed, as by default, so that one cut
short cannot be read, and no two files have one modification time. `Signal`, `BeginStop`, `StopWaited`
and `MainReturns` are the shutdown; `Killed` and `Restart` the end of a process and the next one, which
draws version 1 again and so meets the files of the life before.

**Migrator.** A run has a sender (`Queue`), workers (`Receive`, `Sent`, `SendFails`, `Report`),
and the collections in turn (`Enter`, `CollectionDone`), then the delta synchronisation and the
end. `ckptFile` and `ckptData` are the two checkpoints the code keeps apart: what is in the file and
what `CheckpointData` holds. `checkpointLoop` reads and saves in one step (`Tick`), and the two stores at the
end of a collection are one (`CollectionDone`). Pause and cancel set the
status and do not stop the run, so a resume starts a second run of the task beside it. `Stop` is
`StopCall`, `StopWaited` (`wg.Wait`), `StopClears` (`active`), `StopSaves` (`saveTasks`, which may fail or
leave a file cut short) and `Exit`. Users may call in between: `StartMigration` and `ResumeMigration` test
neither `stopChan` nor `active`, so a run may begin that `Stop` does not wait for; `late` remembers its task.
Such a run stops where it next meets `active` cleared (`StopSending`, `Enter`, `SetTaskError`; `passed`
are the runs that tested it just before), and its task may be in `tasks.json` as under way. Ids of
documents are whatever clients chose and may repeat over collections, as a checkpoint names none.
The change queue is a set of changes without its LSNs and its file. The target is external.

**Acl.** `mu` says who holds `m.mu` and what it still has to do: a change of a user is followed by
dropping its sessions, a deletion of a role by the users that have it and then by the sessions that
carry it. `Logout`, `RemoveExpired`, `CheckSession` and `CheckRole` run without the mutex. A check
asks for one of the permissions `wanted`; for its property it remembers the roles its user `had` when the
session was loaded, those that a call at work was taking away (`taken`) among them, and which of these
`could` have given what is asked, then or since.

**SchemaMigrator.** `Load`, `Skip`, `BeginMigration`, `Up`, `Commit`, `SaveSchema`, `SaveList` are the
way of `main` through a start; `Fails` is an error or a panic of an `Up` or of the commit, `Crash` the
end of the process anywhere. `Load` is `ReadSchema` or, on any error as well as without a file,
`DefaultSchema`, which writes the default over what is there (`overwritten`); the list of applied
migrations is read by itself, and one that cannot be read counts as empty. A migration is its rank; a
schema is its version and the changes it has.

## What the runs show

| Run | Shows | Bounds |
|---|---|---|
| `wal` | order and uniqueness of records over rotation, write errors, crash and restart (`LogInOrder`); no more nil answers than flushed records (`AcksBackedByFlushes`); when all calls have returned nil and the disk did not fail, all records are on disk (`QuietMeansDurable`); `Close` keeps what the writer has received (`CloseFlushesReceived`); what a start would read only grows at its end (`ImplementsDurableLog`); every `WriteSync` returns; every record leaves memory | 2 callers, 3 records, channels, batches and segments of 2, one crash, any number of clean restarts: a batch that fills and one that does not, a rotation inside a batch, a full channel, a torn record with records behind it |
| `wal_ack_other` | expected to fail: a nil answer does not mean one's own record is on disk | no fault at all |
| `tx` | active transactions are listed (`ActiveIsTracked`); log before apply; the four counters balance (`CountersBalance`); a nil commit applied what it logged, and two of them share a document only if it left the storage (`CommittedOnce`); every transaction and every call ends (`EverythingEnds`) | 2 clients, 2 transactions, 1 document, 2 log records, counters modulo 4: two clients on one transaction, a replaced `currentTx`, a retry after a log timeout, a counter below zero, one transaction committed twice at once with a delete in between, a list caught between its two read locks |
| `recovery` | each record the loop is past is in one place, settled once or given up by `Push`, none of the first `ChanCap` before a stop (`EachRecordOnce`); `Stop` returns with everything drained (`StopDrains`); every queued record settles | 3 workers, 6 records, channel of 2, stop after the first error: both channels fill, and `Stop` meets a pushing loop, busy workers and records still queued |
| `queue` | one chain of nodes with the tail at most one behind (`OneChain`); size right up to the calls that have yet to count; the FIFO queue of `TaskQueue`; every call returns | 2 producers, 2 consumers, 2 tasks: each compare-and-swap can fail, each helper can help, the queue can be empty with the tail behind |
| `pool` | `activeWorkers` and `wg` count the goroutines they stand for (`CountsMatch`); `maxWorkers` is kept until a panic (`WithinLimit`); after a graceful `Stop` no task runs (`StopIsQuiet`); every accepted task runs unless the pool is stopped; `Stop` returns without its timeout | 2 callers, 2 worker slots, `maxWorkers` 1, 2 tasks, one retirement, one panic: callers and dispatcher race for the first worker, a task arrives as the last worker leaves, a replacement exceeds the limit |
| `collection` | sequential calls leave unique indexes, counts and constraints in agreement with the documents (`SequentialContract`); the metadata catch up with the count under every interleaving; an inserted document stays until a call is asked to delete its id (`InsertedStays`); every call returns | 2 callers, 4 calls, 3 objects of which 2 share an id, one key: insert against insert of one id, insert against index creation, delete, restore and delete again; with and without `SoftDelete` and `AutoIndexID` |
| `persistence` | the newest snapshot is never lost (`SavedStays`); a `Stop` that returns has saved what existed (`StopSavesAll`); it returns | 1 database with 1 collection, `MaxCheckpoints` 1, 2 writes, 2 rounds of the loop, 2 lives, 1 failing save: a cleanup meets a save, a temporary file stays, a file name comes again, the loop saves during the shutdown |
| `migrator` | a task without a run and without a counted failure has all documents on the target (`QuietMeansMigrated`); a restart resumes only what was begun behind the back of `Stop` (`OnlyLateResumed`); runs and `Stop` end | 1 task, 2 runs, a collection of 2 documents and an empty one, 1 worker, batches of 1, 2 failing sends, 1 pause or cancel, 1 crash: a checkpoint ahead of its send, two runs at once, a jammed error channel, a run begun when `Stop` has waited |
| `acl` | no session outlives what it was opened for (`SessionsMatchUsers`); their number is limited; an answer yes rests on a role of the user and a permission of that role (`CheckIsJustified`) | the administrator and one user, 2 roles, 1 permission, 1 caller with the mutex against `Logout`, expiry and a check without it, 1 session per user, 2 at once |
| `acl_lockout` | expected to fail: the failed login that locks an account takes `m.mu` twice, and it and every later call wait for ever | 1 user, 2 callers |
| `schema` | what counts as applied is in the schema (`AppliedIsInSchema`); no schema with some of the migrations (`SchemaIsWhole`); a start that reads the schema there is and meets no error ends migrated (`EndsMigrated`) | the 5 migrations of the program, 3 errors of reading or writing or panics, 2 ends of the process, so 3 starts |

Deadlock checking is off in all of them: bounded callers stop when their bound is reached, a process
that has panicked or ended does nothing, and counters of the environment run out. The bounds were chosen
for the cases named above. With a second document `tx` runs for much longer than the two minutes it takes
now; for larger instances of the parts that have proofs the theorems below speak. `acl` is the largest
(about 3.3 million states), `schema`, which is nearly sequential, the smallest.

The type invariants (`TypeOK`, `SchemaTypeOK`, `SaveTypeOK`) are theorems and in no run.

**Exceptions the properties name.** `EverythingEnds` leaves out a call that is `Stuck`: a list holds
`tx.mu` for reading and asks for it again in `GetSavepoints` (*T* 3883), a client waits between the two
to append and keeps new readers out, and all of them wait for ever. `EveryCallReturns` of `Collection`
leaves out a process that has died and a `Drop` with `AutoIndexID`, which waits for the lock it holds.
`RunsEnd` leaves out a run with more failures than workers (`Jammed`), whose workers fill a channel
nobody reads yet. `SequentialContract` is stated without `SoftDelete`, with which `docCount` counts a
document down twice. `CommittedOnce` leaves out a document that was deleted, dropped or expired between
two commits, with which both answer nil and apply it. `EachRecordOnce` counts what `Push` gives up as
lost. `QuietMeansMigrated` leaves out a task begun when `Stop` had waited and an id that is the key of a
collection, and `OnlyLateResumed` the same tasks. `AppliedIsInSchema` and `EndsMigrated` leave out the
default schema written over one that could not be read. `CheckIsJustified` does not say that role and
permission held at one moment. `WithinLimit` is stated up to the first panic. `SavedStays` asks for as
many checkpoints as there are databases.

**Fairness.** `WAL`: the writer goroutine is scheduled, the ticker fires, `Close` and `main` go on,
and a waiting caller takes a token that is there; the timeout of `WriteSync` need not expire, so the
tokens suffice. `Transactions`: timers fire and calls under way continue; the log need not answer,
since a commit has a timeout. `Recovery`: the pushing loop, each worker and the monitor are scheduled
while the process runs. `LockFreeQueue`: a goroutine inside a call is scheduled. `WorkerPool`: callers
inside `Submit`, workers, the dispatcher and the waiting `Stop` are scheduled and the ticker fires; the
ten seconds of `Stop` need not pass. `Collection`, `Acl`: a call that has begun goes on. `Persistence`:
savers, the cleanup, the end of the loop and `Stop` go on; ticks and signals need not come.
`Migrator`: runs and `Stop` go on. `SchemaMigrator`: `main` goes on. All are weak fairness of one
goroutine, which the Go scheduler gives, but for one: strong fairness of the dispatcher's `stopChan`
case, because `select` chooses at random among ready cases and cannot choose the ticker for ever.

**Where code and documentation part.** `wal_ack_other` and `acl_lockout` are runs; `findings` in
`PROJECT.json` quotes the lines. The rest was met while modelling, and the properties are stated
around it:

- records written behind a torn one are acknowledged and unreadable (*T* 2348, 2624; README.md:764);
- an operation staged between the two reads of a commit is applied and not logged (*T* 3317);
- a commit that fails half-way leaves what it has applied (*T* 3318; README.md:765, 815);
- records still in `writeChan` are dropped by `Close` (*T* 2485);
- `Push` may send on the channel `Stop` has closed (*T* 2776), which ends the process;
- `recoveryComplete` waits for a channel only `Wait` closes, and nothing calls `Wait` (*T* 2783);
- updates and deletes are reported as staged and are not (`crud.go:315`, `348`);
- `Document.SetField` always panics (`document.go:140-142`);
- `CreateIndex` over duplicates unlocks twice (`collection.go:1077`), `Drop` with `AutoIndexID` waits
  for itself (`collection.go:1340`);
- `main` ends half a second after the REPL, saved or not (`main.go:461`);
- `Push` gives a record up for good when the channel is full for 100 milliseconds; the log line says "some
  records may be delayed" (*T* 3747);
- a start of the migrator resumes nothing that a crash or `Stop` has interrupted, though the comments say
  that unfinished migrations are restored (`crossdc_migrator.go:393`, `1364`): `tasks.json` is written
  by `Stop` alone, after the runs; what it does resume is a task begun while `Stop` was at work (430, 1512);
- equal ids in two collections are skipped by a migration's checkpoint (`crossdc_migrator.go:742-771`);
- with `MaxRetries` 0 no document is sent and none counts as failed (`crossdc_migrator.go:873-890`);
- a task submitted to the pool after `Stop` never runs (`worker_pool.go:306`);
- any error in reading `schema.json`, not only its absence, puts the default schema in its place
  (`schema_migrator.go:158-174`) while the list still calls all migrations applied, so that no later start
  migrates it while the list can be read;
- a plugin is unloaded by closing its Lua state and then handing it back to the pool.

## What is proved

All theorems hold for every value of the constants the modules' assumptions allow (finite sets of
goroutines, positive capacities); the bounds of the runs play no part.

`WALProofs`: the types (`TypeCorrect`), the four invariants of the run (`AcksAreBacked`, `OrderHolds`,
`QuietHolds`, `CloseHolds`) and that the log implements `DurableLog` (`Implements`). Two inductive
invariants do it. `IInv` adds to the types that a writer waiting in `select` has room in its batch
and that a waiting caller has a record; that is enough for `AcksBackedByFlushes`. The other results
are about where the records are. `LogInv` is `IInv` and

- `Places`: what each place of the writer and of the process says of its batch, of `buf` and of the disk;
- `InOrder`: what is on disk, then `buf`, then the rest of the batch, then `writeChan`, read one after
  the other, is an increasing sequence of records that were sent;
- `Located`: while the disk does not fail, a record sent is whole on disk, in one of those places, or lost to a crash;
- `Counted`: while the disk does not fail, what went through a flush and what still will are no more than
  was sent, and fewer once a record is gone;
- `Answered`: every record sent was answered, given up, or has a caller waiting with it.

No action is looked at twice: `Kinds` shows that every step is a send, a move of a record from one place
to the next, a record skipped by a disk that fails, a write of `buf` to the current file, the end of the
process in the middle of such a write, or a restart, and everything after it argues about those six. In
the refinement a send is `Accept`, a write that adds whole records is `Persist`, and all else stutters,
the restart too: what it destroys of the current file lies behind a torn record, where `ReadAll` did not
read. `ReadAll` flattens the files by a fold; that it grows only at its end when the last file does is
`FlattenAppend`, a statement about two sequences of files for which the least prefix that could violate
it is ruled out.

`TransactionsProofs`: the four invariants of the run (`TrackedHolds`, `LogFirst`, `BalanceHolds`,
`OnceHolds`) and the types. None is inductive, because `currentTx` is anybody's. `IInv` is a
conjunction: `Refers` (what a client or a timer remembers is a transaction that was begun), `Tracking`
(an active one is listed, a listed one is active or about to be taken off), `Logging` and `Applying` (a
commit at the log or past it has handed over a record, and applied what it walked past), `Once` (two
commits, answered or under way, have a document behind them only if it left the storage, which refuses
one it has) and `Balanced` (the counters differ from the transactions begun by whole turns of the
counter).

`MainProofs`, of `Recovery`: `EachRecordOnce` (`OnceHolds`), `StopDrains` (`DrainsHolds`) and the types. That
`Push` loses none of the first `ChanCap` records before a stop is `LosingHolds`: it gives up only at a
full channel, which the records before fill. `IInv` adds
`Spread` (a record is in one place), `Leaving` (a worker that has left saw the channel closed and
empty, and `Stop` waits for all of them) and `Reading` (the monitor reads on only up to the limit, and
the pushing loop has a record to push).

`LockFreeQueueProofs`: `OneChain` (`ChainHolds`), `SizeCatchesUp` (`SizeHolds`), the types, and that
the queue implements `TaskQueue` (`Implements`). `OneChain` is not inductive: a call acts on
pointers it loaded long ago. `IInv` adds that what a call has loaded lies on the chain no later than
`head` or `tail` do now, that a loaded `next` follows its node, that a node not linked yet has no
successor, and that whoever is about to answer nil has seen the queue empty. In the refinement the
link of a node is `Enqueue`, the move of `head` is `Dequeue`, an answer of nil is `AnswerNil`, the
start of a call is `Call`, and every other step stutters.

`WorkerPoolProofs`: `CountsMatch` (`CountsHold`), `WithinLimit` (`LimitHolds`), `StopIsQuiet`
(`QuietHolds`) and the types, among them that `wg.Done` never goes below zero. `CountsMatch` is
nearly inductive: a step moves one goroutine between the sets that are counted (`CountMoves`) and
changes a count by as much. `IInv` adds that the dispatcher's compare-and-swap starts from a count
below the limit, that a worker that took a task has one, and that only a panic leads to the code
that replaces a worker.

`MigratorProofs`: `QuietMeansMigrated` (`MigratedWhenQuiet`) and `OnlyLateResumed` (`NoneResumed`),
whatever ids the documents have. The invariant calls a document held when the target has one with its
id, a worker or the channel of a run of the task carries it, the task has a failure, or nothing is
claimed of it (`Exempt`: a task in `late`, or an id that is the key of a collection); `FileOK` and
`RunOK` say that every checkpoint, on file, in memory or in the hands of a run, marks only held
documents, and that a run has only held ones behind it. `LateOK` says that what runs when `Stop` has
waited is of a task in `late`. A pause, a second run or a crash may take the carrier away only in ways
that `TaskOK` and `DownOK` account for.

`AclProofs`: `SessionsMatchUsers`, `SessionLimit`, `CheckIsJustified` and the types. `IInv` adds
`Underway` (which sessions may disagree with which user while a call with the mutex is half done),
`Checked` (a check has roles its user had, and those that now give what is asked could) and `Limited`. While
a call is at work the sessions may carry a role their user has lost; `Underway` says that it is then in
`taken`, so that a check begun in the middle of the call is covered too.

`MainProofs`, of `SchemaMigrator`: `AppliedIsInSchema`, `SchemaIsWhole` and the types. `SchemaInv`
says that each of the two files and the schema in memory holds nothing or everything, that the list on
disk is ahead of the schema only if the schema was `overwritten`, and that the place `main` is at tells
which of the migrations are done.

`MainProofs`, of `Persistence`: `SavedStays` (`SavedHolds`), `StopSavesAll` (`StopHolds`) and the
types. Both properties say what is the newest file of a database, which three savers, failed saves,
the cleanup and file names of earlier lives have a hand in. `SaveInv` consists of

- `Times` and `Saving`: no two files have one time; `SaveDatabase` runs under `pm.mu`, so what it renames
  is the newest file of all and, by the count of the collections read, whole;
- `SaveOrder` and `Chosen`: which saver runs in which phase of the shutdown (the loop has left before
  `Stop` saves), and that a round saves each database once;
- `Kept`: `SavedStays` itself, stated by the file that is the newest (`Newest`);
- `LoopRound`: a round of the loop without an error has a time it began at, and since then there is one
  file of each database the round is past. The cleanup removes the oldest files; if a file
  of the round were among them, all that are kept would be of the round too, so there would be more files
  of the round than databases (`RemoveSparesRound`). This is where as many
  checkpoints as databases are needed;
- `Stopping`: of what existed when `Stop` began, it has yet to come to a database, is at it, or the
  newest file is new enough. A `SaveAll` that has outlived its 15 seconds may still write after `Stop`
  did; it harms nothing, because whoever is in `SaveDatabase` for a database `Stop` is past has begun
  to read after `Stop` began to save, and stamps only grow.

`CollectionProofs`: the three invariants of the run and the types, from two inductive invariants. `IInv`
is for any number of calls at once and gives `InsertedStays` (`InsertedHolds`) and `MetadataCatchesUp`
(`MetadataHolds`): `Asked` says what a call was asked and has found so far (in particular that an id is
touched from the beginning of a call on it, and that an insert that has stored finds its document there
unless the id was touched since), `Homes` that a document lies under its own id, `Metadata` that whoever
changes `docCount` has yet to come to the metadata. What carries it over a step of another call is
`Careful`: no step takes a document from an id nobody touched. Under overlap nothing else is kept, as
the code promises nothing else: two inserts may put one key in an index, and `docCount` may be off while
the calls run. `OneAtATime` is for calls that never overlap, without `SoftDelete` and while the process
lives, and gives `SequentialContract` (`SequentialHolds`). With one call under way the collection is
right or half done in the way the place of the call tells (`Sound`): an insert has stored a document
that no index has yet, a delete has taken a document from the indexes and not from the map, and so on.
`CreateIndex` over documents that share a value gives `c.mu` back in its callback, goes on to publish an
index that cannot be right, and dies when it unlocks again, so what it publishes is promised to be right
only if the lock is still held.

Only model-checked: everything about liveness (fairness and `ENABLED` are outside the prover). All
invariants of the passing runs, and the two refinements, are theorems.

## Not modelled

Of the modelled parts: the index file and LSNs of the log; savepoints and `FindInTransaction` (the
first have no callers, the second only reads); triggers, sizes, queries and document versions of a
collection; the branch `atomicWriteFile`, a database dropped during a save, and a loss of power between a
rename and its sync; the LSNs and the file of the change queue, `MaxRetries` 0, and
the validation at the end of a migration, which reads and warns; hashing, matching of patterns, and the
end of an account lock, which is never stored; the functions of the schema migrator that `main` does not
call. Documents do not change while they are migrated: nothing feeds client writes to the queue.

Parts that never run in the program as built, so that a model would have no behaviour the program
has: `setupClusterMode` is unfinished and ends the process with more than one node, which leaves Raft,
shards, resharding, split brain, joint consensus, pipeline replication, batch commit, TCC, gossip
and the replicator without peers; `SubmitWrite` of the leader fallback, the entry of the sagas, the
deadlock detector, the distributed calls, backup, autoscaling, backpressure and node
authentication have no callers; nor have `LoadAll`, `LoadDatabase` and `SetWALManager`. Consensus itself
is a library.

Parts with little to state: MVCC versions, the visibility map and the read cache are written by commits
and read by queries of earlier states (`AddDocumentVersion` may lose a version, *T* 3590); plugins share
Lua states between goroutines without a lock, whose outcome is undefined; configuration, HTTP, the
REPL, metrics, logging, serialization and compression are parsing and output, and their
concurrent calls are the callers of the modules here.
