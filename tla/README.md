# A TLA+ verification of the MySQL 4.0.1 server

Paths below are relative to `mysql-server-mysql-4.0.1/` of the repository.
The repository also holds parts of later source trees (5.0.15); they are not
the subject.

## 1. The system

mysqld runs one thread per connection (`sql/mysqld.cc`), plus handler threads
for INSERT DELAYED, a slave thread, and one dump thread per slave.  The threads
share tables, and almost everything hard in the server comes from that: table
locks, the cache of open tables, the global read lock, conditions that several
kinds of events signal, and KILL, which may come at any point.

### Inventory

| component | state | operations | what makes it correct |
|---|---|---|---|
| **table locks** `mysys/thr_lock.c` | per table: lists `read`, `write`, `read_wait`, `write_wait`, two counters; per instance: type, `cond`, thread | `thr_multi_lock`, `thr_lock`, `wait_for_lock`, `thr_unlock`, `thr_abort_locks`, upgrade and reschedule of delayed locks | only locks that go together are granted; no lost waiter; no deadlock; no leak; readers and writers are served |
| **table cache** `sql/sql_base.cc` | `open_cache` (used and unused TABLEs), `refresh_version`, `LOCK_open`, `COND_refresh` | `open_tables`, `close_thread_tables`, `close_cached_tables`, `wait_for_tables`, `reopen_tables`, `remove_table_from_cache` | nobody uses old files; a refresh ends; every sleeper is woken |
| **global read lock, name locks** `sql/lock.cc` | `global_read_lock`, `protect_against_global_read_lock`, placeholder TABLEs | `mysql_lock_tables`, `lock_global_read_lock`, `wait_if_global_read_lock`, `lock_table_name(s)` | no update under the read lock; counters agree; no ring of waits |
| **DROP, TRUNCATE, RENAME** `sql_table.cc`, `sql_delete.cc`, `sql_rename.cc` | the files | wait for the users, throw out of the cache, change the files | see table cache |
| ALTER, CREATE, REPAIR `sql_table.cc` | temporary files, name locks | copy, swap, rename | atomic for other threads |
| **INSERT DELAYED** `sql_insert.cc` | queue of rows, counters, two mutexes | client side, handler loop, death of the handler | no row lost, no row written without a lock |
| **KILL and waits** `sql_class.*` | `killed`, `current_cond`, `mysys_var->abort` | `enter_cond`, `exit_cond`, `prepare_to_die` | a killed thread wakes; no cycle of mutexes |
| **binary log** `log.cc` | log files, index | write, rotate, purge, `wait_for_update` | readers follow rotation; purge survives a crash |
| **replication** `sql_repl.cc`, `slave.cc` | position, `master.info`, queue of waits | dump, request, execute, `MASTER_POS_WAIT` | events in order, none lost |
| commit `handler.cc` | transaction caches | `ha_commit`, rollback, savepoint of the log | log and engines agree |
| **user locks** `item_func.cc` | hash of locks with counts | `GET_LOCK`, `RELEASE_LOCK` | one owner; a structure is freed once |
| query cache `sql_cache.cc` | blocks, table lists | store, send, invalidate | no stale result |
| MyISAM status `mi_locking.c` | saved and shared state | `mi_get_status`, `mi_update_status`, `check_status` | a reader sees a prefix of complete rows |
| **InnoDB record locks** `innobase/lock`, `row`, `trx` | queues of requests, implicit locks, undo | request, grant, inherit, cancel, deadlock search | conflicting locks exclude; no missed cycle; no phantom |
| InnoDB, the rest | latches, read views, log | | no lost wakeup, snapshots, recovery |
| the rest | | parser, optimizer, items, privileges, protocol, clients, strings, storage formats, vendored code | not concurrent, or pure computation or I/O |

Interactions: a statement opens its tables under `LOCK_open`, then locks them
with `mysql_lock_tables` (global read lock, then `thr_multi_lock`), and when a
table was refreshed meanwhile it gives everything back and starts again.
FLUSH and DROP mark TABLEs as old, abort waiting locks, and wait on
`COND_refresh` until other threads have closed what is old.  Those waits cross:
a thread waits for the lock of one table with another table open.

Each part of the system, modelled or not, is a component of `PROJECT.json`;
the 40 places where this code can go wrong in ways a test hardly reaches are
its `hazards`, each with the line where it bites and the property that watches
it.

## 2. What is modelled

| module | contents |
|---|---|
| `ThrLock` | `mysys/thr_lock.c` as its callers drive it |
| `TableLock` | the abstract promise of the lock manager; `ThrLock` implements it |
| `Lists`, `ListLemmas` | `SubList`, the elements of a list that are in a set; facts about lists that the proofs about both kinds of lock use |
| `ThrLockProofs`, `ThrLockRuns` | the inductive invariant and its theorems; theorems about threads that sleep, run and insert, the refinement of `TableLock`, and the absence of deadlock |
| `TableCache` | table cache, FLUSH, LOCK TABLES, global read lock, DROP, TRUNCATE, RENAME, KILL |
| `TableCacheProofs` | theorems about the counters of the global read lock, statements that run, who may write under the read lock, that open files are current, and that no wakeup is lost |
| `DelayedInsert` | INSERT DELAYED: clients, handler threads, FLUSH, KILL |
| `DelayedInsertProofs` | theorems about the handlers and their clients |
| `KillWait` | KILL against GET_LOCK, the wait for the global read lock and MASTER_POS_WAIT |
| `KillWaitProofs` | theorems about user locks |
| `Replication` | binary log, rotation, purge, dump thread, slave, crashes |
| `ReplicatedLog` | the abstract promise of replication; `Replication` implements it |
| `ReplicationProofs` | theorems about insert ids, temporary tables and missed updates, and the refinement of `ReplicatedLog` |
| `RecordLock` | InnoDB record locks under scans, inserts, deletes, rollback, purge |
| `RecordLockProofs` | theorems about exclusion, deadlock, waiting, repeatable reads and the removal of rows |
| `MCThrLock`, `MCTableCache`, `MCDelayedInsert`, `MCKillWait`, `MCReplication`, `MCRecordLock` | the instances TLC checks |

The modules meet where the code does.  A delayed handler is an actor of
`ThrLock` (its lock upgrade) and of `DelayedInsert` (its queue, with the table
lock as a flag); the global read lock is a variable of `TableCache`, and
`DelayedInsert` and `KillWait` have the one wait each that they meet;
MASTER_POS_WAIT is in `KillWait`, since what is hard about it is the KILL, and
the slave itself in `Replication`.

### ThrLock

Each THR_LOCK is a member of `Lock` (numbers, since `sort_locks` compares
addresses) with the four lists of the code.  The list of granted reads is a set, since
nothing depends on its order; the other three are sequences.  A
THR_LOCK_DATA is a member of `Data` with `type`, `cond` (is `data->cond`
set?) and `thread`.  A thread's place in `thr_multi_lock` is its sorted
array `plan`, its loop index `pos`, and `pc`: `lock`, `wait` (asleep in
`wait_for_lock`), `run`, `unlock`; for a delayed handler also `upgrade`,
`insert`, `reschedule` and `reupgrade` (the two sleeps of `upgrade_wait`).

An action is one critical section of `lock->mutex` or one step of a loop over
a statement's locks.  `thr_lock` is the actions `thr_lock_read`,
`thr_lock_write`, `thr_lock_delayed`, `thr_lock_refused` and `thr_lock_wait`,
one for each way out; `wait_for_lock` after the wait is `wait_granted`,
`wait_aborted` and `wait_killed`.  `thr_unlock` has the four outcomes of its
branches (`unlock_gives_nothing`, `_reads`, `_writes`, `unlock_adds_writes`),
which share `HandOver`.  `check_status`, which asks whether a MyISAM file has
holes, is a free choice (`hole`).  A killed thread sees `abort` only in
`wait_for_lock`.

Left out: `thr_print_locks` and the checks under `EXTRA_DEBUG` (they are
properties instead); get_status and the other status callbacks (see plan);
`thr_reschedule_write_lock` on an instance that an abort has taken away, where
the code unlinks through stale pointers (the guard says so).

### TableLock

The promise without queues: what is granted on a table goes together, a
granted instance is not taken away, only what was asked for is granted.
`Promised` in `ThrLock` maps `mode` to the type of a granted instance.

### TableCache

`open_cache` is `inst` (the TABLE a thread uses for a table: version, files,
placeholder of a name lock or of a flush) and `unused` (`unused_tables`).
`file` says which files a table has on disk now, so that a TABLE of deleted or replaced files
can be told from a current one.  `LOCK_open` is the mutex, `sleeping` the
threads in `pthread_cond_wait(&COND_refresh)`.  A section under `LOCK_open` is
one action that needs the mutex free; the mutex is kept over a step in two
cases only: between the test and the `pthread_cond_wait` (`WaitAt`, then `cond_wait`), which is the
window a lost wakeup needs, and in FLUSH TABLES, which locks tables under it.
Steps outside the mutex, such as the test of `global_read_lock` at
`sql/lock.cc:52`, are actions of their own.  One is not: `wait_if_done` has the
test of `thd->version` (`lock.cc:64`) that follows its section.  The section
changes nothing there, and lets through whoever has an old version, so a FLUSH
between the two is the same as one before both.

`pc` follows the source: `open` / `refresh` (`open_table`, `open_tables`),
`lock` / `wait_if` / `thr` / `locked` / `wait_tables` (`mysql_lock_tables` and
its retry), `run`, `unlock`, `close`; `read_lock`, `flush`, `flush_loop`,
`flush_end` (FLUSH); `drop*`; `name_read_lock`, `name_lock`, `name_wait`,
`name_locked`, `truncate` (TRUNCATE and RENAME).  A killed connection goes
through `cleanup` and `disconnect`.

The lock manager is reduced to readers and writers of a table with waiters
that can be aborted and locks that can be closed (TL_WRITE_ONLY).  Other
abstractions: one TABLE per thread and table (no aliases, no temporary or
HANDLER tables), no eviction by `table_cache_size`, KILL as one action,
unlocking a mutex of another thread (a killed DROP) either frees it or does
nothing.

### DelayedInsert

A `delayed_insert` object is a record of `di`, with the counters of the code
(`locks_in_memory`, `tables_in_use`, `stacked_inserts`, the queue `rows`), its
flags and the local variables of the handler that outlive a step.  An object
whose `pc` is `none` does not exist.  `owner` has the mutexes
`LOCK_delayed_insert`, `LOCK_delayed_create`, `LOCK_open` and each handler's
`mutex`: a section that takes a second mutex keeps the first over a step, and
so do `open_ltable` and `mysql_lock_tables`, which the handler calls with its
mutex.  Of the conditions, `asleep` says who waits and has not been signalled.
`stacked_inserts` is an unsigned number (modulo `MaxUint + 1`), and the error
path of `handle_inserts` counts it down without the mutex in two steps
(`DropRow`).  The handler's TABLE is `current`, `old` after a FLUSH, or
`reopened` by `mysql_lock_tables`; `Aborts` lets another statement abort its
table lock.

Left out: the values of the rows; a failing copy of the TABLE in
`get_local_table` (`sql_insert.cc:762`, which leaves `tables_in_use` raised);
ALTER TABLE's wait for the table lock; `max_delayed_threads`, which changes
nothing but which path a client takes; spurious wakeups.

### KillWait

`ull` is `hash_user_locks` and `thd_ull` each connection's lock; a section
under `LOCK_user_locks` is one action.  `LOCK_open` and `mi->lock` have an
`owner`, since threads take `mysys_var->mutex` under them, and `mysys` says
whose `mysys_var->mutex` the killer has.  `Kill`, `KillLock`, `KillBroadcast`
are the steps of `prepare_to_die`: the flag without a mutex, the victim's
mutex, then the mutex and the condition it waits on.  Timeouts may come at any
time; a connection that ends releases its lock and its name is used again.

A KILL is not counted in `ull->count`, so the killer may broadcast the condition
of a user lock that was deleted meanwhile (section 5).  That is when its victim
has left the wait loop without the lock (`Left`); `KillBroadcast` then wakes the
waiters of any lock, whose memory it may be now, or nobody.  That the
server crashes there is left out.

### Replication

A file of the log is a sequence of events and a position the number of events
before it.  What happens under `LOCK_log` is one action, except that
`new_file()` gives the active log its new name (`rotating`) some time before
the index has it: the dump thread and a crash of the master see that.
`mysql_binlog_send` is `DumpRead` (under `LOCK_log`), `DumpEof` (`is_active`,
without it), `DumpCatch` (reads once more, then waits) and `DumpNext` (the next
name in the index, found by its offset, which `Purge` adjusts).  `net` is what
is on its way; a broken connection loses any part of it.  The slave has the
position in memory with `pending` (the events of a statement that has not been
read to its end), `info` (`master.info`), its insert id and its temporary
table; `exec_query` and `Executed` are apart because a crash may come between
them.

Left out: the skip counter, the test of `server_id`, LOAD DATA events, dump
threads that outlive their slave, CHANGE MASTER and RESET, the binary log of
the slave, a crash inside `purge_logs` (`log.cc:449`).  The slave starts with
the name of the first file.  Two things follow from the code that `Refused`
stands for: a slave whose file was purged, and one that followed a Rotate event
to a file which a master that died in `new_file` never put into its index, are
refused for ever.

### RecordLock

One page of a clustered index with the keys `1..MaxKey` and the supremum.  A
mini-transaction has its latch on the page and takes the kernel mutex under it,
so each is one action.  The locks of a record are the sequence of its requests
in the order of the hash chain (the code keeps one struct per transaction, page
and mode with a bit for each record; a struct is reused only when nobody waits
on the record).  Implicit locks are `writer`, the DB_TRX_ID of the last version.
`ReadCheckAndLock`, `ModifyCheckAndLock`, `InsertCheckAndLock`, `AddToQueue`,
`EnqueueWaiting`, `Grant`, `InheritToGap`, `UpdateDelete` are functions from
queues to queues with the guards of the C functions.  A scan goes from record
to record (`ScanNext`), and after a wait looks for its record again (`ScanRec`);
an insert starts again from the beginning.  Rollback undoes one change after
another, and that of an insert over a delete-marked record in two steps
(`UndoInsertByModify`, `UndoRemove`).  A delete mark asks for no lock, since the
code relies on that of the scan; `LocksExclude`, which is proved, shows that it
may.

Left out: table and AUTO_INC locks, secondary indexes, page splits and merges
(which move locks between pages), the step limit of the deadlock search, the
release of the kernel mutex after each 1000 locks in
`lock_release_off_kernel`, consistent reads.  An UPDATE in place takes the same
way as a delete mark, as far as locks go.

## 3. The runs

| run | instance | shows |
|---|---|---|
| `one_table` | a delayed handler and two other threads with 7 lock types on one table; one may abort and be killed | `TypeOK`, `WriteExclusion`, `ReadWriteExclusion`, `ListsAgree`, `WaiterIsQueued`, `InsertsLocked`, the refinement `KeepsPromises`, and `Inductive`, the invariant of the proofs |
| `two_tables` | two threads lock two tables, a third locks one twice; one may be killed; an engine without concurrent insert and low-priority updates | `DeadlockFree`, `RunsLocked`, `NoLeak`, and `WaitersServed` under `FairSpec` |
| `read_twice` | LOCK TABLES reads one table twice, beside ALTER TABLE and a writer | counterexample to `DeadlockFree`, section 5 |
| `flushes` | LOCK TABLES WRITE of two tables (may be killed); LOCK TABLES READ and FLUSH TABLES; FLUSH TABLES WITH READ LOCK and DROP | `NoLostWakeup`, `SomeoneMoves` |
| `ddl` | an update of two tables, and the global read lock; DROP and TRUNCATE that may be killed; RENAME, and the global read lock | `TypeOK`, `ReadLockCounts`, `OpenIsCurrent`, `RunsReady`, `ReadLockHolds` |
| `delayed_handlers` | 2 clients (may be killed), 2 handler objects, FLUSH TABLES WITH READ LOCK, abort of the table lock | `TypeOK`, `DiesUnused`, `RowsLocked`, `OneHandler` |
| `delayed_clients` | 2 clients, 1 handler, a queue of one row, FLUSH TABLES | `ClientsGoOn`, `FlushEnds` under `FairSpec` |
| `kill` | 3 threads and a user lock; one also waits for the read lock and a master position | `CountRight`, `NoLostSignal`, and `KilledLeaves` under `FairSpec` |
| `kill_read_lock` | the same, with KILL of the wait for the read lock | counterexample to `NoKillDeadlock`, section 5 |
| `replication` | 3 statements, two with insert ids and one that makes a temporary table, 3 files, one fault of each kind | `TypeOK`, `InsertIds`, `TempTableKept`, `NoMissedUpdate`, the refinement `KeepsOrder`, and `CatchesUp` under `FairSpec` |
| `replication_rotate` | the same without faults, the log rotated at any point | counterexample to `UpdatesInOrder`, section 5 |
| `record_locks` | 3 transactions, 2 keys | `TypeOK`, `LocksExclude`, `DeadlockFree`, `WaitersHaveCause`, `RepeatableRead`, `OnlyDeadRemoved` |

The longest, `ddl`, has 1.9 million states and takes two minutes, as does
`record_locks` with 786,000 up to symmetry; `delayed_handlers` has 1.3 million
and takes half a minute.

**Bounds of the table locks and the cache.**  Three threads are what the
properties about queues need: one that holds, one that waits, one that comes
later (or wakes, aborts, overtakes).  Two tables are enough for a wait that
crosses another.  `MaxWriteLockCount` is 1 so that the limit after which
readers get their turn is reached with one queued writer; the code's value only
delays it.  `MaxVersion` bounds `refresh_version`: 3 lets two FLUSHes overlap,
2 lets one overlap every DDL statement; a statement that would pass the bound
does not begin, and nothing else looks at it.  Statements are repeated without
limit, so there is no bound on behaviours.  The runs of `TableCache` do not
check for deadlock, because all connections may end up killed or keep their
locks for ever; `SomeoneMoves` is the property instead, and says when nobody
can move.

**Bounds of the others.**
`DelayedInsert`: one statement of one row for each of two clients; two handler
objects, so that one can be created while another dies; `QueueSize` 1, so that
the second row waits; `InsertLimit` 0 or 1, so that the handler reschedules
after one row; `MaxUint` 3, which a count below zero would reach at once.  In
`delayed_handlers` nobody may be able to move (next section), so that deadlock
is not checked; `delayed_clients` checks it.
`KillWait`: one name, for which three threads are owner, waiter and newcomer;
no bound on statements, kills or timeouts.
`Replication`: `LogSize` 4 rotates after two statements, `MaxFile` 3 lets a
second rotation and a restart happen, `MaxNet` 2 lets a statement and its insert
id be lost apart; one restart, crash, broken connection and purge each meet
at any point.  It ends when everything is written and sent, so deadlock is not
checked.
`RecordLock`: two keys and the supremum are two gaps, and a record and its heir;
three transactions are holder, waiter and a third in the circle or behind.  A
scan begins at the first key (`From`); a record has at most `MaxQueue` = 3
requests when a new one is made (inherited ones come on top), and a transaction
makes `MaxUndo` = 1 change before it ends; the same instance passes with
`MaxUndo` 2 (1.1 million states).  Transactions are renamed by symmetry, which is sound for
invariants and action properties.

**What the passing runs leave out on purpose**, since the code fails there
(section 5): TRUNCATE beside `NoLostWakeup` and `SomeoneMoves`; a DROP of a
table after LOCK TABLES READ, and a RENAME by the owner of the global read lock,
beside `SomeoneMoves`; FLUSH under LOCK TABLES WRITE with a read lock of another
thread; FLUSH TABLES WITH READ LOCK, KILL and aborted locks beside `ClientsGoOn`;
KILL of the two waits with `exit_cond` beside `KilledLeaves`; in `replication` a
rotation between the end of file that the dump thread has seen and its test
(`RotateAt`); in `delayed_handlers` a KILL that reaches a client before it has
found its handler (`KillAt`), because such a client takes `LOCK_delayed_create`
and the handler's mutex in an order that can lock up, and because `OneHandler`
fails (section 5); the other three properties are proved for every `KillAt`.

**Exceptions in the properties.**  Four promises are kept by the code but for the
cases below, which the models reach.  The property names them, so that
anything else is still a violation; section 5 has the cases.

| property | the promise | the cases |
|---|---|---|
| `ReadWriteExclusion` | `check_locks` (`thr_lock.c:253`) | a TL_READ_NO_INSERT stands beside a TL_WRITE_ALLOW_WRITE of another thread, which it gets by joining an active one; a writer that starts, or is handed the table, never makes the pair |
| `ReadLockHolds` | FLUSH TABLES WITH READ LOCK "locks all tables" | TRUNCATE and DROP that were past their test, and RENAME, change files under the lock; nothing that came through `mysql_lock_tables` writes rows, and no TRUNCATE or DROP passes its test |
| `DiesUnused` | "we will not abort as long as a client thread uses this thread" (`sql_insert.cc:971`) | a client at `fatal_error`, which no count has any more, finds its handler deleted |
| `CountRight` | the last user frees the lock | a KILL finds a deleted lock in `current_cond` when its victim has `Left` |

**Fairness.**  `ThrLock`: weak fairness of each thread's `Step`: the mutex is
held for a bounded time, a signalled condition wakes its thread, and a statement
ends and releases.  New statements, kills and aborts are not fair.  Nothing
stronger is needed: `max_write_lock_count` and the queue of writers serve every
waiter of these types; with all lock types TL_WRITE_LOW_PRIORITY may starve
behind readers by design.  `DelayedInsert` and `KillWait`: strong fairness of
each thread, because a thread that wants a mutex is enabled again and again, and
a mutex is given to each of those who wait for it in turn; the handler's
`delayed_insert_timeout` expires as timers do.  In `KillWait` nothing makes a
statement begin or end, a GET_LOCK time out, the read lock go away or the slave
get on.  `Replication`: weak fairness of the end of a rotation, the dump thread
and the slave, which reconnects by itself; nothing makes a user start a stopped
slave, or the network break.

**Sensitivity.**  For every property of every passing run `PROJECT.json` names
a change of one modelled definition, such as a bug in that code would make
(a dropped guard, a missing reset, a wakeup too few), under which TLC finds the
property violated.  The changed definitions stand beside the real ones with a comment
that says so, and no specification uses them.

## 4. What is proved

### Table locks

`ThrLockProofs` and `ThrLockRuns` prove, with TLAPS and for any number of threads,
tables, lock instances and any `MaxWriteLockCount`, from `ThrLockAssumption` alone:

| theorem | says |
|---|---|
| `InvariantHolds` | `Spec => []Inductive` |
| `TypesHold` | `[]TypeOK`, with `write_lock_count` at most one past its maximum |
| `NoInsertCountHolds` | `read_no_write_count` counts the granted TL_READ_NO_INSERT |
| `ReadersExcluded` | `ReadWriteExclusion`: readers run beside the writers that admit them, and a TL_WRITE_ALLOW_WRITE comes to stand beside a TL_READ_NO_INSERT only where one is active already |
| `WritersExcluded` | `[]WriteExclusion` |
| `ListsHold` | `[]ListsAgree`: type and `cond` tell the list an instance is in |
| `NothingLeaks` | `[]NoLeak`: every listed instance has a thread that will release it |
| `WaitersQueued` | `[]WaiterIsQueued`: an armed condition and a place on a queue go together |
| `RunningLocked` | `[]RunsLocked`: a running statement has every lock it asked for |
| `HandlersLocked` | `[]InsertsLocked`: rows are written under an exclusive lock |
| `Refines` | `KeepsPromises`: every step is a step or a stutter of `TableLock` |
| `NoDeadlock` | `[]DeadlockFree`, if no statement asks for TL_READ_NO_INSERT or TL_WRITE_ALLOW_WRITE twice on one table (`NoTypeTwice`) |

The assumption says what the callers guarantee: finite sets of instances,
delayed handlers lock one table with TL_WRITE_DELAYED and nobody else uses
that type, and a statement that names a table twice for writing asks for types
that go together.  The last is the code's own assumption ("this will never
happen within MySQL", `thr_lock`); without it `thr_lock` grants a thread two
write locks that do not go together, since it compares threads only.

**The invariant.**  None of the properties is inductive by itself.  A grant on
release looks at the types of queued instances, so one must know that the
queues hold what they should: `Placed` (list, type and `cond` agree) and
`Queued` (a queued instance is the one its thread sleeps on).  That a thread
never lists an instance twice needs `Control` and `Planned` (the loops over
`plan`: what is still to lock or already unlocked is in no list).  `thr_lock`
grants on the *head* of `write` alone, so `WriteExclusion` and
`ReadWriteExclusion` need `SharedWrites`: what shares the list with the head
has the head's kind.  For the step part of `ReadWriteExclusion`, a writer that
starts while a TL_READ_NO_INSERT is granted has `read_no_write_count` in its way,
at once and in `thr_unlock` (`LockStartsAlone`, `UnlockStartsAlone`), and a shared
TL_WRITE_ALLOW_WRITE keeps its type (`SharedTypeKept`).  A thread's second instance is granted without a look at its type,
which needs `OwnTypes`.  `HandlerLock` says that a delayed handler has one
instance and that it is granted between upgrades; without it the upgrade could
change the type of a queued instance.  `Inductive` is checked by TLC in `one_table`,
and its proof has one lemma per action (`LockReadIInv`, `UnlockIInv`,
`AbortIInv`, `RescheduleIInv`, ...), with steps per conjunct.
`ListLemmas` has the facts about `SubList` and `Range`; they are proved from the
least number at which they would fail, since the prover has no induction.

`WaitersQueued`, `RunningLocked` and `HandlersLocked` need more than `Inductive`, which is about lists: `ThrLockRuns`
adds `Known` (until it unlocks, a thread has no instance outside its plan) and
`Good` (nobody took away an instance the loop is past; a sleeper with an armed
condition was not aborted; a handler that inserts or waits has asked for
TL_WRITE).  A step of one thread keeps this for the others because it *spares*
them (`Spared`): it takes away only what waits, and then disarms the condition;
`SparedGood` proves that once, and each action only what its own thread gets.

**The refinement.**  `TableLock` knows who holds which kind of lock and
nothing of queues.  `GrantedGoTogether` turns the exclusion of `Inductive`,
which is about the heads of lists, into the compatibility of any two granted
instances that `TableLock` asks for; used of the *next* state, it gives every
grant its guard, whether `thr_lock` grants at once or `thr_unlock` hands a
whole queue over.  Each action is then a claim, a release with the grants that
follow it, an upgrade or its end, a close by `thr_abort_locks`, or a stutter.

**No deadlock.**  `NoDeadlock` is about sets of threads of any size, so no
instance shows it.  Its invariant `Orderly` adds to `Inductive`: a plan is sorted as `sort_locks`
leaves it (`Ordered`); a closed write lock heads its list (`ClosedFirst`);
nothing waits for a table nobody uses (`InUse`), so a sleeper waits for some
thread; and no thread sleeps behind an instance of its own (`NotItself`).
Then a thread that has a lock and sleeps for another sleeps for a later one
(`SleepsForLater`).  In a set of threads that waits for itself, take the one
that sleeps for the last lock (`LastLock`): it waits for a thread of the set
that has this lock and sleeps for a later one, which is none.  TLC checked `Orderly` on the
instances of `MCThrLock` before it was proved, and found that `NotItself`
fails without `NoTypeTwice`: that is `read_twice` of section 5.  The
hypothesis leaves out statements such as LOCK TABLES t READ, t AS x READ.

### Table cache

`TableCacheProofs` proves, for any finite number of threads, any tables, statements and `MaxVersion`, from `TableCacheAssumption` (DROP and
TRUNCATE name one table, RENAME two):

| theorem | says |
|---|---|
| `Types` | `[]TypeOK`: versions stay within `refresh_version`, counters above zero |
| `CountersRight` | `[]ReadLockCounts`: both counters of the global read lock are exact |
| `RunReady` | `[]RunsReady`: a statement runs with all its files open and locked |
| `NobodyWrites` | `ReadLockHolds`: under the global read lock nobody else runs a statement that locks tables and writes rows, and files change only by RENAME and by a DROP or TRUNCATE that was past its test |
| `FilesCurrent` | `[]OpenIsCurrent`, if no statement is TRUNCATE, or no thread uses both LOCK TABLES and FLUSH TABLES (`Apart`) |
| `WakeupsKept` | `[]NoLostWakeup`, if no statement is TRUNCATE, and who uses both LOCK TABLES and FLUSH TABLES locks one table at a time or meets no DROP and RENAME (`Settled`) |

The invariant `IInv` is, for each thread, `Right`: which statement it executes
where it is (`LabelRight`), what each of its TABLEs may look like there
(`InstRight`, `ThrRight`, `OpenRight`: files closed only by a refresh or FLUSH,
a name lock only for TRUNCATE and RENAME, a lock only on an opened table), that
`want` is what it has opened (`WantRight`), and with what it may hold
`LOCK_open` over a step (`MutexRight`).  `RunsReady` follows, since on every
path from open to `run` either all files are open or the thread is on its way
back.  The step of another thread
changes of a thread only what the code lets it: TABLEs that
`remove_table_from_cache` makes old and waiting locks that are aborted
(`Untouched`); `OthersRight` proves once that `Right` survives, so each action
has one lemma, `<action>_right`, about its own thread.  `HolderRight` is what
`ReadLockHolds` needs between its two halves: `mysql_lock_tables` tests
`global_read_lock` without a mutex, so when `lock_global_read_lock` sets it
there may be writers past the test; their TABLEs are made old by
`close_cached_tables`, which then waits for all old TABLEs.  Its other half,
about DROP and TRUNCATE, rests on `NotBoth`: the two counters are never above
zero together, since FLUSH waits for the one and the name lock for the other; so
under the read lock nobody is between the test for a name lock and
`lock.cc:401`, where TRUNCATE is past it.  DROP tests with `LOCK_open`.

`FilesCurrent` adds `Cur`.  `Name`: once a thread has a name lock, no unused
TABLE of the table is left, what others still have open of it is old or of an
old thread (`Passing`), so that `close_thread_table` does not keep it, and when
the thread is done waiting there is none.  `Flusher`: whoever
reopens or keeps tables after FLUSH has an older `thd->version`, so it does not
hand them on at the end of the statement (`sql_base.cc:354`).  Most actions are
`Quiet`: they open nothing and change no file; the other 14 have a lemma each.
The hypothesis is there because the code needs it (section 5, TRUNCATE beside
FLUSH TABLES under LOCK TABLES); DROP and RENAME do not.  TLC checked `Cur` with
statements that satisfy it, and finds the counterexample without.

`WakeupsKept` adds `Awake`: whoever sleeps on `COND_refresh`, or is about to and
still has `LOCK_open`, waits for something that is so (`Must`).  A step of
another thread keeps that in one of two ways: it broadcasts and leaves
`LOCK_open` to nobody else (`Wakes`), or it leaves everything anyone may wait for
as it is (`Leaves`: old TABLEs stay old, files of old TABLEs stay open, name
locks and the counters stay).  The two quiet ways to take something away are the
ones that need an argument.  `close_thread_tables` does not broadcast when it
keeps its TABLEs for others: such a TABLE is up to date and of a thread that is,
so by `Cur` nobody with a name lock waits for it.  `flush_reopens` does not
when it locks its tables again: they come back with version 0, so who waited for
them still does, and `flush_end` broadcasts.  But a table dropped meanwhile does
not come back, and those who wait for it sleep on until `flush_end`
(`sql_base.cc:1076`).  That is a delay and no more, since `LOCK_open` is held until
then and nobody could go on without it, but `NoLostWakeup` as it stands is false
meanwhile.  So the second half of `Settled`
makes the tables come back together or not at all (`AllOrNone`); TLC finds the
counterexample with LOCK TABLES of two tables and FLUSH TABLES in one
thread, DROP TABLE in another and queries in a third.  TLC checked `Awake` with
statements that satisfy `Settled` (5.1 million states), and those of `flushes` do.

### INSERT DELAYED

`DelayedInsertProofs` proves, for any number of clients and handler objects, any
sizes, and every `KillAt`, `ReadLock` and `Aborts`, from `HandlerAssumption` (the
threads are apart and the clients finitely many, `MaxUint` is above `QueueSize`):

| theorem | says |
|---|---|
| `Types` | `[]TypeOK`: `locks_in_memory` and `tables_in_use` stay between zero and the number of clients |
| `DiesAlone` | `[]DiesUnused`: a handler is not deleted while a counted client has a pointer to it, so only one about to read `fatal_error` can find it gone; and a dying one has no row and no client with its table |
| `RowsUnderLock` | `[]RowsLocked`: a client's table or a queued row means a table open and locked |
| `OneAtATime` | `[]OneHandler`, if no KILL reaches a client at `create_lock` or `create` |

The code decides that a handler may die in two halves: under
`LOCK_delayed_insert` it leaves the list and reads `locks_in_memory`
(`sql_insert.cc:978`), then under its own mutex it reads the other two counts.
The invariant `IInv` says why that is enough.  `Counted`: the counts are the
cardinalities of two sets of clients, those between finding the handler and
`unlock()`, and those between the request for a table and the end of the
statement, which overlap.  `HandlerRight` of a handler's place and object: once off the list
it can only lose finders (`locks_in_memory <= unlisted_locks`); a table is given
up only at both counts zero; outside the error path the queue is never longer
than `stacked_inserts`, and as long unless the handler is dead, so a
count of zero means an empty queue although the error path may spoil the count.
`ClientRight`: a handler without its table is known to its creator alone, who
has `LOCK_delayed_create`, and to a client that is leaving in `unlock()` with
`LOCK_delayed_insert`; that is why `~delayed_insert` takes both
mutexes.  Every handler action but the deletion is an instance of
`HandlerMoves`, and every client action of `ClientMoves`, two descriptions of
what such a step may do; `HandlerKeeps` and `ClientKeeps` prove the invariant for
them once.

`OneAtATime` adds `Single`: a handler that is not listed yet (`Young`) has a
creator that sleeps at `open_wait` with `LOCK_delayed_create`, and then the list is empty.
Its hypothesis is needed: a client that is killed before does not sleep
(section 5).  TLC checked `IInv` and `Single` on the instance of `delayed_handlers`,
and `IInv` with larger queues and KILL at every place, before they were proved.

### User locks

`KillWaitProofs` proves, for any number of connections and names, from
`ThreadAssumption`:

| theorem | says |
|---|---|
| `CountsHold` | `[]CountRight`: `count` is the owner and the waiters, the last of whom frees the lock; only a KILL of a thread that has left without it may use a freed one |
| `SignalsKept` | `[]NoLostSignal`: a free lock with waiters has one awake |

The invariant `IInv` says of each lock that its record is `Right` for the sets
of its waiters and its owner.  `item_user_lock_release()`, a new waiter and the
two ways out of the wait loop are lemmas about one record (`ReleaseRight`,
`WaiterRight`, `TakeRight`, `LeaveRight`), so the proof of GET_LOCK, which
releases one lock and takes or waits for another or the same, puts two of them
together.  `NoLostSignal` needs the counts: `release` frees the struct when it is
the last user, and else there is a waiter to wake; and `Waits`, that only threads
on a condition of their own are asleep.

### Replication

`ReplicationProofs` proves, from `ReplicationAssumption`, for any number of
statements and files, any sizes and numbers of faults:

| theorem | says |
|---|---|
| `Types` | `[]TypeOK` |
| `InsertIdsKept` | `[]InsertIds`: an insert has on the slave the value it had on the master |
| `NothingMissed` | `[]NoMissedUpdate`: a dump thread that sleeps has sent all there is |
| `TemporaryTables` | `[]TempTableKept`, if `NoGap` |
| `Implements` | `KeepsOrder`: the slave applies every statement in order, repeating only the last, at most once for each crash; if `NoGap` |

`NoGap` says that the log is not rotated between the end of file that the dump
thread has seen and its test of `is_active`.  It is needed: `replication_rotate`
shows what happens without it (section 5).  The first three theorems hold for
every `RotateAt`.

The invariant `IInv` has these parts.  `LogRight`: statements are in the log in
order and without gaps, an insert id stands right before its statement, and
Rotate and Stop end a file.  `IndexRight`: the index is ascending, and every
later file with events is in it; a master that dies in `new_file()` leaves only
an empty file out.  `DumpRight`: where the dump thread is.  `NetRight`: there is
a chain of positions from the slave to the dump thread, such that each event on
its way is the next of its file or a made-up Rotate event (`Hop`), and the slave
is at the start of the chain or has turned to the next file (`Sync`).  A made-up
event may skip statements without `NoGap`, but never stands between an
insert id and its statement, so `InsertIds` survives it.  `SlaveRight`:
`master.info` is never between an insert id and its statement, which is why a
slave that starts again reads both.  `Counted`: what the slave has applied are
the statements before its position (`Seen`), and at most one of them again for
each crash.  `Grows` says what a later log keeps of an earlier one; each part is
proved to survive it once, and the master's actions are instances of it.  The
refinement follows step by step: `Write` is `AWrite`, `exec_query` is `AApply` or
`ARepeat`, `SlaveCrash` is `ACrash`, and the rest stutters.  TLC checked `IInv`,
with and without `NoGap`, before it was proved.

### InnoDB record locks

`RecordLockProofs` proves, for any finite number of transactions, any number of
keys, any keys at which scans begin, queues and undo logs of any length, from
`RecordLockAssumption`:

| theorem | says |
|---|---|
| `Types` | `[]TypeOK` |
| `LocksAreExclusive` | `[]LocksExclude`: two transactions never have conflicting locks on a record, implicit ones among them |
| `NoCircleCloses` | `[]DeadlockFree`: the search before each wait is enough; a circle cannot close later, by a grant, by a removal, or by a lock that a gap inherits |
| `WaitsHaveCause` | `[]WaitersHaveCause`: a request that waits has a conflicting one ahead |
| `ReadsRepeat` | `[]RepeatableRead`: a scan that would be repeated finds the same rows |
| `OnlyDeadGo` | `OnlyDeadRemoved`: what leaves the page is delete-marked, or an insert being rolled back |

The invariant `IInv` has two halves.  `LockTable` is about the queues and the
writers, and needs nothing of transactions.  `Ordered`: of the requests that
are not of the gap type, no granted one stands behind a conflicting one of
another transaction, be that granted or waiting; this is stronger than exclusion,
and what makes a grant by the queue's order sound
(`lock_rec_has_to_wait_in_queue` looks at what is ahead only).  `Guards` is RULE
1 of `lock0lock.c:73`: beside an implicit lock there are only requests of the gap
type and such as wait, and those wait behind the explicit lock of the writer that
`lock_rec_convert_impl_to_expl` has made.  `Caused`, `WaitsOnce` (one wait for each transaction)
and `NoCircle` are the rest.  `Rights` is about one transaction each.  `UndoRight`: its undo
records are the rows it is writer of, and the first change of each row
found a committed version.  `RemoveRight` and `ScanRight`: what rollback and a scan that has
waited may rely on.  `ReadRight` says which gaps a transaction has closed: every key
between the start of its scan and its position is written by itself, or `Holds`:
locked while it is on the page, and while it is not, the record after it is
locked, so that an insert there would have to wait.

The operations of the lock table are lemmas from queues to queues (`AddGranted`,
`AddWaiting`, `LetGo` for what is taken out and the grants that follow,
`InheritToGapFacts`, `RemovedFacts`); each says that `LockTable` survives and what each
transaction keeps (`Keeps`).  `ReadRight` is where inheritance counts: when a
record goes its locks become gap locks of the next (`lock_update_delete`), and when
one comes it inherits those of the gap it splits (`lock_update_insert`); without
either, `Holds` would break.  Of the others' steps a transaction only sees that
rows stay (`RowsStay`), one is added (`RowAdded`) or removed (`RowRemoved`).

For `NoCircle`, `Reached` is proved to be the least set that has what a
transaction waits for and is closed under waiting (`ReachedClosed`,
`ReachedLeast`); this takes the place of an induction over the search.  A grant, a
removal and an inherited lock add nothing to what anyone waits for, and a new
request that waits adds edges from the one transaction whose search has just
found no way back.  An insert makes no edges when it makes an implicit lock, since nobody can
wait for it yet (`NewWriter`); the edge appears with the request
that converts it, which searches.

TLC checked `IInv` on the instance of `record_locks` before it was proved, and on
part of larger ones (two undo records, scans from both keys).

**Only model-checked.**  `KilledLeaves` of `KillWait`, `WaitersServed` of
`ThrLock`, `ClientsGoOn` and `FlushEnds` of `DelayedInsert`, `SomeoneMoves` of
`TableCache` and `CatchesUp` of `Replication`: liveness under fairness and
ENABLED are out of the prover's reach.  Every other property of the passing runs
is a theorem; `OpenIsCurrent`, `NoLostWakeup`, `OneHandler`, `TempTableKept` and
`KeepsOrder` under the hypotheses named above, which their runs satisfy.

## 5. Where the code and its documents disagree

Three have a run in which TLC finds the counterexample.

* `read_twice`: the manual says that "all locking in MySQL is deadlock-free"
  (`Docs/manual.texi:25622`).  LOCK TABLES t READ, t AS x READ asks for
  TL_READ_NO_INSERT twice; when ALTER TABLE gets its TL_WRITE_ALLOW_READ between the
  two, the second read queues, since beside a granted write lock `thr_lock` does
  not ask whether the thread reads already (`thr_lock.c:451`).  Once a third
  thread has queued a TL_WRITE, the end of the ALTER TABLE lets nobody in
  (`thr_lock.c:779`): the reader waits for the writer and the writer for the
  reader.
* `kill_read_lock`: `exit_cond` takes `mysys_var->mutex` while the thread still
  holds `LOCK_open` (`sql/lock.cc:594`), and `prepare_to_die` takes `LOCK_open`
  with `mysys_var->mutex` held (`sql/sql_class.cc:229`): a KILL that meets the
  end of the wait for the global read lock stops both, and with them everything
  that opens a table.  The comments at `sql_insert.cc:1034` and in the later
  `mysql-5.0.15/sql/sql_class.h:1450` name the rule that is broken.
* `replication_rotate`: the dump thread finds the end of the log under
  `LOCK_log`, then asks `is_active` without it (`sql/sql_repl.cc:397`).  When
  statements are written and the log rotates in between, it goes on to the next
  file and the slave never gets those statements.

The others were met while modelling.  Those about `ThrLock` and `TableCache`
are counterexamples of TLC in smaller instances; the actions are in the modules.

* A TL_READ_NO_INSERT is granted beside another thread's TL_WRITE_ALLOW_WRITE
  (`thr_lock.c:451`), which the comment at `thr_lock.c:445` and `check_locks`
  (259) exclude.  The types meet in INSERT ... SELECT or LOCK TABLES READ, which
  ask for TL_READ_NO_INSERT, and updates of InnoDB and BDB tables
  (`ha_innobase.cc:3349`, `ha_berkeley.cc:1786`).  `one_table` reaches the pair, `TableLock`
  admits it, and the step part of `ReadWriteExclusion` says that only a lock that joins an
  active TL_WRITE_ALLOW_WRITE makes it.
* A killed waiter leaves the queue and wakes nobody (`thr_lock.c:387`); readers
  behind it wait beside granted readers, which `check_locks` calls wrong.
* The reschedule that "should never" fail (`sql_insert.cc:1233`) fails when a
  reader it let in aborts the waiters; the handler goes on inserting without a
  lock.
* FLUSH TABLES WITH READ LOCK "locks all tables" (`Docs/manual.texi:18694`), but three
  statements still change them after it has returned.  A DROP that waits for a
  reader deletes the files (`sql_table.cc:109`).  A TRUNCATE gives its
  protection back with its name lock in hand (`lock.cc:401`) and makes the new
  file after that (`sql_delete.cc:574`); its placeholder has no open files, so
  the FLUSH does not wait for it.  RENAME does not test the lock
  (`sql_rename.cc:47`).  `ddl` reaches all three, and `ReadLockHolds` says that there are no others.
* `mysql_truncate` gives the name lock back without `LOCK_open`
  (`sql_delete.cc:589`), and the broadcast falls between another thread's test
  and its wait.
* The name lock of TRUNCATE is to give "total access to a closed, not open table"
  (`lock.cc:372`), but its first test asks `remove_table_from_cache`, which
  looks at open files only (`sql_base.cc:2129`) and overlooks a TABLE that FLUSH
  TABLES under LOCK TABLES has closed and will open again (`table_is_used`,
  `sql_base.cc:1135`, counts it).  While that FLUSH waits for another table,
  TRUNCATE gets its lock at once, and makes new files without `LOCK_open`
  (`sql_delete.cc:574`) as `reopen_tables` opens the old ones: `OpenIsCurrent`
  fails with `a` LOCK TABLES t READ and FLUSH TABLES, `b` TRUNCATE t, `c` an
  update.
* FLUSH TABLES under LOCK TABLES WRITE calls `mysql_lock_tables` with
  `LOCK_open` held (`sql_base.cc:1065`), and waits for itself when another
  thread has the global read lock.
* `abort_locked_tables` is called once (`sql_table.cc:108`): after LOCK TABLES t
  READ a DROP TABLE t waits for an updater that came later, which waits for
  the read lock.
* RENAME by the owner of the global read lock waits for a writer that waits for
  the lock (`sql_rename.cc:47`).
* A killed DROP unlocks `LOCK_open` twice (`sql_table.cc:119`); the model has
  the second unlock, and `OpenIsCurrent` and `RunsReady` survive it.
* `wait_for_tables` sets no `current_cond`, so KILL does not wake it
  (`sql_base.cc:1160`), and it does not set `thd->version`, so that
  `mysql_lock_tables` may go round without waiting while the global read lock
  is held (`lock.cc:64`).
* FLUSH TABLES WITH READ LOCK and a delayed handler can wait for each other:
  `kill_delayed_threads` (`sql_insert.cc:874`) waits with `LOCK_open` for the
  mutex that the handler holds while `wait_if_global_read_lock` wants
  `LOCK_open`.  `Docs/manual.texi:33125` says that FLUSH TABLES kills the handler.
* A client killed while it waits for `LOCK_delayed_create`, or while it creates a
  handler, does not wait for the handler to open (`sql_insert.cc:665`), and gives
  the mutex back before the handler can be found: the next client creates a
  second one, and both enter `delayed_threads` for one table.
  `Docs/manual.texi:33077` says a handler is created "if no such handler already
  exists".  With `create` in `KillAt`, TLC finds it in 19 steps.
* `delayed_get_table` reads `tmp->thd.fatal_error` after `tmp->unlock()`
  (`sql_insert.cc:700`), when the handler may be deleted, although "we will not
  abort as long as a client thread uses this thread" (`sql_insert.cc:971`).
  `DiesUnused` has it as its exception; without, TLC finds a client at
  `fatal_error` whose handler is gone, in 26 steps of `delayed_handlers`.
* A GET_LOCK that leaves without the lock unlocks `LOCK_user_locks`
  (`item_func.cc:1624`) before it clears `current_cond` (1628).  In between the
  owner may delete the lock (1435), and a KILL broadcasts on what was its condition
  (`sql_class.cc:235`).  `CountRight` has it as its exception; without, TLC finds a
  thread with the condition of a deleted lock in `current_cond`, in five states of `kill`.
* The error path of `handle_inserts` counts `stacked_inserts` down without the
  mutex (`sql_insert.cc:1265`): beside a client's increment the count is wrong
  afterwards, and can pass zero.
* `wait_for_pos` tests for the KILL before `enter_cond` (`slave.cc:829`): a KILL
  in between is lost until the next event.  With `master_pos` in `Killable` the
  model sleeps on.
* RULE 2 at the head of `lock0lock.c` says that of the requests on a record the
  granted ones stand ahead of the waiting ones, gap locks aside, and
  `lock_rec_queue_validate` asserts it (`!is_waiting`, 3750).  It is not kept: a waiting S stays
  behind another's waiting insert request, since
  `lock_rec_has_to_wait_in_queue` ignores the gap bits, while a later S is granted behind it,
  since `lock_rec_other_has_expl_req` does not.  No property claims RULE 2;
  `WaitersHaveCause` uses the queue's own rule.

## 6. What is not modelled

Of the modelled files: temporary tables of the master, HANDLER, eviction from
the table cache, external locks (`lock_external`), engine errors, and what
section 2 says under "left out".  ALTER TABLE, REPAIR and CREATE take part only
through `thr_abort_locks`, name locks and the files.  Of the server: everything
the plan below names is still to come.  Storage formats, key cache, B-trees,
buffer pool, redo log, parser, optimizer, items, character sets, network,
clients and vendored libraries are left out: they are sequential algorithms over
byte layouts, or I/O, with their own test suites, and an abstraction that TLC
could check would not be their code any more.  They are most of the repository's
lines, as are its copies of later releases: the models cover the parts in which
threads and servers meet.

## 7. Plan

In order.

1. `Commit`: binary log and engines, errors and crashes between them
   (`handler.cc:236`).
2. `MyisamStatus`: `get_status` and `update_status`, and what a reader beside a
   concurrent insert sees.
3. `RwLatch`: no lost wakeup in `sync0rw.c`; `ReadView`: snapshot visibility.
4. Query cache invalidation beside updates and table locks.
