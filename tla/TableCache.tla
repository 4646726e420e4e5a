----------------------------- MODULE TableCache -----------------------------
(***************************************************************************)
(* The cache of open tables of sql/sql_base.cc and the statements that     *)
(* meet in it: queries, LOCK TABLES, FLUSH TABLES [WITH READ LOCK], DROP,  *)
(* TRUNCATE and RENAME TABLE, with the global read lock and the name locks *)
(* of sql/lock.cc.                                                         *)
(*                                                                         *)
(* LOCK_open guards open_cache.  A section under LOCK_open is one action,  *)
(* which needs LOCK_open free; it keeps it, LOCK_open' = t, only when it   *)
(* is about to call pthread_cond_wait on COND_refresh (cond_wait), and     *)
(* when FLUSH TABLES locks tables under it.  COND_refresh is only ever     *)
(* broadcast, which empties sleeping; a broadcast just after the section   *)
(* belongs to it.                                                          *)
(*                                                                         *)
(* A thread has at most one TABLE per table: aliases, temporary tables,    *)
(* handler_tables and the eviction by table_cache_size are left out.  The  *)
(* lock manager is abstracted to readers and writers per table; ThrLock    *)
(* has its detail.                                                         *)
(***************************************************************************)
EXTENDS Integers, FiniteSets

CONSTANTS
  Thread,        \* the client threads
  NoThread,      \* the owner of a free LOCK_open
  Table,         \* the tables, as their place in the order of sort_locks
  Statement,     \* per thread, the statements it may execute
  Killable,      \* the threads a KILL may hit
  MaxVersion     \* bound on refresh_version

(* A statement reads tables tabs and writes those of them in writes.  DROP   *)
(* and TRUNCATE have one table; in RENAME TABLE, writes has the old name and *)
(* the rest of tabs the new one.                                             *)
StatementType ==
  [op : {"query", "lock", "flush", "read_lock", "drop", "truncate", "rename"},
   tabs : SUBSET Table, writes : SUBSET Table]

WellFormed(s) ==
  /\ s \in StatementType /\ s.writes \subseteq s.tabs
  /\ s.op \in {"drop", "truncate"} => \E x \in Table : s.tabs = {x}
  /\ s.op = "rename" => \E x \in Table : \E y \in Table \ {x} :
                            s.tabs = {x, y} /\ s.writes = {x}

ASSUME TableCacheAssumption ==
  /\ NoThread \notin Thread /\ IsFiniteSet(Thread)
  /\ Table \subseteq Nat
  /\ MaxVersion \in Nat \ {0}
  /\ Killable \subseteq Thread
  /\ \A t \in Thread : \A s \in Statement[t] : WellFormed(s)

VARIABLES
  LOCK_open,       \* the thread that holds LOCK_open, or NoThread
  sleeping,        \* the threads in pthread_cond_wait(&COND_refresh)
  refresh_version,
  global_read_lock,
  protect_against_global_read_lock,
  file,            \* which files a table has on disk: 1 or 2, or 0 for none
  unused,          \* the [version, file] of the TABLEs in unused_tables
  inst,            \* inst[t][x]: the TABLE in open_cache that t uses for x
  thr,             \* thr[t][x]: the state of its THR_LOCK_DATA
  write_only,      \* tables whose granted write lock is now TL_WRITE_ONLY
  pc, stmt,        \* where a thread is, and the statement it executes
  want,            \* the tables of the current mysql_lock_tables
  version,         \* thd->version
  some_tables_deleted, killed, locked_tables,   \* of the THD
  holds            \* thd->global_read_lock

cache   == <<file, unused, inst>>
globals == <<refresh_version, global_read_lock, protect_against_global_read_lock>>
locks   == <<thr, write_only, want>>
thd     == <<version, some_tables_deleted, killed, locked_tables, holds>>
mutex   == <<LOCK_open, sleeping>>
vars    == <<cache, globals, locks, thd, mutex, pc, stmt>>

NoTable == [version |-> 0, file |-> 0, used |-> FALSE, by_name |-> FALSE,
            by_flush |-> FALSE, write |-> FALSE]
TableType == [version : 0 .. MaxVersion, file : 0 .. 2, used : BOOLEAN,
              by_name : BOOLEAN, by_flush : BOOLEAN, write : BOOLEAN]

Init ==
  /\ LOCK_open = NoThread /\ sleeping = {}
  /\ refresh_version = 1
  /\ global_read_lock = 0 /\ protect_against_global_read_lock = 0
  /\ file = [x \in Table |-> 1]
  /\ unused = [x \in Table |-> {}]
  /\ inst = [t \in Thread |-> [x \in Table |-> NoTable]]
  /\ thr = [t \in Thread |-> [x \in Table |-> "no"]]
  /\ write_only = {}
  /\ pc = [t \in Thread |-> "idle"]
  /\ stmt \in [Thread -> {[op |-> "query", tabs |-> {}, writes |-> {}]}]
  /\ want = [t \in Thread |-> {}]
  /\ version = [t \in Thread |-> 1]
  /\ some_tables_deleted = [t \in Thread |-> FALSE]
  /\ killed = [t \in Thread |-> FALSE]
  /\ locked_tables = [t \in Thread |-> FALSE]
  /\ holds = [t \in Thread |-> FALSE]

-----------------------------------------------------------------------------
(* Helpers over the state. *)

Op(t)     == stmt[t].op
Opened(t) == {x \in Table : inst[t][x].used /\ ~ inst[t][x].by_name}
Other(t)  == Thread \ {t}
Flushing(t) == Op(t) \in {"flush", "read_lock"}

Goto(t, label) == pc' = [pc EXCEPT ![t] = label]
(* The end of a statement: close_thread_tables keeps the tables of LOCK TABLES. *)
Done(t) == Goto(t, IF locked_tables[t] THEN "idle" ELSE "unlock")

Enter(t) == LOCK_open = NoThread /\ t \notin sleeping
Leave == UNCHANGED LOCK_open
Broadcast == sleeping' = {}
BroadcastIf(found) == sleeping' = IF found THEN {} ELSE sleeping
(* About to wait on COND_refresh, at label. *)
WaitAt(t, label) == LOCK_open' = t /\ Goto(t, label)

(* table_is_used, for a TABLE of x. *)
table_is_used(i, x, names) ==
  \E u \in Thread :
    \/ i[u][x].by_flush
    \/ i[u][x].by_name /\ names
    \/ i[u][x].file # 0 /\ i[u][x].version < refresh_version

Stale(t) == {x \in Opened(t) : inst[t][x].version # refresh_version}

(* close_old_data_files without abort_locks: thread t closes the files of    *)
(* its old TABLEs, and keeps the TABLEs.                                     *)
ClosedOld(t) ==
  [inst EXCEPT ![t] = [x \in Table |->
     IF x \in Stale(t)
     THEN [@[x] EXCEPT !.version = refresh_version, !.file = 0] ELSE @[x]]]

(* remove_table_from_cache, on a cache i. *)
Outdated(i, X) ==
  [u \in Thread |-> [x \in Table |->
     IF x \in X /\ i[u][x].used THEN [i[u][x] EXCEPT !.version = 0] ELSE i[u][x]]]
InUseByOthers(t, x) == \E u \in Other(t) : inst[u][x].file # 0
remove_table_keeps_unused(t, i, X) ==    \* mutant: unused TABLEs stay
  /\ inst' = Outdated(i, X) /\ UNCHANGED unused
  /\ some_tables_deleted' = [u \in Thread |->
       some_tables_deleted[u] \/ (u # t /\ \E x \in X : inst[u][x].used)]
remove_table_from_cache(t, i, X) ==
  /\ inst' = Outdated(i, X)
  /\ unused' = [x \in Table |-> IF x \in X THEN {} ELSE unused[x]]
  /\ some_tables_deleted' = [u \in Thread |->
       \/ some_tables_deleted[u]
       \/ u # t /\ \E x \in X : inst[u][x].used]

(* Locks, as thr_lock gives them: many readers or one writer. *)
Compatible(t, x) ==
  \A u \in Other(t) : thr[u][x] = "has" =>
    ~ inst[u][x].write /\ ~ inst[t][x].write
Freed(t, X) == [thr EXCEPT ![t] = [x \in Table |-> IF x \in X THEN "no" ELSE @[x]]]
StillClosed(t, X) == {x \in write_only : ~ (x \in X /\ thr[t][x] = "has")}
Release(t, X) == thr' = Freed(t, X) /\ write_only' = StillClosed(t, X)

(* mysql_lock_abort and mysql_lock_remove of thread t's tables X. *)
Aborted(t, X) ==
  [u \in Thread |-> [x \in Table |->
     IF x \in X THEN IF u = t THEN "no"
                     ELSE IF thr[u][x] = "waits" THEN "aborted" ELSE thr[u][x]
     ELSE thr[u][x]]]
WriteLocked(t, x) == \E u \in Other(t) : thr[u][x] = "has" /\ inst[u][x].write
AbortLocks(t, X) ==
  /\ thr' = Aborted(t, X)
  /\ write_only' = StillClosed(t, X) \cup {x \in X : WriteLocked(t, x)}

-----------------------------------------------------------------------------
(* Statements. *)

Starts(t, s) ==
  /\ pc[t] = "idle" /\ ~ killed[t]
  /\ s \in Statement[t]
  /\ stmt' = [stmt EXCEPT ![t] = s]

(* A query, or LOCK TABLES; when the thread has LOCK TABLES, a query finds   *)
(* its tables locked and LOCK TABLES comes after the UNLOCK TABLES it does.  *)
begin_query(t) ==
  /\ \E s \in Statement[t] :
       /\ s.op \in {"query", "lock"}
       /\ Starts(t, s)
       /\ \/ ~ locked_tables[t] /\ Goto(t, "open")
          \/ /\ locked_tables[t] /\ s.op = "query"
             /\ s.tabs \subseteq Opened(t)
             /\ \A x \in s.writes : inst[t][x].write
             /\ Goto(t, "run")
  /\ UNCHANGED <<cache, globals, locks, thd, mutex>>

(* FLUSH TABLES; every one still to come counts for the bound. *)
begin_flush(t) ==
  /\ refresh_version + Cardinality({u \in Other(t) :
       pc[u] \in {"read_lock", "read_lock_wait", "flush"}}) < MaxVersion
  /\ \E s \in Statement[t] :
       /\ s.op \in {"flush", "read_lock"}
       /\ Starts(t, s)
       /\ Goto(t, IF s.op = "read_lock" /\ ~ holds[t] THEN "read_lock" ELSE "flush")
  /\ UNCHANGED <<cache, globals, locks, thd, mutex>>

(* TRUNCATE and RENAME are refused under LOCK TABLES. *)
begin_ddl(t) ==
  /\ \E s \in Statement[t] :
       /\ s.op \in {"drop", "truncate", "rename"}
       /\ s.op = "drop" \/ ~ locked_tables[t]
       /\ s.op = "truncate" => \A x \in s.tabs : file[x] # 0
       /\ Starts(t, s)
       /\ Goto(t, CASE s.op = "drop" -> "drop"
                    [] s.op = "truncate" -> "name_read_lock"
                    [] s.op = "rename" -> "name_lock")
  /\ UNCHANGED <<cache, globals, locks, thd, mutex>>

-----------------------------------------------------------------------------
(* open_tables and open_table: one action per way out of open_table. *)

open_killed(t) ==
  /\ pc[t] = "open" /\ killed[t]
  /\ Goto(t, "unlock")
  /\ UNCHANGED <<cache, globals, locks, thd, mutex, stmt>>

ThdVersion(t) == IF Opened(t) = {} THEN refresh_version ELSE version[t]
Opening(t, x) ==
  /\ pc[t] = "open" /\ ~ killed[t]
  /\ x \in stmt[t].tabs \ Opened(t)
  /\ Enter(t)
  /\ version' = [version EXCEPT ![t] = ThdVersion(t)]
OldUser(t, x) ==     \* a TABLE of x in use that is of an older version
  \E u \in Thread : inst[u][x].used /\ inst[u][x].version # refresh_version

(* Someone did a refresh while the thread was opening tables. *)
open_refused(t) ==
  /\ \E x \in Table : Opening(t, x)
  /\ ThdVersion(t) # refresh_version
  /\ Goto(t, "refresh")
  /\ UNCHANGED <<cache, globals, locks, some_tables_deleted, killed,
                 locked_tables, holds, mutex, stmt>>

(* A refresh of the table is in progress: close the old files, and wait.     *)
open_waits(t) ==
  /\ \E x \in Table : Opening(t, x) /\ OldUser(t, x)
  /\ ThdVersion(t) = refresh_version
  /\ inst' = ClosedOld(t)
  /\ BroadcastIf(Stale(t) # {})
  /\ WaitAt(t, "refresh")
  /\ UNCHANGED <<file, unused, globals, locks, some_tables_deleted, killed,
                 locked_tables, holds, stmt>>

Open(t, x, i) ==
  /\ inst' = [inst EXCEPT ![t][x] = [NoTable EXCEPT
       !.version = i.version, !.file = i.file, !.used = TRUE,
       !.write = x \in stmt[t].writes]]
  /\ IF stmt[t].tabs = Opened(t) \cup {x}
     THEN Goto(t, "lock") /\ want' = [want EXCEPT ![t] = stmt[t].tabs]
     ELSE UNCHANGED <<pc, want>>
  /\ UNCHANGED <<file, globals, thr, write_only, some_tables_deleted, killed,
                 locked_tables, holds, mutex, stmt>>

(* unused holds one copy of equal TABLEs, so it may keep the one taken. *)
open_cached(t) ==
  \E x \in Table : \E i \in unused[x] :
    /\ Opening(t, x)
    /\ ThdVersion(t) = refresh_version
    /\ \/ UNCHANGED unused
       \/ unused' = [unused EXCEPT ![x] = @ \ {i}]
    /\ Open(t, x, i)

NotCached(t, x) ==
  /\ Opening(t, x) /\ ThdVersion(t) = refresh_version
  /\ unused[x] = {} /\ ~ OldUser(t, x)

open_new(t) ==
  \E x \in Table :
    /\ NotCached(t, x) /\ file[x] # 0
    /\ Open(t, x, [version |-> refresh_version, file |-> file[x]])
    /\ UNCHANGED unused

open_fails(t) ==
  /\ \E x \in Table : NotCached(t, x) /\ file[x] = 0
  /\ Goto(t, "unlock")
  /\ UNCHANGED <<cache, globals, locks, some_tables_deleted, killed,
                 locked_tables, holds, mutex, stmt>>

(* open_tables closes what is old before it starts again. *)
refresh(t) ==
  LET old == {x \in Opened(t) : \/ inst[t][x].version # refresh_version
                                \/ inst[t][x].file = 0}
  IN  /\ pc[t] = "refresh" /\ Enter(t)
      /\ inst' = [inst EXCEPT ![t] =
           [x \in Table |-> IF x \in old THEN NoTable ELSE @[x]]]
      /\ version' = [version EXCEPT ![t] = refresh_version]
      /\ BroadcastIf(old # {}) /\ Leave
      /\ Goto(t, "open")
      /\ UNCHANGED <<file, unused, globals, locks, some_tables_deleted, killed,
                     locked_tables, holds, stmt>>

-----------------------------------------------------------------------------
(* mysql_lock_tables.  FLUSH TABLES under LOCK TABLES calls it with          *)
(* LOCK_open held.                                                           *)

lock_failed(t) == Goto(t, IF Flushing(t) THEN "flush_end" ELSE "unlock")
BlockedByReadLock(t) ==
  global_read_lock > 0 /\ \E x \in want[t] : inst[t][x].write

(* The test of global_read_lock is outside any mutex. *)
lock_tables(t) ==
  /\ pc[t] = "lock"
  /\ Goto(t, IF BlockedByReadLock(t) THEN "wait_if" ELSE "thr")
  /\ UNCHANGED <<cache, globals, locks, thd, mutex, stmt>>

(* wait_if_global_read_lock, called from mysql_lock_tables (wait_if) with    *)
(* abort_on_refresh, and for a name lock (name_read_lock) without.           *)
ForName(t) == pc[t] \in {"name_read_lock", "name_read_lock_wait"}
InWaitIf(t) ==
  pc[t] \in {"wait_if", "wait_if_wait", "name_read_lock", "name_read_lock_wait"}
MustWaitIf_always(t) ==    \* mutant: waits through a refresh
  global_read_lock > 0 /\ ~ holds[t] /\ ~ killed[t]
MustWaitIf(t) ==
  /\ global_read_lock > 0 /\ ~ holds[t] /\ ~ killed[t]
  /\ ForName(t) \/ version[t] = refresh_version
WaitIfFails(t) ==
  \/ global_read_lock > 0 /\ holds[t]
  \/ killed[t] /\ \/ global_read_lock > 0
                  \/ pc[t] \in {"wait_if_wait", "name_read_lock_wait"}

wait_if_waits(t) ==
  /\ InWaitIf(t) /\ Enter(t) /\ MustWaitIf(t)
  /\ WaitAt(t, IF ForName(t) THEN "name_read_lock_wait" ELSE "wait_if_wait")
  /\ UNCHANGED <<cache, globals, locks, thd, sleeping, stmt>>

wait_if_fails(t) ==
  /\ InWaitIf(t) /\ Enter(t) /\ WaitIfFails(t)
  /\ lock_failed(t)
  /\ UNCHANGED <<cache, globals, locks, thd, mutex, stmt>>

wait_if_unprotected(t) ==    \* mutant: nothing is counted
  /\ InWaitIf(t) /\ Enter(t) /\ ~ MustWaitIf(t) /\ ~ WaitIfFails(t)
  /\ Goto(t, IF ForName(t) THEN "name_lock"
             ELSE IF version[t] # refresh_version THEN "wait_tables" ELSE "thr")
  /\ UNCHANGED <<cache, globals, locks, thd, mutex, stmt>>
wait_if_done(t) ==
  /\ InWaitIf(t) /\ Enter(t) /\ ~ MustWaitIf(t) /\ ~ WaitIfFails(t)
  /\ IF ForName(t)
     THEN /\ protect_against_global_read_lock' = protect_against_global_read_lock + 1
          /\ Goto(t, "name_lock")
     ELSE /\ UNCHANGED protect_against_global_read_lock
          /\ Goto(t, IF version[t] # refresh_version THEN "wait_tables" ELSE "thr")
  /\ UNCHANGED <<cache, refresh_version, global_read_lock, locks, thd, mutex, stmt>>

(* thr_multi_lock: the locks in the order of sort_locks. *)
Next_lock(t) == CHOOSE x \in want[t] : /\ thr[t][x] # "has"
                                       /\ \A y \in want[t] : thr[t][y] # "has" => x <= y
Closed(t, x) == x \in write_only /\ WriteLocked(t, x)

thr_grants(t) ==
  LET x == Next_lock(t)
  IN  /\ pc[t] = "thr"
      /\ thr[t][x] # "aborted" /\ Compatible(t, x)
      /\ thr' = [thr EXCEPT ![t][x] = "has"]
      /\ Goto(t, IF \A y \in want[t] : y = x \/ thr[t][y] = "has"
                 THEN "locked" ELSE "thr")
      /\ UNCHANGED <<cache, globals, write_only, want, thd, mutex, stmt>>

thr_waits(t) ==
  LET x == Next_lock(t)
  IN  /\ pc[t] = "thr"
      /\ thr[t][x] = "no" /\ ~ Compatible(t, x) /\ ~ Closed(t, x) /\ ~ killed[t]
      /\ thr' = [thr EXCEPT ![t][x] = "waits"]
      /\ UNCHANGED <<cache, globals, write_only, want, thd, mutex, pc, stmt>>

(* Aborted, or killed: thr_multi_lock frees what it has, and                 *)
(* mysql_lock_tables tries again after wait_for_tables.                      *)
thr_fails(t) ==
  LET x == Next_lock(t)
  IN  /\ pc[t] = "thr"
      /\ \/ thr[t][x] = "aborted"
         \/ ~ Compatible(t, x) /\ (killed[t] \/ (thr[t][x] = "no" /\ Closed(t, x)))
      /\ Release(t, want[t])
      /\ some_tables_deleted' = [some_tables_deleted EXCEPT ![t] = TRUE]
      /\ Goto(t, "wait_tables")
      /\ UNCHANGED <<cache, globals, want, version, killed, locked_tables,
                     holds, mutex, stmt>>

(* The test of some_tables_deleted, outside any mutex. *)
lock_again(t) ==
  /\ pc[t] = "locked" /\ some_tables_deleted[t]
  /\ Release(t, want[t])
  /\ Goto(t, "wait_tables")
  /\ UNCHANGED <<cache, globals, want, thd, mutex, stmt>>

lock_killed(t) ==
  /\ pc[t] = "locked" /\ ~ some_tables_deleted[t] /\ killed[t]
  /\ Release(t, want[t])
  /\ lock_failed(t)
  /\ UNCHANGED <<cache, globals, want, thd, mutex, stmt>>

lock_done(t) ==
  /\ pc[t] = "locked" /\ ~ some_tables_deleted[t] /\ ~ killed[t]
  /\ Goto(t, IF Flushing(t) THEN "flush_end" ELSE "run")
  /\ UNCHANGED <<cache, globals, locks, thd, mutex, stmt>>

(* wait_for_tables: wait until nobody uses the tables, then reopen them.     *)
Dropping == {t \in Thread : pc[t] = "drop_wait"}

InWaitTables(t) == pc[t] \in {"wait_tables", "wait_tables_wait"} /\ Enter(t)

wait_tables_killed(t) ==
  /\ InWaitTables(t) /\ killed[t]
  /\ lock_failed(t)
  /\ UNCHANGED <<cache, globals, locks, thd, mutex, stmt>>

WaitsForTables(t) ==
  \E x \in Opened(t) : table_is_used(ClosedOld(t), x, TRUE)
Reopened_old(t, i) ==    \* mutant: takes a closed TABLE of this version for open
  [i EXCEPT ![t] = [x \in Table |->
     IF ~ (i[t][x].used /\ i[t][x].file = 0 /\ i[t][x].version # refresh_version)
     THEN @[x] ELSE NoTable]]
Reopened(t, i) ==
  [i EXCEPT ![t] = [x \in Table |->
     IF ~ (i[t][x].used /\ i[t][x].file = 0) THEN @[x]
     ELSE IF file[x] = 0 THEN NoTable
     ELSE [NoTable EXCEPT !.version = refresh_version, !.file = file[x],
                          !.used = TRUE, !.write = i[t][x].write]]]

wait_for_tables(t) ==
  /\ InWaitTables(t) /\ ~ killed[t]
  /\ some_tables_deleted' = [some_tables_deleted EXCEPT ![t] = FALSE]
  /\ IF WaitsForTables(t)
     THEN /\ inst' = ClosedOld(t)
          /\ BroadcastIf(Stale(t) # {} \/ Dropping # {})
          /\ WaitAt(t, "wait_tables_wait")
     ELSE /\ inst' = Reopened(t, ClosedOld(t))
          /\ Broadcast /\ Leave
          /\ IF \A x \in Opened(t) : inst'[t][x].used
             THEN Goto(t, "lock") ELSE lock_failed(t)
  /\ UNCHANGED <<file, unused, globals, locks, version, killed, locked_tables,
                 holds, stmt>>

Waits == {"refresh", "wait_if_wait", "name_read_lock_wait", "wait_tables_wait",
          "read_lock_wait", "flush_wait", "drop_read_lock", "drop_wait", "name_wait"}
cond_wait(t) ==
  /\ LOCK_open = t /\ pc[t] \in Waits
  /\ sleeping' = sleeping \cup {t}
  /\ LOCK_open' = NoThread
  /\ UNCHANGED <<cache, globals, locks, thd, pc, stmt>>

-----------------------------------------------------------------------------
(* The end of a statement, UNLOCK TABLES, the end of a connection, KILL. *)

(* The statement has run. *)
run_done(t) ==
  /\ pc[t] = "run"
  /\ locked_tables' = [locked_tables EXCEPT ![t] = @ \/ Op(t) = "lock"]
  /\ Goto(t, IF locked_tables'[t] THEN "idle" ELSE "unlock")
  /\ UNCHANGED <<cache, globals, locks, version, some_tables_deleted, killed,
                 holds, mutex, stmt>>

(* close_thread_tables: mysql_unlock_tables first, then under LOCK_open. *)
unlock(t) ==
  /\ pc[t] = "unlock"
  /\ Release(t, Table)
  /\ Goto(t, "close")
  /\ UNCHANGED <<cache, globals, want, thd, mutex, stmt>>

(* close_thread_table keeps a TABLE for others if it is up to date. *)
Kept(t, x) ==
  /\ inst[t][x].version = refresh_version
  /\ version[t] = refresh_version /\ inst[t][x].file # 0
close_thread_tables(t) ==
  /\ pc[t] = "close" /\ Enter(t)
  /\ inst' = [inst EXCEPT ![t] =
       [x \in Table |-> IF x \in Opened(t) THEN NoTable ELSE @[x]]]
  /\ unused' = [x \in Table |-> unused[x] \cup
       {[version |-> inst[t][y].version, file |-> inst[t][y].file] :
          y \in {y \in Opened(t) : y = x /\ Kept(t, y)}}]
  /\ BroadcastIf(\E x \in Opened(t) : ~ Kept(t, x)) /\ Leave
  /\ Goto(t, "idle")
  /\ UNCHANGED <<file, globals, locks, thd, stmt>>

unlock_global_read_lock_quiet(t) ==    \* mutant: wakes nobody at zero
  /\ Enter(t)
  /\ holds' = [holds EXCEPT ![t] = FALSE]
  /\ global_read_lock' = global_read_lock - 1
  /\ BroadcastIf(global_read_lock' = 1) /\ Leave
  /\ UNCHANGED <<refresh_version, protect_against_global_read_lock>>
unlock_global_read_lock(t) ==
  /\ Enter(t)
  /\ holds' = [holds EXCEPT ![t] = FALSE]
  /\ global_read_lock' = global_read_lock - 1
  /\ BroadcastIf(global_read_lock = 1) /\ Leave
  /\ UNCHANGED <<refresh_version, protect_against_global_read_lock>>

unlock_tables(t) ==
  /\ pc[t] = "idle" /\ ~ killed[t]
  /\ locked_tables[t] \/ holds[t]
  /\ locked_tables' = [locked_tables EXCEPT ![t] = FALSE]
  /\ IF holds[t] THEN unlock_global_read_lock(t)
                 ELSE UNCHANGED <<holds, globals, mutex>>
  /\ Goto(t, "unlock")
  /\ UNCHANGED <<cache, locks, version, some_tables_deleted, killed, stmt>>

(* THD::cleanup and ~THD, once the thread has seen that it is killed. *)
cleanup(t) ==
  /\ pc[t] = "idle" /\ killed[t] /\ locked_tables[t]
  /\ locked_tables' = [locked_tables EXCEPT ![t] = FALSE]
  /\ Goto(t, "unlock")
  /\ UNCHANGED <<cache, globals, locks, version, some_tables_deleted, killed,
                 holds, mutex, stmt>>

disconnect(t) ==
  /\ pc[t] = "idle" /\ killed[t] /\ ~ locked_tables[t]
  /\ IF holds[t] THEN unlock_global_read_lock(t)
                 ELSE UNCHANGED <<holds, globals, mutex>>
  /\ Goto(t, "dead")
  /\ UNCHANGED <<cache, locks, version, some_tables_deleted, killed,
                 locked_tables, stmt>>

(* prepare_to_die wakes the thread by its current_cond, which                *)
(* wait_for_tables does not set; it needs LOCK_open for it, so that a thread *)
(* about to wait is woken once it waits.                                     *)
kill(t) ==
  /\ t \in Killable /\ ~ killed[t] /\ pc[t] # "dead"
  /\ killed' = [killed EXCEPT ![t] = TRUE]
  /\ IF pc[t] \in Waits \ {"wait_tables_wait"} /\ (t \in sleeping \/ LOCK_open = t)
     THEN LOCK_open = NoThread /\ Leave /\ Broadcast
     ELSE UNCHANGED mutex
  /\ UNCHANGED <<cache, globals, locks, version, some_tables_deleted,
                 locked_tables, holds, pc, stmt>>

-----------------------------------------------------------------------------
(* FLUSH TABLES [WITH READ LOCK]. *)

lock_global_read_lock(t) ==
  /\ pc[t] \in {"read_lock", "read_lock_wait"} /\ Enter(t)
  /\ \/ /\ protect_against_global_read_lock > 0 /\ ~ killed[t]
        /\ WaitAt(t, "read_lock_wait")
        /\ UNCHANGED <<global_read_lock, holds, sleeping>>
     \/ /\ killed[t]
        /\ Done(t)
        /\ UNCHANGED <<global_read_lock, holds, mutex>>
     \/ /\ protect_against_global_read_lock = 0 /\ ~ killed[t]
        /\ holds' = [holds EXCEPT ![t] = TRUE]
        /\ global_read_lock' = global_read_lock + 1
        /\ Goto(t, "flush")
        /\ UNCHANGED mutex
  /\ UNCHANGED <<cache, refresh_version, protect_against_global_read_lock,
                 locks, version, some_tables_deleted, killed, locked_tables, stmt>>

(* close_cached_tables: all TABLEs become old; under LOCK TABLES the thread  *)
(* gives up its own.                                                         *)
close_cached_tables(t) ==
  /\ pc[t] = "flush" /\ Enter(t)
  /\ unused' = [x \in Table |-> {}]
  /\ refresh_version' = refresh_version + 1
  /\ AbortLocks(t, {x \in Opened(t) : inst[t][x].file # 0})
  /\ inst' = [inst EXCEPT ![t] = [x \in Table |->
       IF x \in Opened(t) /\ @[x].file # 0
       THEN [@[x] EXCEPT !.file = 0, !.by_flush = TRUE] ELSE @[x]]]
  /\ Broadcast
  /\ LOCK_open' = t
  /\ Goto(t, "flush_loop")
  /\ UNCHANGED <<file, global_read_lock, protect_against_global_read_lock,
                 want, thd, stmt>>

OldTablesOpen_waiting ==    \* mutant: only what sleeping threads have open
  \E u \in sleeping, x \in Table :
    inst[u][x].file # 0 /\ inst[u][x].version < refresh_version
OldTablesOpen == \E u \in Thread, x \in Table :
                   inst[u][x].file # 0 /\ inst[u][x].version < refresh_version
InFlushLoop(t) == \/ pc[t] = "flush_loop" /\ LOCK_open = t
                  \/ pc[t] = "flush_wait" /\ Enter(t)

flush_waits(t) ==
  /\ InFlushLoop(t) /\ OldTablesOpen /\ ~ killed[t]
  /\ WaitAt(t, "flush_wait")
  /\ UNCHANGED <<cache, globals, locks, thd, sleeping, stmt>>

(* reopen_tables, and the locks of what is open again. *)
flush_reopens(t) ==
  LET lost == {x \in Opened(t) : inst[t][x].file = 0}
      back == {x \in lost : file[x] # 0}
  IN  /\ InFlushLoop(t) /\ (killed[t] \/ ~ OldTablesOpen)
      /\ inst' = [inst EXCEPT ![t] = [x \in Table |->
           IF x \notin Opened(t) THEN @[x]
           ELSE IF x \in lost \ back THEN NoTable
           ELSE [Reopened(t, inst)[t][x] EXCEPT
                   !.by_flush = FALSE,
                   !.version = IF back # {} THEN 0 ELSE refresh_version]]]
      /\ IF back # {}
         THEN /\ want' = [want EXCEPT ![t] = back]
              /\ some_tables_deleted' = [some_tables_deleted EXCEPT ![t] = FALSE]
              /\ Goto(t, "lock")
              /\ LOCK_open' = t /\ UNCHANGED sleeping
         ELSE /\ UNCHANGED <<want, some_tables_deleted>>
              /\ LOCK_open' = NoThread /\ BroadcastIf(Opened(t) # {})
              /\ Done(t)
      /\ UNCHANGED <<file, unused, globals, thr, write_only, version, killed,
                     locked_tables, holds, stmt>>

flush_end(t) ==
  /\ pc[t] = "flush_end" /\ LOCK_open = t
  /\ inst' = [inst EXCEPT ![t] = [x \in Table |->
       IF x \in Opened(t) THEN [@[x] EXCEPT !.version = refresh_version] ELSE @[x]]]
  /\ Broadcast /\ LOCK_open' = NoThread
  /\ Done(t)
  /\ UNCHANGED <<file, unused, globals, locks, thd, stmt>>

-----------------------------------------------------------------------------
(* DROP TABLE. *)

Dropped(t) == CHOOSE x \in Table : x \in stmt[t].tabs
InDrop(t) == pc[t] \in {"drop", "drop_read_lock"} /\ Enter(t)

drop_refused(t) ==
  /\ InDrop(t) /\ global_read_lock > 0 /\ holds[t]
  /\ Broadcast /\ Leave /\ Done(t)
  /\ UNCHANGED <<cache, globals, locks, thd, stmt>>

drop_waits(t) ==
  /\ InDrop(t) /\ global_read_lock > 0 /\ ~ holds[t] /\ ~ killed[t]
  /\ WaitAt(t, "drop_read_lock")
  /\ UNCHANGED <<cache, globals, locks, thd, sleeping, stmt>>

(* mysql_rm_table_part2: abort_locked_tables, then wait until no other       *)
(* thread has the files of the table open.                                   *)
PastReadLock(t) ==
  InDrop(t) /\ (global_read_lock = 0 \/ (killed[t] /\ ~ holds[t]))
InDropLoop(t) == PastReadLock(t) \/ (pc[t] = "drop_wait" /\ Enter(t))
AbortOnce(t) ==
  [u \in Thread |-> [x \in Table |->
     IF /\ pc[t] # "drop_wait" /\ x = Dropped(t) /\ x \in Opened(t)
        /\ thr[u][x] = "waits"
     THEN "aborted" ELSE thr[u][x]]]
ClosedOnce(t) ==
  write_only \cup {x \in Opened(t) \cap {Dropped(t)} :
                     pc[t] # "drop_wait" /\ inst[t][x].write}

drop_waits_for_users(t) ==
  /\ InDropLoop(t) /\ ~ killed[t] /\ InUseByOthers(t, Dropped(t))
  /\ thr' = AbortOnce(t) /\ write_only' = ClosedOnce(t)
  /\ remove_table_from_cache(t, inst, {Dropped(t)})
  /\ WaitAt(t, "drop_wait")
  /\ UNCHANGED <<file, globals, want, version, killed, locked_tables, holds,
                 sleeping, stmt>>

(* drop_locked_tables, then the files are deleted; a killed DROP has         *)
(* unlocked LOCK_open once already when it comes to mysql_rm_table's unlock. *)
drop_files(t) ==
  LET x == Dropped(t)
  IN  /\ InDropLoop(t) /\ (killed[t] \/ ~ InUseByOthers(t, x))
      /\ thr' = [AbortOnce(t) EXCEPT ![t][x] = IF x \in Opened(t) THEN "no" ELSE @]
      /\ write_only' = IF x \in Opened(t) THEN write_only \ {x} ELSE write_only
      /\ remove_table_from_cache(t, [inst EXCEPT ![t][x] =
           IF x \in Opened(t) THEN NoTable ELSE @], {x})
      /\ locked_tables' = [locked_tables EXCEPT ![t] = @ /\ Opened(t) \ {x} # {}]
      /\ Broadcast /\ Leave
      /\ IF killed[t]
         THEN Goto(t, "drop_killed") /\ UNCHANGED file
         ELSE /\ file' = [file EXCEPT ![x] = 0]
              /\ Goto(t, IF locked_tables'[t] THEN "idle" ELSE "unlock")
      /\ UNCHANGED <<globals, want, version, killed, holds, stmt>>

(* Unlocking a mutex that another thread holds is undefined: it frees it, or *)
(* does nothing.                                                             *)
drop_unlocks_again(t) ==
  /\ pc[t] = "drop_killed"
  /\ LOCK_open' \in {LOCK_open, NoThread}
  /\ Broadcast
  /\ Done(t)
  /\ UNCHANGED <<cache, globals, locks, thd, stmt>>

-----------------------------------------------------------------------------
(* TRUNCATE and RENAME TABLE take name locks: a TABLE without files in       *)
(* open_cache.                                                               *)

NameLocked(t) ==
  [inst EXCEPT ![t] = [x \in Table |->
     IF x \in stmt[t].tabs
     THEN [NoTable EXCEPT !.used = TRUE, !.by_name = TRUE] ELSE @[x]]]
NamesUnlocked(t) ==
  [inst EXCEPT ![t] = [x \in Table |-> IF x \in stmt[t].tabs THEN NoTable ELSE @[x]]]
NamesInUse(t) ==
  \E x \in stmt[t].tabs : table_is_used(Outdated(inst, stmt[t].tabs), x, FALSE)
FirstUse(t) == \E x \in stmt[t].tabs : InUseByOthers(t, x)

(* lock_table_name of every name, and the first test of                      *)
(* wait_for_locked_table_names.                                              *)
lock_names_wait(t) ==
  /\ pc[t] = "name_lock" /\ Enter(t)
  /\ FirstUse(t) /\ ~ killed[t]
  /\ remove_table_from_cache(t, NameLocked(t), stmt[t].tabs)
  /\ WaitAt(t, "name_wait")
  /\ UNCHANGED <<file, globals, locks, version, killed, locked_tables, holds,
                 sleeping, stmt>>

lock_names(t) ==
  /\ pc[t] = "name_lock" /\ Enter(t)
  /\ ~ FirstUse(t) /\ Op(t) = "truncate"
  /\ remove_table_from_cache(t, NameLocked(t), stmt[t].tabs)
  /\ Goto(t, "name_locked")
  /\ UNCHANGED <<file, globals, locks, version, killed, locked_tables, holds,
                 mutex, stmt>>

names_wait(t) ==
  /\ pc[t] = "name_wait" /\ Enter(t)
  /\ NamesInUse(t) /\ ~ killed[t]
  /\ WaitAt(t, "name_wait")
  /\ UNCHANGED <<cache, globals, locks, thd, sleeping, stmt>>

names_locked(t) ==
  /\ pc[t] = "name_wait" /\ Enter(t)
  /\ ~ NamesInUse(t) /\ Op(t) = "truncate"
  /\ Goto(t, "name_locked")
  /\ UNCHANGED <<cache, globals, locks, thd, mutex, stmt>>

(* Killed while it waited: unlock_table_name. *)
names_failed_protected(t) ==    \* mutant: skips the label end
  /\ \/ pc[t] = "name_wait" /\ Enter(t) /\ NamesInUse(t) /\ killed[t]
     \/ pc[t] = "name_lock" /\ Enter(t) /\ FirstUse(t) /\ killed[t]
  /\ remove_table_from_cache(t, NamesUnlocked(t),
       IF pc[t] = "name_lock" THEN stmt[t].tabs ELSE {})
  /\ Broadcast /\ Leave /\ Goto(t, "unlock")
  /\ UNCHANGED <<file, globals, locks, version, killed, locked_tables, holds, stmt>>
names_failed(t) ==
  /\ \/ pc[t] = "name_wait" /\ Enter(t) /\ NamesInUse(t) /\ killed[t]
     \/ pc[t] = "name_lock" /\ Enter(t) /\ FirstUse(t) /\ killed[t]
  /\ remove_table_from_cache(t, NamesUnlocked(t),
       IF pc[t] = "name_lock" THEN stmt[t].tabs ELSE {})
  /\ Broadcast /\ Leave
  /\ Goto(t, IF Op(t) = "truncate" THEN "name_failed" ELSE "unlock")
  /\ UNCHANGED <<file, globals, locks, version, killed, locked_tables, holds, stmt>>

(* start_waiting_global_read_lock: TRUNCATE lets FLUSH TABLES WITH READ LOCK *)
(* go on before it touches the files.                                        *)
start_waiting_global_read_lock(t) ==
  /\ pc[t] \in {"name_locked", "name_failed"} /\ Enter(t)
  /\ protect_against_global_read_lock' = protect_against_global_read_lock - 1
  /\ BroadcastIf(/\ protect_against_global_read_lock = 1
                 /\ \E u \in Thread : pc[u] = "read_lock_wait") /\ Leave
  /\ Goto(t, IF pc[t] = "name_locked" THEN "truncate" ELSE "unlock")
  /\ UNCHANGED <<cache, refresh_version, global_read_lock, locks, thd, stmt>>

(* mysql_truncate makes new files and calls unlock_table_name without        *)
(* LOCK_open.                                                                *)
truncate(t) ==
  /\ pc[t] = "truncate"
  /\ file' = [x \in Table |-> IF x \in stmt[t].tabs /\ file[x] # 0
                              THEN 3 - file[x] ELSE file[x]]
  /\ inst' = NamesUnlocked(t)
  /\ Broadcast /\ Leave
  /\ Goto(t, "unlock")
  /\ UNCHANGED <<unused, globals, locks, thd, stmt>>

(* mysql_rename_tables keeps LOCK_open from the last test on. *)
OldName(t) == CHOOSE x \in stmt[t].tabs : x \in stmt[t].writes
NewName(t) == CHOOSE x \in stmt[t].tabs : x \notin stmt[t].writes
rename(t) ==
  /\ Op(t) = "rename" /\ Enter(t)
  /\ \/ pc[t] = "name_lock" /\ ~ FirstUse(t)
     \/ pc[t] = "name_wait" /\ ~ NamesInUse(t)
  /\ remove_table_from_cache(t, NamesUnlocked(t),
       IF pc[t] = "name_lock" THEN stmt[t].tabs ELSE {})
  /\ file' = IF file[NewName(t)] = 0
             THEN [file EXCEPT ![NewName(t)] = file[OldName(t)], ![OldName(t)] = 0]
             ELSE file
  /\ Broadcast /\ Leave
  /\ Goto(t, "unlock")
  /\ UNCHANGED <<globals, locks, version, killed, locked_tables, holds, stmt>>

-----------------------------------------------------------------------------
Begin(t) == begin_query(t) \/ begin_flush(t) \/ begin_ddl(t) \/ unlock_tables(t)

Step(t) ==
  \/ open_killed(t) \/ open_refused(t) \/ open_waits(t) \/ open_cached(t)
  \/ open_new(t) \/ open_fails(t) \/ refresh(t)
  \/ lock_tables(t) \/ wait_if_waits(t) \/ wait_if_fails(t) \/ wait_if_done(t)
  \/ thr_grants(t) \/ thr_waits(t) \/ thr_fails(t)
  \/ lock_again(t) \/ lock_killed(t) \/ lock_done(t)
  \/ wait_tables_killed(t) \/ wait_for_tables(t) \/ cond_wait(t)
  \/ run_done(t) \/ unlock(t) \/ close_thread_tables(t)
  \/ cleanup(t) \/ disconnect(t)
  \/ lock_global_read_lock(t) \/ close_cached_tables(t)
  \/ flush_waits(t) \/ flush_reopens(t) \/ flush_end(t)
  \/ drop_refused(t) \/ drop_waits(t) \/ drop_waits_for_users(t)
  \/ drop_files(t) \/ drop_unlocks_again(t)
  \/ lock_names_wait(t) \/ lock_names(t) \/ names_wait(t) \/ names_locked(t)
  \/ names_failed(t) \/ start_waiting_global_read_lock(t)
  \/ truncate(t) \/ rename(t)

Next == \E t \in Thread : Begin(t) \/ Step(t) \/ kill(t)
Spec == Init /\ [][Next]_vars

-----------------------------------------------------------------------------
(* Properties. *)

TypeOK ==
  /\ LOCK_open \in Thread \cup {NoThread}
  /\ sleeping \subseteq Thread
  /\ refresh_version \in 1 .. MaxVersion
  /\ global_read_lock \in Nat /\ protect_against_global_read_lock \in Nat
  /\ file \in [Table -> 0 .. 2]
  /\ \A x \in Table : unused[x] \subseteq [version : 1 .. MaxVersion, file : 1 .. 2]
  /\ inst \in [Thread -> [Table -> TableType]]
  /\ thr \in [Thread -> [Table -> {"no", "waits", "has", "aborted"}]]
  /\ write_only \subseteq Table
  /\ version \in [Thread -> 1 .. MaxVersion]
  /\ \A t \in Thread : want[t] \subseteq Table

(* global_read_lock counts the threads that hold the global read lock, and   *)
(* protect_against_global_read_lock those that FLUSH TABLES WITH READ LOCK   *)
(* waits for, on every way out of lock_and_wait_for_table_name.              *)
ReadLockCounts ==
  /\ global_read_lock = Cardinality({t \in Thread : holds[t]})
  /\ protect_against_global_read_lock =
       Cardinality({t \in Thread : \/ pc[t] \in {"name_lock", "name_wait"}
                                     /\ Op(t) = "truncate"
                                   \/ pc[t] \in {"name_locked", "name_failed"}})

(* A TABLE with open files, in use or not, has the files its table has now:  *)
(* DROP, TRUNCATE and RENAME first wait for the last user and throw away the *)
(* unused ones (remove_table_from_cache and its callers).                    *)
OpenIsCurrent ==
  \A x \in Table :
    /\ \A t \in Thread : inst[t][x].file # 0 => inst[t][x].file = file[x]
    /\ \A i \in unused[x] : i.file = file[x]

(* A statement runs with the files of all its tables open and locked, also   *)
(* after aborts, retries and FLUSH TABLES under LOCK TABLES.                 *)
RunsReady ==
  \A t \in Thread : pc[t] = "run" =>
    \A x \in stmt[t].tabs :
      /\ inst[t][x].file # 0 /\ thr[t][x] = "has"
      /\ x \in stmt[t].writes => inst[t][x].write

(* FLUSH TABLES WITH READ LOCK: once it has returned, and until the lock is  *)
(* given back, no other thread runs a statement that writes rows             *)
(* (lock_global_read_lock, close_cached_tables and the test in               *)
(* mysql_lock_tables together).  This is not all that the manual promises,   *)
(* "locks all tables" (manual.texi:18694): three statements that do not come *)
(* through mysql_lock_tables can still change a table.  A TRUNCATE that has  *)
(* given back its protection makes its new file (lock.cc:401, then           *)
(* sql_delete.cc:574), a DROP that waits for a reader goes on when it leaves *)
(* (sql_table.cc:109), and RENAME never looks at the read lock               *)
(* (sql_rename.cc:47).  No other step changes the files of a table, and of   *)
(* TRUNCATE and DROP only those do that were past the test of                *)
(* global_read_lock before: under the lock none gets there.                  *)
HasReadLock(t) == holds[t] /\ ~ killed[t] /\ ~ (Flushing(t) /\ pc[t] # "idle")

NobodyRunsWrites ==
  \A t, u \in Thread :
    HasReadLock(t) /\ u # t /\ pc[u] = "run" => stmt[u].writes = {}

PastTest == {"truncate", "drop_wait"}
OnlyThoseBefore ==
  (\E t \in Thread : HasReadLock(t)) =>
    /\ \A u \in Thread : pc'[u] \in PastTest => pc[u] = pc'[u]
    /\ file' # file =>
         \E u \in Thread : pc'[u] # pc[u] /\ (pc[u] \in PastTest \/ Op(u) = "rename")

ReadLockHolds ==
  NobodyRunsWrites /\ [][NobodyRunsWrites' /\ OnlyThoseBefore]_vars

(* A thread sleeps on COND_refresh only while what it waits for is still so: *)
(* "Wait until the table is freed or the thread is killed" (open_table), and *)
(* so in every other loop around pthread_cond_wait: whoever changes what a   *)
(* thread waits for broadcasts.                                              *)
MustSleep(t) ==
  CASE pc[t] = "refresh" ->
         \E x \in stmt[t].tabs \ Opened(t) : OldUser(t, x)
    [] pc[t] = "wait_if_wait" ->
         global_read_lock > 0 /\ version[t] = refresh_version
    [] pc[t] \in {"name_read_lock_wait", "drop_read_lock"} -> global_read_lock > 0
    [] pc[t] = "read_lock_wait" -> protect_against_global_read_lock > 0
    [] pc[t] = "wait_tables_wait" -> WaitsForTables(t)
    [] pc[t] = "flush_wait" -> OldTablesOpen
    [] pc[t] = "drop_wait" -> InUseByOthers(t, Dropped(t))
    [] pc[t] = "name_wait" -> NamesInUse(t)
NoLostWakeup == \A t \in sleeping : MustSleep(t)

(* Statements never wait for one another in a ring: some statement can go    *)
(* on, or a connection keeps the others waiting with LOCK TABLES or the      *)
(* global read lock.                                                         *)
Busy(t) == pc[t] \notin {"idle", "dead"}
SomeoneMoves ==
  (\E t \in Thread : Busy(t)) =>
    \/ \E t \in Thread : Busy(t) /\ ENABLED Step(t)
    \/ \E t \in Thread : pc[t] = "idle" /\ (locked_tables[t] \/ holds[t])
=============================================================================
