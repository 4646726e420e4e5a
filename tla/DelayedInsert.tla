---------------------------- MODULE DelayedInsert ----------------------------
(* INSERT DELAYED on one table (sql/sql_insert.cc): clients put rows in the  *)
(* queue of a handler thread, which opens and locks the table for them,      *)
(* writes the rows and dies when it is killed or has nothing to do.          *)
(* FLUSH TABLES (sql/sql_base.cc) kills the handlers.                        *)
(*                                                                           *)
(* A delayed_insert object is a member of Handler; an object that is not     *)
(* allocated has pc = "none".  A handler holds di->mutex through the steps   *)
(* that the code runs under it, its calls of open_ltable() and               *)
(* mysql_lock_tables() included.                                             *)
EXTENDS Naturals, FiniteSets

CONSTANTS
    Client,       \* connections that run INSERT DELAYED
    Handler,      \* delayed_insert objects
    Flusher,      \* the connection that runs FLUSH TABLES
    Nobody,       \* no thread, and no handler
    QueueSize,    \* delayed_queue_size
    MaxUint,      \* the largest value of stacked_inserts
    InsertLimit,  \* delayed_insert_limit
    Statements,   \* statements a client runs
    RowsPer,      \* rows of a statement
    Flushes,      \* FLUSH TABLES statements run
    KillAt,       \* where a KILL may reach a client
    ReadLock,     \* whether the flush is FLUSH TABLES WITH READ LOCK
    Aborts        \* whether another statement aborts the handler's table lock

ASSUME HandlerAssumption ==
    /\ IsFiniteSet(Client) /\ IsFiniteSet(Handler)
    /\ Client \cap Handler = {}
    /\ Handler \cap {"LOCK_delayed_insert", "LOCK_delayed_create", "LOCK_open"} = {}
    /\ Flusher \notin Client \cup Handler
    /\ Nobody \notin Client \cup Handler \cup {Flusher}
    /\ QueueSize \in Nat \ {0} /\ MaxUint \in Nat /\ MaxUint > QueueSize
    /\ InsertLimit \in Nat
    /\ Statements \in Nat /\ RowsPer \in Nat \ {0} /\ Flushes \in Nat
    /\ ReadLock \in BOOLEAN /\ Aborts \in BOOLEAN

Thread == Client \cup Handler \cup {Flusher}
Mutex == {"LOCK_delayed_insert", "LOCK_delayed_create", "LOCK_open"} \cup Handler

ClientPc == {"idle", "create_lock", "create", "open_wait", "opened", "unlock", "unlock_last",
             "get_table", "lock_wait", "fatal_error", "insert",
             "queue_wait", "end"}
HandlerPc == {"none", "start", "open", "lock", "read_lock_wait", "append", "loop",
              "unlink", "unlinked", "sleep", "work", "inserts",
              "upgrade", "rows", "writing", "reschedule", "no_cache",
              "err", "err_dec", "tail", "unlocked", "end", "delete_create", "delete"}
FlusherPc == {"idle", "flush", "kill", "killing", "refresh", "release"}

ASSUME KillAssumption == KillAt \subseteq ClientPc

VARIABLES
    pc,        \* where each thread is
    owner,     \* the holder of each mutex
    asleep,    \* threads in pthread_cond_wait() that nobody has signalled
    di,        \* the delayed_insert objects
    listed,    \* delayed_threads
    ref,       \* the handler a client has a pointer to
    next,      \* where a client goes on after delayed_insert::unlock()
    left,      \* rows of its statement that a client has still to queue
    statements,\* statements a client has still to run
    killed,    \* clients that were killed
    todo,      \* handlers kill_delayed_threads() has still to visit
    flushes,   \* FLUSH TABLES statements still to run
    global_read_lock

cvars == <<ref, next, left, statements, killed>>
fvars == <<todo, flushes, global_read_lock>>
vars == <<pc, owner, asleep, di, listed, cvars, fvars>>

(* delayed_insert::delayed_insert(): "opened" is the state of the handler's  *)
(* TABLE in the table cache, "table" whether di->table is set, "lock" is     *)
(* thd.lock, "unlisted_locks" the local lock_count of the handler and "seen" *)
(* the value of stacked_inserts it has read without the mutex.               *)
New ==
    [locks_in_memory |-> 0, opened |-> "no", table |-> FALSE, lock |-> FALSE,
     tables_in_use |-> 0, stacked_inserts |-> 0, rows |-> 0, status |-> FALSE,
     dead |-> FALSE, killed |-> FALSE, fatal_error |-> FALSE,
     group_count |-> 0, all |-> FALSE, unlisted_locks |-> 0, seen |-> 0]

Init ==
    /\ pc = [t \in Thread |-> IF t \in Handler THEN "none" ELSE "idle"]
    /\ owner = [m \in Mutex |-> Nobody]
    /\ asleep = {}
    /\ di = [d \in Handler |-> New]
    /\ listed = {}
    /\ ref = [c \in Client |-> Nobody]
    /\ next = [c \in Client |-> "idle"]
    /\ left = [c \in Client |-> 0]
    /\ statements = [c \in Client |-> Statements]
    /\ killed = {}
    /\ todo = {}
    /\ flushes = Flushes
    /\ global_read_lock = FALSE

-----------------------------------------------------------------------------
(* Threads, mutexes and conditions. *)

Goto(t, p) == pc' = [pc EXCEPT ![t] = p]
Free(m) == owner[m] = Nobody
Lock(t, m) == Free(m) /\ owner' = [owner EXCEPT ![m] = t]
Unlock(m) == owner' = [owner EXCEPT ![m] = Nobody]
Holds(t, m) == owner[m] = t

Set(d, r) == di' = [di EXCEPT ![d] = r]

(* Those asleep on di->cond_client, and after a broadcast or a signal of     *)
(* di->cond.                                                                 *)
ClientsOf(d) == {c \in Client : ref[c] = d /\ c \in asleep}
BroadcastClients(d) == asleep' = asleep \ ClientsOf(d)

(* Mutant: clients are woken for the lock only. *)
WakeNone(d) == UNCHANGED asleep

(* "If waiting clients" *)
WakeClients(d) ==
    IF di[d].tables_in_use > 0 THEN BroadcastClients(d) ELSE UNCHANGED asleep
SignalHandler(d) == asleep' = IF pc[d] = "sleep" THEN asleep \ {d} ELSE asleep

(* COND_refresh *)
Refresh == asleep \ ({Flusher} \cup {d \in Handler : pc[d] = "read_lock_wait"})

-----------------------------------------------------------------------------
(* The client: delayed_get_table().                                          *)

Allocated == {d \in Handler : pc[d] # "none"}

(* find_handler() under LOCK_delayed_insert *)
Found(c, d) ==
    /\ Free("LOCK_delayed_insert")
    /\ d \in listed
    /\ Set(d, [di[d] EXCEPT !.locks_in_memory = @ + 1])
    /\ ref' = [ref EXCEPT ![c] = d]

StartStatement(c) ==
    /\ pc[c] = "idle" /\ c \notin killed /\ statements[c] > 0
    /\ statements' = [statements EXCEPT ![c] = @ - 1]
    /\ left' = [left EXCEPT ![c] = RowsPer]
    /\ \/ /\ \E d \in listed : Found(c, d)
          /\ Goto(c, "get_table")
       \/ /\ listed = {} /\ Free("LOCK_delayed_insert")
          /\ Goto(c, "create_lock") /\ UNCHANGED <<di, ref>>
    /\ UNCHANGED <<owner, asleep, listed, next, killed, fvars>>

LockCreate(c) ==
    /\ pc[c] = "create_lock"
    /\ Lock(c, "LOCK_delayed_create")
    /\ Goto(c, "create")
    /\ UNCHANGED <<asleep, di, listed, cvars, fvars>>

(* The second find_handler(), holding LOCK_delayed_create. *)
FindAgain(c) ==
    /\ pc[c] = "create"
    /\ \E d \in listed : Found(c, d)
    /\ Goto(c, "get_table")
    /\ Unlock("LOCK_delayed_create")
    /\ UNCHANGED <<asleep, listed, next, left, statements, killed, fvars>>

(* Mutant: no second find_handler() under LOCK_delayed_create. *)
CreateUnchecked(c) ==
    /\ pc[c] = "create" /\ Free("LOCK_delayed_insert")
    /\ \E d \in Handler \ Allocated :
          /\ Set(d, [New EXCEPT !.locks_in_memory = 1])
          /\ ref' = [ref EXCEPT ![c] = d]
          /\ pc' = [pc EXCEPT ![d] = "start", ![c] = "open_wait"]
          /\ asleep' = asleep \cup {c}
    /\ UNCHANGED <<owner, listed, next, left, statements, killed, fvars>>

(* new delayed_insert(), pthread_create() and the wait for the open table,   *)
(* which is skipped by a thread that was killed before.                      *)
CreateHandler(c) ==
    /\ pc[c] = "create" /\ listed = {} /\ Free("LOCK_delayed_insert")
    /\ \E d \in Handler \ Allocated :
          /\ Set(d, [New EXCEPT !.locks_in_memory = 1])
          /\ ref' = [ref EXCEPT ![c] = d]
          /\ pc' = [pc EXCEPT ![d] = "start",
                              ![c] = IF c \in killed THEN "opened" ELSE "open_wait"]
          /\ asleep' = IF c \in killed THEN asleep ELSE asleep \cup {c}
    /\ UNCHANGED <<owner, listed, next, left, statements, killed, fvars>>

(* No memory for the object, or no thread for it. *)
CreateFails(c) ==
    /\ pc[c] = "create" /\ listed = {} /\ Free("LOCK_delayed_insert")
    /\ Goto(c, "idle")
    /\ Unlock("LOCK_delayed_create")
    /\ left' = [left EXCEPT ![c] = 0]
    /\ UNCHANGED <<asleep, di, listed, ref, next, statements, killed, fvars>>

(* Woken on cond_client: the test of the loop under di->mutex. *)
OpenWoken(c) ==
    LET d == ref[c] IN
    /\ pc[c] = "open_wait" /\ c \notin asleep /\ Free(d)
    /\ IF di[d].killed \/ di[d].table \/ c \in killed
         THEN Goto(c, "opened") /\ UNCHANGED asleep
         ELSE asleep' = asleep \cup {c} /\ UNCHANGED pc
    /\ UNCHANGED <<owner, di, listed, cvars, fvars>>

(* "got old table": the flags are read after the mutex was unlocked. *)
Opened(c) ==
    LET d == ref[c] IN
    /\ pc[c] = "opened"
    /\ IF di[d].killed \/ c \in killed
         THEN /\ next' = [next EXCEPT ![c] = "idle"]
              /\ Goto(c, "unlock") /\ UNCHANGED owner
         ELSE /\ Goto(c, "get_table")
              /\ Unlock("LOCK_delayed_create") /\ UNCHANGED next
    /\ UNCHANGED <<asleep, di, listed, ref, left, statements, killed, fvars>>

(* delayed_insert::unlock(): the last one also takes di->mutex. *)
After(c) ==
    /\ Goto(c, next[c])
    /\ IF next[c] = "idle"
         THEN ref' = [ref EXCEPT ![c] = Nobody] /\ left' = [left EXCEPT ![c] = 0]
         ELSE UNCHANGED <<ref, left>>

ReleaseAfter(c) ==
    [m \in Mutex |->
        IF m = "LOCK_delayed_insert" \/ (m = "LOCK_delayed_create" /\ Holds(c, m))
          THEN Nobody ELSE owner[m]]

unlock(c) ==
    LET d == ref[c] IN
    /\ pc[c] = "unlock" /\ Free("LOCK_delayed_insert")
    /\ Set(d, [di[d] EXCEPT !.locks_in_memory = @ - 1])
    /\ IF di[d].locks_in_memory = 1
         THEN /\ Goto(c, "unlock_last") /\ Lock(c, "LOCK_delayed_insert")
              /\ UNCHANGED <<ref, left>>
         ELSE After(c) /\ owner' = ReleaseAfter(c)
    /\ UNCHANGED <<asleep, listed, next, statements, killed, fvars>>

unlock_last(c) ==
    LET d == ref[c] IN
    /\ pc[c] = "unlock_last" /\ Free(d)
    /\ IF di[d].killed /\ di[d].stacked_inserts = 0 /\ di[d].tables_in_use = 0
         THEN SignalHandler(d) /\ Set(d, [di[d] EXCEPT !.status = TRUE])
         ELSE UNCHANGED <<asleep, di>>
    /\ After(c) /\ owner' = ReleaseAfter(c)
    /\ UNCHANGED <<listed, next, statements, killed, fvars>>

(* The end of delayed_insert::get_local_table(): a table, or no table after  *)
(* the handler died or the client was killed.                                *)
GotTable(c) ==
    /\ next' = [next EXCEPT ![c] = "insert"]
    /\ Goto(c, "unlock")

(* Mutant: the client goes on as if it had a table. *)
GetFailsUnseen(c, d, r) ==
    /\ Set(d, [r EXCEPT !.tables_in_use = @ - 1, !.status = TRUE])
    /\ SignalHandler(d)
    /\ next' = [next EXCEPT ![c] = "insert"]
    /\ Goto(c, "unlock")

(* Mutant: tables_in_use is not counted down. *)
GetFailsCounted(c, d, r) ==
    /\ Set(d, [r EXCEPT !.status = TRUE])
    /\ SignalHandler(d)
    /\ next' = [next EXCEPT ![c] = "fatal_error"]
    /\ Goto(c, "unlock")

GetFails(c, d, r) ==
    /\ Set(d, [r EXCEPT !.tables_in_use = @ - 1, !.status = TRUE])
    /\ SignalHandler(d)
    /\ next' = [next EXCEPT ![c] = "fatal_error"]
    /\ Goto(c, "unlock")

get_local_table(c) ==
    LET d == ref[c]
        r == [di[d] EXCEPT !.status = TRUE, !.tables_in_use = @ + 1]
    IN
    /\ pc[c] = "get_table" /\ Free(d)
    /\ \/ r.lock /\ Set(d, r) /\ GotTable(c) /\ UNCHANGED asleep
       \/ ~r.lock /\ (r.dead \/ c \in killed) /\ GetFails(c, d, r)
       \/ /\ ~r.lock /\ ~r.dead /\ c \notin killed
          /\ Set(d, r)
          /\ asleep' = (IF pc[d] = "sleep" THEN asleep \ {d} ELSE asleep) \cup {c}
          /\ Goto(c, "lock_wait") /\ UNCHANGED next
    /\ UNCHANGED <<owner, listed, ref, left, statements, killed, fvars>>

LockWoken(c) ==
    LET d == ref[c] IN
    /\ pc[c] = "lock_wait" /\ c \notin asleep /\ Free(d)
    /\ \/ (di[d].dead \/ c \in killed) /\ GetFails(c, d, di[d])
       \/ /\ ~di[d].dead /\ c \notin killed /\ di[d].lock
          /\ GotTable(c) /\ UNCHANGED <<asleep, di>>
       \/ /\ ~di[d].dead /\ c \notin killed /\ ~di[d].lock
          /\ asleep' = asleep \cup {c} /\ UNCHANGED <<pc, di, next>>
    /\ UNCHANGED <<owner, listed, ref, left, statements, killed, fvars>>

(* tmp->thd.fatal_error is read after tmp->unlock(). *)
ReadFatalError(c) ==
    /\ pc[c] = "fatal_error"
    /\ Goto(c, "idle")
    /\ ref' = [ref EXCEPT ![c] = Nobody] /\ left' = [left EXCEPT ![c] = 0]
    /\ UNCHANGED <<owner, asleep, di, listed, next, statements, killed, fvars>>

(* write_delayed(): one row of the statement. *)
write_delayed(c) ==
    LET d == ref[c] IN
    /\ \/ pc[c] = "insert" /\ left[c] > 0
       \/ pc[c] = "queue_wait" /\ c \notin asleep
    /\ Free(d)
    /\ \/ /\ c \in killed
          /\ Goto(c, "end") /\ UNCHANGED <<asleep, di, left>>
       \/ /\ c \notin killed /\ di[d].stacked_inserts >= QueueSize
          /\ asleep' = asleep \cup {c}
          /\ Goto(c, "queue_wait") /\ UNCHANGED <<di, left>>
       \/ /\ c \notin killed /\ di[d].stacked_inserts < QueueSize
          /\ Set(d, [di[d] EXCEPT !.rows = @ + 1, !.stacked_inserts = @ + 1,
                                  !.status = TRUE])
          /\ SignalHandler(d)
          /\ left' = [left EXCEPT ![c] = @ - 1]
          /\ Goto(c, IF left[c] = 1 THEN "end" ELSE "insert")
    /\ UNCHANGED <<owner, listed, ref, next, statements, killed, fvars>>

end_delayed_insert(c) ==
    LET d == ref[c]
        r == [di[d] EXCEPT !.tables_in_use = @ - 1] IN
    /\ pc[c] = "end" /\ Free(d)
    /\ IF r.tables_in_use = 0 \/ r.killed
         THEN Set(d, [r EXCEPT !.status = TRUE]) /\ SignalHandler(d)
         ELSE Set(d, r) /\ UNCHANGED asleep
    /\ Goto(c, "idle")
    /\ ref' = [ref EXCEPT ![c] = Nobody] /\ left' = [left EXCEPT ![c] = 0]
    /\ UNCHANGED <<owner, listed, next, statements, killed, fvars>>

(* KILL of a client: none of the waits above sets current_cond, so that the  *)
(* flag is all that changes.                                                 *)
KillClient(c) ==
    /\ pc[c] \in KillAt /\ c \notin killed
    /\ killed' = killed \cup {c}
    /\ UNCHANGED <<pc, owner, asleep, di, listed, ref, next, left, statements, fvars>>

ClientStep(c) ==
    \/ LockCreate(c) \/ FindAgain(c) \/ CreateHandler(c) \/ CreateFails(c)
    \/ OpenWoken(c) \/ Opened(c) \/ unlock(c) \/ unlock_last(c)
    \/ get_local_table(c) \/ LockWoken(c) \/ ReadFatalError(c)
    \/ write_delayed(c) \/ end_delayed_insert(c)

-----------------------------------------------------------------------------
(* The handler: handle_delayed_insert().                                     *)

StartHandler(d) ==
    /\ pc[d] = "start"
    /\ Lock(d, d)
    /\ Goto(d, "open")
    /\ UNCHANGED <<asleep, di, listed, cvars, fvars>>

(* open_ltable(): open_table() takes LOCK_open and waits for the table to be *)
(* closed by those that have an old version of it.  It may fail.             *)
OpenTable(d) ==
    /\ pc[d] = "open" /\ Free("LOCK_open")
    /\ \/ /\ ~di[d].killed /\ \A e \in Handler : di[e].opened # "old"
          /\ Set(d, [di[d] EXCEPT !.opened = "current"])
          /\ Goto(d, "lock")
       \/ /\ Set(d, [di[d] EXCEPT !.fatal_error = TRUE])
          /\ Goto(d, "end")
    /\ UNCHANGED <<owner, asleep, listed, cvars, fvars>>

(* mysql_lock_tables() fails: open_ltable() does, or the handler is dead.    *)
LockFails(d) ==
    IF ~di[d].table
      THEN /\ Set(d, [di[d] EXCEPT !.fatal_error = TRUE])
           /\ Goto(d, "end") /\ UNCHANGED asleep
      ELSE /\ Set(d, [di[d] EXCEPT !.dead = TRUE, !.killed = TRUE])
           /\ Goto(d, "inserts") /\ BroadcastClients(d)

(* mysql_lock_tables() of di->table, with di->mutex held.  While someone has *)
(* the global read lock it sleeps in wait_if_global_read_lock(), or goes     *)
(* round when the tables were flushed since thd->version was set.            *)
mysql_lock_tables(d) ==
    /\ pc[d] \in {"lock", "read_lock_wait"} /\ d \notin asleep
    /\ global_read_lock \/ pc[d] = "read_lock_wait" => Free("LOCK_open")
    /\ \/ di[d].killed /\ LockFails(d)
       \/ /\ ~di[d].killed /\ ~global_read_lock
          /\ Set(d, [di[d] EXCEPT !.lock = TRUE, !.table = TRUE])
          /\ IF di[d].table THEN Goto(d, "inserts") /\ BroadcastClients(d)
                            ELSE Goto(d, "append") /\ UNCHANGED asleep
       \/ /\ ~di[d].killed /\ global_read_lock /\ di[d].opened = "current"
          /\ Goto(d, "read_lock_wait")
          /\ asleep' = asleep \cup {d} /\ UNCHANGED di
       \/ /\ ~di[d].killed /\ global_read_lock /\ di[d].opened = "old"
          /\ Set(d, [di[d] EXCEPT !.opened = "reopened"])
          /\ Goto(d, "lock") /\ asleep' = Refresh
    /\ UNCHANGED <<owner, listed, cvars, fvars>>

(* "One can now use this": the handler enters delayed_threads and signals    *)
(* the client that waits for it.                                             *)
Append(d) ==
    /\ pc[d] = "append" /\ Free("LOCK_delayed_insert")
    /\ listed' = listed \cup {d}
    /\ \/ ClientsOf(d) = {} /\ UNCHANGED asleep
       \/ \E c \in ClientsOf(d) : asleep' = asleep \ {c}
    /\ Goto(d, "loop")
    /\ UNCHANGED <<owner, di, cvars, fvars>>

(* The head of the loop, and "Waiting for someone to insert rows".           *)
Loop(d) ==
    LET busy == di[d].status \/ di[d].stacked_inserts > 0 IN
    /\ pc[d] = "loop"
    /\ \/ /\ di[d].killed
          /\ Goto(d, "unlink") /\ Unlock(d) /\ UNCHANGED asleep
       \/ /\ ~di[d].killed /\ busy
          /\ Goto(d, "work") /\ UNCHANGED <<owner, asleep>>
       \/ /\ ~di[d].killed /\ ~busy
          /\ Goto(d, "sleep") /\ Unlock(d) /\ asleep' = asleep \cup {d}
    /\ UNCHANGED <<di, listed, cvars, fvars>>

(* A killed handler leaves the list, so that nobody can find it any more,    *)
(* and dies if nobody has; otherwise it goes round once more.                *)
Unlink(d) ==
    /\ pc[d] = "unlink" /\ Free("LOCK_delayed_insert")
    /\ listed' = listed \ {d}
    /\ Set(d, [di[d] EXCEPT !.unlisted_locks = di[d].locks_in_memory])
    /\ Goto(d, "unlinked")
    /\ UNCHANGED <<owner, asleep, cvars, fvars>>

(* Mutant: a client that has a table is not waited for. *)
TimeToDieEarly(r) == r.unlisted_locks = 0 /\ r.stacked_inserts = 0

TimeToDie(r) ==
    r.unlisted_locks = 0 /\ r.tables_in_use = 0 /\ r.stacked_inserts = 0

Unlinked(d) ==
    /\ pc[d] = "unlinked"
    /\ Lock(d, d)
    /\ Goto(d, IF TimeToDie(di[d]) THEN "end" ELSE "work")
    /\ UNCHANGED <<asleep, di, listed, cvars, fvars>>

(* Woken by a signal, or after delayed_insert_timeout: it then kills itself, *)
(* unless there is something to do.  The mutex is let go to clear            *)
(* current_cond.                                                             *)
Woken(d) ==
    /\ pc[d] = "sleep" /\ d \notin asleep /\ Free(d)
    /\ IF di[d].killed \/ di[d].status
         THEN Goto(d, "work") /\ UNCHANGED asleep
         ELSE asleep' = asleep \cup {d} /\ UNCHANGED pc
    /\ UNCHANGED <<owner, di, listed, cvars, fvars>>

TimeOut(d) ==
    /\ pc[d] = "sleep" /\ d \in asleep /\ Free(d)
    /\ Set(d, [di[d] EXCEPT !.killed = @ \/ ~di[d].status])
    /\ asleep' = asleep \ {d}
    /\ Goto(d, "work")
    /\ UNCHANGED <<owner, listed, cvars, fvars>>

(* The body of the loop: lock the table for a client, then write the rows.   *)
Work(d) ==
    LET lock == pc[d] = "work" /\ di[d].tables_in_use > 0 /\ ~di[d].lock
        insert == ~lock /\ di[d].stacked_inserts > 0
    IN
    /\ pc[d] \in {"work", "inserts"} /\ owner[d] \in {d, Nobody}
    /\ owner' = [owner EXCEPT ![d] = IF insert THEN Nobody ELSE d]
    /\ Goto(d, IF lock THEN "lock" ELSE IF insert THEN "upgrade" ELSE "tail")
    /\ UNCHANGED <<asleep, di, listed, cvars, fvars>>

(* handle_inserts(), which runs without di->mutex but for the queue itself.  *)
(* thr_upgrade_write_delay_lock() fails when the lock was aborted; a table   *)
(* that was reopened has the version of now.                                 *)
Upgrade(d) ==
    LET stale == di[d].killed \/ di[d].opened = "old" IN
    /\ pc[d] = "upgrade"
    /\ \/ /\ Set(d, [di[d] EXCEPT !.all = stale, !.killed = stale])
          /\ Goto(d, "rows")
       \/ Aborts /\ Goto(d, "err") /\ UNCHANGED di
    /\ UNCHANGED <<owner, asleep, listed, cvars, fvars>>

(* The next row of the queue, and the end of the section under di->mutex. *)
TakeRow(d, r) ==
    IF r.rows > 0
      THEN /\ Set(d, [r EXCEPT !.rows = @ - 1,
              !.stacked_inserts = (@ + MaxUint) % (MaxUint + 1)])
           /\ Goto(d, "writing")
      ELSE Set(d, r) /\ Goto(d, "no_cache")

FirstRow(d) ==
    /\ pc[d] = "rows" /\ Free(d)
    /\ TakeRow(d, di[d])
    /\ UNCHANGED <<owner, asleep, listed, cvars, fvars>>

(* The row is in the table and in the log.  After max_rows of them readers   *)
(* of the table get their turn (thr_reschedule_write_lock()).                *)
Written(d) ==
    LET full == ~di[d].all /\ di[d].group_count = InsertLimit
        others == di[d].stacked_inserts > 0 \/ di[d].tables_in_use > 0
        r == [di[d] EXCEPT !.group_count =
                IF full THEN 0 ELSE IF @ < InsertLimit THEN @ + 1 ELSE @]
    IN
    /\ pc[d] = "writing" /\ Free(d)
    /\ IF full /\ others THEN Set(d, r) /\ Goto(d, "reschedule")
                         ELSE TakeRow(d, r)
    /\ IF full THEN WakeClients(d) ELSE UNCHANGED asleep
    /\ UNCHANGED <<owner, listed, cvars, fvars>>

(* extra(HA_EXTRA_NO_CACHE), which may fail here and below, and the lock     *)
(* again.                                                                    *)
Rescheduled(d) ==
    /\ pc[d] = "reschedule"
    /\ \/ Free(d) /\ WakeClients(d) /\ TakeRow(d, di[d])
       \/ Aborts /\ Goto(d, "err") /\ UNCHANGED <<asleep, di>>
    /\ UNCHANGED <<owner, listed, cvars, fvars>>

NoCache(d) ==
    /\ pc[d] = "no_cache"
    /\ \/ Lock(d, d) /\ Goto(d, "tail")
       \/ Aborts /\ Goto(d, "err") /\ UNCHANGED owner
    /\ UNCHANGED <<asleep, di, listed, cvars, fvars>>

(* "Remove all not used rows", without di->mutex: stacked_inserts is read    *)
(* and written back in two steps.                                            *)
DropRow(d) ==
    /\ \/ /\ pc[d] = "err" /\ di[d].rows > 0
          /\ Set(d, [di[d] EXCEPT !.rows = @ - 1, !.seen = di[d].stacked_inserts])
          /\ Goto(d, "err_dec")
       \/ /\ pc[d] = "err_dec"
          /\ Set(d, [di[d] EXCEPT !.seen = 0,
                !.stacked_inserts = (di[d].seen + MaxUint) % (MaxUint + 1)])
          /\ Goto(d, "err")
    /\ UNCHANGED <<owner, asleep, listed, cvars, fvars>>

InsertsFail(d) ==
    /\ pc[d] = "err" /\ di[d].rows = 0
    /\ Lock(d, d)
    /\ Set(d, [di[d] EXCEPT !.dead = TRUE, !.killed = TRUE])
    /\ Goto(d, "tail")
    /\ UNCHANGED <<asleep, listed, cvars, fvars>>

(* Mutant: a client that has no row in the queue is forgotten. *)
IdleQueue(r) == r.stacked_inserts = 0

Idle(r) == r.stacked_inserts = 0 /\ r.tables_in_use = 0

(* The end of the loop: the table is unlocked when nobody uses it.           *)
Tail(d) ==
    /\ pc[d] = "tail"
    /\ IF Idle(di[d]) /\ di[d].lock
         THEN /\ Set(d, [di[d] EXCEPT !.status = FALSE, !.lock = FALSE])
              /\ Goto(d, "unlocked") /\ Unlock(d) /\ UNCHANGED asleep
         ELSE /\ Set(d, [di[d] EXCEPT !.status = FALSE])
              /\ Goto(d, "loop") /\ UNCHANGED owner
              /\ WakeClients(d)
    /\ UNCHANGED <<listed, cvars, fvars>>

Unlocked(d) ==
    /\ pc[d] = "unlocked"
    /\ Lock(d, d)
    /\ Set(d, [di[d] EXCEPT !.group_count = 0])
    /\ WakeClients(d)
    /\ Goto(d, "loop")
    /\ UNCHANGED <<listed, cvars, fvars>>

(* close_thread_tables(), still with di->mutex, wakes those that wait for    *)
(* the table to be closed.                                                   *)
End(d) ==
    /\ pc[d] = "end" /\ Free("LOCK_open")
    /\ Set(d, [di[d] EXCEPT !.opened = "no", !.table = FALSE, !.lock = FALSE,
                            !.dead = TRUE, !.killed = TRUE])
    /\ asleep' = Refresh \ ClientsOf(d)
    /\ Goto(d, "delete_create") /\ Unlock(d)
    /\ UNCHANGED <<listed, cvars, fvars>>

DeleteLock(d) ==
    /\ pc[d] = "delete_create"
    /\ Lock(d, "LOCK_delayed_create")
    /\ Goto(d, "delete")
    /\ UNCHANGED <<asleep, di, listed, cvars, fvars>>

Delete(d) ==
    /\ pc[d] = "delete" /\ Free("LOCK_delayed_insert")
    /\ Goto(d, "none")
    /\ Set(d, New)
    /\ Unlock("LOCK_delayed_create")
    /\ UNCHANGED <<asleep, listed, cvars, fvars>>

(* KILL of the handler, or a DROP or ALTER TABLE that finds it in the table  *)
(* cache: it is woken where current_cond is set.                             *)
KillHandler(d) ==
    /\ pc[d] \notin {"none", "start"} /\ ~di[d].killed
    /\ Set(d, [di[d] EXCEPT !.killed = TRUE])
    /\ asleep' = asleep \ {d}
    /\ UNCHANGED <<pc, owner, listed, cvars, fvars>>

HandlerStep(d) ==
    \/ StartHandler(d) \/ OpenTable(d) \/ mysql_lock_tables(d) \/ Append(d)
    \/ Loop(d) \/ Unlink(d) \/ Unlinked(d) \/ Woken(d) \/ TimeOut(d) \/ Work(d)
    \/ Upgrade(d) \/ FirstRow(d) \/ Written(d) \/ Rescheduled(d) \/ NoCache(d)
    \/ DropRow(d) \/ InsertsFail(d) \/ Tail(d) \/ Unlocked(d) \/ End(d)
    \/ DeleteLock(d) \/ Delete(d)

-----------------------------------------------------------------------------
(* FLUSH TABLES: close_cached_tables() and kill_delayed_threads().           *)

StartFlush ==
    /\ pc[Flusher] = "idle" /\ flushes > 0
    /\ ReadLock => Free("LOCK_open")
    /\ flushes' = flushes - 1
    /\ global_read_lock' = ReadLock
    /\ Goto(Flusher, "flush")
    /\ UNCHANGED <<owner, asleep, di, listed, todo, cvars>>

(* refresh_version++ makes every open table an old one. *)
close_cached_tables ==
    /\ pc[Flusher] = "flush"
    /\ Lock(Flusher, "LOCK_open")
    /\ di' = [d \in Handler |->
                [di[d] EXCEPT !.opened = IF @ = "no" THEN "no" ELSE "old"]]
    /\ Goto(Flusher, "kill")
    /\ UNCHANGED <<asleep, listed, cvars, fvars>>

kill_delayed_threads ==
    /\ pc[Flusher] = "kill"
    /\ Lock(Flusher, "LOCK_delayed_insert")
    /\ todo' = listed
    /\ Goto(Flusher, "killing")
    /\ UNCHANGED <<asleep, di, listed, flushes, global_read_lock, cvars>>

(* One handler of the list, under its mutex. *)
KillOne ==
    /\ pc[Flusher] = "killing"
    /\ \E d \in todo :
          /\ Free(d)
          /\ Set(d, [di[d] EXCEPT !.killed = TRUE])
          /\ asleep' = asleep \ {d}
          /\ todo' = todo \ {d}
    /\ UNCHANGED <<pc, owner, listed, flushes, global_read_lock, cvars>>

(* close_old_data_files() wakes those that wait on COND_refresh. *)
KillDone ==
    /\ pc[Flusher] = "killing" /\ todo = {}
    /\ Unlock("LOCK_delayed_insert")
    /\ asleep' = Refresh
    /\ Goto(Flusher, "refresh")
    /\ UNCHANGED <<di, listed, cvars, fvars>>

(* "Flushing tables": the wait on COND_refresh for the old tables.           *)
WaitRefresh ==
    /\ pc[Flusher] = "refresh"
    /\ IF Holds(Flusher, "LOCK_open") THEN TRUE
                                      ELSE Flusher \notin asleep /\ Free("LOCK_open")
    /\ Unlock("LOCK_open")
    /\ IF \E d \in Handler : di[d].opened = "old"
         THEN asleep' = asleep \cup {Flusher} /\ UNCHANGED pc
         ELSE Goto(Flusher, "release") /\ UNCHANGED asleep
    /\ UNCHANGED <<di, listed, cvars, fvars>>

(* The end of the statement, or UNLOCK TABLES for the global read lock.      *)
EndFlush ==
    /\ pc[Flusher] = "release"
    /\ ReadLock => Free("LOCK_open")
    /\ global_read_lock' = FALSE
    /\ asleep' = IF ReadLock THEN Refresh ELSE asleep
    /\ Goto(Flusher, "idle")
    /\ UNCHANGED <<owner, di, listed, todo, flushes, cvars>>

FlusherStep ==
    \/ close_cached_tables \/ kill_delayed_threads \/ KillOne \/ KillDone
    \/ WaitRefresh \/ EndFlush

(* Every connection has done its statements and every handler is gone. *)
Finished ==
    /\ \A t \in Thread : pc[t] = IF t \in Handler THEN "none" ELSE "idle"
    /\ UNCHANGED vars

Next ==
    \/ Finished
    \/ \E c \in Client : StartStatement(c) \/ ClientStep(c) \/ KillClient(c)
    \/ \E d \in Handler : HandlerStep(d) \/ KillHandler(d)
    \/ StartFlush \/ FlusherStep

Spec == Init /\ [][Next]_vars

(* A thread that can run runs, a mutex is granted to each of those that wait *)
(* for it in turn, readers of the table go away and the timer expires.       *)
Fairness ==
    /\ \A c \in Client : SF_vars(ClientStep(c))
    /\ \A d \in Handler : SF_vars(HandlerStep(d))
    /\ SF_vars(FlusherStep)

FairSpec == Spec /\ Fairness

-----------------------------------------------------------------------------
(* Properties.                                                               *)

(* What a delayed_insert object can be.  The queue is a list, whose length   *)
(* does not wrap as its count stacked_inserts does.                          *)
Object ==
    [locks_in_memory : 0 .. Cardinality(Client),
     opened : {"no", "current", "old", "reopened"},
     table : BOOLEAN, lock : BOOLEAN,
     tables_in_use : 0 .. Cardinality(Client),
     stacked_inserts : 0 .. MaxUint, rows : Nat,
     status : BOOLEAN, dead : BOOLEAN, killed : BOOLEAN,
     fatal_error : BOOLEAN, group_count : 0 .. InsertLimit, all : BOOLEAN,
     unlisted_locks : 0 .. Cardinality(Client), seen : 0 .. MaxUint]

(* The variables have their types; in particular tables_in_use and           *)
(* locks_in_memory, counted down on every path of a client, never go below   *)
(* zero.                                                                     *)
TypeOK ==
    /\ pc \in [Thread -> ClientPc \cup HandlerPc \cup FlusherPc]
    /\ \A c \in Client : pc[c] \in ClientPc
    /\ \A d \in Handler : pc[d] \in HandlerPc
    /\ pc[Flusher] \in FlusherPc
    /\ owner \in [Mutex -> Thread \cup {Nobody}]
    /\ asleep \subseteq Thread
    /\ di \in [Handler -> Object]
    /\ listed \subseteq Handler
    /\ ref \in [Client -> Handler \cup {Nobody}]
    /\ next \in [Client -> {"idle", "insert", "fatal_error"}]
    /\ left \in [Client -> 0 .. RowsPer]
    /\ statements \in [Client -> 0 .. Statements]
    /\ killed \subseteq Client
    /\ todo \subseteq Handler
    /\ flushes \in 0 .. Flushes
    /\ global_read_lock \in BOOLEAN

(* Where a client that has a pointer to a handler is counted in              *)
(* locks_in_memory or tables_in_use, or still in unlock() with               *)
(* LOCK_delayed_insert.  ReadFatalError uses the pointer after that.         *)
Using == ClientPc \ {"idle", "create_lock", "create", "fatal_error"}

(* A handler that is closing its table or deleting itself.                   *)
Dying(d) == pc[d] \in {"end", "delete_create", "delete"}

(* "We will not abort as long as a client thread uses this thread"           *)
(* (sql_insert.cc:971) is true of the clients that are counted, and of no    *)
(* others: a client whose handler may be deleted is one that has got no      *)
(* table, and that one does use it: it reads tmp->thd.fatal_error after      *)
(* tmp->unlock() (sql_insert.cc:700).  And once a handler has seen that it   *)
(* can die, no client is getting its table or queueing rows, and no row is   *)
(* left.                                                                     *)
DiesUnused ==
    /\ \A c \in Client :
          ref[c] # Nobody /\ pc[ref[c]] = "none" => pc[c] = "fatal_error"
    /\ \A d \in Handler : Dying(d) =>
          /\ di[d].rows = 0
          /\ \A c \in Client : ref[c] = d =>
                pc[c] \in {"open_wait", "opened", "unlock", "unlock_last",
                          "fatal_error"}

(* handle_inserts() and the clients' copies of the TABLE rely on it: while a *)
(* client has a table of the handler or a row is queued, the handler has the *)
(* table open and locked.                                                    *)
RowsLocked ==
    /\ \A c \in Client :
          pc[c] \in {"insert", "queue_wait", "end"} =>
              di[ref[c]].table /\ di[ref[c]].lock
    /\ \A d \in Handler :
          di[d].rows > 0 \/ pc[d] = "writing" => di[d].table /\ di[d].lock

(* LOCK_delayed_create: at most one handler takes rows for the table. *)
OneHandler == Cardinality(listed) <= 1

(* Clients wait for the table to be open, for its lock and for room in the   *)
(* queue, the handler for them: every statement gets through.                *)
ClientsGoOn == \A c \in Client : pc[c] # "idle" ~> pc[c] = "idle"

(* "It will be killed if you execute a FLUSH TABLES command"                 *)
(* (Docs/manual.texi:33125): FLUSH TABLES gets every handler to close its    *)
(* table, and returns.                                                       *)
FlushEnds == pc[Flusher] # "idle" ~> pc[Flusher] = "idle"
=============================================================================
