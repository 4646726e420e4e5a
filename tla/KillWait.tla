------------------------------ MODULE KillWait ------------------------------
(* KILL and the waits it has to interrupt: GET_LOCK() and RELEASE_LOCK()     *)
(* (sql/item_func.cc), the wait of a writer for the end of the global read   *)
(* lock (sql/lock.cc) and MASTER_POS_WAIT() (sql/slave.cc).  A thread that   *)
(* waits on a condition tells the killer of it in mysys_var->current_cond    *)
(* and current_mutex, which mysys_var->mutex protects.                       *)
(*                                                                           *)
(* A section under LOCK_user_locks is one step; LOCK_open and mi->lock,      *)
(* which a thread keeps while it takes mysys_var->mutex, have an owner.      *)
EXTENDS Naturals, FiniteSets

CONSTANTS
    Thread,    \* connections
    Killer,    \* the connection that runs KILL
    Name,      \* names of user locks
    Nobody,    \* no thread, no name
    Statement, \* the statements each runs: "user_lock", "read_lock", "master_pos"
    Killable   \* the kinds of statement whose thread is killed

Kind == {"user_lock", "read_lock", "master_pos"}

ASSUME ThreadAssumption ==
    /\ IsFiniteSet(Thread)
    /\ Killer \notin Thread
    /\ Nobody \notin Thread \cup Name \cup {Killer}
    /\ Name \cap Kind = {}
    /\ Statement \in [Thread -> SUBSET Kind] /\ Killable \subseteq Kind

(* The conditions: that of each user lock, COND_refresh and mi->cond; and    *)
(* the mutexes that are kept over more than one step.                        *)
Cond == Name \cup {"read_lock", "master_pos"}
Mutex == {"read_lock", "master_pos"}

ThreadPc == {"idle", "lock_wait", "lock_exit", "wait", "exit_cond", "test", "enter"}

VARIABLES
    pc,         \* where each thread is
    kind,       \* the kind of statement a thread runs
    killed,     \* thd->killed
    asleep,     \* threads in pthread_cond_wait() that nobody has signalled
    current,    \* mysys_var->current_cond
    mysys,      \* the holder of each thread's mysys_var->mutex
    owner,      \* the holder of LOCK_open ("read_lock") and mi->lock ("master_pos")
    ull,        \* hash_user_locks: the user locks that exist
    thd_ull,    \* thd->ull: the user lock a thread has
    pending,    \* whether the global read lock, and the master position, are
                \* still to wait for
    kpc,        \* where the killer is
    victim      \* the thread it kills

vars == <<pc, kind, killed, asleep, current, mysys, owner, ull, thd_ull, pending,
          kpc, victim>>
lvars == <<ull, thd_ull>>
kvars == <<kpc, victim>>

NoLock == [exists |-> FALSE, locked |-> FALSE, count |-> 0, thread |-> Nobody]

Init ==
    /\ pc = [t \in Thread |-> "idle"]
    /\ kind = [t \in Thread |-> "user_lock"]
    /\ killed = {}
    /\ asleep = {}
    /\ current = [t \in Thread |-> Nobody]
    /\ mysys = [t \in Thread |-> Nobody]
    /\ owner = [m \in Mutex |-> Nobody]
    /\ ull = [n \in Name |-> NoLock]
    /\ thd_ull = [t \in Thread |-> Nobody]
    /\ pending = [m \in Mutex |-> TRUE]
    /\ kpc = "idle"
    /\ victim = Nobody

Goto(t, p) == pc' = [pc EXCEPT ![t] = p]

(* The threads asleep on a condition, and what a signal and a broadcast of   *)
(* it leave asleep.                                                          *)
SleepersOn(c) == {t \in asleep : current[t] = c}
Signal(c) == {asleep \ {t} : t \in SleepersOn(c)} \cup
             (IF SleepersOn(c) = {} THEN {asleep} ELSE {})
Broadcast(c) == asleep \ SleepersOn(c)

-----------------------------------------------------------------------------
(* User locks.  Released and Taken are the table of locks after the release  *)
(* by the owner and after a thread that is in count has taken the lock.      *)

(* Mutant for CountRight: count is tested before it is decremented. *)
ReleasedLate(n) ==
    IF ull[n].count = 0
      THEN [ull EXCEPT ![n] = NoLock]
      ELSE [ull EXCEPT ![n].locked = FALSE, ![n].count = @ - 1]

Released(n) ==
    IF ull[n].count = 1
      THEN [ull EXCEPT ![n] = NoLock]
      ELSE [ull EXCEPT ![n].locked = FALSE, ![n].count = @ - 1]

(* item_user_lock_release() of thd->ull *)
ReleaseOwn(t) == IF thd_ull[t] = Nobody THEN ull ELSE Released(thd_ull[t])
(* Mutant for NoLostSignal: the lock a thread had is freed without a signal. *)
WokenByNone(t) == {asleep}

WokenBy(t) == IF thd_ull[t] = Nobody THEN {asleep} ELSE Signal(thd_ull[t])

New(t) == [exists |-> TRUE, locked |-> TRUE, count |-> 1, thread |-> t]

(* GET_LOCK() leaves the wait loop: it takes the lock if it is free, whether *)
(* it was signalled, timed out or killed, and is no waiter any more if not.  *)
LeaveLoop(t, n, U) ==
    /\ IF U[n].locked
         THEN /\ ull' = IF U[n].count = 1 THEN [U EXCEPT ![n] = NoLock]
                                         ELSE [U EXCEPT ![n].count = @ - 1]
              /\ thd_ull' = [thd_ull EXCEPT ![t] = Nobody]
         ELSE /\ ull' = [U EXCEPT ![n].locked = TRUE, ![n].thread = t]
              /\ thd_ull' = [thd_ull EXCEPT ![t] = n]
    /\ Goto(t, "lock_exit")

(* Item_func_get_lock::val_int(): the old lock is released first; a new lock *)
(* is taken at once, for an existing one the thread waits, also when nobody  *)
(* has it at the moment.                                                     *)
get_lock(t, n) ==
    LET U == ReleaseOwn(t)
        W == [U EXCEPT ![n].count = @ + 1]
    IN
    /\ pc[t] = "idle" /\ "user_lock" \in Statement[t]
    /\ kind' = [kind EXCEPT ![t] = "user_lock"]
    /\ \E S \in WokenBy(t) :
          \/ /\ ~U[n].exists
             /\ ull' = [U EXCEPT ![n] = New(t)]
             /\ thd_ull' = [thd_ull EXCEPT ![t] = n]
             /\ asleep' = S
             /\ UNCHANGED <<pc, current>>
          \/ /\ U[n].exists
             /\ current' = [current EXCEPT ![t] = n]
             /\ IF t \in killed
                  THEN LeaveLoop(t, n, W) /\ asleep' = S
                  ELSE /\ ull' = W
                       /\ thd_ull' = [thd_ull EXCEPT ![t] = Nobody]
                       /\ asleep' = S \cup {t}
                       /\ Goto(t, "lock_wait")
    /\ UNCHANGED <<killed, mysys, owner, pending, kvars>>

(* The thread was woken, and leaves the loop when it was killed or finds the *)
(* lock free.                                                                *)
LockWoken(t) ==
    LET n == current[t] IN
    /\ pc[t] = "lock_wait" /\ t \notin asleep
    /\ IF t \in killed \/ ~ull[n].locked
         THEN LeaveLoop(t, n, ull) /\ UNCHANGED asleep
         ELSE asleep' = asleep \cup {t} /\ UNCHANGED <<pc, lvars>>
    /\ UNCHANGED <<kind, killed, current, mysys, owner, pending, kvars>>

LockTimeOut(t) ==
    /\ pc[t] = "lock_wait" /\ t \in asleep
    /\ asleep' = asleep \ {t}
    /\ LeaveLoop(t, current[t], ull)
    /\ UNCHANGED <<kind, killed, current, mysys, owner, pending, kvars>>

(* current_cond is cleared after LOCK_user_locks was unlocked. *)
LockExit(t) ==
    /\ pc[t] = "lock_exit" /\ mysys[t] = Nobody
    /\ current' = [current EXCEPT ![t] = Nobody]
    /\ Goto(t, "idle")
    /\ UNCHANGED <<kind, killed, asleep, mysys, owner, lvars, pending, kvars>>

(* Item_func_release_lock::val_int() *)
release_lock(t, n) ==
    /\ pc[t] = "idle"
    /\ ull[n].locked /\ ull[n].thread = t
    /\ ull' = Released(n)
    /\ asleep' \in Signal(n)
    /\ thd_ull' = [thd_ull EXCEPT ![t] = Nobody]
    /\ UNCHANGED <<pc, kind, killed, current, mysys, owner, pending, kvars>>

(* The connection ends, as it does after a KILL, and ~THD() releases its     *)
(* lock; the thread is then there for another connection.                    *)
Disconnect(t) ==
    /\ pc[t] = "idle" /\ victim # t
    /\ ull' = ReleaseOwn(t)
    /\ asleep' \in WokenBy(t)
    /\ thd_ull' = [thd_ull EXCEPT ![t] = Nobody]
    /\ killed' = killed \ {t}
    /\ UNCHANGED <<pc, kind, current, mysys, owner, pending, kvars>>

-----------------------------------------------------------------------------
(* The waits that use enter_cond() and exit_cond() (sql/sql_class.h).        *)

(* wait_if_global_read_lock(): the test for the kill follows enter_cond().   *)
wait_if_global_read_lock(t) ==
    /\ pc[t] = "idle" /\ "read_lock" \in Statement[t]
    /\ owner["read_lock"] = Nobody /\ pending["read_lock"]
    /\ kind' = [kind EXCEPT ![t] = "read_lock"]
    /\ current' = [current EXCEPT ![t] = "read_lock"]
    /\ IF t \in killed
         THEN /\ Goto(t, "exit_cond") /\ UNCHANGED asleep
              /\ owner' = [owner EXCEPT !["read_lock"] = t]
         ELSE Goto(t, "wait") /\ asleep' = asleep \cup {t} /\ UNCHANGED owner
    /\ UNCHANGED <<killed, mysys, lvars, pending, kvars>>

(* wait_for_pos() takes mi->lock and goes round a loop that tests for the    *)
(* kill before enter_cond(); nothing but the thread itself is between the    *)
(* two.                                                                      *)
wait_for_pos(t) ==
    /\ pc[t] = "idle" /\ "master_pos" \in Statement[t]
    /\ owner["master_pos"] = Nobody
    /\ kind' = [kind EXCEPT ![t] = "master_pos"]
    /\ owner' = [owner EXCEPT !["master_pos"] = t]
    /\ Goto(t, "test")
    /\ UNCHANGED <<killed, asleep, current, mysys, lvars, pending, kvars>>

PosTest(t) ==
    /\ pc[t] = "test"
    /\ IF t \in killed \/ ~pending["master_pos"]
         THEN Goto(t, "idle") /\ owner' = [owner EXCEPT !["master_pos"] = Nobody]
         ELSE Goto(t, "enter") /\ UNCHANGED owner
    /\ UNCHANGED <<kind, killed, asleep, current, mysys, lvars, pending, kvars>>

PosEnter(t) ==
    /\ pc[t] = "enter"
    /\ current' = [current EXCEPT ![t] = "master_pos"]
    /\ asleep' = asleep \cup {t}
    /\ owner' = [owner EXCEPT !["master_pos"] = Nobody]
    /\ Goto(t, "wait")
    /\ UNCHANGED <<kind, killed, mysys, lvars, pending, kvars>>

(* Woken with the mutex; the writer tests its condition again.               *)
Woken(t) ==
    LET m == kind[t] IN
    /\ pc[t] = "wait" /\ t \notin asleep /\ owner[m] = Nobody
    /\ IF m = "read_lock" /\ pending[m] /\ t \notin killed
         THEN asleep' = asleep \cup {t} /\ UNCHANGED <<pc, owner>>
         ELSE /\ Goto(t, "exit_cond") /\ UNCHANGED asleep
              /\ owner' = [owner EXCEPT ![m] = t]
    /\ UNCHANGED <<kind, killed, current, mysys, lvars, pending, kvars>>

(* exit_cond(), with the mutex of the condition still locked. *)
exit_cond(t) ==
    LET m == kind[t] IN
    /\ pc[t] = "exit_cond" /\ mysys[t] = Nobody
    /\ current' = [current EXCEPT ![t] = Nobody]
    /\ IF m = "read_lock"
         THEN Goto(t, "idle") /\ owner' = [owner EXCEPT ![m] = Nobody]
         ELSE Goto(t, "test") /\ UNCHANGED owner
    /\ UNCHANGED <<kind, killed, asleep, mysys, lvars, pending, kvars>>

(* UNLOCK TABLES by the owner of the global read lock, or an event that      *)
(* takes the slave to the position; and a new one to wait for.               *)
Reached(m) ==
    /\ pending[m] /\ owner[m] = Nobody
    /\ pending' = [pending EXCEPT ![m] = FALSE]
    /\ asleep' = Broadcast(m)
    /\ UNCHANGED <<pc, kind, killed, current, mysys, owner, lvars, kvars>>

Again(m) ==
    /\ ~pending[m] /\ owner[m] = Nobody
    /\ pending' = [pending EXCEPT ![m] = TRUE]
    /\ UNCHANGED <<pc, kind, killed, asleep, current, mysys, owner, lvars, kvars>>

-----------------------------------------------------------------------------
(* KILL: prepare_to_die() under LOCK_thread_count, which keeps the victim    *)
(* from going away.                                                          *)

(* The flag is set without any mutex. *)
Kill(t) ==
    /\ kpc = "idle" /\ t \notin killed
    /\ pc[t] # "idle" /\ kind[t] \in Killable
    /\ killed' = killed \cup {t}
    /\ victim' = t
    /\ kpc' = "mysys"
    /\ UNCHANGED <<pc, kind, asleep, current, mysys, owner, lvars, pending>>

(* mysys_var->mutex is kept while current_mutex is waited for. *)
KillLock ==
    /\ kpc = "mysys" /\ mysys[victim] = Nobody
    /\ IF current[victim] = Nobody
         THEN kpc' = "idle" /\ victim' = Nobody /\ UNCHANGED mysys
         ELSE /\ mysys' = [mysys EXCEPT ![victim] = Killer]
              /\ kpc' = "broadcast" /\ UNCHANGED victim
    /\ UNCHANGED <<pc, kind, killed, asleep, current, owner, lvars, pending>>

(* The thread has left the loop of GET_LOCK() without the lock, so it is not *)
(* in count any more, but current_cond is still the condition of the lock.   *)
Left(t) == pc[t] = "lock_exit" /\ thd_ull[t] # current[t]

(* Mutant for KilledLeaves: the killer signals the condition. *)
KillSignal ==
    LET cv == current[victim] IN
    /\ kpc = "broadcast"
    /\ cv \in Mutex => owner[cv] = Nobody
    /\ asleep' \in Signal(cv)
    /\ mysys' = [mysys EXCEPT ![victim] = Nobody]
    /\ kpc' = "idle" /\ victim' = Nobody
    /\ UNCHANGED <<pc, kind, killed, current, owner, lvars, pending>>

(* When the victim is in count no more the lock may have been deleted, and   *)
(* its memory be free or that of another lock: the broadcast wakes whoever   *)
(* waits there now, or nobody (a build in which it crashes is left out).     *)
KillBroadcast ==
    LET cv == current[victim] IN
    /\ kpc = "broadcast"
    /\ cv \in Mutex => owner[cv] = Nobody
    /\ IF Left(victim) THEN asleep' \in {Broadcast(n) : n \in Name} \cup {asleep}
                       ELSE asleep' = Broadcast(cv)
    /\ mysys' = [mysys EXCEPT ![victim] = Nobody]
    /\ kpc' = "idle" /\ victim' = Nobody
    /\ UNCHANGED <<pc, kind, killed, current, owner, lvars, pending>>

-----------------------------------------------------------------------------
ThreadStep(t) ==
    \/ LockWoken(t) \/ LockExit(t) \/ PosTest(t) \/ PosEnter(t) \/ Woken(t)
    \/ exit_cond(t)

KillerStep == KillLock \/ KillBroadcast

Next ==
    \/ \E t \in Thread :
          \/ \E n \in Name : get_lock(t, n) \/ release_lock(t, n)
          \/ wait_if_global_read_lock(t) \/ wait_for_pos(t)
          \/ LockTimeOut(t) \/ Disconnect(t) \/ ThreadStep(t) \/ Kill(t)
    \/ KillerStep
    \/ \E m \in Mutex : Reached(m) \/ Again(m)

Spec == Init /\ [][Next]_vars

(* Threads run and mutexes are granted in turn.  Nothing makes a statement   *)
(* begin or end, a timeout expire (the user gives it), the global read lock  *)
(* go away or the slave get on.                                              *)
Fairness ==
    /\ \A t \in Thread : SF_vars(ThreadStep(t))
    /\ SF_vars(KillerStep)

FairSpec == Spec /\ Fairness

-----------------------------------------------------------------------------
(* Properties.                                                               *)

(* The types of the variables; a lock never has more users than there are    *)
(* threads.                                                                  *)
TypeOK ==
    /\ pc \in [Thread -> ThreadPc]
    /\ kind \in [Thread -> Kind]
    /\ killed \subseteq Thread /\ asleep \subseteq Thread
    /\ current \in [Thread -> Cond \cup {Nobody}]
    /\ mysys \in [Thread -> {Killer, Nobody}]
    /\ owner \in [Mutex -> Thread \cup {Nobody}]
    /\ ull \in [Name -> [exists : BOOLEAN, locked : BOOLEAN,
                         count : 0 .. Cardinality(Thread),
                         thread : Thread \cup {Nobody}]]
    /\ thd_ull \in [Thread -> Name \cup {Nobody}]
    /\ pending \in [Mutex -> BOOLEAN]
    /\ kpc \in {"idle", "mysys", "broadcast"}
    /\ victim \in Thread \cup {Nobody}

Waiting(n) == {t \in Thread : pc[t] = "lock_wait" /\ current[t] = n}
Owner(n) == {t \in Thread : thd_ull[t] = n}

(* Besides the types, the table of locks and thd->ull agree: a lock that is  *)
(* locked has one owner, count is the owner and the threads in the loop of   *)
(* GET_LOCK(), and the last of those frees the lock and no other.  A KILL is *)
(* not counted: the condition it finds in current_cond is that of a lock     *)
(* which exists, unless the victim has Left, which has given LOCK_user_locks *)
(* back (item_func.cc:1624) and not yet cleared current_cond (1628); then    *)
(* the owner may have deleted the lock (1435) that sql_class.cc:235 wakes.   *)
CountRight ==
    /\ TypeOK
    /\ \A n \in Name :
           /\ Cardinality(Owner(n)) = (IF ull[n].locked THEN 1 ELSE 0)
           /\ ull[n].locked => Owner(n) = {ull[n].thread}
           /\ ull[n].count = Cardinality(Waiting(n)) + Cardinality(Owner(n))
           /\ ull[n].exists <=> ull[n].count > 0
    /\ \A t \in Thread : current[t] \in Name => ull[current[t]].exists \/ Left(t)

(* A released lock that has waiters is never forgotten: one of them is awake *)
(* and will take it, however signals, timeouts, kills and newcomers, which   *)
(* go to sleep without looking at the lock, are interleaved.                 *)
NoLostSignal ==
    \A n \in Name : ull[n].exists /\ ~ull[n].locked => Waiting(n) \ asleep # {}

(* "GET_LOCK() will abort with NULL" (Docs/manual.texi:18774): a thread that *)
(* is killed in GET_LOCK() gets out of it, at whatever point between its     *)
(* test of the flag and its sleep the KILL comes.                            *)
KilledLeaves ==
    \A t \in Thread : t \in killed /\ pc[t] = "lock_wait" ~> pc[t] # "lock_wait"

(* "mysys_var->current_mutex is always unlocked _before_ mysys_var->mutex is *)
(* locked (if that would not be the case, you'll get a deadlock" (the comment *)
(* of exit_cond() in mysql-5.0.15/sql/sql_class.h:1450), "We can't lock      *)
(* di->mutex and mysys_var->mutex at the same time" (sql/sql_insert.cc:1034): *)
(* the killer of a thread does not wait for a mutex whose owner waits for    *)
(* the killer.                                                               *)
NoKillDeadlock ==
    ~ \E t \in Thread :
        /\ pc[t] = "exit_cond" /\ mysys[t] = Killer
        /\ owner[kind[t]] = t
=============================================================================
