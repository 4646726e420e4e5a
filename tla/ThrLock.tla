------------------------------ MODULE ThrLock ------------------------------
(***************************************************************************)
(* The table-lock manager of mysys/thr_lock.c.                             *)
(*                                                                         *)
(* A table has one THR_LOCK with four lists of THR_LOCK_DATA: the granted  *)
(* read and write locks and the two wait queues.  A statement gets all its *)
(* locks with one thr_multi_lock, which sorts them and calls thr_lock on   *)
(* each, and frees them with thr_multi_unlock.  Every action below is one  *)
(* critical section of lock->mutex, or one step of a loop over a           *)
(* statement's locks.  Two things wake a thread that sleeps in             *)
(* wait_for_lock: another thread that resets data->cond (a grant, or       *)
(* thr_abort_locks), and KILL, which sets mysys_var->abort.                *)
(*                                                                         *)
(* The list of granted read locks is a set: nothing reads its order.  The  *)
(* other lists are sequences.  cond[d] stands for data->cond # 0.          *)
(***************************************************************************)
EXTENDS Integers, Sequences, FiniteSets, Functions, Lists

CONSTANTS
  Thread,              \* threads that call the lock manager
  Handler,             \* those of them that are INSERT DELAYED handler threads
  NoThread,            \* the "thread" of a lock instance no statement uses
  Lock,                \* the THR_LOCKs, as their addresses
  Data,                \* the lock instances (one per open table instance)
  LockOf,              \* data->lock
  Request,             \* per thread, what its statements may ask for: functions
                       \* from a set of lock instances to lock types
  UpgradedInsert,      \* thr_upgraded_concurrent_insert_lock
  HasCheckStatus,      \* is lock->check_status set (MyISAM: yes)
  MaxWriteLockCount,   \* max_write_lock_count
  Killable,            \* the threads a KILL may hit
  Aborter              \* the threads that may call thr_abort_locks

(* enum thr_lock_type *)
TL_UNLOCK                  == 0
TL_READ                    == 1
TL_READ_WITH_SHARED_LOCKS  == 2
TL_READ_HIGH_PRIORITY      == 3
TL_READ_NO_INSERT          == 4
TL_WRITE_ALLOW_WRITE       == 5
TL_WRITE_ALLOW_READ        == 6
TL_WRITE_CONCURRENT_INSERT == 7
TL_WRITE_DELAYED           == 8
TL_WRITE_LOW_PRIORITY      == 9
TL_WRITE                   == 10
TL_WRITE_ONLY              == 11

LockType  == TL_UNLOCK .. TL_WRITE_ONLY
ReadType  == TL_READ .. TL_READ_NO_INSERT
WriteType == TL_WRITE_ALLOW_WRITE .. TL_WRITE
ConcurrentInsertOnly == {TL_WRITE_CONCURRENT_INSERT}    \* mutant: one type missing
NeedsNoInsertBlock == {TL_WRITE_CONCURRENT_INSERT, TL_WRITE_ALLOW_WRITE}

(* What the callers guarantee: the delayed handler locks its one table with  *)
(* TL_WRITE_DELAYED, no other thread uses that type, and a statement that    *)
(* locks a table twice for writing (LOCK TABLES with aliases) asks for types *)
(* that thr_lock can give together: INSERT and ALTER TABLE have one target   *)
(* ("this will never happen within MySQL", thr_lock).                        *)
ASSUME ThrLockAssumption ==
  /\ Handler \subseteq Thread
  /\ Killable \subseteq Thread \ Handler
  /\ Aborter \subseteq Thread \ Handler
  /\ NoThread \notin Thread
  /\ Lock \subseteq Nat
  /\ IsFiniteSet(Data)
  /\ LockOf \in [Data -> Lock]
  /\ UpgradedInsert \in {TL_WRITE, TL_WRITE_LOW_PRIORITY}
  /\ HasCheckStatus \in BOOLEAN
  /\ MaxWriteLockCount \in Nat
  /\ \A t \in Thread : \A req \in Request[t] :
       /\ DOMAIN req \in (SUBSET Data) \ {{}}
       /\ req \in [DOMAIN req -> ReadType \cup WriteType]
       /\ t \in Handler => /\ Cardinality(DOMAIN req) = 1
                           /\ \A d \in DOMAIN req : req[d] = TL_WRITE_DELAYED
       /\ t \notin Handler => \A d \in DOMAIN req : req[d] # TL_WRITE_DELAYED
       /\ \A c, d \in DOMAIN req :
            /\ c # d /\ LockOf[c] = LockOf[d]
            /\ req[c] \in WriteType /\ req[d] \in WriteType
            => {req[c], req[d]} \in {{TL_WRITE_ALLOW_WRITE}, {TL_WRITE_LOW_PRIORITY},
                                     {TL_WRITE}, {TL_WRITE_LOW_PRIORITY, TL_WRITE}}

VARIABLES
  read, read_wait, write, write_wait,    \* the four lists of each lock
  write_lock_count, read_no_write_count, \* its two counters
  type, cond, thread,                    \* the fields of a lock instance
  plan,     \* the array of a statement's lock instances, as sorted
  pos,      \* the index of its loop over that array
  pc,       \* what its thread does
  abort     \* mysys_var->abort

lists   == <<read, read_wait, write, write_wait>>
counts  == <<write_lock_count, read_no_write_count>>
locks   == <<lists, counts, type, cond>>
control == <<plan, pos, pc, abort, thread>>
vars    == <<read, read_wait, write, write_wait, write_lock_count,
             read_no_write_count, type, cond, thread, plan, pos, pc, abort>>

-----------------------------------------------------------------------------
(* Lists. *)

Without(s, d) == SubList(s, Data \ {d})

(* The type of the first instance of a list, TL_UNLOCK for an empty one. *)
HeadType(s) == IF s = <<>> THEN TL_UNLOCK ELSE type[Head(s)]

OfType(S, ty) == {d \in S : type[d] = ty}

Active(l) == read[l] \cup Range(write[l])

-----------------------------------------------------------------------------
Init ==
  /\ read       = [l \in Lock |-> {}]
  /\ read_wait  = [l \in Lock |-> <<>>]
  /\ write      = [l \in Lock |-> <<>>]
  /\ write_wait = [l \in Lock |-> <<>>]
  /\ write_lock_count    = [l \in Lock |-> 0]
  /\ read_no_write_count = [l \in Lock |-> 0]
  /\ type   = [d \in Data |-> TL_UNLOCK]
  /\ cond   = [d \in Data |-> FALSE]
  /\ thread = [d \in Data |-> NoThread]
  /\ plan  = [t \in Thread |-> <<>>]
  /\ pos   = [t \in Thread |-> 1]
  /\ pc    = [t \in Thread |-> "idle"]
  /\ abort = [t \in Thread |-> FALSE]

-----------------------------------------------------------------------------
(* thr_multi_lock: the statement's table instances, with the types the       *)
(* handlers' store_lock gave them, sorted by LOCK_CMP.                       *)

(* LOCK_CMP subtracts the type from the address of a structure that is       *)
(* larger than any type, so it orders by address and then by falling type.   *)
LOCK_CMP_by_type(a, b, ty) == ty[a] > ty[b]    \* mutant: no order of locks
LOCK_CMP(a, b, ty) ==
  \/ LockOf[a] < LockOf[b]
  \/ LockOf[a] = LockOf[b] /\ ty[a] > ty[b]

SortedPlan(s, ty) == \A i, j \in DOMAIN s : i < j => ~ LOCK_CMP(s[j], s[i], ty)

thr_multi_lock(t) ==
  /\ pc[t] = "idle"
  /\ \E req \in Request[t] :
       /\ \A d \in DOMAIN req : thread[d] = NoThread
       /\ type' = [d \in Data |-> IF d \in DOMAIN req THEN req[d] ELSE type[d]]
       /\ thread' = [d \in Data |-> IF d \in DOMAIN req THEN t ELSE thread[d]]
       /\ \E s \in Bijection(1 .. Cardinality(DOMAIN req), DOMAIN req) :
            /\ SortedPlan(s, req)
            /\ plan' = [plan EXCEPT ![t] = s]
  /\ pos' = [pos EXCEPT ![t] = 1]
  /\ pc' = [pc EXCEPT ![t] = "lock"]
  /\ UNCHANGED <<lists, counts, cond, abort>>

(* The instance the thread's loop is at. *)
This(t) == plan[t][pos[t]]

(* The outcomes of a thr_lock call for the loop in thr_multi_lock. *)
Locked(t) ==
  /\ IF pos[t] < Len(plan[t])
     THEN /\ pos' = [pos EXCEPT ![t] = @ + 1]
          /\ pc' = [pc EXCEPT ![t] = "lock"]
     ELSE /\ pos' = [pos EXCEPT ![t] = 1]
          /\ pc' = [pc EXCEPT ![t] = "run"]
  /\ UNCHANGED plan

Failed_one_short(t) ==    \* mutant: forgets the last lock it got
  /\ plan' = [plan EXCEPT ![t] = SubSeq(@, 1, pos[t] - 2)]
  /\ pos' = [pos EXCEPT ![t] = 1]
  /\ pc' = [pc EXCEPT ![t] = "unlock"]

Failed(t) ==
  /\ plan' = [plan EXCEPT ![t] = SubSeq(@, 1, pos[t] - 1)]
  /\ pos' = [pos EXCEPT ![t] = 1]
  /\ pc' = [pc EXCEPT ![t] = "unlock"]

-----------------------------------------------------------------------------
(* thr_lock *)

(* A read lock can join the write lock that is active. *)
ReadJoinsAnyInsert(d, w) ==    \* mutant: TL_READ_NO_INSERT is like the others
  thread[d] = thread[Head(w)] \/ HeadType(w) <= TL_WRITE_DELAYED

ReadJoinsLowPriority(d, w) ==    \* mutant: one type too many
  \/ thread[d] = thread[Head(w)]
  \/ HeadType(w) \in {TL_WRITE_DELAYED, TL_WRITE_LOW_PRIORITY}

ReadJoinsWrite(d, w) ==
  \/ thread[d] = thread[Head(w)]
  \/ /\ HeadType(w) <= TL_WRITE_DELAYED
     /\ \/ type[d] <= TL_READ_HIGH_PRIORITY
        \/ HeadType(w) \notin {TL_WRITE_CONCURRENT_INSERT, TL_WRITE_ALLOW_READ}

have_old_read_lock(l, t) == \E r \in read[l] : thread[r] = t

MayReadBeforeWriters(d) ==    \* mutant: waiting writers do not stop readers
  LET l == LockOf[d] IN write[l] # <<>> => ReadJoinsWrite(d, write[l])

MayRead(d) ==
  LET l == LockOf[d]
  IN  IF write[l] # <<>> THEN ReadJoinsWrite(d, write[l])
      ELSE \/ HeadType(write_wait[l]) <= TL_WRITE_LOW_PRIORITY
           \/ type[d] = TL_READ_HIGH_PRIORITY
           \/ have_old_read_lock(l, thread[d])

WriteOnlyActive(l) == HeadType(write[l]) = TL_WRITE_ONLY

(* TL_WRITE_DELAYED is queued and its owner goes on, unless ALTER TABLE has  *)
(* or waits for the table or the table is free.                              *)
QueueDelayed(d) ==
  LET l == LockOf[d]
  IN  /\ type[d] = TL_WRITE_DELAYED
      /\ ~ WriteOnlyActive(l)
      /\ HeadType(write[l]) # TL_WRITE_ALLOW_READ
      /\ OfType(Range(write_wait[l]), TL_WRITE_ALLOW_READ) = {}
      /\ Active(l) # {}

(* The type a write request is treated with.  hole is what check_status      *)
(* returns: a concurrent insert is not possible.                             *)
EffectiveType(d, hole) ==
  LET l == LockOf[d]
  IN  IF /\ type[d] = TL_WRITE_CONCURRENT_INSERT
         /\ \/ ~ HasCheckStatus
            \/ write[l] = <<>> /\ write_wait[l] = <<>> /\ hole
      THEN UpgradedInsert ELSE type[d]

MayWrite(d, ty) ==
  LET l == LockOf[d]
  IN  IF write[l] # <<>>
      THEN \/ thread[d] = thread[Head(write[l])]
           \/ /\ ty = TL_WRITE_ALLOW_WRITE
              /\ write_wait[l] = <<>>
              /\ HeadType(write[l]) = TL_WRITE_ALLOW_WRITE
      ELSE /\ write_wait[l] = <<>>
           /\ \/ read[l] = {}
              \/ /\ ty <= TL_WRITE_DELAYED
                 /\ ty \in NeedsNoInsertBlock => read_no_write_count[l] = 0

IsRead(d) == type[d] <= TL_READ_NO_INSERT

(* The request is granted at once. *)
thr_lock_read(t) ==
  LET d == This(t)  l == LockOf[d]
  IN  /\ pc[t] = "lock"
      /\ IsRead(d) /\ MayRead(d)
      /\ read' = [read EXCEPT ![l] = @ \cup {d}]
      /\ read_no_write_count' = IF type[d] = TL_READ_NO_INSERT
                                THEN [read_no_write_count EXCEPT ![l] = @ + 1]
                                ELSE read_no_write_count
      /\ cond' = [cond EXCEPT ![d] = FALSE]
      /\ Locked(t)
      /\ UNCHANGED <<read_wait, write, write_wait, write_lock_count, type,
                     thread, abort>>

thr_lock_write(t) ==
  LET d == This(t)  l == LockOf[d]
  IN  /\ pc[t] = "lock"
      /\ ~ IsRead(d) /\ ~ QueueDelayed(d) /\ ~ WriteOnlyActive(l)
      /\ \E hole \in BOOLEAN :
           /\ MayWrite(d, EffectiveType(d, hole))
           /\ type' = [type EXCEPT ![d] = EffectiveType(d, hole)]
      /\ write' = [write EXCEPT ![l] = Append(@, d)]
      /\ cond' = [cond EXCEPT ![d] = FALSE]
      /\ Locked(t)
      /\ UNCHANGED <<read, read_wait, write_wait, counts, thread, abort>>

thr_lock_delayed(t) ==
  LET d == This(t)  l == LockOf[d]
  IN  /\ pc[t] = "lock"
      /\ QueueDelayed(d)
      /\ write_wait' = [write_wait EXCEPT ![l] = Append(@, d)]
      /\ cond' = [cond EXCEPT ![d] = TRUE]
      /\ Locked(t)
      /\ UNCHANGED <<read, read_wait, write, counts, type, thread, abort>>

(* The request cannot be granted and cannot wait: the active lock is being   *)
(* aborted, or the thread was killed (wait_for_lock then takes the instance  *)
(* off the queue it has just put it on).                                     *)
Refused(d) ==
  /\ ~ QueueDelayed(d)
  /\ \/ /\ WriteOnlyActive(LockOf[d])
        /\ IsRead(d) => ~ MayRead(d)
     \/ /\ abort[thread[d]]
        /\ IF IsRead(d) THEN ~ MayRead(d)
           ELSE \E hole \in BOOLEAN : ~ MayWrite(d, EffectiveType(d, hole))

thr_lock_refused(t) ==
  LET d == This(t)
  IN  /\ pc[t] = "lock"
      /\ Refused(d)
      /\ type' = [type EXCEPT ![d] = TL_UNLOCK]
      /\ cond' = [cond EXCEPT ![d] = ~ WriteOnlyActive(LockOf[d])]
      /\ Failed(t)
      /\ UNCHANGED <<lists, counts, thread, abort>>

(* wait_for_lock, up to the pthread_cond_wait that releases lock->mutex. *)
thr_lock_wait(t) ==
  LET d == This(t)  l == LockOf[d]
  IN  /\ pc[t] = "lock"
      /\ ~ QueueDelayed(d) /\ ~ WriteOnlyActive(l) /\ ~ abort[t]
      /\ \/ /\ IsRead(d) /\ ~ MayRead(d)
            /\ read_wait' = [read_wait EXCEPT ![l] = Append(@, d)]
            /\ UNCHANGED <<write_wait, type>>
         \/ /\ ~ IsRead(d)
            /\ \E hole \in BOOLEAN :
                 /\ ~ MayWrite(d, EffectiveType(d, hole))
                 /\ type' = [type EXCEPT ![d] = EffectiveType(d, hole)]
            /\ write_wait' = [write_wait EXCEPT ![l] = Append(@, d)]
            /\ UNCHANGED read_wait
      /\ cond' = [cond EXCEPT ![d] = TRUE]
      /\ pc' = [pc EXCEPT ![t] = "wait"]
      /\ UNCHANGED <<read, write, counts, thread, plan, pos, abort>>

-----------------------------------------------------------------------------
(* wait_for_lock, after the thread woke up. *)

(* The thread that reset data->cond granted the lock ... *)
wait_granted_untested(t) ==    \* mutant: any wake-up counts as a grant
  /\ pc[t] = "wait" /\ type[This(t)] # TL_UNLOCK
  /\ Locked(t)
  /\ UNCHANGED <<locks, thread, abort>>

wait_granted(t) ==
  /\ pc[t] = "wait"
  /\ ~ cond[This(t)] /\ type[This(t)] # TL_UNLOCK
  /\ Locked(t)
  /\ UNCHANGED <<locks, thread, abort>>

(* ... or was in thr_abort_locks. *)
wait_aborted(t) ==
  /\ pc[t] = "wait"
  /\ ~ cond[This(t)] /\ type[This(t)] = TL_UNLOCK
  /\ Failed(t)
  /\ UNCHANGED <<locks, thread, abort>>

(* The thread was killed: it leaves the queue, and wakes nobody. *)
wait_killed_queued(t) ==    \* mutant: stays on the queue
  /\ pc[t] = "wait" /\ cond[This(t)] /\ abort[t]
  /\ type' = [type EXCEPT ![This(t)] = TL_UNLOCK]
  /\ Failed(t)
  /\ UNCHANGED <<lists, counts, cond, thread, abort>>

wait_killed(t) ==
  LET d == This(t)  l == LockOf[d]
  IN  /\ pc[t] = "wait"
      /\ cond[d] /\ abort[t]
      /\ read_wait' = [read_wait EXCEPT ![l] = Without(@, d)]
      /\ write_wait' = [write_wait EXCEPT ![l] = Without(@, d)]
      /\ type' = [type EXCEPT ![d] = TL_UNLOCK]
      /\ Failed(t)
      /\ UNCHANGED <<read, write, counts, cond, thread, abort>>

-----------------------------------------------------------------------------
(* thr_unlock and free_all_read_locks *)

(* The lists of d's lock without d. *)
RestRead(d)      == read[LockOf[d]] \ {d}
RestWrite(d)     == Without(write[LockOf[d]], d)
RestWriteWait(d) == Without(write_wait[LockOf[d]], d)

NoInsertBlocks(d) ==
  read_no_write_count[LockOf[d]] - (IF type[d] = TL_READ_NO_INSERT THEN 1 ELSE 0)

(* The waiting readers free_all_read_locks lets in. *)
FreedReads(l, using_concurrent_insert) ==
  {r \in Range(read_wait[l]) :
     using_concurrent_insert => type[r] # TL_READ_NO_INSERT}

(* The writers that get the lock together when the head of queue ww does. *)
GrantedWritesAll(ww) ==    \* mutant: does not stop at another type
  IF HeadType(ww) = TL_WRITE_ALLOW_WRITE THEN Range(ww) ELSE {Head(ww)}

GrantedWrites(ww) ==
  IF HeadType(ww) = TL_WRITE_ALLOW_WRITE
  THEN {ww[i] : i \in {j \in DOMAIN ww : \A k \in 1 .. j :
                         type[ww[k]] = TL_WRITE_ALLOW_WRITE}}
  ELSE {Head(ww)}

(* Instance d leaves its list, writers W and readers R get the lock, and the *)
(* two counters follow: the head of the write queue may change its type.     *)
HandOver(d, W, R, newcount) ==
  LET l == LockOf[d]
  IN  /\ write' = [write EXCEPT ![l] = Without(@, d) \o SubList(write_wait[l], W)]
      /\ write_wait' = [write_wait EXCEPT ![l] = SubList(@, Data \ (W \cup {d}))]
      /\ read' = [read EXCEPT ![l] = (@ \ {d}) \cup R]
      /\ read_wait' = [read_wait EXCEPT ![l] = SubList(@, Data \ R)]
      /\ read_no_write_count' =
           [read_no_write_count EXCEPT
              ![l] = NoInsertBlocks(d) + Cardinality(OfType(R, TL_READ_NO_INSERT))]
      /\ write_lock_count' =
           [write_lock_count EXCEPT
              ![l] = IF read_wait[l] # <<>> /\ R = Range(read_wait[l])
                     THEN 0 ELSE newcount]
      /\ cond' = [x \in Data |-> cond[x] /\ x \notin W \cup R]

(* Waiting writers come first when the table becomes free. *)
WritesFirst(d) ==
  LET ww == RestWriteWait(d)  rw == read_wait[LockOf[d]]
  IN  /\ ww # <<>>
      /\ \/ HeadType(ww) # TL_WRITE_LOW_PRIORITY
         \/ HeadType(rw) < TL_READ_HIGH_PRIORITY

TooManyWritesLate(l) == write_lock_count[l] > MaxWriteLockCount + 1    \* mutant
TooManyWrites(l) == write_lock_count[l] > MaxWriteLockCount

FreesTable(d) == RestWrite(d) = <<>> /\ RestRead(d) = {}
LeavesReads(d) == RestWrite(d) = <<>> /\ RestRead(d) # {}

GivesWrites(d) ==
  /\ FreesTable(d) /\ WritesFirst(d)
  /\ TooManyWrites(LockOf[d]) => read_wait[LockOf[d]] = <<>>

GivesReads(d) ==
  /\ read_wait[LockOf[d]] # <<>>
  /\ \/ FreesTable(d) /\ (WritesFirst(d) => TooManyWrites(LockOf[d]))
     \/ LeavesReads(d) /\ RestWriteWait(d) = <<>>

(* A waiting writer that admits readers can start beside those that are left. *)
AddsWrites(d) ==
  /\ LeavesReads(d)
  /\ RestWriteWait(d) # <<>>
  /\ HeadType(RestWriteWait(d)) <= TL_WRITE_DELAYED
  /\ HeadType(RestWriteWait(d)) \in NeedsNoInsertBlock => NoInsertBlocks(d) = 0

unlock_gives_nothing(d) ==
  /\ ~ GivesWrites(d) /\ ~ GivesReads(d) /\ ~ AddsWrites(d)
  /\ HandOver(d, {}, {}, write_lock_count[LockOf[d]])
  /\ type' = [type EXCEPT ![d] = TL_UNLOCK]

unlock_gives_reads(d) ==
  /\ GivesReads(d)
  /\ HandOver(d, {}, FreedReads(LockOf[d], FALSE), 0)
  /\ type' = [type EXCEPT ![d] = TL_UNLOCK]

unlock_gives_writes(d) ==
  LET l == LockOf[d]  h == Head(RestWriteWait(d))
  IN  /\ GivesWrites(d)
      /\ \E hole \in BOOLEAN :
           LET ty == IF type[h] = TL_WRITE_CONCURRENT_INSERT /\ hole
                     THEN TL_WRITE ELSE type[h]
           IN  /\ HandOver(d, GrantedWrites(RestWriteWait(d)),
                           IF ty >= TL_WRITE_LOW_PRIORITY THEN {}
                           ELSE FreedReads(l, ty \in NeedsNoInsertBlock),
                           IF TooManyWrites(l) THEN 0 ELSE write_lock_count[l] + 1)
               /\ type' = [type EXCEPT ![d] = TL_UNLOCK, ![h] = ty]

unlock_adds_writes(d) ==
  LET l == LockOf[d]  h == Head(RestWriteWait(d))
  IN  /\ AddsWrites(d)
      /\ \/ /\ HandOver(d, GrantedWrites(RestWriteWait(d)),
                        FreedReads(l, type[h] \in NeedsNoInsertBlock),
                        write_lock_count[l])
            /\ type' = [type EXCEPT ![d] = TL_UNLOCK]
         \/ /\ type[h] = TL_WRITE_CONCURRENT_INSERT    \* and check_status fails
            /\ HandOver(d, {}, FreedReads(l, FALSE), write_lock_count[l])
            /\ type' = [type EXCEPT ![d] = TL_UNLOCK, ![h] = TL_WRITE]

thr_unlock(t) ==
  LET d == This(t)
  IN  /\ pc[t] = "unlock" /\ pos[t] <= Len(plan[t])
      /\ type[d] # TL_UNLOCK
      /\ \/ unlock_gives_nothing(d)
         \/ unlock_gives_reads(d)
         \/ unlock_gives_writes(d)
         \/ unlock_adds_writes(d)
      /\ pos' = [pos EXCEPT ![t] = @ + 1]
      /\ UNCHANGED <<plan, pc, abort, thread>>

(* thr_multi_unlock skips the instances thr_abort_locks has taken away. *)
skip_unlock(t) ==
  /\ pc[t] = "unlock" /\ pos[t] <= Len(plan[t])
  /\ type[This(t)] = TL_UNLOCK
  /\ pos' = [pos EXCEPT ![t] = @ + 1]
  /\ UNCHANGED <<locks, plan, pc, abort, thread>>

-----------------------------------------------------------------------------
(* thr_abort_locks, called by a statement on a table it has locked *)
thr_abort_reads(t) ==    \* mutant: wakes the readers only
  \E l \in {LockOf[d] : d \in {x \in Range(plan[t]) : type[x] # TL_UNLOCK}} :
    /\ pc[t] = "run"
    /\ type' = [d \in Data |-> IF d \in Range(read_wait[l]) THEN TL_UNLOCK
                               ELSE type[d]]
    /\ cond' = [d \in Data |-> cond[d] /\ d \notin Range(read_wait[l])]
    /\ read_wait' = [read_wait EXCEPT ![l] = <<>>]
    /\ write_wait' = [write_wait EXCEPT ![l] = <<>>]
    /\ UNCHANGED <<read, write, counts, control>>

thr_abort_locks(t) ==
  \E l \in {LockOf[d] : d \in {x \in Range(plan[t]) : type[x] # TL_UNLOCK}} :
    LET waiting == Range(read_wait[l]) \cup Range(write_wait[l])
        closed  == IF write[l] = <<>> THEN {} ELSE {Head(write[l])}
    IN  /\ pc[t] = "run"
        /\ type' = [d \in Data |-> IF d \in waiting THEN TL_UNLOCK
                                   ELSE IF d \in closed THEN TL_WRITE_ONLY
                                   ELSE type[d]]
        /\ cond' = [d \in Data |-> cond[d] /\ d \notin waiting]
        /\ read_wait' = [read_wait EXCEPT ![l] = <<>>]
        /\ write_wait' = [write_wait EXCEPT ![l] = <<>>]
        /\ UNCHANGED <<read, write, counts, control>>

-----------------------------------------------------------------------------
(* The delayed handler: thr_upgrade_write_delay_lock and                     *)
(* thr_reschedule_write_lock, as handle_inserts calls them.  It inserts rows *)
(* when pc is "insert".  A failed upgrade ends it, a failed reschedule does  *)
(* not.                                                                      *)

Upgraded(t) == pc' = [pc EXCEPT ![t] = "insert"]

NotUpgraded(t) ==
  /\ pc' = [pc EXCEPT ![t] = IF @ \in {"run", "upgrade"} THEN "unlock" ELSE "insert"]

MustUpgrade(d) == type[d] \notin {TL_UNLOCK} \cup TL_WRITE_LOW_PRIORITY .. TL_WRITE_ONLY

upgrade_done(t) ==
  LET d == This(t)
  IN  /\ t \in Handler /\ pc[t] \in {"run", "reschedule"}
      /\ ~ MustUpgrade(d)
      /\ IF type[d] = TL_UNLOCK THEN NotUpgraded(t) ELSE Upgraded(t)
      /\ UNCHANGED <<locks, plan, pos, abort, thread>>

upgrade_beside_reads(t) ==    \* mutant: does not wait for the readers
  /\ t \in Handler /\ pc[t] \in {"run", "reschedule"}
  /\ MustUpgrade(This(t)) /\ ~ cond[This(t)]
  /\ type' = [type EXCEPT ![This(t)] = TL_WRITE]
  /\ Upgraded(t)
  /\ UNCHANGED <<lists, counts, cond, plan, pos, abort, thread>>

upgrade_at_once(t) ==
  LET d == This(t)
  IN  /\ t \in Handler /\ pc[t] \in {"run", "reschedule"}
      /\ MustUpgrade(d) /\ ~ cond[d] /\ read[LockOf[d]] = {}
      /\ type' = [type EXCEPT ![d] = TL_WRITE]
      /\ Upgraded(t)
      /\ UNCHANGED <<lists, counts, cond, plan, pos, abort, thread>>

upgrade_wait(t) ==
  LET d == This(t)  l == LockOf[d]
  IN  /\ t \in Handler /\ pc[t] \in {"run", "reschedule"}
      /\ MustUpgrade(d)
      /\ \/ /\ cond[d]
            /\ UNCHANGED <<write, write_wait>>
         \/ /\ ~ cond[d] /\ read[l] # {}
            /\ write' = [write EXCEPT ![l] = Without(@, d)]
            /\ write_wait' = [write_wait EXCEPT ![l] = <<d>> \o @]
      /\ type' = [type EXCEPT ![d] = TL_WRITE]
      /\ cond' = [cond EXCEPT ![d] = TRUE]
      /\ pc' = [pc EXCEPT ![t] = IF @ = "run" THEN "upgrade" ELSE "reupgrade"]
      /\ UNCHANGED <<read, read_wait, counts, plan, pos, abort, thread>>

(* wait_for_lock with in_wait_list set: KILL does not end it. *)
upgrade_woken(t) ==
  /\ pc[t] \in {"upgrade", "reupgrade"}
  /\ ~ cond[This(t)]
  /\ IF type[This(t)] = TL_UNLOCK THEN NotUpgraded(t) ELSE Upgraded(t)
  /\ UNCHANGED <<locks, plan, pos, abort, thread>>

(* Called on an instance that thr_abort_locks has taken away, the code would *)
(* unlink it through stale pointers: the guard keeps the model out of that.  *)
thr_reschedule_write_lock(t) ==
  LET d == This(t)  l == LockOf[d]
  IN  /\ pc[t] = "insert" /\ type[d] # TL_UNLOCK
      /\ read_wait[l] # <<>>
      /\ type' = [type EXCEPT ![d] = TL_WRITE_DELAYED]
      /\ write' = [write EXCEPT ![l] = Without(@, d)]
      /\ write_wait' = [write_wait EXCEPT ![l] = <<d>> \o @]
      /\ read' = [read EXCEPT ![l] = @ \cup Range(read_wait[l])]
      /\ read_wait' = [read_wait EXCEPT ![l] = <<>>]
      /\ read_no_write_count' =
           [read_no_write_count EXCEPT
              ![l] = @ + Cardinality(OfType(Range(read_wait[l]), TL_READ_NO_INSERT))]
      /\ write_lock_count' = [write_lock_count EXCEPT ![l] = 0]
      /\ cond' = [x \in Data |-> \/ x = d
                                 \/ cond[x] /\ x \notin Range(read_wait[l])]
      /\ pc' = [pc EXCEPT ![t] = "reschedule"]
      /\ UNCHANGED <<plan, pos, abort, thread>>

inserts_done(t) ==
  /\ pc[t] = "insert"
  /\ pc' = [pc EXCEPT ![t] = "run"]
  /\ UNCHANGED <<locks, plan, pos, abort, thread>>

-----------------------------------------------------------------------------
(* The callers. *)

(* The statement is done with its tables: mysql_unlock_tables. *)
run_done(t) ==
  /\ pc[t] = "run"
  /\ pc' = [pc EXCEPT ![t] = "unlock"]
  /\ UNCHANGED <<locks, plan, pos, abort, thread>>

(* The tables go back to the table cache; a killed connection ends. *)
statement_end(t) ==
  /\ pc[t] = "unlock" /\ pos[t] > Len(plan[t])
  /\ thread' = [d \in Data |-> IF thread[d] = t THEN NoThread ELSE thread[d]]
  /\ plan' = [plan EXCEPT ![t] = <<>>]
  /\ pos' = [pos EXCEPT ![t] = 1]
  /\ pc' = [pc EXCEPT ![t] = "idle"]
  /\ abort' = [abort EXCEPT ![t] = FALSE]
  /\ UNCHANGED locks

(* THD::prepare_to_die sets abort, except for system threads.  Only          *)
(* wait_for_lock reads it, so it matters no earlier and no later than here.  *)
kill(t) ==
  /\ pc[t] \in {"lock", "wait"} /\ ~ abort[t]
  /\ abort' = [abort EXCEPT ![t] = TRUE]
  /\ UNCHANGED <<locks, plan, pos, pc, thread>>

-----------------------------------------------------------------------------
(* What a thread does by itself once it has begun a statement. *)
Step(t) ==
  \/ thr_lock_read(t) \/ thr_lock_write(t) \/ thr_lock_delayed(t)
  \/ thr_lock_refused(t) \/ thr_lock_wait(t)
  \/ wait_granted(t) \/ wait_aborted(t) \/ wait_killed(t)
  \/ run_done(t) \/ thr_unlock(t) \/ skip_unlock(t) \/ statement_end(t)

Upgrade(t) ==
  \/ upgrade_done(t) \/ upgrade_at_once(t) \/ upgrade_wait(t) \/ upgrade_woken(t)
  \/ thr_reschedule_write_lock(t) \/ inserts_done(t)

Next ==
  \/ \E t \in Thread : thr_multi_lock(t) \/ Step(t)
  \/ \E t \in Handler : Upgrade(t)
  \/ \E t \in Aborter : thr_abort_locks(t)
  \/ \E t \in Killable : kill(t)

Spec == Init /\ [][Next]_vars

(* A thread that can go on does: the mutex is held for a bounded time, a     *)
(* signalled condition wakes its thread, and a statement ends.               *)
FairSpec == Spec /\ \A t \in Thread : WF_vars(Step(t))

-----------------------------------------------------------------------------
(* Properties. *)

PC == {"idle", "lock", "wait", "run", "unlock",
       "upgrade", "reupgrade", "reschedule", "insert"}

(* Every variable holds a value of its kind; write_lock_count is reset one   *)
(* step past max_write_lock_count.                                           *)
TypeOK ==
  /\ read \in [Lock -> SUBSET Data]
  /\ read_wait \in [Lock -> Seq(Data)]
  /\ write \in [Lock -> Seq(Data)]
  /\ write_wait \in [Lock -> Seq(Data)]
  /\ write_lock_count \in [Lock -> 0 .. MaxWriteLockCount + 1]
  /\ read_no_write_count \in [Lock -> Nat]
  /\ type \in [Data -> LockType]
  /\ cond \in [Data -> BOOLEAN]
  /\ thread \in [Data -> Thread \cup {NoThread}]
  /\ plan \in [Thread -> Seq(Data)]
  /\ pos \in [Thread -> Nat \ {0}]
  /\ pc \in [Thread -> PC]
  /\ abort \in [Thread -> BOOLEAN]

(* Two threads hold write locks on a table only if both asked for            *)
(* TL_WRITE_ALLOW_WRITE (or one of those is being aborted): check_lock's     *)
(* "Found locks from different threads in write".                            *)
WriteExclusion ==
  \A l \in Lock : \A a, b \in Range(write[l]) :
    thread[a] # thread[b] => type[a] \in {TL_WRITE_ALLOW_WRITE, TL_WRITE_ONLY}

(* A reader never runs beside another thread's write lock unless the write   *)
(* lock is of a kind that admits readers, and a TL_READ_NO_INSERT never      *)
(* beside a concurrent insert.  TL_WRITE_ONLY marks a lock that              *)
(* thr_abort_locks has closed.                                               *)
ReadersAdmitted ==
  \A l \in Lock : \A r \in read[l], w \in Range(write[l]) :
    thread[r] # thread[w] =>
      /\ type[w] \in TL_WRITE_ALLOW_WRITE .. TL_WRITE_DELAYED \cup {TL_WRITE_ONLY}
      /\ type[r] = TL_READ_NO_INSERT => type[w] # TL_WRITE_CONCURRENT_INSERT

(* check_locks' "lock that is write and read locked" (thr_lock.c:253-271),   *)
(* as far as the code keeps it.  check_locks forbids a TL_READ_NO_INSERT     *)
(* beside another thread's TL_WRITE_ALLOW_WRITE as well, and so does the     *)
(* comment of thr_lock (thr_lock.c:445); the test under that comment admits  *)
(* the pair all the same (thr_lock.c:451), so the pair does occur.  What     *)
(* holds of it is where it comes from: only a lock that joins an active      *)
(* TL_WRITE_ALLOW_WRITE makes it.  A writer that starts on a table without   *)
(* one, at once or handed over by thr_unlock, alone or with the waiting      *)
(* readers it lets in, never starts beside a TL_READ_NO_INSERT.              *)
SharedWriter(l) == \E v \in Range(write[l]) : type[v] = TL_WRITE_ALLOW_WRITE

StartsAlone ==
  \A l \in Lock : \A r \in read'[l], w \in Range(write'[l]) :
    /\ thread'[r] # thread'[w]
    /\ type'[r] = TL_READ_NO_INSERT
    /\ type'[w] = TL_WRITE_ALLOW_WRITE
    => SharedWriter(l)

ReadWriteExclusion == []ReadersAdmitted /\ [][StartsAlone]_vars

(* read_no_write_count is the number of TL_READ_NO_INSERT locks granted on   *)
(* the table, through grants, wake-ups in bulk, reschedules and releases.    *)
NoInsertCount ==
  \A l \in Lock :
    read_no_write_count[l] = Cardinality(OfType(read[l], TL_READ_NO_INSERT))

(* thr_unlock tells from type and cond alone which list's tail pointer to    *)
(* repair: every granted or queued instance is in that list, and in no other.*)
ListOf(d) ==
  IF type[d] \in ReadType THEN IF cond[d] THEN "read_wait" ELSE "read"
  ELSE IF cond[d] THEN "write_wait" ELSE "write"

InLists(d) ==
  LET l == LockOf[d]
  IN  (IF d \in read[l] THEN {"read"} ELSE {})
      \cup (IF d \in Range(read_wait[l]) THEN {"read_wait"} ELSE {})
      \cup (IF d \in Range(write[l]) THEN {"write"} ELSE {})
      \cup (IF d \in Range(write_wait[l]) THEN {"write_wait"} ELSE {})

ListsAgree ==
  \A d \in Data : \/ InLists(d) = {}
                  \/ InLists(d) = {ListOf(d)} /\ type[d] # TL_UNLOCK

(* A thread that finished a statement leaves nothing behind: every listed    *)
(* instance belongs to a thread whose statement still has to release it.     *)
NoLeak ==
  \A d \in Data : InLists(d) # {} =>
    \E t \in Thread : /\ thread[d] = t
                      /\ \E i \in DOMAIN plan[t] :
                           /\ plan[t][i] = d
                           /\ pc[t] = "unlock" => pos[t] <= i

(* A thread never sleeps with its lock granted and no wake-up pending, nor   *)
(* off the queues while its condition is armed.                              *)
WaiterIsQueued ==
  \A t \in Thread : pc[t] \in {"wait", "upgrade", "reupgrade"} =>
    (cond[This(t)] <=> InLists(This(t)) \cap {"read_wait", "write_wait"} # {})

(* No set of threads waits for itself: in every set of sleeping threads some *)
(* thread waits for a table a thread outside the set holds.  The order       *)
(* thr_multi_lock sorts the locks in is there for this.                      *)
Sleeping == {t \in Thread : /\ pc[t] \in {"wait", "upgrade", "reupgrade"}
                            /\ cond[This(t)]}

DeadlockFree ==
  \A S \in (SUBSET Sleeping) \ {{}} :
    \E t \in S : \E d \in Active(LockOf[This(t)]) : thread[d] \notin S

(* A statement that runs holds every lock it asked for: no release, wake-up, *)
(* reschedule or abort by another thread takes a granted lock away, and no   *)
(* wake-up comes without its lock.                                           *)
RunsLocked ==
  \A t \in Thread \ Handler : pc[t] = "run" =>
    \A d \in Data : thread[d] = t =>
      d \in Active(LockOf[d]) /\ type[d] # TL_UNLOCK

(* A delayed handler whose lock nobody aborted writes rows only under a       *)
(* granted exclusive write lock (handle_inserts, sql_insert.cc).             *)
InsertsLocked ==
  \A t \in Handler :
    pc[t] = "insert" /\ type[This(t)] \notin {TL_UNLOCK, TL_WRITE_ONLY} =>
    /\ This(t) \in Range(write[LockOf[This(t)]])
    /\ read[LockOf[This(t)]] = {}

-----------------------------------------------------------------------------
(* The inductive invariant behind the safety properties. *)

(* A list of a lock holds instances of that lock, whose type and condition   *)
(* say which list it is.                                                     *)
Placed ==
  \A l \in Lock, d \in Data :
    /\ d \in read[l] =>
         LockOf[d] = l /\ type[d] \in ReadType /\ ~ cond[d]
    /\ d \in Range(read_wait[l]) =>
         LockOf[d] = l /\ type[d] \in ReadType /\ cond[d]
    /\ d \in Range(write[l]) =>
         LockOf[d] = l /\ type[d] \in WriteType \cup {TL_WRITE_ONLY} /\ ~ cond[d]
    /\ d \in Range(write_wait[l]) =>
         LockOf[d] = l /\ type[d] \in WriteType /\ cond[d]

Listed(d) ==
  \/ d \in Active(LockOf[d])
  \/ d \in Range(read_wait[LockOf[d]]) \cup Range(write_wait[LockOf[d]])

Waiting(d) == d \in Range(read_wait[LockOf[d]]) \cup Range(write_wait[LockOf[d]])

(* Where a thread is in its loop over its plan. *)
Control ==
  \A t \in Thread :
    /\ pc[t] = "idle" => plan[t] = <<>> /\ \A d \in Data : thread[d] # t
    /\ pc[t] \in {"lock", "wait"} => pos[t] \in DOMAIN plan[t]
    /\ pc[t] \notin {"lock", "wait", "unlock"} => pos[t] = 1
    /\ pc[t] \in {"upgrade", "reupgrade", "reschedule", "insert"} => t \in Handler
    /\ t \in Handler /\ pc[t] \notin {"idle", "unlock"} => Len(plan[t]) = 1
    /\ IsInjective(plan[t])

(* The instances of a plan that the loop has still to lock, or has already   *)
(* unlocked, are in no list; the others are unless they were aborted.        *)
ToLock(t, i) == \/ pc[t] = "lock" /\ i >= pos[t]
                \/ pc[t] = "wait" /\ i > pos[t]

Unlocked(t, i) == pc[t] = "unlock" /\ i < pos[t]

Planned ==
  /\ \A t \in Thread : \A i \in DOMAIN plan[t] :
       /\ thread[plan[t][i]] = t
       /\ ToLock(t, i) => /\ ~ Listed(plan[t][i])
                          /\ type[plan[t][i]] \in ReadType \cup WriteType
       /\ Unlocked(t, i) => ~ Listed(plan[t][i])
       /\ ~ ToLock(t, i) /\ ~ Unlocked(t, i) =>
            (Listed(plan[t][i]) <=> type[plan[t][i]] # TL_UNLOCK)
  /\ \A d \in Data : Listed(d) =>
       \E t \in Thread : thread[d] = t /\ d \in Range(plan[t])

(* A queued instance is the one its thread sleeps on, or a delayed one. *)
Queued ==
  \A d \in Data : Waiting(d) =>
    \/ thread[d] \in Handler /\ type[d] \in WriteType
    \/ pc[thread[d]] = "wait" /\ This(thread[d]) = d

(* The types a thread may have in its own instances of one table. *)
DelayedTypes == {TL_UNLOCK, TL_WRITE_DELAYED, TL_WRITE, TL_WRITE_ONLY}

OwnTypes ==
  /\ \A c, d \in Data :
       /\ c # d /\ LockOf[c] = LockOf[d]
       /\ thread[c] = thread[d] /\ thread[d] \in Thread
       /\ type[c] \in WriteType /\ type[d] \in WriteType
       => \/ type[c] = TL_WRITE_ALLOW_WRITE /\ type[d] = TL_WRITE_ALLOW_WRITE
          \/ {type[c], type[d]} \subseteq {TL_WRITE_LOW_PRIORITY, TL_WRITE}
  /\ \A d \in Data : thread[d] \in Handler => type[d] \in DelayedTypes
  /\ \A d \in Data : thread[d] \in Thread \ Handler => type[d] # TL_WRITE_DELAYED

(* The write locks that are granted together. *)
SharedWrites ==
  \A l \in Lock : \A c, d \in Range(write[l]) : c # d =>
    \/ /\ {type[c], type[d]} \subseteq {TL_WRITE_ALLOW_WRITE, TL_WRITE_ONLY}
       /\ thread[c] \notin Handler /\ thread[d] \notin Handler
    \/ /\ thread[c] = thread[d]
       /\ {type[c], type[d]} \subseteq {TL_WRITE_LOW_PRIORITY, TL_WRITE, TL_WRITE_ONLY}

IInv ==
  /\ TypeOK
  /\ Placed
  /\ Control
  /\ Planned
  /\ Queued
  /\ OwnTypes
  /\ SharedWrites
  /\ NoInsertCount
  /\ ReadersAdmitted

(* A delayed handler has one instance, and between two upgrades its lock is  *)
(* granted, unless it is still the delayed one.                              *)
HandlerLock ==
  /\ \A c, d \in Data : thread[c] = thread[d] /\ thread[d] \in Handler => c = d
  /\ \A t \in Handler : pc[t] \in {"run", "reschedule", "insert"} /\ cond[This(t)]
       => pc[t] # "insert" /\ type[This(t)] = TL_WRITE_DELAYED

Inductive == IInv /\ HandlerLock

-----------------------------------------------------------------------------
(* Every waiting thread gets its lock or an error. *)
WaitersServed == \A t \in Thread : pc[t] = "wait" ~> pc[t] # "wait"

(* What the manager promises (TableLock): an instance is granted when it is  *)
(* in one of the two lists of granted locks.                                 *)
Promised == INSTANCE TableLock WITH
  owner <- thread,
  mode  <- [d \in Data |-> IF d \in Active(LockOf[d]) THEN type[d] ELSE TL_UNLOCK]

(* The lists, counters and wake-ups of thr_lock.c implement those promises.  *)
KeepsPromises == Promised!Spec

=============================================================================
