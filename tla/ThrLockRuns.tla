---------------------------- MODULE ThrLockRuns ----------------------------
(* What a thread may rely on once the lock manager lets it go on, for any    *)
(* number of threads, tables and lock instances: every lock it asked for is  *)
(* granted, and while it sleeps it is where a release will find it.  And     *)
(* what the lists, counters and wake-ups of thr_lock.c promise the callers:  *)
(* every step of ThrLock is a step of TableLock or changes no granted lock.  *)
(* And that no set of threads waits for itself.                              *)
EXTENDS ThrLockProofs

USE DEF TL_UNLOCK, TL_READ, TL_READ_WITH_SHARED_LOCKS, TL_READ_HIGH_PRIORITY,
        TL_READ_NO_INSERT, TL_WRITE_ALLOW_WRITE, TL_WRITE_ALLOW_READ,
        TL_WRITE_CONCURRENT_INSERT, TL_WRITE_DELAYED, TL_WRITE_LOW_PRIORITY,
        TL_WRITE, TL_WRITE_ONLY, LockType, ReadType, WriteType

(* What is known of a thread besides the invariant of the lists: a sleeper   *)
(* whose condition is armed was not aborted, the instances its loop is past  *)
(* were not either, and a delayed handler has asked for TL_WRITE.            *)
Good(t) ==
  /\ pc[t] \in {"wait", "upgrade", "reupgrade"} /\ cond[This(t)]
       => type[This(t)] # TL_UNLOCK
  /\ t \notin Handler =>
       \A i \in DOMAIN plan[t] :
         pc[t] = "run" \/ (pc[t] \in {"lock", "wait"} /\ i < pos[t])
           => type[plan[t][i]] # TL_UNLOCK
  /\ t \in Handler /\ pc[t] \in {"insert", "upgrade", "reupgrade"}
       => type[This(t)] # TL_WRITE_DELAYED

(* A thread has no instances besides those of its plan, until it unlocks.    *)
Known ==
  \A x \in Data : thread[x] \in Thread /\ pc[thread[x]] # "unlock"
    => x \in Range(plan[thread[x]])

(* The inductive invariant. *)
Going == Inductive /\ Known /\ \A t \in Thread : Good(t)

(* What a step may do to the instance of a thread that does not take part:   *)
(* it takes away only one that waits, and then wakes the thread.             *)
Spared(x) ==
  /\ cond'[x] => cond[x]
  /\ type'[x] = TL_UNLOCK => type[x] = TL_UNLOCK \/ (Waiting(x) /\ ~ cond'[x])
  /\ type'[x] = TL_WRITE_DELAYED => type[x] = TL_WRITE_DELAYED

(* The instances of a plan are those of the thread, each there once.         *)
LEMMA PlanFacts ==
  ASSUME Inductive, NEW t \in Thread
  PROVE  /\ pos[t] \in Nat \ {0} /\ plan[t] \in Seq(Data)
         /\ \A i \in DOMAIN plan[t] :
              /\ i \in Nat \ {0} /\ i <= Len(plan[t])
              /\ plan[t][i] \in Data /\ thread[plan[t][i]] = t
         /\ \A i, j \in DOMAIN plan[t] : plan[t][i] = plan[t][j] => i = j
         /\ pc[t] \in {"lock", "wait"} => pos[t] \in DOMAIN plan[t]
<1>1. TypeOK /\ Control /\ Planned  BY DEF Inductive, IInv
<1>2. pos[t] \in Nat \ {0} /\ plan[t] \in Seq(Data)  BY <1>1 DEF TypeOK
<1>3. \A i \in DOMAIN plan[t] : /\ i \in Nat \ {0} /\ i <= Len(plan[t])
                                /\ plan[t][i] \in Data
  BY <1>2
<1>4. \A i \in DOMAIN plan[t] : thread[plan[t][i]] = t  BY <1>1 DEF Planned
<1>5. \A i, j \in DOMAIN plan[t] : plan[t][i] = plan[t][j] => i = j
  BY <1>1 DEF Control, IsInjective
<1>. QED  BY <1>1, <1>2, <1>3, <1>4, <1>5 DEF Control

(* A sleeping thread sleeps on an instance of its own.                       *)
LEMMA SleeperFacts ==
  ASSUME Inductive, NEW t \in Thread,
         \/ pc[t] \in {"wait", "upgrade", "reupgrade"}
         \/ t \in Handler /\ pc[t] = "insert"
  PROVE  /\ pos[t] \in DOMAIN plan[t] /\ This(t) = plan[t][pos[t]]
         /\ This(t) \in Data /\ thread[This(t)] = t
<1>1. pos[t] \in DOMAIN plan[t]
  <2>1. CASE pc[t] = "wait"  BY <2>1, PlanFacts
  <2>2. CASE pc[t] # "wait"
    <3>1. t \in Handler /\ pc[t] \in Handling
      BY <2>2 DEF Inductive, IInv, Control, Handling
    <3>. QED  BY <3>1, HandlerFacts DEF Inductive
  <2>. QED  BY <2>1, <2>2
<1>. QED  BY <1>1, PlanFacts DEF This

(* A thread that does not take part goes on as it was.                       *)
LEMMA SparedGood ==
  ASSUME Inductive, NEW t \in Thread, Good(t),
         pc'[t] = pc[t], pos'[t] = pos[t], plan'[t] = plan[t],
         \A x \in Data : thread[x] = t => Spared(x)
  PROVE  Good(t)'
<1>1. This(t)' = This(t)  BY DEF This
<1>2. ASSUME \/ pc[t] \in {"wait", "upgrade", "reupgrade"}
             \/ t \in Handler /\ pc[t] = "insert"
      PROVE  Spared(This(t))
  BY <1>2, SleeperFacts
<1>3. ASSUME t \notin Handler, NEW i \in DOMAIN plan[t],
             pc[t] = "run" \/ (pc[t] \in {"lock", "wait"} /\ i < pos[t])
      PROVE  type'[plan[t][i]] # TL_UNLOCK
  <2> DEFINE x == plan[t][i]
  <2>1. x \in Data /\ thread[x] = t /\ type[x] # TL_UNLOCK /\ Spared(x)
    BY <1>3, PlanFacts DEF Good
  <2>2. ~ Waiting(x)
    <3>1. SUFFICES ASSUME Waiting(x) PROVE FALSE  OBVIOUS
    <3>2. pc[t] = "wait" /\ This(t) = x
      BY <1>3, <2>1, <3>1 DEF Inductive, IInv, Queued
    <3>3. pos[t] \in DOMAIN plan[t] /\ plan[t][pos[t]] = plan[t][i]
      BY <3>2, PlanFacts DEF This
    <3>4. i = pos[t] /\ i < pos[t] /\ pos[t] \in Nat  BY <1>3, <3>2, <3>3, PlanFacts
    <3>. QED  BY <3>4
  <2>. QED  BY <2>1, <2>2 DEF Spared
<1>. QED  BY <1>1, <1>2, <1>3 DEF Good, Spared

(* A step of t that spares the instances of the others.                      *)
Own(t) ==
  /\ thread' = thread
  /\ \A u \in Thread \ {t} : pc'[u] = pc[u] /\ pos'[u] = pos[u] /\ plan'[u] = plan[u]
  /\ pc'[t] = "unlock" \/ (plan'[t] = plan[t] /\ pc[t] # "unlock")
  /\ \A x \in Data : thread[x] # t => Spared(x)

(* Such a step of t keeps the invariant when t ends with what it should.     *)
LEMMA OwnGoing ==
  ASSUME Going, Inductive', NEW t \in Thread, Own(t), Good(t)'
  PROVE  Going'
<1>1. Inductive /\ Known /\ \A u \in Thread : Good(u)  BY DEF Going
<1>2. ASSUME NEW u \in Thread \ {t}  PROVE Good(u)'
  <2>1. \A x \in Data : thread[x] = u => Spared(x)  BY DEF Own
  <2>. QED  BY <1>1, <2>1, SparedGood DEF Own
<1>3. Known'  BY <1>1 DEF Known, Own
<1>. QED  BY <1>2, <1>3 DEF Going

-----------------------------------------------------------------------------
(* thr_lock                                                                  *)

(* The loop has the lock and goes on. *)
LEMMA LockedGood ==
  ASSUME Inductive, NEW t \in Thread, Good(t), pc[t] \in {"lock", "wait"}, Locked(t),
         type'[This(t)] # TL_UNLOCK,
         \A x \in Data \ {This(t)} : type'[x] = type[x]
  PROVE  /\ Good(t)'
         /\ pc'[t] \in {"lock", "run"} /\ plan' = plan
         /\ \A u \in Thread \ {t} : pc'[u] = pc[u] /\ pos'[u] = pos[u]
<1>1. pc \in [Thread -> PC] /\ pos \in [Thread -> Nat \ {0}]
  BY DEF Inductive, IInv, TypeOK
<1>2. /\ plan' = plan /\ pc'[t] \in {"lock", "run"}
      /\ pc'[t] = "run" => pos[t] >= Len(plan[t])
      /\ pc'[t] = "lock" => pos'[t] = pos[t] + 1
      /\ \A u \in Thread \ {t} : pc'[u] = pc[u] /\ pos'[u] = pos[u]
  <2>1. CASE pos[t] < Len(plan[t])  BY <1>1, <2>1 DEF Locked
  <2>2. CASE ~ (pos[t] < Len(plan[t]))
    <3>1. pos[t] \in Nat /\ Len(plan[t]) \in Nat  BY PlanFacts
    <3>. QED  BY <1>1, <2>2, <3>1 DEF Locked
  <2>. QED  BY <2>1, <2>2
<1>3. ASSUME t \notin Handler, NEW i \in DOMAIN plan[t],
             pc'[t] = "run" \/ i < pos'[t]
      PROVE  type'[plan[t][i]] # TL_UNLOCK
  <2>1. /\ i \in Nat /\ pos[t] \in Nat /\ Len(plan[t]) \in Nat
        /\ i <= Len(plan[t]) /\ plan[t][i] \in Data
    BY PlanFacts
  <2>2. i <= pos[t]  BY <1>2, <1>3, <2>1
  <2>3. CASE i = pos[t]  BY <2>3 DEF This
  <2>4. CASE i < pos[t]
    <3>1. type[plan[t][i]] # TL_UNLOCK  BY <1>3, <2>4 DEF Good
    <3>. QED  BY <2>1, <3>1
  <2>. QED  BY <2>1, <2>2, <2>3, <2>4
<1>. QED  BY <1>2, <1>3 DEF Good

(* The request is granted or queued as a delayed one, or its wait ends so.   *)
LEMMA LockGoing ==
  ASSUME Going, Inductive', NEW t \in Thread,
         thr_lock_read(t) \/ thr_lock_write(t) \/ thr_lock_delayed(t) \/ wait_granted(t)
  PROVE  Going'
<1> DEFINE d == This(t)
<1>1. Inductive /\ IInv /\ TypeOK /\ Good(t)  BY DEF Going, Inductive, IInv
<1>2. pc[t] \in {"lock", "wait"} /\ Locked(t) /\ thread' = thread
  BY DEF thr_lock_read, thr_lock_write, thr_lock_delayed, wait_granted
<1>3. d \in Data /\ thread[d] = t  BY <1>1, <1>2, PlanFacts DEF This
<1>4. /\ type'[d] # TL_UNLOCK
      /\ \A x \in Data \ {d} : type'[x] = type[x] /\ cond'[x] = cond[x]
  <2>1. type \in [Data -> LockType] /\ cond \in [Data -> BOOLEAN]  BY <1>1 DEF TypeOK
  <2>2. pc[t] = "lock" => type[d] \in ReadType \cup WriteType
    BY <1>1, ToLockFacts
  <2>3. CASE thr_lock_read(t)  BY <1>3, <2>1, <2>2, <2>3 DEF thr_lock_read
  <2>4. CASE thr_lock_write(t)
    <3>1. PICK hole \in BOOLEAN : type' = [type EXCEPT ![d] = EffectiveType(d, hole)]
      BY <2>4 DEF thr_lock_write
    <3>2. EffectiveType(d, hole) # TL_UNLOCK
      BY <2>2, <2>4, ThrLockAssumption DEF EffectiveType, thr_lock_write
    <3>. QED  BY <1>3, <2>1, <2>4, <3>1, <3>2 DEF thr_lock_write
  <2>5. CASE thr_lock_delayed(t)  BY <1>3, <2>1, <2>2, <2>5 DEF thr_lock_delayed
  <2>6. CASE wait_granted(t)  BY <1>3, <2>1, <2>6 DEF wait_granted, locks
  <2>. QED  BY <2>3, <2>4, <2>5, <2>6
<1>5. /\ Good(t)'
      /\ pc'[t] \in {"lock", "run"} /\ plan' = plan
      /\ \A u \in Thread \ {t} : pc'[u] = pc[u] /\ pos'[u] = pos[u]
  BY <1>1, <1>2, <1>4, LockedGood
<1>6. Own(t)  BY <1>2, <1>3, <1>4, <1>5 DEF Own, Spared
<1>. QED  BY <1>5, <1>6, OwnGoing

(* The request fails.                                                        *)
LEMMA FailGoing ==
  ASSUME Going, Inductive', NEW t \in Thread,
         thr_lock_refused(t) \/ wait_aborted(t) \/ wait_killed(t)
  PROVE  Going'
<1> DEFINE d == This(t)
<1>1. Inductive /\ IInv /\ TypeOK  BY DEF Going, Inductive, IInv
<1>2. pc[t] \in {"lock", "wait"} /\ Failed(t) /\ thread' = thread
  BY DEF thr_lock_refused, wait_aborted, wait_killed
<1>3. d \in Data /\ thread[d] = t  BY <1>1, <1>2, PlanFacts DEF This
<1>4. \A x \in Data \ {d} : type'[x] = type[x] /\ cond'[x] = cond[x]
  BY <1>1 DEF TypeOK, thr_lock_refused, wait_aborted, wait_killed, locks
<1>5. /\ pc'[t] = "unlock"
      /\ \A u \in Thread \ {t} : pc'[u] = pc[u] /\ pos'[u] = pos[u] /\ plan'[u] = plan[u]
  BY <1>1, <1>2 DEF Failed, TypeOK
<1>6. Own(t)  BY <1>2, <1>3, <1>4, <1>5 DEF Own, Spared
<1>7. Good(t)'  BY <1>5 DEF Good
<1>. QED  BY <1>6, <1>7, OwnGoing

(* The request is queued.                                                    *)
LEMMA WaitGoing ==
  ASSUME Going, Inductive', NEW t \in Thread, thr_lock_wait(t)
  PROVE  Going'
<1> DEFINE d == This(t)
<1>1. Inductive /\ IInv /\ TypeOK /\ Good(t)  BY DEF Going, Inductive, IInv
<1>2. /\ pc[t] = "lock" /\ pc' = [pc EXCEPT ![t] = "wait"]
      /\ cond' = [cond EXCEPT ![d] = TRUE]
      /\ thread' = thread /\ plan' = plan /\ pos' = pos
  BY DEF thr_lock_wait
<1>3. d \in Data /\ thread[d] = t /\ type[d] \in ReadType \cup WriteType
  BY <1>1, <1>2, ToLockFacts
<1>4. type'[d] # TL_UNLOCK /\ \A x \in Data \ {d} : type'[x] = type[x]
  <2>1. type \in [Data -> LockType]  BY <1>1 DEF TypeOK
  <2>2. CASE type' = type  BY <1>3, <2>2
  <2>3. CASE type' # type
    <3>1. PICK hole \in BOOLEAN : type' = [type EXCEPT ![d] = EffectiveType(d, hole)]
      BY <2>3 DEF thr_lock_wait
    <3>2. EffectiveType(d, hole) # TL_UNLOCK
      BY <1>3, ThrLockAssumption DEF EffectiveType
    <3>. QED  BY <1>3, <2>1, <3>1, <3>2
  <2>. QED  BY <2>2, <2>3
<1>5. /\ pc'[t] = "wait" /\ This(t)' = d
      /\ \A u \in Thread \ {t} : pc'[u] = pc[u]
      /\ \A x \in Data \ {d} : cond'[x] = cond[x]
  BY <1>1, <1>2 DEF TypeOK, This
<1>6. Own(t)  BY <1>2, <1>3, <1>4, <1>5 DEF Own, Spared
<1>7. ASSUME t \notin Handler, NEW i \in DOMAIN plan[t], i < pos[t]
      PROVE  type'[plan[t][i]] # TL_UNLOCK
  <2>1. plan[t][i] \in Data /\ type[plan[t][i]] # TL_UNLOCK
    BY <1>1, <1>2, <1>7, PlanFacts DEF Good
  <2>. QED  BY <1>4, <2>1
<1>8. Good(t)'  BY <1>2, <1>4, <1>5, <1>7 DEF Good
<1>. QED  BY <1>6, <1>8, OwnGoing

-----------------------------------------------------------------------------
(* The end of a statement, its beginning, and the other threads.             *)

(* The locks are released, and others get them.                              *)
LEMMA UnlockGoing ==
  ASSUME Going, Inductive', NEW t \in Thread,
         thr_unlock(t) \/ skip_unlock(t) \/ run_done(t)
  PROVE  Going'
<1> DEFINE d == This(t)
<1>1. Inductive /\ IInv /\ TypeOK  BY DEF Going, Inductive, IInv
<1>2. /\ pc'[t] = "unlock" /\ thread' = thread /\ plan' = plan
      /\ \A u \in Thread \ {t} : pc'[u] = pc[u] /\ pos'[u] = pos[u]
  BY <1>1 DEF thr_unlock, skip_unlock, run_done, TypeOK
<1>3. Good(t)'  BY <1>2 DEF Good
<1>4. \A x \in Data : thread[x] # t => Spared(x)
  <2>1. CASE skip_unlock(t) \/ run_done(t)
    BY <2>1 DEF skip_unlock, run_done, locks, Spared
  <2>2. CASE thr_unlock(t)
    <3>1. d \in Data /\ thread[d] = t
      BY <1>1, <2>2, OwnInstance DEF thr_unlock
    <3>2. type \in [Data -> LockType]  BY <1>1 DEF TypeOK
    <3>3. \A x \in Data : cond'[x] => cond[x]
      BY <2>2 DEF thr_unlock, unlock_gives_nothing, unlock_gives_reads,
                  unlock_gives_writes, unlock_adds_writes, HandOver
    <3>4. \A x \in Data \ {d} : type'[x] \in {type[x], TL_WRITE}
      <4>1. CASE unlock_gives_nothing(d) \/ unlock_gives_reads(d)
        BY <3>2, <4>1 DEF unlock_gives_nothing, unlock_gives_reads
      <4>2. CASE unlock_gives_writes(d)
        BY <3>2, <4>2 DEF unlock_gives_writes
      <4>3. CASE unlock_adds_writes(d)
        BY <3>2, <4>3 DEF unlock_adds_writes
      <4>. QED  BY <2>2, <4>1, <4>2, <4>3 DEF thr_unlock
    <3>. QED  BY <3>1, <3>3, <3>4 DEF Spared
  <2>. QED  BY <2>1, <2>2
<1>5. Own(t)  BY <1>2, <1>4 DEF Own
<1>. QED  BY <1>3, <1>5, OwnGoing

(* A statement ends, ...                                                     *)
LEMMA EndGoing ==
  ASSUME Going, Inductive', NEW t \in Thread, statement_end(t)
  PROVE  Going'
<1>1. Inductive /\ TypeOK /\ Known /\ \A u \in Thread : Good(u)
  BY DEF Going, Inductive, IInv
<1>2. /\ pc'[t] = "idle" /\ type' = type /\ cond' = cond
      /\ \A u \in Thread \ {t} : pc'[u] = pc[u] /\ pos'[u] = pos[u] /\ plan'[u] = plan[u]
      /\ \A x \in Data : thread'[x] = IF thread[x] = t THEN NoThread ELSE thread[x]
  BY <1>1 DEF statement_end, locks, TypeOK
<1>3. Good(t)'  BY <1>2 DEF Good
<1>4. ASSUME NEW u \in Thread \ {t}  PROVE Good(u)'
  BY <1>1, <1>2, SparedGood DEF Spared
<1>5. Known'  BY <1>1, <1>2, ThrLockAssumption DEF Known
<1>. QED  BY <1>3, <1>4, <1>5 DEF Going

(* ... and one begins.                                                       *)
LEMMA MultiLockGoing ==
  ASSUME Going, Inductive', NEW t \in Thread, thr_multi_lock(t)
  PROVE  Going'
<1>1. Inductive /\ TypeOK /\ Control /\ Known /\ \A u \in Thread : Good(u)
  BY DEF Going, Inductive, IInv
<1>2. PICK req \in Request[t] :
        /\ \A d \in DOMAIN req : thread[d] = NoThread
        /\ type' = [d \in Data |-> IF d \in DOMAIN req THEN req[d] ELSE type[d]]
        /\ thread' = [d \in Data |-> IF d \in DOMAIN req THEN t ELSE thread[d]]
        /\ \E s \in Bijection(1 .. Cardinality(DOMAIN req), DOMAIN req) :
             plan' = [plan EXCEPT ![t] = s]
  BY DEF thr_multi_lock
<1>2a. PICK s \in Bijection(1 .. Cardinality(DOMAIN req), DOMAIN req) :
        plan' = [plan EXCEPT ![t] = s]
  BY <1>2
<1>3. /\ pc[t] = "idle" /\ pc'[t] = "lock" /\ pos'[t] = 1 /\ cond' = cond
      /\ plan'[t] = s
      /\ \A u \in Thread \ {t} : pc'[u] = pc[u] /\ pos'[u] = pos[u] /\ plan'[u] = plan[u]
  BY <1>1, <1>2a DEF thr_multi_lock, TypeOK
<1>4. DOMAIN s = 1 .. Cardinality(DOMAIN req) /\ Range(s) = DOMAIN req
  BY <1>2a DEF Bijection, Surjection, Range
<1>5. Good(t)'
  <2>1. \A i \in DOMAIN s : ~ (i < 1)  BY <1>4
  <2>. QED  BY <1>3, <2>1 DEF Good
<1>6. ASSUME NEW u \in Thread \ {t}  PROVE Good(u)'
  <2>1. \A x \in Data : thread[x] = u => Spared(x)
    BY <1>2, <1>3, ThrLockAssumption DEF Spared
  <2>. QED  BY <1>1, <1>3, <2>1, SparedGood
<1>7. ASSUME NEW x \in Data, thread'[x] \in Thread, pc'[thread'[x]] # "unlock"
      PROVE  x \in Range(plan'[thread'[x]])
  <2>1. CASE x \in DOMAIN req  BY <1>2, <1>3, <1>4, <2>1
  <2>2. CASE x \notin DOMAIN req
    <3>1. thread'[x] = thread[x] /\ thread[x] # t
      BY <1>1, <1>2, <1>3, <2>2 DEF Control
    <3>. QED  BY <1>1, <1>3, <1>7, <3>1 DEF Known
  <2>. QED  BY <2>1, <2>2
<1>. QED  BY <1>5, <1>6, <1>7 DEF Going, Known

(* No thread takes part: an abort, a KILL, nothing. *)
LEMMA SparedGoing ==
  ASSUME Going, Inductive', UNCHANGED <<thread, plan, pos, pc>>,
         \A x \in Data : Spared(x)
  PROVE  Going'
<1>1. \A t \in Thread : Good(t)'  BY SparedGood DEF Going
<1>2. Known'  BY DEF Going, Known
<1>. QED  BY <1>1, <1>2 DEF Going

(* ALTER TABLE and the like close a table; a connection is killed.           *)
LEMMA AbortGoing ==
  ASSUME Going, Inductive', NEW t \in Thread,
         thr_abort_locks(t) \/ kill(t) \/ UNCHANGED vars
  PROVE  Going'
<1>1. UNCHANGED <<thread, plan, pos, pc>>
  BY DEF thr_abort_locks, kill, vars, control
<1>2. CASE kill(t) \/ UNCHANGED vars
  BY <1>1, <1>2, SparedGoing DEF kill, vars, locks, Spared
<1>3. CASE thr_abort_locks(t)
  <2>1. Placed /\ TypeOK  BY DEF Going, Inductive, IInv
  <2>2. PICK l \in {LockOf[d] : d \in {x \in Range(plan[t]) : type[x] # TL_UNLOCK}} :
          LET waiting == Range(read_wait[l]) \cup Range(write_wait[l])
              closed  == IF write[l] = <<>> THEN {} ELSE {Head(write[l])}
          IN  /\ type' = [d \in Data |-> IF d \in waiting THEN TL_UNLOCK
                                         ELSE IF d \in closed THEN TL_WRITE_ONLY
                                         ELSE type[d]]
              /\ cond' = [d \in Data |-> cond[d] /\ d \notin waiting]
    BY <1>3 DEF thr_abort_locks
  <2>3. l \in Lock
    <3>1. PICK d \in Range(plan[t]) : l = LockOf[d]  BY <2>2
    <3>2. Range(plan[t]) \subseteq Data  BY PlanFacts DEF Going, Range
    <3>. QED  BY <3>1, <3>2, ThrLockAssumption
  <2>4. ASSUME NEW x \in Data  PROVE Spared(x)
    <3>1. x \in Range(read_wait[l]) \cup Range(write_wait[l]) => Waiting(x)
      BY <2>1, <2>3 DEF Placed, Waiting
    <3> DEFINE waiting == Range(read_wait[l]) \cup Range(write_wait[l])
    <3>2. cond'[x] = (cond[x] /\ x \notin waiting)  BY <2>2
    <3>3. type'[x] \in {type[x], TL_WRITE_ONLY} \/ x \in waiting  BY <2>2
    <3>4. (cond'[x] => cond[x]) /\ (x \in waiting => ~ cond'[x])  BY <3>2
    <3>. HIDE DEF waiting
    <3>5. x \in waiting => Waiting(x)  BY <3>1 DEF waiting
    <3>6. x \in waiting => type'[x] = TL_UNLOCK  BY <2>2 DEF waiting
    <3>. QED  BY <3>3, <3>4, <3>5, <3>6 DEF Spared
  <2>. QED  BY <1>1, <2>4, SparedGoing
<1>. QED  BY <1>2, <1>3

-----------------------------------------------------------------------------
(* The delayed handler.                                                      *)

(* The handler asks for TL_WRITE, inserts, and lets readers in again.        *)
LEMMA UpgradeGoing ==
  ASSUME Going, Inductive', NEW t \in Handler, Upgrade(t)
  PROVE  Going'
<1> DEFINE d == This(t)
<1>1. Inductive /\ IInv /\ TypeOK /\ Good(t) /\ t \in Thread
  BY ThrLockAssumption DEF Going, Inductive, IInv
<1>2. pc[t] \in Handling
  BY DEF Upgrade, upgrade_done, upgrade_at_once, upgrade_wait, upgrade_woken,
         thr_reschedule_write_lock, inserts_done, Handling
<1>3. d \in Data /\ thread[d] = t /\ pc[t] # "unlock"
  BY <1>1, <1>2, HandlerFacts DEF Handling
<1>4. thread' = thread /\ plan' = plan /\ pos' = pos /\ This(t)' = d
  BY DEF Upgrade, upgrade_done, upgrade_at_once, upgrade_wait, upgrade_woken,
         thr_reschedule_write_lock, inserts_done, This
<1>5. \A u \in Thread \ {t} : pc'[u] = pc[u]
  BY <1>1 DEF Upgrade, upgrade_done, upgrade_at_once, upgrade_wait, upgrade_woken,
         thr_reschedule_write_lock, inserts_done, Upgraded, NotUpgraded, TypeOK
<1>6. \A x \in Data \ {d} : type'[x] = type[x] /\ (cond'[x] => cond[x])
  BY <1>1 DEF Upgrade, upgrade_done, upgrade_at_once, upgrade_wait, upgrade_woken,
         thr_reschedule_write_lock, inserts_done, locks, TypeOK
<1>7. Own(t)  BY <1>3, <1>4, <1>5, <1>6 DEF Own, Spared
<1>8. Good(t)'
  <2>1. pc \in [Thread -> PC] /\ type \in [Data -> LockType]  BY <1>1 DEF TypeOK
  <2>2. CASE upgrade_done(t)
    <3>1. /\ type' = type /\ pc'[t] \in {"insert", "unlock"}
          /\ type[d] # TL_WRITE_DELAYED
      BY <1>1, <2>1, <2>2 DEF upgrade_done, locks, Upgraded, NotUpgraded, MustUpgrade
    <3>. QED  BY <1>1, <1>4, <3>1 DEF Good
  <2>3. CASE upgrade_at_once(t)
    <3>1. type'[d] = TL_WRITE /\ pc'[t] = "insert"
      BY <1>1, <1>3, <2>1, <2>3 DEF upgrade_at_once, Upgraded
    <3>. QED  BY <1>1, <1>4, <3>1 DEF Good
  <2>4. CASE upgrade_wait(t)
    <3>1. type'[d] = TL_WRITE
      BY <1>3, <2>1, <2>4 DEF upgrade_wait
    <3>. QED  BY <1>1, <1>4, <3>1 DEF Good
  <2>5. CASE upgrade_woken(t)
    <3>1. /\ type' = type /\ pc'[t] \in {"insert", "unlock"}
          /\ type[d] # TL_WRITE_DELAYED
      BY <1>1, <2>1, <2>5 DEF upgrade_woken, locks, Upgraded, NotUpgraded, Good
    <3>. QED  BY <1>1, <1>4, <3>1 DEF Good
  <2>6. CASE thr_reschedule_write_lock(t) \/ inserts_done(t)
    <3>1. pc'[t] \in {"reschedule", "run"}
      BY <1>1, <2>1, <2>6 DEF thr_reschedule_write_lock, inserts_done
    <3>. QED  BY <1>1, <3>1 DEF Good
  <2>. QED  BY <2>2, <2>3, <2>4, <2>5, <2>6 DEF Upgrade
<1>. QED  BY <1>1, <1>7, <1>8, OwnGoing

-----------------------------------------------------------------------------
(* The invariant holds at first, *)
LEMMA InitGoing == Init => Going
<1>. SUFFICES ASSUME Init PROVE Going  OBVIOUS
<1>1. \A t \in Thread : pc[t] = "idle"  BY DEF Init
<1>2. \A t \in Thread : Good(t)  BY <1>1 DEF Good
<1>3. Known  BY ThrLockAssumption DEF Init, Known
<1>. QED  BY <1>2, <1>3, InitInductive DEF Going

(* is kept by every step, *)
LEMMA GoingStep == Going /\ [Next]_vars => Going'
<1>. SUFFICES ASSUME Going, [Next]_vars PROVE Going'  OBVIOUS
<1>1. Inductive'  BY InductiveStep DEF Going
<1>2. ASSUME NEW t \in Thread, thr_multi_lock(t) PROVE Going'
  BY <1>1, <1>2, MultiLockGoing
<1>3. ASSUME NEW t \in Thread, Step(t) PROVE Going'
  BY <1>1, <1>3, LockGoing, FailGoing, WaitGoing, UnlockGoing, EndGoing DEF Step
<1>4. ASSUME NEW t \in Handler, Upgrade(t) PROVE Going'
  BY <1>1, <1>4, UpgradeGoing
<1>5. ASSUME NEW t \in Thread, thr_abort_locks(t) \/ kill(t) PROVE Going'
  BY <1>1, <1>5, AbortGoing
<1>6. CASE UNCHANGED vars
  <2>1. UNCHANGED <<thread, plan, pos, pc>> /\ \A x \in Data : Spared(x)
    BY <1>6 DEF vars, Spared
  <2>. QED  BY <1>1, <2>1, SparedGoing
<1>7. Aborter \subseteq Thread /\ Killable \subseteq Thread  BY ThrLockAssumption
<1>. QED  BY <1>2, <1>3, <1>4, <1>5, <1>6, <1>7 DEF Next

(* and so holds in every state. *)
LEMMA AlwaysGoing == Spec => []Going
<1>. QED  BY InitGoing, GoingStep, PTL DEF Spec

(* The condition of a sleeping thread is armed as long as it is queued.      *)
LEMMA SleepersWait ==
  ASSUME Going, NEW t \in Thread, pc[t] \in {"wait", "upgrade", "reupgrade"}
  PROVE  This(t) \in Data /\ (cond[This(t)] <=> Waiting(This(t)))
<1> DEFINE d == This(t)
<1>. Inductive /\ Placed /\ Planned  BY DEF Going, Inductive, IInv
<1>1. pos[t] \in DOMAIN plan[t] /\ d = plan[t][pos[t]] /\ d \in Data /\ LockOf[d] \in Lock
  BY SleeperFacts, ThrLockAssumption
<1>2. pos[t] \in Nat  BY PlanFacts
<1>3. ~ ToLock(t, pos[t]) /\ ~ Unlocked(t, pos[t])
  BY <1>2 DEF ToLock, Unlocked
<1>4. Listed(d) <=> type[d] # TL_UNLOCK  BY <1>1, <1>3 DEF Planned
<1>5. cond[d] => Listed(d)  BY <1>4 DEF Going, Good
<1>6. d \in Active(LockOf[d]) => ~ cond[d]  BY <1>1 DEF Placed, Active
<1>7. Waiting(d) => cond[d]  BY <1>1 DEF Placed, Waiting
<1>. QED  BY <1>1, <1>5, <1>6, <1>7 DEF Listed, Waiting

(* A sleeping thread whose condition is armed is on a queue, where a release *)
(* or an abort finds it, and a queued one sleeps with its condition armed    *)
(* (wait_for_lock, wake_up_waiters, thr_abort_locks).                        *)
THEOREM WaitersQueued == Spec => []WaiterIsQueued
<1>1. ASSUME Going PROVE WaiterIsQueued
  <2>1. \A d \in Data : Waiting(d) <=> InLists(d) \cap {"read_wait", "write_wait"} # {}
    BY DEF Waiting, InLists
  <2>. QED  BY <1>1, <2>1, SleepersWait DEF WaiterIsQueued
<1>. QED  BY <1>1, AlwaysGoing, PTL

(* A statement runs only with every lock it asked for granted, and nobody    *)
(* takes one away from it (thr_multi_lock and its callers).                  *)
THEOREM RunningLocked == Spec => []RunsLocked
<1>1. ASSUME Going PROVE RunsLocked
  <2>. Inductive /\ Planned /\ Queued /\ Known  BY <1>1 DEF Going, Inductive, IInv
  <2>1. ASSUME NEW t \in Thread \ Handler, pc[t] = "run", NEW d \in Data, thread[d] = t
        PROVE  d \in Active(LockOf[d]) /\ type[d] # TL_UNLOCK
    <3>1. d \in Range(plan[t])  BY <2>1 DEF Known
    <3>2. PICK i \in DOMAIN plan[t] : plan[t][i] = d  BY <3>1 DEF Range
    <3>3. type[d] # TL_UNLOCK  BY <1>1, <2>1, <3>2 DEF Going, Good
    <3>4. Listed(d)  BY <2>1, <3>2, <3>3 DEF Planned, ToLock, Unlocked
    <3>5. ~ Waiting(d)  BY <2>1 DEF Queued
    <3>. QED  BY <3>3, <3>4, <3>5 DEF Listed, Waiting
  <2>. QED  BY <2>1 DEF RunsLocked
<1>. QED  BY <1>1, AlwaysGoing, PTL

(* A delayed handler writes rows only under a granted TL_WRITE beside which  *)
(* nobody reads, unless its lock was aborted (handle_inserts,                *)
(* thr_upgrade_write_delay_lock, thr_reschedule_write_lock).                 *)
THEOREM HandlersLocked == Spec => []InsertsLocked
<1>1. ASSUME Going PROVE InsertsLocked
  <2>. /\ Inductive /\ IInv /\ HandlerLock /\ Placed /\ ReadersAdmitted /\ TypeOK
    BY <1>1 DEF Going, Inductive, IInv
  <2>1. ASSUME NEW t \in Handler, pc[t] = "insert",
               type[This(t)] \notin {TL_UNLOCK, TL_WRITE_ONLY}
        PROVE  /\ This(t) \in Range(write[LockOf[This(t)]])
               /\ read[LockOf[This(t)]] = {}
    <3> DEFINE d == This(t)
               l == LockOf[d]
    <3>1. t \in Thread /\ pc[t] \in Handling  BY <2>1, ThrLockAssumption DEF Handling
    <3>2. /\ d \in Data /\ l \in Lock /\ thread[d] = t
          /\ type[d] \in DelayedTypes
          /\ ~ cond[d] => d \in Range(write[l])
      BY <2>1, <3>1, HandlerFacts
    <3>3. ~ cond[d]  BY <2>1 DEF HandlerLock
    <3>4. type[d] = TL_WRITE
      BY <1>1, <2>1, <3>1, <3>2 DEF Going, Good, DelayedTypes
    <3>5. ASSUME NEW r \in read[l] PROVE FALSE
      <4>1. r \in Data  BY <3>2 DEF TypeOK
      <4>2. type[r] \in ReadType  BY <3>2, <4>1 DEF Placed
      <4>3. CASE thread[r] = t
        <5>1. r = d  BY <3>2, <4>1, <4>3 DEF HandlerLock
        <5>. QED  BY <3>4, <4>2, <5>1
      <4>4. CASE thread[r] # t
        BY <3>2, <3>3, <3>4, <4>4 DEF ReadersAdmitted
      <4>. QED  BY <4>3, <4>4
    <3>. QED  BY <3>2, <3>3, <3>5
  <2>. QED  BY <2>1 DEF InsertsLocked
<1>. QED  BY <1>1, AlwaysGoing, PTL

-----------------------------------------------------------------------------
(* The refinement of TableLock.                                              *)

(* Granted(d): d is in one of the two lists of granted locks.                *)
Granted(d) == d \in Active(LockOf[d])

(* The mode that the refinement mapping gives to every instance.             *)
Mode == [d \in Data |-> IF d \in Active(LockOf[d]) THEN type[d] ELSE TL_UNLOCK]

Stutters == thread' = thread /\ Mode' = Mode

Abstract == (\E t \in Thread : \/ Promised!Claim(t) \/ Promised!Acquire(t)
                               \/ Promised!Release(t) \/ Promised!Upgrade(t)
                               \/ Promised!Close(t) \/ Promised!Leave(t))
            \/ Stutters

(* The granted locks go together. *)
LEMMA GrantedGoTogether ==
  Inductive => Promised!Compatible(Mode, thread)
<1>. SUFFICES ASSUME Inductive,
                     NEW c \in Data, NEW d \in Data, LockOf[c] = LockOf[d],
                     thread[c] # thread[d], Mode[c] # 0, Mode[d] # 0
              PROVE  Promised!GoTogether(Mode[c], Mode[d])
  BY DEF Promised!Compatible, Promised!NoMode
<1>. DEFINE l == LockOf[d]
<1>1. /\ Placed /\ SharedWrites /\ ReadersAdmitted /\ TypeOK
  BY DEF Inductive, IInv
<1>2. l \in Lock /\ c \in Active(l) /\ d \in Active(l)
      /\ Mode[c] = type[c] /\ Mode[d] = type[d]
  BY Constants DEF Mode
<1>3. \A x \in {c, d} : /\ x \in read[l] => type[x] \in 1 .. 4
                        /\ x \in Range(write[l]) => type[x] \in 5 .. 11
  BY <1>1, <1>2 DEF Placed
<1>4. CASE c \in read[l] /\ d \in read[l]
  BY <1>2, <1>3, <1>4 DEF Promised!GoTogether, Promised!NoInsert
<1>5. CASE c \in read[l] /\ d \in Range(write[l])
  <2>1. type[d] \in 5 .. 8 \cup {11} /\ (type[c] = 4 => type[d] # 7)
    BY <1>1, <1>2, <1>5 DEF ReadersAdmitted
  <2>. QED  BY <1>2, <1>3, <1>5, <2>1
       DEF Promised!GoTogether, Promised!NoInsert, Promised!AllowWrite, Promised!Delayed,
           Promised!ConcurrentInsert, Promised!Closed
<1>6. CASE c \in Range(write[l]) /\ d \in read[l]
  <2>1. type[c] \in 5 .. 8 \cup {11} /\ (type[d] = 4 => type[c] # 7)
    BY <1>1, <1>2, <1>6 DEF ReadersAdmitted
  <2>. QED  BY <1>2, <1>3, <1>6, <2>1
       DEF Promised!GoTogether, Promised!NoInsert, Promised!AllowWrite, Promised!Delayed,
           Promised!ConcurrentInsert, Promised!Closed
<1>7. CASE c \in Range(write[l]) /\ d \in Range(write[l])
  <2>1. {type[c], type[d]} \subseteq {5, 11}
    BY <1>1, <1>2, <1>7 DEF SharedWrites
  <2>. QED  BY <1>2, <2>1
       DEF Promised!GoTogether, Promised!AllowWrite, Promised!Closed
<1>. QED  BY <1>2, <1>4, <1>5, <1>6, <1>7 DEF Active

(* The same of the next state.                                               *)
LEMMA GrantedGoTogetherNext ==
  Inductive' => Promised!Compatible(Mode', thread')
<1>. DEFINE Fit == Promised!Compatible(Mode, thread)
<1>1. Inductive => Fit  BY GrantedGoTogether
<1>. HIDE DEF Fit
<1>2. Inductive' => Fit'  BY <1>1, PTL
<1>3. Fit' => Promised!Compatible(Mode', thread')
  BY DEF Fit, Promised!Compatible, Promised!GoTogether, Promised!NoMode, Promised!NoInsert,
         Promised!AllowWrite, Promised!Delayed, Promised!ConcurrentInsert, Promised!Closed
<1>. QED  BY <1>2, <1>3

-----------------------------------------------------------------------------
(* What a granted instance is.                                               *)
LEMMA GrantedFacts ==
  ASSUME Inductive, NEW x \in Data
  PROVE  /\ Granted(x) => type[x] \in 1 .. 11 /\ ~ cond[x] /\ thread[x] \in Thread
         /\ Waiting(x) => cond[x] /\ thread[x] \in Thread
         /\ Waiting(x) => ~ Granted(x)
         /\ thread[x] # NoThread <=> thread[x] \in Thread
         /\ Mode[x] = IF Granted(x) THEN type[x] ELSE 0
         /\ Mode'[x] = IF Granted(x)' THEN type'[x] ELSE 0
<1>1. Placed /\ Planned /\ TypeOK  BY DEF Inductive, IInv
<1>2. LockOf[x] \in Lock /\ NoThread \notin Thread  BY Constants
<1>3. Granted(x) => type[x] \in 1 .. 11 /\ ~ cond[x]
  BY <1>1, <1>2 DEF Granted, Active, Placed
<1>4. Waiting(x) => cond[x]  BY <1>1, <1>2 DEF Waiting, Placed
<1>5. Granted(x) \/ Waiting(x) => thread[x] \in Thread
  BY <1>1 DEF Granted, Waiting, Planned, Listed
<1>6. thread[x] # NoThread <=> thread[x] \in Thread  BY <1>1, <1>2 DEF TypeOK
<1>. QED  BY <1>3, <1>4, <1>5, <1>6 DEF Mode, Granted

(* After a step too, what waits has not been granted.                        *)
LEMMA WaitsApart == Inductive' => \A x \in Data : Waiting(x)' => ~ Granted(x)'
<1>. DEFINE Apart == \A x \in Data : Waiting(x) => ~ Granted(x)
<1>1. Inductive => Apart  BY GrantedFacts
<1>. HIDE DEF Apart
<1>2. Inductive' => Apart'  BY <1>1, PTL
<1>. QED  BY <1>2 DEF Apart

(* Which instances are granted after a step that changes one lock.           *)
LEMMA GrantedNext ==
  ASSUME NEW l \in Lock, NEW rd, NEW rw, NEW wr, NEW ww,
         Lists(l, rd, rw, wr, ww), NEW x \in Data
  PROVE  /\ LockOf[x] = l => (Granted(x)' <=> x \in rd \cup wr)
         /\ LockOf[x] # l => (Granted(x)' <=> Granted(x))
<1>1. LockOf[x] \in Lock  BY Constants
<1>. QED  BY <1>1 DEF Lists, Granted, Active

(* A step that grants, withdraws and changes nothing. *)
LEMMA StutterStep ==
  ASSUME Inductive, thread' = thread,
         \A x \in Data : /\ Granted(x)' <=> Granted(x)
                         /\ Granted(x) => type'[x] = type[x]
  PROVE  Abstract
BY DEF Abstract, Stutters, Mode, Granted

(* A step that leaves the granted instances outside S alone, and grants only *)
(* instances a thread owns.                                                  *)
LEMMA GrantStep ==
  ASSUME Inductive, Inductive', thread' = thread, NEW S \in SUBSET Data,
         \A x \in Data \ S : /\ Granted(x) => Granted(x)' /\ type'[x] = type[x]
                             /\ Granted(x)' /\ ~ Granted(x) => thread[x] \in Thread
  PROVE  Promised!Grant(S)
<1>1. /\ Mode = [d \in Data |-> IF d \in Active(LockOf[d]) THEN type[d] ELSE TL_UNLOCK]
      /\ Mode' = [d \in Data |-> IF d \in Active(LockOf[d]) THEN type[d] ELSE TL_UNLOCK]'
  BY DEF Mode
<1>2. Mode' \in [Data -> 0 .. 11]
  BY DEF Mode, Inductive, IInv, TypeOK
<1>3. \A x \in Data \ S : /\ Mode[x] # 0 => Mode'[x] = Mode[x]
                          /\ Mode'[x] # Mode[x] => thread[x] # NoThread
  <2>. TAKE x \in Data \ S
  <2>1. /\ Granted(x) => Granted(x)' /\ type'[x] = type[x]
        /\ Granted(x)' /\ ~ Granted(x) => thread[x] \in Thread
    OBVIOUS
  <2>2. /\ thread[x] # NoThread <=> thread[x] \in Thread
        /\ Mode[x] = IF Granted(x) THEN type[x] ELSE 0
        /\ Mode'[x] = IF Granted(x)' THEN type'[x] ELSE 0
    BY GrantedFacts
  <2>. QED  BY <2>1, <2>2
<1>4. Promised!Compatible(Mode', thread)  BY GrantedGoTogetherNext
<1>. HIDE DEF Mode
<1>. QED  BY <1>1, <1>2, <1>3, <1>4
     DEF Promised!Grant, Promised!Modes, Promised!NoMode, Promised!Closed

-----------------------------------------------------------------------------
(* A statement claims its instances.                                         *)
LEMMA ClaimStep ==
  ASSUME Inductive, Inductive', NEW t \in Thread, thr_multi_lock(t)
  PROVE  Abstract
<1>1. PICK req \in Request[t] :
        /\ \A d \in DOMAIN req : thread[d] = NoThread
        /\ type' = [d \in Data |-> IF d \in DOMAIN req THEN req[d] ELSE type[d]]
        /\ thread' = [d \in Data |-> IF d \in DOMAIN req THEN t ELSE thread[d]]
  BY DEF thr_multi_lock
<1>2. UNCHANGED <<read, write>>  BY DEF thr_multi_lock, lists
<1>3. \A x \in Data : Granted(x) => x \notin DOMAIN req
  BY <1>1, GrantedFacts, Constants
<1>4. Mode' = Mode
  <2>1. \A x \in Data : Granted(x)' <=> Granted(x)  BY <1>2 DEF Granted, Active
  <2>. QED  BY <2>1, <1>1, <1>3 DEF Mode, Granted
<1>5. \A x \in Data : \/ thread'[x] = thread[x]
                      \/ thread[x] = NoThread /\ thread'[x] = t
  BY <1>1
<1>6. thread' \in [Data -> Thread \cup {NoThread}]  BY DEF Inductive, IInv, TypeOK
<1>7. Promised!Claim(t)  BY <1>4, <1>5, <1>6 DEF Promised!Claim, Mode
<1>. QED  BY <1>7 DEF Abstract

(* thr_lock grants a request at once.                                        *)
LEMMA AcquireStep ==
  ASSUME Inductive, Inductive', NEW t \in Thread,
         thr_lock_read(t) \/ thr_lock_write(t)
  PROVE  Abstract
<1>. DEFINE d == This(t)  l == LockOf[d]
<1>1. pc[t] = "lock" /\ thread' = thread  BY DEF thr_lock_read, thr_lock_write
<1>2. d \in Data /\ l \in Lock /\ thread[d] = t /\ ~ Granted(d)
  BY <1>1, ToLockFacts DEF Inductive, Granted, Active, Listed
<1>3. \E rd, wr, rw, ww : /\ Lists(l, rd, rw, wr, ww)
                          /\ rd \cup wr = read[l] \cup Range(write[l]) \cup {d}
  <2>1. TypeOK /\ Control  BY DEF Inductive, IInv
  <2>2. CASE thr_lock_read(t)
    <3>1. Lists(l, read[l] \cup {d}, Range(read_wait[l]), Range(write[l]), Range(write_wait[l]))
      BY <2>1, <2>2, LockReadLists
    <3>2. (read[l] \cup {d}) \cup Range(write[l]) = read[l] \cup Range(write[l]) \cup {d}
      OBVIOUS
    <3>. QED  BY <3>1, <3>2
  <2>3. CASE thr_lock_write(t)
    <3>1. Lists(l, read[l], Range(read_wait[l]), Range(write[l]) \cup {d}, Range(write_wait[l]))
      BY <2>1, <2>3, LockWriteLists
    <3>2. read[l] \cup (Range(write[l]) \cup {d}) = read[l] \cup Range(write[l]) \cup {d}
      OBVIOUS
    <3>. QED  BY <3>1, <3>2
  <2>. QED  BY <2>2, <2>3
<1>4. \A x \in Data : type'[x] = type[x] \/ x = d
  <2>1. type \in [Data -> LockType]  BY DEF Inductive, IInv, TypeOK
  <2>2. \/ type' = type
        \/ \E hole \in BOOLEAN : type' = [type EXCEPT ![d] = EffectiveType(d, hole)]
    BY DEF thr_lock_read, thr_lock_write
  <2>. HIDE DEF d
  <2>. QED  BY <2>1, <2>2
<1>. HIDE DEF d
<1>5. \A x \in Data : Granted(x)' <=> Granted(x) \/ x = d
  <2>. TAKE x \in Data
  <2>. PICK rd, wr, rw, ww : /\ Lists(l, rd, rw, wr, ww)
                             /\ rd \cup wr = read[l] \cup Range(write[l]) \cup {d}
    BY <1>3
  <2>. QED  BY <1>2, GrantedNext DEF Granted, Active
<1>6. Promised!Grant({})
  <2>1. \A x \in Data \ {} : /\ Granted(x) => Granted(x)' /\ type'[x] = type[x]
                             /\ Granted(x)' /\ ~ Granted(x) => thread[x] \in Thread
    BY <1>2, <1>4, <1>5
  <2>. QED  BY <1>1, <2>1, GrantStep
<1>7. \A x \in Data \ {d} : Mode'[x] = Mode[x]
  <2>. TAKE x \in Data \ {d}
  <2>. QED  BY <1>4, <1>5, GrantedFacts
<1>8. Mode[d] = 0  BY <1>2, GrantedFacts
<1>9. Promised!Acquire(t)
  BY <1>2, <1>6, <1>7, <1>8 DEF Promised!Acquire, Promised!NoMode, Mode
<1>. QED  BY <1>9 DEF Abstract

-----------------------------------------------------------------------------
(* A delayed request, a request that waits or fails, and the steps of a loop *)
(* grant and withdraw nothing.                                               *)
LEMMA AsideStep ==
  ASSUME Inductive, NEW t \in Thread,
         \/ thr_lock_delayed(t) \/ thr_lock_refused(t) \/ thr_lock_wait(t)
         \/ wait_killed(t)
  PROVE  Abstract
<1>. DEFINE d == This(t)  l == LockOf[d]
<1>1. thread' = thread
  BY DEF thr_lock_delayed, thr_lock_refused, thr_lock_wait, wait_killed
<1>2. d \in Data /\ l \in Lock /\ ~ Granted(d)
  <2>1. pc[t] = "lock" \/ (pc[t] = "wait" /\ cond[d])
    BY DEF thr_lock_delayed, thr_lock_refused, thr_lock_wait, wait_killed
  <2>2. CASE pc[t] = "lock"
    BY <2>2, ToLockFacts DEF Inductive, Granted, Active, Listed
  <2>3. CASE pc[t] = "wait" /\ cond[d]
    BY <2>3, GrantedFacts, SleeperFacts, Constants
  <2>. QED  BY <2>1, <2>2, <2>3
<1>3. \/ UNCHANGED <<read, write>>
      \/ \E rd, wr, rw, ww : /\ Lists(l, rd, rw, wr, ww)
                             /\ rd \cup wr = read[l] \cup Range(write[l])
  <2>1. TypeOK /\ Control  BY DEF Inductive, IInv
  <2>2. CASE thr_lock_delayed(t)  BY <2>1, <2>2, LockDelayedLists
  <2>3. CASE thr_lock_refused(t)  BY <2>3 DEF thr_lock_refused, lists
  <2>4. CASE thr_lock_wait(t)  BY <2>4 DEF thr_lock_wait
  <2>5. CASE wait_killed(t)  BY <2>5 DEF wait_killed
  <2>. QED  BY <2>2, <2>3, <2>4, <2>5
<1>4. \A x \in Data : type'[x] = type[x] \/ x = d
  <2>1. type \in [Data -> LockType]  BY DEF Inductive, IInv, TypeOK
  <2>2. \/ type' = type
        \/ type' = [type EXCEPT ![d] = TL_UNLOCK]
        \/ \E hole \in BOOLEAN : type' = [type EXCEPT ![d] = EffectiveType(d, hole)]
    BY DEF thr_lock_delayed, thr_lock_refused, thr_lock_wait, wait_killed
  <2>. HIDE DEF d
  <2>. QED  BY <2>1, <2>2
<1>. HIDE DEF d
<1>5. \A x \in Data : Granted(x)' <=> Granted(x)
  <2>. TAKE x \in Data
  <2>1. CASE UNCHANGED <<read, write>>  BY <2>1 DEF Granted, Active
  <2>2. ASSUME NEW rd, NEW wr, NEW rw, NEW ww, Lists(l, rd, rw, wr, ww),
               rd \cup wr = read[l] \cup Range(write[l])
        PROVE  Granted(x)' <=> Granted(x)
    BY <1>2, <2>2, GrantedNext DEF Granted, Active
  <2>. QED  BY <1>3, <2>1, <2>2
<1>. QED  BY <1>1, <1>2, <1>4, <1>5, StutterStep

(* The steps of a loop that touch no list.                                   *)
LEMMA LoopStep ==
  ASSUME Inductive, NEW t \in Thread,
         \/ wait_granted(t) \/ wait_aborted(t) \/ run_done(t) \/ skip_unlock(t)
         \/ kill(t) \/ upgrade_done(t) \/ upgrade_woken(t) \/ inserts_done(t)
  PROVE  Abstract
<1>1. UNCHANGED <<read, write, type, thread>>
  BY DEF wait_granted, wait_aborted, run_done, skip_unlock, kill, upgrade_done,
         upgrade_woken, inserts_done, locks, lists
<1>. QED  BY <1>1, StutterStep DEF Granted, Active

(* A statement ends: nothing of it is granted any more. *)
LEMMA LeaveStep ==
  ASSUME Inductive, NEW t \in Thread, statement_end(t)
  PROVE  Abstract
<1>1. /\ pc[t] = "unlock" /\ pos[t] > Len(plan[t])
      /\ thread' = [d \in Data |-> IF thread[d] = t THEN NoThread ELSE thread[d]]
      /\ UNCHANGED <<read, write, type>>
  BY DEF statement_end, locks, lists
<1>2. \A x \in Data : thread[x] = t => ~ Granted(x)
  <2>. SUFFICES ASSUME NEW x \in Data, thread[x] = t, Granted(x) PROVE FALSE
    OBVIOUS
  <2>1. PICK i \in DOMAIN plan[t] : plan[t][i] = x
    <3>1. x \in Range(plan[t])
      BY DEF Granted, Inductive, IInv, Planned, Listed
    <3>. QED  BY <3>1 DEF Range
  <2>2. Unlocked(t, i)  BY <1>1, <2>1, PlanFacts DEF Unlocked
  <2>. QED  BY <2>1, <2>2 DEF Inductive, IInv, Planned, Listed, Granted
<1>3. \A x \in Data : thread[x] = t => Mode[x] = 0  BY <1>2, GrantedFacts
<1>4. Mode' = Mode  BY <1>1 DEF Mode, Active
<1>5. Promised!Leave(t)
  BY <1>1, <1>3, <1>4 DEF Promised!Leave, Promised!NoMode, Mode
<1>. QED  BY <1>5 DEF Abstract

-----------------------------------------------------------------------------
(* thr_unlock takes one instance away and grants waiting ones.               *)
LEMMA ReleaseStep ==
  ASSUME Inductive, Inductive', NEW t \in Thread, thr_unlock(t)
  PROVE  Abstract
<1>1. /\ pc[t] = "unlock" /\ pos[t] <= Len(plan[t]) /\ type[This(t)] # TL_UNLOCK
      /\ thread' = thread
  BY DEF thr_unlock
<1>d. PICK d \in Data : d = This(t) /\ thread[d] = t
  BY <1>1, OwnInstance
<1>. DEFINE l == LockOf[d]
<1>2. l \in Lock /\ thread[d] = t  BY <1>d, Constants
<1>3. PICK W \in SUBSET Data, R \in SUBSET Data, n \in 0 .. MaxWriteLockCount + 1 :
        LetsIn(d, W, R, n) /\ Unlocks(d, W, R)
  BY <1>d, UnlockLists DEF Inductive
<1>4. /\ W \subseteq Range(write_wait[l]) \ {d} /\ R \subseteq Range(read_wait[l])
      /\ \/ type' = [type EXCEPT ![d] = TL_UNLOCK]
         \/ \E h \in Range(write_wait[l]) \ {d} :
              type' = [type EXCEPT ![d] = TL_UNLOCK, ![h] = TL_WRITE]
  BY <1>3 DEF LetsIn
<1>5. Lists(l, (read[l] \ {d}) \cup R, Range(read_wait[l]) \ R,
               (Range(write[l]) \ {d}) \cup W, Range(write_wait[l]) \ (W \cup {d}))
  BY <1>3 DEF Unlocks
<1>6. \A x \in Range(read_wait[l]) \cup Range(write_wait[l]) :
        x \in Data /\ LockOf[x] = l /\ Waiting(x)
  <2>1. Placed /\ TypeOK  BY DEF Inductive, IInv
  <2>2. Range(read_wait[l]) \subseteq Data /\ Range(write_wait[l]) \subseteq Data
    BY <1>2, <2>1, HeadFacts DEF TypeOK
  <2>. QED  BY <1>2, <2>1, <2>2 DEF Placed, Waiting
<1>7. d \notin R
  <2>1. d \notin Range(read_wait[l])  BY <1>1, <1>d, UnlockListed DEF Inductive
  <2>. QED  BY <1>4, <2>1
<1>8. Mode'[d] = 0
  <2>1. ~ Granted(d)'  BY <1>2, <1>4, <1>5, <1>7, GrantedNext
  <2>. QED  BY <1>2, <2>1, GrantedFacts
<1>9. ASSUME NEW x \in Data \ {d}
      PROVE  /\ Granted(x) => Granted(x)' /\ type'[x] = type[x]
             /\ Granted(x)' /\ ~ Granted(x) => thread[x] \in Thread
  <2>1. Granted(x) => Granted(x)'
    BY <1>2, <1>5, <1>9, GrantedNext DEF Granted, Active
  <2>2. Granted(x)' /\ ~ Granted(x) => x \in R \cup W
    BY <1>2, <1>5, <1>9, GrantedNext DEF Granted, Active
  <2>3. Granted(x) => type'[x] = type[x]
    <3>1. Granted(x) => ~ Waiting(x)  BY GrantedFacts
    <3>2. type \in [Data -> LockType]  BY DEF Inductive, IInv, TypeOK
    <3>3. CASE type' = [type EXCEPT ![d] = TL_UNLOCK]  BY <3>2, <3>3
    <3>4. ASSUME NEW h \in Range(write_wait[l]) \ {d},
                 type' = [type EXCEPT ![d] = TL_UNLOCK, ![h] = TL_WRITE]
          PROVE  Granted(x) => type'[x] = type[x]
      <4>1. Waiting(h)  BY <1>6
      <4>. QED  BY <3>1, <3>2, <3>4, <4>1
    <3>. QED  BY <1>4, <3>3, <3>4
  <2>. QED  BY <1>4, <1>6, <2>1, <2>2, <2>3, GrantedFacts
<1>10. Promised!Grant({d})  BY <1>1, <1>2, <1>9, GrantStep
<1>11. Promised!Release(t)
  BY <1>2, <1>8, <1>10 DEF Promised!Release, Promised!NoMode, Mode
<1>. QED  BY <1>11 DEF Abstract

-----------------------------------------------------------------------------
(* thr_abort_locks closes the first write lock of a table the caller has a   *)
(* lock on, and takes no granted lock away.                                  *)
LEMMA CloseStep ==
  ASSUME Inductive, Inductive', NEW t \in Aborter, thr_abort_locks(t)
  PROVE  Abstract
<1>1. t \in Thread /\ t \notin Handler  BY Constants
<1>2. PICK c \in Range(plan[t]) :
        LET l == LockOf[c]
            waiting == Range(read_wait[l]) \cup Range(write_wait[l])
            closed  == IF write[l] = <<>> THEN {} ELSE {Head(write[l])}
        IN  /\ type[c] # TL_UNLOCK
            /\ pc[t] = "run"
            /\ type' = [d \in Data |-> IF d \in waiting THEN TL_UNLOCK
                                       ELSE IF d \in closed THEN TL_WRITE_ONLY
                                       ELSE type[d]]
            /\ UNCHANGED <<read, write, thread>>
  BY DEF thr_abort_locks, control
<1>. DEFINE l == LockOf[c]
<1>3. /\ c \in Data /\ l \in Lock /\ thread[c] = t /\ Granted(c)
  <2>1. PICK i \in DOMAIN plan[t] : c = plan[t][i]  BY DEF Range
  <2>2. c \in Data /\ thread[c] = t  BY <1>1, <2>1, PlanFacts
  <2>3. ~ ToLock(t, i) /\ ~ Unlocked(t, i)  BY <1>2 DEF ToLock, Unlocked
  <2>4. Listed(c)  BY <1>1, <1>2, <2>1, <2>3 DEF Inductive, IInv, Planned
  <2>5. ~ Waiting(c)
    BY <1>1, <1>2, <2>2 DEF Inductive, IInv, Queued
  <2>. QED  BY <2>2, <2>4, <2>5, Constants DEF Listed, Waiting, Granted
<1>4. \A x \in Data : Granted(x)' <=> Granted(x)  BY <1>2 DEF Granted, Active
<1>5. \A x \in Range(read_wait[l]) \cup Range(write_wait[l]) : x \in Data /\ ~ Granted(x)
  <2>1. Placed /\ TypeOK  BY DEF Inductive, IInv
  <2>2. Range(read_wait[l]) \subseteq Data /\ Range(write_wait[l]) \subseteq Data
    BY <1>3, <2>1, HeadFacts DEF TypeOK
  <2>3. \A x \in Range(read_wait[l]) \cup Range(write_wait[l]) : Waiting(x)
    BY <1>3, <2>1, <2>2 DEF Placed, Waiting
  <2>. QED  BY <2>2, <2>3, GrantedFacts
<1>6. CASE write[l] = <<>>
  <2>1. \A x \in Data : Granted(x) => type'[x] = type[x]  BY <1>2, <1>5, <1>6
  <2>. QED  BY <1>2, <1>4, <2>1, StutterStep
<1>7. CASE write[l] # <<>>
  <2>1. PICK d : d = Head(write[l])  OBVIOUS
  <2>2. d \in Data /\ LockOf[d] = l /\ Granted(d) /\ type[d] \in 5 .. 11
    <3>1. Placed /\ TypeOK  BY DEF Inductive, IInv
    <3>2. d \in Range(write[l]) /\ d \in Data  BY <1>3, <1>7, <2>1, <3>1, HeadFacts DEF TypeOK
    <3>. QED  BY <1>3, <3>1, <3>2 DEF Placed, Granted, Active
  <2>3. \A x \in Data : Granted(x) => type'[x] = IF x = d THEN 11 ELSE type[x]
    BY <1>2, <1>5, <1>7, <2>1
  <2>4. Mode' = [Mode EXCEPT ![d] = 11]
    BY <1>4, <2>2, <2>3 DEF Mode, Granted
  <2>5. Mode[c] # 0 /\ Mode[d] >= 5
    BY <1>3, <2>2, GrantedFacts
  <2>6. Promised!Close(t)
    BY <1>2, <1>3, <2>2, <2>4, <2>5
    DEF Promised!Close, Promised!NoMode, Promised!AllowWrite, Promised!Closed, Mode
  <2>. QED  BY <1>1, <2>6 DEF Abstract
<1>. QED  BY <1>6, <1>7

-----------------------------------------------------------------------------
(* The delayed handler turns its granted lock into an exclusive one, ...     *)
LEMMA UpgradeStep ==
  ASSUME Inductive, Inductive', NEW t \in Handler, upgrade_at_once(t)
  PROVE  Abstract
<1>1. /\ pc[t] \in Handling /\ MustUpgrade(This(t)) /\ ~ cond[This(t)]
      /\ type' = [type EXCEPT ![This(t)] = TL_WRITE]
      /\ UNCHANGED <<read, write, thread>>
  BY DEF upgrade_at_once, Handling, lists
<1>2. /\ t \in Thread /\ This(t) \in Data /\ thread[This(t)] = t /\ Granted(This(t))
      /\ type[This(t)] = TL_WRITE_DELAYED
  <2>1. type[This(t)] = TL_WRITE_DELAYED
    BY <1>1, HandlerFacts DEF MustUpgrade, DelayedTypes, Inductive
  <2>. QED  BY <1>1, <2>1, HandlerFacts DEF Granted, Active, Inductive
<1>3. PICK d \in Data : d = This(t)  BY <1>2
<1>4. \A x \in Data : Granted(x)' <=> Granted(x)  BY <1>1 DEF Granted, Active
<1>5. type \in [Data -> LockType]  BY DEF Inductive, IInv, TypeOK
<1>6. Mode' = [Mode EXCEPT ![d] = 10]
  BY <1>1, <1>2, <1>3, <1>4, <1>5 DEF Mode, Granted
<1>7. Mode[d] = 8  BY <1>2, <1>3, GrantedFacts
<1>8. Promised!Grant({d})
  <2>1. \A x \in Data \ {d} : /\ Granted(x) => Granted(x)' /\ type'[x] = type[x]
                              /\ Granted(x)' /\ ~ Granted(x) => thread[x] \in Thread
    BY <1>1, <1>3, <1>4, <1>5
  <2>. QED  BY <1>1, <2>1, GrantStep
<1>9. Promised!Upgrade(t)
  BY <1>2, <1>3, <1>6, <1>7, <1>8
  DEF Promised!Upgrade, Promised!Delayed, Promised!Exclusive, Mode
<1>. QED  BY <1>2, <1>9 DEF Abstract

(* ... or puts it back on the queue, to let the readers end or begin.        *)
LEMMA RequeueStep ==
  ASSUME Inductive, Inductive', NEW t \in Handler,
         upgrade_wait(t) \/ thr_reschedule_write_lock(t)
  PROVE  Abstract
<1>1. /\ pc[t] \in Handling /\ thread' = thread /\ type[This(t)] # TL_UNLOCK
  BY DEF upgrade_wait, thr_reschedule_write_lock, Handling, MustUpgrade
<1>2. PICK d \in Data : /\ d = This(t) /\ t \in Thread /\ thread[d] = t
                        /\ cond[d] => d \in Range(write_wait[LockOf[d]])
  BY <1>1, HandlerFacts DEF Inductive
<1>. DEFINE l == LockOf[d]
<1>3. l \in Lock  BY Constants
<1>4. \A x \in Data \ {d} : type'[x] = type[x]
  <2>1. type \in [Data -> LockType]  BY DEF Inductive, IInv, TypeOK
  <2>2. \E k : type' = [type EXCEPT ![d] = k]
    BY <1>2 DEF upgrade_wait, thr_reschedule_write_lock
  <2>. QED  BY <2>1, <2>2
<1>5. CASE upgrade_wait(t) /\ cond[d]
  <2>1. UNCHANGED <<read, write>>  BY <1>2, <1>5 DEF upgrade_wait
  <2>2. ~ Granted(d)  BY <1>5, GrantedFacts
  <2>. QED  BY <1>1, <1>4, <2>1, <2>2, StutterStep DEF Granted, Active
<1>6. CASE ~ (upgrade_wait(t) /\ cond[d])
  <2>1. /\ write' = [write EXCEPT ![l] = Without(@, d)]
        /\ write_wait' = [write_wait EXCEPT ![l] = <<d>> \o @]
        /\ \/ UNCHANGED <<read, read_wait>>
           \/ /\ read' = [read EXCEPT ![l] = @ \cup Range(read_wait[l])]
              /\ read_wait' = [read_wait EXCEPT ![l] = <<>>]
    BY <1>2, <1>6 DEF upgrade_wait, thr_reschedule_write_lock
  <2>2. \/ Lists(l, read[l], Range(read_wait[l]), Range(write[l]) \ {d},
                  Range(write_wait[l]) \cup {d})
        \/ Lists(l, read[l] \cup Range(read_wait[l]), {}, Range(write[l]) \ {d},
                 Range(write_wait[l]) \cup {d})
    BY <2>1, RequeueLists DEF Inductive, IInv
  <2>3. ~ Granted(d)'
    <3>1. d \in Range(write_wait'[l])  BY <2>2 DEF Lists
    <3>2. Waiting(d)'  BY <3>1 DEF Waiting
    <3>3. Waiting(d)' => ~ Granted(d)'  BY WaitsApart
    <3>. QED  BY <3>2, <3>3
  <2>4. Mode'[d] = 0  BY <2>3, GrantedFacts
  <2>5. ASSUME NEW x \in Data \ {d}
        PROVE  /\ Granted(x) => Granted(x)' /\ type'[x] = type[x]
               /\ Granted(x)' /\ ~ Granted(x) => thread[x] \in Thread
    <3>1. Granted(x) => Granted(x)'
      BY <1>3, <2>2, <2>5, GrantedNext DEF Granted, Active
    <3>2. Granted(x)' /\ ~ Granted(x) => x \in Range(read_wait[l]) /\ LockOf[x] = l
      BY <1>3, <2>2, <2>5, GrantedNext DEF Granted, Active
    <3>. QED  BY <1>4, <2>5, <3>1, <3>2, GrantedFacts DEF Waiting
  <2>6. Promised!Grant({d})  BY <1>1, <2>5, GrantStep
  <2>7. Promised!Release(t)
    BY <1>2, <2>4, <2>6 DEF Promised!Release, Promised!NoMode, Mode
  <2>. QED  BY <1>2, <2>7 DEF Abstract
<1>. QED  BY <1>5, <1>6

-----------------------------------------------------------------------------
(* The initial state, and every step. *)
LEMMA InitPromised == Init => Promised!Init
BY DEF Init, Promised!Init, Promised!NoMode, Active, Range

(* Every step of the manager is a step of its promise, or a stutter.         *)
LEMMA EveryStep ==
  ASSUME Inductive, Inductive', [Next]_vars
  PROVE  Abstract
<1>1. CASE UNCHANGED vars
  <2>1. UNCHANGED <<read, write, type, thread>>  BY <1>1 DEF vars
  <2>. QED  BY <2>1, StutterStep DEF Granted, Active
<1>2. ASSUME NEW t \in Thread, thr_multi_lock(t) \/ Step(t)
      PROVE  Abstract
  <2>1. CASE thr_multi_lock(t)  BY <2>1, ClaimStep
  <2>2. CASE thr_lock_read(t) \/ thr_lock_write(t)  BY <2>2, AcquireStep
  <2>3. CASE \/ thr_lock_delayed(t) \/ thr_lock_refused(t) \/ thr_lock_wait(t)
             \/ wait_killed(t)
    BY <2>3, AsideStep
  <2>4. CASE \/ wait_granted(t) \/ wait_aborted(t) \/ run_done(t) \/ skip_unlock(t)
    BY <2>4, LoopStep
  <2>5. CASE thr_unlock(t)  BY <2>5, ReleaseStep
  <2>6. CASE statement_end(t)  BY <2>6, LeaveStep
  <2>. QED  BY <1>2, <2>1, <2>2, <2>3, <2>4, <2>5, <2>6 DEF Step
<1>3. ASSUME NEW t \in Handler, Upgrade(t)
      PROVE  Abstract
  <2>. t \in Thread  BY Constants
  <2>1. CASE upgrade_done(t) \/ upgrade_woken(t) \/ inserts_done(t)
    BY <2>1, LoopStep
  <2>2. CASE upgrade_at_once(t)  BY <2>2, UpgradeStep
  <2>3. CASE upgrade_wait(t) \/ thr_reschedule_write_lock(t)  BY <2>3, RequeueStep
  <2>. QED  BY <1>3, <2>1, <2>2, <2>3 DEF Upgrade
<1>4. ASSUME NEW t \in Aborter, thr_abort_locks(t)
      PROVE  Abstract
  BY <1>4, CloseStep
<1>5. ASSUME NEW t \in Killable, kill(t)
      PROVE  Abstract
  BY <1>5, LoopStep, Constants
<1>. QED  BY <1>1, <1>2, <1>3, <1>4, <1>5 DEF Next

(* Whatever a table's queues hold, each step of the lock manager grants only *)
(* locks that go together and that a thread asked for, and takes a granted   *)
(* lock away from nobody but its owner: thr_lock.c implements TableLock.     *)
THEOREM Refines == Spec => KeepsPromises
<1>1. Abstract => [Promised!Next]_(Promised!tlvars)
  BY DEF Abstract, Stutters, Mode, Promised!Next, Promised!tlvars
<1>2. Inductive /\ Inductive' /\ [Next]_vars => [Promised!Next]_(Promised!tlvars)
  BY <1>1, EveryStep
<1>. QED
  BY <1>2, InitPromised, InvariantHolds, PTL DEF Spec, KeepsPromises, Promised!Spec

-----------------------------------------------------------------------------
(* No set of threads waits for itself.                                       *)

(* No statement asks for the two kinds of lock that statements share in this *)
(* way, TL_READ_NO_INSERT and TL_WRITE_ALLOW_WRITE, twice on one table: it   *)
(* could wait for itself.                                                    *)
NoTypeTwice ==
  \A t \in Thread : \A req \in Request[t] : \A c, d \in DOMAIN req :
    c # d /\ LockOf[c] = LockOf[d] /\ req[c] = req[d]
      => req[d] \notin {TL_READ_NO_INSERT, TL_WRITE_ALLOW_WRITE}

OneShared ==
  \A c, d \in Data :
    /\ c # d /\ LockOf[c] = LockOf[d] /\ type[c] = type[d]
    /\ thread[c] = thread[d] /\ thread[d] \in Thread
    => type[d] \notin {TL_READ_NO_INSERT, TL_WRITE_ALLOW_WRITE}

(* A plan is sorted by lock, and within a lock by falling type of the reads, *)
(* with the writes before them.                                              *)
Ordered ==
  \A t \in Thread : \A i, j \in DOMAIN plan[t] : i < j =>
    /\ LockOf[plan[t][i]] <= LockOf[plan[t][j]]
    /\ LockOf[plan[t][i]] = LockOf[plan[t][j]] /\ type[plan[t][i]] \in ReadType
         => type[plan[t][j]] <= type[plan[t][i]]

(* A write lock that thr_abort_locks has closed is the first of its list.    *)
ClosedFirst ==
  \A l \in Lock : \A d \in Range(write[l]) :
    type[d] = TL_WRITE_ONLY => d = Head(write[l])

(* Nothing waits for a table nobody uses, and no thread for its own lock.    *)
InUse ==
  \A l \in Lock : Active(l) = {} => read_wait[l] = <<>> /\ write_wait[l] = <<>>

NotItself ==
  \A t \in Sleeping : \A d \in Active(LockOf[This(t)]) : thread[d] # t

Orderly == OneShared /\ Ordered /\ ClosedFirst /\ InUse /\ NotItself

(* A read stays the read that was asked for, and a write stays a write.      *)
TypeKept(x) ==
  /\ type'[x] \in 1 .. 4 => type[x] = type'[x]
  /\ type'[x] \in 5 .. 11 => type[x] \in 5 .. 11
  /\ type'[x] = 5 => type[x] = 5

(* It is not closed. *)
NotClosed(x) == type'[x] = TL_WRITE_ONLY => type[x] = TL_WRITE_ONLY

(* The instance thr_lock gives or queues. *)
LEMMA LockTypes ==
  ASSUME Inductive, NEW t \in Thread,
         thr_lock_write(t) \/ thr_lock_wait(t) \/ thr_lock_refused(t) \/ wait_killed(t),
         NEW x \in Data
  PROVE  TypeKept(x) /\ NotClosed(x)
<1>. DEFINE d == This(t)
<1>1. type \in [Data -> LockType]  BY DEF Inductive, IInv, TypeOK
<1>2. CASE type' = type  BY <1>2 DEF TypeKept, NotClosed
<1>3. CASE type' = [type EXCEPT ![d] = TL_UNLOCK]
  <2>. HIDE DEF d
  <2>. QED  BY <1>1, <1>3 DEF TypeKept, NotClosed
<1>4. ASSUME NEW hole \in BOOLEAN, pc[t] = "lock", ~ IsRead(d),
             type' = [type EXCEPT ![d] = EffectiveType(d, hole)]
      PROVE  TypeKept(x) /\ NotClosed(x)
  <2>1. /\ type[d] \in 5 .. 10
        /\ \/ EffectiveType(d, hole) = type[d]
           \/ EffectiveType(d, hole) \in {9, 10}
    BY <1>4, EffectiveTypeFacts DEF Inductive
  <2>. HIDE DEF d
  <2>. QED  BY <1>1, <1>4, <2>1 DEF TypeKept, NotClosed
<1>. QED  BY <1>2, <1>3, <1>4 DEF thr_lock_write, thr_lock_wait, thr_lock_refused, wait_killed

(* thr_unlock *)
LEMMA UnlockTypes ==
  ASSUME Inductive, NEW t \in Thread, thr_unlock(t), NEW x \in Data
  PROVE  TypeKept(x) /\ NotClosed(x)
<1>1. type \in [Data -> LockType]  BY DEF Inductive, IInv, TypeOK
<1>2. PICK d \in Data : d = This(t)  BY OwnInstance DEF thr_unlock
<1>3. PICK W \in SUBSET Data, R \in SUBSET Data, n \in 0 .. MaxWriteLockCount + 1 :
        LetsIn(d, W, R, n)
  BY <1>2, UnlockLists DEF Inductive
<1>4. \/ type' = [type EXCEPT ![d] = 0]
      \/ \E h : type[h] = 7 /\ type' = [type EXCEPT ![d] = 0, ![h] = 10]
  BY <1>3 DEF LetsIn
<1>. QED  BY <1>1, <1>4 DEF TypeKept, NotClosed

(* thr_abort_locks *)
LEMMA AbortTypes ==
  ASSUME Inductive, NEW t \in Aborter, thr_abort_locks(t), NEW x \in Data
  PROVE  TypeKept(x)
<1>1. t \in Thread  BY Constants
<1>2. PICK c \in Range(plan[t]) :
        LET l == LockOf[c]
            waiting == Range(read_wait[l]) \cup Range(write_wait[l])
            closed  == IF write[l] = <<>> THEN {} ELSE {Head(write[l])}
        IN  type' = [d \in Data |-> IF d \in waiting THEN TL_UNLOCK
                                    ELSE IF d \in closed THEN TL_WRITE_ONLY
                                    ELSE type[d]]
  BY DEF thr_abort_locks
<1>3. c \in Data  BY <1>1, PlanFacts DEF Range
<1>4. LockOf[c] \in Lock  BY <1>3, Constants
<1>5. write[LockOf[c]] # <<>> => type[Head(write[LockOf[c]])] \in 5 .. 11
  <2>1. Placed /\ TypeOK  BY DEF Inductive, IInv
  <2>2. write[LockOf[c]] \in Seq(Data)  BY <1>4, <2>1 DEF TypeOK
  <2>. QED  BY <1>4, <2>1, <2>2, HeadFacts DEF Placed
<1>6. type'[x] \in {type[x], TL_UNLOCK}
      \/ (type'[x] = TL_WRITE_ONLY /\ write[LockOf[c]] # <<>> /\ x = Head(write[LockOf[c]]))
  BY <1>2
<1>. QED  BY <1>5, <1>6 DEF TypeKept

(* The delayed handler. *)
LEMMA HandlerTypes ==
  ASSUME Inductive, NEW t \in Handler, Upgrade(t), NEW x \in Data
  PROVE  TypeKept(x) /\ NotClosed(x)
<1>1. type \in [Data -> LockType]  BY DEF Inductive, IInv, TypeOK
<1>2. CASE type' = type  BY <1>2 DEF TypeKept, NotClosed
<1>3. CASE type' # type
  <2>1. /\ pc[t] \in Handling /\ type[This(t)] # TL_UNLOCK
        /\ \/ type' = [type EXCEPT ![This(t)] = TL_WRITE]
           \/ type' = [type EXCEPT ![This(t)] = TL_WRITE_DELAYED]
    BY <1>3 DEF Upgrade, upgrade_done, upgrade_at_once, upgrade_wait, upgrade_woken,
       thr_reschedule_write_lock, inserts_done, locks, Handling, MustUpgrade
  <2>2. type[This(t)] \in 5 .. 11
    BY <2>1, HandlerFacts DEF Inductive, DelayedTypes
  <2>. QED  BY <1>1, <2>1, <2>2 DEF TypeKept, NotClosed
<1>. QED  BY <1>2, <1>3

-----------------------------------------------------------------------------
(* A plan loses only instances at its end.                                   *)
PlanCut(u) ==
  /\ plan[u] \in Seq(Data) /\ plan'[u] \in Seq(Data)
  /\ \A i \in DOMAIN plan'[u] : i \in DOMAIN plan[u] /\ plan'[u][i] = plan[u][i]

(* No step of a statement does more to a plan.                               *)
LEMMA PlansCut ==
  ASSUME Inductive, Inductive', NEW t \in Thread, NEW u \in Thread,
         \/ plan' = plan
         \/ plan' = [plan EXCEPT ![t] = <<>>]
         \/ /\ plan' = [plan EXCEPT ![t] = SubSeq(@, 1, pos[t] - 1)]
            /\ pc[t] \in {"lock", "wait"}
  PROVE  PlanCut(u)
<1>1. plan \in [Thread -> Seq(Data)] /\ plan' \in [Thread -> Seq(Data)]
  BY DEF Inductive, IInv, TypeOK
<1>2. CASE u # t \/ plan' = plan  BY <1>1, <1>2 DEF PlanCut
<1>3. CASE u = t /\ plan' = [plan EXCEPT ![t] = <<>>]  BY <1>1, <1>3 DEF PlanCut
<1>4. CASE u = t /\ pc[t] \in {"lock", "wait"}
           /\ plan' = [plan EXCEPT ![t] = SubSeq(@, 1, pos[t] - 1)]
  <2>1. pos[t] \in DOMAIN plan[t] /\ pos[t] \in Nat \ {0}  BY <1>4, PlanFacts
  <2>2. pos[t] <= Len(plan[t])  BY <1>1, <2>1
  <2>3. plan'[t] = SubSeq(plan[t], 1, pos[t] - 1)  BY <1>1, <1>4
  <2>. QED  BY <1>1, <1>4, <2>1, <2>2, <2>3 DEF PlanCut
<1>. QED  BY <1>2, <1>3, <1>4

(* What a step does to the types and plans keeps these two. *)
LEMMA RequestsKept ==
  ASSUME Inductive, Inductive', OneShared, Ordered,
         \A x \in Data : /\ TypeKept(x)
                         /\ thread'[x] \in Thread => thread'[x] = thread[x],
         \A u \in Thread : PlanCut(u)
  PROVE  OneShared' /\ Ordered'
<1>1. OneShared'  BY DEF OneShared, TypeKept
<1>2. ASSUME NEW u \in Thread, NEW i \in DOMAIN plan'[u], NEW j \in DOMAIN plan'[u], i < j
      PROVE  /\ LockOf[plan'[u][i]] <= LockOf[plan'[u][j]]
             /\ LockOf[plan'[u][i]] = LockOf[plan'[u][j]] /\ type'[plan'[u][i]] \in 1 .. 4
                  => type'[plan'[u][j]] <= type'[plan'[u][i]]
  <2>1. /\ i \in DOMAIN plan[u] /\ plan'[u][i] = plan[u][i] /\ plan[u][i] \in Data
        /\ j \in DOMAIN plan[u] /\ plan'[u][j] = plan[u][j] /\ plan[u][j] \in Data
    BY <1>2, PlanFacts DEF PlanCut
  <2>2. /\ LockOf[plan[u][i]] <= LockOf[plan[u][j]]
        /\ LockOf[plan[u][i]] = LockOf[plan[u][j]] /\ type[plan[u][i]] \in 1 .. 4
             => type[plan[u][j]] <= type[plan[u][i]]
    BY <1>2, <2>1 DEF Ordered
  <2>3. TypeKept(plan[u][i]) /\ TypeKept(plan[u][j])  BY <2>1
  <2>4. type'[plan[u][j]] \in 0 .. 11 /\ type[plan[u][j]] \in 0 .. 11
    BY <2>1 DEF Inductive, IInv, TypeOK
  <2>. QED  BY <2>1, <2>2, <2>3, <2>4 DEF TypeKept
<1>3. Ordered'  BY <1>2 DEF Ordered
<1>. QED  BY <1>1, <1>3

(* A statement begins with a sorted plan. *)
LEMMA RequestsBegin ==
  ASSUME Inductive, Inductive', NoTypeTwice, OneShared, Ordered,
         NEW t \in Thread, thr_multi_lock(t)
  PROVE  OneShared' /\ Ordered' /\ \A x \in Data : type'[x] = 11 => type[x] = 11
<1>1. PICK req \in Request[t] :
        /\ \A d \in DOMAIN req : thread[d] = NoThread
        /\ type' = [d \in Data |-> IF d \in DOMAIN req THEN req[d] ELSE type[d]]
        /\ thread' = [d \in Data |-> IF d \in DOMAIN req THEN t ELSE thread[d]]
        /\ \E s \in Bijection(1 .. Cardinality(DOMAIN req), DOMAIN req) :
             /\ SortedPlan(s, req)
             /\ plan' = [plan EXCEPT ![t] = s]
  BY DEF thr_multi_lock
<1>2. /\ DOMAIN req \in SUBSET Data /\ \A x \in DOMAIN req : req[x] \in 1 .. 10
  BY RequestFacts
<1>3. PICK s \in Bijection(1 .. Cardinality(DOMAIN req), DOMAIN req) :
        SortedPlan(s, req) /\ plan' = [plan EXCEPT ![t] = s]
  BY <1>1
<1>4. OneShared'
  <2>. SUFFICES ASSUME NEW c \in Data, NEW d \in Data, c # d, LockOf[c] = LockOf[d],
                       type'[c] = type'[d], thread'[c] = thread'[d], thread'[d] \in Thread
                PROVE  type'[d] \notin {4, 5}
    BY DEF OneShared
  <2>1. t \in Thread /\ pc[t] = "idle"  BY DEF thr_multi_lock
  <2>2. \A x \in Data : thread[x] # t  BY <2>1 DEF Inductive, IInv, Control
  <2>3. CASE thread'[d] = t
    <3>1. c \in DOMAIN req /\ d \in DOMAIN req  BY <1>1, <2>2, <2>3
    <3>. QED  BY <1>1, <3>1 DEF NoTypeTwice
  <2>4. CASE thread'[d] # t
    <3>1. c \notin DOMAIN req /\ d \notin DOMAIN req  BY <1>1, <2>4
    <3>. QED  BY <1>1, <3>1 DEF OneShared
  <2>. QED  BY <2>3, <2>4
<1>5. plan \in [Thread -> Seq(Data)]  BY DEF Inductive, IInv, TypeOK
<1>6. ASSUME NEW u \in Thread, NEW i \in DOMAIN plan'[u], NEW j \in DOMAIN plan'[u], i < j
      PROVE  /\ LockOf[plan'[u][i]] <= LockOf[plan'[u][j]]
             /\ LockOf[plan'[u][i]] = LockOf[plan'[u][j]] /\ type'[plan'[u][i]] \in 1 .. 4
                  => type'[plan'[u][j]] <= type'[plan'[u][i]]
  <2>1. CASE u = t
    <3>1. plan'[u] = s  BY <1>3, <1>5, <2>1
    <3>2. s[i] \in DOMAIN req /\ s[j] \in DOMAIN req
      BY <1>3, <1>6, <3>1 DEF Bijection, Injection, Surjection
    <3>3. ~ LOCK_CMP(s[j], s[i], req)  BY <1>3, <1>6, <3>1 DEF SortedPlan
    <3>4. LockOf[s[i]] \in Nat /\ LockOf[s[j]] \in Nat
      BY <1>2, <3>2, ThrLockAssumption
    <3>5. type'[s[i]] = req[s[i]] /\ type'[s[j]] = req[s[j]]  BY <1>1, <1>2, <3>2
    <3>. QED  BY <1>2, <3>1, <3>2, <3>3, <3>4, <3>5 DEF LOCK_CMP
  <2>2. CASE u # t
    <3>1. plan'[u] = plan[u]  BY <1>3, <1>5, <2>2
    <3>2. /\ plan[u][i] \in Data /\ thread[plan[u][i]] = u
          /\ plan[u][j] \in Data /\ thread[plan[u][j]] = u
      BY <1>6, <3>1, PlanFacts
    <3>3. type'[plan[u][i]] = type[plan[u][i]] /\ type'[plan[u][j]] = type[plan[u][j]]
      BY <1>1, <3>2, Constants
    <3>. QED  BY <1>6, <3>1, <3>3 DEF Ordered
  <2>. QED  BY <2>1, <2>2
<1>7. Ordered'  BY <1>6 DEF Ordered
<1>. QED  BY <1>1, <1>2, <1>4, <1>7

-----------------------------------------------------------------------------
(* The lists: what waits has something to wait for.                          *)

(* A step that leaves no waiter on a free table.                             *)
LEMMA InUseKept ==
  ASSUME InUse, NEW l \in Lock, NEW rd, NEW rw, NEW wr, NEW ww,
         Lists(l, rd, rw, wr, ww), rd \cup wr = {} => rw = {} /\ ww = {}
  PROVE  InUse'
<1>. SUFFICES ASSUME NEW m \in Lock, Active(m)' = {}
              PROVE  read_wait'[m] = <<>> /\ write_wait'[m] = <<>>
  BY DEF InUse
<1>1. read_wait'[m] \in Seq(Data) /\ write_wait'[m] \in Seq(Data)  BY DEF Lists
<1>2. CASE m = l
  <2>1. Range(read_wait'[m]) = {} /\ Range(write_wait'[m]) = {}
    BY <1>2 DEF Lists, Active
  <2>. QED  BY <1>1, <2>1, HeadFacts
<1>3. CASE m # l  BY <1>3 DEF Lists, Active, InUse
<1>. QED  BY <1>2, <1>3

(* thr_lock queues a request only behind another. *)
LEMMA RefusedInUse ==
  ASSUME Inductive, InUse, NEW t \in Thread, thr_lock_wait(t)
  PROVE  Active(LockOf[This(t)]) # {}
<1>. DEFINE d == This(t)  l == LockOf[d]
<1>1. /\ pc[t] = "lock"
      /\ \/ ~ MayRead(d)
         \/ \E hole \in BOOLEAN : ~ MayWrite(d, EffectiveType(d, hole))
  BY DEF thr_lock_wait
<1>2. d \in Data /\ l \in Lock  BY <1>1, ToLockFacts DEF Inductive
<1>3. write[l] \in Seq(Data)  BY <1>2 DEF Inductive, IInv, TypeOK
<1>4. CASE write[l] # <<>>  BY <1>3, <1>4, HeadFacts DEF Active
<1>5. CASE write[l] = <<>>
  <2>1. CASE ~ MayRead(d)
    <3>1. write_wait[l] # <<>>  BY <1>5, <2>1 DEF MayRead, HeadType
    <3>. QED  BY <1>2, <3>1 DEF InUse
  <2>2. ASSUME NEW hole \in BOOLEAN, ~ MayWrite(d, EffectiveType(d, hole))
        PROVE  Active(l) # {}
    <3>1. write_wait[l] # <<>> \/ read[l] # {}  BY <1>5, <2>2 DEF MayWrite
    <3>. QED  BY <1>2, <3>1 DEF InUse, Active
  <2>. QED  BY <1>1, <2>1, <2>2
<1>. QED  BY <1>4, <1>5

(* The steps of thr_lock, and a KILL that ends a wait.                       *)
LEMMA LockInUse ==
  ASSUME Inductive, InUse, NEW t \in Thread,
         \/ thr_lock_read(t) \/ thr_lock_write(t) \/ thr_lock_delayed(t)
         \/ thr_lock_wait(t) \/ wait_killed(t)
  PROVE  InUse'
<1>. DEFINE d == This(t)  l == LockOf[d]
<1>1. TypeOK /\ Control  BY DEF Inductive, IInv
<1>2. d \in Data /\ l \in Lock
  BY <1>1, ThisFacts DEF thr_lock_read, thr_lock_write, thr_lock_delayed,
     thr_lock_wait, wait_killed
<1>3. CASE thr_lock_read(t)
  <2>1. Lists(l, read[l] \cup {d}, Range(read_wait[l]), Range(write[l]), Range(write_wait[l]))
    BY <1>1, <1>3, LockReadLists
  <2>. QED  BY <1>2, <2>1, InUseKept
<1>4. CASE thr_lock_write(t)
  <2>1. Lists(l, read[l], Range(read_wait[l]), Range(write[l]) \cup {d}, Range(write_wait[l]))
    BY <1>1, <1>4, LockWriteLists
  <2>. QED  BY <1>2, <2>1, InUseKept
<1>5. CASE thr_lock_delayed(t)
  <2>1. Lists(l, read[l], Range(read_wait[l]), Range(write[l]),
              Range(write_wait[l]) \cup {d})
    BY <1>1, <1>5, LockDelayedLists
  <2>2. read[l] \cup Range(write[l]) # {}
    BY <1>5 DEF thr_lock_delayed, QueueDelayed, Active
  <2>. QED  BY <1>2, <2>1, <2>2, InUseKept
<1>6. CASE thr_lock_wait(t)
  <2>1. read[l] \cup Range(write[l]) # {}  BY <1>6, RefusedInUse DEF Active
  <2>2. \E rw, ww : Lists(l, read[l], rw, Range(write[l]), ww)
    BY <1>1, <1>6, LockWaitLists
  <2>. QED  BY <1>2, <2>1, <2>2, InUseKept
<1>7. CASE wait_killed(t)
  <2>1. Lists(l, read[l], Range(read_wait[l]) \ {d}, Range(write[l]),
              Range(write_wait[l]) \ {d})
    BY <1>1, <1>7, KilledLists
  <2>2. read[l] \cup Range(write[l]) = {} =>
          Range(read_wait[l]) = {} /\ Range(write_wait[l]) = {}
    BY <1>2, EmptyFacts DEF InUse, Active
  <2>. QED  BY <1>2, <2>1, <2>2, InUseKept
<1>. QED  BY <1>3, <1>4, <1>5, <1>6, <1>7

(* thr_unlock leaves a table free only when nothing waits for it. *)
LEMMA FreedEmpty ==
  ASSUME Inductive, NEW d \in Data,
         \/ unlock_gives_nothing(d) \/ unlock_gives_reads(d)
         \/ unlock_gives_writes(d) \/ unlock_adds_writes(d),
         read'[LockOf[d]] = {}, Range(write'[LockOf[d]]) = {}, FreesTable(d)
  PROVE  RestWriteWait(d) = <<>> /\ read_wait[LockOf[d]] = <<>>
<1>. DEFINE l == LockOf[d]  ww == RestWriteWait(d)  h == Head(ww)
<1>1. l \in Lock /\ TypeOK  BY Constants DEF Inductive, IInv
<1>2. /\ write_wait[l] \in Seq(Data) /\ write[l] \in Seq(Data) /\ read_wait[l] \in Seq(Data)
      /\ type \in [Data -> LockType]
  BY <1>1 DEF TypeOK
<1>3. ww \in Seq(Data) /\ Range(ww) \subseteq Range(write_wait[l])
  BY <1>2, SubListFacts DEF RestWriteWait, Without
<1>4. CASE unlock_gives_nothing(d)
  <2>1. ~ GivesWrites(d) /\ ~ GivesReads(d)  BY <1>4 DEF unlock_gives_nothing
  <2>2. WritesFirst(d) => ww = <<>>
    BY <2>1 DEF GivesWrites, GivesReads
  <2>3. ~ WritesFirst(d)  BY <2>2 DEF WritesFirst
  <2>4. read_wait[l] = <<>>  BY <2>1, <2>3 DEF GivesReads
  <2>5. ww = <<>>  BY <2>3, <2>4 DEF WritesFirst, HeadType
  <2>. QED  BY <2>4, <2>5
<1>5. CASE unlock_gives_reads(d)
  <2>1. read_wait[l] # <<>>  BY <1>5 DEF unlock_gives_reads, GivesReads
  <2>2. FreedReads(l, FALSE) = Range(read_wait[l])  BY DEF FreedReads
  <2>3. read'[l] = (read[l] \ {d}) \cup Range(read_wait[l])
    BY <1>1, <1>5, <2>2 DEF unlock_gives_reads, HandOver, TypeOK
  <2>. QED  BY <1>2, <2>1, <2>3, HeadFacts
<1>6. CASE unlock_gives_writes(d)
  <2>. DEFINE W == GrantedWrites(ww)
  <2>1. ww # <<>>  BY <1>6 DEF unlock_gives_writes, GivesWrites, WritesFirst
  <2>2. h \in W /\ W \subseteq Range(write_wait[l])
    <3>1. 1 \in DOMAIN ww /\ h = ww[1] /\ h \in Range(ww)
      BY <1>3, <2>1, HeadFacts
    <3>2. type[h] = 5 => h \in W
      <4>1. type[h] = 5 => \A k \in 1 .. 1 : type[ww[k]] = 5  BY <3>1
      <4>. QED  BY <2>1, <3>1, <4>1 DEF GrantedWrites, HeadType
    <3>3. type[h] # 5 => h \in W  BY <2>1 DEF GrantedWrites, HeadType
    <3>. QED  BY <1>3, <2>1, <3>2, <3>3, GrantedWritesFacts
  <2>3. write'[l] = Without(write[l], d) \o SubList(write_wait[l], W)
    BY <1>1, <1>6 DEF unlock_gives_writes, HandOver, TypeOK
  <2>. HIDE DEF W, h
  <2>4. /\ Without(write[l], d) \in Seq(Data)
        /\ SubList(write_wait[l], W) \in Seq(Data)
        /\ Range(SubList(write_wait[l], W)) = Range(write_wait[l]) \cap W
    BY <1>2, SubListFacts DEF Without
  <2>5. h \in Range(write'[l])  BY <2>2, <2>3, <2>4, ConcatFacts
  <2>. QED  BY <2>5
<1>7. CASE unlock_adds_writes(d)
  BY <1>7 DEF unlock_adds_writes, AddsWrites, LeavesReads, FreesTable
<1>. QED  BY <1>4, <1>5, <1>6, <1>7

(* thr_unlock *)
LEMMA UnlockInUse ==
  ASSUME Inductive, InUse, NEW t \in Thread, thr_unlock(t)
  PROVE  InUse'
<1>1. PICK d \in Data : d = This(t)  BY OwnInstance DEF thr_unlock
<1>. DEFINE l == LockOf[d]
<1>2. l \in Lock /\ TypeOK  BY Constants DEF Inductive, IInv
<1>3. PICK W \in SUBSET Data, R \in SUBSET Data :
        Lists(l, (read[l] \ {d}) \cup R, Range(read_wait[l]) \ R,
              (Range(write[l]) \ {d}) \cup W, Range(write_wait[l]) \ (W \cup {d}))
  BY <1>1, UnlockLists DEF Inductive, Unlocks
<1>4. ASSUME (read[l] \ {d}) \cup R \cup ((Range(write[l]) \ {d}) \cup W) = {}
      PROVE  Range(read_wait[l]) = {} /\ Range(write_wait[l]) \ {d} = {}
  <2>1. FreesTable(d)
    <3>1. read[l] \ {d} = {} /\ Range(write[l]) \ {d} = {}  BY <1>4
    <3>2. write[l] \in Seq(Data)  BY <1>2 DEF TypeOK
    <3>3. Without(write[l], d) \in Seq(Data)
          /\ Range(Without(write[l], d)) = Range(write[l]) \cap (Data \ {d})
      BY <3>2, SubListFacts DEF Without
    <3>4. Without(write[l], d) = <<>>  BY <3>1, <3>3, HeadFacts
    <3>. QED  BY <3>1, <3>4 DEF FreesTable, RestWrite, RestRead
  <2>2. read'[l] = {} /\ Range(write'[l]) = {}  BY <1>3, <1>4 DEF Lists
  <2>3. RestWriteWait(d) = <<>> /\ read_wait[l] = <<>>
    BY <1>1, <2>1, <2>2, FreedEmpty DEF thr_unlock
  <2>4. write_wait[l] \in Seq(Data)  BY <1>2 DEF TypeOK
  <2>5. Range(RestWriteWait(d)) = Range(write_wait[l]) \ {d}
    <3>1. Range(write_wait[l]) \subseteq Data  BY <2>4, HeadFacts
    <3>. QED  BY <2>4, <3>1, SubListFacts DEF RestWriteWait, Without
  <2>. QED  BY <2>3, <2>5, EmptyFacts
<1>. QED  BY <1>2, <1>3, <1>4, InUseKept

(* thr_abort_locks empties the queues, the delayed handler goes on a queue   *)
(* while readers are there, and the other steps do not touch the lists.      *)
LEMMA RequeueInUse ==
  ASSUME Inductive, InUse, NEW t \in Handler,
         upgrade_wait(t) \/ thr_reschedule_write_lock(t)
  PROVE  InUse'
<1>1. pc[t] \in Handling /\ type[This(t)] # TL_UNLOCK
  BY DEF upgrade_wait, thr_reschedule_write_lock, Handling, MustUpgrade
<1>2. PICK d \in Data : d = This(t)  BY <1>1, HandlerFacts DEF Inductive
<1>. DEFINE l == LockOf[d]
<1>3. l \in Lock /\ TypeOK /\ read_wait[l] \in Seq(Data)
  BY Constants DEF Inductive, IInv, TypeOK
<1>4. CASE upgrade_wait(t) /\ cond[d]
  <2>1. UNCHANGED <<read, write, read_wait, write_wait>>  BY <1>2, <1>4 DEF upgrade_wait
  <2>. QED  BY <2>1 DEF InUse, Active
<1>5. CASE ~ (upgrade_wait(t) /\ cond[d])
  <2>1. /\ write' = [write EXCEPT ![l] = Without(@, d)]
        /\ write_wait' = [write_wait EXCEPT ![l] = <<d>> \o @]
        /\ \/ UNCHANGED <<read, read_wait>> /\ read[l] # {}
           \/ /\ read' = [read EXCEPT ![l] = @ \cup Range(read_wait[l])]
              /\ read_wait' = [read_wait EXCEPT ![l] = <<>>]
              /\ read_wait[l] # <<>>
    BY <1>2, <1>5 DEF upgrade_wait, thr_reschedule_write_lock
  <2>2. \/ Lists(l, read[l], Range(read_wait[l]), Range(write[l]) \ {d},
                  Range(write_wait[l]) \cup {d})
        \/ Lists(l, read[l] \cup Range(read_wait[l]), {}, Range(write[l]) \ {d},
                 Range(write_wait[l]) \cup {d})
    <3>1. /\ write' = [write EXCEPT ![l] = Without(@, d)]
          /\ write_wait' = [write_wait EXCEPT ![l] = <<d>> \o @]
          /\ \/ UNCHANGED <<read, read_wait>>
             \/ /\ read' = [read EXCEPT ![l] = @ \cup Range(read_wait[l])]
                /\ read_wait' = [read_wait EXCEPT ![l] = <<>>]
      BY <2>1
    <3>. QED  BY <3>1, RequeueLists DEF Inductive, IInv
  <2>3. read'[l] # {}
    <3>1. CASE UNCHANGED <<read, read_wait>> /\ read[l] # {}  BY <3>1
    <3>2. CASE read' = [read EXCEPT ![l] = @ \cup Range(read_wait[l])] /\ read_wait[l] # <<>>
      <4>1. read'[l] = read[l] \cup Range(read_wait[l])  BY <1>3, <3>2 DEF TypeOK
      <4>2. Range(read_wait[l]) # {}  BY <1>3, <3>2, HeadFacts
      <4>. QED  BY <4>1, <4>2
    <3>. QED  BY <2>1, <3>1, <3>2
  <2>4. ASSUME NEW rd, NEW rw, NEW wr, NEW ww, Lists(l, rd, rw, wr, ww) PROVE InUse'
    <3>1. rd # {}  BY <2>3, <2>4 DEF Lists
    <3>. QED  BY <1>3, <2>4, <3>1, InUseKept
  <2>. QED  BY <2>2, <2>4
<1>. QED  BY <1>4, <1>5

(* thr_abort_locks *)
LEMMA AbortInUse ==
  ASSUME Inductive, InUse, NEW t \in Thread, thr_abort_locks(t)
  PROVE  InUse'
<1>1. UNCHANGED <<read, write>>
      /\ \E l : /\ read_wait' = [read_wait EXCEPT ![l] = <<>>]
                /\ write_wait' = [write_wait EXCEPT ![l] = <<>>]
  BY DEF thr_abort_locks
<1>2. TypeOK  BY DEF Inductive, IInv
<1>. QED  BY <1>1, <1>2 DEF InUse, Active, TypeOK

-----------------------------------------------------------------------------
(* A closed write lock stays the first of its list.                          *)

(* A list that only got longer at its end, or lost one instance. *)
LEMMA ClosedFirstKept ==
  ASSUME Inductive, Inductive', ClosedFirst, NEW d \in Data, NEW u,
         u \in Seq(Data),
         \/ write' = write
         \/ write' = [write EXCEPT ![LockOf[d]] = Without(@, d)]
         \/ write' = [write EXCEPT ![LockOf[d]] = Without(@, d) \o u],
         \A x \in Data : NotClosed(x),
         \A x \in Range(u) : type[x] # TL_WRITE_ONLY
  PROVE  ClosedFirst'
<1>. DEFINE l == LockOf[d]  s == write[l]  r == Without(s, d)
<1>1. l \in Lock /\ write \in [Lock -> Seq(Data)]  BY Constants DEF Inductive, IInv, TypeOK
<1>. SUFFICES ASSUME NEW m \in Lock, NEW x \in Range(write'[m]), type'[x] = TL_WRITE_ONLY
              PROVE  x = Head(write'[m])
  BY DEF ClosedFirst
<1>2. x \in Data /\ type[x] = TL_WRITE_ONLY
  <2>1. write'[m] \in Seq(Data)  BY DEF Inductive, IInv, TypeOK
  <2>2. x \in Data  BY <2>1, HeadFacts
  <2>. QED  BY <2>2 DEF NotClosed
<1>3. CASE write' = write \/ m # l  BY <1>1, <1>2, <1>3 DEF ClosedFirst
<1>4. CASE m = l /\ write'[l] \in {r, r \o u}
  <2>1. s \in Seq(Data)  BY <1>1
  <2>2. /\ r \in Seq(Data) /\ Range(r) \subseteq Range(s)
        /\ s # <<>> /\ Head(s) \in Range(r) => r # <<>> /\ Head(r) = Head(s)
    <3>1. Range(s) \subseteq Data /\ (s # <<>> => Head(s) \in Range(s))  BY <2>1, HeadFacts
    <3>2. r \in Seq(Data) /\ Range(r) = Range(s) \ {d}
      BY <2>1, <3>1, SubListFacts DEF Without
    <3>3. s # <<>> /\ Head(s) # d => r # <<>> /\ Head(r) = Head(s)
      BY <2>1, <3>1, SubListFacts DEF Without
    <3>. QED  BY <3>2, <3>3
  <2>3. x \in Range(r)
    <3>1. x \notin Range(u)  BY <1>2
    <3>2. CASE write'[l] = r  BY <1>4, <3>2
    <3>3. CASE write'[l] = r \o u
      <4>1. Range(r \o u) = Range(r) \cup Range(u)  BY <2>2, ConcatFacts
      <4>. QED  BY <1>4, <3>1, <3>3, <4>1
    <3>. QED  BY <1>4, <3>2, <3>3
  <2>4. x = Head(s) /\ s # <<>>
    <3>1. x \in Range(s)  BY <2>2, <2>3
    <3>. QED  BY <1>1, <1>2, <2>1, <3>1, HeadFacts DEF ClosedFirst
  <2>5. r # <<>> /\ Head(r) = x  BY <2>2, <2>3, <2>4
  <2>. HIDE DEF r
  <2>6. Head(r \o u) = Head(r)  BY <2>2, <2>5
  <2>. QED  BY <1>4, <2>5, <2>6
<1>5. m = l => write' = write \/ write'[l] \in {r, r \o u}
  BY <1>1
<1>. QED  BY <1>3, <1>4, <1>5

(* thr_lock gives a write lock at the end of the list. *)
LEMMA LockClosedFirst ==
  ASSUME Inductive, Inductive', ClosedFirst, NEW t \in Thread, thr_lock_write(t)
  PROVE  ClosedFirst'
<1>0. pc[t] = "lock" /\ ~ IsRead(This(t))  BY DEF thr_lock_write
<1>1. PICK d \in Data : d = This(t)  BY <1>0, ToLockFacts DEF Inductive
<1>. DEFINE l == LockOf[d]
<1>2. l \in Lock /\ write[l] \in Seq(Data) /\ type \in [Data -> LockType]
      /\ write \in [Lock -> Seq(Data)]
  BY Constants DEF Inductive, IInv, TypeOK
<1>3. write' = [write EXCEPT ![l] = Append(@, d)]  BY <1>1 DEF thr_lock_write
<1>4. type'[d] # TL_WRITE_ONLY /\ \A x \in Data : NotClosed(x)
  <2>1. PICK hole \in BOOLEAN : type' = [type EXCEPT ![d] = EffectiveType(d, hole)]
    BY <1>1 DEF thr_lock_write
  <2>2. /\ type[d] \in 5 .. 10
        /\ \/ EffectiveType(d, hole) = type[d]
           \/ EffectiveType(d, hole) \in {9, 10}
    BY <1>0, <1>1, EffectiveTypeFacts DEF Inductive
  <2>. QED  BY <1>2, <2>1, <2>2 DEF NotClosed
<1>5. /\ Range(Append(write[l], d)) = Range(write[l]) \cup {d}
      /\ Head(Append(write[l], d)) = IF write[l] = <<>> THEN d ELSE Head(write[l])
  BY <1>2, AppendFacts
<1>. SUFFICES ASSUME NEW m \in Lock, NEW x \in Range(write'[m]), type'[x] = TL_WRITE_ONLY
              PROVE  x = Head(write'[m])
  BY DEF ClosedFirst
<1>6. CASE m # l
  <2>1. write'[m] = write[m] /\ write[m] \in Seq(Data)  BY <1>2, <1>3, <1>6
  <2>2. x \in Data  BY <2>1, HeadFacts
  <2>. QED  BY <1>4, <2>1, <2>2 DEF ClosedFirst, NotClosed
<1>7. CASE m = l
  <2>1. write'[l] = Append(write[l], d)  BY <1>2, <1>3
  <2>2. x \in Range(write[l])  BY <1>4, <1>5, <1>7, <2>1
  <2>3. x \in Data /\ write[l] # <<>>  BY <1>2, <2>2, HeadFacts
  <2>4. x = Head(write[l])  BY <1>2, <1>4, <2>2, <2>3 DEF ClosedFirst, NotClosed
  <2>. QED  BY <1>5, <1>7, <2>1, <2>3, <2>4
<1>. QED  BY <1>6, <1>7

(* thr_unlock gives queued write locks, which thr_abort_locks never closed.  *)
LEMMA UnlockClosedFirst ==
  ASSUME Inductive, Inductive', ClosedFirst, NEW t \in Thread, thr_unlock(t)
  PROVE  ClosedFirst'
<1>1. PICK d \in Data : d = This(t)  BY OwnInstance DEF thr_unlock
<1>. DEFINE l == LockOf[d]
<1>2. l \in Lock /\ TypeOK /\ Placed  BY Constants DEF Inductive, IInv
<1>3. PICK W \in SUBSET Data, R \in SUBSET Data, n \in 0 .. MaxWriteLockCount + 1 :
        LetsIn(d, W, R, n)
  BY <1>1, UnlockLists DEF Inductive
<1>4. write' = [write EXCEPT ![l] = Without(@, d) \o SubList(write_wait[l], W)]
  BY <1>3 DEF LetsIn, HandOver
<1>5. write_wait[l] \in Seq(Data)  BY <1>2 DEF TypeOK
<1>6. /\ SubList(write_wait[l], W) \in Seq(Data)
      /\ Range(SubList(write_wait[l], W)) \subseteq Range(write_wait[l])
  BY <1>5, SubListFacts
<1>7. \A x \in Range(SubList(write_wait[l], W)) : type[x] # TL_WRITE_ONLY
  <2>1. Range(write_wait[l]) \subseteq Data  BY <1>5, HeadFacts
  <2>. QED  BY <1>2, <1>6, <2>1 DEF Placed
<1>8. \A x \in Data : NotClosed(x)  BY UnlockTypes
<1>. QED  BY <1>4, <1>6, <1>7, <1>8, ClosedFirstKept

(* The delayed handler may leave the list. *)
LEMMA RequeueClosedFirst ==
  ASSUME Inductive, Inductive', ClosedFirst, NEW t \in Handler, Upgrade(t)
  PROVE  ClosedFirst'
<1>1. \A x \in Data : NotClosed(x)  BY HandlerTypes
<1>2. <<>> \in Seq(Data) /\ Range(<<>>) = {}  BY EmptyFacts
<1>3. CASE write' = write
  <2>1. \A m \in Lock : Range(write[m]) \subseteq Data
    BY HeadFacts DEF Inductive, IInv, TypeOK
  <2>. QED  BY <1>1, <1>3, <2>1 DEF ClosedFirst, NotClosed
<1>4. CASE write' # write
  <2>1. /\ pc[t] \in Handling /\ type[This(t)] # TL_UNLOCK
        /\ write' = [write EXCEPT ![LockOf[This(t)]] = Without(@, This(t))]
    BY <1>4 DEF Upgrade, upgrade_done, upgrade_at_once, upgrade_wait, upgrade_woken,
       thr_reschedule_write_lock, inserts_done, locks, lists, Handling, MustUpgrade
  <2>2. PICK d \in Data : d = This(t)  BY <2>1, HandlerFacts DEF Inductive
  <2>. QED  BY <1>1, <1>2, <2>1, <2>2, ClosedFirstKept
<1>. QED  BY <1>3, <1>4

(* thr_abort_locks closes the first of the list. *)
LEMMA AbortClosedFirst ==
  ASSUME Inductive, Inductive', ClosedFirst, NEW t \in Thread, thr_abort_locks(t)
  PROVE  ClosedFirst'
<1>1. PICK l : 
        LET waiting == Range(read_wait[l]) \cup Range(write_wait[l])
            closed  == IF write[l] = <<>> THEN {} ELSE {Head(write[l])}
        IN  /\ l \in {LockOf[d] : d \in Range(plan[t])}
            /\ type' = [d \in Data |-> IF d \in waiting THEN TL_UNLOCK
                                       ELSE IF d \in closed THEN TL_WRITE_ONLY
                                       ELSE type[d]]
            /\ write' = write
  BY DEF thr_abort_locks
<1>2. Placed /\ \A m \in Lock : write[m] \in Seq(Data)  BY DEF Inductive, IInv, TypeOK
<1>3. l \in Lock
  <2>1. Range(plan[t]) \subseteq Data  BY HeadFacts DEF Inductive, IInv, TypeOK
  <2>. QED  BY <1>1, <2>1, Constants
<1>. SUFFICES ASSUME NEW m \in Lock, NEW x \in Range(write[m]), type'[x] = TL_WRITE_ONLY
              PROVE  x = Head(write[m])
  BY <1>1 DEF ClosedFirst
<1>4. x \in Data  BY <1>2, HeadFacts
<1>5. LockOf[x] = m  BY <1>2, <1>4 DEF Placed
<1>6. \/ type[x] = TL_WRITE_ONLY
      \/ write[l] # <<>> /\ x = Head(write[l])
  BY <1>1, <1>4
<1>7. ASSUME write[l] # <<>>, x = Head(write[l])
      PROVE  x = Head(write[m])
  <2>1. x \in Range(write[l])  BY <1>2, <1>3, <1>7, HeadFacts
  <2>2. LockOf[x] = l  BY <1>2, <1>3, <1>4, <2>1 DEF Placed
  <2>. QED  BY <1>5, <1>7, <2>2
<1>. QED  BY <1>6, <1>7 DEF ClosedFirst

-----------------------------------------------------------------------------
(* No thread waits for its own lock.                                         *)
Aside(t) == t \in Sleeping => \A d \in Active(LockOf[This(t)]) : thread[d] # t

(* The active instances of a lock. *)
LEMMA ActiveFacts ==
  ASSUME Inductive, NEW l \in Lock, NEW d \in Active(l)
  PROVE  d \in Data /\ LockOf[d] = l /\ ~ cond[d] /\ Listed(d)
<1>1. Placed /\ TypeOK  BY DEF Inductive, IInv
<1>2. d \in Data
  <2>1. read[l] \subseteq Data /\ write[l] \in Seq(Data)  BY <1>1 DEF TypeOK
  <2>2. Range(write[l]) \subseteq Data  BY <2>1, HeadFacts
  <2>. QED  BY <2>1, <2>2 DEF Active
<1>. QED  BY <1>1, <1>2 DEF Placed, Active, Listed

(* The same of the next state. *)
LEMMA ActiveFactsNext ==
  Inductive' => \A l \in Lock : \A d \in Active(l)' :
                  d \in Data /\ LockOf[d] = l /\ ~ cond'[d] /\ Listed(d)'
<1>. DEFINE F == \A l \in Lock : \A d \in Active(l) :
                   d \in Data /\ LockOf[d] = l /\ ~ cond[d] /\ Listed(d)
<1>1. Inductive => F  BY ActiveFacts
<1>. HIDE DEF F
<1>2. Inductive' => F'  BY <1>1, PTL
<1>. QED  BY <1>2 DEF F

(* A delayed handler has no other instance than the one it sleeps on. *)
LEMMA HandlerAside ==
  ASSUME Inductive, NEW t \in Handler  PROVE  Aside(t)
<1>. SUFFICES ASSUME t \in Sleeping, NEW d \in Active(LockOf[This(t)]), thread[d] = t
              PROVE  FALSE
  BY DEF Aside
<1>1. /\ t \in Thread /\ This(t) \in Data /\ thread[This(t)] = t /\ cond[This(t)]
  BY Constants, SleeperFacts DEF Sleeping
<1>2. d \in Data /\ ~ cond[d]  BY <1>1, ActiveFacts, Constants
<1>3. d = This(t)  BY <1>1, <1>2 DEF Inductive, HandlerLock
<1>. QED  BY <1>1, <1>2, <1>3

(* The same of the next state. *)
LEMMA HandlerAsideNext == Inductive' => \A t \in Handler : Aside(t)'
<1>. DEFINE F == \A t \in Handler : Aside(t)
<1>1. Inductive => F  BY HandlerAside
<1>. HIDE DEF F
<1>2. Inductive' => F'  BY <1>1, PTL
<1>. QED  BY <1>2 DEF F

(* A thread that takes no part in a step sleeps on: what it gets in the step *)
(* it was waiting for.                                                       *)
LEMMA AsideKept ==
  ASSUME Inductive, Inductive', NEW u \in Thread, Aside(u),
         pc'[u] = pc[u], pos'[u] = pos[u], plan'[u] = plan[u],
         \A x \in Data : thread[x] = u \/ thread'[x] = u =>
           thread'[x] = thread[x] /\ TypeKept(x) /\ (cond'[x] => cond[x])
  PROVE  Aside(u)'
<1>1. CASE u \in Handler  BY <1>1, HandlerAsideNext
<1>2. CASE u \notin Handler
  <2>. SUFFICES ASSUME (u \in Sleeping)', NEW d \in Active(LockOf[This(u)])', thread'[d] = u
                PROVE  FALSE
    BY DEF Aside
  <2>1. pc[u] = "wait" /\ cond'[This(u)] /\ This(u)' = This(u)
    BY <1>2 DEF Sleeping, This, Inductive, IInv, Control
  <2>2. PICK c \in Data : c = This(u) /\ thread[c] = u /\ LockOf[c] \in Lock
    BY <2>1, SleeperFacts, Constants
  <2>2a. d \in Active(LockOf[c])' /\ cond'[c]  BY <2>1, <2>2
  <2>3. u \in Sleeping  BY <2>1, <2>2, <2>2a DEF Sleeping
  <2>4. d \in Data /\ LockOf[d] = LockOf[c] /\ ~ cond'[d] /\ Listed(d)'
    BY <2>2, <2>2a, ActiveFactsNext
  <2>5. thread[d] = u /\ TypeKept(d)  BY <2>4
  <2>6. PICK i \in DOMAIN plan[u] : plan[u][i] = d
    <3>1. d \in Range(plan'[u])  BY <2>4 DEF Inductive, IInv, Planned
    <3>. QED  BY <3>1 DEF Range
  <2>7. ~ ToLock(u, i)' /\ ~ Unlocked(u, i)' /\ type'[d] # TL_UNLOCK
    BY <2>4, <2>6 DEF Inductive, IInv, Planned
  <2>8. type[d] # TL_UNLOCK
    BY <2>4, <2>5, <2>7 DEF TypeKept, Inductive, IInv, TypeOK
  <2>9. Listed(d)
    BY <2>6, <2>7, <2>8 DEF ToLock, Unlocked, Inductive, IInv, Planned
  <2>10. ~ Waiting(d)
    BY <1>2, <2>1, <2>4, <2>5 DEF Inductive, IInv, Queued
  <2>11. d \in Active(LockOf[c])  BY <2>4, <2>9, <2>10 DEF Listed, Waiting
  <2>. QED  BY <2>2, <2>3, <2>5, <2>11 DEF Aside
<1>. QED  BY <1>1, <1>2

(* thr_lock queues no request that a lock of the same thread is in the way   *)
(* of: the locks of a statement are sorted, reads after writes, and stronger *)
(* reads first.                                                              *)
LEMMA WaitAside ==
  ASSUME Inductive, OneShared, Ordered, ClosedFirst, NEW t \in Thread, thr_lock_wait(t)
  PROVE  Aside(t)'
<1>0. pc[t] = "lock"  BY DEF thr_lock_wait
<1>1. PICK d \in Data : d = This(t)  BY <1>0, ToLockFacts DEF Inductive
<1>. DEFINE l == LockOf[d]
<1>2. /\ l \in Lock /\ thread[d] = t /\ ~ Listed(d)
      /\ type[d] \in 1 .. 10 /\ write[l] \in Seq(Data)
  <2>1. IInv /\ TypeOK  BY DEF Inductive, IInv
  <2>2. /\ l \in Lock /\ thread[d] = t /\ ~ Listed(d)
        /\ type[d] \in ReadType \cup WriteType
    BY <1>0, <1>1, <2>1, ToLockFacts
  <2>. QED  BY <2>1, <2>2 DEF TypeOK
<1>3. UNCHANGED <<read, write, thread, plan, pos>>  BY DEF thr_lock_wait
<1>4. /\ ~ WriteOnlyActive(l)
      /\ \/ IsRead(d) /\ ~ MayRead(d)
         \/ ~ IsRead(d) /\ \E hole \in BOOLEAN : ~ MayWrite(d, EffectiveType(d, hole))
  BY <1>1 DEF thr_lock_wait
<1>. SUFFICES ASSUME NEW x \in Active(l), thread[x] = t  PROVE FALSE
  BY <1>1, <1>3 DEF Aside, This, Active
<1>5. x \in Data /\ LockOf[x] = l /\ Listed(x) /\ x # d  BY <1>2, ActiveFacts
<1>6. PICK j \in DOMAIN plan[t] : plan[t][j] = x
  <2>1. x \in Range(plan[t])  BY <1>5 DEF Inductive, IInv, Planned
  <2>. QED  BY <2>1 DEF Range
<1>7. pos[t] \in DOMAIN plan[t] /\ plan[t][pos[t]] = d /\ pos[t] \in Nat /\ j \in Nat
  BY <1>0, <1>1, PlanFacts DEF This
<1>8. j < pos[t]
  <2>1. ~ ToLock(t, j)  BY <1>5, <1>6 DEF Inductive, IInv, Planned
  <2>. QED  BY <1>0, <1>7, <2>1 DEF ToLock
<1>9. type[x] \in 1 .. 4 => type[d] <= type[x]
  BY <1>5, <1>6, <1>7, <1>8 DEF Ordered
<1>10. type[x] = type[d] => type[d] \notin {4, 5}
  BY <1>2, <1>5 DEF OneShared
<1>. DEFINE h == Head(write[l])
<1>11. write[l] # <<>> =>
         /\ h \in Range(write[l]) /\ h \in Data /\ type[h] \in 5 .. 10
         /\ thread[h] # t
  <2>. SUFFICES ASSUME write[l] # <<>>
                PROVE  h \in Range(write[l]) /\ h \in Data /\ type[h] \in 5 .. 10 /\ thread[h] # t
    OBVIOUS
  <2>1. h \in Range(write[l]) /\ h \in Data  BY <1>2, HeadFacts
  <2>2. type[h] \in 5 .. 11  BY <1>2, <2>1 DEF Inductive, IInv, Placed
  <2>3. type[h] # 11  BY <1>4 DEF WriteOnlyActive, HeadType
  <2>4. thread[h] # t
    BY <1>2, <1>4 DEF MayRead, ReadJoinsWrite, MayWrite
  <2>. QED  BY <2>1, <2>2, <2>3, <2>4
<1>12. CASE x \in read[l]
  <2>1. type[x] \in 1 .. 4  BY <1>2, <1>5, <1>12 DEF Inductive, IInv, Placed
  <2>2. IsRead(d) /\ ~ MayRead(d)  BY <1>2, <1>4, <1>9, <2>1 DEF IsRead
  <2>3. write[l] # <<>>
    BY <1>2, <1>12, <2>2 DEF MayRead, have_old_read_lock
  <2>4. type[h] \in 5 .. 8
    BY <1>2, <1>11, <1>12, <2>3 DEF Inductive, IInv, ReadersAdmitted
  <2>5. type[d] = 4
    <3>1. ~ ReadJoinsWrite(d, write[l])  BY <2>2, <2>3 DEF MayRead
    <3>2. HeadType(write[l]) = type[h]  BY <2>3 DEF HeadType
    <3>3. ~ (type[d] <= 3)  BY <2>4, <3>1, <3>2 DEF ReadJoinsWrite
    <3>. QED  BY <1>2, <2>2, <3>3 DEF IsRead
  <2>. QED  BY <1>9, <1>10, <2>1, <2>5
<1>13. CASE x \in Range(write[l])
  <2>1. write[l] # <<>>  BY <1>2, <1>13, HeadFacts
  <2>2. x # h  BY <1>11, <2>1
  <2>3. type[h] = 5 /\ type[x] \in {5, 11}
    BY <1>2, <1>11, <1>13, <2>1, <2>2 DEF Inductive, IInv, SharedWrites
  <2>4. type[x] = 5  BY <1>2, <1>13, <2>2, <2>3 DEF ClosedFirst
  <2>5. ~ IsRead(d)
    BY <1>4, <2>1, <2>3 DEF MayRead, ReadJoinsWrite, HeadType
  <2>6. type[d] = 5
    BY <1>2, <1>5, <2>4, <2>5 DEF IsRead, Inductive, IInv, OwnTypes
  <2>. QED  BY <1>10, <2>4, <2>6
<1>. QED  BY <1>12, <1>13 DEF Active

-----------------------------------------------------------------------------
(* Every step keeps the order.                                               *)

(* A step of t changes nothing of another thread, but may wake it. *)
Alone(t) ==
  \A u \in Thread \ {t} :
    /\ pc'[u] = pc[u] /\ pos'[u] = pos[u] /\ plan'[u] = plan[u]
    /\ \A x \in Data : thread[x] = u \/ thread'[x] = u =>
         thread'[x] = thread[x] /\ (cond'[x] => cond[x])

(* A statement's loop, ... *)
LEMMA LoopAlone ==
  ASSUME Inductive, NEW t \in Thread,
         \/ thr_lock_read(t) \/ thr_lock_write(t) \/ thr_lock_delayed(t)
         \/ thr_lock_refused(t) \/ thr_lock_wait(t)
         \/ wait_granted(t) \/ wait_aborted(t) \/ wait_killed(t)
  PROVE  Alone(t)
<1>1. pc[t] \in {"lock", "wait"} /\ thread' = thread
  BY DEF thr_lock_read, thr_lock_write, thr_lock_delayed, thr_lock_refused, thr_lock_wait,
         wait_granted, wait_aborted, wait_killed
<1>2. PICK d \in Data : d = This(t) /\ thread[d] = t  BY <1>1, OwnInstance
<1>3. \A x \in Data \ {d} : cond'[x] = cond[x]
  <2>1. cond \in [Data -> BOOLEAN]  BY DEF Inductive, IInv, TypeOK
  <2>2. cond' = cond \/ \E b : cond' = [cond EXCEPT ![d] = b]
    BY <1>2 DEF thr_lock_read, thr_lock_write, thr_lock_delayed, thr_lock_refused,
         thr_lock_wait, wait_granted, wait_aborted, wait_killed, locks
  <2>. QED  BY <2>1, <2>2
<1>4. \A u \in Thread \ {t} : pc'[u] = pc[u] /\ pos'[u] = pos[u] /\ plan'[u] = plan[u]
  <2>1. TypeOK  BY DEF Inductive, IInv
  <2>2. Locked(t) \/ Failed(t)
        \/ (pc' = [pc EXCEPT ![t] = "wait"] /\ UNCHANGED <<pos, plan>>)
    BY DEF thr_lock_read, thr_lock_write, thr_lock_delayed, thr_lock_refused,
         thr_lock_wait, wait_granted, wait_aborted, wait_killed
  <2>3. CASE Locked(t)  BY <2>1, <2>3 DEF Locked, TypeOK
  <2>4. CASE Failed(t)  BY <2>1, <2>4 DEF Failed, TypeOK
  <2>5. CASE pc' = [pc EXCEPT ![t] = "wait"] /\ UNCHANGED <<pos, plan>>
    BY <2>1, <2>5 DEF TypeOK
  <2>. QED  BY <2>2, <2>3, <2>4, <2>5
<1>. QED  BY <1>1, <1>2, <1>3, <1>4 DEF Alone

(* ... its end, ... *)
LEMMA EndAlone ==
  ASSUME Inductive, NEW t \in Thread,
         run_done(t) \/ thr_unlock(t) \/ skip_unlock(t) \/ statement_end(t)
  PROVE  Alone(t)
<1>1. TypeOK  BY DEF Inductive, IInv
<1>2. CASE run_done(t) \/ skip_unlock(t)
  BY <1>1, <1>2 DEF run_done, skip_unlock, locks, Alone, TypeOK
<1>3. CASE statement_end(t)
  <2>1. \A x \in Data : thread'[x] = IF thread[x] = t THEN NoThread ELSE thread[x]
    BY <1>3 DEF statement_end
  <2>2. \A u \in Thread \ {t} : pc'[u] = pc[u] /\ pos'[u] = pos[u] /\ plan'[u] = plan[u]
    BY <1>1, <1>3 DEF statement_end, TypeOK
  <2>. QED  BY <1>3, <2>1, <2>2, Constants DEF statement_end, locks, Alone
<1>4. CASE thr_unlock(t)
  <2>1. \A x \in Data : cond'[x] => cond[x]
    BY <1>4 DEF thr_unlock, unlock_gives_nothing, unlock_gives_reads,
                unlock_gives_writes, unlock_adds_writes, HandOver
  <2>2. \A u \in Thread \ {t} : pc'[u] = pc[u] /\ pos'[u] = pos[u] /\ plan'[u] = plan[u]
    BY <1>1, <1>4 DEF thr_unlock, TypeOK
  <2>. QED  BY <1>4, <2>1, <2>2 DEF thr_unlock, Alone
<1>. QED  BY <1>2, <1>3, <1>4

(* ... its beginning, ... *)
LEMMA BeginAlone ==
  ASSUME Inductive, NEW t \in Thread, thr_multi_lock(t)
  PROVE  Alone(t)
<1>1. TypeOK  BY DEF Inductive, IInv
<1>2. PICK req \in Request[t] :
        /\ \A d \in DOMAIN req : thread[d] = NoThread
        /\ thread' = [d \in Data |-> IF d \in DOMAIN req THEN t ELSE thread[d]]
        /\ \E s : plan' = [plan EXCEPT ![t] = s]
  BY DEF thr_multi_lock
<1>3. \A u \in Thread \ {t} : pc'[u] = pc[u] /\ pos'[u] = pos[u] /\ plan'[u] = plan[u]
  BY <1>1, <1>2 DEF thr_multi_lock, TypeOK
<1>4. cond' = cond  BY DEF thr_multi_lock
<1>. QED  BY <1>2, <1>3, <1>4, Constants DEF Alone

(* ... and a delayed handler. *)
LEMMA HandlerAlone ==
  ASSUME Inductive, NEW t \in Handler, Upgrade(t)
  PROVE  Alone(t)
<1>1. TypeOK /\ t \in Thread  BY Constants DEF Inductive, IInv
<1>2. pc[t] \in Handling
  BY DEF Upgrade, upgrade_done, upgrade_at_once, upgrade_wait, upgrade_woken,
         thr_reschedule_write_lock, inserts_done, Handling
<1>3. This(t) \in Data /\ thread[This(t)] = t  BY <1>2, HandlerFacts DEF Inductive
<1>4. thread' = thread /\ plan' = plan /\ pos' = pos
  BY DEF Upgrade, upgrade_done, upgrade_at_once, upgrade_wait, upgrade_woken,
         thr_reschedule_write_lock, inserts_done
<1>5. \A u \in Thread \ {t} : pc'[u] = pc[u]
  BY <1>1 DEF Upgrade, upgrade_done, upgrade_at_once, upgrade_wait, upgrade_woken,
         thr_reschedule_write_lock, inserts_done, Upgraded, NotUpgraded, TypeOK
<1>6. \A x \in Data \ {This(t)} : cond'[x] => cond[x]
  BY <1>1 DEF Upgrade, upgrade_done, upgrade_at_once, upgrade_wait, upgrade_woken,
         thr_reschedule_write_lock, inserts_done, locks, TypeOK
<1>. QED  BY <1>3, <1>4, <1>5, <1>6 DEF Alone

(* Only two steps of a thread put it to sleep. *)
LEMMA Awake ==
  ASSUME Inductive, NEW t \in Thread,
         thr_multi_lock(t) \/ (Step(t) /\ ~ thr_lock_wait(t))
  PROVE  Aside(t)'
<1>1. pc \in [Thread -> PC]  BY DEF Inductive, IInv, TypeOK
<1>2. pc'[t] \in {"idle", "lock", "run", "unlock"}
  BY <1>1 DEF thr_multi_lock, Step, thr_lock_read, thr_lock_write, thr_lock_delayed,
     thr_lock_refused, wait_granted, wait_aborted, wait_killed, run_done, thr_unlock,
     skip_unlock, statement_end, Locked, Failed
<1>3. (t \notin Sleeping)'  BY <1>2 DEF Sleeping
<1>. QED  BY <1>3 DEF Aside

(* The others sleep on. *)
LEMMA OthersAside ==
  ASSUME Inductive, Inductive', NotItself, NEW t \in Thread, Alone(t),
         \A x \in Data : TypeKept(x) \/ thread'[x] = t, NEW u \in Thread \ {t}
  PROVE  Aside(u)'
<1>1. Aside(u)  BY DEF NotItself, Aside
<1>2. /\ pc'[u] = pc[u] /\ pos'[u] = pos[u] /\ plan'[u] = plan[u]
      /\ \A x \in Data : thread[x] = u \/ thread'[x] = u =>
           thread'[x] = thread[x] /\ TypeKept(x) /\ (cond'[x] => cond[x])
  BY DEF Alone
<1>. QED  BY <1>1, <1>2, AsideKept

(* A list that stays, of instances that are not closed. *)
LEMMA ClosedFirstSame ==
  ASSUME Inductive, ClosedFirst, write' = write, \A x \in Data : NotClosed(x)
  PROVE  ClosedFirst'
<1>1. \A m \in Lock : Range(write[m]) \subseteq Data
  BY HeadFacts DEF Inductive, IInv, TypeOK
<1>. QED  BY <1>1 DEF ClosedFirst, NotClosed

(* A step that leaves the lists alone. *)
LEMMA InUseSame ==
  ASSUME InUse, UNCHANGED lists
  PROVE  InUse'
BY DEF InUse, Active, lists

(* The four parts that a step within a statement keeps the same way. *)
LEMMA PartsKept ==
  ASSUME Inductive, Inductive', Orderly, NEW t \in Thread, Alone(t), Aside(t)',
         ClosedFirst', InUse',
         \A x \in Data : /\ TypeKept(x)
                         /\ thread'[x] \in Thread => thread'[x] = thread[x],
         \A u \in Thread : PlanCut(u)
  PROVE  Orderly'
<1>1. OneShared' /\ Ordered'  BY RequestsKept DEF Orderly
<1>2. \A u \in Thread : Aside(u)'  BY OthersAside DEF Orderly
<1>3. NotItself'  BY <1>2 DEF NotItself, Aside, Sleeping
<1>. QED  BY <1>1, <1>3 DEF Orderly

(* A statement begins. *)
LEMMA BeginOrderly ==
  ASSUME NoTypeTwice, Inductive, Inductive', Orderly, NEW t \in Thread, thr_multi_lock(t)
  PROVE  Orderly'
<1>1. OneShared' /\ Ordered' /\ \A x \in Data : NotClosed(x)
  BY RequestsBegin DEF Orderly, NotClosed
<1>2. ClosedFirst' /\ InUse'
  BY <1>1, ClosedFirstSame, InUseSame DEF thr_multi_lock, lists, Orderly
<1>3. \A x \in Data : TypeKept(x) \/ thread'[x] = t
  <2>1. PICK req \in Request[t] :
          /\ type' = [d \in Data |-> IF d \in DOMAIN req THEN req[d] ELSE type[d]]
          /\ thread' = [d \in Data |-> IF d \in DOMAIN req THEN t ELSE thread[d]]
    BY DEF thr_multi_lock
  <2>. QED  BY <2>1 DEF TypeKept
<1>4. \A u \in Thread : Aside(u)'
  <2>1. Aside(t)' /\ Alone(t)  BY Awake, BeginAlone
  <2>. QED  BY <1>3, <2>1, OthersAside DEF Orderly
<1>5. NotItself'  BY <1>4 DEF NotItself, Aside, Sleeping
<1>. QED  BY <1>1, <1>2, <1>5 DEF Orderly

(* A statement goes on. *)
LEMMA StepOrderly ==
  ASSUME Inductive, Inductive', Orderly, NEW t \in Thread, Step(t)
  PROVE  Orderly'
<1>. ClosedFirst /\ InUse /\ OneShared /\ Ordered /\ NotItself  BY DEF Orderly
<1>1. \A x \in Data : TypeKept(x) /\ NotClosed(x)
  <2>. TAKE x \in Data
  <2>1. CASE type' = type  BY <2>1 DEF TypeKept, NotClosed
  <2>2. CASE thr_lock_write(t) \/ thr_lock_wait(t) \/ thr_lock_refused(t) \/ wait_killed(t)
    BY <2>2, LockTypes
  <2>3. CASE thr_unlock(t)  BY <2>3, UnlockTypes
  <2>4. type' = type \/ thr_lock_write(t) \/ thr_lock_wait(t) \/ thr_lock_refused(t)
        \/ wait_killed(t) \/ thr_unlock(t)
    BY DEF Step, thr_lock_read, thr_lock_delayed, wait_granted, wait_aborted, run_done,
       skip_unlock, statement_end, locks
  <2>. QED  BY <2>1, <2>2, <2>3, <2>4
<1>2. \A u \in Thread : PlanCut(u)
  <2>. TAKE u \in Thread
  <2>1. CASE statement_end(t)
    <3>1. plan' = [plan EXCEPT ![t] = <<>>]  BY <2>1 DEF statement_end
    <3>. QED  BY <3>1, PlansCut
  <2>2. CASE thr_lock_refused(t) \/ wait_aborted(t) \/ wait_killed(t)
    <3>1. /\ plan' = [plan EXCEPT ![t] = SubSeq(@, 1, pos[t] - 1)]
          /\ pc[t] \in {"lock", "wait"}
      BY <2>2 DEF thr_lock_refused, wait_aborted, wait_killed, Failed
    <3>. QED  BY <3>1, PlansCut
  <2>3. CASE plan' = plan  BY <2>3, PlansCut
  <2>4. statement_end(t) \/ thr_lock_refused(t) \/ wait_aborted(t) \/ wait_killed(t)
        \/ plan' = plan
    BY DEF Step, thr_lock_read, thr_lock_write, thr_lock_delayed, thr_lock_wait,
       wait_granted, run_done, thr_unlock, skip_unlock, Locked
  <2>. QED  BY <2>1, <2>2, <2>3, <2>4
<1>3. \A x \in Data : thread'[x] \in Thread => thread'[x] = thread[x]
  <2>1. \/ thread' = thread
        \/ thread' = [d \in Data |-> IF thread[d] = t THEN NoThread ELSE thread[d]]
    BY DEF Step, thr_lock_read, thr_lock_write, thr_lock_delayed, thr_lock_refused,
       thr_lock_wait, wait_granted, wait_aborted, wait_killed, run_done, thr_unlock,
       skip_unlock, statement_end
  <2>. QED  BY <2>1, Constants
<1>4. Alone(t)  BY LoopAlone, EndAlone DEF Step
<1>5. Aside(t)'
  <2>1. CASE thr_lock_wait(t)  BY <2>1, WaitAside
  <2>2. CASE ~ thr_lock_wait(t)  BY <2>2, Awake
  <2>. QED  BY <2>1, <2>2
<1>6. ClosedFirst'
  <2>1. CASE thr_lock_write(t)  BY <2>1, LockClosedFirst
  <2>2. CASE thr_unlock(t)  BY <2>2, UnlockClosedFirst
  <2>3. CASE write' = write  BY <1>1, <2>3, ClosedFirstSame
  <2>4. thr_lock_write(t) \/ thr_unlock(t) \/ write' = write
    BY DEF Step, thr_lock_read, thr_lock_delayed, thr_lock_refused, thr_lock_wait,
       wait_granted, wait_aborted, wait_killed, run_done, skip_unlock, statement_end,
       locks, lists
  <2>. QED  BY <2>1, <2>2, <2>3, <2>4
<1>7. InUse'
  <2>1. CASE \/ thr_lock_read(t) \/ thr_lock_write(t) \/ thr_lock_delayed(t)
             \/ thr_lock_wait(t) \/ wait_killed(t)
    BY <2>1, LockInUse
  <2>2. CASE thr_unlock(t)  BY <2>2, UnlockInUse
  <2>3. CASE UNCHANGED lists  BY <2>3, InUseSame
  <2>4. \/ thr_lock_read(t) \/ thr_lock_write(t) \/ thr_lock_delayed(t)
        \/ thr_lock_wait(t) \/ wait_killed(t) \/ thr_unlock(t) \/ UNCHANGED lists
    BY DEF Step, thr_lock_refused, wait_granted, wait_aborted, run_done, skip_unlock,
       statement_end, locks
  <2>. QED  BY <2>1, <2>2, <2>3, <2>4
<1>. QED  BY <1>1, <1>2, <1>3, <1>4, <1>5, <1>6, <1>7, PartsKept

(* A delayed handler upgrades and reschedules its lock. *)
LEMMA UpgradeOrderly ==
  ASSUME Inductive, Inductive', Orderly, NEW t \in Handler, Upgrade(t)
  PROVE  Orderly'
<1>. ClosedFirst /\ InUse /\ t \in Thread  BY Constants DEF Orderly
<1>1. \A x \in Data : TypeKept(x)  BY HandlerTypes
<1>2. plan' = plan /\ thread' = thread
  BY DEF Upgrade, upgrade_done, upgrade_at_once, upgrade_wait, upgrade_woken,
     thr_reschedule_write_lock, inserts_done
<1>3. \A u \in Thread : PlanCut(u)  BY <1>2, PlansCut
<1>4. Alone(t) /\ Aside(t)'  BY HandlerAlone, HandlerAsideNext
<1>5. ClosedFirst'  BY RequeueClosedFirst
<1>6. InUse'
  <2>1. CASE upgrade_wait(t) \/ thr_reschedule_write_lock(t)  BY <2>1, RequeueInUse
  <2>2. CASE ~ (upgrade_wait(t) \/ thr_reschedule_write_lock(t))
    <3>1. UNCHANGED lists
      BY <2>2 DEF Upgrade, upgrade_done, upgrade_at_once, upgrade_woken, inserts_done, locks
    <3>. QED  BY <3>1, InUseSame
  <2>. QED  BY <2>1, <2>2
<1>. QED  BY <1>1, <1>2, <1>3, <1>4, <1>5, <1>6, PartsKept

(* ALTER TABLE and the like close a table; a connection is killed.           *)
LEMMA AbortOrderly ==
  ASSUME Inductive, Inductive', Orderly, NEW t \in Thread,
         (t \in Aborter /\ thr_abort_locks(t)) \/ kill(t) \/ UNCHANGED vars
  PROVE  Orderly'
<1>. ClosedFirst /\ InUse /\ NotItself  BY DEF Orderly
<1>1. UNCHANGED <<plan, pos, pc, thread>>
  BY DEF thr_abort_locks, kill, vars, control
<1>2. \A u \in Thread : PlanCut(u)  BY <1>1, PlansCut
<1>3. \A x \in Data : TypeKept(x) /\ (cond'[x] => cond[x])
  <2>1. CASE thr_abort_locks(t) /\ t \in Aborter
    <3>1. \A x \in Data : cond'[x] => cond[x]  BY <2>1 DEF thr_abort_locks
    <3>. QED  BY <2>1, <3>1, AbortTypes
  <2>2. CASE kill(t) \/ UNCHANGED vars
    BY <2>2 DEF kill, locks, vars, TypeKept
  <2>. QED  BY <2>1, <2>2
<1>4. Alone(t)  BY <1>1, <1>3 DEF Alone
<1>5. Aside(t)'
  <2>1. Aside(t)  BY DEF NotItself, Aside
  <2>. QED  BY <1>1, <1>3, <2>1, AsideKept
<1>6. ClosedFirst'
  <2>1. CASE thr_abort_locks(t)  BY <2>1, AbortClosedFirst
  <2>2. CASE kill(t) \/ UNCHANGED vars
    BY <2>2, ClosedFirstSame DEF kill, locks, lists, vars, NotClosed
  <2>. QED  BY <2>1, <2>2
<1>7. InUse'
  <2>1. CASE thr_abort_locks(t)  BY <2>1, AbortInUse
  <2>2. CASE kill(t) \/ UNCHANGED vars
    BY <2>2, InUseSame DEF kill, locks, lists, vars
  <2>. QED  BY <2>1, <2>2
<1>. QED  BY <1>1, <1>2, <1>3, <1>4, <1>5, <1>6, <1>7, PartsKept

(* The order holds at first, *)
LEMMA InitOrderly == Init => Orderly
<1>. SUFFICES ASSUME Init PROVE Orderly  OBVIOUS
<1>1. OneShared  BY Constants DEF Init, OneShared
<1>2. Ordered  BY DEF Init, Ordered
<1>3. ClosedFirst /\ InUse  BY DEF Init, ClosedFirst, InUse, Range
<1>4. NotItself  BY DEF Init, NotItself, Sleeping
<1>. QED  BY <1>1, <1>2, <1>3, <1>4 DEF Orderly

(* and is kept by every step. *)
LEMMA OrderlyStep ==
  ASSUME NoTypeTwice
  PROVE  Inductive /\ Orderly /\ [Next]_vars => Orderly'
<1>. SUFFICES ASSUME Inductive, Orderly, [Next]_vars PROVE Orderly'  OBVIOUS
<1>1. Inductive'  BY InductiveStep
<1>2. ASSUME NEW t \in Thread, thr_multi_lock(t) PROVE Orderly'
  BY <1>1, <1>2, BeginOrderly
<1>3. ASSUME NEW t \in Thread, Step(t) PROVE Orderly'  BY <1>1, <1>3, StepOrderly
<1>4. ASSUME NEW t \in Handler, Upgrade(t) PROVE Orderly'  BY <1>1, <1>4, UpgradeOrderly
<1>5. ASSUME NEW t \in Thread, (t \in Aborter /\ thr_abort_locks(t)) \/ kill(t)
      PROVE  Orderly'
  BY <1>1, <1>5, AbortOrderly
<1>6. CASE UNCHANGED vars
  <2>1. ASSUME NEW t \in Thread PROVE Orderly'  BY <1>1, <1>6, <2>1, AbortOrderly
  <2>2. CASE Thread = {}
    BY <1>6, <2>2 DEF vars, Orderly, OneShared, Ordered, ClosedFirst, InUse, NotItself,
       Active, Sleeping
  <2>. QED  BY <2>1, <2>2
<1>. QED  BY <1>2, <1>3, <1>4, <1>5, <1>6, Constants DEF Next

-----------------------------------------------------------------------------
(* Nobody waits in a circle.                                                 *)

(* Of some instances, one is of the last lock: the one above which are the   *)
(* fewest.                                                                   *)
LEMMA LastLock ==
  ASSUME NEW D \in SUBSET Data, D # {}
  PROVE  \E c \in D : \A x \in D : LockOf[x] <= LockOf[c]
<1>. DEFINE Above(x) == {y \in Data : LockOf[x] < LockOf[y]}
            C == {Cardinality(Above(x)) : x \in D}
<1>1. \A x \in Data : LockOf[x] \in Nat  BY ThrLockAssumption
<1>2. IsFiniteSet(Data)  BY Constants
<1>3. \A x \in Data : IsFiniteSet(Above(x)) /\ Cardinality(Above(x)) \in Nat
  <2>1. \A x \in Data : Above(x) \in SUBSET Data  OBVIOUS
  <2>. QED  BY <1>2, <2>1, FS_Subset, FS_CardinalityType
<1>4. C \in SUBSET Nat /\ C # {}  BY <1>3
<1>5. PICK n \in C : \A m \in C : n <= m  BY <1>4, Least
<1>6. PICK c \in D : n = Cardinality(Above(c))  BY <1>5
<1>7. ASSUME NEW x \in D, ~ (LockOf[x] <= LockOf[c])  PROVE FALSE
  <2>1. LockOf[c] < LockOf[x] /\ x \in Data /\ c \in Data  BY <1>1, <1>7
  <2>2. Above(x) \in SUBSET Above(c)  BY <1>1, <2>1
  <2>3. x \in Above(c) /\ x \notin Above(x)  BY <1>1, <2>1
  <2>. HIDE DEF Above
  <2>4. /\ Cardinality(Above(x)) <= Cardinality(Above(c))
        /\ Cardinality(Above(x)) # Cardinality(Above(c))
    BY <1>3, <2>1, <2>2, <2>3, FS_Subset
  <2>5. Cardinality(Above(c)) <= Cardinality(Above(x))  BY <1>5, <1>6
  <2>. QED  BY <1>3, <2>1, <2>4, <2>5
<1>. QED  BY <1>7

(* A thread that has a lock and sleeps for another sleeps for a later one.   *)
LEMMA SleepsForLater ==
  ASSUME Inductive, Orderly, NEW u \in Sleeping, NEW l \in Lock, NEW d \in Active(l),
         thread[d] = u
  PROVE  l < LockOf[This(u)]
<1>1. d \in Data /\ LockOf[d] = l /\ Listed(d)  BY ActiveFacts
<1>2. u \in Thread /\ pc[u] \in {"wait", "upgrade", "reupgrade"}  BY DEF Sleeping
<1>3. /\ This(u) \in Data /\ thread[This(u)] = u
      /\ pos[u] \in DOMAIN plan[u] /\ This(u) = plan[u][pos[u]]
  BY <1>2, SleeperFacts
<1>4. LockOf[This(u)] # l  BY DEF Orderly, NotItself
<1>5. l \in Nat /\ LockOf[This(u)] \in Nat  BY <1>3, ThrLockAssumption
<1>6. pc[u] = "wait"
  <2>1. u \notin Handler  BY <1>1, <1>3, <1>4 DEF Inductive, HandlerLock
  <2>. QED  BY <1>2, <2>1 DEF Inductive, IInv, Control
<1>7. PICK j \in DOMAIN plan[u] : plan[u][j] = d
  <2>1. d \in Range(plan[u])  BY <1>1 DEF Inductive, IInv, Planned
  <2>. QED  BY <2>1 DEF Range
<1>8. j < pos[u]
  <2>1. ~ ToLock(u, j)  BY <1>1, <1>2, <1>7 DEF Inductive, IInv, Planned
  <2>2. j \in Nat /\ pos[u] \in Nat  BY <1>2, PlanFacts
  <2>3. j # pos[u]  BY <1>1, <1>3, <1>4, <1>7
  <2>. QED  BY <1>6, <2>1, <2>2, <2>3 DEF ToLock
<1>9. l <= LockOf[This(u)]
  BY <1>1, <1>2, <1>3, <1>7, <1>8 DEF Orderly, Ordered
<1>. QED  BY <1>4, <1>5, <1>9

(* No set of threads waits for itself, whatever they asked for and in which  *)
(* order they came, as long as no statement asks for one of the shared kinds *)
(* of lock twice on one table ("All tread must acquire all locks it needs    *)
(* through thr_multi_lock() to avoid dead-locks", thr_lock.c).               *)
THEOREM NoDeadlock == NoTypeTwice => (Spec => []DeadlockFree)
<1>. SUFFICES ASSUME NoTypeTwice PROVE Spec => []DeadlockFree  OBVIOUS
<1>1. ASSUME Going, Orderly PROVE DeadlockFree
  <2>. Inductive  BY <1>1 DEF Going
  <2>. SUFFICES ASSUME NEW S \in SUBSET Sleeping, S # {},
                       \A t \in S : \A d \in Active(LockOf[This(t)]) : thread[d] \in S
                PROVE  FALSE
    BY DEF DeadlockFree
  <2>1. \A t \in S : This(t) \in Data /\ Waiting(This(t))
    BY <1>1, SleepersWait DEF Sleeping
  <2>2. PICK t \in S : \A u \in S : LockOf[This(u)] <= LockOf[This(t)]
    <3>. DEFINE D == {This(t) : t \in S}
    <3>1. D \in SUBSET Data /\ D # {}  BY <2>1
    <3>2. \E c \in D : \A x \in D : LockOf[x] <= LockOf[c]  BY <3>1, LastLock
    <3>. QED  BY <3>2
  <2>. DEFINE l == LockOf[This(t)]
  <2>3. l \in Lock  BY <2>1, Constants
  <2>4. PICK d \in Active(l) : TRUE
    <3>1. read_wait[l] # <<>> \/ write_wait[l] # <<>>
      BY <2>1, EmptyFacts DEF Waiting
    <3>. QED  BY <1>1, <2>3, <3>1 DEF Orderly, InUse
  <2>5. thread[d] \in S  BY <2>4
  <2>6. l < LockOf[This(thread[d])]  BY <1>1, <2>3, <2>5, SleepsForLater
  <2>7. LockOf[This(thread[d])] \in Nat /\ l \in Nat
    BY <2>1, <2>3, <2>5, ThrLockAssumption
  <2>. QED  BY <2>2, <2>5, <2>6, <2>7
<1>2. Going => Inductive  BY DEF Going
<1>3. Inductive /\ Orderly /\ [Next]_vars => Orderly'  BY OrderlyStep
<1>. QED  BY <1>1, <1>2, <1>3, AlwaysGoing, InitOrderly, PTL DEF Spec

=============================================================================
