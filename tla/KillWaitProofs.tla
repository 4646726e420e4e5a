--------------------------- MODULE KillWaitProofs ---------------------------
(* The counts of user locks, and that no signal of theirs is lost, for any   *)
(* number of connections and names.                                          *)
EXTENDS KillWait, FiniteSetTheorems, TLAPS

LockRec == [exists : BOOLEAN, locked : BOOLEAN, count : Nat,
            thread : Thread \cup {Nobody}]

(* The lock r is right for the waiters W and the set O of its owner.         *)
Right(r, W, O) ==
    /\ r \in LockRec
    /\ O = (IF r.locked THEN {r.thread} ELSE {})
    /\ r.count = Cardinality(W \cup O)
    /\ r.exists <=> r.count > 0

(* The types, with any count: that it is bounded follows from Counted.       *)
Types ==
    /\ pc \in [Thread -> ThreadPc]
    /\ kind \in [Thread -> Kind]
    /\ killed \subseteq Thread /\ asleep \subseteq Thread
    /\ current \in [Thread -> Cond \cup {Nobody}]
    /\ mysys \in [Thread -> {Killer, Nobody}]
    /\ owner \in [Mutex -> Thread \cup {Nobody}]
    /\ ull \in [Name -> LockRec]
    /\ thd_ull \in [Thread -> Name \cup {Nobody}]
    /\ pending \in [Mutex -> BOOLEAN]
    /\ kpc \in {"idle", "mysys", "broadcast"}
    /\ victim \in Thread \cup {Nobody}

(* A waiter of a user lock has none, only waiters are asleep, and who has    *)
(* the condition of a user lock in current_cond is in GET_LOCK().            *)
Waits ==
    /\ \A t \in Thread : pc[t] = "lock_wait" => current[t] \in Name /\ thd_ull[t] = Nobody
    /\ \A t \in Thread : pc[t] = "wait" => current[t] \in Mutex
    /\ \A t \in asleep : pc[t] \in {"lock_wait", "wait"}
    /\ \A t \in Thread : current[t] \in Name => pc[t] \in {"lock_wait", "lock_exit"}

(* The table of locks agrees with the threads that use it.                   *)
Counted == \A n \in Name : Right(ull[n], Waiting(n), Owner(n))

(* The inductive invariant.                                                  *)
IInv == Types /\ Waits /\ Counted /\ NoLostSignal

(* The constants are apart. *)
LEMMA Names == /\ Name \cap Mutex = {} /\ Nobody \notin Name /\ Nobody \notin Thread
               /\ IsFiniteSet(Thread) /\ Killer # Nobody
BY ThreadAssumption DEF Mutex, Kind

-----------------------------------------------------------------------------
(* One lock.                                                                 *)

(* The users of a lock are threads, finitely many. *)
LEMMA UsersFinite ==
  ASSUME NEW W \in SUBSET Thread, NEW r, NEW O, Right(r, W, O), Nobody \notin O
  PROVE  /\ IsFiniteSet(W \cup O) /\ IsFiniteSet(W) /\ O \subseteq Thread
         /\ Cardinality(W \cup O) \in Nat /\ Cardinality(W) \in Nat
<1>1. O \subseteq Thread  BY DEF Right, LockRec
<1>. QED  BY <1>1, Names, FS_Subset, FS_CardinalityType

(* The owner releases the lock: item_user_lock_release().                    *)
LEMMA ReleaseRight ==
  ASSUME NEW W \in SUBSET Thread, NEW r, NEW t \in Thread \ W, Right(r, W, {t})
  PROVE  Right(IF r.count = 1 THEN NoLock
               ELSE [r EXCEPT !.locked = FALSE, !.count = @ - 1], W, {})
<1>1. /\ IsFiniteSet(W) /\ Cardinality(W) \in Nat  BY Names, UsersFinite
<1>2. r.count = Cardinality(W) + 1 /\ r \in LockRec
  BY <1>1, FS_AddElement DEF Right
<1>3. W \cup {} = W  OBVIOUS
<1>4. CASE r.count = 1
  <2>1. W = {} /\ Cardinality(W) = 0  BY <1>1, <1>2, <1>4, FS_EmptySet
  <2>. QED  BY <1>3, <1>4, <2>1 DEF Right, NoLock, LockRec
<1>5. CASE r.count # 1
  <2> DEFINE s == [r EXCEPT !.locked = FALSE, !.count = @ - 1]
  <2>1. r.count - 1 \in Nat /\ r.count - 1 > 0 /\ r.count > 0  BY <1>1, <1>2, <1>5
  <2>2. /\ s.locked = FALSE /\ s.count = r.count - 1 /\ s.exists = r.exists
        /\ s \in LockRec
    BY <1>2, <2>1 DEF LockRec
  <2>3. s.exists <=> s.count > 0  BY <2>1, <2>2 DEF Right
  <2>4. s.count = Cardinality(W \cup {})  BY <1>1, <1>2, <1>3, <2>2
  <2>5. Right(s, W, {})  BY <2>2, <2>3, <2>4 DEF Right
  <2>. QED  BY <1>5, <2>5
<1>. QED  BY <1>4, <1>5

(* A thread comes to wait for an existing lock.                              *)
LEMMA WaiterRight ==
  ASSUME NEW W \in SUBSET Thread, NEW r, NEW O, NEW t \in Thread \ (W \cup O),
         Right(r, W, O), Nobody \notin O, r.exists
  PROVE  Right([r EXCEPT !.count = @ + 1], W \cup {t}, O)
<1>1. /\ IsFiniteSet(W \cup O) /\ Cardinality(W \cup O) \in Nat  BY UsersFinite
<1>2. Cardinality((W \cup {t}) \cup O) = Cardinality(W \cup O) + 1
  <2>1. (W \cup {t}) \cup O = (W \cup O) \cup {t}  OBVIOUS
  <2>. QED  BY <1>1, <2>1, FS_AddElement
<1>. QED  BY <1>1, <1>2 DEF Right, LockRec

(* A waiter leaves the loop and takes a free lock ...                        *)
LEMMA TakeRight ==
  ASSUME NEW W \in SUBSET Thread, NEW r, NEW O, NEW t \in W,
         Right(r, W, O), ~ r.locked
  PROVE  Right([r EXCEPT !.locked = TRUE, !.thread = t], W \ {t}, {t})
<1>1. O = {} /\ (W \ {t}) \cup {t} = W \cup O  BY DEF Right
<1>. QED  BY <1>1 DEF Right, LockRec

(* ... or goes without it; then the lock has another user.                   *)
LEMMA LeaveRight ==
  ASSUME NEW W \in SUBSET Thread, NEW r, NEW O, NEW t \in W \ O,
         Right(r, W, O), Nobody \notin O, r.locked
  PROVE  /\ r.count # 1
         /\ Right([r EXCEPT !.count = @ - 1], W \ {t}, O)
<1>1. /\ IsFiniteSet(W \cup O) /\ Cardinality(W \cup O) \in Nat  BY UsersFinite
<1>2. (W \ {t}) \cup O = (W \cup O) \ {t}  OBVIOUS
<1>3. Cardinality((W \ {t}) \cup O) = r.count - 1 /\ IsFiniteSet((W \ {t}) \cup O)
  BY <1>1, <1>2, FS_RemoveElement DEF Right
<1>4. (W \ {t}) \cup O # {}  BY DEF Right
<1>5. r.count - 1 # 0  BY <1>3, <1>4, FS_EmptySet
<1> DEFINE s == [r EXCEPT !.count = @ - 1]
<1>6. r.count \in Nat /\ r.count - 1 \in Nat /\ r.count - 1 > 0 /\ r.count > 0
  <2>1. r.count = Cardinality(W \cup O) /\ r.count \in Nat  BY <1>1 DEF Right
  <2>2. r.count # 0  BY <1>1, <2>1, FS_EmptySet
  <2>. QED  BY <1>5, <2>1, <2>2
<1>7. /\ s.locked = r.locked /\ s.count = r.count - 1 /\ s.exists = r.exists
      /\ s.thread = r.thread /\ s \in LockRec
  BY <1>6 DEF Right, LockRec
<1>8. s.exists <=> s.count > 0  BY <1>6, <1>7 DEF Right
<1>9. Right(s, W \ {t}, O)  BY <1>3, <1>7, <1>8 DEF Right
<1>. QED  BY <1>6, <1>9

(* A lock that does not exist has no user.                                   *)
LEMMA NewRight ==
  ASSUME NEW W \in SUBSET Thread, NEW r, NEW O, NEW t \in Thread,
         Right(r, W, O), Nobody \notin O, ~ r.exists
  PROVE  W = {} /\ O = {} /\ Right(New(t), W, {t})
<1>1. /\ IsFiniteSet(W \cup O) /\ Cardinality(W \cup O) \in Nat  BY UsersFinite
<1>2. Cardinality(W \cup O) = 0  BY <1>1 DEF Right, LockRec
<1>3. W \cup O = {}  BY <1>1, <1>2, FS_EmptySet
<1>4. W \cup {t} = {t} /\ Cardinality({t}) = 1  BY <1>3, FS_Singleton
<1>. QED  BY <1>3, <1>4 DEF Right, New, LockRec

-----------------------------------------------------------------------------
(* The steps that touch a lock.                                              *)

(* A thread that is not waiting gives up the lock it has: every lock is      *)
(* right without it, and one that has waiters has one awake.                 *)
LEMMA ReleaseOwnRight ==
  ASSUME IInv, NEW t \in Thread, pc[t] = "idle"
  PROVE  LET U == ReleaseOwn(t) IN
         /\ U \in [Name -> LockRec]
         /\ \A k \in Name : Right(U[k], Waiting(k), Owner(k) \ {t})
         /\ \A S \in WokenBy(t) :
              /\ S \subseteq asleep
              /\ \A k \in Name : U[k].exists /\ ~U[k].locked => Waiting(k) \ S # {}
<1> DEFINE U == ReleaseOwn(t)
           n == thd_ull[t]
<1>. Types /\ Waits /\ Counted /\ NoLostSignal  BY DEF IInv
<1>1. CASE n = Nobody
  <2>1. U = ull /\ WokenBy(t) = {asleep}  BY <1>1 DEF ReleaseOwn, WokenBy
  <2>2. \A k \in Name : Owner(k) \ {t} = Owner(k)  BY <1>1, Names DEF Owner
  <2>3. ull \in [Name -> LockRec]  BY DEF Types
  <2>. QED  BY <2>1, <2>2, <2>3 DEF Counted, NoLostSignal
<1>2. CASE n # Nobody
  <2> DEFINE r == IF ull[n].count = 1 THEN NoLock
                  ELSE [ull[n] EXCEPT !.locked = FALSE, !.count = @ - 1]
  <2>1. n \in Name /\ ull \in [Name -> LockRec]  BY <1>2 DEF Types
  <2>2. Right(ull[n], Waiting(n), Owner(n)) /\ t \in Owner(n)
    BY <2>1 DEF Counted, Owner
  <2>3. Owner(n) = {t}  BY <2>2 DEF Right
  <2>4. Waiting(n) \in SUBSET Thread /\ t \notin Waiting(n)  BY DEF Waiting
  <2>5. Right(r, Waiting(n), {})  BY <2>2, <2>3, <2>4, ReleaseRight
  <2>6. U = [ull EXCEPT ![n] = r]  BY <1>2, <2>1 DEF ReleaseOwn, Released
  <2>7. U[n] = r /\ \A k \in Name \ {n} : U[k] = ull[k]  BY <2>1, <2>6
  <2>8. r \in LockRec  BY <2>5 DEF Right
  <2>9. U \in [Name -> LockRec]  BY <2>1, <2>6, <2>8
  <2>10. \A k \in Name \ {n} : Owner(k) \ {t} = Owner(k)  BY DEF Owner
  <2>11. \A k \in Name : Right(U[k], Waiting(k), Owner(k) \ {t})
    <3>1. Owner(n) \ {t} = {}  BY <2>3
    <3>. QED  BY <2>5, <2>7, <2>10, <3>1 DEF Counted
  <2>12. ASSUME NEW S \in WokenBy(t)
         PROVE  /\ S \subseteq asleep
                /\ \A k \in Name : U[k].exists /\ ~U[k].locked => Waiting(k) \ S # {}
    <3>1. S \in Signal(n)  BY <1>2 DEF WokenBy
    <3>2. S \subseteq asleep  BY <3>1 DEF Signal
    <3>3. ASSUME NEW k \in Name \ {n}, U[k].exists, ~U[k].locked
          PROVE  Waiting(k) \ S # {}
      BY <2>7, <3>2, <3>3 DEF NoLostSignal
    <3>4. ASSUME r.exists  PROVE Waiting(n) \ S # {}
      <4>1. SleepersOn(n) \subseteq Waiting(n)
        <5>1. \A s \in asleep : s \in Thread /\ (pc[s] = "wait" => current[s] \in Mutex)
          BY DEF Types, Waits
        <5>. QED  BY <2>1, <5>1, Names DEF SleepersOn, Waiting, Waits
      <4>2. CASE SleepersOn(n) = {}
        <5>1. S = asleep  BY <3>1, <4>2 DEF Signal
        <5>2. Waiting(n) # {}
          <6>1. r.count > 0 /\ r.count = Cardinality(Waiting(n) \cup {})
            BY <2>5, <3>4 DEF Right
          <6>2. Cardinality({}) = 0  BY FS_EmptySet
          <6>. QED  BY <6>1, <6>2
        <5>3. \A w \in Waiting(n) : w \notin asleep  BY <4>2 DEF Waiting, SleepersOn
        <5>. QED  BY <5>1, <5>2, <5>3
      <4>3. CASE SleepersOn(n) # {}
        <5>1. PICK s \in SleepersOn(n) : S = asleep \ {s}  BY <3>1, <4>3 DEF Signal
        <5>. QED  BY <4>1, <5>1
      <4>. QED  BY <4>2, <4>3
    <3>. QED  BY <2>7, <3>2, <3>3, <3>4
  <2>. QED  BY <2>9, <2>11, <2>12
<1>. QED  BY <1>1, <1>2

(* A thread leaves the wait loop of the lock n, in which it counts as one    *)
(* waiter more: it takes n or is no user of it any more, and the others are  *)
(* as they were.                                                             *)
LEMMA LeaveLoopRight ==
  ASSUME Types, NEW t \in Thread, NEW n \in Name, NEW U \in [Name -> LockRec],
         \A k \in Name : Right(U[k], IF k = n THEN Waiting(k) \cup {t} ELSE Waiting(k),
                               Owner(k) \ {t}),
         \A k \in Name \ {n} : t \notin Waiting(k),
         \A k \in Name \ {n} : U[k].exists /\ ~U[k].locked => Waiting(k) \ asleep' # {},
         \A x \in Thread \ {t} : current'[x] = current[x],
         LeaveLoop(t, n, U)
  PROVE  /\ ull' \in [Name -> LockRec] /\ thd_ull' \in [Thread -> Name \cup {Nobody}]
         /\ Counted' /\ NoLostSignal'
<1> DEFINE W == Waiting(n) \cup {t}
           O == Owner(n) \ {t}
<1>1. W \in SUBSET Thread /\ t \in W \ O /\ W \ {t} = Waiting(n) \ {t}  BY DEF Waiting
<1>2. Right(U[n], W, O)  OBVIOUS
<1>3. /\ Nobody \notin O
      /\ pc \in [Thread -> ThreadPc] /\ thd_ull \in [Thread -> Name \cup {Nobody}]
  BY Names DEF Owner, Types
<1>4. \A k \in Name : Waiting(k)' = Waiting(k) \ {t}
  BY <1>3 DEF LeaveLoop, Goto, Waiting
<1>5. \A k \in Name \ {n} : Waiting(k)' = Waiting(k)  BY <1>4
<1>6. CASE U[n].locked
  <2> DEFINE s == [U[n] EXCEPT !.count = @ - 1]
  <2>1. U[n].count # 1 /\ Right(s, W \ {t}, O)  BY <1>1, <1>2, <1>3, <1>6, LeaveRight
  <2>2. ull' = [U EXCEPT ![n] = s] /\ thd_ull' = [thd_ull EXCEPT ![t] = Nobody]
    BY <1>6, <2>1 DEF LeaveLoop
  <2>3. s \in LockRec /\ s.locked  BY <1>6, <2>1 DEF Right, LockRec
  <2>4. ull'[n] = s /\ \A k \in Name \ {n} : ull'[k] = U[k]  BY <2>2
  <2>5. \A k \in Name : Owner(k)' = Owner(k) \ {t}  BY <1>3, <2>2, Names DEF Owner
  <2>6. Right(ull'[n], Waiting(n)', Owner(n)')  BY <1>1, <1>4, <2>1, <2>4, <2>5
  <2>7. \A k \in Name \ {n} : Right(ull'[k], Waiting(k)', Owner(k)')
    BY <1>5, <2>4, <2>5
  <2>8. Counted'  BY <2>6, <2>7 DEF Counted
  <2>9. NoLostSignal'  BY <1>5, <2>3, <2>4 DEF NoLostSignal
  <2>10. ull' \in [Name -> LockRec] /\ thd_ull' \in [Thread -> Name \cup {Nobody}]
    BY <1>3, <2>2, <2>3
  <2>. QED  BY <2>8, <2>9, <2>10
<1>7. CASE ~ U[n].locked
  <2> DEFINE s == [U[n] EXCEPT !.locked = TRUE, !.thread = t]
  <2>1. Right(s, W \ {t}, {t})  BY <1>1, <1>2, <1>7, TakeRight
  <2>2. ull' = [U EXCEPT ![n] = s] /\ thd_ull' = [thd_ull EXCEPT ![t] = n]
    BY <1>7 DEF LeaveLoop
  <2>3. s \in LockRec /\ s.locked  BY <2>1 DEF Right, LockRec
  <2>4. ull'[n] = s /\ \A k \in Name \ {n} : ull'[k] = U[k]  BY <2>2
  <2>5. O = {}  BY <1>2, <1>7 DEF Right
  <2>6. Owner(n)' = {t} /\ \A k \in Name \ {n} : Owner(k)' = Owner(k) \ {t}
    BY <1>3, <2>2, <2>5 DEF Owner
  <2>7. Right(ull'[n], Waiting(n)', Owner(n)')  BY <1>1, <1>4, <2>1, <2>4, <2>6
  <2>8. \A k \in Name \ {n} : Right(ull'[k], Waiting(k)', Owner(k)')
    BY <1>5, <2>4, <2>6
  <2>9. Counted'  BY <2>7, <2>8 DEF Counted
  <2>10. NoLostSignal'  BY <1>5, <2>3, <2>4 DEF NoLostSignal
  <2>11. ull' \in [Name -> LockRec] /\ thd_ull' \in [Thread -> Name \cup {Nobody}]
    BY <1>3, <2>2, <2>3
  <2>. QED  BY <2>9, <2>10, <2>11
<1>. QED  BY <1>6, <1>7

(* GET_LOCK() *)
LEMMA GetLockStep ==
  ASSUME IInv, NEW t \in Thread, NEW n \in Name, get_lock(t, n)
  PROVE  IInv'
<1> DEFINE U == ReleaseOwn(t)
           V == [U EXCEPT ![n].count = @ + 1]
<1>. Types /\ Waits /\ Counted /\ NoLostSignal  BY DEF IInv
<1>1. /\ pc[t] = "idle" /\ kind' = [kind EXCEPT ![t] = "user_lock"]
      /\ UNCHANGED <<killed, mysys, owner, pending, kpc, victim>>
  BY DEF get_lock, kvars
<1>2. /\ U \in [Name -> LockRec]
      /\ \A k \in Name : Right(U[k], Waiting(k), Owner(k) \ {t})
  BY <1>1, ReleaseOwnRight
<1>3. /\ pc \in [Thread -> ThreadPc] /\ thd_ull \in [Thread -> Name \cup {Nobody}]
      /\ kind' \in [Thread -> Kind] /\ current \in [Thread -> Cond \cup {Nobody}]
      /\ n \in Cond
  BY <1>1 DEF Types, Kind, Cond
<1>4. \A k \in Name : /\ t \notin Waiting(k) /\ Waiting(k) \in SUBSET Thread
                      /\ Nobody \notin Owner(k) /\ Owner(k) \in SUBSET Thread
  BY <1>1, Names DEF Waiting, Owner
<1>5. PICK S \in WokenBy(t) :
          \/ /\ ~U[n].exists
             /\ ull' = [U EXCEPT ![n] = New(t)]
             /\ thd_ull' = [thd_ull EXCEPT ![t] = n]
             /\ asleep' = S
             /\ UNCHANGED <<pc, current>>
          \/ /\ U[n].exists
             /\ current' = [current EXCEPT ![t] = n]
             /\ IF t \in killed
                  THEN LeaveLoop(t, n, V) /\ asleep' = S
                  ELSE /\ ull' = V
                       /\ thd_ull' = [thd_ull EXCEPT ![t] = Nobody]
                       /\ asleep' = S \cup {t}
                       /\ Goto(t, "lock_wait")
  BY DEF get_lock
<1>6. /\ S \subseteq asleep /\ S \subseteq Thread
      /\ \A k \in Name : U[k].exists /\ ~U[k].locked => Waiting(k) \ S # {}
  BY <1>1, ReleaseOwnRight DEF Types
<1>7. CASE /\ ~U[n].exists
           /\ ull' = [U EXCEPT ![n] = New(t)]
           /\ thd_ull' = [thd_ull EXCEPT ![t] = n]
           /\ asleep' = S
           /\ UNCHANGED <<pc, current>>
  <2>1. Owner(n) \ {t} = {} /\ Right(New(t), Waiting(n), {t})
    BY <1>2, <1>4, <1>7, NewRight
  <2>2. New(t) \in LockRec /\ New(t).locked  BY <2>1 DEF Right, New
  <2>3. ull'[n] = New(t) /\ \A k \in Name \ {n} : ull'[k] = U[k]  BY <1>2, <1>7
  <2>4. \A k \in Name : Waiting(k)' = Waiting(k)  BY <1>7 DEF Waiting
  <2>5. Owner(n)' = {t} /\ \A k \in Name \ {n} : Owner(k)' = Owner(k) \ {t}
    BY <1>3, <1>7, <2>1 DEF Owner
  <2>6. Counted'  BY <1>2, <2>1, <2>3, <2>4, <2>5 DEF Counted
  <2>7. NoLostSignal'  BY <1>6, <1>7, <2>2, <2>3, <2>4 DEF NoLostSignal
  <2>8. ull' \in [Name -> LockRec] /\ thd_ull' \in [Thread -> Name \cup {Nobody}]
    BY <1>2, <1>3, <1>7, <2>2
  <2>9. Types'  BY <1>1, <1>3, <1>6, <1>7, <2>8 DEF Types
  <2>10. Waits'  BY <1>1, <1>3, <1>6, <1>7 DEF Waits
  <2>. QED  BY <2>6, <2>7, <2>9, <2>10 DEF IInv
<1>8. CASE /\ U[n].exists
           /\ current' = [current EXCEPT ![t] = n]
           /\ IF t \in killed
                THEN LeaveLoop(t, n, V) /\ asleep' = S
                ELSE /\ ull' = V
                     /\ thd_ull' = [thd_ull EXCEPT ![t] = Nobody]
                     /\ asleep' = S \cup {t}
                     /\ Goto(t, "lock_wait")
  <2> DEFINE s == [U[n] EXCEPT !.count = @ + 1]
  <2>1. V = [U EXCEPT ![n] = s] /\ V[n] = s /\ \A k \in Name \ {n} : V[k] = U[k]
    BY <1>2
  <2>2. Right(s, Waiting(n) \cup {t}, Owner(n) \ {t})
    BY <1>2, <1>4, <1>8, WaiterRight
  <2>3. s \in LockRec /\ s.exists = U[n].exists /\ s.locked = U[n].locked
    BY <1>2, <2>2 DEF Right, LockRec
  <2>4. V \in [Name -> LockRec]  BY <1>2, <2>1, <2>3
  <2>5. \A k \in Name : V[k].exists /\ ~V[k].locked => Waiting(k) \ S # {}
    BY <1>6, <2>1, <2>3
  <2>6. \A k \in Name : Right(V[k], IF k = n THEN Waiting(k) \cup {t} ELSE Waiting(k),
                              Owner(k) \ {t})
    BY <1>2, <2>1, <2>2
  <2>7. CASE t \in killed
    <3>1. LeaveLoop(t, n, V) /\ asleep' = S  BY <1>8, <2>7
    <3>2. \A x \in Thread \ {t} : current'[x] = current[x]  BY <1>3, <1>8
    <3>3. /\ ull' \in [Name -> LockRec] /\ thd_ull' \in [Thread -> Name \cup {Nobody}]
          /\ Counted' /\ NoLostSignal'
      BY <1>4, <2>4, <2>5, <2>6, <3>1, <3>2, LeaveLoopRight
    <3>4. /\ pc' = [pc EXCEPT ![t] = "lock_exit"]
          /\ \A x \in Thread \ {t} : thd_ull'[x] = thd_ull[x]
      BY <1>3, <3>1 DEF LeaveLoop, Goto
    <3>5. Types'  BY <1>1, <1>3, <1>6, <1>8, <3>1, <3>3, <3>4 DEF Types, ThreadPc
    <3>6. Waits'  BY <1>1, <1>3, <1>6, <1>8, <3>1, <3>4 DEF Waits
    <3>. QED  BY <3>3, <3>5, <3>6 DEF IInv
  <2>8. CASE t \notin killed
    <3>1. /\ ull' = V /\ thd_ull' = [thd_ull EXCEPT ![t] = Nobody]
          /\ asleep' = S \cup {t} /\ pc' = [pc EXCEPT ![t] = "lock_wait"]
      BY <1>8, <2>8 DEF Goto
    <3>2. Waiting(n)' = Waiting(n) \cup {t}
          /\ \A k \in Name \ {n} : Waiting(k)' = Waiting(k)
      BY <1>3, <1>4, <1>8, <3>1 DEF Waiting
    <3>3. \A k \in Name : Owner(k)' = Owner(k) \ {t}  BY <1>3, <3>1, Names DEF Owner
    <3>4. Counted'  BY <2>6, <3>1, <3>2, <3>3 DEF Counted
    <3>5. NoLostSignal'  BY <1>4, <2>5, <3>1, <3>2 DEF NoLostSignal
    <3>6. thd_ull' \in [Thread -> Name \cup {Nobody}]  BY <1>3, <3>1
    <3>7. Types'  BY <1>1, <1>3, <1>6, <1>8, <2>4, <3>1, <3>6 DEF Types, ThreadPc
    <3>8. Waits'  BY <1>1, <1>3, <1>6, <1>8, <3>1 DEF Waits
    <3>. QED  BY <3>4, <3>5, <3>7, <3>8 DEF IInv
  <2>. QED  BY <2>7, <2>8
<1>. QED  BY <1>5, <1>7, <1>8

(* RELEASE_LOCK() and the end of the connection *)
LEMMA ReleaseStep ==
  ASSUME IInv, NEW t \in Thread,
         Disconnect(t) \/ \E n \in Name : release_lock(t, n)
  PROVE  IInv'
<1>. Types /\ Waits /\ Counted /\ NoLostSignal  BY DEF IInv
<1> DEFINE Gives ==
             /\ pc[t] = "idle" /\ ull' = ReleaseOwn(t) /\ asleep' \in WokenBy(t)
             /\ thd_ull' = [thd_ull EXCEPT ![t] = Nobody]
             /\ killed' \subseteq killed
             /\ UNCHANGED <<pc, kind, current, mysys, owner, pending, kpc, victim>>
<1>1. Gives
  <2>1. CASE Disconnect(t)  BY <2>1 DEF Disconnect, kvars
  <2>2. ASSUME NEW n \in Name, release_lock(t, n)  PROVE Gives
    <3>1. Right(ull[n], Waiting(n), Owner(n)) /\ ull[n].locked /\ ull[n].thread = t
      BY <2>2 DEF Counted, release_lock
    <3>2. t \in Owner(n)  BY <3>1 DEF Right
    <3>3. thd_ull[t] = n /\ n # Nobody  BY <3>2, Names DEF Owner
    <3>. QED  BY <2>2, <3>3 DEF release_lock, kvars, ReleaseOwn, WokenBy
  <2>. QED  BY <2>1, <2>2
<1>2. /\ ull' \in [Name -> LockRec]
      /\ \A k \in Name : Right(ull'[k], Waiting(k), Owner(k) \ {t})
      /\ asleep' \subseteq asleep
      /\ \A k \in Name : ull'[k].exists /\ ~ull'[k].locked => Waiting(k) \ asleep' # {}
  BY <1>1, ReleaseOwnRight
<1>3. thd_ull \in [Thread -> Name \cup {Nobody}]  BY DEF Types
<1>4. \A k \in Name : Owner(k)' = Owner(k) \ {t}  BY <1>1, <1>3, Names DEF Owner
<1>5. \A k \in Name : Waiting(k)' = Waiting(k)  BY <1>1 DEF Waiting
<1>6. Counted'  BY <1>2, <1>4, <1>5 DEF Counted
<1>7. NoLostSignal'  BY <1>2, <1>5 DEF NoLostSignal
<1>8. thd_ull' \in [Thread -> Name \cup {Nobody}]  BY <1>1, <1>3
<1>9. Types'  BY <1>1, <1>2, <1>8 DEF Types
<1>10. Waits'  BY <1>1, <1>2, <1>3 DEF Waits
<1>. QED  BY <1>6, <1>7, <1>9, <1>10 DEF IInv

(* The waiter is awake, or its time is over, and it leaves the loop.         *)
LEMMA LeaveStep ==
  ASSUME IInv, NEW t \in Thread, pc[t] = "lock_wait",
         LeaveLoop(t, current[t], ull), asleep' = asleep \ {t},
         UNCHANGED <<kind, killed, current, mysys, owner, pending, kvars>>
  PROVE  IInv'
<1> DEFINE n == current[t]
<1>. Types /\ Waits /\ Counted /\ NoLostSignal  BY DEF IInv
<1>1. n \in Name /\ thd_ull[t] = Nobody  BY DEF Waits
<1>2. \A k \in Name : Owner(k) \ {t} = Owner(k)  BY <1>1, Names DEF Owner
<1>3. /\ t \in Waiting(n) /\ Waiting(n) \cup {t} = Waiting(n)
      /\ \A k \in Name \ {n} : t \notin Waiting(k)
  BY DEF Waiting
<1>4. \A k \in Name : Right(ull[k], IF k = n THEN Waiting(k) \cup {t} ELSE Waiting(k),
                            Owner(k) \ {t})
  BY <1>2, <1>3 DEF Counted
<1>5. \A k \in Name \ {n} : ull[k].exists /\ ~ull[k].locked => Waiting(k) \ asleep' # {}
  BY DEF NoLostSignal
<1>6. ull \in [Name -> LockRec] /\ current' = current  BY DEF Types
<1>7. /\ ull' \in [Name -> LockRec] /\ thd_ull' \in [Thread -> Name \cup {Nobody}]
      /\ Counted' /\ NoLostSignal'
  BY <1>1, <1>3, <1>4, <1>5, <1>6, LeaveLoopRight
<1>8. /\ pc \in [Thread -> ThreadPc] /\ pc' = [pc EXCEPT ![t] = "lock_exit"]
      /\ \A x \in Thread \ {t} : thd_ull'[x] = thd_ull[x]
  BY DEF LeaveLoop, Goto, Types
<1>9. Types'  BY <1>7, <1>8 DEF Types, ThreadPc, kvars
<1>10. Waits'  BY <1>8 DEF Waits, Types
<1>. QED  BY <1>7, <1>9, <1>10 DEF IInv

-----------------------------------------------------------------------------
(* The steps that touch no lock.                                             *)

(* The waiters stay, and none goes to sleep on a free lock.                  *)
Still ==
    /\ UNCHANGED lvars
    /\ \A t \in Thread : pc'[t] = "lock_wait" <=> pc[t] = "lock_wait"
    /\ \A t \in Thread : pc[t] = "lock_wait" =>
          /\ current'[t] = current[t]
          /\ t \in asleep' => t \in asleep \/ ull[current[t]].locked

(* Such a step keeps the counts and the wakeups. *)
LEMMA Undisturbed ==
  ASSUME IInv, Still
  PROVE  Counted' /\ NoLostSignal'
<1>1. ull' = ull /\ thd_ull' = thd_ull  BY DEF Still, lvars
<1>2. \A k \in Name : Waiting(k)' = Waiting(k)  BY DEF Still, Waiting
<1>3. \A k \in Name : Owner(k)' = Owner(k)  BY <1>1 DEF Owner
<1>4. Counted'  BY <1>1, <1>2, <1>3 DEF IInv, Counted
<1>5. ASSUME NEW k \in Name, ull[k].exists, ~ull[k].locked
      PROVE  Waiting(k) \ asleep' # {}
  <2>1. PICK w \in Waiting(k) : w \notin asleep  BY <1>5 DEF IInv, NoLostSignal
  <2>2. w \in Thread /\ pc[w] = "lock_wait" /\ current[w] = k  BY <2>1 DEF Waiting
  <2>. QED  BY <1>5, <2>1, <2>2 DEF Still
<1>6. NoLostSignal'  BY <1>1, <1>2, <1>5 DEF NoLostSignal
<1>. QED  BY <1>4, <1>6

(* The steps that touch no lock are such, and keep the types. *)
LEMMA OtherStep ==
  ASSUME IInv,
         \/ \E t \in Thread :
              \/ wait_if_global_read_lock(t) \/ wait_for_pos(t) \/ LockExit(t)
              \/ PosTest(t) \/ PosEnter(t) \/ Woken(t) \/ exit_cond(t) \/ Kill(t)
         \/ KillerStep
         \/ \E m \in Mutex : Reached(m) \/ Again(m)
         \/ UNCHANGED vars
  PROVE  Types' /\ Waits' /\ Still
<1>. Types /\ Waits  BY DEF IInv
<1>. USE DEF Types, Waits, Still, lvars, kvars, Goto, ThreadPc, Kind, Cond, Mutex
<1>1. ASSUME NEW t \in Thread, wait_if_global_read_lock(t)  PROVE Types' /\ Waits' /\ Still
  BY <1>1, Names DEF wait_if_global_read_lock
<1>2. ASSUME NEW t \in Thread, wait_for_pos(t)  PROVE Types' /\ Waits' /\ Still
  BY <1>2 DEF wait_for_pos
<1>3. ASSUME NEW t \in Thread, LockExit(t)  PROVE Types' /\ Waits' /\ Still
  BY <1>3, Names DEF LockExit
<1>4. ASSUME NEW t \in Thread, PosTest(t)  PROVE Types' /\ Waits' /\ Still
  BY <1>4 DEF PosTest
<1>5. ASSUME NEW t \in Thread, PosEnter(t)  PROVE Types' /\ Waits' /\ Still
  BY <1>5, Names DEF PosEnter
<1>6. ASSUME NEW t \in Thread, Woken(t)  PROVE Types' /\ Waits' /\ Still
  BY <1>6 DEF Woken
<1>7. ASSUME NEW t \in Thread, exit_cond(t)  PROVE Types' /\ Waits' /\ Still
  BY <1>7, Names DEF exit_cond
<1>8. ASSUME NEW t \in Thread, Kill(t)  PROVE Types' /\ Waits' /\ Still
  BY <1>8 DEF Kill
<1>9. CASE KillLock
  BY <1>9 DEF KillLock
<1>10. CASE KillBroadcast
  <2>1. asleep' \subseteq asleep  BY <1>10 DEF KillBroadcast, Broadcast
  <2>. QED  BY <1>10, <2>1 DEF KillBroadcast
<1>11. ASSUME NEW m \in Mutex, Reached(m)  PROVE Types' /\ Waits' /\ Still
  BY <1>11 DEF Reached, Broadcast
<1>12. ASSUME NEW m \in Mutex, Again(m)  PROVE Types' /\ Waits' /\ Still
  BY <1>12 DEF Again
<1>13. CASE UNCHANGED vars
  BY <1>13 DEF vars
<1>. QED  BY <1>1, <1>2, <1>3, <1>4, <1>5, <1>6, <1>7, <1>8, <1>9, <1>10, <1>11,
             <1>12, <1>13 DEF KillerStep

-----------------------------------------------------------------------------
(* The invariant holds at first, *)
LEMMA InitInv == Init => IInv
<1> SUFFICES ASSUME Init PROVE IInv  OBVIOUS
<1>1. Types
  BY Names DEF Init, Types, LockRec, NoLock, ThreadPc, Kind, Mutex
<1>2. Waits /\ NoLostSignal  BY Names DEF Init, Waits, NoLostSignal, NoLock
<1>3. ASSUME NEW n \in Name  PROVE Right(ull[n], Waiting(n), Owner(n))
  <2>1. Waiting(n) = {} /\ Owner(n) = {} /\ ull[n] = NoLock
    BY Names DEF Init, Waiting, Owner
  <2>2. Cardinality({} \cup {}) = 0  BY FS_EmptySet
  <2>. QED  BY <2>1, <2>2 DEF Right, NoLock, LockRec
<1>. QED  BY <1>1, <1>2, <1>3 DEF IInv, Counted

(* is kept by every step, one action after the other, *)
LEMMA NextInv == IInv /\ [Next]_vars => IInv'
<1> SUFFICES ASSUME IInv, [Next]_vars PROVE IInv'  OBVIOUS
<1>1. ASSUME NEW t \in Thread, NEW n \in Name, get_lock(t, n)  PROVE IInv'
  BY <1>1, GetLockStep
<1>2. ASSUME NEW t \in Thread, NEW n \in Name, release_lock(t, n)  PROVE IInv'
  BY <1>2, ReleaseStep
<1>3. ASSUME NEW t \in Thread, Disconnect(t)  PROVE IInv'
  BY <1>3, ReleaseStep
<1>4. ASSUME NEW t \in Thread, LockTimeOut(t)  PROVE IInv'
  BY <1>4, LeaveStep DEF LockTimeOut
<1>5. ASSUME NEW t \in Thread, LockWoken(t)  PROVE IInv'
  <2>1. CASE t \in killed \/ ~ull[current[t]].locked
    <3>1. asleep' = asleep \ {t}  BY <1>5, <2>1 DEF LockWoken
    <3>. QED  BY <1>5, <2>1, <3>1, LeaveStep DEF LockWoken
  <2>2. CASE ~ (t \in killed \/ ~ull[current[t]].locked)
    <3>1. Still  BY <1>5, <2>2 DEF LockWoken, Still, lvars
    <3>2. Types' /\ Waits'
      BY <1>5, <2>2 DEF LockWoken, IInv, Types, Waits, lvars, kvars
    <3>. QED  BY <3>1, <3>2, Undisturbed DEF IInv
  <2>. QED  BY <2>1, <2>2
<1>6. ASSUME \/ \E t \in Thread :
                  \/ wait_if_global_read_lock(t) \/ wait_for_pos(t) \/ LockExit(t)
                  \/ PosTest(t) \/ PosEnter(t) \/ Woken(t) \/ exit_cond(t) \/ Kill(t)
             \/ KillerStep
             \/ \E m \in Mutex : Reached(m) \/ Again(m)
             \/ UNCHANGED vars
      PROVE  IInv'
  BY <1>6, OtherStep, Undisturbed DEF IInv
<1>. QED  BY <1>1, <1>2, <1>3, <1>4, <1>5, <1>6 DEF Next, ThreadStep

(* and implies CountRight. *)
LEMMA CountRightHolds == IInv => CountRight
<1> SUFFICES ASSUME IInv PROVE CountRight  OBVIOUS
<1>. Types /\ Waits /\ Counted  BY DEF IInv
<1>1. ASSUME NEW n \in Name
      PROVE  /\ Cardinality(Owner(n)) = (IF ull[n].locked THEN 1 ELSE 0)
             /\ ull[n].locked => Owner(n) = {ull[n].thread}
             /\ ull[n].count = Cardinality(Waiting(n)) + Cardinality(Owner(n))
             /\ ull[n].exists <=> ull[n].count > 0
             /\ ull[n].count \in 0 .. Cardinality(Thread)
  <2> DEFINE W == Waiting(n)
             O == Owner(n)
             r == ull[n]
  <2>1. Right(r, W, O)  BY DEF Counted
  <2>2. W \in SUBSET Thread /\ Nobody \notin O /\ O \subseteq Thread
    BY Names DEF Waiting, Owner
  <2>3. /\ IsFiniteSet(W \cup O) /\ Cardinality(W \cup O) \in Nat
        /\ IsFiniteSet(W) /\ Cardinality(W) \in Nat
    BY <2>1, <2>2, UsersFinite
  <2>4. Cardinality(W \cup O) <= Cardinality(Thread) /\ Cardinality(Thread) \in Nat
    BY <2>2, Names, FS_Subset, FS_CardinalityType
  <2>5. W \cap O = {}  BY Names DEF Waiting, Owner, Waits
  <2>6. Cardinality(O) = (IF r.locked THEN 1 ELSE 0)
    BY <2>1, FS_EmptySet, FS_Singleton DEF Right
  <2>7. Cardinality(W \cup O) = Cardinality(W) + Cardinality(O)
    <3>1. CASE r.locked
      <4>1. O = {r.thread} /\ r.thread \notin W  BY <2>1, <2>5, <3>1 DEF Right
      <4>. QED  BY <2>3, <2>6, <3>1, <4>1, FS_AddElement
    <3>2. CASE ~ r.locked
      <4>1. O = {} /\ W \cup O = W  BY <2>1, <3>2 DEF Right
      <4>. QED  BY <2>3, <2>6, <3>2, <4>1
    <3>. QED  BY <3>1, <3>2
  <2>. QED  BY <2>1, <2>3, <2>4, <2>6, <2>7 DEF Right
<1>2. ull \in [Name -> [exists : BOOLEAN, locked : BOOLEAN,
                        count : 0 .. Cardinality(Thread),
                        thread : Thread \cup {Nobody}]]
  BY <1>1 DEF Types, LockRec
<1>3. TypeOK  BY <1>2 DEF Types, TypeOK
<1>4. ASSUME NEW t \in Thread, current[t] \in Name
      PROVE  ull[current[t]].exists \/ Left(t)
  <2> DEFINE n == current[t]
  <2>1. CASE Left(t)  BY <2>1
  <2>2. CASE ~Left(t)
    <3>1. t \in Waiting(n) \cup Owner(n)  BY <1>4, <2>2 DEF Waits, Left, Waiting, Owner
    <3>2. Right(ull[n], Waiting(n), Owner(n))  BY <1>4 DEF Counted
    <3>3. /\ IsFiniteSet(Waiting(n) \cup Owner(n))
          /\ Cardinality(Waiting(n) \cup Owner(n)) \in Nat
      BY <3>2, Names, UsersFinite DEF Waiting, Owner
    <3>4. Cardinality(Waiting(n) \cup Owner(n)) # 0  BY <3>1, <3>3, FS_EmptySet
    <3>. QED  BY <3>2, <3>3, <3>4 DEF Right
  <2>. QED  BY <2>1, <2>2
<1>. QED  BY <1>1, <1>3, <1>4 DEF CountRight

(* The reference counts of user locks are right in every state, for any      *)
(* number of connections and names: the struct User_level_lock is freed by   *)
(* the last of its owner and the threads in the wait loop                    *)
(* (Item_func_get_lock, item_user_lock_release()), so that a KILL finds the  *)
(* condition of an existing lock in current_cond, or a victim that has left  *)
(* the loop without the lock: the one case in which it may use a freed one.  *)
THEOREM CountsHold == Spec => []CountRight
<1>1. Init => IInv  BY InitInv
<1>2. IInv /\ [Next]_vars => IInv'  BY NextInv
<1>3. IInv => CountRight  BY CountRightHolds
<1>. QED  BY <1>1, <1>2, <1>3, PTL DEF Spec

(* A free user lock that has waiters has one that is awake, although         *)
(* item_user_lock_release() signals one of them only, which may time out or  *)
(* be killed, and newcomers go to sleep without a look at the lock.          *)
THEOREM SignalsKept == Spec => []NoLostSignal
<1>1. Init => IInv  BY InitInv
<1>2. IInv /\ [Next]_vars => IInv'  BY NextInv
<1>3. IInv => NoLostSignal  BY DEF IInv
<1>. QED  BY <1>1, <1>2, <1>3, PTL DEF Spec
=============================================================================
