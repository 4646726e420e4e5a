----------------------------- MODULE RecordLock -----------------------------
(* Record locks of InnoDB (innobase/lock/lock0lock.c) under locking reads    *)
(* (row/row0sel.c), inserts (row/row0ins.c), delete marking (btr/btr0cur.c), *)
(* rollback (row/row0uins.c, row0umod.c) and purge (row/row0purge.c), on one *)
(* page of a clustered index.                                                *)
(*                                                                           *)
(* A mini-transaction keeps its latch on the page and takes the kernel mutex *)
(* under it, so that what it does is one step.  The queue of a record is the *)
(* requests on it in the order of the page's hash chain; a lock struct the   *)
(* code reuses stands nowhere in particular among the granted ones, for it   *)
(* is reused only when nobody waits.                                         *)
EXTENDS Naturals, Sequences, FiniteSets, SequencesExt, Lists

CONSTANTS
    Trx,       \* transactions; a name serves again after commit or rollback
    NoTrx,     \* the transaction of a version that is committed
    MaxKey,    \* the keys are 1..MaxKey
    From,      \* the keys a scan may begin at
    MaxQueue,  \* bound on the requests of a record when a new one is made
    MaxUndo    \* bound on the changes of a transaction

ASSUME RecordLockAssumption ==
    /\ IsFiniteSet(Trx) /\ NoTrx \notin Trx
    /\ MaxKey \in Nat \ {0}
    /\ From \subseteq 1..MaxKey
    /\ MaxQueue \in Nat /\ MaxUndo \in Nat

Key == 1..MaxKey
Supremum == MaxKey + 1
Rec == 1..Supremum
LockMode == {"S", "X"}

VARIABLES
    page,      \* the keys of the user records on the page
    deleted,   \* those that are delete-marked
    writer,    \* DB_TRX_ID: the active transaction that wrote a record, which
               \* has an implicit x-lock on it
    queue,     \* the lock requests on each record
    waiting,   \* transactions whose que_state is TRX_QUE_LOCK_WAIT
    op,        \* what each transaction goes on with when it runs
    undo,      \* its undo log
    cursor,    \* its scan: the lock mode, where it began, the last record passed
    result     \* the rows the scan has read

vars == <<page, deleted, writer, queue, waiting, op, undo, cursor, result>>
rows == <<page, deleted, writer>>
scans == <<cursor, result>>

Request == [trx : Trx, mode : LockMode, gap : BOOLEAN, wait : BOOLEAN]
UndoRec == [type : {"insert", "upd_del", "del_mark"}, key : Key, prev : Trx \cup {NoTrx}]
Op == [do : {"none", "scan", "insert", "rollback", "remove"}, key : 0..Supremum]

None == [do |-> "none", key |-> 0]
RollBack == [do |-> "rollback", key |-> 0]
NoScan == [mode |-> "S", from |-> 0, pos |-> 0]

Init ==
    /\ page \in SUBSET Key
    /\ deleted = {}
    /\ writer = [k \in Key |-> NoTrx]
    /\ queue = [r \in Rec |-> <<>>]
    /\ waiting = {}
    /\ op = [t \in Trx |-> None]
    /\ undo = [t \in Trx |-> <<>>]
    /\ cursor = [t \in Trx |-> NoScan]
    /\ result = [t \in Trx |-> {}]

(* The record after key k on the page: page_rec_get_next()                   *)
NextRec(k) == Min({r \in page \cup {Supremum} : r > k})

-----------------------------------------------------------------------------
(* The lock table, as functions of the queues q                              *)

StrongerOrEq(m, n) == m = "X" \/ n = "S"
Compatible(m, n) == m = "S" /\ n = "S"
ConflictMode(m) == IF m = "S" THEN "X" ELSE "S"

(* A request on the supremum is always of the gap type.                      *)
NonGap(r, l) == ~l.gap /\ r # Supremum

HasExpl(q, m, r, t) ==
    \E l \in Range(q[r]) :
        l.trx = t /\ StrongerOrEq(l.mode, m) /\ ~l.wait /\ NonGap(r, l)

OtherHasExplReq(q, m, gap, r, t) ==
    \E l \in Range(q[r]) :
        l.trx # t /\ (gap \/ NonGap(r, l)) /\ StrongerOrEq(l.mode, m)

(* Faulty: a granted request goes ahead of those that wait.                  *)
AddInFront(q, r, t, m, gap) ==
    LET l == [trx |-> t, mode |-> m, gap |-> gap /\ r # Supremum, wait |-> FALSE]
    IN IF l \in Range(q[r]) THEN q ELSE [q EXCEPT ![r] = <<l>> \o @]

(* A granted request goes last, unless nobody waits and a similar one exists *)
AddToQueue(q, r, t, m, gap) ==
    LET l == [trx |-> t, mode |-> m, gap |-> gap /\ r # Supremum, wait |-> FALSE]
        somebody_waits == \E x \in Range(q[r]) : x.wait
    IN IF ~somebody_waits /\ l \in Range(q[r]) THEN q ELSE [q EXCEPT ![r] = Append(@, l)]

(* The request at place i waits for that at place j; the gap bits are ignored. *)
WaitsAt(q, r, i, j) ==
    /\ j < i
    /\ q[r][j].trx # q[r][i].trx
    /\ ~Compatible(q[r][i].mode, q[r][j].mode)

HasToWaitInQueue(q, r, i) == \E j \in DOMAIN q[r] : WaitsAt(q, r, i, j)

WaitsFor(q, t) ==
    {u \in Trx : \E r \in Rec : \E i, j \in DOMAIN q[r] :
        q[r][i].trx = t /\ q[r][i].wait /\ WaitsAt(q, r, i, j) /\ q[r][j].trx = u}

(* The transactions reached from t along the waits-for graph                 *)
Reached(q, t) ==
    LET reach[n \in 0..Cardinality(Trx)] ==
            IF n = 0 THEN WaitsFor(q, t)
            ELSE reach[n - 1] \cup UNION {WaitsFor(q, u) : u \in reach[n - 1]}
    IN reach[Cardinality(Trx)]

DeadlockOccurs(q, t) == t \in Reached(q, t)

EnqueueWaiting(q, r, t, m, gap) ==
    LET l == [trx |-> t, mode |-> m, gap |-> gap /\ r # Supremum, wait |-> TRUE]
        new == [q EXCEPT ![r] = Append(@, l)]
    IN IF DeadlockOccurs(new, t)
       THEN [queue |-> q, err |-> "deadlock"]
       ELSE [queue |-> new, err |-> "lock_wait"]

(* lock_rec_lock: with impl, nothing is set when there is no need to wait    *)
RecLock(q, impl, m, r, t) ==
    IF HasExpl(q, m, r, t)
    THEN [queue |-> q, err |-> "success"]
    ELSE IF OtherHasExplReq(q, ConflictMode(m), FALSE, r, t)
    THEN EnqueueWaiting(q, r, t, m, FALSE)
    ELSE [queue |-> IF impl THEN q ELSE AddToQueue(q, r, t, m, FALSE), err |-> "success"]

(* Faulty: the implicit lock is left implicit.                               *)
StayImplicit(q, r) == q

ConvertImplToExpl(q, r) ==
    IF r # Supremum /\ writer[r] # NoTrx /\ ~HasExpl(q, "X", r, writer[r])
    THEN AddToQueue(q, r, writer[r], "X", FALSE)
    ELSE q

ReadCheckAndLock(q, m, r, t) == RecLock(ConvertImplToExpl(q, r), FALSE, m, r, t)
ModifyCheckAndLock(q, r, t) == RecLock(ConvertImplToExpl(q, r), TRUE, "X", r, t)

InsertCheckAndLock(q, next, t) ==
    IF OtherHasExplReq(q, "S", TRUE, next, t)
    THEN EnqueueWaiting(q, next, t, "X", TRUE)
    ELSE [queue |-> q, err |-> "success"]

(* Grants every waiting request that has nothing to wait for any more        *)
Grant(q) ==
    [r \in Rec |-> [i \in DOMAIN q[r] |->
        [q[r][i] EXCEPT !.wait = @ /\ HasToWaitInQueue(q, r, i)]]]

WaitersOf(q) == {t \in Trx : \E r \in Rec : \E l \in Range(q[r]) : l.trx = t /\ l.wait}

(* lock_release_off_kernel                                                   *)
ReleaseAll(q, t) ==
    Grant([r \in Rec |-> SubList(q[r], {l \in Request : l.trx # t})])

(* Faulty: those behind the cancelled request are not looked at.             *)
CancelOnly(q, t) ==
    [r \in Rec |-> SubList(q[r], {l \in Request : l.trx # t \/ ~l.wait})]

(* lock_cancel_waiting_and_release                                           *)
CancelWaiting(q, t) ==
    Grant([r \in Rec |-> SubList(q[r], {l \in Request : l.trx # t \/ ~l.wait})])

(* The queues q after the requests s are added to that of heir as gap locks. *)
AddGapLocks(q, heir, s) ==
    LET upto[n \in 0 .. Len(s)] ==
            IF n = 0 THEN q
            ELSE AddToQueue(upto[n - 1], heir, s[n].trx, s[n].mode, TRUE)
    IN upto[Len(s)]

(* Faulty: waiting requests are not inherited.                               *)
InheritGranted(q, heir, rec) ==
    AddGapLocks(q, heir, SubList(q[rec], {l \in Request : ~l.wait}))

(* Waiting requests too are inherited, as granted gap locks.                 *)
InheritToGap(q, heir, rec) == AddGapLocks(q, heir, q[rec])

(* Faulty: the lock bits of the removed record stay.                         *)
UpdateDeleteKeep(q, rec) == InheritToGap(q, NextRec(rec), rec)

(* lock_update_delete: who waits on rec is let go                            *)
UpdateDelete(q, rec) == [InheritToGap(q, NextRec(rec), rec) EXCEPT ![rec] = <<>>]
WaitsOn(q, rec) == {t \in Trx : \E l \in Range(q[rec]) : l.trx = t /\ l.wait}

-----------------------------------------------------------------------------
(* What a lock request that is not granted makes of transaction t, which     *)
(* tries again from "again" when its wait ends                               *)
WaitOrError(t, res, again) ==
    /\ queue' = res.queue
    /\ \/ /\ res.err = "lock_wait"
          /\ waiting' = waiting \cup {t}
          /\ op' = [op EXCEPT ![t] = again]
       \/ /\ res.err = "deadlock"
          /\ waiting' = waiting
          /\ op' = [op EXCEPT ![t] = RollBack]
    /\ UNCHANGED <<rows, undo>>

Runs(t, what) == t \notin waiting /\ op[t].do = what
Room(r) == Len(queue[r]) < MaxQueue
MayWrite(t) == Len(undo[t]) < MaxUndo

(* The record a scan with cursor c has to lock: the next one, or that it has *)
(* waited for, and if it is gone the one after it.                           *)
ScanRec(t, c) ==
    IF op[t].do = "none" THEN NextRec(c.pos)
    ELSE IF op[t].key \in page \cup {Supremum} THEN op[t].key
    ELSE NextRec(op[t].key)

(* rec_loop of row_search_for_mysql(): locks a record, which is read unless  *)
(* it is the supremum or delete-marked                                       *)
ScanNext(t, c) ==
    LET rec == ScanRec(t, c)
        res == ReadCheckAndLock(queue, c.mode, rec, t)
    IN /\ t \notin waiting
       /\ Room(rec)
       /\ \/ /\ res.err = "success"
             /\ queue' = res.queue
             /\ op' = [op EXCEPT ![t] = None]
             /\ cursor' = [cursor EXCEPT ![t] = [c EXCEPT !.pos = rec]]
             /\ result' = [result EXCEPT ![t] = @ \cup ({rec} \cap (page \ deleted))]
             /\ UNCHANGED <<rows, waiting, undo>>
          \/ /\ cursor' = [cursor EXCEPT ![t] = c]
             /\ WaitOrError(t, res, [do |-> "scan", key |-> rec])
             /\ UNCHANGED result

(* A locking read begins with the first record from key k on.                *)
StartScan(t, k, m) ==
    /\ op[t].do = "none" /\ cursor[t] = NoScan
    /\ ScanNext(t, [mode |-> m, from |-> k, pos |-> k - 1])

Scan(t) ==
    /\ op[t].do \in {"none", "scan"}
    /\ cursor[t] # NoScan /\ cursor[t].pos < Supremum
    /\ ScanNext(t, cursor[t])

(* DELETE, UPDATE: the row the cursor has just read.  No lock is asked for    *)
(* (BTR_NO_LOCKING_FLAG): the scan is taken to have x-locked the record.     *)
DeleteMark(t) ==
    LET k == cursor[t].pos
    IN /\ Runs(t, "none") /\ MayWrite(t)
       /\ cursor[t].from # 0 /\ cursor[t].mode = "X"
       /\ k \in result[t] /\ k \notin deleted
       /\ deleted' = deleted \cup {k}
       /\ writer' = [writer EXCEPT ![k] = t]
       /\ undo' = [undo EXCEPT ![t] =
              Append(@, [type |-> "del_mark", key |-> k, prev |-> writer[k]])]
       /\ UNCHANGED <<page, queue, waiting, op, scans>>

-----------------------------------------------------------------------------
(* INSERT of key k, row_ins_index_entry_low(): done again from the beginning *)
(* after a wait                                                              *)
Inserts(t, k) ==
    /\ t \notin waiting /\ MayWrite(t)
    /\ op[t].do = "none" \/ op[t] = [do |-> "insert", key |-> k]

(* Faulty: the duplicate check takes no lock.                                *)
DuplicateUnlocked(k, t) == [queue |-> queue, err |-> "success"]

(* An s-lock is taken on a record of the same key                            *)
DuplicateErrorInClust(k, t) == ReadCheckAndLock(queue, "S", k, t)

InsertDuplicate(t, k) ==
    LET res == DuplicateErrorInClust(k, t)
    IN /\ Inserts(t, k)
       /\ k \in page /\ Room(k)
       /\ \/ /\ res.err = "success" /\ k \notin deleted
             /\ queue' = res.queue
             /\ op' = [op EXCEPT ![t] = None]
             /\ UNCHANGED <<rows, waiting, undo, scans>>
          \/ WaitOrError(t, res, [do |-> "insert", key |-> k]) /\ UNCHANGED scans

(* A delete-marked record becomes the new row.                               *)
InsertByModify(t, k) ==
    LET shared == DuplicateErrorInClust(k, t)
        res == ModifyCheckAndLock(shared.queue, k, t)
    IN /\ Inserts(t, k)
       /\ k \in deleted /\ Room(k)
       /\ shared.err = "success"
       /\ \/ /\ res.err = "success"
             /\ queue' = res.queue
             /\ deleted' = deleted \ {k}
             /\ writer' = [writer EXCEPT ![k] = t]
             /\ undo' = [undo EXCEPT ![t] =
                    Append(@, [type |-> "upd_del", key |-> k, prev |-> writer[k]])]
             /\ op' = [op EXCEPT ![t] = None]
             /\ UNCHANGED <<page, waiting, scans>>
          \/ WaitOrError(t, res, [do |-> "insert", key |-> k]) /\ UNCHANGED scans

(* The new record inherits the locks of the next one as gap locks.           *)
InsertRecord(t, k) ==
    LET next == NextRec(k)
        res == InsertCheckAndLock(queue, next, t)
    IN /\ Inserts(t, k)
       /\ k \notin page /\ Room(next)
       /\ \/ /\ res.err = "success"
             /\ queue' = InheritToGap(res.queue, k, next)
             /\ page' = page \cup {k}
             /\ writer' = [writer EXCEPT ![k] = t]
             /\ undo' = [undo EXCEPT ![t] =
                    Append(@, [type |-> "insert", key |-> k, prev |-> NoTrx])]
             /\ op' = [op EXCEPT ![t] = None]
             /\ UNCHANGED <<deleted, waiting, scans>>
          \/ WaitOrError(t, res, [do |-> "insert", key |-> k]) /\ UNCHANGED scans

Insert(t, k) == InsertDuplicate(t, k) \/ InsertByModify(t, k) \/ InsertRecord(t, k)

-----------------------------------------------------------------------------
(* The end of a transaction: its versions are committed, then its locks go.  *)
End(t) ==
    /\ writer' = [k \in Key |-> IF writer[k] = t THEN NoTrx ELSE writer[k]]
    /\ queue' = ReleaseAll(queue, t)
    /\ waiting' = waiting \cap WaitersOf(queue')
    /\ op' = [op EXCEPT ![t] = None]
    /\ undo' = [undo EXCEPT ![t] = <<>>]
    /\ cursor' = [cursor EXCEPT ![t] = NoScan]
    /\ result' = [result EXCEPT ![t] = {}]
    /\ UNCHANGED <<page, deleted>>

(* A transaction that has not started has nothing to end.                    *)
Started ==
    {t \in Trx : undo[t] # <<>> \/ cursor[t] # NoScan}
        \cup {l.trx : l \in UNION {Range(queue[r]) : r \in Rec}}

Commit(t) == Runs(t, "none") /\ t \in Started /\ End(t)

(* ROLLBACK, or an error; a thread that wakes after lock_wait_timeout rolls  *)
(* back even when its lock was granted.                                      *)
StartRollback(t) ==
    /\ t \notin waiting
    /\ op[t].do \in {"none", "scan", "insert"} /\ t \in Started
    /\ op' = [op EXCEPT ![t] = RollBack]
    /\ UNCHANGED <<rows, queue, waiting, undo, scans>>

(* The lock wait timeout thread                                              *)
Timeout(t) ==
    /\ t \in waiting
    /\ queue' = CancelWaiting(queue, t)
    /\ waiting' = waiting \cap WaitersOf(queue')
    /\ op' = [op EXCEPT ![t] = RollBack]
    /\ UNCHANGED <<rows, undo, scans>>

(* btr_cur_optimistic_delete() of the record of key k                        *)
RemoveRecord(k) ==
    /\ page' = page \ {k}
    /\ deleted' = deleted \ {k}
    /\ writer' = [writer EXCEPT ![k] = NoTrx]
    /\ queue' = UpdateDelete(queue, k)
    /\ waiting' = waiting \ WaitsOn(queue, k)

UndoLast(t) == undo' = [undo EXCEPT ![t] = Front(@)]

UndoInsert(t) ==
    /\ Runs(t, "rollback") /\ undo[t] # <<>>
    /\ Last(undo[t]).type = "insert"
    /\ RemoveRecord(Last(undo[t]).key)
    /\ UndoLast(t)
    /\ UNCHANGED <<op, scans>>

UndoDeleteMark(t) ==
    LET u == Last(undo[t])
    IN /\ Runs(t, "rollback") /\ undo[t] # <<>>
       /\ u.type = "del_mark"
       /\ deleted' = deleted \ {u.key}
       /\ writer' = [writer EXCEPT ![u.key] = u.prev]
       /\ UndoLast(t)
       /\ UNCHANGED <<page, queue, waiting, op, scans>>

(* The record is delete-marked again; the removal is a mini-transaction of   *)
(* its own, when its version before was written by a committed transaction.  *)
UndoInsertByModify(t) ==
    LET u == Last(undo[t])
    IN /\ Runs(t, "rollback") /\ undo[t] # <<>>
       /\ u.type = "upd_del"
       /\ deleted' = deleted \cup {u.key}
       /\ writer' = [writer EXCEPT ![u.key] = u.prev]
       /\ UndoLast(t)
       /\ op' = [op EXCEPT ![t] =
              IF u.prev = NoTrx THEN [do |-> "remove", key |-> u.key] ELSE RollBack]
       /\ UNCHANGED <<page, queue, waiting, scans>>

(* row_undo_mod_remove_clust_low(): the record is removed if it is there and *)
(* no read view needs it; its delete mark is not looked at.                  *)
UndoRemove(t) ==
    /\ Runs(t, "remove")
    /\ \/ /\ op[t].key \in page
          /\ RemoveRecord(op[t].key)
       \/ UNCHANGED <<rows, queue, waiting>>
    /\ op' = [op EXCEPT ![t] = RollBack]
    /\ UNCHANGED <<undo, scans>>

EndRollback(t) == Runs(t, "rollback") /\ undo[t] = <<>> /\ End(t)

Undo(t) ==
    UndoInsert(t) \/ UndoDeleteMark(t) \/ UndoInsertByModify(t) \/ UndoRemove(t)

(* Purge removes a record whose delete marking is committed.                 *)
Purge(k) ==
    /\ k \in deleted /\ writer[k] = NoTrx
    /\ RemoveRecord(k)
    /\ UNCHANGED <<op, undo, scans>>

Next ==
    \/ \E t \in Trx :
        \/ \E k \in From, m \in LockMode : StartScan(t, k, m)
        \/ Scan(t)
        \/ DeleteMark(t)
        \/ \E k \in Key : Insert(t, k)
        \/ Commit(t)
        \/ StartRollback(t)
        \/ Timeout(t)
        \/ Undo(t)
        \/ EndRollback(t)
    \/ \E k \in Key : Purge(k)

Spec == Init /\ [][Next]_vars

-----------------------------------------------------------------------------
(* Types; and the record of a lock is on the page: who removes a record has  *)
(* moved or released every request on it.                                    *)
TypeOK ==
    /\ page \in SUBSET Key
    /\ deleted \in SUBSET page
    /\ writer \in [Key -> Trx \cup {NoTrx}]
    /\ queue \in [Rec -> Seq(Request)]
    /\ waiting \in SUBSET Trx
    /\ op \in [Trx -> Op]
    /\ undo \in [Trx -> Seq(UndoRec)]
    /\ cursor \in [Trx -> [mode : LockMode, from : 0..MaxKey, pos : 0..Supremum]]
    /\ result \in [Trx -> SUBSET Key]
    /\ \A k \in Key \ page : queue[k] = <<>> /\ writer[k] = NoTrx

Granted(k, t) == {l \in Range(queue[k]) : l.trx = t /\ ~l.wait /\ ~l.gap}

(* RULE 3 and RULE 1 of lock0lock.c: no two transactions have conflicting    *)
(* granted locks on a record, nor does any have one on the record another    *)
(* has written and not committed; whoever waits for that record finds an     *)
(* explicit x-lock of the writer, so that locks can be granted from the      *)
(* queue alone.                                                              *)
LocksExclude ==
    \A k \in Key :
        /\ \A t, u \in Trx : t # u =>
               \A l \in Granted(k, t), m \in Granted(k, u) : Compatible(l.mode, m.mode)
        /\ \A t \in Trx : writer[k] = t =>
               /\ \A u \in Trx \ {t} : Granted(k, u) = {}
               /\ \A l \in Range(queue[k]) :
                      (l.wait /\ ~l.gap /\ l.trx # t) => HasExpl(queue, "X", k, t)

(* No circle of transactions wait for one another: the check is made only    *)
(* when a request is queued, and grants, inherited locks, converted implicit *)
(* locks and removed records after it close none.                            *)
DeadlockFree == \A t \in waiting : t \notin Reached(queue, t)

(* A transaction is suspended if and only if a request of it waits, and then *)
(* another has a conflicting one ahead: every release, cancellation and      *)
(* removal of a record wakes all whom it lets go on.                         *)
WaitersHaveCause ==
    /\ waiting = WaitersOf(queue)
    /\ \A r \in Rec : \A i \in DOMAIN queue[r] :
           queue[r][i].wait => HasToWaitInQueue(queue, r, i)

(* FACT B of lock0lock.c: what a locking read has read it would read again.  *)
(* But for its own changes, the rows between its first key and the last      *)
(* record passed are those it has found there, whatever other transactions   *)
(* have inserted, deleted, rolled back and purged, and however long it has   *)
(* waited in between.                                                        *)
RepeatableRead ==
    \A t \in Trx : (cursor[t] # NoScan /\ op[t].do \notin {"rollback", "remove"}) =>
        \A k \in cursor[t].from..cursor[t].pos \cap Key :
            writer[k] # t => (k \in result[t] <=> k \in page \ deleted)

(* A record that leaves the page is a delete-marked one, or that of an       *)
(* insert that is rolled back.  The second mini-transaction that undoes an   *)
(* insert over a delete-marked record does not look at the delete mark: only *)
(* the s-lock of the duplicate check keeps others from using the key before. *)
OnlyDeadRemoved ==
    [][\A k \in page \ page' :
           k \in deleted \/ (writer[k] # NoTrx /\ op[writer[k]].do = "rollback")]_vars
=============================================================================
