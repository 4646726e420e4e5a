--------------------------- MODULE ThrLockProofs ---------------------------
EXTENDS ThrLock, ListLemmas

(* Constants and plans.                                                      *)
USE DEF TL_UNLOCK, TL_READ, TL_READ_WITH_SHARED_LOCKS, TL_READ_HIGH_PRIORITY,
        TL_READ_NO_INSERT, TL_WRITE_ALLOW_WRITE, TL_WRITE_ALLOW_READ,
        TL_WRITE_CONCURRENT_INSERT, TL_WRITE_DELAYED, TL_WRITE_LOW_PRIORITY,
        TL_WRITE, TL_WRITE_ONLY, LockType, ReadType, WriteType

LEMMA Constants ==
  /\ Handler \subseteq Thread /\ Aborter \subseteq Thread \ Handler
  /\ Killable \subseteq Thread \ Handler
  /\ NoThread \notin Thread
  /\ IsFiniteSet(Data)
  /\ LockOf \in [Data -> Lock]
  /\ UpgradedInsert \in {TL_WRITE, TL_WRITE_LOW_PRIORITY}
  /\ MaxWriteLockCount \in Nat
BY ThrLockAssumption

LEMMA FiniteParts ==
  ASSUME NEW S \in SUBSET Data, NEW k
  PROVE  /\ IsFiniteSet(S) /\ Cardinality(S) \in Nat
         /\ OfType(S, k) \in SUBSET Data
         /\ IsFiniteSet(OfType(S, k)) /\ Cardinality(OfType(S, k)) \in Nat
<1>1. OfType(S, k) \in SUBSET Data  BY DEF OfType
<1>2. \A U \in SUBSET Data : IsFiniteSet(U)  BY Constants, FS_Subset
<1>. QED  BY <1>1, <1>2, FS_CardinalityType

(* The instance a thread is at.                                              *)
LEMMA ThisFacts ==
  ASSUME TypeOK, Control, NEW t \in Thread,
         \/ pc[t] \in {"lock", "wait"}
         \/ pc[t] = "unlock" /\ pos[t] <= Len(plan[t])
         \/ pc[t] # "unlock" /\ pc[t] # "idle" /\ t \in Handler
  PROVE  /\ This(t) \in Data
         /\ LockOf[This(t)] \in Lock
         /\ pos[t] \in DOMAIN plan[t]
         /\ This(t) = plan[t][pos[t]]
<1>1. plan[t] \in Seq(Data) /\ pos[t] \in Nat \ {0}  BY DEF TypeOK
<1>2. pos[t] \in DOMAIN plan[t]  BY <1>1 DEF Control
<1>3. plan[t][pos[t]] \in Data  BY <1>1, <1>2
<1>. QED  BY <1>2, <1>3, Constants DEF This

(* What HandOver does to the lists of the lock, as sets.                     *)
HandedOver(l, d, W, R) ==
  /\ read' \in [Lock -> SUBSET Data]
  /\ read_wait' \in [Lock -> Seq(Data)]
  /\ write' \in [Lock -> Seq(Data)]
  /\ write_wait' \in [Lock -> Seq(Data)]
  /\ write_lock_count' \in [Lock -> 0 .. MaxWriteLockCount + 1]
  /\ read_no_write_count' \in [Lock -> Nat]
  /\ cond' = [x \in Data |-> cond[x] /\ x \notin W \cup R]
  /\ \A m \in Lock \ {l} :
       /\ read'[m] = read[m] /\ read_wait'[m] = read_wait[m]
       /\ write'[m] = write[m] /\ write_wait'[m] = write_wait[m]
       /\ read_no_write_count'[m] = read_no_write_count[m]
  /\ read'[l] = (read[l] \ {d}) \cup R
  /\ Range(read_wait'[l]) = Range(read_wait[l]) \ R
  /\ Range(write'[l]) = (Range(write[l]) \ {d}) \cup (Range(write_wait[l]) \cap W)
  /\ Range(write_wait'[l]) = Range(write_wait[l]) \ (W \cup {d})
  /\ read_no_write_count'[l] =
       NoInsertBlocks(d) + Cardinality(OfType(R, TL_READ_NO_INSERT))

LEMMA HandOverEffect ==
  ASSUME TypeOK, NEW d \in Data, NEW W, NEW R \in SUBSET Data,
         NEW n \in 0 .. MaxWriteLockCount + 1,
         NoInsertBlocks(d) \in Nat, HandOver(d, W, R, n)
  PROVE  HandedOver(LockOf[d], d, W, R)
<1>. DEFINE l == LockOf[d]
<1>1. l \in Lock  BY Constants
<1>2. /\ read[l] \in SUBSET Data /\ read_wait[l] \in Seq(Data)
      /\ write[l] \in Seq(Data) /\ write_wait[l] \in Seq(Data)
  BY <1>1 DEF TypeOK
<1>3. /\ Without(write[l], d) \in Seq(Data)
      /\ Range(Without(write[l], d)) = Range(write[l]) \cap (Data \ {d})
  BY <1>2, SubListFacts DEF Without
<1>4. /\ SubList(write_wait[l], W) \in Seq(Data)
      /\ Range(SubList(write_wait[l], W)) = Range(write_wait[l]) \cap W
  BY <1>2, SubListFacts
<1>5. /\ SubList(write_wait[l], Data \ (W \cup {d})) \in Seq(Data)
      /\ Range(SubList(write_wait[l], Data \ (W \cup {d})))
           = Range(write_wait[l]) \cap (Data \ (W \cup {d}))
  BY <1>2, SubListFacts
<1>6. /\ SubList(read_wait[l], Data \ R) \in Seq(Data)
      /\ Range(SubList(read_wait[l], Data \ R)) = Range(read_wait[l]) \cap (Data \ R)
  BY <1>2, SubListFacts
<1>7. /\ Range(write[l]) \subseteq Data /\ Range(write_wait[l]) \subseteq Data
      /\ Range(read_wait[l]) \subseteq Data
  BY <1>2 DEF Range
<1>8. /\ Without(write[l], d) \o SubList(write_wait[l], W) \in Seq(Data)
      /\ Range(Without(write[l], d) \o SubList(write_wait[l], W))
           = Range(Without(write[l], d)) \cup Range(SubList(write_wait[l], W))
  BY <1>3, <1>4, ConcatFacts
<1>9. Cardinality(OfType(R, TL_READ_NO_INSERT)) \in Nat  BY FiniteParts
<1>10. /\ write' = [write EXCEPT ![l] = Without(write[l], d) \o SubList(write_wait[l], W)]
       /\ write_wait' = [write_wait EXCEPT ![l] =
                           SubList(write_wait[l], Data \ (W \cup {d}))]
       /\ read' = [read EXCEPT ![l] = (read[l] \ {d}) \cup R]
       /\ read_wait' = [read_wait EXCEPT ![l] = SubList(read_wait[l], Data \ R)]
       /\ read_no_write_count' = [read_no_write_count EXCEPT ![l] =
                NoInsertBlocks(d) + Cardinality(OfType(R, TL_READ_NO_INSERT))]
       /\ write_lock_count' = [write_lock_count EXCEPT ![l] =
                IF read_wait[l] # <<>> /\ R = Range(read_wait[l]) THEN 0 ELSE n]
       /\ cond' = [x \in Data |-> cond[x] /\ x \notin W \cup R]
  BY DEF HandOver
<1>11. /\ read \in [Lock -> SUBSET Data] /\ read_wait \in [Lock -> Seq(Data)]
       /\ write \in [Lock -> Seq(Data)] /\ write_wait \in [Lock -> Seq(Data)]
       /\ write_lock_count \in [Lock -> 0 .. MaxWriteLockCount + 1]
       /\ read_no_write_count \in [Lock -> Nat]
  BY DEF TypeOK
<1>12. /\ read' \in [Lock -> SUBSET Data] /\ read_wait' \in [Lock -> Seq(Data)]
       /\ write' \in [Lock -> Seq(Data)] /\ write_wait' \in [Lock -> Seq(Data)]
  BY <1>1, <1>2, <1>5, <1>6, <1>8, <1>10, <1>11
<1>13. /\ read_no_write_count' \in [Lock -> Nat]
       /\ write_lock_count' \in [Lock -> 0 .. MaxWriteLockCount + 1]
  <2>1. 0 \in 0 .. MaxWriteLockCount + 1  BY Constants
  <2>2. NoInsertBlocks(d) + Cardinality(OfType(R, TL_READ_NO_INSERT)) \in Nat
    BY <1>9
  <2>. QED  BY <1>1, <1>10, <1>11, <2>1, <2>2
<1>14. \A m \in Lock \ {l} :
         /\ read'[m] = read[m] /\ read_wait'[m] = read_wait[m]
         /\ write'[m] = write[m] /\ write_wait'[m] = write_wait[m]
         /\ read_no_write_count'[m] = read_no_write_count[m]
  BY <1>10, <1>11
<1>15. /\ read'[l] = (read[l] \ {d}) \cup R
       /\ read_wait'[l] = SubList(read_wait[l], Data \ R)
       /\ write'[l] = Without(write[l], d) \o SubList(write_wait[l], W)
       /\ write_wait'[l] = SubList(write_wait[l], Data \ (W \cup {d}))
       /\ read_no_write_count'[l] =
            NoInsertBlocks(d) + Cardinality(OfType(R, TL_READ_NO_INSERT))
  BY <1>1, <1>10, <1>11
<1>16. Range(read_wait'[l]) = Range(read_wait[l]) \ R
  BY <1>6, <1>7, <1>15
<1>17. Range(write'[l]) = (Range(write[l]) \ {d}) \cup (Range(write_wait[l]) \cap W)
  BY <1>3, <1>4, <1>7, <1>8, <1>15
<1>18. Range(write_wait'[l]) = Range(write_wait[l]) \ (W \cup {d})
  BY <1>5, <1>7, <1>15
<1>. QED
  BY <1>10, <1>12, <1>13, <1>14, <1>15, <1>16, <1>17, <1>18 DEF HandedOver

-----------------------------------------------------------------------------
(* thr_unlock: instance d leaves, and the writers W and readers R it lets in *)
(* go together with each other and with what is left.                        *)
LetsIn(d, W, R, n) ==
  LET l == LockOf[d]
  IN  /\ W \in SUBSET (Range(write_wait[l]) \ {d})
      /\ R \in SUBSET Range(read_wait[l])
      /\ n \in 0 .. MaxWriteLockCount + 1
      /\ HandOver(d, W, R, n)
      /\ \/ type' = [type EXCEPT ![d] = TL_UNLOCK]
         \/ \E h \in Range(write_wait[l]) \ {d} :
              /\ type[h] = TL_WRITE_CONCURRENT_INSERT
              /\ type' = [type EXCEPT ![d] = TL_UNLOCK, ![h] = TL_WRITE]
      /\ W \cup R # {} => Range(write[l]) \ {d} = {}
      /\ \A a, b \in W : a # b => /\ type[a] = TL_WRITE_ALLOW_WRITE
                                  /\ type[b] = TL_WRITE_ALLOW_WRITE
      /\ \A w \in W, r \in R :
           /\ type'[w] \in TL_WRITE_ALLOW_WRITE .. TL_WRITE_DELAYED
           /\ type[r] = TL_READ_NO_INSERT => type'[w] \notin NeedsNoInsertBlock
      /\ \A w \in W : read[l] \ {d} # {} =>
           /\ type'[w] \in TL_WRITE_ALLOW_WRITE .. TL_WRITE_DELAYED
           /\ type'[w] \in NeedsNoInsertBlock => NoInsertBlocks(d) = 0

LEMMA GrantedWritesFacts ==
  ASSUME NEW ww \in Seq(Data), ww # <<>>
  PROVE  /\ GrantedWrites(ww) \subseteq Range(ww)
         /\ Head(ww) \in Range(ww)
         /\ \/ GrantedWrites(ww) = {Head(ww)}
            \/ /\ type[Head(ww)] = TL_WRITE_ALLOW_WRITE
               /\ \A w \in GrantedWrites(ww) : type[w] = TL_WRITE_ALLOW_WRITE
<1>1. Head(ww) \in Range(ww)  BY HeadFacts
<1>2. DOMAIN ww = 1 .. Len(ww) /\ Len(ww) \in Nat  OBVIOUS
<1>3. CASE type[Head(ww)] = TL_WRITE_ALLOW_WRITE
  <2>1. GrantedWrites(ww) = {ww[i] : i \in {j \in DOMAIN ww : \A k \in 1 .. j :
                                     type[ww[k]] = TL_WRITE_ALLOW_WRITE}}
    BY <1>3 DEF GrantedWrites, HeadType
  <2>2. \A w \in GrantedWrites(ww) : \E j \in DOMAIN ww :
          w = ww[j] /\ type[ww[j]] = TL_WRITE_ALLOW_WRITE
    BY <2>1, <1>2
  <2>. QED  BY <1>1, <1>3, <2>2 DEF Range
<1>4. CASE type[Head(ww)] # TL_WRITE_ALLOW_WRITE
  BY <1>1, <1>4 DEF GrantedWrites, HeadType
<1>. QED  BY <1>3, <1>4

LEMMA UnlockLetsIn ==
  ASSUME TypeOK, Placed, NEW d \in Data,
         \/ unlock_gives_nothing(d) \/ unlock_gives_reads(d)
         \/ unlock_gives_writes(d) \/ unlock_adds_writes(d)
  PROVE  \E W \in SUBSET Data, R \in SUBSET Data, n \in 0 .. MaxWriteLockCount + 1 : LetsIn(d, W, R, n)
<1>. DEFINE l == LockOf[d]
            ww == RestWriteWait(d)
            h == Head(ww)
<1>1. /\ l \in Lock /\ write_lock_count[l] \in 0 .. MaxWriteLockCount + 1
      /\ 0 \in 0 .. MaxWriteLockCount + 1 /\ MaxWriteLockCount \in Nat
      /\ write[l] \in Seq(Data) /\ write_wait[l] \in Seq(Data)
      /\ read_wait[l] \in Seq(Data) /\ type \in [Data -> LockType]
  BY Constants DEF TypeOK
<1>2. Range(read_wait[l]) \in SUBSET Data /\ Range(write_wait[l]) \in SUBSET Data
  BY <1>1 DEF Range
<1>3. ww \in Seq(Data) /\ Range(ww) = Range(write_wait[l]) \ {d}
  BY <1>1, <1>2, SubListFacts DEF RestWriteWait, Without
<1>4. RestWrite(d) = <<>> => Range(write[l]) \ {d} = {}
  <2>1. /\ RestWrite(d) \in Seq(Data)
        /\ Range(RestWrite(d)) = Range(write[l]) \cap (Data \ {d})
    BY <1>1, SubListFacts DEF RestWrite, Without
  <2>2. RestWrite(d) = <<>> => Range(RestWrite(d)) = {}  BY DEF Range
  <2>3. Range(write[l]) \subseteq Data  BY <1>1 DEF Range
  <2>. QED  BY <2>1, <2>2, <2>3
<1>5. \A v : FreedReads(l, v) \in SUBSET Range(read_wait[l])  BY DEF FreedReads
<1>6. CASE unlock_gives_nothing(d)
  <2>1. LetsIn(d, {}, {}, write_lock_count[l])
    BY <1>1, <1>6 DEF unlock_gives_nothing, LetsIn
  <2>. QED  BY <1>1, <2>1
<1>7. CASE unlock_gives_reads(d)
  <2>. DEFINE R == FreedReads(l, FALSE)
  <2>1. RestWrite(d) = <<>>
    BY <1>7 DEF unlock_gives_reads, GivesReads, FreesTable, LeavesReads
  <2>2. HandOver(d, {}, R, 0) /\ type' = [type EXCEPT ![d] = TL_UNLOCK]
    BY <1>7 DEF unlock_gives_reads
  <2>3. LetsIn(d, {}, R, 0)  BY <1>1, <1>4, <1>5, <2>1, <2>2 DEF LetsIn
  <2>. QED  BY <1>1, <1>2, <1>5, <2>3
<1>8. CASE unlock_gives_writes(d)
  <2>. DEFINE W == GrantedWrites(ww)
              n == IF TooManyWrites(l) THEN 0 ELSE write_lock_count[l] + 1
              ty(hole) == IF type[h] = TL_WRITE_CONCURRENT_INSERT /\ hole
                          THEN TL_WRITE ELSE type[h]
              R(hole) == IF ty(hole) >= TL_WRITE_LOW_PRIORITY THEN {}
                         ELSE FreedReads(l, ty(hole) \in NeedsNoInsertBlock)
  <2>1. PICK hole \in BOOLEAN :
          /\ HandOver(d, W, R(hole), n)
          /\ type' = [type EXCEPT ![d] = TL_UNLOCK, ![h] = ty(hole)]
    BY <1>8 DEF unlock_gives_writes
  <2>2. ww # <<>> /\ RestWrite(d) = <<>> /\ RestRead(d) = {}
    BY <1>8 DEF unlock_gives_writes, GivesWrites, FreesTable, WritesFirst
  <2>3. /\ W \subseteq Range(ww) /\ h \in Range(ww)
        /\ \/ W = {h}
           \/ /\ type[h] = TL_WRITE_ALLOW_WRITE
              /\ \A w \in W : type[w] = TL_WRITE_ALLOW_WRITE
    BY <1>3, <2>2, GrantedWritesFacts
  <2>. HIDE DEF W, h
  <2>4. h \in Data /\ h # d /\ type[h] \in WriteType
    BY <1>1, <1>2, <1>3, <2>3 DEF Placed
  <2>5. n \in 0 .. MaxWriteLockCount + 1  BY <1>1 DEF TooManyWrites
  <2>6. \/ type' = [type EXCEPT ![d] = TL_UNLOCK]
        \/ /\ type[h] = TL_WRITE_CONCURRENT_INSERT
           /\ type' = [type EXCEPT ![d] = TL_UNLOCK, ![h] = TL_WRITE]
    <3>1. CASE type[h] = TL_WRITE_CONCURRENT_INSERT /\ hole  BY <2>1, <3>1
    <3>2. CASE ~ (type[h] = TL_WRITE_CONCURRENT_INSERT /\ hole)
      <4>1. type' = [type EXCEPT ![d] = TL_UNLOCK, ![h] = type[h]]  BY <2>1, <3>2
      <4>. QED  BY <4>1, <1>1, <2>4
    <3>. QED  BY <3>1, <3>2
  <2>7. \A w \in W : type'[w] = ty(hole) /\ w \in Data
    <3>1. type'[h] = ty(hole)  BY <1>1, <2>1, <2>4
    <3>2. CASE W = {h}  BY <3>1, <3>2, <2>4
    <3>3. CASE /\ type[h] = TL_WRITE_ALLOW_WRITE
               /\ \A w \in W : type[w] = TL_WRITE_ALLOW_WRITE
      <4>1. ty(hole) = TL_WRITE_ALLOW_WRITE  BY <3>3
      <4>2. \A w \in W : w \in Data /\ w # d  BY <1>2, <1>3, <2>3
      <4>. QED  BY <1>1, <2>1, <2>4, <3>3, <4>1, <4>2
    <3>. QED  BY <2>3, <3>2, <3>3
  <2>8. \A w \in W, r \in R(hole) :
           /\ ty(hole) \in TL_WRITE_ALLOW_WRITE .. TL_WRITE_DELAYED
           /\ type[r] = TL_READ_NO_INSERT => ty(hole) \notin NeedsNoInsertBlock
    BY <2>4 DEF FreedReads
  <2>9. R(hole) \in SUBSET Range(read_wait[l])  BY <1>5
  <2>10. \A a, b \in W : a # b => /\ type[a] = TL_WRITE_ALLOW_WRITE
                                  /\ type[b] = TL_WRITE_ALLOW_WRITE
    BY <2>3
  <2>11. read[l] \ {d} = {}  BY <2>2 DEF RestRead
  <2>. HIDE DEF R, n, ty
  <2>12. LetsIn(d, W, R(hole), n)
    BY <1>3, <1>4, <2>1, <2>2, <2>3, <2>5, <2>6, <2>7, <2>8, <2>9, <2>10, <2>11
    DEF LetsIn
  <2>. QED  BY <2>5, <1>2, <1>3, <2>3, <2>9, <2>12
<1>9. CASE unlock_adds_writes(d)
  <2>1. /\ ww # <<>> /\ RestWrite(d) = <<>>
        /\ type[h] <= TL_WRITE_DELAYED
        /\ type[h] \in NeedsNoInsertBlock => NoInsertBlocks(d) = 0
    BY <1>9 DEF unlock_adds_writes, AddsWrites, LeavesReads, HeadType
  <2>2. /\ GrantedWrites(ww) \subseteq Range(ww) /\ h \in Range(ww)
        /\ \/ GrantedWrites(ww) = {h}
           \/ /\ type[h] = TL_WRITE_ALLOW_WRITE
              /\ \A w \in GrantedWrites(ww) : type[w] = TL_WRITE_ALLOW_WRITE
    BY <1>3, <2>1, GrantedWritesFacts
  <2>3. h \in Data /\ h # d /\ type[h] \in WriteType
    BY <1>1, <1>2, <1>3, <2>2 DEF Placed
  <2>4. CASE /\ HandOver(d, GrantedWrites(ww),
                         FreedReads(l, type[h] \in NeedsNoInsertBlock),
                         write_lock_count[l])
             /\ type' = [type EXCEPT ![d] = TL_UNLOCK]
    <3>. DEFINE W == GrantedWrites(ww)
                R == FreedReads(l, type[h] \in NeedsNoInsertBlock)
    <3>. HIDE DEF W
    <3>1. \A w \in W : w \in Data /\ w # d /\ type'[w] = type[w] /\ type[w] = type[h]
      <4>1. \A w \in W : w \in Data /\ w # d  BY <1>2, <1>3, <2>2 DEF W
      <4>2. \A w \in W : type[w] = type[h]  BY <2>2 DEF W
      <4>. QED  BY <4>1, <4>2, <1>1, <2>4
    <3>2. \A r \in R : type[r] = TL_READ_NO_INSERT => type[h] \notin NeedsNoInsertBlock
      BY DEF FreedReads
    <3>3. R \in SUBSET Range(read_wait[l])  BY <1>5
    <3>4. \A a, b \in W : a # b => /\ type[a] = TL_WRITE_ALLOW_WRITE
                                   /\ type[b] = TL_WRITE_ALLOW_WRITE
      BY <2>2 DEF W
    <3>5. type[h] \in TL_WRITE_ALLOW_WRITE .. TL_WRITE_DELAYED  BY <2>1, <2>3
    <3>6. W \in SUBSET (Range(write_wait[l]) \ {d})  BY <1>3, <2>2 DEF W
    <3>7. HandOver(d, W, R, write_lock_count[l])  BY <2>4 DEF W
    <3>. HIDE DEF R
    <3>8. LetsIn(d, W, R, write_lock_count[l])
      BY <1>1, <1>4, <2>1, <2>4, <3>1, <3>2, <3>3, <3>4, <3>5, <3>6, <3>7
      DEF LetsIn, NeedsNoInsertBlock
    <3>. QED  BY <1>1, <1>2, <3>3, <3>6, <3>8
  <2>5. CASE /\ type[h] = TL_WRITE_CONCURRENT_INSERT
             /\ HandOver(d, {}, FreedReads(l, FALSE), write_lock_count[l])
             /\ type' = [type EXCEPT ![d] = TL_UNLOCK, ![h] = TL_WRITE]
    <3>. DEFINE R == FreedReads(l, FALSE)
    <3>1. R \in SUBSET Range(read_wait[l])  BY <1>5
    <3>2. h \in Range(write_wait[l]) \ {d}  BY <1>3, <2>2
    <3>. HIDE DEF R, h
    <3>3. LetsIn(d, {}, R, write_lock_count[l])
      BY <1>1, <1>4, <2>1, <2>5, <3>1, <3>2 DEF LetsIn, R
    <3>. QED  BY <1>1, <1>2, <3>1, <3>3
  <2>. QED  BY <1>9, <2>4, <2>5 DEF unlock_adds_writes
<1>. QED  BY <1>6, <1>7, <1>8, <1>9

-----------------------------------------------------------------------------
(* What each action does to the four lists of its lock, as sets.             *)
Lists(l, rd, rw, wr, ww) ==
  /\ read' \in [Lock -> SUBSET Data]
  /\ read_wait' \in [Lock -> Seq(Data)]
  /\ write' \in [Lock -> Seq(Data)]
  /\ write_wait' \in [Lock -> Seq(Data)]
  /\ read'[l] = rd /\ Range(read_wait'[l]) = rw
  /\ Range(write'[l]) = wr /\ Range(write_wait'[l]) = ww
  /\ \A m \in Lock \ {l} :
       /\ read'[m] = read[m] /\ read_wait'[m] = read_wait[m]
       /\ write'[m] = write[m] /\ write_wait'[m] = write_wait[m]

LEMMA LockReadLists ==
  ASSUME TypeOK, Control, NEW t \in Thread, thr_lock_read(t)
  PROVE  LET l == LockOf[This(t)]
         IN  Lists(l, read[l] \cup {This(t)}, Range(read_wait[l]),
                   Range(write[l]), Range(write_wait[l]))
<1>1. This(t) \in Data /\ LockOf[This(t)] \in Lock
  BY ThisFacts DEF thr_lock_read
<1>. QED  BY <1>1 DEF thr_lock_read, Lists, TypeOK

LEMMA LockWriteLists ==
  ASSUME TypeOK, Control, NEW t \in Thread, thr_lock_write(t)
  PROVE  LET l == LockOf[This(t)]
         IN  /\ Lists(l, read[l], Range(read_wait[l]),
                      Range(write[l]) \cup {This(t)}, Range(write_wait[l]))
             /\ write'[l] = Append(write[l], This(t))
<1>. DEFINE d == This(t)  l == LockOf[d]
<1>1. d \in Data /\ l \in Lock  BY ThisFacts DEF thr_lock_write
<1>2. write[l] \in Seq(Data)  BY <1>1 DEF TypeOK
<1>3. /\ Append(write[l], d) \in Seq(Data)
      /\ Range(Append(write[l], d)) = Range(write[l]) \cup {d}
  BY <1>1, <1>2, AppendFacts
<1>. HIDE DEF d
<1>4. /\ write' = [write EXCEPT ![l] = Append(write[l], d)]
      /\ UNCHANGED <<read, read_wait, write_wait>>
  BY DEF thr_lock_write, d
<1>5. write'[l] = Append(write[l], d)  BY <1>1, <1>4 DEF TypeOK
<1>6. Lists(l, read[l], Range(read_wait[l]), Range(write[l]) \cup {d},
            Range(write_wait[l]))
  BY <1>1, <1>3, <1>4, <1>5 DEF Lists, TypeOK
<1>. QED  BY <1>5, <1>6 DEF d

LEMMA LockDelayedLists ==
  ASSUME TypeOK, Control, NEW t \in Thread, thr_lock_delayed(t)
  PROVE  LET l == LockOf[This(t)]
         IN  Lists(l, read[l], Range(read_wait[l]), Range(write[l]),
                   Range(write_wait[l]) \cup {This(t)})
<1>. DEFINE d == This(t)  l == LockOf[d]
<1>1. d \in Data /\ l \in Lock  BY ThisFacts DEF thr_lock_delayed
<1>2. write_wait[l] \in Seq(Data)  BY <1>1 DEF TypeOK
<1>3. /\ Append(write_wait[l], d) \in Seq(Data)
      /\ Range(Append(write_wait[l], d)) = Range(write_wait[l]) \cup {d}
  BY <1>1, <1>2, AppendFacts
<1>. HIDE DEF d
<1>4. /\ write_wait' = [write_wait EXCEPT ![l] = Append(write_wait[l], d)]
      /\ UNCHANGED <<read, read_wait, write>>
  BY DEF thr_lock_delayed, d
<1>6. Lists(l, read[l], Range(read_wait[l]), Range(write[l]),
            Range(write_wait[l]) \cup {d})
  BY <1>1, <1>3, <1>4 DEF Lists, TypeOK
<1>. QED  BY <1>6 DEF d

LEMMA LockWaitLists ==
  ASSUME TypeOK, Control, NEW t \in Thread, thr_lock_wait(t)
  PROVE  LET l == LockOf[This(t)]
         IN  IF IsRead(This(t))
             THEN Lists(l, read[l], Range(read_wait[l]) \cup {This(t)},
                        Range(write[l]), Range(write_wait[l]))
             ELSE Lists(l, read[l], Range(read_wait[l]), Range(write[l]),
                        Range(write_wait[l]) \cup {This(t)})
<1>. DEFINE d == This(t)  l == LockOf[d]
<1>1. d \in Data /\ l \in Lock  BY ThisFacts DEF thr_lock_wait
<1>2. write_wait[l] \in Seq(Data) /\ read_wait[l] \in Seq(Data)  BY <1>1 DEF TypeOK
<1>3. /\ Append(write_wait[l], d) \in Seq(Data)
      /\ Range(Append(write_wait[l], d)) = Range(write_wait[l]) \cup {d}
      /\ Append(read_wait[l], d) \in Seq(Data)
      /\ Range(Append(read_wait[l], d)) = Range(read_wait[l]) \cup {d}
  BY <1>1, <1>2, AppendFacts
<1>. HIDE DEF d
<1>4. /\ UNCHANGED <<read, write>>
      /\ IsRead(d) => /\ read_wait' = [read_wait EXCEPT ![l] = Append(read_wait[l], d)]
                      /\ UNCHANGED write_wait
      /\ ~ IsRead(d) => /\ write_wait' = [write_wait EXCEPT ![l] = Append(write_wait[l], d)]
                        /\ UNCHANGED read_wait
  BY DEF thr_lock_wait, d
<1>5. CASE IsRead(d)
  <2>1. Lists(l, read[l], Range(read_wait[l]) \cup {d}, Range(write[l]),
              Range(write_wait[l]))
    BY <1>1, <1>3, <1>4, <1>5 DEF Lists, TypeOK
  <2>. QED  BY <1>5, <2>1 DEF d
<1>6. CASE ~ IsRead(d)
  <2>1. Lists(l, read[l], Range(read_wait[l]), Range(write[l]),
              Range(write_wait[l]) \cup {d})
    BY <1>1, <1>3, <1>4, <1>6 DEF Lists, TypeOK
  <2>. QED  BY <1>6, <2>1 DEF d
<1>. QED  BY <1>5, <1>6

LEMMA KilledLists ==
  ASSUME TypeOK, Control, NEW t \in Thread, wait_killed(t)
  PROVE  LET l == LockOf[This(t)]
         IN  Lists(l, read[l], Range(read_wait[l]) \ {This(t)},
                   Range(write[l]), Range(write_wait[l]) \ {This(t)})
<1>. DEFINE d == This(t)  l == LockOf[d]
<1>1. d \in Data /\ l \in Lock  BY ThisFacts DEF wait_killed
<1>2. write_wait[l] \in Seq(Data) /\ read_wait[l] \in Seq(Data)  BY <1>1 DEF TypeOK
<1>3. Range(write_wait[l]) \subseteq Data /\ Range(read_wait[l]) \subseteq Data
  BY <1>2, HeadFacts
<1>4. /\ Without(write_wait[l], d) \in Seq(Data)
      /\ Range(Without(write_wait[l], d)) = Range(write_wait[l]) \ {d}
      /\ Without(read_wait[l], d) \in Seq(Data)
      /\ Range(Without(read_wait[l], d)) = Range(read_wait[l]) \ {d}
  BY <1>2, <1>3, SubListFacts DEF Without
<1>. HIDE DEF d
<1>5. /\ UNCHANGED <<read, write>>
      /\ read_wait' = [read_wait EXCEPT ![l] = Without(read_wait[l], d)]
      /\ write_wait' = [write_wait EXCEPT ![l] = Without(write_wait[l], d)]
  BY DEF wait_killed, d
<1>6. Lists(l, read[l], Range(read_wait[l]) \ {d}, Range(write[l]),
            Range(write_wait[l]) \ {d})
  BY <1>1, <1>4, <1>5 DEF Lists, TypeOK
<1>. QED  BY <1>6 DEF d

(* thr_upgrade_write_delay_lock and thr_reschedule_write_lock put instance d *)
(* first on the write queue.                                                 *)
LEMMA RequeueLists ==
  ASSUME TypeOK, NEW d \in Data,
         write' = [write EXCEPT ![LockOf[d]] = Without(@, d)],
         write_wait' = [write_wait EXCEPT ![LockOf[d]] = <<d>> \o @],
         \/ UNCHANGED <<read, read_wait>>
         \/ /\ read' = [read EXCEPT ![LockOf[d]] = @ \cup Range(read_wait[LockOf[d]])]
            /\ read_wait' = [read_wait EXCEPT ![LockOf[d]] = <<>>]
  PROVE  LET l == LockOf[d]
             rw == Range(read_wait[l])
             wr == Range(write[l]) \ {d}
             ww == Range(write_wait[l]) \cup {d}
         IN  \/ UNCHANGED <<read, read_wait>> /\ Lists(l, read[l], rw, wr, ww)
             \/ Lists(l, read[l] \cup rw, {}, wr, ww)
<1>. DEFINE l == LockOf[d]
<1>1. l \in Lock  BY Constants
<1>2. /\ write_wait[l] \in Seq(Data) /\ read_wait[l] \in Seq(Data)
      /\ write[l] \in Seq(Data)
  BY <1>1 DEF TypeOK
<1>3. Range(write[l]) \subseteq Data /\ Range(read_wait[l]) \subseteq Data
  BY <1>2, HeadFacts
<1>4. /\ Without(write[l], d) \in Seq(Data)
      /\ Range(Without(write[l], d)) = Range(write[l]) \ {d}
  BY <1>2, <1>3, SubListFacts DEF Without
<1>5. /\ <<d>> \o write_wait[l] \in Seq(Data)
      /\ Range(<<d>> \o write_wait[l]) = Range(write_wait[l]) \cup {d}
      /\ <<>> \in Seq(Data) /\ Range(<<>>) = {}
  BY <1>2, ConsFacts, EmptyFacts
<1>6. CASE UNCHANGED <<read, read_wait>>
  BY <1>1, <1>4, <1>5, <1>6 DEF Lists, TypeOK
<1>7. CASE /\ read' = [read EXCEPT ![l] = @ \cup Range(read_wait[l])]
           /\ read_wait' = [read_wait EXCEPT ![l] = <<>>]
  BY <1>1, <1>3, <1>4, <1>5, <1>7 DEF Lists, TypeOK
<1>. QED  BY <1>6, <1>7

(* The instance a thread is about to unlock is granted, or a delayed one.    *)
LEMMA UnlockListed ==
  ASSUME IInv, NEW t \in Thread, pc[t] = "unlock", pos[t] <= Len(plan[t]),
         type[This(t)] # TL_UNLOCK
  PROVE  LET d == This(t)
         IN  /\ thread[d] = t /\ Listed(d)
             /\ d \notin Range(read_wait[LockOf[d]])
             /\ type[d] \in ReadType <=> d \in read[LockOf[d]]
<1>. DEFINE d == This(t)
<1>1. d \in Data /\ LockOf[d] \in Lock /\ pos[t] \in DOMAIN plan[t] /\ d = plan[t][pos[t]]
  BY ThisFacts DEF IInv
<1>2. ~ ToLock(t, pos[t]) /\ ~ Unlocked(t, pos[t])
  BY <1>1 DEF ToLock, Unlocked, IInv, TypeOK
<1>3. thread[d] = t /\ Listed(d)
  BY <1>1, <1>2 DEF IInv, Planned
<1>. HIDE DEF d
<1>4. d \notin Range(read_wait[LockOf[d]])
  <2>1. SUFFICES ASSUME d \in Range(read_wait[LockOf[d]]) PROVE FALSE  OBVIOUS
  <2>2. type[d] \in ReadType  BY <1>1, <2>1 DEF IInv, Placed
  <2>3. type[d] \notin WriteType  BY <2>2
  <2>4. pc[thread[d]] = "wait"
    BY <1>1, <2>1, <2>3 DEF IInv, Queued, Waiting
  <2>. QED  BY <1>3, <2>4
<1>5. type[d] \in ReadType <=> d \in read[LockOf[d]]
  <2>1. d \in read[LockOf[d]] => type[d] \in ReadType  BY <1>1 DEF IInv, Placed
  <2>2. d \in Range(write[LockOf[d]]) \cup Range(write_wait[LockOf[d]])
          => type[d] \in WriteType \cup {TL_WRITE_ONLY}
    BY <1>1 DEF IInv, Placed
  <2>3. type[d] \in ReadType => type[d] \notin WriteType \cup {TL_WRITE_ONLY}
    OBVIOUS
  <2>. QED  BY <1>3, <1>4, <2>1, <2>2, <2>3 DEF Listed, Active
<1>. QED  BY <1>3, <1>4, <1>5 DEF d

(* read_no_write_count without the instance that leaves.                     *)
LEMMA CountWithout ==
  ASSUME TypeOK, NoInsertCount, NEW d \in Data,
         type[d] = TL_READ_NO_INSERT <=>
           d \in read[LockOf[d]] /\ type[d] = TL_READ_NO_INSERT
  PROVE  /\ NoInsertBlocks(d) \in Nat
         /\ NoInsertBlocks(d) =
              Cardinality(OfType(read[LockOf[d]] \ {d}, TL_READ_NO_INSERT))
<1>. DEFINE l == LockOf[d]  N == OfType(read[l], TL_READ_NO_INSERT)
<1>1. l \in Lock /\ read[l] \in SUBSET Data  BY Constants DEF TypeOK
<1>2. read_no_write_count[l] = Cardinality(N)  BY <1>1 DEF NoInsertCount
<1>3. IsFiniteSet(N) /\ Cardinality(N) \in Nat  BY <1>1, FiniteParts
<1>4. OfType(read[l] \ {d}, TL_READ_NO_INSERT) = N \ {d}  BY DEF OfType
<1>5. CASE type[d] = TL_READ_NO_INSERT
  <2>1. d \in N  BY <1>5 DEF OfType
  <2>2. Cardinality(N \ {d}) = Cardinality(N) - 1 /\ IsFiniteSet(N \ {d})
    BY <1>3, <2>1, FS_RemoveElement
  <2>3. Cardinality(N \ {d}) \in Nat  BY <2>2, FS_CardinalityType
  <2>. HIDE DEF N
  <2>. QED  BY <1>2, <1>4, <1>5, <2>2, <2>3 DEF NoInsertBlocks
<1>6. CASE type[d] # TL_READ_NO_INSERT
  <2>1. N \ {d} = N  BY <1>6 DEF OfType
  <2>2. NoInsertBlocks(d) = read_no_write_count[l] - 0  BY <1>6 DEF NoInsertBlocks
  <2>. HIDE DEF N
  <2>3. NoInsertBlocks(d) = Cardinality(N)  BY <1>2, <1>3, <2>2
  <2>. QED  BY <1>3, <1>4, <2>1, <2>3
<1>. QED  BY <1>5, <1>6

(* thr_unlock, as sets.                                                      *)
Unlocks(d, W, R) ==
  LET l == LockOf[d]
  IN  /\ Lists(l, (read[l] \ {d}) \cup R, Range(read_wait[l]) \ R,
               (Range(write[l]) \ {d}) \cup W,
               Range(write_wait[l]) \ (W \cup {d}))
      /\ cond' = [x \in Data |-> cond[x] /\ x \notin W \cup R]
      /\ write_lock_count' \in [Lock -> 0 .. MaxWriteLockCount + 1]
      /\ read_no_write_count' \in [Lock -> Nat]
      /\ read_no_write_count'[l] =
           Cardinality(OfType(read[l] \ {d}, TL_READ_NO_INSERT))
             + Cardinality(OfType(R, TL_READ_NO_INSERT))
      /\ NoInsertBlocks(d) = Cardinality(OfType(read[l] \ {d}, TL_READ_NO_INSERT))
      /\ \A m \in Lock \ {l} : read_no_write_count'[m] = read_no_write_count[m]

LEMMA UnlockLists ==
  ASSUME IInv, NEW t \in Thread, thr_unlock(t)
  PROVE  \E W \in SUBSET Data, R \in SUBSET Data, n \in 0 .. MaxWriteLockCount + 1 :
           LetsIn(This(t), W, R, n) /\ Unlocks(This(t), W, R)
<1>. DEFINE d == This(t)  l == LockOf[d]
<1>1. /\ pc[t] = "unlock" /\ pos[t] <= Len(plan[t]) /\ type[d] # TL_UNLOCK
      /\ \/ unlock_gives_nothing(d) \/ unlock_gives_reads(d)
         \/ unlock_gives_writes(d) \/ unlock_adds_writes(d)
  BY DEF thr_unlock
<1>2. d \in Data /\ l \in Lock  BY <1>1, ThisFacts DEF IInv
<1>3. type[d] \in ReadType <=> d \in read[l]  BY <1>1, UnlockListed
<1>. HIDE DEF d
<1>4. PICK W \in SUBSET Data, R \in SUBSET Data, n \in 0 .. MaxWriteLockCount + 1 : LetsIn(d, W, R, n)
  BY <1>1, <1>2, UnlockLetsIn DEF IInv
<1>5. /\ W \in SUBSET (Range(write_wait[l]) \ {d}) /\ n \in 0 .. MaxWriteLockCount + 1
      /\ HandOver(d, W, R, n)
  BY <1>4 DEF LetsIn
<1>6. /\ NoInsertBlocks(d) \in Nat
      /\ NoInsertBlocks(d) = Cardinality(OfType(read[l] \ {d}, TL_READ_NO_INSERT))
  BY <1>2, <1>3, CountWithout DEF IInv
<1>7. HandedOver(l, d, W, R)
  <2>1. TypeOK  BY DEF IInv
  <2>. QED  BY <1>2, <1>5, <1>6, <2>1, HandOverEffect
<1>8. Range(write_wait[l]) \cap W = W  BY <1>5
<1>9. Lists(l, (read[l] \ {d}) \cup R, Range(read_wait[l]) \ R,
            (Range(write[l]) \ {d}) \cup W, Range(write_wait[l]) \ (W \cup {d}))
  BY <1>7, <1>8 DEF Lists, HandedOver
<1>10. Unlocks(d, W, R)  BY <1>6, <1>7, <1>9 DEF HandedOver, Unlocks
<1>. QED  BY <1>4, <1>10 DEF d

-----------------------------------------------------------------------------
LEMMA InitIInv == Init => IInv
<1>. SUFFICES ASSUME Init PROVE IInv  OBVIOUS
<1>1. <<>> \in Seq(Data) /\ Range(<<>>) = {}  BY EmptyFacts
<1>2. \A l \in Lock : /\ read[l] = {} /\ Range(read_wait[l]) = {}
                      /\ Range(write[l]) = {} /\ Range(write_wait[l]) = {}
                      /\ read_no_write_count[l] = 0
  BY <1>1 DEF Init
<1>3. \A d \in Data : ~ Listed(d) /\ ~ Waiting(d)
  BY <1>2, Constants DEF Listed, Active, Waiting
<1>4. TypeOK  BY <1>1, Constants DEF Init, TypeOK, PC
<1>5. Placed  BY <1>2 DEF Placed
<1>6. Control
  <2>1. IsInjective(<<>>)  BY DEF IsInjective
  <2>. QED  BY <2>1, Constants DEF Init, Control
<1>7. Planned
  <2>1. \A t \in Thread : DOMAIN plan[t] = {}  BY DEF Init
  <2>. QED  BY <1>3, <2>1 DEF Planned
<1>8. Queued  BY <1>3 DEF Queued
<1>9. OwnTypes  BY Constants DEF Init, OwnTypes
<1>10. SharedWrites /\ ReadersAdmitted  BY <1>2 DEF SharedWrites, ReadersAdmitted
<1>11. NoInsertCount
  <2>1. OfType({}, TL_READ_NO_INSERT) = {}  BY DEF OfType
  <2>. QED  BY <1>2, <2>1, FS_EmptySet DEF NoInsertCount
<1>. QED
  BY <1>4, <1>5, <1>6, <1>7, <1>8, <1>9, <1>10, <1>11 DEF IInv

-----------------------------------------------------------------------------
(* A step that leaves the locks alone.                                       *)
LEMMA Quiet ==
  ASSUME IInv, UNCHANGED <<locks, thread>>
  PROVE  /\ Placed' /\ OwnTypes' /\ SharedWrites' /\ NoInsertCount'
         /\ ReadersAdmitted'
         /\ \A d \in Data : /\ Listed(d)' <=> Listed(d)
                            /\ Waiting(d)' <=> Waiting(d)
<1>1. /\ read' = read /\ read_wait' = read_wait /\ write' = write
      /\ write_wait' = write_wait /\ type' = type /\ cond' = cond
      /\ thread' = thread /\ read_no_write_count' = read_no_write_count
  BY DEF locks, lists, counts
<1>2. Placed'  BY <1>1 DEF IInv, Placed
<1>3. OwnTypes'  BY <1>1 DEF IInv, OwnTypes
<1>4. SharedWrites'  BY <1>1 DEF IInv, SharedWrites
<1>5. NoInsertCount'  BY <1>1 DEF IInv, NoInsertCount, OfType
<1>6. ReadersAdmitted'  BY <1>1 DEF IInv, ReadersAdmitted
<1>7. \A d \in Data : /\ Listed(d)' <=> Listed(d)
                      /\ Waiting(d)' <=> Waiting(d)
  BY <1>1 DEF Listed, Active, Waiting
<1>. QED  BY <1>2, <1>3, <1>4, <1>5, <1>6, <1>7

(* A step of t that keeps its plan, changes the standing of the instance its  *)
(* loop is at, and of no other.                                              *)
LEMMA PlanKept ==
  ASSUME IInv, NEW t \in Thread, UNCHANGED <<plan, thread>>,
         pos[t] \in DOMAIN plan[t],
         \A u \in Thread \ {t} : pc'[u] = pc[u] /\ pos'[u] = pos[u],
         \A i \in DOMAIN plan[t] : i # pos[t] =>
           /\ ToLock(t, i)' => ToLock(t, i)
           /\ Unlocked(t, i)' <=> Unlocked(t, i)
           /\ ToLock(t, i) => ToLock(t, i)',
         \A x \in Data : x # This(t) =>
           /\ Listed(x)' <=> Listed(x)
           /\ type'[x] = TL_UNLOCK <=> type[x] = TL_UNLOCK
           /\ ~ Listed(x) => type'[x] = type[x],
         \A x \in Data, i \in DOMAIN plan[t] : x = This(t) /\ i = pos[t] =>
           /\ ~ ToLock(t, i)'
           /\ Unlocked(t, i)' => ~ Listed(x)'
           /\ ~ Unlocked(t, i)' => (Listed(x)' <=> type'[x] # TL_UNLOCK)
  PROVE  Planned'
<1>. DEFINE d == This(t)
<1>0. TypeOK /\ Control /\ Planned  BY DEF IInv
<1>1. /\ plan \in [Thread -> Seq(Data)] /\ pos \in [Thread -> Nat \ {0}]
  BY <1>0 DEF TypeOK
<1>2. d = plan[t][pos[t]] /\ d \in Data
  <2>1. plan[t] \in Seq(Data)  BY <1>1
  <2>. QED  BY <2>1 DEF This
<1>3. IsInjective(plan[t])  BY <1>0 DEF Control
<1>. HIDE DEF d
<1>4. plan' = plan /\ thread' = thread
  OBVIOUS
<1>5. ASSUME NEW u \in Thread, NEW i \in DOMAIN plan'[u],
             NEW x \in Data, x = plan[u][i]
      PROVE  /\ thread'[x] = u
             /\ ToLock(u, i)' => ~ Listed(x)' /\ type'[x] \in ReadType \cup WriteType
             /\ Unlocked(u, i)' => ~ Listed(x)'
             /\ ~ ToLock(u, i)' /\ ~ Unlocked(u, i)' =>
                  (Listed(x)' <=> type'[x] # TL_UNLOCK)
  <2>1. i \in DOMAIN plan[u] /\ thread[x] = u  BY <1>0, <1>4, <1>5 DEF Planned
  <2>2. /\ ToLock(u, i) => ~ Listed(x) /\ type[x] \in ReadType \cup WriteType
        /\ Unlocked(u, i) => ~ Listed(x)
        /\ ~ ToLock(u, i) /\ ~ Unlocked(u, i) => (Listed(x) <=> type[x] # TL_UNLOCK)
    BY <1>0, <1>5, <2>1 DEF Planned
  <2>3. x # d => /\ Listed(x)' <=> Listed(x)
                 /\ type'[x] = TL_UNLOCK <=> type[x] = TL_UNLOCK
                 /\ ~ Listed(x) => type'[x] = type[x]
    BY DEF d
  <2>4. CASE u # t
    <3>1. x # d  BY <1>0, <1>2, <2>1, <2>4 DEF Planned
    <3>2. /\ ToLock(u, i)' <=> ToLock(u, i)
          /\ Unlocked(u, i)' <=> Unlocked(u, i)
      BY <2>4 DEF ToLock, Unlocked
    <3>. QED  BY <1>4, <2>1, <2>2, <2>3, <3>1, <3>2
  <2>5. CASE u = t /\ i = pos[t]
    <3>1. x = d  BY <1>2, <1>5, <2>5
    <3>2. /\ ~ ToLock(t, i)'
          /\ Unlocked(t, i)' => ~ Listed(x)'
          /\ ~ Unlocked(t, i)' => (Listed(x)' <=> type'[x] # TL_UNLOCK)
      BY <2>1, <2>5, <3>1 DEF d
    <3>. QED  BY <1>4, <2>1, <2>5, <3>2
  <2>6. CASE u = t /\ i # pos[t]
    <3>1. x # d  BY <1>2, <1>3, <1>5, <2>1, <2>6 DEF IsInjective
    <3>2. /\ ToLock(t, i)' <=> ToLock(t, i)
          /\ Unlocked(t, i)' <=> Unlocked(t, i)
      BY <2>1, <2>6
    <3>. QED  BY <1>4, <2>1, <2>2, <2>3, <2>6, <3>1, <3>2
  <2>. QED  BY <2>4, <2>5, <2>6
<1>6. ASSUME NEW x \in Data, Listed(x)'
      PROVE  \E u \in Thread : thread'[x] = u /\ x \in Range(plan'[u])
  <2>1. CASE x = d
    <3>1. thread[d] = t /\ d \in Range(plan[t])  BY <1>0, <1>2 DEF Planned, Range
    <3>. QED  BY <1>4, <2>1, <3>1
  <2>2. CASE x # d
    <3>1. Listed(x)  BY <1>6, <2>2 DEF d
    <3>. QED  BY <1>0, <1>4, <3>1 DEF Planned
  <2>. QED  BY <2>1, <2>2
<1>7. \A u \in Thread : \A i \in DOMAIN plan[u] : plan[u][i] \in Data
  BY <1>1
<1>. QED  BY <1>4, <1>5, <1>6, <1>7 DEF Planned

(* The loop of thr_multi_lock goes on with its lock: d is listed now.        *)
LEMMA LockedLoop ==
  ASSUME IInv, NEW t \in Thread, pc[t] \in {"lock", "wait"}, Locked(t),
         UNCHANGED thread,
         \A x \in Data : IF x = This(t) THEN Listed(x)' /\ type'[x] # TL_UNLOCK
                         ELSE /\ Listed(x)' <=> Listed(x)
                              /\ type'[x] = type[x]
  PROVE  /\ plan' \in [Thread -> Seq(Data)] /\ pos' \in [Thread -> Nat \ {0}]
         /\ pc' \in [Thread -> PC]
         /\ Control' /\ Planned'
<1>. DEFINE d == This(t)
<1>0. TypeOK /\ Control /\ Planned  BY DEF IInv
<1>1. /\ plan \in [Thread -> Seq(Data)] /\ pos \in [Thread -> Nat \ {0}]
      /\ pc \in [Thread -> PC]
  BY <1>0 DEF TypeOK
<1>2. pos[t] \in DOMAIN plan[t] /\ d = plan[t][pos[t]] /\ d \in Data /\ Len(plan[t]) \in Nat
      /\ DOMAIN plan[t] = 1 .. Len(plan[t])
  BY <1>0, <1>1, ThisFacts
<1>3. IsInjective(plan[t])  BY <1>0 DEF Control
<1>. HIDE DEF d
<1>4. plan' = plan /\ thread' = thread
  BY DEF Locked
<1>5. /\ pos' \in [Thread -> Nat \ {0}] /\ pc' \in [Thread -> PC]
      /\ \A u \in Thread \ {t} : pos'[u] = pos[u] /\ pc'[u] = pc[u]
  <2>1. CASE pos[t] < Len(plan[t])
    <3>1. pos' = [pos EXCEPT ![t] = pos[t] + 1] /\ pc' = [pc EXCEPT ![t] = "lock"]
      BY <2>1 DEF Locked
    <3>2. pos[t] + 1 \in Nat \ {0}  BY <1>1
    <3>. QED  BY <1>1, <3>1, <3>2 DEF PC
  <2>2. CASE ~ (pos[t] < Len(plan[t]))
    <3>1. pos' = [pos EXCEPT ![t] = 1] /\ pc' = [pc EXCEPT ![t] = "run"]
      BY <2>2 DEF Locked
    <3>. QED  BY <1>1, <3>1 DEF PC
  <2>. QED  BY <2>1, <2>2
<1>6. \/ pos[t] < Len(plan[t]) /\ pc'[t] = "lock" /\ pos'[t] = pos[t] + 1
      \/ pos[t] = Len(plan[t]) /\ pc'[t] = "run" /\ pos'[t] = 1
  BY <1>1, <1>2 DEF Locked
<1>7. Control'
  <2>1. ASSUME NEW u \in Thread \ {t}
        PROVE  /\ pc'[u] = "idle" => plan'[u] = <<>> /\ \A x \in Data : thread'[x] # u
               /\ pc'[u] \in {"lock", "wait"} => pos'[u] \in DOMAIN plan'[u]
               /\ pc'[u] \notin {"lock", "wait", "unlock"} => pos'[u] = 1
               /\ pc'[u] \in {"upgrade", "reupgrade", "reschedule", "insert"} => u \in Handler
               /\ u \in Handler /\ pc'[u] \notin {"idle", "unlock"} => Len(plan'[u]) = 1
               /\ IsInjective(plan'[u])
    BY <1>0, <1>4, <1>5 DEF Control
  <2>2. /\ pc'[t] \notin {"idle", "wait", "upgrade", "reupgrade", "reschedule", "insert"}
        /\ pc'[t] = "lock" => pos'[t] \in DOMAIN plan'[t]
        /\ pc'[t] # "lock" => pos'[t] = 1
        /\ IsInjective(plan'[t])
    BY <1>2, <1>3, <1>4, <1>6
  <2>3. t \in Handler => Len(plan'[t]) = 1  BY <1>0, <1>4 DEF Control
  <2>. QED  BY <2>1, <2>2, <2>3 DEF Control
<1>8. Planned'
  <2>1. \A i \in DOMAIN plan[t] : i # pos[t] =>
          /\ ToLock(t, i)' <=> ToLock(t, i)
          /\ ~ Unlocked(t, i)' /\ ~ Unlocked(t, i)
    <3>. TAKE i \in DOMAIN plan[t]
    <3>1. i \in Nat /\ pos[t] \in Nat /\ i <= Len(plan[t])  BY <1>1, <1>2
    <3>. QED  BY <1>2, <1>6, <3>1 DEF ToLock, Unlocked
  <2>2. \A i \in DOMAIN plan[t] : i = pos[t] => ~ ToLock(t, i)' /\ ~ Unlocked(t, i)'
    BY <1>1, <1>2, <1>6 DEF ToLock, Unlocked
  <2>3. UNCHANGED <<plan, thread>>  BY <1>4
  <2>. QED  BY <1>2, <1>5, <2>1, <2>2, <2>3, PlanKept
<1>. QED  BY <1>1, <1>4, <1>5, <1>7, <1>8

(* The loop fails and turns to the locks it has got.                         *)
LEMMA FailedLoop ==
  ASSUME IInv, NEW t \in Thread, pc[t] \in {"lock", "wait"}, Failed(t),
         UNCHANGED thread,
         \A x \in Data : IF x = This(t) THEN ~ Listed(x)'
                         ELSE /\ Listed(x)' <=> Listed(x)
                              /\ type'[x] = type[x]
  PROVE  /\ plan' \in [Thread -> Seq(Data)] /\ pos' \in [Thread -> Nat \ {0}]
         /\ pc' \in [Thread -> PC]
         /\ Control' /\ Planned'
<1>. DEFINE d == This(t)  s == SubSeq(plan[t], 1, pos[t] - 1)
<1>0. TypeOK /\ Control /\ Planned  BY DEF IInv
<1>1. /\ plan \in [Thread -> Seq(Data)] /\ pos \in [Thread -> Nat \ {0}]
      /\ pc \in [Thread -> PC]
  BY <1>0 DEF TypeOK
<1>2. /\ pos[t] \in DOMAIN plan[t] /\ d = plan[t][pos[t]] /\ d \in Data
      /\ Len(plan[t]) \in Nat /\ DOMAIN plan[t] = 1 .. Len(plan[t])
      /\ pos[t] \in Nat
  BY <1>0, <1>1, ThisFacts
<1>3. IsInjective(plan[t])  BY <1>0 DEF Control
<1>4. /\ s \in Seq(Data) /\ DOMAIN s = 1 .. (pos[t] - 1)
      /\ \A i \in DOMAIN s : s[i] = plan[t][i] /\ i \in DOMAIN plan[t]
  <2>1. plan[t] \in Seq(Data)  BY <1>1
  <2>2. pos[t] - 1 \in 0 .. Len(plan[t])  BY <1>2
  <2>3. s \in Seq(Data) /\ Len(s) = pos[t] - 1
        /\ \A i \in 1 .. (pos[t] - 1) : s[i] = plan[t][i]
    BY <2>1, <2>2
  <2>. QED  BY <1>2, <2>2, <2>3
<1>. HIDE DEF d, s
<1>5. /\ plan' \in [Thread -> Seq(Data)] /\ plan'[t] = s
      /\ pos' \in [Thread -> Nat \ {0}] /\ pos'[t] = 1
      /\ pc' \in [Thread -> PC] /\ pc'[t] = "unlock"
      /\ \A u \in Thread \ {t} : plan'[u] = plan[u] /\ pos'[u] = pos[u] /\ pc'[u] = pc[u]
  BY <1>1, <1>4 DEF Failed, PC, s
<1>6. thread' = thread  OBVIOUS
<1>7. Control'
  <2>1. IsInjective(plan'[t])  BY <1>3, <1>4, <1>5 DEF IsInjective
  <2>2. ASSUME NEW u \in Thread \ {t}
        PROVE  /\ pc'[u] = "idle" => plan'[u] = <<>> /\ \A x \in Data : thread'[x] # u
               /\ pc'[u] \in {"lock", "wait"} => pos'[u] \in DOMAIN plan'[u]
               /\ pc'[u] \notin {"lock", "wait", "unlock"} => pos'[u] = 1
               /\ pc'[u] \in {"upgrade", "reupgrade", "reschedule", "insert"} => u \in Handler
               /\ u \in Handler /\ pc'[u] \notin {"idle", "unlock"} => Len(plan'[u]) = 1
               /\ IsInjective(plan'[u])
    <3>1. plan'[u] = plan[u] /\ pos'[u] = pos[u] /\ pc'[u] = pc[u]  BY <1>5
    <3>. QED  BY <1>0, <1>6, <3>1 DEF Control
  <2>. QED  BY <1>5, <2>1, <2>2 DEF Control
<1>8. ASSUME NEW u \in Thread, NEW i \in DOMAIN plan'[u],
             NEW x \in Data, x = plan'[u][i]
      PROVE  /\ thread'[x] = u
             /\ ToLock(u, i)' => ~ Listed(x)' /\ type'[x] \in ReadType \cup WriteType
             /\ Unlocked(u, i)' => ~ Listed(x)'
             /\ ~ ToLock(u, i)' /\ ~ Unlocked(u, i)' =>
                  (Listed(x)' <=> type'[x] # TL_UNLOCK)
  <2>1. i \in DOMAIN plan[u] /\ x = plan[u][i] /\ thread[x] = u
    <3>1. i \in DOMAIN plan[u] /\ x = plan[u][i]  BY <1>4, <1>5, <1>8
    <3>. QED  BY <1>0, <3>1 DEF Planned
  <2>2. /\ ToLock(u, i) => ~ Listed(x) /\ type[x] \in ReadType \cup WriteType
        /\ Unlocked(u, i) => ~ Listed(x)
        /\ ~ ToLock(u, i) /\ ~ Unlocked(u, i) => (Listed(x) <=> type[x] # TL_UNLOCK)
    BY <1>0, <2>1 DEF Planned
  <2>3. x # d => (Listed(x)' <=> Listed(x)) /\ type'[x] = type[x]
    BY DEF d
  <2>4. CASE u # t
    <3>1. x # d  BY <1>0, <1>2, <2>1, <2>4 DEF Planned
    <3>2. /\ ToLock(u, i)' <=> ToLock(u, i)
          /\ Unlocked(u, i)' <=> Unlocked(u, i)
      BY <1>5, <2>4 DEF ToLock, Unlocked
    <3>. QED  BY <1>6, <2>1, <2>2, <2>3, <3>1, <3>2
  <2>5. CASE u = t
    <3>1. i \in 1 .. (pos[t] - 1)  BY <1>4, <1>5, <1>8, <2>5
    <3>2. x # d  BY <1>2, <1>3, <2>1, <2>5, <3>1 DEF IsInjective
    <3>3. ~ ToLock(t, i) /\ ~ Unlocked(t, i) /\ ~ ToLock(t, i)' /\ ~ Unlocked(t, i)'
      BY <1>2, <1>5, <3>1 DEF ToLock, Unlocked
    <3>. QED  BY <1>6, <2>1, <2>2, <2>3, <2>5, <3>2, <3>3
  <2>. QED  BY <2>4, <2>5
<1>9. ASSUME NEW x \in Data, Listed(x)'
      PROVE  \E u \in Thread : thread'[x] = u /\ x \in Range(plan'[u])
  <2>1. x # d /\ Listed(x)  BY <1>9 DEF d
  <2>2. PICK u \in Thread : thread[x] = u /\ x \in Range(plan[u])
    BY <1>0, <2>1 DEF Planned
  <2>3. CASE u # t  BY <1>5, <1>6, <2>2, <2>3
  <2>4. CASE u = t
    <3>1. PICK i \in DOMAIN plan[t] : x = plan[t][i]  BY <2>2, <2>4 DEF Range
    <3>2. i # pos[t]  BY <1>2, <2>1, <3>1
    <3>3. ~ ToLock(t, i)  BY <1>0, <2>1, <3>1 DEF Planned
    <3>4. i \in 1 .. (pos[t] - 1)  BY <1>2, <3>2, <3>3 DEF ToLock
    <3>5. i \in DOMAIN plan'[t] /\ plan'[t][i] = x  BY <1>4, <1>5, <3>1, <3>4
    <3>. QED  BY <1>6, <2>2, <2>4, <3>5 DEF Range
  <2>. QED  BY <2>3, <2>4
<1>10. Planned'
  <2>1. \A u \in Thread : \A i \in DOMAIN plan'[u] : plan'[u][i] \in Data
    BY <1>5
  <2>. QED  BY <1>8, <1>9, <2>1 DEF Planned
<1>. QED  BY <1>5, <1>7, <1>10

(* What still waits after a step of t.                                       *)
LEMMA QueuedKept ==
  ASSUME IInv, NEW t \in Thread, UNCHANGED thread,
         \A u \in Thread \ {t} : pc'[u] = pc[u] /\ pos'[u] = pos[u] /\ plan'[u] = plan[u],
         \A x \in Data : Waiting(x)' =>
           \/ /\ Waiting(x) /\ thread[x] # t
              /\ type[x] \in WriteType => type'[x] \in WriteType
           \/ thread[x] \in Handler /\ type'[x] \in WriteType
           \/ thread[x] = t /\ pc'[t] = "wait" /\ x = plan'[t][pos'[t]]
  PROVE  Queued'
<1>1. ASSUME NEW x \in Data, Waiting(x)'
      PROVE  \/ thread'[x] \in Handler /\ type'[x] \in WriteType
             \/ pc'[thread'[x]] = "wait" /\ plan'[thread'[x]][pos'[thread'[x]]] = x
  <2>1. CASE /\ Waiting(x) /\ thread[x] # t
             /\ type[x] \in WriteType => type'[x] \in WriteType
    <3>1. thread[x] \in Thread \ {t}
      <4>1. Listed(x)  BY <2>1 DEF Listed, Waiting
      <4>. QED  BY <2>1, <4>1 DEF IInv, Planned
    <3>2. \/ thread[x] \in Handler /\ type[x] \in WriteType
          \/ pc[thread[x]] = "wait" /\ This(thread[x]) = x
      BY <2>1 DEF IInv, Queued
    <3>. QED  BY <2>1, <3>1, <3>2 DEF This
  <2>2. CASE thread[x] \in Handler /\ type'[x] \in WriteType  BY <2>2
  <2>3. CASE thread[x] = t /\ pc'[t] = "wait" /\ x = plan'[t][pos'[t]]
    BY <2>3
  <2>. QED  BY <1>1, <2>1, <2>2, <2>3
<1>. QED  BY <1>1 DEF Queued, This

(* A thread that does not sleep on a queue has only delayed locks there.     *)
LEMMA NotQueued ==
  ASSUME IInv, NEW t \in Thread, pc[t] = "wait" => ~ cond[This(t)],
         NEW x \in Data, Waiting(x), thread[x] = t
  PROVE  t \in Handler /\ type[x] \in WriteType
<1>1. cond[x]  BY Constants DEF IInv, Placed, Waiting
<1>. QED  BY <1>1 DEF IInv, Queued

-----------------------------------------------------------------------------
(* The steps that leave the locks alone.                                     *)
LEMMA QuietTypes ==
  ASSUME TypeOK, UNCHANGED <<locks, thread>>,
         plan' \in [Thread -> Seq(Data)], pos' \in [Thread -> Nat \ {0}],
         pc' \in [Thread -> PC], abort' \in [Thread -> BOOLEAN]
  PROVE  TypeOK'
BY DEF TypeOK, locks, lists, counts

LEMMA WaitGrantedIInv ==
  ASSUME IInv, NEW t \in Thread, wait_granted(t)
  PROVE  IInv'
<1>1. /\ pc[t] = "wait" /\ ~ cond[This(t)] /\ type[This(t)] # TL_UNLOCK
      /\ Locked(t) /\ UNCHANGED <<locks, thread>> /\ abort' = abort
  BY DEF wait_granted
<1>2. TypeOK /\ Control  BY DEF IInv
<1>3. Listed(This(t))
  <2>1. pos[t] \in DOMAIN plan[t] /\ This(t) = plan[t][pos[t]]  BY <1>1, <1>2, ThisFacts
  <2>2. ~ ToLock(t, pos[t]) /\ ~ Unlocked(t, pos[t])
    BY <1>1, <1>2 DEF ToLock, Unlocked, TypeOK
  <2>. QED  BY <1>1, <2>1, <2>2 DEF IInv, Planned
<1>4. /\ Placed' /\ OwnTypes' /\ SharedWrites' /\ NoInsertCount'
      /\ ReadersAdmitted'
      /\ \A x \in Data : /\ Listed(x)' <=> Listed(x)
                         /\ Waiting(x)' <=> Waiting(x)
  BY <1>1, Quiet
<1>5. type' = type  BY <1>1 DEF locks
<1>6. /\ plan' \in [Thread -> Seq(Data)] /\ pos' \in [Thread -> Nat \ {0}]
      /\ pc' \in [Thread -> PC] /\ Control' /\ Planned'
  <2>1. \A x \in Data : IF x = This(t) THEN Listed(x)' /\ type'[x] # TL_UNLOCK
                        ELSE (Listed(x)' <=> Listed(x)) /\ type'[x] = type[x]
    BY <1>1, <1>3, <1>4, <1>5
  <2>. QED  BY <1>1, <2>1, LockedLoop
<1>7. TypeOK'  BY <1>1, <1>2, <1>6, QuietTypes DEF TypeOK
<1>8. Queued'
  <2>1. \A u \in Thread \ {t} : pc'[u] = pc[u] /\ pos'[u] = pos[u] /\ plan'[u] = plan[u]
    BY <1>1, <1>2 DEF Locked, TypeOK
  <2>2. \A x \in Data : Waiting(x)' =>
          \/ Waiting(x) /\ thread[x] # t /\ type'[x] = type[x]
          \/ thread[x] \in Handler /\ type'[x] \in WriteType
    BY <1>1, <1>4, <1>5, NotQueued
  <2>. QED  BY <1>1, <2>1, <2>2, QueuedKept
<1>. QED  BY <1>4, <1>6, <1>7, <1>8 DEF IInv

LEMMA WaitAbortedIInv ==
  ASSUME IInv, NEW t \in Thread, wait_aborted(t)
  PROVE  IInv'
<1>1. /\ pc[t] = "wait" /\ ~ cond[This(t)] /\ type[This(t)] = TL_UNLOCK
      /\ Failed(t) /\ UNCHANGED <<locks, thread>> /\ abort' = abort
  BY DEF wait_aborted
<1>2. TypeOK /\ Control  BY DEF IInv
<1>3. ~ Listed(This(t))
  <2>1. pos[t] \in DOMAIN plan[t] /\ This(t) = plan[t][pos[t]]  BY <1>1, <1>2, ThisFacts
  <2>2. ~ ToLock(t, pos[t]) /\ ~ Unlocked(t, pos[t])
    BY <1>1, <1>2 DEF ToLock, Unlocked, TypeOK
  <2>. QED  BY <1>1, <2>1, <2>2 DEF IInv, Planned
<1>4. /\ Placed' /\ OwnTypes' /\ SharedWrites' /\ NoInsertCount'
      /\ ReadersAdmitted'
      /\ \A x \in Data : /\ Listed(x)' <=> Listed(x)
                         /\ Waiting(x)' <=> Waiting(x)
  BY <1>1, Quiet
<1>5. type' = type  BY <1>1 DEF locks
<1>6. /\ plan' \in [Thread -> Seq(Data)] /\ pos' \in [Thread -> Nat \ {0}]
      /\ pc' \in [Thread -> PC] /\ Control' /\ Planned'
  <2>1. \A x \in Data : IF x = This(t) THEN ~ Listed(x)'
                        ELSE (Listed(x)' <=> Listed(x)) /\ type'[x] = type[x]
    BY <1>1, <1>3, <1>4, <1>5
  <2>. QED  BY <1>1, <2>1, FailedLoop
<1>7. TypeOK'  BY <1>1, <1>2, <1>6, QuietTypes DEF TypeOK
<1>8. Queued'
  <2>1. \A u \in Thread \ {t} : pc'[u] = pc[u] /\ pos'[u] = pos[u] /\ plan'[u] = plan[u]
    BY <1>1, <1>2 DEF Failed, TypeOK
  <2>2. \A x \in Data : Waiting(x)' =>
          \/ Waiting(x) /\ thread[x] # t /\ type'[x] = type[x]
          \/ thread[x] \in Handler /\ type'[x] \in WriteType
    BY <1>1, <1>4, <1>5, NotQueued
  <2>. QED  BY <1>1, <2>1, <2>2, QueuedKept
<1>. QED  BY <1>4, <1>6, <1>7, <1>8 DEF IInv

(* The steps that only say where a thread that runs, inserts or unlocks is.  *)
LEMMA StageIInv ==
  ASSUME IInv, NEW t \in Thread, UNCHANGED <<locks, plan, thread>>,
         abort' \in [Thread -> BOOLEAN],
         pos' \in [Thread -> Nat \ {0}], pc' \in [Thread -> PC],
         \A u \in Thread \ {t} : pc'[u] = pc[u] /\ pos'[u] = pos[u],
         pc[t] \notin {"idle", "lock", "wait"}, 
         pc'[t] \notin {"idle", "lock", "wait"},
         \/ /\ pos'[t] = pos[t] /\ pos[t] = 1
            /\ pc[t] # "unlock"
            /\ pc'[t] \in {"upgrade", "reupgrade", "reschedule", "insert"} => t \in Handler
         \/ /\ pc[t] = "unlock" /\ pc'[t] = "unlock" /\ pos'[t] = pos[t] + 1
            /\ pos[t] \in DOMAIN plan[t] /\ type[This(t)] = TL_UNLOCK
  PROVE  IInv'
<1>1. TypeOK /\ Control /\ Planned  BY DEF IInv
<1>2. /\ Placed' /\ OwnTypes' /\ SharedWrites' /\ NoInsertCount'
      /\ ReadersAdmitted'
      /\ \A x \in Data : /\ Listed(x)' <=> Listed(x)
                         /\ Waiting(x)' <=> Waiting(x)
  BY Quiet
<1>3. type' = type /\ thread' = thread /\ plan' = plan  BY DEF locks
<1>4. TypeOK'  BY <1>1, <1>3, QuietTypes DEF TypeOK
<1>5. Control'
  <2>1. ASSUME NEW u \in Thread \ {t}
        PROVE  /\ pc'[u] = "idle" => plan'[u] = <<>> /\ \A x \in Data : thread'[x] # u
               /\ pc'[u] \in {"lock", "wait"} => pos'[u] \in DOMAIN plan'[u]
               /\ pc'[u] \notin {"lock", "wait", "unlock"} => pos'[u] = 1
               /\ pc'[u] \in {"upgrade", "reupgrade", "reschedule", "insert"} => u \in Handler
               /\ u \in Handler /\ pc'[u] \notin {"idle", "unlock"} => Len(plan'[u]) = 1
               /\ IsInjective(plan'[u])
    BY <1>1, <1>3 DEF Control
  <2>2. /\ pc'[t] \notin {"unlock"} => pos'[t] = 1
        /\ pc'[t] \in {"upgrade", "reupgrade", "reschedule", "insert"} => t \in Handler
        /\ t \in Handler /\ pc'[t] # "unlock" => Len(plan'[t]) = 1
        /\ IsInjective(plan'[t])
    BY <1>1, <1>3 DEF Control
  <2>. QED  BY <2>1, <2>2 DEF Control
<1>6. Planned'
  <2>1. ASSUME NEW u \in Thread, NEW i \in DOMAIN plan'[u],
               NEW x \in Data, x = plan[u][i]
        PROVE  /\ thread'[x] = u
               /\ ToLock(u, i)' => ~ Listed(x)' /\ type'[x] \in ReadType \cup WriteType
               /\ Unlocked(u, i)' => ~ Listed(x)'
               /\ ~ ToLock(u, i)' /\ ~ Unlocked(u, i)' =>
                    (Listed(x)' <=> type'[x] # TL_UNLOCK)
    <3>1. i \in DOMAIN plan[u] /\ thread[x] = u  BY <1>1, <1>3, <2>1 DEF Planned
    <3>2. /\ ToLock(u, i) => ~ Listed(x) /\ type[x] \in ReadType \cup WriteType
          /\ Unlocked(u, i) => ~ Listed(x)
          /\ ~ ToLock(u, i) /\ ~ Unlocked(u, i) => (Listed(x) <=> type[x] # TL_UNLOCK)
      BY <1>1, <2>1, <3>1 DEF Planned
    <3>3. CASE u # t
      <4>1. /\ ToLock(u, i)' <=> ToLock(u, i)
            /\ Unlocked(u, i)' <=> Unlocked(u, i)
        BY <3>3 DEF ToLock, Unlocked
      <4>. QED  BY <1>2, <1>3, <3>1, <3>2, <4>1
    <3>4. CASE u = t
      <4>1. i \in Nat \ {0} /\ pos[t] \in Nat
        <5>1. plan[t] \in Seq(Data) /\ pos[t] \in Nat  BY <1>1 DEF TypeOK
        <5>. QED  BY <3>1, <3>4, <5>1
      <4>2. ~ ToLock(t, i) /\ ~ ToLock(t, i)'  BY DEF ToLock
      <4>3. CASE pc[t] = "unlock"
        <5>1. pc'[t] = "unlock" /\ pos'[t] = pos[t] + 1 /\ type[This(t)] = TL_UNLOCK
          BY <4>3
        <5>2. Unlocked(t, i)' <=> Unlocked(t, i) \/ i = pos[t]
          BY <4>1, <4>3, <5>1 DEF Unlocked
        <5>3. i = pos[t] => type[x] = TL_UNLOCK /\ ~ Unlocked(t, i)
          BY <2>1, <3>4, <4>1, <5>1 DEF This, Unlocked
        <5>. QED  BY <1>2, <1>3, <3>1, <3>2, <3>4, <4>2, <5>2, <5>3
      <4>4. CASE pc[t] # "unlock"
        <5>1. pos'[t] = 1  BY <4>4
        <5>2. ~ Unlocked(t, i) /\ ~ Unlocked(t, i)'  BY <4>1, <4>4, <5>1 DEF Unlocked
        <5>. QED  BY <1>2, <1>3, <3>1, <3>2, <3>4, <4>2, <5>2
      <4>. QED  BY <4>3, <4>4
    <3>. QED  BY <3>3, <3>4
  <2>2. \A u \in Thread : \A i \in DOMAIN plan[u] : plan[u][i] \in Data
    BY <1>1 DEF TypeOK
  <2>3. \A x \in Data : Listed(x)' =>
          \E u \in Thread : thread'[x] = u /\ x \in Range(plan'[u])
    BY <1>1, <1>2, <1>3 DEF Planned
  <2>. QED  BY <1>3, <2>1, <2>2, <2>3 DEF Planned
<1>7. Queued'
  <2>1. \A x \in Data : Waiting(x)' =>
          \/ Waiting(x) /\ thread[x] # t /\ type'[x] = type[x]
          \/ thread[x] \in Handler /\ type'[x] \in WriteType
    BY <1>2, <1>3, NotQueued
  <2>2. \A u \in Thread \ {t} : pc'[u] = pc[u] /\ pos'[u] = pos[u] /\ plan'[u] = plan[u]
    BY <1>3
  <2>. QED  BY <1>3, <2>1, <2>2, QueuedKept
<1>. QED  BY <1>2, <1>4, <1>5, <1>6, <1>7 DEF IInv

LEMMA StagesIInv ==
  ASSUME IInv, NEW t \in Thread,
         \/ run_done(t) \/ skip_unlock(t)
         \/ upgrade_done(t) \/ upgrade_woken(t) \/ inserts_done(t)
  PROVE  IInv'
<1>1. TypeOK /\ Control  BY DEF IInv
<1>2. /\ pc \in [Thread -> PC] /\ pos \in [Thread -> Nat \ {0}]
      /\ abort \in [Thread -> BOOLEAN] /\ plan[t] \in Seq(Data)
  BY <1>1 DEF TypeOK
<1>3. CASE run_done(t)
  <2>1. /\ pc[t] = "run" /\ pc' = [pc EXCEPT ![t] = "unlock"]
        /\ UNCHANGED <<locks, plan, thread>> /\ pos' = pos /\ abort' = abort
    BY <1>3 DEF run_done
  <2>2. pos[t] = 1  BY <1>1, <2>1 DEF Control
  <2>3. /\ pc' \in [Thread -> PC] /\ pc'[t] = "unlock"
        /\ \A u \in Thread \ {t} : pc'[u] = pc[u]
    BY <1>2, <2>1 DEF PC
  <2>. QED  BY <1>2, <2>1, <2>2, <2>3, StageIInv
<1>4. CASE skip_unlock(t)
  <2>1. /\ pc[t] = "unlock" /\ pos[t] <= Len(plan[t]) /\ type[This(t)] = TL_UNLOCK
        /\ pos' = [pos EXCEPT ![t] = pos[t] + 1]
        /\ UNCHANGED <<locks, plan, thread>> /\ pc' = pc /\ abort' = abort
    BY <1>4 DEF skip_unlock
  <2>2. /\ pos' \in [Thread -> Nat \ {0}] /\ pos'[t] = pos[t] + 1
        /\ \A u \in Thread \ {t} : pos'[u] = pos[u]
        /\ pos[t] \in DOMAIN plan[t]
    BY <1>2, <2>1
  <2>. QED  BY <1>2, <2>1, <2>2, StageIInv
<1>5. CASE upgrade_done(t)
  <2>1. /\ t \in Handler /\ pc[t] \in {"run", "reschedule"}
        /\ UNCHANGED <<locks, plan, thread>> /\ pos' = pos /\ abort' = abort
        /\ \/ pc' = [pc EXCEPT ![t] = "unlock"]
           \/ pc' = [pc EXCEPT ![t] = "insert"]
    BY <1>2, <1>5 DEF upgrade_done, Upgraded, NotUpgraded
  <2>2. pos[t] = 1  BY <1>1, <2>1 DEF Control
  <2>3. /\ pc' \in [Thread -> PC] /\ pc'[t] \in {"unlock", "insert"}
        /\ \A u \in Thread \ {t} : pc'[u] = pc[u]
    BY <1>2, <2>1 DEF PC
  <2>. QED  BY <1>2, <2>1, <2>2, <2>3, StageIInv
<1>6. CASE upgrade_woken(t)
  <2>1. /\ pc[t] \in {"upgrade", "reupgrade"}
        /\ UNCHANGED <<locks, plan, thread>> /\ pos' = pos /\ abort' = abort
        /\ \/ pc' = [pc EXCEPT ![t] = "unlock"]
           \/ pc' = [pc EXCEPT ![t] = "insert"]
    BY <1>2, <1>6 DEF upgrade_woken, Upgraded, NotUpgraded
  <2>2. pos[t] = 1 /\ t \in Handler  BY <1>1, <2>1 DEF Control
  <2>3. /\ pc' \in [Thread -> PC] /\ pc'[t] \in {"unlock", "insert"}
        /\ \A u \in Thread \ {t} : pc'[u] = pc[u]
    BY <1>2, <2>1 DEF PC
  <2>. QED  BY <1>2, <2>1, <2>2, <2>3, StageIInv
<1>7. CASE inserts_done(t)
  <2>1. /\ pc[t] = "insert" /\ pc' = [pc EXCEPT ![t] = "run"]
        /\ UNCHANGED <<locks, plan, thread>> /\ pos' = pos /\ abort' = abort
    BY <1>7 DEF inserts_done
  <2>2. pos[t] = 1  BY <1>1, <2>1 DEF Control
  <2>3. /\ pc' \in [Thread -> PC] /\ pc'[t] = "run"
        /\ \A u \in Thread \ {t} : pc'[u] = pc[u]
    BY <1>2, <2>1 DEF PC
  <2>. QED  BY <1>2, <2>1, <2>2, <2>3, StageIInv
<1>. QED  BY <1>3, <1>4, <1>5, <1>6, <1>7

LEMMA KillIInv ==
  ASSUME IInv, NEW t \in Thread, kill(t)
  PROVE  IInv'
<1>1. /\ UNCHANGED <<locks, plan, pos, pc, thread>>
      /\ abort' = [abort EXCEPT ![t] = TRUE]
  BY DEF kill
<1>2. TypeOK /\ Control /\ Planned /\ Queued  BY DEF IInv
<1>3. /\ Placed' /\ OwnTypes' /\ SharedWrites' /\ NoInsertCount'
      /\ ReadersAdmitted'
      /\ \A x \in Data : /\ Listed(x)' <=> Listed(x)
                         /\ Waiting(x)' <=> Waiting(x)
  BY <1>1, Quiet
<1>4. TypeOK'  BY <1>1, <1>2, QuietTypes DEF TypeOK
<1>5. Control'  BY <1>1, <1>2 DEF Control
<1>6. type' = type /\ read' = read /\ read_wait' = read_wait /\ write' = write
      /\ write_wait' = write_wait
  BY <1>1 DEF locks, lists
<1>7. Planned'
  BY <1>1, <1>2, <1>6 DEF Planned, ToLock, Unlocked, Listed, Active
<1>8. Queued'  BY <1>1, <1>2, <1>6 DEF Queued, Waiting, This
<1>. QED  BY <1>3, <1>4, <1>5, <1>7, <1>8 DEF IInv

(* At the end of a statement none of its instances is in a list.             *)
LEMMA StatementEndIInv ==
  ASSUME IInv, NEW t \in Thread, statement_end(t)
  PROVE  IInv'
<1>1. /\ pc[t] = "unlock" /\ pos[t] > Len(plan[t])
      /\ thread' = [d \in Data |-> IF thread[d] = t THEN NoThread ELSE thread[d]]
      /\ plan' = [plan EXCEPT ![t] = <<>>]
      /\ pos' = [pos EXCEPT ![t] = 1]
      /\ pc' = [pc EXCEPT ![t] = "idle"]
      /\ abort' = [abort EXCEPT ![t] = FALSE]
      /\ UNCHANGED locks
  BY DEF statement_end
<1>2. TypeOK /\ Placed /\ Control /\ Planned /\ Queued /\ OwnTypes /\ SharedWrites
      /\ NoInsertCount /\ ReadersAdmitted
  BY DEF IInv
<1>3. /\ read' = read /\ read_wait' = read_wait /\ write' = write
      /\ write_wait' = write_wait /\ type' = type /\ cond' = cond
      /\ read_no_write_count' = read_no_write_count
      /\ write_lock_count' = write_lock_count
  BY <1>1 DEF locks, lists, counts
<1>4. TypeOK'
  <2>1. thread' \in [Data -> Thread \cup {NoThread}]  BY <1>1, <1>2 DEF TypeOK
  <2>2. plan' \in [Thread -> Seq(Data)]  BY <1>1, <1>2, EmptyFacts DEF TypeOK
  <2>3. pos' \in [Thread -> Nat \ {0}] /\ pc' \in [Thread -> PC]
        /\ abort' \in [Thread -> BOOLEAN]
    BY <1>1, <1>2 DEF TypeOK, PC
  <2>. QED  BY <1>2, <1>3, <2>1, <2>2, <2>3 DEF TypeOK
<1>5. ASSUME NEW x \in Data, Listed(x)
      PROVE  thread[x] # t /\ thread'[x] = thread[x]
  <2>1. SUFFICES ASSUME thread[x] = t PROVE FALSE  BY <1>1
  <2>2. PICK i \in DOMAIN plan[t] : x = plan[t][i]
    BY <1>2, <1>5, <2>1 DEF Planned, Range
  <2>3. i < pos[t]
    <3>1. plan[t] \in Seq(Data) /\ pos[t] \in Nat  BY <1>2 DEF TypeOK
    <3>. QED  BY <1>1, <3>1
  <2>. QED  BY <1>1, <1>2, <1>5, <2>2, <2>3 DEF Planned, Unlocked
<1>6. \A x \in Data : /\ Listed(x)' <=> Listed(x)
                      /\ Waiting(x)' <=> Waiting(x)
                      /\ Waiting(x) => Listed(x)
  BY <1>3 DEF Listed, Waiting, Active
<1>7. \A l \in Lock, x \in Data : x \in read[l] \cup Range(write[l]) => Listed(x)
  BY <1>2 DEF Placed, Listed, Active
<1>8. Placed'  BY <1>2, <1>3 DEF Placed
<1>9. \A l \in Lock : /\ read[l] \subseteq Data /\ Range(write[l]) \subseteq Data
  BY <1>2, HeadFacts DEF TypeOK
<1>10. SharedWrites'
  <2>1. \A l \in Lock : \A x \in Range(write[l]) : thread'[x] = thread[x]
    BY <1>5, <1>7, <1>9
  <2>. QED  BY <1>2, <1>3, <2>1 DEF SharedWrites
<1>11. ReadersAdmitted'
  <2>1. \A l \in Lock : /\ \A x \in Range(write[l]) : thread'[x] = thread[x]
                        /\ \A x \in read[l] : thread'[x] = thread[x]
    BY <1>5, <1>7, <1>9
  <2>. QED  BY <1>2, <1>3, <2>1 DEF ReadersAdmitted
<1>12. NoInsertCount'  BY <1>2, <1>3 DEF NoInsertCount, OfType
<1>13. OwnTypes'
  <2>1. \A x \in Data : thread'[x] \in Thread => thread'[x] = thread[x]
    BY <1>1, Constants
  <2>. QED  BY <1>2, <1>3, <2>1, Constants DEF OwnTypes
<1>14. \A u \in Thread \ {t} : plan'[u] = plan[u] /\ pos'[u] = pos[u] /\ pc'[u] = pc[u]
  BY <1>1, <1>2 DEF TypeOK
<1>15. /\ plan'[t] = <<>> /\ pos'[t] = 1 /\ pc'[t] = "idle" /\ DOMAIN plan'[t] = {}
  BY <1>1, <1>2 DEF TypeOK
<1>16. Control'
  <2>1. ASSUME NEW u \in Thread \ {t}
        PROVE  /\ pc'[u] = "idle" => plan'[u] = <<>> /\ \A x \in Data : thread'[x] # u
               /\ pc'[u] \in {"lock", "wait"} => pos'[u] \in DOMAIN plan'[u]
               /\ pc'[u] \notin {"lock", "wait", "unlock"} => pos'[u] = 1
               /\ pc'[u] \in {"upgrade", "reupgrade", "reschedule", "insert"} => u \in Handler
               /\ u \in Handler /\ pc'[u] \notin {"idle", "unlock"} => Len(plan'[u]) = 1
               /\ IsInjective(plan'[u])
    BY <1>1, <1>2, <1>14, Constants DEF Control
  <2>2. IsInjective(plan'[t]) /\ \A x \in Data : thread'[x] # t
    BY <1>1, <1>15, Constants DEF IsInjective
  <2>. QED  BY <1>15, <2>1, <2>2 DEF Control
<1>17. Planned'
  <2>1. ASSUME NEW u \in Thread, NEW i \in DOMAIN plan'[u],
               NEW x \in Data, x = plan'[u][i]
        PROVE  /\ thread'[x] = u
               /\ ToLock(u, i)' => ~ Listed(x)' /\ type'[x] \in ReadType \cup WriteType
               /\ Unlocked(u, i)' => ~ Listed(x)'
               /\ ~ ToLock(u, i)' /\ ~ Unlocked(u, i)' =>
                    (Listed(x)' <=> type'[x] # TL_UNLOCK)
    <3>1. u # t  BY <1>15, <2>1
    <3>2. i \in DOMAIN plan[u] /\ x = plan[u][i] /\ thread[x] = u
      BY <1>2, <1>14, <2>1, <3>1 DEF Planned
    <3>3. thread'[x] = u  BY <1>1, <3>1, <3>2
    <3>4. /\ ToLock(u, i)' <=> ToLock(u, i)
          /\ Unlocked(u, i)' <=> Unlocked(u, i)
      BY <1>14, <3>1 DEF ToLock, Unlocked
    <3>5. /\ ToLock(u, i) => ~ Listed(x) /\ type[x] \in ReadType \cup WriteType
          /\ Unlocked(u, i) => ~ Listed(x)
          /\ ~ ToLock(u, i) /\ ~ Unlocked(u, i) => (Listed(x) <=> type[x] # TL_UNLOCK)
      BY <1>2, <2>1, <3>2 DEF Planned
    <3>. QED  BY <1>3, <1>6, <3>3, <3>4, <3>5
  <2>2. ASSUME NEW x \in Data, Listed(x)'
        PROVE  \E u \in Thread : thread'[x] = u /\ x \in Range(plan'[u])
    <3>1. Listed(x)  BY <1>6, <2>2
    <3>2. PICK u \in Thread : thread[x] = u /\ x \in Range(plan[u])
      BY <1>2, <3>1 DEF Planned
    <3>. QED  BY <1>5, <1>14, <3>1, <3>2
  <2>3. \A u \in Thread : \A i \in DOMAIN plan'[u] : plan'[u][i] \in Data
    BY <1>4 DEF TypeOK
  <2>. QED  BY <2>1, <2>2, <2>3 DEF Planned
<1>18. Queued'
  <2>1. ASSUME NEW x \in Data, Waiting(x)'
        PROVE  \/ thread'[x] \in Handler /\ type'[x] \in WriteType
               \/ pc'[thread'[x]] = "wait" /\ plan'[thread'[x]][pos'[thread'[x]]] = x
    <3>1. Waiting(x) /\ Listed(x)  BY <1>6, <2>1
    <3>2. thread'[x] = thread[x] /\ thread[x] \in Thread \ {t}
      BY <1>2, <1>5, <3>1 DEF Planned
    <3>. QED  BY <1>2, <1>3, <1>14, <3>1, <3>2 DEF Queued, This
  <2>. QED  BY <2>1 DEF Queued, This
<1>. QED
  BY <1>4, <1>8, <1>10, <1>11, <1>12, <1>13, <1>16, <1>17, <1>18 DEF IInv

-----------------------------------------------------------------------------
(* What a statement asks for.                                                *)
LEMMA RequestFacts ==
  ASSUME NEW t \in Thread, NEW req \in Request[t]
  PROVE  /\ DOMAIN req \in SUBSET Data /\ DOMAIN req # {}
         /\ \A x \in DOMAIN req : req[x] \in ReadType \cup WriteType
         /\ t \in Handler => Cardinality(DOMAIN req) = 1
         /\ \A x \in DOMAIN req : t \in Handler <=> req[x] = TL_WRITE_DELAYED
         /\ \A x, y \in DOMAIN req :
              /\ x # y /\ LockOf[x] = LockOf[y]
              /\ req[x] \in WriteType /\ req[y] \in WriteType
              => \/ req[x] = TL_WRITE_ALLOW_WRITE /\ req[y] = TL_WRITE_ALLOW_WRITE
                 \/ {req[x], req[y]} \subseteq {TL_WRITE_LOW_PRIORITY, TL_WRITE}
<1>1. /\ DOMAIN req \in (SUBSET Data) \ {{}}
      /\ req \in [DOMAIN req -> ReadType \cup WriteType]
      /\ t \in Handler => /\ Cardinality(DOMAIN req) = 1
                          /\ \A d \in DOMAIN req : req[d] = TL_WRITE_DELAYED
      /\ t \notin Handler => \A d \in DOMAIN req : req[d] # TL_WRITE_DELAYED
  BY ThrLockAssumption
<1>2. \A x, y \in DOMAIN req :
         /\ x # y /\ LockOf[x] = LockOf[y]
         /\ req[x] \in WriteType /\ req[y] \in WriteType
         => {req[x], req[y]} \in {{TL_WRITE_ALLOW_WRITE}, {TL_WRITE_LOW_PRIORITY},
                                  {TL_WRITE}, {TL_WRITE_LOW_PRIORITY, TL_WRITE}}
  BY ThrLockAssumption
<1>3. ASSUME NEW x \in DOMAIN req, NEW y \in DOMAIN req,
             {req[x], req[y]} \in {{TL_WRITE_ALLOW_WRITE}, {TL_WRITE_LOW_PRIORITY},
                                   {TL_WRITE}, {TL_WRITE_LOW_PRIORITY, TL_WRITE}}
      PROVE  \/ req[x] = TL_WRITE_ALLOW_WRITE /\ req[y] = TL_WRITE_ALLOW_WRITE
             \/ {req[x], req[y]} \subseteq {TL_WRITE_LOW_PRIORITY, TL_WRITE}
  <2>1. req[x] \in {req[x], req[y]} /\ req[y] \in {req[x], req[y]}  OBVIOUS
  <2>. QED  BY <1>3, <2>1
<1>. QED  BY <1>1, <1>2, <1>3

LEMMA MultiLockIInv ==
  ASSUME IInv, NEW t \in Thread, thr_multi_lock(t)
  PROVE  IInv'
<1>1. TypeOK /\ Placed /\ Control /\ Planned /\ Queued /\ OwnTypes /\ SharedWrites
      /\ NoInsertCount /\ ReadersAdmitted
  BY DEF IInv
<1>2. PICK req \in Request[t] :
        /\ \A x \in DOMAIN req : thread[x] = NoThread
        /\ type' = [x \in Data |-> IF x \in DOMAIN req THEN req[x] ELSE type[x]]
        /\ thread' = [x \in Data |-> IF x \in DOMAIN req THEN t ELSE thread[x]]
        /\ \E s \in Bijection(1 .. Cardinality(DOMAIN req), DOMAIN req) :
             plan' = [plan EXCEPT ![t] = s]
  BY DEF thr_multi_lock
<1>. DEFINE D == DOMAIN req  n == Cardinality(D)
<1>3. PICK s \in Bijection(1 .. n, D) : plan' = [plan EXCEPT ![t] = s]
  BY <1>2
<1>4. /\ pc[t] = "idle" /\ pos' = [pos EXCEPT ![t] = 1]
      /\ pc' = [pc EXCEPT ![t] = "lock"] /\ abort' = abort /\ cond' = cond
      /\ read' = read /\ read_wait' = read_wait /\ write' = write
      /\ write_wait' = write_wait
      /\ read_no_write_count' = read_no_write_count
      /\ write_lock_count' = write_lock_count
  BY DEF thr_multi_lock, lists, counts
<1>5. D \in SUBSET Data /\ D # {} /\ IsFiniteSet(D) /\ n \in Nat /\ n # 0
  <2>1. D \in SUBSET Data /\ D # {}  BY RequestFacts
  <2>2. IsFiniteSet(D)  BY <2>1, Constants, FS_Subset
  <2>. QED  BY <2>1, <2>2, FS_CardinalityType, FS_EmptySet
<1>6. /\ s \in Seq(Data) /\ Len(s) = n /\ IsInjective(s) /\ DOMAIN s = 1 .. n
      /\ 1 \in DOMAIN s
      /\ \A i \in DOMAIN s : s[i] \in D
      /\ \A x \in D : \E i \in DOMAIN s : s[i] = x
  <2>1. s \in [1 .. n -> D] /\ IsInjective(s) /\ \A x \in D : \E i \in 1 .. n : s[i] = x
    BY DEF Bijection, Injection, Surjection
  <2>. HIDE DEF D, n
  <2>2. s \in Seq(D)  BY <1>5, <2>1
  <2>. QED  BY <1>5, <2>1, <2>2
<1>. HIDE DEF D, n
<1>7. /\ \A x \in D : /\ thread[x] = NoThread /\ thread'[x] = t
                      /\ type'[x] = req[x]
                      /\ type'[x] \in ReadType \cup WriteType
      /\ \A x \in Data \ D : thread'[x] = thread[x] /\ type'[x] = type[x]
  BY <1>2, <1>5, RequestFacts DEF D
<1>8. \A x \in Data : /\ Listed(x)' <=> Listed(x)
                      /\ Waiting(x)' <=> Waiting(x)
                      /\ Waiting(x) => Listed(x)
                      /\ Listed(x) => x \notin D
  <2>1. \A x \in Data : Listed(x) => thread[x] \in Thread  BY <1>1 DEF Planned
  <2>2. \A x \in Data : Listed(x) => x \notin D  BY <1>7, <2>1, Constants
  <2>. QED  BY <1>4, <2>2 DEF Listed, Waiting, Active
<1>9. \A l \in Lock : /\ read[l] \subseteq Data \ D
                      /\ Range(read_wait[l]) \subseteq Data \ D
                      /\ Range(write[l]) \subseteq Data \ D
                      /\ Range(write_wait[l]) \subseteq Data \ D
  <2>1. \A l \in Lock : /\ read[l] \subseteq Data
                        /\ Range(read_wait[l]) \subseteq Data
                        /\ Range(write[l]) \subseteq Data
                        /\ Range(write_wait[l]) \subseteq Data
    BY <1>1, HeadFacts DEF TypeOK
  <2>2. \A l \in Lock, x \in Data :
           x \in read[l] \cup Range(read_wait[l]) \cup Range(write[l]) \cup Range(write_wait[l])
             => Listed(x)
    BY <1>1 DEF Placed, Listed, Active
  <2>. QED  BY <1>8, <2>1, <2>2
<1>10. TypeOK'
  <2>1. type' \in [Data -> LockType]
    <3>1. \A x \in Data : type[x] \in LockType  BY <1>1 DEF TypeOK
    <3>2. \A x \in D : req[x] \in LockType  BY <1>7
    <3>. QED  BY <1>2, <3>1, <3>2 DEF D
  <2>2. thread' \in [Data -> Thread \cup {NoThread}]  BY <1>1, <1>2 DEF TypeOK
  <2>3. plan' \in [Thread -> Seq(Data)]  BY <1>1, <1>3, <1>6 DEF TypeOK
  <2>4. pos' \in [Thread -> Nat \ {0}] /\ pc' \in [Thread -> PC]
    BY <1>1, <1>4 DEF TypeOK, PC
  <2>. QED  BY <1>1, <1>4, <2>1, <2>2, <2>3, <2>4 DEF TypeOK
<1>11. Placed'  BY <1>1, <1>4, <1>7, <1>9 DEF Placed
<1>12. SharedWrites'  BY <1>1, <1>4, <1>7, <1>9 DEF SharedWrites
<1>13. ReadersAdmitted'  BY <1>1, <1>4, <1>7, <1>9 DEF ReadersAdmitted
<1>14. NoInsertCount'
  <2>1. \A l \in Lock : \A x \in read[l] : type'[x] = type[x]  BY <1>7, <1>9
  <2>2. \A l \in Lock : OfType(read[l], TL_READ_NO_INSERT)'
                          = OfType(read[l], TL_READ_NO_INSERT)
    BY <1>4, <2>1 DEF OfType
  <2>. QED  BY <1>1, <1>4, <2>2 DEF NoInsertCount
<1>15. \A x \in Data : thread'[x] = t <=> x \in D
  BY <1>1, <1>4, <1>7 DEF Control
<1>16. OwnTypes'
  <2>1. ASSUME NEW x \in Data, NEW y \in Data, x # y, LockOf[x] = LockOf[y],
               thread'[x] = thread'[y], thread'[y] \in Thread,
               type'[x] \in WriteType, type'[y] \in WriteType
        PROVE  \/ type'[x] = TL_WRITE_ALLOW_WRITE /\ type'[y] = TL_WRITE_ALLOW_WRITE
               \/ {type'[x], type'[y]} \subseteq {TL_WRITE_LOW_PRIORITY, TL_WRITE}
    <3>1. CASE x \in D
      <4>1. y \in D /\ type'[x] = req[x] /\ type'[y] = req[y]  BY <1>7, <1>15, <2>1, <3>1
      <4>. QED  BY <2>1, <3>1, <4>1, RequestFacts DEF D
    <3>2. CASE x \notin D
      <4>1. y \notin D  BY <1>15, <2>1, <3>2
      <4>. QED  BY <1>1, <1>7, <2>1, <3>2, <4>1 DEF OwnTypes
    <3>. QED  BY <3>1, <3>2
  <2>2. ASSUME NEW x \in Data
        PROVE  /\ thread'[x] \in Handler => type'[x] \in DelayedTypes
               /\ thread'[x] \in Thread \ Handler => type'[x] # TL_WRITE_DELAYED
    <3>1. CASE x \in D
      <4>1. thread'[x] = t /\ type'[x] = req[x]  BY <1>7, <3>1
      <4>. QED  BY <3>1, <4>1, RequestFacts DEF D, DelayedTypes
    <3>2. CASE x \notin D  BY <1>1, <1>7, <3>2 DEF OwnTypes
    <3>. QED  BY <3>1, <3>2
  <2>. QED  BY <2>1, <2>2 DEF OwnTypes, DelayedTypes
<1>17. \A u \in Thread \ {t} : plan'[u] = plan[u] /\ pos'[u] = pos[u] /\ pc'[u] = pc[u]
  BY <1>1, <1>3, <1>4 DEF TypeOK
<1>18. plan'[t] = s /\ pos'[t] = 1 /\ pc'[t] = "lock"
  BY <1>1, <1>3, <1>4 DEF TypeOK
<1>19. Control'
  <2>1. ASSUME NEW u \in Thread \ {t}
        PROVE  /\ pc'[u] = "idle" => plan'[u] = <<>> /\ \A x \in Data : thread'[x] # u
               /\ pc'[u] \in {"lock", "wait"} => pos'[u] \in DOMAIN plan'[u]
               /\ pc'[u] \notin {"lock", "wait", "unlock"} => pos'[u] = 1
               /\ pc'[u] \in {"upgrade", "reupgrade", "reschedule", "insert"} => u \in Handler
               /\ u \in Handler /\ pc'[u] \notin {"idle", "unlock"} => Len(plan'[u]) = 1
               /\ IsInjective(plan'[u])
    BY <1>1, <1>7, <1>17 DEF Control
  <2>2. t \in Handler => Len(plan'[t]) = 1
    BY <1>6, <1>18, RequestFacts DEF D, n
  <2>. QED  BY <1>6, <1>18, <2>1, <2>2 DEF Control
<1>20. Planned'
  <2>1. ASSUME NEW u \in Thread, NEW i \in DOMAIN plan'[u],
               NEW x \in Data, x = plan'[u][i]
        PROVE  /\ thread'[x] = u
               /\ ToLock(u, i)' => ~ Listed(x)' /\ type'[x] \in ReadType \cup WriteType
               /\ Unlocked(u, i)' => ~ Listed(x)'
               /\ ~ ToLock(u, i)' /\ ~ Unlocked(u, i)' =>
                    (Listed(x)' <=> type'[x] # TL_UNLOCK)
    <3>1. CASE u = t
      <4>1. x \in D /\ i >= 1  BY <1>6, <1>18, <2>1, <3>1
      <4>2. ToLock(t, i)' /\ ~ Unlocked(t, i)'  BY <1>18, <4>1 DEF ToLock, Unlocked
      <4>. QED  BY <1>7, <1>8, <3>1, <4>1, <4>2
    <3>2. CASE u # t
      <4>1. i \in DOMAIN plan[u] /\ x = plan[u][i] /\ thread[x] = u
        BY <1>1, <1>17, <2>1, <3>2 DEF Planned
      <4>2. x \notin D  BY <1>7, <4>1, Constants
      <4>3. /\ ToLock(u, i)' <=> ToLock(u, i)
            /\ Unlocked(u, i)' <=> Unlocked(u, i)
        BY <1>17, <3>2 DEF ToLock, Unlocked
      <4>4. /\ ToLock(u, i) => ~ Listed(x) /\ type[x] \in ReadType \cup WriteType
            /\ Unlocked(u, i) => ~ Listed(x)
            /\ ~ ToLock(u, i) /\ ~ Unlocked(u, i) => (Listed(x) <=> type[x] # TL_UNLOCK)
        BY <1>1, <4>1 DEF Planned
      <4>. QED  BY <1>7, <1>8, <4>1, <4>2, <4>3, <4>4
    <3>. QED  BY <3>1, <3>2
  <2>2. ASSUME NEW x \in Data, Listed(x)'
        PROVE  \E u \in Thread : thread'[x] = u /\ x \in Range(plan'[u])
    <3>1. Listed(x) /\ x \notin D  BY <1>8, <2>2
    <3>2. PICK u \in Thread : thread[x] = u /\ x \in Range(plan[u])
      BY <1>1, <3>1 DEF Planned
    <3>3. u # t
      <4>1. \A y \in Data : thread[y] # t  BY <1>1, <1>4 DEF Control
      <4>. QED  BY <3>2, <4>1
    <3>. QED  BY <1>7, <1>17, <3>1, <3>2, <3>3
  <2>3. \A u \in Thread : \A i \in DOMAIN plan'[u] : plan'[u][i] \in Data
    BY <1>10 DEF TypeOK
  <2>. QED  BY <2>1, <2>2, <2>3 DEF Planned
<1>21. Queued'
  <2>1. ASSUME NEW x \in Data, Waiting(x)'
        PROVE  \/ thread'[x] \in Handler /\ type'[x] \in WriteType
               \/ pc'[thread'[x]] = "wait" /\ plan'[thread'[x]][pos'[thread'[x]]] = x
    <3>1. Waiting(x) /\ Listed(x) /\ x \notin D  BY <1>8, <2>1
    <3>2. thread'[x] = thread[x] /\ type'[x] = type[x] /\ thread[x] \in Thread
      BY <1>1, <1>7, <3>1 DEF Planned
    <3>3. thread[x] # t  BY <1>1, <1>4 DEF Control
    <3>. QED  BY <1>1, <1>17, <3>1, <3>2, <3>3 DEF Queued, This
  <2>. QED  BY <2>1 DEF Queued, This
<1>. QED
  BY <1>10, <1>11, <1>12, <1>13, <1>14, <1>16, <1>19, <1>20, <1>21 DEF IInv

-----------------------------------------------------------------------------
(* thr_lock.  The instance it is called for is in no list.                   *)
LEMMA ToLockFacts ==
  ASSUME IInv, NEW t \in Thread, pc[t] = "lock"
  PROVE  /\ This(t) \in Data /\ LockOf[This(t)] \in Lock
         /\ thread[This(t)] = t
         /\ ~ Listed(This(t))
         /\ type[This(t)] \in ReadType \cup WriteType
         /\ \A m \in Lock : /\ This(t) \notin read[m]
                            /\ This(t) \notin Range(read_wait[m])
                            /\ This(t) \notin Range(write[m])
                            /\ This(t) \notin Range(write_wait[m])
<1>1. TypeOK /\ Control /\ Planned /\ Placed  BY DEF IInv
<1>2. /\ pos[t] \in DOMAIN plan[t] /\ This(t) = plan[t][pos[t]] /\ This(t) \in Data
      /\ LockOf[This(t)] \in Lock
  BY <1>1, ThisFacts
<1>3. ToLock(t, pos[t])  BY <1>1 DEF ToLock, TypeOK
<1>4. /\ thread[This(t)] = t /\ ~ Listed(This(t))
      /\ type[This(t)] \in ReadType \cup WriteType
  BY <1>1, <1>2, <1>3 DEF Planned
<1>. HIDE DEF ReadType, WriteType
<1>5. \A m \in Lock : /\ This(t) \notin read[m]
                      /\ This(t) \notin Range(read_wait[m])
                      /\ This(t) \notin Range(write[m])
                      /\ This(t) \notin Range(write_wait[m])
  BY <1>1, <1>2, <1>4 DEF Placed, Listed, Active
<1>. QED  BY <1>2, <1>4, <1>5

LEMMA ListsListed ==
  ASSUME NEW l \in Lock, NEW rd, NEW rw, NEW wr, NEW ww,
         Lists(l, rd, rw, wr, ww), NEW x \in Data
  PROVE  /\ LockOf[x] = l => /\ Listed(x)' <=> x \in rd \cup rw \cup wr \cup ww
                             /\ Waiting(x)' <=> x \in rw \cup ww
         /\ LockOf[x] # l => /\ Listed(x)' <=> Listed(x)
                             /\ Waiting(x)' <=> Waiting(x)
<1>1. LockOf[x] \in Lock  BY Constants
<1>. QED  BY <1>1 DEF Lists, Listed, Waiting, Active

LEMMA CountKept ==
  ASSUME NoInsertCount, read_no_write_count' = read_no_write_count,
         \A m \in Lock : /\ read'[m] = read[m]
                         /\ \A r \in read[m] : type'[r] = type[r]
  PROVE  NoInsertCount'
<1>1. \A m \in Lock : OfType(read[m], TL_READ_NO_INSERT)'
                        = OfType(read[m], TL_READ_NO_INSERT)
  BY DEF OfType
<1>. QED  BY <1>1 DEF NoInsertCount

(* A read lock joins the granted ones.                                       *)
LEMMA LockReadIInv ==
  ASSUME IInv, NEW t \in Thread, thr_lock_read(t)
  PROVE  IInv'
<1>. DEFINE d == This(t)  l == LockOf[d]
<1>1. TypeOK /\ Placed /\ Control /\ Planned /\ OwnTypes /\ SharedWrites
      /\ NoInsertCount /\ ReadersAdmitted
  BY DEF IInv
<1>2. /\ pc[t] = "lock" /\ IsRead(d) /\ MayRead(d)
      /\ read_no_write_count' = IF type[d] = TL_READ_NO_INSERT
                                THEN [read_no_write_count EXCEPT ![l] = @ + 1]
                                ELSE read_no_write_count
      /\ cond' = [cond EXCEPT ![d] = FALSE]
      /\ Locked(t) /\ type' = type /\ thread' = thread /\ abort' = abort
      /\ write_lock_count' = write_lock_count
      /\ write' = write
  BY DEF thr_lock_read
<1>3. /\ d \in Data /\ l \in Lock /\ thread[d] = t /\ ~ Listed(d)
      /\ type[d] \in ReadType
      /\ \A m \in Lock : /\ d \notin read[m] /\ d \notin Range(read_wait[m])
                         /\ d \notin Range(write[m]) /\ d \notin Range(write_wait[m])
  BY <1>2, ToLockFacts DEF IsRead
<1>4. Lists(l, read[l] \cup {d}, Range(read_wait[l]), Range(write[l]), Range(write_wait[l]))
  BY <1>1, LockReadLists
<1>5. \A x \in Data : /\ Listed(x)' <=> Listed(x) \/ x = d
                      /\ Waiting(x)' <=> Waiting(x)
  BY <1>3, <1>4, ListsListed DEF Listed, Waiting, Active
<1>. HIDE DEF d
<1>6. /\ plan' \in [Thread -> Seq(Data)] /\ pos' \in [Thread -> Nat \ {0}]
      /\ pc' \in [Thread -> PC] /\ Control' /\ Planned'
  <2>1. \A x \in Data : IF x = This(t) THEN Listed(x)' /\ type'[x] # TL_UNLOCK
                        ELSE (Listed(x)' <=> Listed(x)) /\ type'[x] = type[x]
    BY <1>2, <1>3, <1>5 DEF d
  <2>. QED  BY <1>2, <2>1, LockedLoop
<1>7. TypeOK'
  <2>1. read_no_write_count' \in [Lock -> Nat]  BY <1>1, <1>2, <1>3 DEF TypeOK
  <2>2. cond' \in [Data -> BOOLEAN]  BY <1>1, <1>2 DEF TypeOK
  <2>. QED  BY <1>1, <1>2, <1>4, <1>6, <2>1, <2>2 DEF TypeOK, Lists
<1>8. Placed'
  <2>1. \A x \in Data : cond'[x] <=> cond[x] /\ x # d  BY <1>1, <1>2 DEF TypeOK
  <2>2. \A m \in Lock : /\ \A x \in read'[m] : x \in read[m] \/ (x = d /\ m = l)
                        /\ Range(read_wait'[m]) = Range(read_wait[m])
                        /\ Range(write'[m]) = Range(write[m])
                        /\ Range(write_wait'[m]) = Range(write_wait[m])
    BY <1>4 DEF Lists
  <2>. QED  BY <1>1, <1>2, <1>3, <2>1, <2>2 DEF Placed
<1>9. Queued'
  <2>1. \A u \in Thread \ {t} : pc'[u] = pc[u] /\ pos'[u] = pos[u] /\ plan'[u] = plan[u]
    BY <1>1, <1>2 DEF Locked, TypeOK
  <2>2. \A x \in Data : Waiting(x)' =>
          \/ Waiting(x) /\ thread[x] # t /\ type'[x] = type[x]
          \/ thread[x] \in Handler /\ type'[x] \in WriteType
    BY <1>2, <1>5, NotQueued
  <2>. QED  BY <1>2, <2>1, <2>2, QueuedKept
<1>10. OwnTypes'  BY <1>1, <1>2 DEF OwnTypes
<1>11. SharedWrites'  BY <1>1, <1>2 DEF SharedWrites
<1>12. NoInsertCount'
  <2>. DEFINE N(m) == OfType(read[m], TL_READ_NO_INSERT)
  <2>1. \A m \in Lock \ {l} : /\ N(m)' = N(m)
                              /\ read_no_write_count'[m] = read_no_write_count[m]
    BY <1>1, <1>2, <1>4 DEF OfType, Lists, TypeOK
  <2>2. IsFiniteSet(N(l)) /\ Cardinality(N(l)) \in Nat
    BY <1>1, <1>3, FiniteParts DEF TypeOK
  <2>3. read'[l] = read[l] \cup {d}  BY <1>4 DEF Lists
  <2>4. read_no_write_count[l] = Cardinality(N(l))  BY <1>1, <1>3 DEF NoInsertCount
  <2>5. d \notin N(l)  BY <1>3 DEF OfType
  <2>6. read_no_write_count'[l] = Cardinality({x \in read'[l] : type'[x] = TL_READ_NO_INSERT})
    <3>1. CASE type[d] = TL_READ_NO_INSERT
      <4>1. {x \in read'[l] : type'[x] = TL_READ_NO_INSERT} = N(l) \cup {d}
        BY <1>2, <2>3, <3>1 DEF OfType
      <4>2. read_no_write_count'[l] = read_no_write_count[l] + 1
        BY <1>1, <1>2, <1>3, <3>1 DEF TypeOK
      <4>3. Cardinality(N(l) \cup {d}) = Cardinality(N(l)) + 1
        BY <2>2, <2>5, FS_AddElement
      <4>. QED  BY <2>4, <4>1, <4>2, <4>3
    <3>2. CASE type[d] # TL_READ_NO_INSERT
      <4>1. {x \in read'[l] : type'[x] = TL_READ_NO_INSERT} = N(l)
        BY <1>2, <2>3, <3>2 DEF OfType
      <4>. QED  BY <1>2, <2>4, <3>2, <4>1
    <3>. QED  BY <3>1, <3>2
  <2>7. \A m \in Lock : m = l => N(m)' = {x \in read'[l] : type'[x] = TL_READ_NO_INSERT}
    BY DEF OfType
  <2>. QED  BY <1>1, <2>1, <2>6, <2>7 DEF NoInsertCount
<1>13. ReadersAdmitted'
  <2>1. ASSUME NEW w \in Range(write[l]), thread[d] # thread[w]
        PROVE  /\ type[w] \in TL_WRITE_ALLOW_WRITE .. TL_WRITE_DELAYED \cup {TL_WRITE_ONLY}
               /\ type[d] = TL_READ_NO_INSERT => type[w] # TL_WRITE_CONCURRENT_INSERT
    <3>. DEFINE h == Head(write[l])
    <3>1. write[l] \in Seq(Data) /\ write[l] # <<>> /\ h \in Range(write[l])
      <4>1. write[l] \in Seq(Data)  BY <1>1, <1>3 DEF TypeOK
      <4>2. write[l] # <<>>  BY <2>1, <4>1, HeadFacts
      <4>. QED  BY <4>1, <4>2, HeadFacts
    <3>2. h \in Data /\ w \in Data  BY <2>1, <3>1, HeadFacts
    <3>3. \/ thread[d] = thread[h]
          \/ /\ type[h] <= TL_WRITE_DELAYED
             /\ \/ type[d] <= TL_READ_HIGH_PRIORITY
                \/ type[h] # TL_WRITE_CONCURRENT_INSERT
      BY <1>2, <3>1 DEF MayRead, ReadJoinsWrite, HeadType
    <3>. HIDE DEF h
    <3>4. type[h] \in WriteType \cup {TL_WRITE_ONLY}  BY <1>1, <1>3, <3>1, <3>2 DEF Placed
    <3>5. CASE w = h  BY <2>1, <3>3, <3>4, <3>5
    <3>6. CASE w # h
      <4>1. \/ type[w] \in {TL_WRITE_ALLOW_WRITE, TL_WRITE_ONLY}
            \/ /\ thread[w] = thread[h]
               /\ type[h] \in {TL_WRITE_LOW_PRIORITY, TL_WRITE, TL_WRITE_ONLY}
        BY <1>1, <1>3, <2>1, <3>1, <3>6 DEF SharedWrites
      <4>. QED  BY <2>1, <3>3, <4>1
    <3>. QED  BY <3>5, <3>6
  <2>2. ASSUME NEW m \in Lock, NEW r \in read'[m], NEW w \in Range(write[m]),
               thread[r] # thread[w]
        PROVE  /\ type[w] \in TL_WRITE_ALLOW_WRITE .. TL_WRITE_DELAYED \cup {TL_WRITE_ONLY}
               /\ type[r] = TL_READ_NO_INSERT => type[w] # TL_WRITE_CONCURRENT_INSERT
    <3>1. CASE m = l /\ r = d  BY <2>1, <2>2, <3>1
    <3>2. CASE ~ (m = l /\ r = d)
      <4>1. r \in read[m]  BY <1>4, <3>2 DEF Lists
      <4>. QED  BY <1>1, <2>2, <4>1 DEF ReadersAdmitted
    <3>. QED  BY <3>1, <3>2
  <2>. QED  BY <1>2, <2>2 DEF ReadersAdmitted
<1>. QED
  BY <1>6, <1>7, <1>8, <1>9, <1>10, <1>11, <1>12, <1>13 DEF IInv

(* The type a write request gets.                                            *)
LEMMA EffectiveTypeFacts ==
  ASSUME IInv, NEW t \in Thread, pc[t] = "lock", ~ IsRead(This(t)),
         NEW hole \in BOOLEAN
  PROVE  /\ type[This(t)] \in WriteType
         /\ EffectiveType(This(t), hole) \in WriteType
         /\ \/ EffectiveType(This(t), hole) = type[This(t)]
            \/ /\ type[This(t)] = TL_WRITE_CONCURRENT_INSERT
               /\ EffectiveType(This(t), hole) \in {TL_WRITE, TL_WRITE_LOW_PRIORITY}
               /\ t \notin Handler
<1>1. type[This(t)] \in WriteType /\ thread[This(t)] = t /\ This(t) \in Data
  BY ToLockFacts DEF IsRead
<1>2. t \in Handler => type[This(t)] # TL_WRITE_CONCURRENT_INSERT
  BY <1>1 DEF IInv, OwnTypes, DelayedTypes
<1>. QED  BY <1>1, <1>2, Constants DEF EffectiveType

(* A concurrent insert that becomes exclusive keeps its thread's types in    *)
(* order: it is the only write lock the thread asked for on that table.      *)
LEMMA OwnTypesKept ==
  ASSUME IInv, thread' = thread,
         \A x \in Data : \/ type'[x] \in {type[x], TL_UNLOCK, TL_WRITE_ONLY}
                         \/ /\ type[x] = TL_WRITE_CONCURRENT_INSERT
                            /\ type'[x] \in {TL_WRITE, TL_WRITE_LOW_PRIORITY}
                         \/ type[x] = TL_WRITE_DELAYED /\ type'[x] = TL_WRITE
  PROVE  OwnTypes'
<1>1. OwnTypes  BY DEF IInv
<1>2. \A x \in Data : type'[x] \in WriteType =>
        /\ type[x] \in WriteType
        /\ type'[x] # type[x] =>
             type[x] \in {TL_WRITE_CONCURRENT_INSERT, TL_WRITE_DELAYED}
  OBVIOUS
<1>3. ASSUME NEW x \in Data, NEW y \in Data, x # y, LockOf[x] = LockOf[y],
             thread[x] = thread[y], thread[y] \in Thread,
             type'[x] \in WriteType, type'[y] \in WriteType
      PROVE  \/ type'[x] = TL_WRITE_ALLOW_WRITE /\ type'[y] = TL_WRITE_ALLOW_WRITE
             \/ {type'[x], type'[y]} \subseteq {TL_WRITE_LOW_PRIORITY, TL_WRITE}
  <2>1. \/ type[x] = TL_WRITE_ALLOW_WRITE /\ type[y] = TL_WRITE_ALLOW_WRITE
        \/ {type[x], type[y]} \subseteq {TL_WRITE_LOW_PRIORITY, TL_WRITE}
    BY <1>1, <1>2, <1>3 DEF OwnTypes
  <2>2. type'[x] = type[x] /\ type'[y] = type[y]  BY <1>2, <1>3, <2>1
  <2>. QED  BY <2>1, <2>2
<1>4. \A x \in Data : /\ thread[x] \in Handler => type'[x] \in DelayedTypes
                      /\ thread[x] \in Thread \ Handler => type'[x] # TL_WRITE_DELAYED
  BY <1>1 DEF OwnTypes, DelayedTypes
<1>. QED  BY <1>3, <1>4 DEF OwnTypes, DelayedTypes

(* What goes together with the active write lock goes with all the granted.  *)
LEMMA LockWriteShared ==
  ASSUME IInv, NEW t \in Thread, pc[t] = "lock", ~ IsRead(This(t)),
         ~ WriteOnlyActive(LockOf[This(t)]),
         NEW ty \in WriteType,
         \/ ty = type[This(t)]
         \/ type[This(t)] = TL_WRITE_CONCURRENT_INSERT
            /\ ty \in {TL_WRITE, TL_WRITE_LOW_PRIORITY},
         MayWrite(This(t), ty),
         NEW w \in Range(write[LockOf[This(t)]])
  PROVE  \/ /\ type[w] \in {TL_WRITE_ALLOW_WRITE, TL_WRITE_ONLY}
            /\ ty = TL_WRITE_ALLOW_WRITE
            /\ thread[w] \notin Handler /\ t \notin Handler
         \/ /\ thread[w] = t
            /\ type[w] \in {TL_WRITE_LOW_PRIORITY, TL_WRITE, TL_WRITE_ONLY}
            /\ ty \in {TL_WRITE_LOW_PRIORITY, TL_WRITE}
<1>. DEFINE d == This(t)  l == LockOf[d]  h == Head(write[l])
<1>1. TypeOK /\ Placed /\ OwnTypes /\ SharedWrites  BY DEF IInv
<1>2. /\ d \in Data /\ l \in Lock /\ thread[d] = t /\ type[d] \in WriteType
      /\ d \notin Range(write[l])
  BY ToLockFacts DEF IsRead
<1>3. /\ write[l] # <<>> /\ h \in Range(write[l]) /\ h \in Data /\ w \in Data
  <2>1. write[l] \in Seq(Data)  BY <1>1, <1>2 DEF TypeOK
  <2>2. write[l] # <<>>  BY <2>1, HeadFacts
  <2>. QED  BY <2>1, <2>2, HeadFacts
<1>4. type[h] # TL_WRITE_ONLY  BY <1>3 DEF WriteOnlyActive, HeadType
<1>5. \/ thread[d] = thread[h]
      \/ ty = TL_WRITE_ALLOW_WRITE /\ type[h] = TL_WRITE_ALLOW_WRITE
  BY <1>3 DEF MayWrite, HeadType
<1>. HIDE DEF h, d
<1>6. type[h] \in WriteType /\ LockOf[h] = l  BY <1>1, <1>2, <1>3, <1>4 DEF Placed
<1>7. \A x \in Data : type[x] = TL_WRITE_ALLOW_WRITE => thread[x] \notin Handler
  BY <1>1 DEF OwnTypes, DelayedTypes
<1>8. w = h \/ \/ /\ {type[w], type[h]} \subseteq {TL_WRITE_ALLOW_WRITE, TL_WRITE_ONLY}
                  /\ thread[w] \notin Handler /\ thread[h] \notin Handler
               \/ /\ thread[w] = thread[h]
                  /\ {type[w], type[h]} \subseteq {TL_WRITE_LOW_PRIORITY, TL_WRITE, TL_WRITE_ONLY}
  BY <1>1, <1>2, <1>3 DEF SharedWrites, d
<1>9. CASE thread[d] = thread[h]
  <2>1. \/ type[h] = TL_WRITE_ALLOW_WRITE /\ type[d] = TL_WRITE_ALLOW_WRITE
        \/ {type[h], type[d]} \subseteq {TL_WRITE_LOW_PRIORITY, TL_WRITE}
    <3>1. h # d  BY <1>2, <1>3
    <3>. QED  BY <1>1, <1>2, <1>3, <1>6, <1>9, <3>1 DEF OwnTypes
  <2>2. ty = type[d]  BY <2>1 DEF d
  <2>. QED  BY <1>2, <1>3, <1>7, <1>8, <1>9, <2>1, <2>2
<1>10. CASE ty = TL_WRITE_ALLOW_WRITE /\ type[h] = TL_WRITE_ALLOW_WRITE
  <2>1. type[d] = TL_WRITE_ALLOW_WRITE  BY <1>10 DEF d
  <2>. QED  BY <1>2, <1>3, <1>7, <1>8, <1>10, <2>1
<1>. QED  BY <1>5, <1>9, <1>10

LEMMA LockWriteIInv ==
  ASSUME IInv, NEW t \in Thread, thr_lock_write(t)
  PROVE  IInv'
<1>. DEFINE d == This(t)  l == LockOf[d]
<1>1. TypeOK /\ Placed /\ Control /\ Planned /\ OwnTypes /\ SharedWrites
      /\ NoInsertCount /\ ReadersAdmitted
  BY DEF IInv
<1>2. /\ pc[t] = "lock" /\ ~ IsRead(d) /\ ~ WriteOnlyActive(l)
      /\ read_no_write_count' = read_no_write_count
      /\ cond' = [cond EXCEPT ![d] = FALSE]
      /\ Locked(t) /\ thread' = thread /\ abort' = abort
      /\ write_lock_count' = write_lock_count
      /\ read' = read
  BY DEF thr_lock_write, counts
<1>3. PICK hole \in BOOLEAN :
        /\ MayWrite(d, EffectiveType(d, hole))
        /\ type' = [type EXCEPT ![d] = EffectiveType(d, hole)]
  BY DEF thr_lock_write
<1>4. PICK ty \in WriteType :
        /\ MayWrite(d, ty) /\ type' = [type EXCEPT ![d] = ty]
        /\ \/ ty = type[d]
           \/ /\ type[d] = TL_WRITE_CONCURRENT_INSERT
              /\ ty \in {TL_WRITE, TL_WRITE_LOW_PRIORITY}
              /\ t \notin Handler
  BY <1>2, <1>3, EffectiveTypeFacts
<1>5. /\ d \in Data /\ l \in Lock /\ thread[d] = t /\ ~ Listed(d)
      /\ type[d] \in WriteType
      /\ \A m \in Lock : /\ d \notin read[m] /\ d \notin Range(read_wait[m])
                         /\ d \notin Range(write[m]) /\ d \notin Range(write_wait[m])
  BY <1>2, ToLockFacts DEF IsRead
<1>6. Lists(l, read[l], Range(read_wait[l]), Range(write[l]) \cup {d}, Range(write_wait[l]))
  BY <1>1, LockWriteLists
<1>7. \A x \in Data : /\ Listed(x)' <=> Listed(x) \/ x = d
                      /\ Waiting(x)' <=> Waiting(x)
  BY <1>5, <1>6, ListsListed DEF Listed, Waiting, Active
<1>8. \A w \in Range(write[l]) :
        \/ /\ type[w] \in {TL_WRITE_ALLOW_WRITE, TL_WRITE_ONLY}
           /\ ty = TL_WRITE_ALLOW_WRITE
           /\ thread[w] \notin Handler /\ t \notin Handler
        \/ /\ thread[w] = t
           /\ type[w] \in {TL_WRITE_LOW_PRIORITY, TL_WRITE, TL_WRITE_ONLY}
           /\ ty \in {TL_WRITE_LOW_PRIORITY, TL_WRITE}
  BY <1>2, <1>4, LockWriteShared
<1>9. OwnTypes'
  <2>1. \A x \in Data : \/ type'[x] = type[x]
                       \/ /\ type[x] = TL_WRITE_CONCURRENT_INSERT
                          /\ type'[x] \in {TL_WRITE, TL_WRITE_LOW_PRIORITY}
    BY <1>1, <1>4, <1>5 DEF TypeOK
  <2>. QED  BY <1>2, <2>1, OwnTypesKept
<1>10. write[l] = <<>> => \/ read[l] = {}
                          \/ /\ ty <= TL_WRITE_DELAYED
                             /\ ty \in NeedsNoInsertBlock => read_no_write_count[l] = 0
  BY <1>4 DEF MayWrite
<1>11. \A w \in Range(write[l]) : type[Head(write[l])] # TL_WRITE_ONLY
  <2>1. write[l] \in Seq(Data)  BY <1>1, <1>5 DEF TypeOK
  <2>2. \A w \in Range(write[l]) : write[l] # <<>>  BY <2>1, HeadFacts
  <2>. QED  BY <1>2, <2>2 DEF WriteOnlyActive, HeadType
<1>12. type'[d] = ty /\ \A x \in Data \ {d} : type'[x] = type[x]
  BY <1>1, <1>4, <1>5 DEF TypeOK
<1>. HIDE DEF d
<1>13. /\ plan' \in [Thread -> Seq(Data)] /\ pos' \in [Thread -> Nat \ {0}]
       /\ pc' \in [Thread -> PC] /\ Control' /\ Planned'
  <2>1. \A x \in Data : IF x = This(t) THEN Listed(x)' /\ type'[x] # TL_UNLOCK
                        ELSE (Listed(x)' <=> Listed(x)) /\ type'[x] = type[x]
    BY <1>7, <1>12 DEF d
  <2>. QED  BY <1>2, <2>1, LockedLoop
<1>14. TypeOK'
  <2>1. type' \in [Data -> LockType]
    <3>1. ty \in LockType /\ type \in [Data -> LockType]  BY <1>1 DEF TypeOK
    <3>. QED  BY <1>4, <3>1
  <2>2. cond' \in [Data -> BOOLEAN]  BY <1>1, <1>2 DEF TypeOK
  <2>. QED  BY <1>1, <1>2, <1>6, <1>13, <2>1, <2>2 DEF TypeOK, Lists
<1>15. \A m \in Lock : /\ Range(read_wait'[m]) = Range(read_wait[m])
                       /\ \A x \in Range(write'[m]) :
                            x \in Range(write[m]) \/ (x = d /\ m = l)
                       /\ Range(write_wait'[m]) = Range(write_wait[m])
  BY <1>6 DEF Lists
<1>16. \A m \in Lock : /\ read[m] \subseteq Data
                       /\ Range(write[m]) \subseteq Data
                       /\ Range(write'[m]) \subseteq Data
  BY <1>1, <1>14, HeadFacts DEF TypeOK
<1>17. Placed'
  <2>1. \A x \in Data : cond'[x] <=> cond[x] /\ x # d  BY <1>1, <1>2 DEF TypeOK
  <2>2. \A m \in Lock, x \in Data :
          /\ x \in read'[m] => LockOf[x] = m /\ type'[x] \in ReadType /\ ~ cond'[x]
          /\ x \in Range(read_wait'[m]) => LockOf[x] = m /\ type'[x] \in ReadType /\ cond'[x]
    BY <1>1, <1>2, <1>5, <1>12, <1>15, <2>1 DEF Placed
  <2>3. \A m \in Lock, x \in Data : x \in Range(write'[m]) =>
          LockOf[x] = m /\ type'[x] \in WriteType \cup {TL_WRITE_ONLY} /\ ~ cond'[x]
    BY <1>1, <1>5, <1>12, <1>15, <2>1 DEF Placed
  <2>4. \A m \in Lock, x \in Data : x \in Range(write_wait'[m]) =>
          LockOf[x] = m /\ type'[x] \in WriteType /\ cond'[x]
    BY <1>1, <1>5, <1>12, <1>15, <2>1 DEF Placed
  <2>. QED  BY <2>2, <2>3, <2>4 DEF Placed
<1>18. Queued'
  <2>1. \A u \in Thread \ {t} : pc'[u] = pc[u] /\ pos'[u] = pos[u] /\ plan'[u] = plan[u]
    BY <1>1, <1>2 DEF Locked, TypeOK
  <2>2. \A x \in Data : Waiting(x)' =>
          \/ Waiting(x) /\ thread[x] # t /\ type'[x] = type[x]
          \/ thread[x] \in Handler /\ type'[x] \in WriteType
    <3>1. \A x \in Data : Waiting(x) => x # d  BY <1>5 DEF Waiting
    <3>. QED  BY <1>2, <1>7, <1>12, <3>1, NotQueued
  <2>. QED  BY <1>2, <2>1, <2>2, QueuedKept
<1>19. SharedWrites'
  <2>1. ASSUME NEW m \in Lock, NEW x \in Range(write'[m]), NEW y \in Range(write'[m]), x # y
        PROVE  \/ /\ {type'[x], type'[y]} \subseteq {TL_WRITE_ALLOW_WRITE, TL_WRITE_ONLY}
                  /\ thread[x] \notin Handler /\ thread[y] \notin Handler
               \/ /\ thread[x] = thread[y]
                  /\ {type'[x], type'[y]}
                       \subseteq {TL_WRITE_LOW_PRIORITY, TL_WRITE, TL_WRITE_ONLY}
    <3>1. CASE x # d /\ y # d
      <4>1. /\ x \in Range(write[m]) /\ y \in Range(write[m])
            /\ type'[x] = type[x] /\ type'[y] = type[y]
        BY <1>12, <1>15, <1>16, <2>1, <3>1
      <4>. QED  BY <1>1, <2>1, <4>1 DEF SharedWrites
    <3>2. CASE x = d
      <4>1. m = l /\ y \in Range(write[l]) /\ type'[y] = type[y] /\ type'[x] = ty
        BY <1>5, <1>12, <1>15, <1>16, <2>1, <3>2
      <4>. QED  BY <1>5, <1>8, <3>2, <4>1
    <3>3. CASE y = d
      <4>1. m = l /\ x \in Range(write[l]) /\ type'[x] = type[x] /\ type'[y] = ty
        BY <1>5, <1>12, <1>15, <1>16, <2>1, <3>3
      <4>. QED  BY <1>5, <1>8, <3>3, <4>1
    <3>. QED  BY <3>1, <3>2, <3>3
  <2>. QED  BY <1>2, <2>1 DEF SharedWrites
<1>20. NoInsertCount'
  <2>1. \A m \in Lock : \A r \in read[m] : type'[r] = type[r]
    BY <1>5, <1>12, <1>16
  <2>. QED  BY <1>1, <1>2, <2>1, CountKept
<1>21. ReadersAdmitted'
  <2>1. ASSUME NEW r \in read[l], thread[r] # t
        PROVE  /\ ty \in TL_WRITE_ALLOW_WRITE .. TL_WRITE_DELAYED
               /\ type[r] = TL_READ_NO_INSERT => ty # TL_WRITE_CONCURRENT_INSERT
    <3>1. CASE write[l] # <<>>
      <4>. DEFINE h == Head(write[l])
      <4>1. h \in Range(write[l])
        <5>1. write[l] \in Seq(Data)  BY <1>1, <1>5 DEF TypeOK
        <5>. QED  BY <3>1, <5>1, HeadFacts
      <4>2. type[h] # TL_WRITE_ONLY  BY <1>11, <4>1
      <4>. HIDE DEF h
      <4>3. CASE ty = TL_WRITE_ALLOW_WRITE  BY <4>3
      <4>4. CASE /\ thread[h] = t
                 /\ type[h] \in {TL_WRITE_LOW_PRIORITY, TL_WRITE, TL_WRITE_ONLY}
        <5>1. type[h] \in TL_WRITE_ALLOW_WRITE .. TL_WRITE_DELAYED \cup {TL_WRITE_ONLY}
          BY <1>1, <1>5, <2>1, <4>1, <4>4 DEF ReadersAdmitted
        <5>. QED  BY <4>2, <4>4, <5>1
      <4>. QED  BY <1>8, <4>1, <4>3, <4>4
    <3>2. CASE write[l] = <<>>
      <4>1. /\ ty <= TL_WRITE_DELAYED
            /\ ty \in NeedsNoInsertBlock => read_no_write_count[l] = 0
        BY <1>10, <2>1, <3>2
      <4>2. ASSUME type[r] = TL_READ_NO_INSERT, ty = TL_WRITE_CONCURRENT_INSERT
            PROVE  FALSE
        <5>. DEFINE N == OfType(read[l], TL_READ_NO_INSERT)
        <5>1. Cardinality(N) = 0
          BY <1>1, <1>5, <4>1, <4>2 DEF NoInsertCount, NeedsNoInsertBlock
        <5>2. IsFiniteSet(N)  BY <1>5, <1>16, FiniteParts
        <5>3. r \in N  BY <2>1, <4>2 DEF OfType
        <5>. QED  BY <5>1, <5>2, <5>3, FS_EmptySet
      <4>. QED  BY <4>1, <4>2
    <3>. QED  BY <3>1, <3>2
  <2>2. ASSUME NEW m \in Lock, NEW r \in read[m], NEW w \in Range(write'[m]),
               thread[r] # thread[w]
        PROVE  /\ type'[w] \in TL_WRITE_ALLOW_WRITE .. TL_WRITE_DELAYED \cup {TL_WRITE_ONLY}
               /\ type'[r] = TL_READ_NO_INSERT => type'[w] # TL_WRITE_CONCURRENT_INSERT
    <3>1. type'[r] = type[r]  BY <1>5, <1>12, <1>16, <2>2
    <3>2. CASE w = d
      <4>1. m = l  BY <1>5, <1>15, <2>2, <3>2
      <4>. QED  BY <1>5, <1>12, <2>1, <2>2, <3>1, <3>2, <4>1
    <3>3. CASE w # d
      <4>1. w \in Range(write[m]) /\ type'[w] = type[w]
        BY <1>12, <1>15, <1>16, <2>2, <3>3
      <4>. QED  BY <1>1, <2>2, <3>1, <4>1 DEF ReadersAdmitted
    <3>. QED  BY <3>2, <3>3
  <2>. QED  BY <1>2, <2>2 DEF ReadersAdmitted
<1>. QED
  BY <1>9, <1>13, <1>14, <1>17, <1>18, <1>19, <1>20, <1>21 DEF IInv

(* A step that grants nothing, takes nothing and changes no granted type.    *)
LEMMA GrantedKept ==
  ASSUME IInv, thread' = thread, read_no_write_count' = read_no_write_count,
         \A m \in Lock : /\ read'[m] = read[m]
                         /\ Range(write'[m]) = Range(write[m])
                         /\ \A x \in read[m] : type'[x] = type[x]
                         /\ \A x \in Range(write[m]) : type'[x] = type[x]
  PROVE  SharedWrites' /\ ReadersAdmitted' /\ NoInsertCount'
<1>1. SharedWrites /\ ReadersAdmitted /\ NoInsertCount  BY DEF IInv
<1>2. SharedWrites'  BY <1>1 DEF SharedWrites
<1>3. ReadersAdmitted'  BY <1>1 DEF ReadersAdmitted
<1>4. NoInsertCount'  BY <1>1, CountKept
<1>. QED  BY <1>2, <1>3, <1>4

LEMMA LockDelayedIInv ==
  ASSUME IInv, NEW t \in Thread, thr_lock_delayed(t)
  PROVE  IInv'
<1>. DEFINE d == This(t)  l == LockOf[d]
<1>1. TypeOK /\ Placed /\ Control /\ Planned /\ OwnTypes  BY DEF IInv
<1>2. /\ pc[t] = "lock" /\ type[d] = TL_WRITE_DELAYED
      /\ read_no_write_count' = read_no_write_count
      /\ cond' = [cond EXCEPT ![d] = TRUE]
      /\ Locked(t) /\ thread' = thread /\ abort' = abort
      /\ write_lock_count' = write_lock_count
      /\ read' = read /\ write' = write /\ type' = type
  BY DEF thr_lock_delayed, counts, QueueDelayed
<1>3. /\ d \in Data /\ l \in Lock /\ thread[d] = t /\ ~ Listed(d)
      /\ \A m \in Lock : /\ d \notin read[m] /\ d \notin Range(read_wait[m])
                         /\ d \notin Range(write[m]) /\ d \notin Range(write_wait[m])
  BY <1>2, ToLockFacts
<1>4. t \in Handler  BY <1>1, <1>2, <1>3 DEF OwnTypes
<1>5. Lists(l, read[l], Range(read_wait[l]), Range(write[l]), Range(write_wait[l]) \cup {d})
  BY <1>1, LockDelayedLists
<1>6. \A x \in Data : /\ Listed(x)' <=> Listed(x) \/ x = d
                      /\ Waiting(x)' <=> Waiting(x) \/ x = d
  BY <1>3, <1>5, ListsListed DEF Listed, Waiting, Active
<1>. HIDE DEF d
<1>7. /\ plan' \in [Thread -> Seq(Data)] /\ pos' \in [Thread -> Nat \ {0}]
      /\ pc' \in [Thread -> PC] /\ Control' /\ Planned'
  <2>1. \A x \in Data : IF x = This(t) THEN Listed(x)' /\ type'[x] # TL_UNLOCK
                        ELSE (Listed(x)' <=> Listed(x)) /\ type'[x] = type[x]
    BY <1>2, <1>6 DEF d
  <2>. QED  BY <1>2, <2>1, LockedLoop
<1>8. TypeOK'
  <2>1. cond' \in [Data -> BOOLEAN]  BY <1>1, <1>2 DEF TypeOK
  <2>. QED  BY <1>1, <1>2, <1>5, <1>7, <2>1 DEF TypeOK, Lists
<1>9. Placed'
  <2>1. \A x \in Data : cond'[x] <=> cond[x] \/ x = d  BY <1>1, <1>2 DEF TypeOK
  <2>2. \A m \in Lock : /\ Range(read_wait'[m]) = Range(read_wait[m])
                        /\ \A x \in Range(write_wait'[m]) :
                             x \in Range(write_wait[m]) \/ (x = d /\ m = l)
    BY <1>5 DEF Lists
  <2>. QED  BY <1>1, <1>2, <1>3, <2>1, <2>2 DEF Placed
<1>10. Queued'
  <2>1. \A u \in Thread \ {t} : pc'[u] = pc[u] /\ pos'[u] = pos[u] /\ plan'[u] = plan[u]
    BY <1>1, <1>2 DEF Locked, TypeOK
  <2>2. \A x \in Data : Waiting(x)' =>
          \/ Waiting(x) /\ thread[x] # t /\ type'[x] = type[x]
          \/ thread[x] \in Handler /\ type'[x] \in WriteType
    BY <1>2, <1>3, <1>4, <1>6, NotQueued
  <2>. QED  BY <1>2, <2>1, <2>2, QueuedKept
<1>11. OwnTypes'  BY <1>1, <1>2 DEF OwnTypes
<1>12. SharedWrites' /\ ReadersAdmitted' /\ NoInsertCount'
  BY <1>2, GrantedKept
<1>. QED  BY <1>7, <1>8, <1>9, <1>10, <1>11, <1>12 DEF IInv

LEMMA LockWaitIInv ==
  ASSUME IInv, NEW t \in Thread, thr_lock_wait(t)
  PROVE  IInv'
<1>. DEFINE d == This(t)  l == LockOf[d]
<1>1. TypeOK /\ Placed /\ Control /\ Planned /\ OwnTypes  BY DEF IInv
<1>2. /\ pc[t] = "lock"
      /\ read_no_write_count' = read_no_write_count
      /\ cond' = [cond EXCEPT ![d] = TRUE]
      /\ pc' = [pc EXCEPT ![t] = "wait"]
      /\ plan' = plan /\ pos' = pos /\ thread' = thread /\ abort' = abort
      /\ write_lock_count' = write_lock_count
      /\ read' = read /\ write' = write
  BY DEF thr_lock_wait, counts
<1>3. /\ d \in Data /\ l \in Lock /\ thread[d] = t /\ ~ Listed(d)
      /\ type[d] \in ReadType \cup WriteType
      /\ \A m \in Lock : /\ d \notin read[m] /\ d \notin Range(read_wait[m])
                         /\ d \notin Range(write[m]) /\ d \notin Range(write_wait[m])
  BY <1>2, ToLockFacts
<1>4. PICK ty \in ReadType \cup WriteType :
        /\ type' = [type EXCEPT ![d] = ty]
        /\ ty \in ReadType <=> IsRead(d)
        /\ ~ IsRead(d) => type[d] \in WriteType
        /\ \/ ty = type[d]
           \/ /\ type[d] = TL_WRITE_CONCURRENT_INSERT
              /\ ty \in {TL_WRITE, TL_WRITE_LOW_PRIORITY}
              /\ t \notin Handler
  <2>1. CASE IsRead(d)
    <3>1. type' = type /\ type[d] \in ReadType
      BY <1>3, <2>1 DEF thr_lock_wait, IsRead
    <3>2. type' = [type EXCEPT ![d] = type[d]]  BY <1>1, <3>1 DEF TypeOK
    <3>. QED  BY <2>1, <3>1, <3>2
  <2>2. CASE ~ IsRead(d)
    <3>1. PICK hole \in BOOLEAN : type' = [type EXCEPT ![d] = EffectiveType(d, hole)]
      BY <2>2 DEF thr_lock_wait
    <3>2. /\ type[d] \in WriteType /\ EffectiveType(d, hole) \in WriteType
          /\ \/ EffectiveType(d, hole) = type[d]
             \/ /\ type[d] = TL_WRITE_CONCURRENT_INSERT
                /\ EffectiveType(d, hole) \in {TL_WRITE, TL_WRITE_LOW_PRIORITY}
                /\ t \notin Handler
      BY <1>2, <2>2, EffectiveTypeFacts
    <3>3. EffectiveType(d, hole) \in ReadType \cup WriteType
          /\ EffectiveType(d, hole) \notin ReadType
      BY <3>2
    <3>. QED  BY <2>2, <3>1, <3>2, <3>3
  <2>. QED  BY <2>1, <2>2
<1>5. IF IsRead(d)
      THEN Lists(l, read[l], Range(read_wait[l]) \cup {d}, Range(write[l]),
                 Range(write_wait[l]))
      ELSE Lists(l, read[l], Range(read_wait[l]), Range(write[l]),
                 Range(write_wait[l]) \cup {d})
  BY <1>1, LockWaitLists
<1>6. \A x \in Data : /\ Listed(x)' <=> Listed(x) \/ x = d
                      /\ Waiting(x)' <=> Waiting(x) \/ x = d
  <2>1. CASE IsRead(d)  BY <1>3, <1>5, <2>1, ListsListed DEF Listed, Waiting, Active
  <2>2. CASE ~ IsRead(d)  BY <1>3, <1>5, <2>2, ListsListed DEF Listed, Waiting, Active
  <2>. QED  BY <2>1, <2>2
<1>7. type'[d] = ty /\ \A x \in Data \ {d} : type'[x] = type[x]
  BY <1>1, <1>3, <1>4 DEF TypeOK
<1>8. OwnTypes'
  <2>1. \A x \in Data : \/ type'[x] = type[x]
                       \/ /\ type[x] = TL_WRITE_CONCURRENT_INSERT
                          /\ type'[x] \in {TL_WRITE, TL_WRITE_LOW_PRIORITY}
    BY <1>4, <1>7
  <2>. QED  BY <1>2, <2>1, OwnTypesKept
<1>. HIDE DEF d
<1>9. Planned'
  <2>1. pos[t] \in DOMAIN plan[t]  BY <1>1, <1>2 DEF Control
  <2>2. \A i \in DOMAIN plan[t] : i \in Nat /\ pos[t] \in Nat  BY <1>1 DEF TypeOK
  <2>3. pc'[t] = "wait" /\ \A u \in Thread \ {t} : pc'[u] = pc[u]  BY <1>1, <1>2 DEF TypeOK
  <2>4. \A i \in DOMAIN plan[t] :
          /\ i # pos[t] => (ToLock(t, i)' <=> ToLock(t, i))
          /\ ~ Unlocked(t, i) /\ ~ Unlocked(t, i)'
          /\ i = pos[t] => ~ ToLock(t, i)'
    BY <1>2, <2>2, <2>3 DEF ToLock, Unlocked
  <2>5. \A x \in Data : x # This(t) =>
           /\ Listed(x)' <=> Listed(x)
           /\ type'[x] = TL_UNLOCK <=> type[x] = TL_UNLOCK
           /\ ~ Listed(x) => type'[x] = type[x]
    BY <1>6, <1>7 DEF d
  <2>6. \A x \in Data : x = This(t) => Listed(x)' /\ type'[x] # TL_UNLOCK
    BY <1>6, <1>7 DEF d
  <2>. QED  BY <1>2, <2>1, <2>3, <2>4, <2>5, <2>6, PlanKept
<1>10. TypeOK'
  <2>1. type' \in [Data -> LockType]
    <3>1. ty \in LockType /\ type \in [Data -> LockType]  BY <1>1 DEF TypeOK
    <3>. QED  BY <1>4, <3>1
  <2>2. cond' \in [Data -> BOOLEAN] /\ pc' \in [Thread -> PC]
    BY <1>1, <1>2 DEF TypeOK, PC
  <2>. QED  BY <1>1, <1>2, <1>5, <2>1, <2>2 DEF TypeOK, Lists
<1>11. Control'
  <2>1. \A u \in Thread \ {t} : pc'[u] = pc[u]  BY <1>1, <1>2 DEF TypeOK
  <2>2. pc'[t] = "wait"  BY <1>1, <1>2 DEF TypeOK
  <2>3. ASSUME NEW u \in Thread \ {t}
        PROVE  /\ pc'[u] = "idle" => plan'[u] = <<>> /\ \A x \in Data : thread'[x] # u
               /\ pc'[u] \in {"lock", "wait"} => pos'[u] \in DOMAIN plan'[u]
               /\ pc'[u] \notin {"lock", "wait", "unlock"} => pos'[u] = 1
               /\ pc'[u] \in {"upgrade", "reupgrade", "reschedule", "insert"} => u \in Handler
               /\ u \in Handler /\ pc'[u] \notin {"idle", "unlock"} => Len(plan'[u]) = 1
               /\ IsInjective(plan'[u])
    BY <1>1, <1>2, <2>1 DEF Control
  <2>4. /\ pos'[t] \in DOMAIN plan'[t] /\ IsInjective(plan'[t])
        /\ t \in Handler => Len(plan'[t]) = 1
    BY <1>1, <1>2 DEF Control
  <2>. QED  BY <2>2, <2>3, <2>4 DEF Control
<1>12. Placed'
  <2>1. \A x \in Data : cond'[x] <=> cond[x] \/ x = d  BY <1>1, <1>2 DEF TypeOK
  <2>2. \A m \in Lock :
          /\ \A x \in Range(read_wait'[m]) :
               x \in Range(read_wait[m]) \/ (x = d /\ m = l /\ ty \in ReadType)
          /\ \A x \in Range(write_wait'[m]) :
               x \in Range(write_wait[m]) \/ (x = d /\ m = l /\ ty \in WriteType)
    <3>1. \A m \in Lock \ {l} : read_wait'[m] = read_wait[m] /\ write_wait'[m] = write_wait[m]
      BY <1>5 DEF Lists
    <3>2. CASE IsRead(d)
      <4>1. /\ Range(read_wait'[l]) = Range(read_wait[l]) \cup {d}
            /\ Range(write_wait'[l]) = Range(write_wait[l])
        BY <1>5, <3>2 DEF Lists
      <4>2. ty \in ReadType  BY <1>4, <3>2
      <4>. QED  BY <3>1, <4>1, <4>2
    <3>3. CASE ~ IsRead(d)
      <4>1. /\ Range(read_wait'[l]) = Range(read_wait[l])
            /\ Range(write_wait'[l]) = Range(write_wait[l]) \cup {d}
        BY <1>5, <3>3 DEF Lists
      <4>2. ty \in WriteType  BY <1>4, <3>3
      <4>. QED  BY <3>1, <4>1, <4>2
    <3>. QED  BY <3>2, <3>3
  <2>3. \A m \in Lock : \A x \in read'[m] \cup Range(write'[m]) :
          x \in Data => x # d /\ type'[x] = type[x]
    BY <1>2, <1>3, <1>7
  <2>4. \A m \in Lock : \A x \in Range(read_wait[m]) \cup Range(write_wait[m]) :
          x \in Data => x # d /\ type'[x] = type[x]
    BY <1>3, <1>7
  <2>5. \A m \in Lock, x \in Data :
          /\ x \in read'[m] => LockOf[x] = m /\ type'[x] \in ReadType /\ ~ cond'[x]
          /\ x \in Range(write'[m]) =>
               LockOf[x] = m /\ type'[x] \in WriteType \cup {TL_WRITE_ONLY} /\ ~ cond'[x]
    BY <1>1, <1>2, <2>1, <2>3 DEF Placed
  <2>6. \A m \in Lock, x \in Data : x \in Range(read_wait'[m]) =>
          LockOf[x] = m /\ type'[x] \in ReadType /\ cond'[x]
    BY <1>1, <1>7, <2>1, <2>2, <2>4 DEF Placed
  <2>7. \A m \in Lock, x \in Data : x \in Range(write_wait'[m]) =>
          LockOf[x] = m /\ type'[x] \in WriteType /\ cond'[x]
    BY <1>1, <1>7, <2>1, <2>2, <2>4 DEF Placed
  <2>. QED  BY <2>5, <2>6, <2>7 DEF Placed
<1>13. Queued'
  <2>1. \A u \in Thread \ {t} : pc'[u] = pc[u] /\ pos'[u] = pos[u] /\ plan'[u] = plan[u]
    BY <1>1, <1>2 DEF TypeOK
  <2>2. \A x \in Data : Waiting(x)' =>
          \/ Waiting(x) /\ thread[x] # t /\ type'[x] = type[x]
          \/ thread[x] \in Handler /\ type'[x] \in WriteType
          \/ thread[x] = t /\ pc'[t] = "wait" /\ x = plan'[t][pos'[t]]
    <3>1. pc'[t] = "wait" /\ d = plan'[t][pos'[t]]  BY <1>1, <1>2 DEF TypeOK, d, This
    <3>2. \A x \in Data : Waiting(x) => x # d  BY <1>3 DEF Waiting
    <3>. QED  BY <1>2, <1>3, <1>6, <1>7, <3>1, <3>2, NotQueued
  <2>. QED  BY <1>2, <2>1, <2>2, QueuedKept
<1>14. SharedWrites' /\ ReadersAdmitted' /\ NoInsertCount'
  <2>1. \A m \in Lock : read[m] \subseteq Data /\ Range(write[m]) \subseteq Data
    BY <1>1, HeadFacts DEF TypeOK
  <2>2. \A m \in Lock : /\ \A x \in read[m] : type'[x] = type[x]
                        /\ \A x \in Range(write[m]) : type'[x] = type[x]
    BY <1>3, <1>7, <2>1
  <2>. QED  BY <1>2, <2>2, GrantedKept
<1>. QED  BY <1>8, <1>9, <1>10, <1>11, <1>12, <1>13, <1>14 DEF IInv

LEMMA LockRefusedIInv ==
  ASSUME IInv, NEW t \in Thread, thr_lock_refused(t)
  PROVE  IInv'
<1>. DEFINE d == This(t)
<1>1. TypeOK /\ Placed /\ Control /\ Planned  BY DEF IInv
<1>2. /\ pc[t] = "lock"
      /\ type' = [type EXCEPT ![d] = TL_UNLOCK]
      /\ cond' = [cond EXCEPT ![d] = ~ WriteOnlyActive(LockOf[d])]
      /\ Failed(t)
      /\ read' = read /\ read_wait' = read_wait /\ write' = write
      /\ write_wait' = write_wait /\ thread' = thread /\ abort' = abort
      /\ read_no_write_count' = read_no_write_count
      /\ write_lock_count' = write_lock_count
  BY DEF thr_lock_refused, lists, counts
<1>3. /\ d \in Data /\ thread[d] = t /\ ~ Listed(d)
      /\ \A m \in Lock : /\ d \notin read[m] /\ d \notin Range(read_wait[m])
                         /\ d \notin Range(write[m]) /\ d \notin Range(write_wait[m])
  BY <1>2, ToLockFacts
<1>4. \A x \in Data : /\ Listed(x)' <=> Listed(x)
                      /\ Waiting(x)' <=> Waiting(x)
                      /\ Waiting(x) => x # d
  BY <1>2, <1>3 DEF Listed, Waiting, Active
<1>5. \A x \in Data \ {d} : type'[x] = type[x] /\ cond'[x] = cond[x]
  BY <1>1, <1>2 DEF TypeOK
<1>6. \A m \in Lock : /\ read[m] \subseteq Data \ {d}
                      /\ Range(write[m]) \subseteq Data \ {d}
  BY <1>1, <1>3, HeadFacts DEF TypeOK
<1>. HIDE DEF d
<1>7. /\ plan' \in [Thread -> Seq(Data)] /\ pos' \in [Thread -> Nat \ {0}]
      /\ pc' \in [Thread -> PC] /\ Control' /\ Planned'
  <2>1. \A x \in Data : IF x = This(t) THEN ~ Listed(x)'
                        ELSE (Listed(x)' <=> Listed(x)) /\ type'[x] = type[x]
    BY <1>3, <1>4, <1>5 DEF d
  <2>. QED  BY <1>2, <2>1, FailedLoop
<1>8. TypeOK'
  <2>1. type' \in [Data -> LockType]
    <3>1. type \in [Data -> LockType] /\ TL_UNLOCK \in LockType  BY <1>1 DEF TypeOK
    <3>. QED  BY <1>2, <3>1
  <2>2. cond' \in [Data -> BOOLEAN]
    <3>1. (~ WriteOnlyActive(LockOf[d])) \in BOOLEAN  BY DEF WriteOnlyActive
    <3>. QED  BY <1>1, <1>2, <3>1 DEF TypeOK
  <2>. QED  BY <1>1, <1>2, <1>7, <2>1, <2>2 DEF TypeOK
<1>9. Placed'  BY <1>1, <1>2, <1>3, <1>5 DEF Placed
<1>10. Queued'
  <2>1. \A u \in Thread \ {t} : pc'[u] = pc[u] /\ pos'[u] = pos[u] /\ plan'[u] = plan[u]
    BY <1>1, <1>2 DEF Failed, TypeOK
  <2>2. \A x \in Data : Waiting(x)' =>
          \/ Waiting(x) /\ thread[x] # t /\ type'[x] = type[x]
          \/ thread[x] \in Handler /\ type'[x] \in WriteType
    BY <1>2, <1>4, <1>5, NotQueued
  <2>. QED  BY <1>2, <2>1, <2>2, QueuedKept
<1>11. OwnTypes'
  <2>1. \A x \in Data : type'[x] \in {type[x], TL_UNLOCK, TL_WRITE_ONLY}
    BY <1>1, <1>2 DEF TypeOK
  <2>. QED  BY <1>2, <2>1, OwnTypesKept
<1>12. SharedWrites' /\ ReadersAdmitted' /\ NoInsertCount'
  BY <1>2, <1>5, <1>6, GrantedKept
<1>. QED  BY <1>7, <1>8, <1>9, <1>10, <1>11, <1>12 DEF IInv

LEMMA WaitKilledIInv ==
  ASSUME IInv, NEW t \in Thread, wait_killed(t)
  PROVE  IInv'
<1>. DEFINE d == This(t)  l == LockOf[d]
<1>1. TypeOK /\ Placed /\ Control /\ Planned /\ Queued  BY DEF IInv
<1>2. /\ pc[t] = "wait" /\ cond[d]
      /\ type' = [type EXCEPT ![d] = TL_UNLOCK]
      /\ Failed(t) /\ cond' = cond
      /\ read' = read /\ write' = write /\ thread' = thread /\ abort' = abort
      /\ read_no_write_count' = read_no_write_count
      /\ write_lock_count' = write_lock_count
  BY DEF wait_killed, counts
<1>3. d \in Data /\ l \in Lock  BY <1>1, <1>2, ThisFacts
<1>4. \A m \in Lock : d \notin read[m] /\ d \notin Range(write[m])
  BY <1>1, <1>2, <1>3 DEF Placed
<1>5. Lists(l, read[l], Range(read_wait[l]) \ {d}, Range(write[l]),
            Range(write_wait[l]) \ {d})
  BY <1>1, KilledLists
<1>6. \A x \in Data : /\ Listed(x)' <=> Listed(x) /\ x # d
                      /\ Waiting(x)' <=> Waiting(x) /\ x # d
  BY <1>3, <1>4, <1>5, ListsListed DEF Listed, Waiting, Active
<1>7. \A x \in Data \ {d} : type'[x] = type[x]
  BY <1>1, <1>2 DEF TypeOK
<1>8. \A m \in Lock : /\ read[m] \subseteq Data \ {d}
                      /\ Range(write[m]) \subseteq Data \ {d}
  BY <1>1, <1>4, HeadFacts DEF TypeOK
<1>. HIDE DEF d
<1>9. /\ plan' \in [Thread -> Seq(Data)] /\ pos' \in [Thread -> Nat \ {0}]
      /\ pc' \in [Thread -> PC] /\ Control' /\ Planned'
  <2>1. \A x \in Data : IF x = This(t) THEN ~ Listed(x)'
                        ELSE (Listed(x)' <=> Listed(x)) /\ type'[x] = type[x]
    BY <1>6, <1>7 DEF d
  <2>. QED  BY <1>2, <2>1, FailedLoop
<1>10. TypeOK'
  <2>1. type' \in [Data -> LockType]
    <3>1. type \in [Data -> LockType] /\ TL_UNLOCK \in LockType  BY <1>1 DEF TypeOK
    <3>. QED  BY <1>2, <3>1
  <2>. QED  BY <1>1, <1>2, <1>5, <1>9, <2>1 DEF TypeOK, Lists
<1>11. Placed'
  <2>1. \A m \in Lock :
          /\ \A x \in Range(read_wait'[m]) : x \in Range(read_wait[m])
          /\ \A x \in Range(write_wait'[m]) : x \in Range(write_wait[m])
          /\ m = l => d \notin Range(read_wait'[m]) /\ d \notin Range(write_wait'[m])
    BY <1>5 DEF Lists
  <2>2. \A m \in Lock : d \notin Range(read_wait'[m]) /\ d \notin Range(write_wait'[m])
    BY <1>1, <1>3, <2>1 DEF Placed
  <2>. QED  BY <1>1, <1>2, <1>4, <1>7, <2>1, <2>2 DEF Placed
<1>12. Queued'
  <2>1. \A u \in Thread \ {t} : pc'[u] = pc[u] /\ pos'[u] = pos[u] /\ plan'[u] = plan[u]
    BY <1>1, <1>2 DEF Failed, TypeOK
  <2>2. \A x \in Data : Waiting(x)' =>
          \/ Waiting(x) /\ thread[x] # t /\ type'[x] = type[x]
          \/ thread[x] \in Handler /\ type'[x] \in WriteType
    BY <1>1, <1>6, <1>7 DEF Queued, d
  <2>. QED  BY <1>2, <2>1, <2>2, QueuedKept
<1>13. OwnTypes'
  <2>1. \A x \in Data : type'[x] \in {type[x], TL_UNLOCK, TL_WRITE_ONLY}
    BY <1>1, <1>2 DEF TypeOK
  <2>. QED  BY <1>2, <2>1, OwnTypesKept
<1>14. SharedWrites' /\ ReadersAdmitted' /\ NoInsertCount'
  BY <1>2, <1>7, <1>8, GrantedKept
<1>. QED  BY <1>9, <1>10, <1>11, <1>12, <1>13, <1>14 DEF IInv

-----------------------------------------------------------------------------
(* thr_unlock *)
LEMMA UnlockIInv ==
  ASSUME IInv, NEW t \in Thread, thr_unlock(t)
  PROVE  IInv'
<1>1. TypeOK /\ Placed /\ Control /\ Planned /\ OwnTypes /\ SharedWrites
      /\ NoInsertCount /\ ReadersAdmitted
  BY DEF IInv
<1>2. /\ pc[t] = "unlock" /\ pos[t] <= Len(plan[t]) /\ type[This(t)] # TL_UNLOCK
      /\ pos' = [pos EXCEPT ![t] = pos[t] + 1]
      /\ plan' = plan /\ pc' = pc /\ abort' = abort /\ thread' = thread
  BY DEF thr_unlock
<1>3. PICK d \in Data : d = This(t)  BY <1>1, <1>2, ThisFacts
<1>4. PICK l \in Lock : l = LockOf[d]  BY <1>3, Constants
<1>5. PICK W \in SUBSET Data, R \in SUBSET Data, n \in 0 .. MaxWriteLockCount + 1 :
        LetsIn(d, W, R, n) /\ Unlocks(d, W, R)
  BY <1>3, UnlockLists
<1>6. /\ thread[d] = t /\ Listed(d) /\ d \notin Range(read_wait[l])
      /\ type[d] \in ReadType <=> d \in read[l]
  BY <1>2, <1>3, <1>4, UnlockListed
<1>7. /\ Lists(l, (read[l] \ {d}) \cup R, Range(read_wait[l]) \ R,
               (Range(write[l]) \ {d}) \cup W, Range(write_wait[l]) \ (W \cup {d}))
      /\ cond' = [x \in Data |-> cond[x] /\ x \notin W \cup R]
      /\ write_lock_count' \in [Lock -> 0 .. MaxWriteLockCount + 1]
      /\ read_no_write_count' \in [Lock -> Nat]
      /\ read_no_write_count'[l] =
           Cardinality(OfType(read[l] \ {d}, TL_READ_NO_INSERT))
             + Cardinality(OfType(R, TL_READ_NO_INSERT))
      /\ NoInsertBlocks(d) = Cardinality(OfType(read[l] \ {d}, TL_READ_NO_INSERT))
      /\ \A m \in Lock \ {l} : read_no_write_count'[m] = read_no_write_count[m]
  BY <1>4, <1>5 DEF Unlocks
<1>8. /\ W \in SUBSET (Range(write_wait[l]) \ {d})
      /\ R \in SUBSET Range(read_wait[l])
      /\ \/ type' = [type EXCEPT ![d] = TL_UNLOCK]
         \/ \E h \in Range(write_wait[l]) \ {d} :
              /\ type[h] = TL_WRITE_CONCURRENT_INSERT
              /\ type' = [type EXCEPT ![d] = TL_UNLOCK, ![h] = TL_WRITE]
      /\ W \cup R # {} => Range(write[l]) \ {d} = {}
      /\ \A a, b \in W : a # b => /\ type[a] = TL_WRITE_ALLOW_WRITE
                                  /\ type[b] = TL_WRITE_ALLOW_WRITE
      /\ \A w \in W, r \in R :
           /\ type'[w] \in TL_WRITE_ALLOW_WRITE .. TL_WRITE_DELAYED
           /\ type[r] = TL_READ_NO_INSERT => type'[w] # TL_WRITE_CONCURRENT_INSERT
      /\ \A w \in W : read[l] \ {d} # {} =>
           /\ type'[w] \in TL_WRITE_ALLOW_WRITE .. TL_WRITE_DELAYED
           /\ type'[w] = TL_WRITE_CONCURRENT_INSERT => NoInsertBlocks(d) = 0
  BY <1>4, <1>5 DEF LetsIn, NeedsNoInsertBlock
<1>9. \A m \in Lock : /\ read[m] \subseteq Data /\ Range(read_wait[m]) \subseteq Data
                      /\ Range(write[m]) \subseteq Data
                      /\ Range(write_wait[m]) \subseteq Data
  BY <1>1, HeadFacts DEF TypeOK
<1>10. type' \in [Data -> LockType] /\ type'[d] = TL_UNLOCK
  <2>1. /\ type \in [Data -> LockType] /\ TL_UNLOCK \in LockType /\ TL_WRITE \in LockType
    BY <1>1 DEF TypeOK
  <2>2. CASE type' = [type EXCEPT ![d] = TL_UNLOCK]  BY <2>1, <2>2
  <2>3. ASSUME NEW h \in Range(write_wait[l]) \ {d},
               type' = [type EXCEPT ![d] = TL_UNLOCK, ![h] = TL_WRITE]
        PROVE  type' \in [Data -> LockType] /\ type'[d] = TL_UNLOCK
    BY <2>1, <2>3
  <2>. QED  BY <1>8, <2>2, <2>3
<1>11. \A x \in Data \ {d} :
         \/ type'[x] = type[x]
         \/ /\ x \in Range(write_wait[l])
            /\ type[x] = TL_WRITE_CONCURRENT_INSERT /\ type'[x] = TL_WRITE
  <2>1. type \in [Data -> LockType]  BY <1>1 DEF TypeOK
  <2>. QED  BY <1>8, <1>9, <2>1
<1>12. /\ \A m \in Lock \ {l} :
            /\ read'[m] = read[m] /\ Range(read_wait'[m]) = Range(read_wait[m])
            /\ Range(write'[m]) = Range(write[m])
            /\ Range(write_wait'[m]) = Range(write_wait[m])
       /\ read'[l] = (read[l] \ {d}) \cup R
       /\ Range(read_wait'[l]) = Range(read_wait[l]) \ R
       /\ Range(write'[l]) = (Range(write[l]) \ {d}) \cup W
       /\ Range(write_wait'[l]) = Range(write_wait[l]) \ (W \cup {d})
  BY <1>7 DEF Lists
<1>13. \A x \in Data : /\ Listed(x)' <=> Listed(x) /\ x # d
                       /\ Waiting(x)' => Waiting(x) /\ x # d
  <2>1. ASSUME NEW x \in Data, LockOf[x] = l
        PROVE  /\ Listed(x)' <=> Listed(x) /\ x # d
               /\ Waiting(x)' => Waiting(x) /\ x # d
    BY <1>6, <1>8, <1>12, <2>1 DEF Listed, Waiting, Active
  <2>2. ASSUME NEW x \in Data, LockOf[x] # l
        PROVE  /\ Listed(x)' <=> Listed(x) /\ x # d
               /\ Waiting(x)' => Waiting(x) /\ x # d
    BY <1>4, <1>7, <2>2, ListsListed
  <2>. QED  BY <2>1, <2>2
<1>14. /\ \A m \in Lock : \A x \in read[m] \ {d} : type'[x] = type[x] /\ ~ cond'[x]
       /\ \A m \in Lock : \A x \in Range(write[m]) \ {d} : type'[x] = type[x] /\ ~ cond'[x]
       /\ \A x \in R : type'[x] = type[x] /\ ~ cond'[x] /\ type[x] \in ReadType
                       /\ x \notin read[l] /\ x # d
       /\ \A x \in W : type[x] \in WriteType /\ type'[x] \in WriteType /\ ~ cond'[x]
                       /\ x # d
  <2>1. \A x \in Data : (cond'[x] <=> cond[x] /\ x \notin W /\ x \notin R)  BY <1>7
  <2>2. \A m \in Lock : /\ \A x \in read[m] : x \in Data /\ type[x] \in ReadType /\ ~ cond[x]
                        /\ \A x \in Range(write[m]) : x \in Data /\ ~ cond[x]
                             /\ type[x] \in WriteType \cup {TL_WRITE_ONLY}
                        /\ \A x \in Range(read_wait[m]) :
                             x \in Data /\ type[x] \in ReadType /\ cond[x]
                        /\ \A x \in Range(write_wait[m]) :
                             x \in Data /\ type[x] \in WriteType /\ cond[x]
    BY <1>1, <1>9 DEF Placed
  <2>3. \A x \in Data \ {d} : ~ cond[x] \/ type[x] \in ReadType => type'[x] = type[x]
    BY <1>11, <2>2
  <2>4. \A m \in Lock : \A x \in read[m] \ {d} : type'[x] = type[x] /\ ~ cond'[x]
    BY <2>1, <2>2, <2>3
  <2>5. \A m \in Lock : \A x \in Range(write[m]) \ {d} : type'[x] = type[x] /\ ~ cond'[x]
    BY <2>1, <2>2, <2>3
  <2>6. \A x \in R : type'[x] = type[x] /\ ~ cond'[x] /\ type[x] \in ReadType
                     /\ x \notin read[l] /\ x # d
    BY <1>6, <1>8, <2>1, <2>2, <2>3
  <2>7. \A x \in W : type[x] \in WriteType /\ type'[x] \in WriteType /\ ~ cond'[x]
                     /\ x # d
    BY <1>8, <1>11, <2>1, <2>2
  <2>. QED  BY <2>4, <2>5, <2>6, <2>7
<1>15. Control'
  <2>1. /\ \A u \in Thread \ {t} : pos'[u] = pos[u]
        /\ pc[t] = "unlock"
    BY <1>1, <1>2 DEF TypeOK
  <2>2. ASSUME NEW u \in Thread
        PROVE  /\ pc'[u] = "idle" => plan'[u] = <<>> /\ \A x \in Data : thread'[x] # u
               /\ pc'[u] \in {"lock", "wait"} => pos'[u] \in DOMAIN plan'[u]
               /\ pc'[u] \notin {"lock", "wait", "unlock"} => pos'[u] = 1
               /\ pc'[u] \in {"upgrade", "reupgrade", "reschedule", "insert"} => u \in Handler
               /\ u \in Handler /\ pc'[u] \notin {"idle", "unlock"} => Len(plan'[u]) = 1
               /\ IsInjective(plan'[u])
    BY <1>1, <1>2, <2>1 DEF Control
  <2>. QED  BY <2>2 DEF Control
<1>16. TypeOK'
  <2>1. pos' \in [Thread -> Nat \ {0}]  BY <1>1, <1>2 DEF TypeOK
  <2>2. cond' \in [Data -> BOOLEAN]
    <3>1. \A x \in Data : cond[x] \in BOOLEAN  BY <1>1 DEF TypeOK
    <3>. QED  BY <1>7, <3>1
  <2>3. /\ read' \in [Lock -> SUBSET Data] /\ read_wait' \in [Lock -> Seq(Data)]
        /\ write' \in [Lock -> Seq(Data)] /\ write_wait' \in [Lock -> Seq(Data)]
    BY <1>7 DEF Lists
  <2>. QED  BY <1>1, <1>2, <1>7, <1>10, <2>1, <2>2, <2>3 DEF TypeOK
<1>17. Planned'
  <2>1. pos[t] \in DOMAIN plan[t] /\ \A i \in DOMAIN plan[t] : i \in Nat /\ pos[t] \in Nat
    BY <1>1, <1>2 DEF TypeOK
  <2>2. pos'[t] = pos[t] + 1 /\ \A u \in Thread \ {t} : pos'[u] = pos[u]
    BY <1>1, <1>2 DEF TypeOK
  <2>3. \A i \in DOMAIN plan[t] :
          /\ ~ ToLock(t, i) /\ ~ ToLock(t, i)'
          /\ i # pos[t] => (Unlocked(t, i)' <=> Unlocked(t, i))
          /\ i = pos[t] => Unlocked(t, i)'
    BY <1>2, <2>1, <2>2 DEF ToLock, Unlocked
  <2>4. \A x \in Data : x # This(t) =>
           /\ Listed(x)' <=> Listed(x)
           /\ type'[x] = TL_UNLOCK <=> type[x] = TL_UNLOCK
           /\ ~ Listed(x) => type'[x] = type[x]
    <3>1. \A x \in Data : x \in Range(write_wait[l]) => Listed(x)
      BY <1>1 DEF Placed, Listed
    <3>. QED  BY <1>3, <1>11, <1>13, <3>1
  <2>5. \A x \in Data : x = This(t) => ~ Listed(x)'  BY <1>3, <1>13
  <2>. QED  BY <1>2, <2>1, <2>2, <2>3, <2>4, <2>5, PlanKept
<1>18. Queued'
  <2>1. \A u \in Thread \ {t} : pc'[u] = pc[u] /\ pos'[u] = pos[u] /\ plan'[u] = plan[u]
    BY <1>1, <1>2 DEF TypeOK
  <2>2. \A x \in Data : Waiting(x)' =>
          \/ /\ Waiting(x) /\ thread[x] # t
             /\ type[x] \in WriteType => type'[x] \in WriteType
          \/ thread[x] \in Handler /\ type'[x] \in WriteType
    BY <1>2, <1>11, <1>13, NotQueued
  <2>. QED  BY <1>2, <2>1, <2>2, QueuedKept
<1>19. OwnTypes'
  <2>1. \A x \in Data : \/ type'[x] \in {type[x], TL_UNLOCK, TL_WRITE_ONLY}
                        \/ /\ type[x] = TL_WRITE_CONCURRENT_INSERT
                           /\ type'[x] \in {TL_WRITE, TL_WRITE_LOW_PRIORITY}
    BY <1>10, <1>11
  <2>. QED  BY <1>2, <2>1, OwnTypesKept
<1>20. Placed'
  <2>1. ASSUME NEW x \in Data
        PROVE  /\ x \in read'[l] =>
                    LockOf[x] = l /\ type'[x] \in ReadType /\ ~ cond'[x]
               /\ x \in Range(read_wait'[l]) =>
                    LockOf[x] = l /\ type'[x] \in ReadType /\ cond'[x]
               /\ x \in Range(write'[l]) =>
                    LockOf[x] = l /\ type'[x] \in WriteType \cup {TL_WRITE_ONLY} /\ ~ cond'[x]
               /\ x \in Range(write_wait'[l]) =>
                    LockOf[x] = l /\ type'[x] \in WriteType /\ cond'[x]
    <3>1. /\ x \in read[l] => LockOf[x] = l /\ type[x] \in ReadType /\ ~ cond[x]
          /\ x \in Range(read_wait[l]) => LockOf[x] = l /\ type[x] \in ReadType /\ cond[x]
          /\ x \in Range(write[l]) => LockOf[x] = l
               /\ type[x] \in WriteType \cup {TL_WRITE_ONLY} /\ ~ cond[x]
          /\ x \in Range(write_wait[l]) => LockOf[x] = l /\ type[x] \in WriteType /\ cond[x]
      BY <1>1 DEF Placed
    <3>6. cond'[x] <=> cond[x] /\ x \notin W /\ x \notin R  BY <1>7
    <3>7. /\ x \in Range(read_wait[l]) => x \notin Range(write_wait[l]) /\ x # d
          /\ x \in Range(write_wait[l]) => x \notin Range(read_wait[l])
      BY <1>6, <3>1
    <3>2. x \in read'[l] => LockOf[x] = l /\ type'[x] \in ReadType /\ ~ cond'[x]
      BY <1>8, <1>12, <1>14, <3>1
    <3>3. x \in Range(read_wait'[l]) => LockOf[x] = l /\ type'[x] \in ReadType /\ cond'[x]
      <4>1. SUFFICES ASSUME x \in Range(read_wait'[l])
                     PROVE  LockOf[x] = l /\ type'[x] \in ReadType /\ cond'[x]
        OBVIOUS
      <4>2. x \in Range(read_wait[l]) /\ x \notin R /\ x \notin W
        BY <1>8, <1>12, <3>7, <4>1
      <4>3. type'[x] = type[x]  BY <1>11, <3>7, <4>2
      <4>. QED  BY <3>1, <3>6, <4>2, <4>3
    <3>4. x \in Range(write'[l]) =>
            LockOf[x] = l /\ type'[x] \in WriteType \cup {TL_WRITE_ONLY} /\ ~ cond'[x]
      BY <1>8, <1>12, <1>14, <3>1
    <3>5. x \in Range(write_wait'[l]) => LockOf[x] = l /\ type'[x] \in WriteType /\ cond'[x]
      <4>1. SUFFICES ASSUME x \in Range(write_wait'[l])
                     PROVE  LockOf[x] = l /\ type'[x] \in WriteType /\ cond'[x]
        OBVIOUS
      <4>2. x \in Range(write_wait[l]) /\ x \notin R /\ x \notin W /\ x # d
        BY <1>8, <1>12, <3>7, <4>1
      <4>3. type'[x] = type[x] \/ type'[x] = TL_WRITE  BY <1>11, <4>2
      <4>. QED  BY <3>1, <3>6, <4>2, <4>3
    <3>. QED  BY <3>2, <3>3, <3>4, <3>5
  <2>2. ASSUME NEW m \in Lock \ {l}, NEW x \in Data
        PROVE  /\ x \in read'[m] =>
                    LockOf[x] = m /\ type'[x] \in ReadType /\ ~ cond'[x]
               /\ x \in Range(read_wait'[m]) =>
                    LockOf[x] = m /\ type'[x] \in ReadType /\ cond'[x]
               /\ x \in Range(write'[m]) =>
                    LockOf[x] = m /\ type'[x] \in WriteType \cup {TL_WRITE_ONLY} /\ ~ cond'[x]
               /\ x \in Range(write_wait'[m]) =>
                    LockOf[x] = m /\ type'[x] \in WriteType /\ cond'[x]
    <3>1. LockOf[x] = m => type'[x] = type[x] /\ cond'[x] = cond[x]
      <4>1. SUFFICES ASSUME LockOf[x] = m PROVE type'[x] = type[x] /\ cond'[x] = cond[x]
        OBVIOUS
      <4>2. x # d /\ x \notin Range(write_wait[l]) /\ x \notin Range(read_wait[l])
        BY <1>1, <1>4, <2>2, <4>1 DEF Placed
      <4>3. x \notin W \cup R /\ cond[x] \in BOOLEAN  BY <1>1, <1>8, <4>2 DEF TypeOK
      <4>. QED  BY <1>7, <1>11, <4>2, <4>3
    <3>. QED  BY <1>1, <1>12, <2>2, <3>1 DEF Placed
  <2>. QED  BY <2>1, <2>2 DEF Placed
<1>21. SharedWrites'
  <2>1. \A x \in Data : type[x] = TL_WRITE_ALLOW_WRITE => thread[x] \notin Handler
    BY <1>1 DEF OwnTypes, DelayedTypes
  <2>2. ASSUME NEW m \in Lock, NEW x \in Range(write'[m]), NEW y \in Range(write'[m]), x # y
        PROVE  \/ /\ {type'[x], type'[y]} \subseteq {TL_WRITE_ALLOW_WRITE, TL_WRITE_ONLY}
                  /\ thread[x] \notin Handler /\ thread[y] \notin Handler
               \/ /\ thread[x] = thread[y]
                  /\ {type'[x], type'[y]}
                       \subseteq {TL_WRITE_LOW_PRIORITY, TL_WRITE, TL_WRITE_ONLY}
    <3>1. CASE x \in Range(write[m]) \ {d} /\ y \in Range(write[m]) \ {d}
      <4>1. type'[x] = type[x] /\ type'[y] = type[y]  BY <1>14, <3>1
      <4>. QED  BY <1>1, <2>2, <3>1, <4>1 DEF SharedWrites
    <3>2. CASE ~ (x \in Range(write[m]) \ {d} /\ y \in Range(write[m]) \ {d})
      <4>1. m = l /\ x \in W /\ y \in W
        <5>1. m # l => d \notin Range(write[m])  BY <1>1, <1>4 DEF Placed
        <5>2. m = l  BY <1>12, <2>2, <3>2, <5>1
        <5>. QED  BY <1>8, <1>12, <2>2, <3>2, <5>2
      <4>2. /\ type[x] = TL_WRITE_ALLOW_WRITE /\ type[y] = TL_WRITE_ALLOW_WRITE
            /\ x \in Data /\ y \in Data /\ x # d /\ y # d
        BY <1>8, <1>9, <2>2, <4>1
      <4>3. type'[x] = type[x] /\ type'[y] = type[y]  BY <1>11, <4>2
      <4>. QED  BY <2>1, <4>2, <4>3
    <3>. QED  BY <3>1, <3>2
  <2>. QED  BY <1>2, <2>2 DEF SharedWrites
<1>22. NoInsertCount'
  <2>. DEFINE A == OfType(read[l] \ {d}, TL_READ_NO_INSERT)
              B == OfType(R, TL_READ_NO_INSERT)
  <2>1. OfType(read[l], TL_READ_NO_INSERT)' = A \cup B
    BY <1>12, <1>14 DEF OfType
  <2>2. IsFiniteSet(A) /\ IsFiniteSet(B) /\ Cardinality(A) \in Nat /\ Cardinality(B) \in Nat
    <3>1. read[l] \ {d} \in SUBSET Data  BY <1>9
    <3>. QED  BY <3>1, FiniteParts
  <2>3. A \cap B = {}  BY <1>14 DEF OfType
  <2>4. Cardinality(A \cup B) = Cardinality(A) + Cardinality(B)
    <3>. HIDE DEF A, B
    <3>1. Cardinality(A \cup B) = Cardinality(A) + Cardinality(B) - Cardinality(A \cap B)
      BY <2>2, FS_Union
    <3>2. Cardinality(A \cap B) = 0  BY <2>3, FS_EmptySet
    <3>. QED  BY <2>2, <3>1, <3>2
  <2>5. \A m \in Lock \ {l} : /\ read'[m] = read[m] /\ d \notin read[m]
                              /\ read_no_write_count'[m] = read_no_write_count[m]
    BY <1>1, <1>4, <1>7, <1>12 DEF Placed
  <2>6. \A m \in Lock \ {l} : OfType(read[m], TL_READ_NO_INSERT)'
                                = OfType(read[m], TL_READ_NO_INSERT)
    BY <1>14, <2>5 DEF OfType
  <2>7. read_no_write_count'[l] = Cardinality(OfType(read[l], TL_READ_NO_INSERT)')
    BY <1>7, <2>1, <2>4
  <2>. QED  BY <1>1, <2>5, <2>6, <2>7 DEF NoInsertCount
<1>23. ReadersAdmitted'
  <2>1. ASSUME NEW m \in Lock, NEW r \in read'[m], NEW w \in Range(write'[m]),
               thread[r] # thread[w]
        PROVE  /\ type'[w] \in TL_WRITE_ALLOW_WRITE .. TL_WRITE_DELAYED \cup {TL_WRITE_ONLY}
               /\ type'[r] = TL_READ_NO_INSERT => type'[w] # TL_WRITE_CONCURRENT_INSERT
    <3>1. CASE r \in read[m] \ {d} /\ w \in Range(write[m]) \ {d}
      <4>1. type'[r] = type[r] /\ type'[w] = type[w]  BY <1>14, <3>1
      <4>. QED  BY <1>1, <2>1, <3>1, <4>1 DEF ReadersAdmitted
    <3>2. CASE ~ (r \in read[m] \ {d} /\ w \in Range(write[m]) \ {d})
      <4>1. m = l
        <5>1. m # l => d \notin Range(write[m]) /\ d \notin read[m]
          BY <1>1, <1>4 DEF Placed
        <5>. QED  BY <1>12, <2>1, <3>2, <5>1
      <4>2. w \in W  BY <1>8, <1>12, <2>1, <3>2, <4>1
      <4>3. CASE r \in R
        <5>1. type'[r] = type[r]  BY <1>14, <4>3
        <5>. QED  BY <1>8, <4>2, <4>3, <5>1
      <4>4. CASE r \in read[l] \ {d}
        <5>1. type'[r] = type[r]  BY <1>14, <4>4
        <5>2. /\ type'[w] \in TL_WRITE_ALLOW_WRITE .. TL_WRITE_DELAYED
              /\ type'[w] = TL_WRITE_CONCURRENT_INSERT => NoInsertBlocks(d) = 0
          BY <1>8, <4>2, <4>4
        <5>3. NoInsertBlocks(d) = 0 => type[r] # TL_READ_NO_INSERT
          <6>. DEFINE A == OfType(read[l] \ {d}, TL_READ_NO_INSERT)
          <6>1. IsFiniteSet(A)
            <7>1. read[l] \ {d} \in SUBSET Data  BY <1>9
            <7>. QED  BY <7>1, FiniteParts
          <6>2. NoInsertBlocks(d) = 0 => A = {}  BY <1>7, <6>1, FS_EmptySet
          <6>3. type[r] = TL_READ_NO_INSERT => r \in A  BY <4>4 DEF OfType
          <6>. QED  BY <6>2, <6>3
        <5>. QED  BY <5>1, <5>2, <5>3
      <4>. QED  BY <1>12, <2>1, <4>1, <4>3, <4>4
    <3>. QED  BY <3>1, <3>2
  <2>. QED  BY <1>2, <2>1 DEF ReadersAdmitted
<1>. QED
  BY <1>15, <1>16, <1>17, <1>18, <1>19, <1>20, <1>21, <1>22, <1>23 DEF IInv

-----------------------------------------------------------------------------
(* thr_abort_locks *)
LEMMA AbortIInv ==
  ASSUME IInv, NEW t \in Thread, thr_abort_locks(t)
  PROVE  IInv'
<1>1. TypeOK /\ Placed /\ Control /\ Planned /\ Queued /\ OwnTypes /\ SharedWrites
      /\ NoInsertCount /\ ReadersAdmitted
  BY DEF IInv
<1>2. plan[t] \in Seq(Data)  BY <1>1 DEF TypeOK
<1>3. Range(plan[t]) \subseteq Data  BY <1>2, HeadFacts
<1>4. PICK l \in Lock :
        LET waiting == Range(read_wait[l]) \cup Range(write_wait[l])
            closed  == IF write[l] = <<>> THEN {} ELSE {Head(write[l])}
        IN  /\ type' = [d \in Data |-> IF d \in waiting THEN TL_UNLOCK
                                       ELSE IF d \in closed THEN TL_WRITE_ONLY
                                       ELSE type[d]]
            /\ cond' = [d \in Data |-> cond[d] /\ d \notin waiting]
            /\ read_wait' = [read_wait EXCEPT ![l] = <<>>]
            /\ write_wait' = [write_wait EXCEPT ![l] = <<>>]
            /\ UNCHANGED <<read, write, counts, control>>
  <2>1. {LockOf[d] : d \in {x \in Range(plan[t]) : type[x] # TL_UNLOCK}} \subseteq Lock
    BY <1>3, Constants
  <2>. QED  BY <2>1 DEF thr_abort_locks
<1>40. PICK waiting, closed :
        /\ waiting = Range(read_wait[l]) \cup Range(write_wait[l])
        /\ closed = (IF write[l] = <<>> THEN {} ELSE {Head(write[l])})
        /\ type' = [d \in Data |-> IF d \in waiting THEN TL_UNLOCK
                                   ELSE IF d \in closed THEN TL_WRITE_ONLY
                                   ELSE type[d]]
        /\ cond' = [d \in Data |-> cond[d] /\ d \notin waiting]
        /\ read_wait' = [read_wait EXCEPT ![l] = <<>>]
        /\ write_wait' = [write_wait EXCEPT ![l] = <<>>]
        /\ UNCHANGED <<read, write, counts, control>>
  BY <1>4
<1>5. /\ read' = read /\ write' = write /\ write_lock_count' = write_lock_count
      /\ read_no_write_count' = read_no_write_count
      /\ plan' = plan /\ pos' = pos /\ pc' = pc /\ abort' = abort /\ thread' = thread
  BY <1>40 DEF counts, control
<1>6. closed \subseteq Range(write[l])
  <2>1. write[l] \in Seq(Data)  BY <1>1 DEF TypeOK
  <2>2. write[l] # <<>> => Head(write[l]) \in Range(write[l])  BY <2>1, HeadFacts
  <2>. QED  BY <1>40, <2>2
<1>7. <<>> \in Seq(Data) /\ Range(<<>>) = {}  BY EmptyFacts
<1>8. \A m \in Lock :
        /\ Range(read_wait'[m]) = IF m = l THEN {} ELSE Range(read_wait[m])
        /\ Range(write_wait'[m]) = IF m = l THEN {} ELSE Range(write_wait[m])
  BY <1>1, <1>40, <1>7 DEF TypeOK
<1>9. \A m \in Lock : /\ read[m] \subseteq Data /\ Range(write[m]) \subseteq Data
                      /\ Range(read_wait[m]) \subseteq Data
                      /\ Range(write_wait[m]) \subseteq Data
  BY <1>1, HeadFacts DEF TypeOK
<1>10. \A x \in Data : cond'[x] <=> cond[x] /\ x \notin waiting
  BY <1>40
<1>11. \A x \in Data : type'[x] = IF x \in waiting THEN TL_UNLOCK
                                  ELSE IF x \in closed THEN TL_WRITE_ONLY ELSE type[x]
  BY <1>40
<1>12. /\ \A x \in waiting : cond[x] /\ LockOf[x] = l
       /\ \A x \in closed : ~ cond[x] /\ LockOf[x] = l
                            /\ type[x] \in WriteType \cup {TL_WRITE_ONLY}
  BY <1>1, <1>40, <1>6, <1>9 DEF Placed
<1>13. \A x \in Data : LockOf[x] \in Lock  BY Constants
<1>14. \A x \in Data : /\ Listed(x)' <=> Listed(x) /\ x \notin waiting
                       /\ Waiting(x)' <=> Waiting(x) /\ x \notin waiting
                       /\ x \in waiting \cup closed => Listed(x)
  <2>1. \A x \in Data : x \in Active(LockOf[x])' <=> x \in Active(LockOf[x])
    BY <1>5 DEF Active
  <2>2. \A x \in Data : x \in Active(LockOf[x]) => ~ cond[x]
    BY <1>1, <1>13 DEF Active, Placed
  <2>3. \A x \in Data : Waiting(x)' <=> Waiting(x) /\ x \notin waiting
    BY <1>40, <1>8, <1>12, <1>13 DEF Waiting
  <2>4. \A x \in closed : x \in Active(LockOf[x])
    BY <1>6, <1>12 DEF Active
  <2>5. \A x \in waiting : Waiting(x)  BY <1>40, <1>12 DEF Waiting
  <2>6. \A x \in Data : /\ Listed(x)' <=> x \in Active(LockOf[x])' \/ Waiting(x)'
                        /\ Listed(x) <=> x \in Active(LockOf[x]) \/ Waiting(x)
    BY DEF Listed, Waiting
  <2>. QED  BY <1>12, <2>1, <2>2, <2>3, <2>4, <2>5, <2>6
<1>15. \A m \in Lock : /\ \A x \in read[m] : x \notin waiting /\ type'[x] = type[x]
                       /\ \A x \in Range(write[m]) :
                            x \notin waiting /\ type'[x] \in {type[x], TL_WRITE_ONLY}
  <2>1. \A m \in Lock : \A x \in read[m] : ~ cond[x] /\ type[x] \in ReadType
    BY <1>1, <1>9 DEF Placed
  <2>2. \A m \in Lock : \A x \in Range(write[m]) : ~ cond[x]
    BY <1>1, <1>9 DEF Placed
  <2>3. ReadType \cap (WriteType \cup {TL_WRITE_ONLY}) = {}  OBVIOUS
  <2>4. \A m \in Lock : \A x \in read[m] : x \notin waiting \cup closed
    BY <1>12, <2>1, <2>3
  <2>. QED  BY <1>9, <1>11, <1>12, <2>2, <2>4
<1>16. TypeOK'
  <2>1. type' \in [Data -> LockType]
    <3>1. type \in [Data -> LockType]  BY <1>1 DEF TypeOK
    <3>2. TL_UNLOCK \in LockType /\ TL_WRITE_ONLY \in LockType  OBVIOUS
    <3>. QED  BY <1>40, <3>1, <3>2
  <2>2. cond' \in [Data -> BOOLEAN]  BY <1>40
  <2>3. read_wait' \in [Lock -> Seq(Data)] /\ write_wait' \in [Lock -> Seq(Data)]
    BY <1>1, <1>40, <1>7 DEF TypeOK
  <2>. QED  BY <1>1, <1>5, <2>1, <2>2, <2>3 DEF TypeOK
<1>17. Placed'
  <2>1. \A m \in Lock, x \in Data :
          /\ x \in Range(read_wait'[m]) => x \in Range(read_wait[m]) /\ m # l
          /\ x \in Range(write_wait'[m]) => x \in Range(write_wait[m]) /\ m # l
    BY <1>8
  <2>2. \A m \in Lock \ {l}, x \in Data :
          x \in Range(read_wait[m]) \cup Range(write_wait[m]) =>
            LockOf[x] = m /\ cond[x] /\ x \notin waiting \cup closed /\ type'[x] = type[x]
    BY <1>1, <1>11, <1>12 DEF Placed
  <2>3. \A m \in Lock, x \in Data :
          /\ x \in read[m] =>
               LockOf[x] = m /\ type'[x] \in ReadType /\ ~ cond'[x]
          /\ x \in Range(write[m]) =>
               LockOf[x] = m /\ type'[x] \in WriteType \cup {TL_WRITE_ONLY} /\ ~ cond'[x]
    BY <1>1, <1>10, <1>15 DEF Placed
  <2>4. \A m \in Lock, x \in Data :
          /\ x \in Range(read_wait'[m]) =>
               LockOf[x] = m /\ type'[x] \in ReadType /\ cond'[x]
          /\ x \in Range(write_wait'[m]) =>
               LockOf[x] = m /\ type'[x] \in WriteType /\ cond'[x]
    BY <1>1, <1>10, <2>1, <2>2 DEF Placed
  <2>. QED  BY <1>5, <2>3, <2>4 DEF Placed
<1>18. Control'  BY <1>1, <1>5 DEF Control
<1>19. Planned'
  <2>1. ASSUME NEW u \in Thread, NEW i \in DOMAIN plan[u], NEW x \in Data, x = plan[u][i]
        PROVE  /\ thread[x] = u
               /\ ToLock(u, i) => ~ Listed(x)' /\ type'[x] \in ReadType \cup WriteType
               /\ Unlocked(u, i) => ~ Listed(x)'
               /\ ~ ToLock(u, i) /\ ~ Unlocked(u, i) =>
                    (Listed(x)' <=> type'[x] # TL_UNLOCK)
    <3>1. /\ thread[x] = u
          /\ ToLock(u, i) => ~ Listed(x) /\ type[x] \in ReadType \cup WriteType
          /\ Unlocked(u, i) => ~ Listed(x)
          /\ ~ ToLock(u, i) /\ ~ Unlocked(u, i) => (Listed(x) <=> type[x] # TL_UNLOCK)
      BY <1>1, <2>1 DEF Planned
    <3>. QED  BY <1>11, <1>14, <2>1, <3>1
  <2>2. \A u \in Thread : \A i \in DOMAIN plan[u] :
          /\ plan[u][i] \in Data
          /\ ToLock(u, i)' <=> ToLock(u, i)
          /\ Unlocked(u, i)' <=> Unlocked(u, i)
    BY <1>1, <1>5 DEF ToLock, Unlocked, TypeOK
  <2>3. \A x \in Data : Listed(x)' =>
          \E u \in Thread : thread[x] = u /\ x \in Range(plan[u])
    BY <1>1, <1>14 DEF Planned
  <2>. QED  BY <1>5, <2>1, <2>2, <2>3 DEF Planned
<1>20. Queued'
  <2>1. \A x \in Data : Waiting(x)' => Waiting(x) /\ type'[x] \in {type[x], TL_WRITE_ONLY}
    BY <1>11, <1>14
  <2>2. \A x \in Data : Waiting(x)' => type'[x] = type[x]
    <3>1. \A x \in Data : Waiting(x) => cond[x]
      BY <1>1, <1>13 DEF Waiting, Placed
    <3>. QED  BY <1>11, <1>12, <1>14, <3>1
  <2>. QED  BY <1>1, <1>5, <2>1, <2>2 DEF Queued, This
<1>21. OwnTypes'
  <2>1. \A x \in Data : type'[x] \in {type[x], TL_UNLOCK, TL_WRITE_ONLY}
    BY <1>11
  <2>. QED  BY <1>5, <2>1, OwnTypesKept
<1>22. SharedWrites'
  <2>1. \A m \in Lock : \A x, y \in Range(write[m]) :
          /\ type'[x] \in {type[x], TL_WRITE_ONLY}
          /\ type'[y] \in {type[y], TL_WRITE_ONLY}
    BY <1>15
  <2>. QED  BY <1>1, <1>5, <2>1 DEF SharedWrites
<1>23. ReadersAdmitted'
  BY <1>1, <1>5, <1>15 DEF ReadersAdmitted
<1>24. NoInsertCount'  BY <1>1, <1>5, <1>15, CountKept
<1>. QED
  BY <1>16, <1>17, <1>18, <1>19, <1>20, <1>21, <1>22, <1>23, <1>24 DEF IInv

-----------------------------------------------------------------------------
(* The delayed handler: it is past its thr_multi_lock and has one instance.  *)
Handling == {"run", "upgrade", "reupgrade", "reschedule", "insert"}

LEMMA HandlerFacts ==
  ASSUME IInv, NEW t \in Handler, pc[t] \in Handling
  PROVE  /\ t \in Thread
         /\ This(t) \in Data /\ LockOf[This(t)] \in Lock
         /\ pos[t] \in DOMAIN plan[t] /\ This(t) = plan[t][pos[t]]
         /\ thread[This(t)] = t
         /\ Listed(This(t)) <=> type[This(t)] # TL_UNLOCK
         /\ type[This(t)] \in DelayedTypes
         /\ type[This(t)] # TL_UNLOCK /\ cond[This(t)] =>
              This(t) \in Range(write_wait[LockOf[This(t)]])
         /\ type[This(t)] # TL_UNLOCK /\ ~ cond[This(t)] =>
              This(t) \in Range(write[LockOf[This(t)]])
<1>1. TypeOK /\ Placed /\ Control /\ Planned /\ OwnTypes  BY DEF IInv
<1>2. t \in Thread  BY Constants
<1>3. /\ This(t) \in Data /\ LockOf[This(t)] \in Lock
      /\ pos[t] \in DOMAIN plan[t] /\ This(t) = plan[t][pos[t]]
  BY <1>1, <1>2, ThisFacts DEF Handling
<1>4. ~ ToLock(t, pos[t]) /\ ~ Unlocked(t, pos[t])
  BY DEF ToLock, Unlocked, Handling
<1>5. thread[This(t)] = t /\ (Listed(This(t)) <=> type[This(t)] # TL_UNLOCK)
  BY <1>1, <1>2, <1>3, <1>4 DEF Planned
<1>6. type[This(t)] \in DelayedTypes  BY <1>1, <1>3, <1>5 DEF OwnTypes
<1>7. type[This(t)] \notin ReadType  BY <1>6 DEF DelayedTypes
<1>8. type[This(t)] # TL_UNLOCK =>
        /\ cond[This(t)] => This(t) \in Range(write_wait[LockOf[This(t)]])
        /\ ~ cond[This(t)] => This(t) \in Range(write[LockOf[This(t)]])
  BY <1>1, <1>3, <1>5, <1>7 DEF Listed, Active, Placed
<1>. QED  BY <1>2, <1>3, <1>5, <1>6, <1>8

LEMMA HandlerLoop ==
  ASSUME IInv, NEW t \in Handler, pc[t] \in Handling,
         NEW q \in Handling \ {"run"},
         pc' = [pc EXCEPT ![t] = q], UNCHANGED <<plan, pos, thread>>,
         \A x \in Data : /\ Listed(x)' <=> Listed(x)
                         /\ type'[x] = TL_UNLOCK <=> type[x] = TL_UNLOCK
                         /\ ~ Listed(x) => type'[x] = type[x]
  PROVE  /\ pc' \in [Thread -> PC]
         /\ \A u \in Thread \ {t} : pc'[u] = pc[u] /\ pos'[u] = pos[u] /\ plan'[u] = plan[u]
         /\ Control' /\ Planned'
<1>1. TypeOK /\ Control /\ Planned  BY DEF IInv
<1>2. t \in Thread /\ pos[t] \in DOMAIN plan[t]  BY HandlerFacts
<1>3. pc' \in [Thread -> PC]  BY <1>1, <1>2 DEF TypeOK, PC, Handling
<1>4. /\ pc'[t] = q
      /\ \A u \in Thread \ {t} : pc'[u] = pc[u] /\ pos'[u] = pos[u] /\ plan'[u] = plan[u]
  BY <1>1, <1>2 DEF TypeOK
<1>5. Control'
  BY <1>1, <1>2, <1>4 DEF Control, Handling
<1>6. Planned'
  <2>1. \A i \in DOMAIN plan[t] : /\ ~ ToLock(t, i) /\ ~ ToLock(t, i)'
                                  /\ ~ Unlocked(t, i) /\ ~ Unlocked(t, i)'
    BY <1>4 DEF ToLock, Unlocked, Handling
  <2>2. Listed(This(t)) <=> type[This(t)] # TL_UNLOCK  BY HandlerFacts
  <2>3. \A x \in Data, i \in DOMAIN plan[t] : x = This(t) /\ i = pos[t] =>
          /\ ~ ToLock(t, i)'
          /\ Unlocked(t, i)' => ~ Listed(x)'
          /\ ~ Unlocked(t, i)' => (Listed(x)' <=> type'[x] # TL_UNLOCK)
    BY <2>1, <2>2
  <2>. QED  BY <1>2, <1>4, <2>1, <2>3, PlanKept
<1>. QED  BY <1>3, <1>4, <1>5, <1>6

(* A delayed lock is granted alone.                                          *)
LEMMA DelayedAlone ==
  ASSUME IInv, NEW l \in Lock, NEW d \in Range(write[l]), type[d] = TL_WRITE_DELAYED
  PROVE  Range(write[l]) = {d}
<1>1. \A c \in Range(write[l]) : c = d
  <2>1. SUFFICES ASSUME NEW c \in Range(write[l]), c # d PROVE FALSE  OBVIOUS
  <2>2. {type[c], type[d]} \subseteq {TL_WRITE_ALLOW_WRITE, TL_WRITE_ONLY,
                                      TL_WRITE_LOW_PRIORITY, TL_WRITE}
    BY <2>1 DEF IInv, SharedWrites
  <2>. QED  BY <2>2
<1>. QED  BY <1>1

LEMMA UpgradeAtOnceIInv ==
  ASSUME IInv, NEW t \in Handler, upgrade_at_once(t)
  PROVE  IInv'
<1>1. TypeOK /\ Placed /\ Control /\ Planned /\ Queued /\ OwnTypes /\ SharedWrites
      /\ NoInsertCount /\ ReadersAdmitted
  BY DEF IInv
<1>2. /\ pc[t] \in {"run", "reschedule"}
      /\ MustUpgrade(This(t)) /\ ~ cond[This(t)] /\ read[LockOf[This(t)]] = {}
      /\ type' = [type EXCEPT ![This(t)] = TL_WRITE]
      /\ pc' = [pc EXCEPT ![t] = "insert"]
      /\ UNCHANGED <<lists, counts, cond, plan, pos, abort, thread>>
  BY DEF upgrade_at_once, Upgraded
<1>3. pc[t] \in Handling  BY <1>2 DEF Handling
<1>4. PICK d \in Data : d = This(t)  BY <1>3, HandlerFacts
<1>5. PICK l \in Lock : l = LockOf[d]  BY Constants
<1>6. /\ read' = read /\ read_wait' = read_wait /\ write' = write
      /\ write_wait' = write_wait /\ cond' = cond /\ abort' = abort
      /\ plan' = plan /\ pos' = pos /\ thread' = thread
      /\ read_no_write_count' = read_no_write_count
      /\ write_lock_count' = write_lock_count
  BY <1>2 DEF lists, counts
<1>7. type[d] = TL_WRITE_DELAYED
  <2>1. type[d] \in DelayedTypes  BY <1>3, <1>4, HandlerFacts
  <2>. QED  BY <1>2, <1>4, <2>1 DEF DelayedTypes, MustUpgrade
<1>8. /\ t \in Thread /\ d \in Range(write[l]) /\ Listed(d)
      /\ thread[d] = t /\ read[l] = {} /\ ~ cond[d]
  <2>1. type[d] # TL_UNLOCK  BY <1>7
  <2>. QED  BY <1>2, <1>3, <1>4, <1>5, <2>1, HandlerFacts
<1>9. \A x \in Data : type'[x] = IF x = d THEN TL_WRITE ELSE type[x]
  BY <1>1, <1>2, <1>4 DEF TypeOK
<1>10. \A x \in Data : /\ Listed(x)' <=> Listed(x)
                       /\ Waiting(x)' <=> Waiting(x)
  BY <1>6 DEF Listed, Waiting, Active
<1>11. \A m \in Lock : /\ d \notin read[m] /\ d \notin Range(read_wait[m])
                       /\ d \notin Range(write_wait[m])
                       /\ d \in Range(write[m]) => m = l
  BY <1>1, <1>5, <1>7, <1>8 DEF Placed
<1>12. \A m \in Lock : /\ read[m] \subseteq Data /\ Range(write[m]) \subseteq Data
                       /\ Range(read_wait[m]) \subseteq Data
                       /\ Range(write_wait[m]) \subseteq Data
  BY <1>1, HeadFacts DEF TypeOK
<1>13. /\ pc' \in [Thread -> PC]
       /\ \A u \in Thread \ {t} : pc'[u] = pc[u] /\ pos'[u] = pos[u] /\ plan'[u] = plan[u]
       /\ Control' /\ Planned'
  <2>1. \A x \in Data : /\ Listed(x)' <=> Listed(x)
                        /\ type'[x] = TL_UNLOCK <=> type[x] = TL_UNLOCK
                        /\ ~ Listed(x) => type'[x] = type[x]
    BY <1>7, <1>8, <1>9, <1>10
  <2>2. "insert" \in Handling \ {"run"}  BY DEF Handling
  <2>. QED  BY <1>2, <1>3, <1>6, <2>1, <2>2, HandlerLoop
<1>14. TypeOK'
  <2>1. type' \in [Data -> LockType]
    <3>1. type \in [Data -> LockType] /\ TL_WRITE \in LockType  BY <1>1 DEF TypeOK
    <3>. QED  BY <1>2, <3>1
  <2>. QED  BY <1>1, <1>6, <1>13, <2>1 DEF TypeOK
<1>15. Placed'  BY <1>1, <1>6, <1>8, <1>9, <1>11 DEF Placed
<1>16. Queued'
  <2>1. \A x \in Data : Waiting(x) => x # d
    BY <1>5, <1>11 DEF Waiting
  <2>2. \A x \in Data : Waiting(x)' =>
          \/ Waiting(x) /\ thread[x] # t /\ type'[x] = type[x]
          \/ thread[x] \in Handler /\ type'[x] \in WriteType
    <3>1. pc[t] # "wait"  BY <1>2
    <3>. QED  BY <1>8, <1>9, <1>10, <2>1, <3>1, NotQueued
  <2>. QED  BY <1>6, <1>8, <1>13, <2>2, QueuedKept
<1>17. OwnTypes'
  <2>1. \A x \in Data : \/ type'[x] \in {type[x], TL_UNLOCK, TL_WRITE_ONLY}
                        \/ type[x] = TL_WRITE_DELAYED /\ type'[x] = TL_WRITE
    BY <1>7, <1>9
  <2>. QED  BY <1>6, <2>1, OwnTypesKept
<1>18. Range(write[l]) = {d}  BY <1>7, <1>8, DelayedAlone
<1>19. \A m \in Lock \ {l} : \A x \in Range(write[m]) : type'[x] = type[x]
  BY <1>9, <1>11, <1>12
<1>20. \A m \in Lock : \A x \in read[m] : type'[x] = type[x]
  BY <1>9, <1>11, <1>12
<1>21. SharedWrites'  BY <1>1, <1>6, <1>18, <1>19 DEF SharedWrites
<1>22. ReadersAdmitted'
  BY <1>1, <1>6, <1>8, <1>19, <1>20 DEF ReadersAdmitted
<1>23. NoInsertCount'  BY <1>1, <1>6, <1>20, CountKept
<1>. QED
  BY <1>13, <1>14, <1>15, <1>16, <1>17, <1>21, <1>22, <1>23 DEF IInv

LEMMA UpgradeWaitIInv ==
  ASSUME IInv, NEW t \in Handler, upgrade_wait(t)
  PROVE  IInv'
<1>1. TypeOK /\ Placed /\ Control /\ Planned /\ Queued /\ OwnTypes /\ SharedWrites
      /\ NoInsertCount /\ ReadersAdmitted
  BY DEF IInv
<1>2. /\ pc[t] \in {"run", "reschedule"} /\ MustUpgrade(This(t))
      /\ type' = [type EXCEPT ![This(t)] = TL_WRITE]
      /\ cond' = [cond EXCEPT ![This(t)] = TRUE]
      /\ UNCHANGED <<read, read_wait, counts, plan, pos, abort, thread>>
  BY DEF upgrade_wait
<1>3. pc[t] \in Handling  BY <1>2 DEF Handling
<1>4. PICK d \in Data : d = This(t)  BY <1>3, HandlerFacts
<1>5. PICK l \in Lock : l = LockOf[d]  BY Constants
<1>6. /\ read' = read /\ read_wait' = read_wait
      /\ plan' = plan /\ pos' = pos /\ thread' = thread /\ abort' = abort
      /\ read_no_write_count' = read_no_write_count
      /\ write_lock_count' = write_lock_count
  BY <1>2 DEF counts
<1>7. type[d] = TL_WRITE_DELAYED
  <2>1. type[d] \in DelayedTypes  BY <1>3, <1>4, HandlerFacts
  <2>. QED  BY <1>2, <1>4, <2>1 DEF DelayedTypes, MustUpgrade
<1>8. /\ t \in Thread /\ Listed(d) /\ thread[d] = t
      /\ cond[d] => d \in Range(write_wait[l])
      /\ ~ cond[d] => d \in Range(write[l])
  <2>1. type[d] # TL_UNLOCK  BY <1>7
  <2>. QED  BY <1>3, <1>4, <1>5, <2>1, HandlerFacts
<1>9. \A m \in Lock : /\ d \notin read[m] /\ d \notin Range(read_wait[m])
                      /\ d \in Range(write[m]) => m = l /\ ~ cond[d]
                      /\ d \in Range(write_wait[m]) => m = l /\ cond[d]
  BY <1>1, <1>5, <1>7, <1>8 DEF Placed
<1>10. \A x \in Data : /\ type'[x] = IF x = d THEN TL_WRITE ELSE type[x]
                       /\ cond'[x] <=> cond[x] \/ x = d
  BY <1>1, <1>2, <1>4 DEF TypeOK
<1>11. Lists(l, read[l], Range(read_wait[l]), Range(write[l]) \ {d},
             Range(write_wait[l]) \cup {d})
  <2>1. CASE cond[d] /\ UNCHANGED <<write, write_wait>>
    BY <1>1, <1>5, <1>6, <1>8, <1>9, <2>1 DEF Lists, TypeOK
  <2>2. CASE /\ write' = [write EXCEPT ![LockOf[d]] = Without(@, d)]
             /\ write_wait' = [write_wait EXCEPT ![LockOf[d]] = <<d>> \o @]
    <3>1. \/ Lists(l, read[l], Range(read_wait[l]), Range(write[l]) \ {d},
                   Range(write_wait[l]) \cup {d})
          \/ /\ UNCHANGED <<read, read_wait>>
             /\ Lists(l, read[l] \cup Range(read_wait[l]), {}, Range(write[l]) \ {d},
                      Range(write_wait[l]) \cup {d})
      BY <1>1, <1>5, <1>6, <2>2, RequeueLists
    <3>2. CASE /\ UNCHANGED <<read, read_wait>>
               /\ Lists(l, read[l] \cup Range(read_wait[l]), {}, Range(write[l]) \ {d},
                        Range(write_wait[l]) \cup {d})
      BY <3>2 DEF Lists
    <3>. QED  BY <3>1, <3>2
  <2>. QED  BY <1>2, <1>4, <2>1, <2>2 DEF upgrade_wait
<1>12. \A m \in Lock : /\ read[m] \subseteq Data /\ Range(write[m]) \subseteq Data
                       /\ Range(read_wait[m]) \subseteq Data
                       /\ Range(write_wait[m]) \subseteq Data
  BY <1>1, HeadFacts DEF TypeOK
<1>13. \A x \in Data : /\ Listed(x)' <=> Listed(x)
                       /\ Waiting(x)' <=> Waiting(x) \/ x = d
  BY <1>5, <1>8, <1>9, <1>11, ListsListed DEF Listed, Waiting, Active
<1>14. /\ pc' \in [Thread -> PC]
       /\ \A u \in Thread \ {t} : pc'[u] = pc[u] /\ pos'[u] = pos[u] /\ plan'[u] = plan[u]
       /\ Control' /\ Planned'
  <2>1. \A x \in Data : /\ Listed(x)' <=> Listed(x)
                        /\ type'[x] = TL_UNLOCK <=> type[x] = TL_UNLOCK
                        /\ ~ Listed(x) => type'[x] = type[x]
    BY <1>7, <1>8, <1>10, <1>13
  <2>2. PICK q \in Handling \ {"run"} : pc' = [pc EXCEPT ![t] = q]
    BY DEF upgrade_wait, Handling
  <2>. QED  BY <1>3, <1>6, <2>1, <2>2, HandlerLoop
<1>15. TypeOK'
  <2>1. type' \in [Data -> LockType]
    <3>1. type \in [Data -> LockType] /\ TL_WRITE \in LockType  BY <1>1 DEF TypeOK
    <3>. QED  BY <1>2, <3>1
  <2>2. cond' \in [Data -> BOOLEAN]  BY <1>1, <1>2 DEF TypeOK
  <2>. QED  BY <1>1, <1>6, <1>11, <1>14, <2>1, <2>2 DEF TypeOK, Lists
<1>16. \A m \in Lock : /\ Range(write'[m]) = Range(write[m]) \ {d}
                       /\ Range(write_wait'[m]) \subseteq Range(write_wait[m]) \cup {d}
                       /\ m # l => Range(write_wait'[m]) = Range(write_wait[m])
  BY <1>9, <1>11 DEF Lists
<1>17. Placed'
  <2>1. \A m \in Lock, x \in Data :
          /\ x \in read[m] => x # d
          /\ x \in Range(read_wait[m]) => x # d
          /\ x \in Range(write'[m]) => x # d /\ x \in Range(write[m])
          /\ x \in Range(write_wait'[m]) =>
               \/ x = d /\ m = l
               \/ x # d /\ x \in Range(write_wait[m])
    BY <1>9, <1>16
  <2>2. TL_WRITE \in WriteType  OBVIOUS
  <2>. QED  BY <1>1, <1>5, <1>6, <1>10, <2>1, <2>2 DEF Placed
<1>18. Queued'
  <2>1. \A x \in Data : Waiting(x)' =>
          \/ Waiting(x) /\ thread[x] # t /\ type'[x] = type[x]
          \/ thread[x] \in Handler /\ type'[x] \in WriteType
    <3>1. pc[t] # "wait" /\ TL_WRITE \in WriteType  BY <1>2
    <3>2. \A x \in Data : Waiting(x) /\ thread[x] = t => type[x] \in WriteType
      BY <1>8, <3>1, NotQueued
    <3>. QED  BY <1>8, <1>10, <1>13, <3>1, <3>2
  <2>. QED  BY <1>6, <1>8, <1>14, <2>1, QueuedKept
<1>19. OwnTypes'
  <2>1. \A x \in Data : \/ type'[x] \in {type[x], TL_UNLOCK, TL_WRITE_ONLY}
                        \/ type[x] = TL_WRITE_DELAYED /\ type'[x] = TL_WRITE
    BY <1>7, <1>10
  <2>. QED  BY <1>6, <2>1, OwnTypesKept
<1>20. \A m \in Lock : /\ \A x \in Range(write'[m]) : /\ x \in Range(write[m])
                                                     /\ type'[x] = type[x]
                       /\ \A x \in read[m] : type'[x] = type[x]
  BY <1>9, <1>10, <1>12, <1>16
<1>21. SharedWrites'  BY <1>1, <1>6, <1>20 DEF SharedWrites
<1>22. ReadersAdmitted'  BY <1>1, <1>6, <1>20 DEF ReadersAdmitted
<1>23. NoInsertCount'  BY <1>1, <1>6, <1>20, CountKept
<1>. QED
  BY <1>14, <1>15, <1>17, <1>18, <1>19, <1>21, <1>22, <1>23 DEF IInv

(* Only the handler that inserts holds a write lock on the table.            *)
LEMMA InsertAlone ==
  ASSUME IInv, HandlerLock, NEW t \in Handler, pc[t] = "insert",
         type[This(t)] # TL_UNLOCK
  PROVE  /\ ~ cond[This(t)]
         /\ Range(write[LockOf[This(t)]]) = {This(t)}
<1>1. pc[t] \in Handling  BY DEF Handling
<1>2. PICK d \in Data : d = This(t)  BY <1>1, HandlerFacts
<1>3. PICK l \in Lock : l = LockOf[d]  BY Constants
<1>4. ~ cond[d]  BY <1>2 DEF HandlerLock
<1>5. d \in Range(write[l]) /\ thread[d] = t  BY <1>1, <1>2, <1>3, <1>4, HandlerFacts
<1>6. Range(write[l]) \subseteq Data  BY HeadFacts DEF IInv, TypeOK
<1>7. \A c \in Range(write[l]) : c = d
  <2>1. SUFFICES ASSUME NEW c \in Range(write[l]), c # d PROVE FALSE  OBVIOUS
  <2>2. thread[c] = thread[d]  BY <1>5, <2>1 DEF IInv, SharedWrites
  <2>. QED  BY <1>5, <1>6, <2>1, <2>2 DEF HandlerLock
<1>. QED  BY <1>2, <1>3, <1>4, <1>5, <1>7

LEMMA RescheduleIInv ==
  ASSUME IInv, HandlerLock, NEW t \in Handler, thr_reschedule_write_lock(t)
  PROVE  IInv'
<1>1. TypeOK /\ Placed /\ Control /\ Planned /\ Queued /\ OwnTypes /\ SharedWrites
      /\ NoInsertCount /\ ReadersAdmitted
  BY DEF IInv
<1>2. pc[t] = "insert" /\ type[This(t)] # TL_UNLOCK /\ pc[t] \in Handling
  BY DEF thr_reschedule_write_lock, Handling
<1>3. PICK d \in Data : d = This(t)  BY <1>2, HandlerFacts
<1>4. PICK l \in Lock : l = LockOf[d]  BY Constants
<1>5. PICK rw : rw = Range(read_wait[l])  OBVIOUS
<1>6. /\ type' = [type EXCEPT ![d] = TL_WRITE_DELAYED]
      /\ read_no_write_count' =
           [read_no_write_count EXCEPT
              ![l] = @ + Cardinality(OfType(rw, TL_READ_NO_INSERT))]
      /\ write_lock_count' = [write_lock_count EXCEPT ![l] = 0]
      /\ cond' = [x \in Data |-> \/ x = d
                                 \/ cond[x] /\ x \notin rw]
      /\ pc' = [pc EXCEPT ![t] = "reschedule"]
      /\ write' = [write EXCEPT ![LockOf[d]] = Without(@, d)]
      /\ write_wait' = [write_wait EXCEPT ![LockOf[d]] = <<d>> \o @]
      /\ read' = [read EXCEPT ![LockOf[d]] = @ \cup Range(read_wait[LockOf[d]])]
      /\ read_wait' = [read_wait EXCEPT ![LockOf[d]] = <<>>]
      /\ plan' = plan /\ pos' = pos /\ abort' = abort /\ thread' = thread
  BY <1>3, <1>4, <1>5 DEF thr_reschedule_write_lock
<1>7. Range(write[l]) = {d} /\ ~ cond[d]  BY <1>2, <1>3, <1>4, InsertAlone
<1>8. /\ t \in Thread /\ thread[d] = t /\ Listed(d) /\ type[d] # TL_UNLOCK
      /\ type[d] \in {TL_WRITE_DELAYED, TL_WRITE, TL_WRITE_ONLY}
  BY <1>2, <1>3, HandlerFacts DEF DelayedTypes
<1>9. Lists(l, read[l] \cup rw, {}, {}, Range(write_wait[l]) \cup {d})
  <2>1. /\ write_wait[l] \in Seq(Data) /\ read_wait[l] \in Seq(Data)
        /\ write[l] \in Seq(Data)
    BY <1>1 DEF TypeOK
  <2>2. rw \subseteq Data  BY <1>5, <2>1, HeadFacts
  <2>3. /\ Without(write[l], d) \in Seq(Data)
        /\ Range(Without(write[l], d)) = {}
    <3>1. Range(write[l]) \subseteq Data  BY <2>1, HeadFacts
    <3>2. /\ Without(write[l], d) \in Seq(Data)
          /\ Range(Without(write[l], d)) = Range(write[l]) \ {d}
      BY <2>1, <3>1, SubListFacts DEF Without
    <3>. QED  BY <1>7, <3>2
  <2>4. /\ <<d>> \o write_wait[l] \in Seq(Data)
        /\ Range(<<d>> \o write_wait[l]) = Range(write_wait[l]) \cup {d}
        /\ <<>> \in Seq(Data) /\ Range(<<>>) = {}
    BY <2>1, ConsFacts, EmptyFacts
  <2>. QED  BY <1>1, <1>4, <1>5, <1>6, <2>2, <2>3, <2>4 DEF Lists, TypeOK
<1>10. \A m \in Lock : /\ read[m] \subseteq Data /\ Range(write[m]) \subseteq Data
                       /\ Range(read_wait[m]) \subseteq Data
                       /\ Range(write_wait[m]) \subseteq Data
  BY <1>1, HeadFacts DEF TypeOK
<1>11. \A m \in Lock : /\ d \notin read[m] /\ d \notin Range(read_wait[m])
                       /\ d \notin Range(write_wait[m])
                       /\ d \in Range(write[m]) => m = l
  <2>1. type[d] \notin ReadType  BY <1>8
  <2>. QED  BY <1>1, <1>4, <1>7, <2>1 DEF Placed
<1>12. \A x \in rw : cond[x] /\ LockOf[x] = l /\ type[x] \in ReadType /\ x # d
  BY <1>1, <1>5, <1>10, <1>11 DEF Placed
<1>13. \A x \in Data : /\ type'[x] = IF x = d THEN TL_WRITE_DELAYED ELSE type[x]
                       /\ cond'[x] <=> x = d \/ (cond[x] /\ x \notin rw)
  BY <1>1, <1>6 DEF TypeOK
<1>14. \A x \in Data : /\ Listed(x)' <=> Listed(x)
                       /\ Waiting(x)' <=> (Waiting(x) /\ x \notin rw) \/ x = d
  <2>1. \A x \in Data : LockOf[x] = l =>
          /\ Listed(x)' <=> x \in (read[l] \cup rw) \cup {} \cup {} \cup (Range(write_wait[l]) \cup {d})
          /\ Waiting(x)' <=> x \in {} \cup (Range(write_wait[l]) \cup {d})
    BY <1>9, ListsListed
  <2>2. \A x \in Data : LockOf[x] # l =>
          /\ Listed(x)' <=> Listed(x)
          /\ Waiting(x)' <=> Waiting(x)
    BY <1>9, ListsListed
  <2>3. \A x \in Data : LockOf[x] = l =>
          /\ Listed(x) <=> x \in read[l] \cup {d} \cup rw \cup Range(write_wait[l])
          /\ Waiting(x) <=> x \in rw \cup Range(write_wait[l])
    BY <1>5, <1>7 DEF Listed, Waiting, Active
  <2>4. \A x \in Range(write_wait[l]) : x \notin rw
    <3>1. \A x \in Range(write_wait[l]) : type[x] \in WriteType
      BY <1>1, <1>10 DEF Placed
    <3>2. ReadType \cap WriteType = {}  OBVIOUS
    <3>. QED  BY <1>12, <3>1, <3>2
  <2>5. \A x \in Data : LockOf[x] = l =>
          /\ Listed(x)' <=> Listed(x)
          /\ Waiting(x)' <=> (Waiting(x) /\ x \notin rw) \/ x = d
    BY <2>1, <2>3, <2>4
  <2>6. \A x \in Data : LockOf[x] # l => x \notin rw /\ x # d
    BY <1>4, <1>12
  <2>. QED  BY <2>2, <2>5, <2>6
<1>15. /\ pc' \in [Thread -> PC]
       /\ \A u \in Thread \ {t} : pc'[u] = pc[u] /\ pos'[u] = pos[u] /\ plan'[u] = plan[u]
       /\ Control' /\ Planned'
  <2>1. \A x \in Data : /\ Listed(x)' <=> Listed(x)
                        /\ type'[x] = TL_UNLOCK <=> type[x] = TL_UNLOCK
                        /\ ~ Listed(x) => type'[x] = type[x]
    BY <1>8, <1>13, <1>14
  <2>2. "reschedule" \in Handling \ {"run"}  BY DEF Handling
  <2>. QED  BY <1>2, <1>6, <2>1, <2>2, HandlerLoop
<1>16. OfType(rw, TL_READ_NO_INSERT) \in SUBSET Data
       /\ Cardinality(OfType(rw, TL_READ_NO_INSERT)) \in Nat
       /\ IsFiniteSet(OfType(rw, TL_READ_NO_INSERT))
  <2>1. rw \in SUBSET Data  BY <1>5, <1>10
  <2>. QED  BY <2>1, FiniteParts
<1>17. TypeOK'
  <2>1. type' \in [Data -> LockType]
    <3>1. type \in [Data -> LockType] /\ TL_WRITE_DELAYED \in LockType
      BY <1>1 DEF TypeOK
    <3>. QED  BY <1>6, <3>1
  <2>2. cond' \in [Data -> BOOLEAN]
    <3>1. cond \in [Data -> BOOLEAN]  BY <1>1 DEF TypeOK
    <3>. QED  BY <1>6, <3>1
  <2>3. write_lock_count' \in [Lock -> 0 .. MaxWriteLockCount + 1]
    BY <1>1, <1>6, Constants DEF TypeOK
  <2>4. read_no_write_count' \in [Lock -> Nat]
    <3>1. read_no_write_count \in [Lock -> Nat]  BY <1>1 DEF TypeOK
    <3>2. read_no_write_count[l] + Cardinality(OfType(rw, TL_READ_NO_INSERT)) \in Nat
      BY <1>16, <3>1
    <3>. QED  BY <1>6, <3>1, <3>2
  <2>. QED  BY <1>1, <1>6, <1>9, <1>15, <2>1, <2>2, <2>3, <2>4 DEF TypeOK, Lists
<1>18. \A m \in Lock \ {l} : /\ read'[m] = read[m] /\ read_wait'[m] = read_wait[m]
                             /\ write'[m] = write[m] /\ write_wait'[m] = write_wait[m]
                             /\ read_no_write_count'[m] = read_no_write_count[m]
  BY <1>1, <1>6, <1>9 DEF Lists, TypeOK
<1>19. /\ read'[l] = read[l] \cup rw /\ Range(read_wait'[l]) = {}
       /\ Range(write'[l]) = {}
       /\ Range(write_wait'[l]) = Range(write_wait[l]) \cup {d}
  BY <1>9 DEF Lists
<1>20. Placed'
  <2>1. \A x \in Data : /\ x \in read[l] \cup rw => type'[x] \in ReadType /\ ~ cond'[x]
                        /\ x \in read[l] \cup rw => LockOf[x] = l
    BY <1>1, <1>11, <1>12, <1>13 DEF Placed
  <2>2. TL_WRITE_DELAYED \in WriteType  OBVIOUS
  <2>3. \A x \in Range(write_wait[l]) :
          x # d /\ x \notin rw /\ cond[x] /\ LockOf[x] = l /\ type[x] \in WriteType
    <3>1. \A x \in Range(write_wait[l]) :
            x # d /\ cond[x] /\ LockOf[x] = l /\ type[x] \in WriteType
      BY <1>1, <1>10, <1>11 DEF Placed
    <3>2. ReadType \cap WriteType = {}  OBVIOUS
    <3>. QED  BY <1>12, <3>1, <3>2
  <2>4. \A x \in Data : x \in Range(write_wait[l]) \cup {d} =>
          LockOf[x] = l /\ type'[x] \in WriteType /\ cond'[x]
    BY <1>4, <1>13, <2>2, <2>3
  <2>5. ASSUME NEW m \in Lock \ {l}, NEW x \in Data, x \in read[m] \cup Range(read_wait[m])
                  \cup Range(write[m]) \cup Range(write_wait[m])
        PROVE  type'[x] = type[x] /\ (cond'[x] <=> cond[x])
    <3>1. LockOf[x] = m  BY <1>1, <2>5 DEF Placed
    <3>2. x # d /\ x \notin rw  BY <1>4, <1>12, <3>1
    <3>. QED  BY <1>13, <3>2
  <2>6. \A x \in Data : /\ x \in read'[l] => x \in read[l] \cup rw
                        /\ x \notin Range(read_wait'[l])
                        /\ x \notin Range(write'[l])
                        /\ x \in Range(write_wait'[l]) => x \in Range(write_wait[l]) \cup {d}
    BY <1>19
  <2>7. ASSUME NEW m \in Lock, NEW x \in Data
        PROVE  /\ x \in read'[m] =>
                    LockOf[x] = m /\ type'[x] \in ReadType /\ ~ cond'[x]
               /\ x \in Range(read_wait'[m]) =>
                    LockOf[x] = m /\ type'[x] \in ReadType /\ cond'[x]
               /\ x \in Range(write'[m]) =>
                    LockOf[x] = m /\ type'[x] \in WriteType \cup {TL_WRITE_ONLY} /\ ~ cond'[x]
               /\ x \in Range(write_wait'[m]) =>
                    LockOf[x] = m /\ type'[x] \in WriteType /\ cond'[x]
    <3>1. CASE m = l  BY <2>1, <2>4, <2>6, <3>1
    <3>2. CASE m # l  BY <1>1, <1>18, <2>5, <3>2 DEF Placed
    <3>. QED  BY <3>1, <3>2
  <2>. QED  BY <2>7 DEF Placed
<1>21. Queued'
  <2>1. \A x \in Data : Waiting(x)' =>
          \/ Waiting(x) /\ thread[x] # t /\ type'[x] = type[x]
          \/ thread[x] \in Handler /\ type'[x] \in WriteType
    <3>1. pc[t] # "wait" /\ TL_WRITE_DELAYED \in WriteType  BY <1>2
    <3>2. \A x \in Data : Waiting(x) /\ thread[x] = t => type[x] \in WriteType
      BY <1>8, <3>1, NotQueued
    <3>. QED  BY <1>8, <1>13, <1>14, <3>1, <3>2
  <2>. QED  BY <1>6, <1>8, <1>15, <2>1, QueuedKept
<1>22. OwnTypes'
  <2>1. ASSUME NEW x \in Data, NEW y \in Data, x # y, LockOf[x] = LockOf[y],
               thread[x] = thread[y], thread[y] \in Thread,
               type'[x] \in WriteType, type'[y] \in WriteType
        PROVE  \/ type'[x] = TL_WRITE_ALLOW_WRITE /\ type'[y] = TL_WRITE_ALLOW_WRITE
               \/ {type'[x], type'[y]} \subseteq {TL_WRITE_LOW_PRIORITY, TL_WRITE}
    <3>1. thread[y] \notin Handler  BY <2>1 DEF HandlerLock
    <3>2. x # d /\ y # d  BY <1>8, <2>1, <3>1
    <3>3. type'[x] = type[x] /\ type'[y] = type[y]  BY <1>13, <3>2
    <3>. QED  BY <1>1, <2>1, <3>3 DEF OwnTypes
  <2>2. \A x \in Data : /\ thread[x] \in Handler => type'[x] \in DelayedTypes
                        /\ thread[x] \in Thread \ Handler => type'[x] # TL_WRITE_DELAYED
    BY <1>1, <1>8, <1>13 DEF OwnTypes, DelayedTypes
  <2>. QED  BY <1>6, <2>1, <2>2 DEF OwnTypes
<1>23. \A m \in Lock \ {l} : /\ \A x \in Range(write[m]) : type'[x] = type[x]
                             /\ \A x \in read[m] : type'[x] = type[x]
  BY <1>10, <1>11, <1>13
<1>24. SharedWrites'
  <2>1. \A m \in Lock : \A x \in Range(write'[m]) :
          x \in Range(write[m]) /\ type'[x] = type[x]
    BY <1>18, <1>19, <1>23
  <2>. QED  BY <1>1, <1>6, <2>1 DEF SharedWrites
<1>25. ReadersAdmitted'
  <2>1. \A m \in Lock : \A r \in read'[m], w \in Range(write'[m]) :
          r \in read[m] /\ w \in Range(write[m]) /\ type'[r] = type[r] /\ type'[w] = type[w]
    BY <1>18, <1>19, <1>23
  <2>. QED  BY <1>1, <1>6, <2>1 DEF ReadersAdmitted
<1>26. NoInsertCount'
  <2>. DEFINE A == OfType(read[l], TL_READ_NO_INSERT)
              B == OfType(rw, TL_READ_NO_INSERT)
  <2>1. OfType(read[l], TL_READ_NO_INSERT)' = A \cup B
    <3>1. \A x \in read'[l] : type'[x] = type[x]
      <4>1. \A x \in read[l] \cup rw : x \in Data /\ x # d
        BY <1>5, <1>10, <1>11, <1>12
      <4>. QED  BY <1>13, <1>19, <4>1
    <3>. QED  BY <1>19, <3>1 DEF OfType
  <2>2. IsFiniteSet(A) /\ IsFiniteSet(B) /\ Cardinality(A) \in Nat
        /\ Cardinality(B) \in Nat
    BY <1>10, <1>16, FiniteParts
  <2>3. A \cap B = {}
    <3>1. \A x \in read[l] : ~ cond[x]  BY <1>1, <1>10 DEF Placed
    <3>. QED  BY <1>12, <3>1 DEF OfType
  <2>. HIDE DEF A, B
  <2>4. Cardinality(A \cup B) = Cardinality(A) + Cardinality(B)
    <3>1. Cardinality(A \cup B) = Cardinality(A) + Cardinality(B) - Cardinality(A \cap B)
      BY <2>2, FS_Union
    <3>2. Cardinality(A \cap B) = 0  BY <2>3, FS_EmptySet
    <3>. QED  BY <2>2, <3>1, <3>2
  <2>5. read_no_write_count[l] = Cardinality(A)  BY <1>1 DEF NoInsertCount, A
  <2>6. read_no_write_count'[l] = read_no_write_count[l] + Cardinality(B)
    BY <1>1, <1>6 DEF TypeOK, B
  <2>7. read_no_write_count'[l] = Cardinality(OfType(read[l], TL_READ_NO_INSERT)')
    BY <2>1, <2>4, <2>5, <2>6
  <2>8. \A m \in Lock \ {l} : OfType(read[m], TL_READ_NO_INSERT)'
                                = OfType(read[m], TL_READ_NO_INSERT)
    BY <1>18, <1>23 DEF OfType
  <2>. QED  BY <1>1, <1>18, <2>7, <2>8 DEF NoInsertCount
<1>. QED
  BY <1>15, <1>17, <1>20, <1>21, <1>22, <1>24, <1>25, <1>26 DEF IInv

-----------------------------------------------------------------------------
(* The delayed handlers' locks.                                              *)

(* A step of t that leaves the instances of the other handlers as they were, *)
(* except that it may grant them.                                            *)
LEMMA HandlerLockKept ==
  ASSUME Inductive, NEW t \in Thread,
         \A c, d \in Data : thread'[c] = thread'[d] /\ thread'[d] \in Handler => c = d,
         \A u \in Thread \ {t} : pc'[u] = pc[u] /\ pos'[u] = pos[u] /\ plan'[u] = plan[u],
         \A x \in Data : thread[x] \in Handler \ {t} /\ cond'[x] =>
           cond[x] /\ type'[x] = type[x],
         \A x \in Data :
           /\ t \in Handler /\ pc'[t] \in {"run", "reschedule", "insert"}
           /\ x = plan'[t][pos'[t]] /\ cond'[x]
           => pc'[t] # "insert" /\ type'[x] = TL_WRITE_DELAYED,
         \A u \in Handler : pc'[u] \in {"run", "reschedule", "insert"} =>
           plan'[u][pos'[u]] \in Data
  PROVE  HandlerLock'
<1>1. ASSUME NEW u \in Handler, NEW x \in Data, x = plan'[u][pos'[u]],
             pc'[u] \in {"run", "reschedule", "insert"}, cond'[x]
      PROVE  pc'[u] # "insert" /\ type'[x] = TL_WRITE_DELAYED
  <2>1. CASE u = t  BY <1>1, <2>1
  <2>2. CASE u # t
    <3>1. u \in Thread \ {t}  BY <2>2, Constants
    <3>2. pc[u] \in Handling /\ x = This(u)
      BY <1>1, <3>1 DEF Handling, This
    <3>3. thread[x] = u  BY <3>2, HandlerFacts DEF Inductive
    <3>4. cond[x] /\ type'[x] = type[x]  BY <1>1, <2>2, <3>3
    <3>. QED  BY <1>1, <3>1, <3>2, <3>4 DEF Inductive, HandlerLock
  <2>. QED  BY <2>1, <2>2
<1>2. \A u \in Handler : pc'[u] \in {"run", "reschedule", "insert"}
        /\ cond'[plan'[u][pos'[u]]] =>
        pc'[u] # "insert" /\ type'[plan'[u][pos'[u]]] = TL_WRITE_DELAYED
  BY <1>1
<1>. QED  BY <1>2 DEF HandlerLock, This

(* The steps of a thread that ends its wait or its loop over its locks, or   *)
(* leaves its instances alone.                                               *)
LEMMA LoopHandlerLock ==
  ASSUME Inductive, IInv', NEW t \in Thread, thread' = thread,
         \A u \in Thread \ {t} : pc'[u] = pc[u] /\ pos'[u] = pos[u] /\ plan'[u] = plan[u],
         \A x \in Data : thread[x] \in Handler \ {t} /\ cond'[x] =>
           cond[x] /\ type'[x] = type[x],
         \A x \in Data : t \in Handler /\ thread[x] = t /\ cond'[x]
           /\ pc'[t] \in {"run", "reschedule", "insert"} =>
              pc'[t] # "insert" /\ type'[x] = TL_WRITE_DELAYED
  PROVE  HandlerLock'
<1>1. \A u \in Handler : pc'[u] \in {"run", "reschedule", "insert"} =>
        plan'[u][pos'[u]] \in Data /\ thread'[plan'[u][pos'[u]]] = u
  <2>1. \A u \in Handler : pc'[u] \in {"run", "reschedule", "insert"} =>
          /\ plan'[u] \in Seq(Data) /\ pos'[u] = 1 /\ Len(plan'[u]) = 1
    BY Constants DEF IInv, TypeOK, Control
  <2>2. \A u \in Handler : pc'[u] \in {"run", "reschedule", "insert"} =>
          pos'[u] \in DOMAIN plan'[u] /\ plan'[u][pos'[u]] \in Data
    BY <2>1
  <2>. QED  BY <2>2, Constants DEF IInv, Planned
<1>2. \A c, d \in Data : thread'[c] = thread'[d] /\ thread'[d] \in Handler => c = d
  BY DEF Inductive, HandlerLock
<1>3. \A x \in Data :
        /\ t \in Handler /\ pc'[t] \in {"run", "reschedule", "insert"}
        /\ x = plan'[t][pos'[t]] /\ cond'[x]
        => pc'[t] # "insert" /\ type'[x] = TL_WRITE_DELAYED
  BY <1>1
<1>. QED  BY <1>1, <1>2, <1>3, HandlerLockKept

(* What the instance t's loop is at has to do with the other handlers.       *)
LEMMA OwnInstance ==
  ASSUME Inductive, NEW t \in Thread,
         \/ pc[t] \in {"lock", "wait"}
         \/ pc[t] = "unlock" /\ pos[t] <= Len(plan[t])
         \/ t \in Handler /\ pc[t] \in Handling
  PROVE  /\ This(t) \in Data /\ thread[This(t)] = t
         /\ \A x \in Data : t \in Handler /\ thread[x] = t => x = This(t)
         /\ \A x \in Data : thread[x] \in Handler \ {t} => x # This(t)
<1>1. This(t) \in Data /\ pos[t] \in DOMAIN plan[t] /\ This(t) = plan[t][pos[t]]
  BY ThisFacts DEF Inductive, IInv, Handling
<1>2. thread[This(t)] = t  BY <1>1 DEF Inductive, IInv, Planned
<1>. QED  BY <1>1, <1>2 DEF Inductive, HandlerLock

LEMMA MultiLockHandlerLock ==
  ASSUME Inductive, NEW t \in Thread, thr_multi_lock(t)
  PROVE  HandlerLock'
<1>1. TypeOK /\ Control /\ Planned /\ HandlerLock  BY DEF Inductive, IInv
<1>2. PICK req \in Request[t] :
        /\ \A x \in DOMAIN req : thread[x] = NoThread
        /\ type' = [x \in Data |-> IF x \in DOMAIN req THEN req[x] ELSE type[x]]
        /\ thread' = [x \in Data |-> IF x \in DOMAIN req THEN t ELSE thread[x]]
        /\ \E s \in Bijection(1 .. Cardinality(DOMAIN req), DOMAIN req) :
             plan' = [plan EXCEPT ![t] = s]
  BY DEF thr_multi_lock
<1>3. /\ pc[t] = "idle" /\ pos' = [pos EXCEPT ![t] = 1]
      /\ pc' = [pc EXCEPT ![t] = "lock"] /\ cond' = cond
  BY DEF thr_multi_lock
<1>4. /\ \A u \in Thread \ {t} : pc'[u] = pc[u] /\ pos'[u] = pos[u] /\ plan'[u] = plan[u]
      /\ pc'[t] = "lock"
  BY <1>1, <1>2, <1>3 DEF TypeOK
<1>5. DOMAIN req \in SUBSET Data /\ (t \in Handler => Cardinality(DOMAIN req) = 1)
  BY RequestFacts
<1>6. ASSUME t \in Handler
      PROVE  \A c, d \in DOMAIN req : c = d
  <2>1. IsFiniteSet(DOMAIN req)  BY <1>5, Constants, FS_Subset
  <2>2. PICK e : DOMAIN req = {e}  BY <1>5, <1>6, <2>1, FS_Singleton
  <2>. QED  BY <2>2
<1>7. ASSUME NEW c \in Data, NEW d \in Data, thread'[c] = thread'[d], thread'[d] \in Handler
      PROVE  c = d
  <2>1. \A x \in Data : thread[x] # t  BY <1>1, <1>3 DEF Control
  <2>2. CASE thread'[d] = t
    <3>1. c \in DOMAIN req /\ d \in DOMAIN req  BY <1>2, <1>7, <2>1, <2>2
    <3>. QED  BY <1>6, <1>7, <2>2, <3>1
  <2>3. CASE thread'[d] # t
    <3>1. thread'[c] = thread[c] /\ thread'[d] = thread[d]  BY <1>2, <1>7, <2>3
    <3>. QED  BY <1>1, <1>7, <3>1 DEF HandlerLock
  <2>. QED  BY <2>2, <2>3
<1>8. \A x \in Data : thread[x] \in Handler \ {t} => type'[x] = type[x]
  BY <1>2, Constants
<1>9. \A u \in Handler : pc'[u] \in {"run", "reschedule", "insert"} =>
        plan'[u][pos'[u]] \in Data
  <2>1. \A u \in Handler : pc[u] \in Handling => plan[u][pos[u]] \in Data
    BY HandlerFacts DEF Inductive
  <2>. QED  BY <1>4, <2>1, Constants DEF Handling
<1>. QED  BY <1>3, <1>4, <1>7, <1>8, <1>9, HandlerLockKept

LEMMA StatementEndHandlerLock ==
  ASSUME Inductive, NEW t \in Thread, statement_end(t)
  PROVE  HandlerLock'
<1>1. TypeOK /\ HandlerLock  BY DEF Inductive, IInv
<1>2. /\ thread' = [x \in Data |-> IF thread[x] = t THEN NoThread ELSE thread[x]]
      /\ plan' = [plan EXCEPT ![t] = <<>>]
      /\ pos' = [pos EXCEPT ![t] = 1]
      /\ pc' = [pc EXCEPT ![t] = "idle"]
      /\ cond' = cond /\ type' = type
  BY DEF statement_end, locks
<1>3. /\ \A u \in Thread \ {t} : pc'[u] = pc[u] /\ pos'[u] = pos[u] /\ plan'[u] = plan[u]
      /\ pc'[t] = "idle"
  BY <1>1, <1>2 DEF TypeOK
<1>4. \A c, d \in Data : thread'[c] = thread'[d] /\ thread'[d] \in Handler => c = d
  BY <1>1, <1>2, Constants DEF HandlerLock
<1>5. \A u \in Handler : pc'[u] \in {"run", "reschedule", "insert"} =>
        plan'[u][pos'[u]] \in Data
  <2>1. \A u \in Handler : pc[u] \in Handling => plan[u][pos[u]] \in Data
    BY HandlerFacts DEF Inductive
  <2>. QED  BY <1>3, <2>1, Constants DEF Handling
<1>. QED  BY <1>2, <1>3, <1>4, <1>5, HandlerLockKept

LEMMA LockHandlerLock ==
  ASSUME Inductive, IInv', NEW t \in Thread,
         \/ thr_lock_read(t) \/ thr_lock_write(t) \/ thr_lock_delayed(t)
         \/ thr_lock_refused(t) \/ thr_lock_wait(t)
         \/ wait_granted(t) \/ wait_aborted(t) \/ wait_killed(t)
  PROVE  HandlerLock'
<1>1. TypeOK /\ HandlerLock  BY DEF Inductive, IInv
<1>2. pc[t] \in {"lock", "wait"} /\ thread' = thread
  BY DEF thr_lock_read, thr_lock_write, thr_lock_delayed, thr_lock_refused,
         thr_lock_wait, wait_granted, wait_aborted, wait_killed
<1>3. PICK d \in Data : d = This(t)  BY <1>2, OwnInstance
<1>4. /\ \A x \in Data : t \in Handler /\ thread[x] = t => x = d
      /\ \A x \in Data : thread[x] \in Handler \ {t} => x # d
  BY <1>2, <1>3, OwnInstance
<1>5. \A u \in Thread \ {t} : pc'[u] = pc[u] /\ pos'[u] = pos[u] /\ plan'[u] = plan[u]
  BY <1>1 DEF TypeOK, Locked, Failed,
         thr_lock_read, thr_lock_write, thr_lock_delayed, thr_lock_refused,
         thr_lock_wait, wait_granted, wait_aborted, wait_killed
<1>6. \A x \in Data \ {d} : (cond'[x] <=> cond[x]) /\ type'[x] = type[x]
  BY <1>1, <1>3 DEF TypeOK, locks,
         thr_lock_read, thr_lock_write, thr_lock_delayed, thr_lock_refused,
         thr_lock_wait, wait_granted, wait_aborted, wait_killed
<1>7. pc'[t] \in {"run", "reschedule", "insert"} /\ cond'[d]
        => pc'[t] # "insert" /\ type'[d] = TL_WRITE_DELAYED
  <2>1. CASE thr_lock_read(t) \/ thr_lock_write(t)
    BY <1>1, <1>3, <2>1 DEF TypeOK, thr_lock_read, thr_lock_write
  <2>2. CASE thr_lock_delayed(t)
    <3>1. Locked(t) /\ type' = type /\ type[d] = TL_WRITE_DELAYED
      BY <1>3, <2>2 DEF thr_lock_delayed, QueueDelayed
    <3>2. pc'[t] # "insert"  BY <1>1, <3>1 DEF Locked, TypeOK
    <3>. QED  BY <3>1, <3>2
  <2>3. CASE wait_granted(t)  BY <1>1, <1>3, <2>3 DEF wait_granted, locks
  <2>4. CASE thr_lock_refused(t) \/ wait_aborted(t) \/ wait_killed(t)
    <3>1. Failed(t)  BY <2>4 DEF thr_lock_refused, wait_aborted, wait_killed
    <3>2. pc'[t] = "unlock"  BY <1>1, <3>1 DEF Failed, TypeOK
    <3>. QED  BY <3>2
  <2>5. CASE thr_lock_wait(t)  BY <1>1, <2>5 DEF thr_lock_wait, TypeOK
  <2>. QED  BY <2>1, <2>2, <2>3, <2>4, <2>5
<1>. QED  BY <1>2, <1>4, <1>5, <1>6, <1>7, LoopHandlerLock

LEMMA StageHandlerLock ==
  ASSUME Inductive, IInv', NEW t \in Thread,
         run_done(t) \/ skip_unlock(t) \/ (t \in Handler /\ Upgrade(t))
  PROVE  HandlerLock'
<1>1. TypeOK /\ HandlerLock  BY DEF Inductive, IInv
<1>2. CASE run_done(t) \/ skip_unlock(t)
  <2>1. /\ cond' = cond /\ type' = type /\ thread' = thread /\ plan' = plan
        /\ \A u \in Thread \ {t} : pc'[u] = pc[u] /\ pos'[u] = pos[u]
        /\ pc'[t] = "unlock"
    BY <1>1, <1>2 DEF run_done, skip_unlock, locks, TypeOK
  <2>. QED  BY <2>1, LoopHandlerLock
<1>3. CASE t \in Handler /\ Upgrade(t)
  <2>1. pc[t] \in Handling
    BY <1>3 DEF Upgrade, Handling, upgrade_done, upgrade_at_once, upgrade_wait,
                upgrade_woken, thr_reschedule_write_lock, inserts_done
  <2>2. PICK d \in Data : d = This(t)  BY <1>3, <2>1, OwnInstance
  <2>3. /\ \A x \in Data : thread[x] = t => x = d
        /\ \A x \in Data : thread[x] \in Handler \ {t} => x # d
    BY <1>3, <2>1, <2>2, OwnInstance
  <2>4. /\ thread' = thread /\ plan' = plan /\ pos' = pos
        /\ \A u \in Thread \ {t} : pc'[u] = pc[u]
    BY <1>1, <1>3 DEF Upgrade, upgrade_done, upgrade_at_once, upgrade_wait,
         upgrade_woken, thr_reschedule_write_lock, inserts_done, TypeOK,
         Upgraded, NotUpgraded
  <2>5. \A x \in Data \ {d} : (cond'[x] => cond[x]) /\ type'[x] = type[x]
    BY <1>1, <1>3, <2>2 DEF Upgrade, upgrade_done, upgrade_at_once, upgrade_wait,
         upgrade_woken, thr_reschedule_write_lock, inserts_done, TypeOK, locks
  <2>6. pc[t] \in {"run", "reschedule", "insert"} /\ cond[d] =>
          pc[t] # "insert" /\ type[d] = TL_WRITE_DELAYED
    BY <1>1, <1>3, <2>2 DEF HandlerLock
  <2>7. pc'[t] \in {"run", "reschedule", "insert"} /\ cond'[d]
          => pc'[t] # "insert" /\ type'[d] = TL_WRITE_DELAYED
    <3>1. CASE upgrade_done(t)
      BY <2>2, <2>6, <3>1 DEF upgrade_done, MustUpgrade, locks
    <3>2. CASE upgrade_at_once(t)
      BY <2>2, <3>2 DEF upgrade_at_once
    <3>3. CASE upgrade_wait(t)
      BY <1>1, <3>3 DEF upgrade_wait, TypeOK
    <3>4. CASE upgrade_woken(t)
      BY <2>2, <3>4 DEF upgrade_woken, locks
    <3>5. CASE thr_reschedule_write_lock(t)
      <4>1. pc' = [pc EXCEPT ![t] = "reschedule"]
            /\ type' = [type EXCEPT ![d] = TL_WRITE_DELAYED]
        BY <2>2, <3>5 DEF thr_reschedule_write_lock
      <4>. QED  BY <1>1, <4>1 DEF TypeOK
    <3>6. CASE inserts_done(t)
      BY <1>1, <2>6, <3>6 DEF inserts_done, locks, TypeOK
    <3>. QED  BY <1>3, <3>1, <3>2, <3>3, <3>4, <3>5, <3>6 DEF Upgrade
  <2>. QED  BY <2>3, <2>4, <2>5, <2>7, LoopHandlerLock
<1>. QED  BY <1>2, <1>3

LEMMA UnlockHandlerLock ==
  ASSUME Inductive, IInv', NEW t \in Thread, thr_unlock(t)
  PROVE  HandlerLock'
<1>1. TypeOK /\ HandlerLock /\ OwnTypes /\ IInv  BY DEF Inductive, IInv
<1>2. /\ pc[t] = "unlock" /\ pos[t] <= Len(plan[t])
      /\ pos' = [pos EXCEPT ![t] = pos[t] + 1]
      /\ plan' = plan /\ pc' = pc /\ thread' = thread
  BY DEF thr_unlock
<1>3. PICK d \in Data : d = This(t)  BY <1>2, OwnInstance
<1>4. PICK W \in SUBSET Data, R \in SUBSET Data, n \in 0 .. MaxWriteLockCount + 1 :
        LetsIn(d, W, R, n) /\ Unlocks(d, W, R)
  BY <1>1, <1>3, UnlockLists
<1>5. \A x \in Data : cond'[x] => cond[x]  BY <1>4 DEF Unlocks
<1>6. \A x \in Data : thread[x] \in Handler \ {t} => x # d
  BY <1>2, <1>3, OwnInstance
<1>7. \A x \in Data : thread[x] \in Handler \ {t} => type'[x] = type[x]
  <2>1. type \in [Data -> LockType]  BY <1>1 DEF TypeOK
  <2>2. \A x \in Data : thread[x] \in Handler => type[x] # TL_WRITE_CONCURRENT_INSERT
    BY <1>1 DEF OwnTypes, DelayedTypes
  <2>3. \/ type' = [type EXCEPT ![d] = TL_UNLOCK]
        \/ \E h \in Range(write_wait[LockOf[d]]) \ {d} :
             /\ type[h] = TL_WRITE_CONCURRENT_INSERT
             /\ type' = [type EXCEPT ![d] = TL_UNLOCK, ![h] = TL_WRITE]
    BY <1>4 DEF LetsIn
  <2>. QED  BY <1>6, <2>1, <2>2, <2>3
<1>8. \A u \in Thread \ {t} : pos'[u] = pos[u]  BY <1>1, <1>2 DEF TypeOK
<1>. QED  BY <1>2, <1>5, <1>7, <1>8, LoopHandlerLock

LEMMA AbortHandlerLock ==
  ASSUME Inductive, IInv', NEW t \in Thread, thr_abort_locks(t) \/ kill(t),
         t \notin Handler
  PROVE  HandlerLock'
<1>1. thread' = thread /\ plan' = plan /\ pos' = pos /\ pc' = pc
  BY DEF thr_abort_locks, kill, control
<1>2. \A x \in Data : cond'[x] => cond[x] /\ type'[x] = type[x]
  <2>1. CASE kill(t)  BY <2>1 DEF kill, locks
  <2>2. CASE thr_abort_locks(t)
    <3>1. PICK l : LET waiting == Range(read_wait[l]) \cup Range(write_wait[l])
                       closed  == IF write[l] = <<>> THEN {} ELSE {Head(write[l])}
                   IN  /\ l \in Lock
                       /\ type' = [d \in Data |-> IF d \in waiting THEN TL_UNLOCK
                                                  ELSE IF d \in closed THEN TL_WRITE_ONLY
                                                  ELSE type[d]]
                       /\ cond' = [d \in Data |-> cond[d] /\ d \notin waiting]
      <4>1. Range(plan[t]) \subseteq Data
        BY HeadFacts DEF Inductive, IInv, TypeOK
      <4>2. {LockOf[d] : d \in {x \in Range(plan[t]) : type[x] # TL_UNLOCK}} \subseteq Lock
        BY <4>1, Constants
      <4>. QED  BY <2>2, <4>2 DEF thr_abort_locks
    <3>2. \A x \in Data : write[l] # <<>> /\ x = Head(write[l]) => ~ cond[x]
      <4>1. write[l] \in Seq(Data)  BY <3>1 DEF Inductive, IInv, TypeOK
      <4>2. write[l] # <<>> => Head(write[l]) \in Range(write[l])
        BY <4>1, HeadFacts
      <4>. QED  BY <3>1, <4>2 DEF Inductive, IInv, Placed
    <3>. QED  BY <3>1, <3>2
  <2>. QED  BY <2>1, <2>2
<1>. QED  BY <1>1, <1>2, LoopHandlerLock

-----------------------------------------------------------------------------
(* Every step keeps the invariant. *)
LEMMA UnchangedInductive ==
  ASSUME Inductive, UNCHANGED vars
  PROVE  Inductive'
<1>1. UNCHANGED <<locks, thread>> /\ plan' = plan /\ pos' = pos /\ pc' = pc
      /\ abort' = abort /\ thread' = thread /\ type' = type /\ cond' = cond
  BY DEF vars, locks, lists, counts
<1>2. IInv /\ TypeOK /\ Control /\ Planned /\ Queued  BY DEF Inductive, IInv
<1>3. /\ Placed' /\ OwnTypes' /\ SharedWrites' /\ NoInsertCount'
      /\ ReadersAdmitted'
      /\ \A x \in Data : /\ Listed(x)' <=> Listed(x)
                         /\ Waiting(x)' <=> Waiting(x)
  BY <1>1, <1>2, Quiet
<1>4. TypeOK'  BY <1>1, <1>2, QuietTypes DEF TypeOK
<1>5. Control'  BY <1>1, <1>2 DEF Control
<1>6. Planned'
  <2>1. \A u \in Thread : \A i \in DOMAIN plan[u] : plan[u][i] \in Data
    BY <1>2 DEF TypeOK
  <2>2. \A u \in Thread : \A i \in DOMAIN plan[u] :
          /\ ToLock(u, i)' <=> ToLock(u, i)
          /\ Unlocked(u, i)' <=> Unlocked(u, i)
    BY <1>1 DEF ToLock, Unlocked
  <2>3. ASSUME NEW u \in Thread, NEW i \in DOMAIN plan[u], NEW x \in Data, x = plan[u][i]
        PROVE  /\ thread[x] = u
               /\ ToLock(u, i) => ~ Listed(x)' /\ type[x] \in ReadType \cup WriteType
               /\ Unlocked(u, i) => ~ Listed(x)'
               /\ ~ ToLock(u, i) /\ ~ Unlocked(u, i) => (Listed(x)' <=> type[x] # TL_UNLOCK)
    BY <1>2, <1>3, <2>3 DEF Planned
  <2>4. \A x \in Data : Listed(x)' =>
          \E u \in Thread : thread[x] = u /\ x \in Range(plan[u])
    BY <1>2, <1>3 DEF Planned
  <2>. QED  BY <1>1, <2>1, <2>2, <2>3, <2>4 DEF Planned
<1>7. Queued'  BY <1>1, <1>2, <1>3 DEF Queued, This
<1>8. HandlerLock'  BY <1>1 DEF Inductive, HandlerLock, This
<1>. QED  BY <1>3, <1>4, <1>5, <1>6, <1>7, <1>8 DEF Inductive, IInv

LEMMA InductiveStep ==
  Inductive /\ [Next]_vars => Inductive'
<1>. SUFFICES ASSUME Inductive, [Next]_vars PROVE Inductive'  OBVIOUS
<1>0. IInv /\ HandlerLock  BY DEF Inductive
<1>1. ASSUME NEW t \in Thread, thr_multi_lock(t) PROVE Inductive'
  BY <1>0, <1>1, MultiLockIInv, MultiLockHandlerLock DEF Inductive
<1>2. ASSUME NEW t \in Thread, Step(t) PROVE Inductive'
  <2>1. CASE \/ thr_lock_read(t) \/ thr_lock_write(t) \/ thr_lock_delayed(t)
             \/ thr_lock_refused(t) \/ thr_lock_wait(t)
             \/ wait_granted(t) \/ wait_aborted(t) \/ wait_killed(t)
    <3>1. IInv'
      BY <1>0, <2>1, LockReadIInv, LockWriteIInv, LockDelayedIInv, LockRefusedIInv,
         LockWaitIInv, WaitGrantedIInv, WaitAbortedIInv, WaitKilledIInv
    <3>. QED  BY <2>1, <3>1, LockHandlerLock DEF Inductive
  <2>2. CASE run_done(t) \/ skip_unlock(t)
    <3>1. IInv'  BY <1>0, <2>2, StagesIInv
    <3>. QED  BY <2>2, <3>1, StageHandlerLock DEF Inductive
  <2>3. CASE thr_unlock(t)
    <3>1. IInv'  BY <1>0, <2>3, UnlockIInv
    <3>. QED  BY <2>3, <3>1, UnlockHandlerLock DEF Inductive
  <2>4. CASE statement_end(t)
    BY <1>0, <2>4, StatementEndIInv, StatementEndHandlerLock DEF Inductive
  <2>. QED  BY <1>2, <2>1, <2>2, <2>3, <2>4 DEF Step
<1>3. ASSUME NEW t \in Handler, Upgrade(t) PROVE Inductive'
  <2>1. t \in Thread  BY Constants
  <2>2. IInv'
    BY <1>0, <1>3, <2>1, StagesIInv, UpgradeAtOnceIInv, UpgradeWaitIInv, RescheduleIInv
    DEF Upgrade
  <2>. QED  BY <1>3, <2>1, <2>2, StageHandlerLock DEF Inductive
<1>4. ASSUME NEW t \in Aborter, thr_abort_locks(t) PROVE Inductive'
  <2>1. t \in Thread /\ t \notin Handler  BY ThrLockAssumption
  <2>2. IInv'  BY <1>0, <1>4, <2>1, AbortIInv
  <2>. QED  BY <1>4, <2>1, <2>2, AbortHandlerLock DEF Inductive
<1>5. ASSUME NEW t \in Killable, kill(t) PROVE Inductive'
  <2>1. t \in Thread /\ t \notin Handler  BY ThrLockAssumption
  <2>2. IInv'  BY <1>0, <1>5, <2>1, KillIInv
  <2>. QED  BY <1>5, <2>1, <2>2, AbortHandlerLock DEF Inductive
<1>6. CASE UNCHANGED vars  BY <1>6, UnchangedInductive
<1>. QED  BY <1>1, <1>2, <1>3, <1>4, <1>5, <1>6 DEF Next

LEMMA InitInductive ==
  Init => Inductive
<1>. SUFFICES ASSUME Init PROVE Inductive  OBVIOUS
<1>1. IInv  BY InitIInv
<1>2. HandlerLock
  <2>1. \A t \in Handler : pc[t] = "idle"  BY Constants DEF Init
  <2>2. \A d \in Data : thread[d] \notin Handler  BY Constants DEF Init
  <2>. QED  BY <2>1, <2>2 DEF HandlerLock
<1>. QED  BY <1>1, <1>2 DEF Inductive

-----------------------------------------------------------------------------
(* The invariant holds in every state: thr_lock.c keeps its lists, counters  *)
(* and lock instances in agreement in every interleaving of its callers.     *)
THEOREM InvariantHolds == Spec => []Inductive
<1>. QED  BY InitInductive, InductiveStep, PTL DEF Spec

(* Every variable keeps its kind; write_lock_count never passes              *)
(* max_write_lock_count by more than one.                                    *)
THEOREM TypesHold == Spec => []TypeOK
<1>1. Inductive => TypeOK  BY DEF Inductive, IInv
<1>. QED  BY <1>1, InvariantHolds, PTL

(* read_no_write_count always equals the number of TL_READ_NO_INSERT locks   *)
(* granted, so thr_lock and thr_unlock may decide from it alone.             *)
THEOREM NoInsertCountHolds == Spec => []NoInsertCount
<1>1. Inductive => NoInsertCount  BY DEF Inductive, IInv
<1>. QED  BY <1>1, InvariantHolds, PTL

(* What a step does to the writers: only thr_lock and thr_unlock grant a     *)
(* write lock, and only a new statement asks for TL_WRITE_ALLOW_WRITE.       *)
LEMMA WritersKept ==
  ASSUME Inductive, NEW t \in Thread,
         \/ thr_multi_lock(t) \/ thr_abort_locks(t) \/ kill(t)
         \/ Step(t) /\ ~ thr_lock_write(t) /\ ~ thr_unlock(t)
         \/ Upgrade(t)
  PROVE  \A l \in Lock : Range(write'[l]) \subseteq Range(write[l])
<1>1. TypeOK /\ \A l \in Lock : write[l] \in Seq(Data)
  BY DEF Inductive, IInv, TypeOK
<1>2. CASE upgrade_wait(t) \/ thr_reschedule_write_lock(t)
  <2>. DEFINE d == This(t)
  <2>1. \/ write' = write
        \/ write' = [write EXCEPT ![LockOf[d]] = Without(write[LockOf[d]], d)]
    BY <1>2 DEF upgrade_wait, thr_reschedule_write_lock
  <2>. HIDE DEF d
  <2>2. \A l \in Lock : \/ write'[l] = write[l]
                       \/ write'[l] = SubList(write[l], Data \ {d})
    BY <1>1, <2>1 DEF TypeOK, Without
  <2>3. \A l \in Lock : Range(SubList(write[l], Data \ {d})) \subseteq Range(write[l])
    BY <1>1, SubListFacts
  <2>. QED  BY <2>2, <2>3
<1>3. CASE ~ (upgrade_wait(t) \/ thr_reschedule_write_lock(t))
  <2>1. write' = write
    BY <1>3
    DEF thr_multi_lock, thr_abort_locks, kill, Step, Upgrade, locks, lists,
        thr_lock_read, thr_lock_delayed, thr_lock_refused, thr_lock_wait,
        wait_granted, wait_aborted, wait_killed, run_done, skip_unlock,
        statement_end, upgrade_done, upgrade_at_once, upgrade_woken, inserts_done
  <2>. QED  BY <2>1
<1>. QED  BY <1>2, <1>3

LEMMA SharedTypeKept ==
  ASSUME Inductive, NEW t \in Thread,
         thr_multi_lock(t) \/ thr_abort_locks(t) \/ kill(t) \/ Step(t) \/ Upgrade(t)
  PROVE  \A l \in Lock : \A w \in Range(write[l]) :
           type'[w] = TL_WRITE_ALLOW_WRITE => type[w] = TL_WRITE_ALLOW_WRITE
<1>1. /\ type \in [Data -> LockType] /\ Planned
      /\ \A l \in Lock : Range(write[l]) \subseteq Data
  BY HeadFacts DEF Inductive, IInv, TypeOK
<1>2. CASE thr_multi_lock(t)
  <2>1. PICK req \in Request[t] :
          /\ \A d \in DOMAIN req : thread[d] = NoThread
          /\ type' = [d \in Data |-> IF d \in DOMAIN req THEN req[d] ELSE type[d]]
    BY <1>2 DEF thr_multi_lock
  <2>2. \A l \in Lock : \A w \in Range(write[l]) : w \notin DOMAIN req
    <3>1. ASSUME NEW l \in Lock, NEW w \in Range(write[l]) PROVE thread[w] # NoThread
      <4>1. w \in Data /\ LockOf[w] = l  BY <1>1 DEF Inductive, IInv, Placed
      <4>2. Listed(w)  BY <4>1 DEF Listed, Active
      <4>3. \E u \in Thread : thread[w] = u  BY <1>1, <4>1, <4>2 DEF Planned
      <4>. QED  BY <4>3, ThrLockAssumption
    <3>. QED  BY <2>1, <3>1
  <2>. QED  BY <1>1, <2>1, <2>2
<1>3. CASE thr_lock_write(t) \/ thr_lock_wait(t)
  <2>. DEFINE d == This(t)
  <2>1. \/ type' = type
        \/ \E hole \in BOOLEAN : type' = [type EXCEPT ![d] = EffectiveType(d, hole)]
    BY <1>3 DEF thr_lock_write, thr_lock_wait
  <2>2. \A hole \in BOOLEAN : EffectiveType(d, hole) \in {type[d], TL_WRITE, TL_WRITE_LOW_PRIORITY}
    BY ThrLockAssumption DEF EffectiveType
  <2>3. \A x \in Data : \/ type'[x] = type[x]
                       \/ type'[x] \in {type[x], TL_WRITE, TL_WRITE_LOW_PRIORITY}
    BY <1>1, <2>1, <2>2
  <2>. QED  BY <1>1, <2>3
<1>4. CASE thr_unlock(t)
  <2>1. PICK W \in SUBSET Data, R \in SUBSET Data, n \in 0 .. MaxWriteLockCount + 1 :
          LetsIn(This(t), W, R, n)
    BY <1>4, UnlockLists DEF Inductive
  <2>2. \/ type' = [type EXCEPT ![This(t)] = TL_UNLOCK]
        \/ \E h : type' = [type EXCEPT ![This(t)] = TL_UNLOCK, ![h] = TL_WRITE]
    BY <2>1 DEF LetsIn
  <2>3. \A x \in Data : type'[x] \in {type[x], TL_UNLOCK, TL_WRITE}
    BY <1>1, <2>2
  <2>. QED  BY <1>1, <2>3
<1>5. CASE thr_abort_locks(t)
  <2>1. \A x \in Data : type'[x] \in {type[x], TL_UNLOCK, TL_WRITE_ONLY}
    BY <1>1, <1>5 DEF thr_abort_locks
  <2>. QED  BY <1>1, <2>1
<1>6. CASE ~ (thr_multi_lock(t) \/ thr_lock_write(t) \/ thr_lock_wait(t)
              \/ thr_unlock(t) \/ thr_abort_locks(t))
  <2>1. \/ type' = type
        \/ type' = [type EXCEPT ![This(t)] = TL_UNLOCK]
        \/ type' = [type EXCEPT ![This(t)] = TL_WRITE]
        \/ type' = [type EXCEPT ![This(t)] = TL_WRITE_DELAYED]
    BY <1>6
    DEF kill, Step, Upgrade, locks,
        thr_lock_read, thr_lock_delayed, thr_lock_refused,
        wait_granted, wait_aborted, wait_killed, run_done, skip_unlock,
        statement_end, upgrade_done, upgrade_at_once, upgrade_wait, upgrade_woken,
        thr_reschedule_write_lock, inserts_done
  <2>2. \A x \in Data : type'[x] \in {type[x], TL_UNLOCK, TL_WRITE, TL_WRITE_DELAYED}
    BY <1>1, <2>1
  <2>. QED  BY <1>1, <2>2
<1>. QED  BY <1>2, <1>3, <1>4, <1>5, <1>6

(* thr_lock: a new TL_WRITE_ALLOW_WRITE joins another one, or a table where  *)
(* read_no_write_count is 0.                                                 *)
LEMMA LockStartsAlone ==
  ASSUME Inductive, NEW t \in Thread, thr_lock_write(t)
  PROVE  StartsAlone
<1>1. IInv /\ TypeOK /\ Control /\ NoInsertCount  BY DEF Inductive, IInv
<1>. DEFINE d == This(t)  l == LockOf[d]
<1>2. /\ pc[t] = "lock" /\ ~ IsRead(d) /\ ~ WriteOnlyActive(l)
      /\ thread' = thread /\ read' = read
  BY DEF thr_lock_write
<1>3. PICK hole \in BOOLEAN :
        /\ MayWrite(d, EffectiveType(d, hole))
        /\ type' = [type EXCEPT ![d] = EffectiveType(d, hole)]
  BY DEF thr_lock_write
<1>4. PICK ty \in WriteType :
        /\ MayWrite(d, ty) /\ type' = [type EXCEPT ![d] = ty]
        /\ \/ ty = type[d]
           \/ /\ type[d] = TL_WRITE_CONCURRENT_INSERT
              /\ ty \in {TL_WRITE, TL_WRITE_LOW_PRIORITY}
              /\ t \notin Handler
  BY <1>1, <1>2, <1>3, EffectiveTypeFacts
<1>5. /\ d \in Data /\ l \in Lock
      /\ \A m \in Lock : d \notin read[m]
  BY <1>1, <1>2, ToLockFacts DEF IsRead
<1>6. Lists(l, read[l], Range(read_wait[l]), Range(write[l]) \cup {d}, Range(write_wait[l]))
  BY <1>1, LockWriteLists
<1>7. \A w \in Range(write[l]) :
        ty = TL_WRITE_ALLOW_WRITE => type[w] \in {TL_WRITE_ALLOW_WRITE, TL_WRITE_ONLY}
  BY <1>1, <1>2, <1>4, LockWriteShared
<1>8. write[l] \in Seq(Data) /\ type \in [Data -> LockType]
      /\ \A m \in Lock : read[m] \subseteq Data
  BY <1>1, <1>5 DEF TypeOK
<1>. HIDE DEF d
<1>. SUFFICES ASSUME NEW m \in Lock, NEW r \in read'[m], NEW w \in Range(write'[m]),
                     thread'[r] # thread'[w],
                     type'[r] = TL_READ_NO_INSERT, type'[w] = TL_WRITE_ALLOW_WRITE
              PROVE  SharedWriter(m)
  BY DEF StartsAlone
<1>9. r \in read[m] /\ r # d /\ type[r] = TL_READ_NO_INSERT
  BY <1>2, <1>4, <1>5, <1>8
<1>10. CASE w \in Range(write[m])
  BY <1>10, SharedTypeKept DEF Step, SharedWriter
<1>11. CASE w \notin Range(write[m])
  <2>1. m = l /\ w = d  BY <1>6, <1>11 DEF Lists
  <2>2. ty = TL_WRITE_ALLOW_WRITE  BY <1>4, <1>5, <1>8, <2>1
  <2>3. CASE write[l] # <<>>
    <3>1. Head(write[l]) \in Range(write[l]) /\ type[Head(write[l])] # TL_WRITE_ONLY
      BY <1>2, <1>8, <2>3, HeadFacts DEF WriteOnlyActive, HeadType
    <3>. QED  BY <1>7, <2>1, <2>2, <3>1 DEF SharedWriter
  <2>4. CASE write[l] = <<>>
    <3>1. read_no_write_count[l] = 0
      BY <1>4, <1>9, <2>1, <2>2, <2>4 DEF MayWrite, NeedsNoInsertBlock
    <3>. DEFINE N == OfType(read[l], TL_READ_NO_INSERT)
    <3>2. Cardinality(N) = 0  BY <1>1, <1>5, <3>1 DEF NoInsertCount
    <3>3. IsFiniteSet(N)  BY <1>5, <1>8, FiniteParts
    <3>4. r \in N  BY <1>9, <2>1 DEF OfType
    <3>. QED  BY <3>2, <3>3, <3>4, FS_EmptySet
  <2>. QED  BY <2>3, <2>4
<1>. QED  BY <1>10, <1>11

(* thr_unlock: the writers it lets in start beside no TL_READ_NO_INSERT,     *)
(* neither one that is left nor one it lets in with them.                    *)
LEMMA UnlockStartsAlone ==
  ASSUME Inductive, NEW t \in Thread, thr_unlock(t)
  PROVE  StartsAlone
<1>1. IInv /\ TypeOK /\ Control /\ Placed  BY DEF Inductive, IInv
<1>2. thread' = thread /\ pc[t] = "unlock" /\ pos[t] <= Len(plan[t])
  BY DEF thr_unlock
<1>3. PICK d \in Data : d = This(t)  BY <1>1, <1>2, ThisFacts
<1>4. PICK l \in Lock : l = LockOf[d]  BY <1>3, Constants
<1>5. PICK W \in SUBSET Data, R \in SUBSET Data, n \in 0 .. MaxWriteLockCount + 1 :
        LetsIn(d, W, R, n) /\ Unlocks(d, W, R)
  BY <1>1, <1>3, UnlockLists
<1>6. /\ Lists(l, (read[l] \ {d}) \cup R, Range(read_wait[l]) \ R,
               (Range(write[l]) \ {d}) \cup W, Range(write_wait[l]) \ (W \cup {d}))
      /\ NoInsertBlocks(d) = Cardinality(OfType(read[l] \ {d}, TL_READ_NO_INSERT))
  BY <1>4, <1>5 DEF Unlocks
<1>7. /\ \/ type' = [type EXCEPT ![d] = TL_UNLOCK]
         \/ \E h : type' = [type EXCEPT ![d] = TL_UNLOCK, ![h] = TL_WRITE]
      /\ \A w \in W, r \in R :
           type[r] = TL_READ_NO_INSERT => type'[w] \notin NeedsNoInsertBlock
      /\ \A w \in W : read[l] \ {d} # {} =>
           (type'[w] \in NeedsNoInsertBlock => NoInsertBlocks(d) = 0)
  BY <1>4, <1>5 DEF LetsIn
<1>8. \A x \in Data : type'[x] \in {type[x], TL_UNLOCK, TL_WRITE}
  <2>1. type \in [Data -> LockType]  BY <1>1 DEF TypeOK
  <2>. QED  BY <1>7, <2>1
<1>. SUFFICES ASSUME NEW m \in Lock, NEW r \in read'[m], NEW w \in Range(write'[m]),
                     thread'[r] # thread'[w],
                     type'[r] = TL_READ_NO_INSERT, type'[w] = TL_WRITE_ALLOW_WRITE
              PROVE  SharedWriter(m)
  BY DEF StartsAlone
<1>9. CASE w \in Range(write[m])
  BY <1>9, SharedTypeKept DEF Step, SharedWriter
<1>10. CASE w \notin Range(write[m])
  <2>1. m = l /\ w \in W  BY <1>6, <1>10 DEF Lists
  <2>2. r \in (read[l] \ {d}) \cup R  BY <1>6, <2>1 DEF Lists
  <2>3. read[l] \in SUBSET Data  BY <1>1 DEF TypeOK
  <2>4. type[r] = TL_READ_NO_INSERT  BY <1>8, <2>2, <2>3
  <2>5. type'[w] \in NeedsNoInsertBlock  BY DEF NeedsNoInsertBlock
  <2>6. r \in read[l] \ {d}  BY <1>7, <2>1, <2>2, <2>4, <2>5
  <2>. DEFINE A == OfType(read[l] \ {d}, TL_READ_NO_INSERT)
  <2>7. Cardinality(A) = 0  BY <1>6, <1>7, <2>1, <2>5, <2>6
  <2>8. IsFiniteSet(A)
    <3>1. read[l] \ {d} \in SUBSET Data  BY <2>3
    <3>. QED  BY <3>1, FiniteParts
  <2>9. r \in A  BY <2>4, <2>6 DEF OfType
  <2>. QED  BY <2>7, <2>8, <2>9, FS_EmptySet
<1>. QED  BY <1>9, <1>10

LEMMA StartsAloneStep ==
  Inductive /\ [Next]_vars => [StartsAlone]_vars
<1>. SUFFICES ASSUME Inductive, Next PROVE StartsAlone  OBVIOUS
<1>1. PICK t \in Thread :
        thr_multi_lock(t) \/ thr_abort_locks(t) \/ kill(t) \/ Step(t) \/ Upgrade(t)
  BY ThrLockAssumption DEF Next
<1>2. CASE thr_lock_write(t)  BY <1>2, LockStartsAlone
<1>3. CASE thr_unlock(t)  BY <1>3, UnlockStartsAlone
<1>4. CASE ~ thr_lock_write(t) /\ ~ thr_unlock(t)
  <2>1. \A l \in Lock : Range(write'[l]) \subseteq Range(write[l])
    BY <1>1, <1>4, WritersKept
  <2>2. \A l \in Lock : \A w \in Range(write[l]) :
          type'[w] = TL_WRITE_ALLOW_WRITE => type[w] = TL_WRITE_ALLOW_WRITE
    BY <1>1, SharedTypeKept
  <2>. QED  BY <2>1, <2>2 DEF StartsAlone, SharedWriter
<1>. QED  BY <1>2, <1>3, <1>4

(* No reader runs beside another thread's write lock that does not admit it, *)
(* and no writer starts a TL_WRITE_ALLOW_WRITE beside a TL_READ_NO_INSERT:   *)
(* the pair check_locks forbids comes only from joining a                    *)
(* TL_WRITE_ALLOW_WRITE that is active already (thr_lock.c:451, 544).        *)
THEOREM ReadersExcluded == Spec => ReadWriteExclusion
<1>1. Inductive => ReadersAdmitted  BY DEF Inductive, IInv
<1>2. Spec => []ReadersAdmitted  BY <1>1, InvariantHolds, PTL
<1>3. Spec => [][StartsAlone]_vars  BY InvariantHolds, StartsAloneStep, PTL DEF Spec
<1>. QED  BY <1>2, <1>3 DEF ReadWriteExclusion

(* Two threads write a table together only with TL_WRITE_ALLOW_WRITE.        *)
THEOREM WritersExcluded == Spec => []WriteExclusion
<1>1. ASSUME Inductive PROVE WriteExclusion
  <2>1. ASSUME NEW l \in Lock, NEW a \in Range(write[l]), NEW b \in Range(write[l]),
               thread[a] # thread[b]
        PROVE  type[a] \in {TL_WRITE_ALLOW_WRITE, TL_WRITE_ONLY}
    BY <1>1, <2>1 DEF Inductive, IInv, SharedWrites
  <2>. QED  BY <2>1 DEF WriteExclusion
<1>. QED  BY <1>1, InvariantHolds, PTL

(* A lock instance is in the one list its type and condition name, or in     *)
(* none, so thr_unlock always unlinks it from the right list.                *)
THEOREM ListsHold == Spec => []ListsAgree
<1>1. ASSUME Inductive PROVE ListsAgree
  <2>1. Placed /\ TypeOK  BY <1>1 DEF Inductive, IInv
  <2>2. ASSUME NEW d \in Data, InLists(d) # {}
        PROVE  InLists(d) = {ListOf(d)} /\ type[d] # TL_UNLOCK
    <3>1. PICK l \in Lock : l = LockOf[d]  BY Constants
    <3>2. ReadType \cap (WriteType \cup {TL_WRITE_ONLY}) = {}
          /\ TL_UNLOCK \notin ReadType \cup WriteType \cup {TL_WRITE_ONLY}
      OBVIOUS
    <3>3. /\ d \in read[l] => type[d] \in ReadType /\ ~ cond[d]
          /\ d \in Range(read_wait[l]) => type[d] \in ReadType /\ cond[d]
          /\ d \in Range(write[l]) => type[d] \in WriteType \cup {TL_WRITE_ONLY} /\ ~ cond[d]
          /\ d \in Range(write_wait[l]) => type[d] \in WriteType /\ cond[d]
      BY <2>1 DEF Placed
    <3>. HIDE DEF ReadType, WriteType
    <3>. QED  BY <2>2, <3>1, <3>2, <3>3 DEF InLists, ListOf
  <2>. QED  BY <2>2 DEF ListsAgree
<1>. QED  BY <1>1, InvariantHolds, PTL

(* No statement ends, in whatever way its locking failed or was aborted,     *)
(* with an instance of its own still granted or queued.                      *)
THEOREM NothingLeaks == Spec => []NoLeak
<1>1. ASSUME Inductive PROVE NoLeak
  <2>1. Planned  BY <1>1 DEF Inductive, IInv
  <2>2. ASSUME NEW d \in Data, InLists(d) # {}
        PROVE  \E t \in Thread : /\ thread[d] = t
                                 /\ \E i \in DOMAIN plan[t] :
                                      /\ plan[t][i] = d
                                      /\ pc[t] = "unlock" => pos[t] <= i
    <3>1. Listed(d)  BY <2>2 DEF InLists, Listed, Active
    <3>2. PICK t \in Thread : thread[d] = t /\ d \in Range(plan[t])
      BY <2>1, <3>1 DEF Planned
    <3>3. PICK i \in DOMAIN plan[t] : plan[t][i] = d  BY <3>2 DEF Range
    <3>4. ~ Unlocked(t, i)  BY <2>1, <3>1, <3>3 DEF Planned
    <3>5. i \in Nat /\ pos[t] \in Nat
      <4>1. plan[t] \in Seq(Data) /\ pos[t] \in Nat
        BY <1>1 DEF Inductive, IInv, TypeOK
      <4>. QED  BY <4>1
    <3>6. pc[t] = "unlock" => pos[t] <= i  BY <3>4, <3>5 DEF Unlocked
    <3>. QED  BY <3>2, <3>3, <3>6
  <2>. QED  BY <2>2 DEF NoLeak
<1>. QED  BY <1>1, InvariantHolds, PTL
=============================================================================
