-------------------------- MODULE TableCacheProofs --------------------------
(* The counters of the global read lock, and what a statement finds when it  *)
(* runs, for any number of threads and tables.                               *)
EXTENDS TableCache, FiniteSetTheorems, WellFoundedInduction, TLAPS

USE DEF cache, globals, locks, thd, mutex

(* Where a thread is. *)
Begins    == {"open", "refresh"}
Locking   == {"lock", "wait_if", "wait_if_wait", "thr", "locked", "wait_tables",
              "wait_tables_wait"}
Loop      == {"flush_loop", "flush_wait"}
FlushPc   == {"read_lock", "read_lock_wait", "flush", "flush_end"} \cup Loop
DropPc    == {"drop", "drop_read_lock", "drop_wait", "drop_killed"}
Naming    == {"name_wait", "name_locked", "truncate"}
NamePc    == {"name_read_lock", "name_read_lock_wait", "name_lock", "name_failed"}
               \cup Naming
Ends      == {"unlock", "close"}
Label     == {"idle", "dead", "run"} \cup Begins \cup Locking \cup FlushPc
               \cup DropPc \cup NamePc \cup Ends

(* The types of the variables; the counters apart. *)
Data ==
  /\ LOCK_open \in Thread \cup {NoThread}
  /\ sleeping \subseteq Thread
  /\ file \in [Table -> 0 .. 2]
  /\ unused \in [Table -> SUBSET [version : 1 .. MaxVersion, file : 1 .. 2]]
  /\ inst \in [Thread -> [Table -> TableType]]
  /\ thr \in [Thread -> [Table -> {"no", "waits", "has", "aborted"}]]
  /\ write_only \subseteq Table
  /\ pc \in [Thread -> Label]
  /\ stmt \in [Thread -> StatementType]
  /\ want \in [Thread -> SUBSET Table]
  /\ version \in [Thread -> 1 .. MaxVersion]
  /\ some_tables_deleted \in [Thread -> BOOLEAN]
  /\ killed \in [Thread -> BOOLEAN]
  /\ locked_tables \in [Thread -> BOOLEAN]
  /\ holds \in [Thread -> BOOLEAN]

(* Which statement a thread executes where it is. *)
LabelRight(t) ==
  /\ WellFormed(stmt[t])
  /\ pc[t] \in Begins \cup {"run"} => Op(t) \in {"query", "lock"}
  /\ pc[t] \in Locking => Op(t) \in {"query", "lock", "flush", "read_lock"}
  /\ pc[t] \in FlushPc => Flushing(t)
  /\ pc[t] \in DropPc => Op(t) = "drop"
  /\ pc[t] \in NamePc => Op(t) \in {"truncate", "rename"}
  /\ pc[t] \in NamePc \ {"name_lock", "name_wait"} => Op(t) = "truncate"
  /\ pc[t] \in {"read_lock", "read_lock_wait"} => ~ holds[t]
  /\ locked_tables[t] => pc[t] \notin Begins \cup Ends \cup NamePc \cup {"dead"}
  /\ locked_tables[t] /\ pc[t] = "run" => Op(t) = "query"
  /\ pc[t] \in Locking => (Flushing(t) <=> locked_tables[t])

(* A thread may have a TABLE without files; it has its locks. *)
MayBeClosed(t) ==
  \/ pc[t] \in {"refresh", "wait_tables", "wait_tables_wait"} \cup Ends \cup Loop
  \/ pc[t] = "flush_end" /\ LOCK_open # t
Calm == {"idle", "read_lock", "read_lock_wait", "flush"} \cup DropPc
Holding(t) ==
  \/ pc[t] \in {"locked", "run"}
  \/ /\ locked_tables[t] /\ ~ killed[t]
     /\ pc[t] \in Calm \/ (pc[t] = "flush_end" /\ LOCK_open = t)

(* The TABLE thread t uses for x, and its lock. *)
NameLock == [NoTable EXCEPT !.used = TRUE, !.by_name = TRUE]
InstRight(t, x) ==
  LET i == inst[t][x]
  IN  /\ i.used \/ i = NoTable
      /\ i.by_name => pc[t] \in Naming /\ x \in stmt[t].tabs
      /\ pc[t] \in Naming /\ x \in stmt[t].tabs => i = NameLock
      /\ i.by_flush => pc[t] \in Loop
      /\ i.version <= refresh_version
ThrRight(t, x) ==
  /\ thr[t][x] # "no" => x \in Opened(t)
  /\ thr[t][x] \in {"waits", "aborted"} => pc[t] = "thr" /\ x \in want[t]
  /\ pc[t] \in Begins \cup {"close"} \cup (Locking \ {"thr", "locked"}) =>
       thr[t][x] = "no"
OpenRight(t, x) ==
  LET i == inst[t][x]
  IN  x \in Opened(t) =>
        /\ locked_tables[t] \/ pc[t] \in Begins \cup Locking \cup Ends \cup {"run"}
        /\ pc[t] \in Loop => i.by_flush /\ i.file = 0 /\ thr[t][x] = "no"
        /\ i.file = 0 => MayBeClosed(t)
        /\ Holding(t) => thr[t][x] = "has"
        /\ pc[t] \in Begins \cup Locking \cup {"run"} /\ ~ locked_tables[t] =>
             x \in stmt[t].tabs /\ (x \in stmt[t].writes => i.write)

(* The tables of mysql_lock_tables, and of the statement that runs. *)
WantRight(t) ==
  /\ pc[t] \in Locking => want[t] = Opened(t) /\ want[t] # {}
  /\ pc[t] \in Locking /\ ~ locked_tables[t] => stmt[t].tabs = Opened(t)
  /\ pc[t] = "thr" => \E x \in want[t] : thr[t][x] # "has"
  /\ pc[t] = "run" => /\ stmt[t].tabs \subseteq Opened(t)
                      /\ \A x \in stmt[t].writes : inst[t][x].write

(* A thread that has LOCK_open between two actions; FLUSH TABLES that locks  *)
(* its tables again under it has found no global read lock.                  *)
WritesOpened(t) == \E x \in Opened(t) : inst[t][x].write
MutexRight(t) ==
  LOCK_open = t =>
    /\ pc[t] \in Waits \cup Loop \/ (pc[t] \in Locking \cup {"flush_end"} /\ Flushing(t))
    /\ pc[t] \in {"thr", "locked", "flush_end"} =>
         (WritesOpened(t) => global_read_lock = 0)

Right(t) ==
  /\ LabelRight(t) /\ WantRight(t) /\ MutexRight(t)
  /\ \A x \in Table : InstRight(t, x) /\ ThrRight(t, x) /\ OpenRight(t, x)

(* A thread that has passed the test of the global read lock and may write:  *)
(* while FLUSH TABLES WITH READ LOCK waits, its TABLEs are old.              *)
Commits(u) ==
  /\ WritesOpened(u)
  /\ \/ pc[u] \in {"thr", "locked", "run"}
     \/ locked_tables[u] /\ ~ killed[u] /\ pc[u] \in Calm
HolderRight(t) ==
  holds[t] /\ ~ killed[t] =>
    \A u \in Other(t) : Commits(u) =>
      \/ pc[t] = "flush"
      \/ pc[t] \in Loop /\ \A x \in Opened(u) : inst[u][x].version < refresh_version

(* Every FLUSH TABLES that is still to come counts for the bound. *)
ToFlush(t) == pc[t] \in {"read_lock", "read_lock_wait", "flush"}
Bounded ==
  /\ refresh_version \in Nat \ {0}
  /\ refresh_version + Cardinality({t \in Thread : ToFlush(t)}) <= MaxVersion
  /\ \A t \in Thread : version[t] <= refresh_version
  /\ \A x \in Table : \A i \in unused[x] : i.version <= refresh_version

IInv ==
  /\ Data /\ ReadLockCounts /\ Bounded
  /\ \A t \in Thread : Right(t)
  /\ \A t \in Thread : HolderRight(t)

-----------------------------------------------------------------------------
(* The frame of a step of thread t. *)

(* What remove_table_from_cache makes of a TABLE. *)
Old(i) == IF i.used THEN [i EXCEPT !.version = 0] ELSE i

(* What a step of another thread leaves of thread u. *)
Untouched(u) ==
  /\ pc'[u] = pc[u] /\ stmt'[u] = stmt[u] /\ want'[u] = want[u]
  /\ version'[u] = version[u] /\ killed'[u] = killed[u]
  /\ locked_tables'[u] = locked_tables[u] /\ holds'[u] = holds[u]
  /\ LOCK_open' = u => LOCK_open = u /\ global_read_lock' = global_read_lock
  /\ \A x \in Table :
       /\ inst'[u][x] = inst[u][x] \/ inst'[u][x] = Old(inst[u][x])
       /\ thr'[u][x] = thr[u][x] \/ (thr[u][x] = "waits" /\ thr'[u][x] = "aborted")
Frame(t) == \A u \in Other(t) : Untouched(u)

(* How the counters go with the threads they count. *)
Protected(t) ==
  \/ pc[t] \in {"name_lock", "name_wait"} /\ Op(t) = "truncate"
  \/ pc[t] \in {"name_locked", "name_failed"}
Counts(t) ==
  /\ \/ (holds'[t] <=> holds[t]) /\ global_read_lock' = global_read_lock
     \/ ~ holds[t] /\ holds'[t] /\ global_read_lock' = global_read_lock + 1
     \/ holds[t] /\ ~ holds'[t] /\ global_read_lock' = global_read_lock - 1
  /\ \/ /\ Protected(t)' <=> Protected(t)
        /\ protect_against_global_read_lock' = protect_against_global_read_lock
     \/ /\ ~ Protected(t) /\ Protected(t)'
        /\ protect_against_global_read_lock' = protect_against_global_read_lock + 1
     \/ /\ Protected(t) /\ ~ Protected(t)'
        /\ protect_against_global_read_lock' = protect_against_global_read_lock - 1
  /\ \/ refresh_version' = refresh_version /\ (ToFlush(t)' => ToFlush(t))
     \/ refresh_version' = refresh_version + 1 /\ ToFlush(t) /\ ~ ToFlush(t)'
     \/ /\ refresh_version' = refresh_version
        /\ refresh_version + Cardinality({u \in Other(t) : ToFlush(u)}) < MaxVersion
  /\ version'[t] \in {version[t], refresh_version}
  /\ \A x \in Table : \A i \in unused'[x] :
       i \in unused[x] \/ i.version <= refresh_version

(* What a step of t must show for HolderRight. *)
HolderStep(t) ==
  /\ Commits(t)' =>
       \/ global_read_lock = 0
       \/ Commits(t) /\ \A x \in Table : x \in Opened(t)' =>
            x \in Opened(t) /\ inst'[t][x].version <= inst[t][x].version
  /\ holds'[t] /\ ~ killed'[t] =>
       \/ pc'[t] = "flush"
       \/ pc'[t] \in Loop /\ refresh_version' = refresh_version + 1
       \/ holds[t] /\ ~ killed[t] /\ pc'[t] \in Loop /\ pc[t] \in Loop
       \/ holds[t] /\ ~ killed[t] /\ pc[t] \notin Loop \cup {"flush"}
       \/ holds[t] /\ ~ killed[t] /\ pc[t] \in Loop /\ ~ OldTablesOpen

-----------------------------------------------------------------------------
(* Steps of one thread keep what is right for the others. *)

LEMMA Constants ==
  /\ NoThread \notin Thread /\ IsFiniteSet(Thread) /\ Table \subseteq Nat
  /\ MaxVersion \in Nat \ {0} /\ Killable \subseteq Thread
BY TableCacheAssumption

LEMMA Statements ==
  \A t \in Thread : \A s \in Statement[t] : WellFormed(s)
BY TableCacheAssumption

(* A TABLE that remove_table_from_cache makes old is otherwise the same. *)
LEMMA OldSame ==
  ASSUME NEW i \in TableType
  PROVE  /\ Old(i) \in TableType
         /\ Old(i).used = i.used /\ Old(i).file = i.file /\ Old(i).write = i.write
         /\ Old(i).by_name = i.by_name /\ Old(i).by_flush = i.by_flush
         /\ Old(i).version \in {i.version, 0} /\ Old(i).version <= i.version
         /\ i = NoTable => Old(i) = NoTable
         /\ i = NameLock => Old(i) = NameLock
         /\ i.used => Old(i).version = 0
<1>1. ~ NoTable.used /\ NameLock.used /\ NameLock.version = 0
  BY DEF NoTable, NameLock
<1>2. ASSUME i.used
      PROVE  /\ Old(i) \in TableType
             /\ Old(i).used = i.used /\ Old(i).file = i.file /\ Old(i).write = i.write
             /\ Old(i).by_name = i.by_name /\ Old(i).by_flush = i.by_flush
             /\ Old(i).version = 0 /\ 0 <= i.version
             /\ i.version = 0 => Old(i) = i
  <2>1. Old(i) = [i EXCEPT !.version = 0]  BY <1>2 DEF Old
  <2>2. [i EXCEPT !.version = 0] \in TableType  BY Constants DEF TableType
  <2>3. i.version \in 0 .. MaxVersion  BY DEF TableType
  <2>4. i.version = 0 => [i EXCEPT !.version = 0] = i  BY DEF TableType
  <2>5. /\ Old(i).used = i.used /\ Old(i).file = i.file /\ Old(i).write = i.write
        /\ Old(i).by_name = i.by_name /\ Old(i).by_flush = i.by_flush
        /\ Old(i).version = 0
    BY <2>1 DEF TableType
  <2>. QED  BY <2>1, <2>2, <2>3, <2>4, <2>5, Constants
<1>3. i.version \in Nat  BY Constants DEF TableType
<1>4. CASE i.used  BY <1>1, <1>2, <1>3, <1>4
<1>5. CASE ~ i.used
  <2>1. Old(i) = i  BY <1>5 DEF Old
  <2>. QED  BY <1>3, <1>5, <2>1
<1>. QED  BY <1>4, <1>5

LEMMA OthersSame ==
  ASSUME Data, NEW u \in Thread, Untouched(u)
  PROVE  /\ Opened(u)' = Opened(u) /\ (WritesOpened(u)' <=> WritesOpened(u))
         /\ \A x \in Table :
              /\ inst'[u][x].used = inst[u][x].used
              /\ inst'[u][x].file = inst[u][x].file
              /\ inst'[u][x].write = inst[u][x].write
              /\ inst'[u][x].by_name = inst[u][x].by_name
              /\ inst'[u][x].by_flush = inst[u][x].by_flush
              /\ inst'[u][x].version <= inst[u][x].version
              /\ inst[u][x] = NoTable => inst'[u][x] = NoTable
              /\ inst[u][x] = NameLock => inst'[u][x] = NameLock
<1>1. \A x \in Table : inst[u][x] \in TableType  BY DEF Data
<1>2. \A x \in Table :
         /\ inst'[u][x].used = inst[u][x].used
         /\ inst'[u][x].file = inst[u][x].file
         /\ inst'[u][x].write = inst[u][x].write
         /\ inst'[u][x].by_name = inst[u][x].by_name
         /\ inst'[u][x].by_flush = inst[u][x].by_flush
         /\ inst'[u][x].version <= inst[u][x].version
         /\ inst[u][x] = NoTable => inst'[u][x] = NoTable
         /\ inst[u][x] = NameLock => inst'[u][x] = NameLock
  <2> SUFFICES ASSUME NEW x \in Table
      PROVE /\ inst'[u][x].used = inst[u][x].used
            /\ inst'[u][x].file = inst[u][x].file
            /\ inst'[u][x].write = inst[u][x].write
            /\ inst'[u][x].by_name = inst[u][x].by_name
            /\ inst'[u][x].by_flush = inst[u][x].by_flush
            /\ inst'[u][x].version <= inst[u][x].version
            /\ inst[u][x] = NoTable => inst'[u][x] = NoTable
            /\ inst[u][x] = NameLock => inst'[u][x] = NameLock
    OBVIOUS
  <2>1. CASE inst'[u][x] = inst[u][x]
    <3>1. inst[u][x].version \in 0 .. MaxVersion  BY <1>1 DEF TableType
    <3>. QED  BY <2>1, <3>1, Constants
  <2>2. CASE inst'[u][x] = Old(inst[u][x])  BY <1>1, <2>2, OldSame
  <2>. QED  BY <2>1, <2>2 DEF Untouched
<1>3. Opened(u)' = Opened(u)  BY <1>2 DEF Opened
<1>4. WritesOpened(u)' <=> WritesOpened(u)
  <2>1. Opened(u) \subseteq Table  BY DEF Opened
  <2>. QED  BY <1>2, <1>3, <2>1 DEF WritesOpened
<1>. QED  BY <1>2, <1>3, <1>4

LEMMA OthersRight ==
  ASSUME Data, NEW u \in Thread, Untouched(u), Right(u),
         refresh_version \in Nat, refresh_version' \in Nat,
         refresh_version <= refresh_version'
  PROVE  Right(u)'
<1>1. /\ Opened(u)' = Opened(u) /\ (WritesOpened(u)' <=> WritesOpened(u))
      /\ pc'[u] = pc[u] /\ stmt'[u] = stmt[u] /\ want'[u] = want[u]
      /\ killed'[u] = killed[u] /\ locked_tables'[u] = locked_tables[u]
      /\ holds'[u] = holds[u]
      /\ LOCK_open' = u => LOCK_open = u /\ global_read_lock' = global_read_lock
      /\ \A x \in Table : \/ thr'[u][x] = thr[u][x]
                          \/ thr[u][x] = "waits" /\ thr'[u][x] = "aborted"
  BY OthersSame DEF Untouched
<1>2. LabelRight(u)'  BY <1>1 DEF Right, LabelRight, Op, Flushing
<1>3. MutexRight(u)'  BY <1>1 DEF Right, MutexRight, Flushing, Op
<1>4. WantRight(u)'
  <2>1. \A x \in Table : inst'[u][x].write = inst[u][x].write  BY OthersSame
  <2>2. stmt[u].writes \subseteq Table /\ want[u] \subseteq Table
    BY DEF Right, LabelRight, WellFormed, StatementType, Data
  <2>3. WantRight(u)  BY DEF Right
  <2>4. pc[u] = "thr" => \E x \in want[u] : thr'[u][x] # "has"
    BY <1>1, <2>2, <2>3 DEF WantRight
  <2>. QED  BY <1>1, <2>1, <2>2, <2>3, <2>4 DEF WantRight
<1>5. ASSUME NEW x \in Table PROVE InstRight(u, x)' /\ ThrRight(u, x)' /\ OpenRight(u, x)'
  <2>1. InstRight(u, x) /\ ThrRight(u, x) /\ OpenRight(u, x)  BY DEF Right
  <2>2. inst[u][x] \in TableType  BY DEF Data
  <2>3. inst[u][x].version \in Nat /\ inst'[u][x].version \in Nat
    BY <2>2, Constants, OldSame DEF TableType, Untouched
  <2>4. InstRight(u, x)'
    BY <1>1, <2>1, <2>3, OthersSame DEF InstRight
  <2>5. ThrRight(u, x)'
    BY <1>1, <2>1 DEF ThrRight
  <2>6. (MayBeClosed(u) => MayBeClosed(u)') /\ (Holding(u)' => Holding(u))
    BY <1>1 DEF MayBeClosed, Holding
  <2>7. OpenRight(u, x)'
    <3>1. /\ inst'[u][x].by_flush = inst[u][x].by_flush
          /\ inst'[u][x].file = inst[u][x].file
          /\ inst'[u][x].write = inst[u][x].write
      BY OthersSame
    <3>2. thr[u][x] \in {"no", "has"} => thr'[u][x] = thr[u][x]  BY <1>1
    <3>. QED  BY <1>1, <2>1, <2>6, <3>1, <3>2 DEF OpenRight
  <2>. QED  BY <2>4, <2>5, <2>7
<1>. QED  BY <1>2, <1>3, <1>4, <1>5 DEF Right

(* One thread joins or leaves a set of threads. *)
LEMMA OneChanges ==
  ASSUME NEW S \in SUBSET Thread, NEW R \in SUBSET Thread, NEW t \in Thread,
         S \ {t} = R \ {t}
  PROVE  /\ Cardinality(S) \in Nat /\ Cardinality(R) \in Nat
         /\ (t \in S <=> t \in R) => Cardinality(R) = Cardinality(S)
         /\ t \notin S /\ t \in R => Cardinality(R) = Cardinality(S) + 1
         /\ t \in S /\ t \notin R => Cardinality(R) = Cardinality(S) - 1
<1>1. IsFiniteSet(S) /\ IsFiniteSet(R)  BY Constants, FS_Subset
<1>2. Cardinality(S) \in Nat /\ Cardinality(R) \in Nat  BY <1>1, FS_CardinalityType
<1>3. (t \in S <=> t \in R) => R = S  OBVIOUS
<1>4. ASSUME t \notin S, t \in R PROVE Cardinality(R) = Cardinality(S) + 1
  <2>1. R = S \cup {t}  BY <1>4
  <2>. QED  BY <1>1, <1>4, <2>1, FS_AddElement
<1>5. ASSUME t \in S, t \notin R PROVE Cardinality(R) = Cardinality(S) - 1
  <2>1. R = S \ {t}  BY <1>5
  <2>. QED  BY <1>1, <1>5, <2>1, FS_RemoveElement
<1>. QED  BY <1>2, <1>3, <1>4, <1>5

(* The counters stay right. *)
LEMMA CountsKept ==
  ASSUME Data, Data', ReadLockCounts, Bounded, NEW t \in Thread, Frame(t), Counts(t)
  PROVE  ReadLockCounts' /\ Bounded' /\ refresh_version <= refresh_version'
<1> DEFINE H == {u \in Thread : holds[u]}
           P == {u \in Thread : Protected(u)}
           F == {u \in Thread : ToFlush(u)}
<1>1. \A u \in Thread \ {t} : /\ pc'[u] = pc[u] /\ stmt'[u] = stmt[u]
                               /\ holds'[u] = holds[u] /\ version'[u] = version[u]
  BY DEF Frame, Untouched, Other
<1>2. \A u \in Thread \ {t} : (Protected(u)' <=> Protected(u)) /\ (ToFlush(u)' <=> ToFlush(u))
  BY <1>1 DEF Protected, ToFlush, Op
<1>3. /\ global_read_lock = Cardinality(H)
      /\ protect_against_global_read_lock = Cardinality(P)
  BY DEF ReadLockCounts, Protected
<1>4. H' \ {t} = H \ {t} /\ P' \ {t} = P \ {t} /\ F' \ {t} = F \ {t}
  BY <1>1, <1>2
<1>5. (t \in H <=> holds[t]) /\ (t \in P <=> Protected(t)) /\ (t \in F <=> ToFlush(t))
  OBVIOUS
<1>6. (t \in H' <=> holds'[t]) /\ (t \in P' <=> Protected(t)')
      /\ (t \in F' <=> ToFlush(t)')
  OBVIOUS
<1> HIDE DEF H, P, F
<1>7. H \in SUBSET Thread /\ P \in SUBSET Thread /\ F \in SUBSET Thread
      /\ H' \in SUBSET Thread /\ P' \in SUBSET Thread /\ F' \in SUBSET Thread
  BY DEF H, P, F
<1>8. global_read_lock' = Cardinality(H')
  <2>1. /\ Cardinality(H) \in Nat
        /\ (t \in H <=> t \in H') => Cardinality(H') = Cardinality(H)
        /\ t \notin H /\ t \in H' => Cardinality(H') = Cardinality(H) + 1
        /\ t \in H /\ t \notin H' => Cardinality(H') = Cardinality(H) - 1
    BY <1>4, <1>7, OneChanges
  <2>. QED  BY <1>3, <1>5, <1>6, <2>1 DEF Counts
<1>9. protect_against_global_read_lock' = Cardinality(P')
  <2>1. /\ Cardinality(P) \in Nat
        /\ (t \in P <=> t \in P') => Cardinality(P') = Cardinality(P)
        /\ t \notin P /\ t \in P' => Cardinality(P') = Cardinality(P) + 1
        /\ t \in P /\ t \notin P' => Cardinality(P') = Cardinality(P) - 1
    BY <1>4, <1>7, OneChanges
  <2>. QED  BY <1>3, <1>5, <1>6, <2>1 DEF Counts
<1>10. ReadLockCounts'  BY <1>8, <1>9 DEF ReadLockCounts, H, P, Protected
<1>11. /\ refresh_version \in Nat \ {0}
       /\ refresh_version + Cardinality(F) <= MaxVersion
  BY DEF Bounded, F
<1>12. /\ refresh_version' \in {refresh_version, refresh_version + 1}
       /\ refresh_version' + Cardinality(F') <= MaxVersion
  <2>1. /\ Cardinality(F) \in Nat /\ Cardinality(F') \in Nat
        /\ (t \in F <=> t \in F') => Cardinality(F') = Cardinality(F)
        /\ t \notin F /\ t \in F' => Cardinality(F') = Cardinality(F) + 1
        /\ t \in F /\ t \notin F' => Cardinality(F') = Cardinality(F) - 1
    BY <1>4, <1>7, OneChanges
  <2>2. CASE refresh_version' = refresh_version /\ (ToFlush(t)' => ToFlush(t))
    BY <1>5, <1>6, <1>11, <2>1, <2>2, Constants
  <2>3. CASE refresh_version' = refresh_version + 1 /\ ToFlush(t) /\ ~ ToFlush(t)'
    BY <1>5, <1>6, <1>11, <2>1, <2>3, Constants
  <2>4. CASE /\ refresh_version' = refresh_version
             /\ refresh_version + Cardinality({u \in Other(t) : ToFlush(u)}) < MaxVersion
    <3>1. {u \in Other(t) : ToFlush(u)} = F \ {t}  BY DEF F, Other
    <3>2. /\ Cardinality(F \ {t}) \in Nat /\ Cardinality(F') \in Nat
          /\ Cardinality(F') <= Cardinality(F \ {t}) + 1
      <4>1. (F \ {t}) \ {t} = F' \ {t} /\ F \ {t} \in SUBSET Thread  BY <1>4, <1>7
      <4>. QED  BY <1>7, <4>1, OneChanges
    <3>. QED  BY <1>11, <2>4, <3>1, <3>2, Constants
  <2>. QED  BY <2>2, <2>3, <2>4 DEF Counts
<1>13. \A u \in Thread : version'[u] <= refresh_version'
  <2>1. \A u \in Thread : version[u] \in Nat /\ version[u] <= refresh_version
    BY Constants DEF Data, Bounded
  <2>2. version'[t] \in {version[t], refresh_version}  BY DEF Counts
  <2>. QED  BY <1>1, <1>11, <1>12, <2>1, <2>2
<1>14. \A x \in Table : \A i \in unused'[x] : i.version <= refresh_version'
  <2>1. \A x \in Table : \A i \in unused'[x] : i.version \in Nat
    BY Constants DEF Data
  <2>2. \A x \in Table : \A i \in unused'[x] : i.version <= refresh_version
    BY DEF Bounded, Counts
  <2>. QED  BY <1>11, <1>12, <2>1, <2>2
<1>15. Bounded'  BY <1>11, <1>12, <1>13, <1>14 DEF Bounded, F
<1>. QED  BY <1>10, <1>11, <1>12, <1>15

(* Nobody has the global read lock when its counter is zero. *)
LEMMA NoHolder ==
  ASSUME ReadLockCounts, global_read_lock = 0, NEW t \in Thread
  PROVE  ~ holds[t]
<1> DEFINE H == {u \in Thread : holds[u]}
<1>1. IsFiniteSet(H)  BY Constants, FS_Subset
<1>2. H = {}  BY <1>1, FS_EmptySet DEF ReadLockCounts
<1>. QED  BY <1>2

(* The TABLEs of a thread that may write have files. *)
LEMMA CommitsOpen ==
  ASSUME NEW u \in Thread, Right(u), Commits(u)
  PROVE  \E x \in Table : x \in Opened(u) /\ inst[u][x].file # 0
<1>1. PICK x \in Opened(u) : inst[u][x].write  BY DEF Commits, WritesOpened
<1>2. x \in Table  BY DEF Opened
<1>3. ~ MayBeClosed(u)
  BY DEF Commits, MayBeClosed, Calm, Ends, Loop, DropPc
<1>. QED  BY <1>1, <1>2, <1>3 DEF Right, OpenRight

(* Nobody who may write is overlooked by FLUSH TABLES WITH READ LOCK. *)
LEMMA HoldersKept ==
  ASSUME IInv, NEW t \in Thread, Frame(t), HolderStep(t),
         refresh_version' \in Nat, refresh_version <= refresh_version', Data'
  PROVE  \A a \in Thread : HolderRight(a)'
<1> SUFFICES ASSUME NEW a \in Thread, holds'[a], ~ killed'[a],
                    NEW u \in Other(a), Commits(u)'
             PROVE  \/ pc'[a] = "flush"
                    \/ /\ pc'[a] \in Loop
                       /\ \A x \in Opened(u)' : inst'[u][x].version < refresh_version'
  BY DEF HolderRight, Other
<1>1. u \in Thread /\ u # a  BY DEF Other
<1>2. Data /\ ReadLockCounts /\ Right(u) /\ HolderRight(a) /\ refresh_version \in Nat
  BY <1>1 DEF IInv, Bounded
<1>3. \A b \in Thread : \A x \in Table :
         inst[b][x].version \in Nat /\ inst'[b][x].version \in Nat
  BY <1>2, Constants DEF Data, TableType
<1>4. Opened(u)' \subseteq Table  BY DEF Opened
<1>5. u # t => (Commits(u)' <=> Commits(u))
  <2>1. u # t => Untouched(u)  BY <1>1 DEF Frame, Other
  <2>. QED  BY <1>1, <1>2, <2>1, OthersSame DEF Commits, Untouched
<1>6. CASE u = t
  <2>1. a # t /\ pc'[a] = pc[a] /\ killed'[a] = killed[a] /\ holds'[a] = holds[a]
    BY <1>1, <1>6 DEF Frame, Untouched, Other
  <2>2. global_read_lock # 0  BY <1>2, <2>1, NoHolder
  <2>3. /\ Commits(t)
        /\ \A x \in Table : x \in Opened(t)' =>
              x \in Opened(t) /\ inst'[t][x].version <= inst[t][x].version
    BY <1>6, <2>2 DEF HolderStep
  <2>4. \/ pc[a] = "flush"
        \/ pc[a] \in Loop /\ \A x \in Opened(t) : inst[t][x].version < refresh_version
    BY <1>1, <1>2, <1>6, <2>1, <2>3 DEF HolderRight
  <2>. QED  BY <1>2, <1>3, <1>4, <1>6, <2>1, <2>3, <2>4
<1>7. CASE u # t
  <2>1. Commits(u) /\ Untouched(u)  BY <1>1, <1>5, <1>7 DEF Frame, Other
  <2>2. Opened(u)' = Opened(u) /\ \A x \in Table : inst'[u][x].version <= inst[u][x].version
    BY <1>1, <1>2, <2>1, OthersSame
  <2>3. CASE a # t
    <3>1. pc'[a] = pc[a] /\ killed'[a] = killed[a] /\ holds'[a] = holds[a]
      BY <2>3 DEF Frame, Untouched, Other
    <3>2. \/ pc[a] = "flush"
          \/ pc[a] \in Loop /\ \A x \in Opened(u) : inst[u][x].version < refresh_version
      BY <1>1, <1>2, <2>1, <3>1 DEF HolderRight
    <3>. QED  BY <1>1, <1>2, <1>3, <1>4, <2>2, <3>1, <3>2
  <2>4. CASE a = t
    <3>1. ASSUME holds[t], ~ killed[t]
          PROVE  \/ pc[t] = "flush"
                 \/ pc[t] \in Loop /\ \A x \in Opened(u) : inst[u][x].version < refresh_version
      BY <1>1, <1>2, <2>1, <2>4, <3>1 DEF HolderRight
    <3>2. CASE pc'[t] \in Loop /\ refresh_version' = refresh_version + 1
      <4>1. \A x \in Table : inst[u][x].version <= refresh_version
        BY <1>2 DEF Right, InstRight
      <4>. QED  BY <1>1, <1>2, <1>3, <1>4, <2>2, <2>4, <3>2, <4>1
    <3>3. CASE holds[t] /\ ~ killed[t] /\ pc'[t] \in Loop /\ pc[t] \in Loop
      BY <1>1, <1>2, <1>3, <1>4, <2>2, <2>4, <3>1, <3>3 DEF Loop
    <3>4. CASE holds[t] /\ ~ killed[t] /\ pc[t] \notin Loop \cup {"flush"}
      BY <3>1, <3>4
    <3>5. CASE holds[t] /\ ~ killed[t] /\ pc[t] \in Loop /\ ~ OldTablesOpen
      <4>1. PICK x \in Table : x \in Opened(u) /\ inst[u][x].file # 0
        BY <1>1, <1>2, <2>1, CommitsOpen
      <4>2. inst[u][x].version < refresh_version  BY <3>1, <3>5, <4>1 DEF Loop
      <4>. QED  BY <1>1, <3>5, <4>1, <4>2 DEF OldTablesOpen
    <3>. QED  BY <2>4, <3>2, <3>3, <3>4, <3>5 DEF HolderStep
  <2>. QED  BY <2>3, <2>4
<1>. QED  BY <1>6, <1>7

(* What a step of thread t has to show. *)
StepRight(t) ==
  Data' /\ Frame(t) /\ Counts(t) /\ Right(t)' /\ HolderStep(t)

LEMMA StepKeeps ==
  ASSUME IInv, NEW t \in Thread, StepRight(t)
  PROVE  IInv'
<1>1. Data /\ ReadLockCounts /\ Bounded /\ Data' /\ Frame(t) /\ Counts(t)
  BY DEF IInv, StepRight
<1>2. ReadLockCounts' /\ Bounded' /\ refresh_version <= refresh_version'
  BY <1>1, CountsKept
<1>3. refresh_version \in Nat /\ refresh_version' \in Nat  BY <1>1, <1>2 DEF Bounded
<1>4. ASSUME NEW u \in Thread PROVE Right(u)'
  <2>1. CASE u = t  BY <2>1 DEF StepRight
  <2>2. CASE u # t
    <3>1. Untouched(u) /\ Right(u)  BY <1>1, <2>2 DEF Frame, Other, IInv
    <3>. QED  BY <1>1, <1>2, <1>3, <3>1, OthersRight
  <2>. QED  BY <2>1, <2>2
<1>5. \A a \in Thread : HolderRight(a)'
  BY <1>1, <1>2, <1>3, HoldersKept DEF StepRight
<1>. QED  BY <1>1, <1>2, <1>4, <1>5 DEF IInv

LEMMA CountersType ==
  ASSUME IInv
  PROVE  /\ refresh_version \in 1 .. MaxVersion
         /\ global_read_lock \in Nat /\ protect_against_global_read_lock \in Nat
<1> DEFINE F == {u \in Thread : ToFlush(u)}
<1>1. \A S \in SUBSET Thread : Cardinality(S) \in Nat
  BY Constants, FS_Subset, FS_CardinalityType
<1>2. Cardinality(F) \in Nat  BY <1>1
<1>3. refresh_version \in 1 .. MaxVersion  BY <1>2, Constants DEF IInv, Bounded
<1>. QED  BY <1>1, <1>3 DEF IInv, ReadLockCounts

LEMMA Least ==
  ASSUME NEW T \in SUBSET Nat, T # {}
  PROVE  \E n \in T : \A m \in T : n <= m
<1>1. \E x \in T : \A y \in T : <<y, x>> \notin OpToRel(<, Nat)
  BY NatLessThanWellFounded, WFMin
<1>2. \A x, y \in Nat : <<y, x>> \notin OpToRel(<, Nat) => x <= y
  BY DEF OpToRel
<1>. QED  BY <1>1, <1>2

(* thr_multi_lock has a lock to ask for next. *)
LEMMA NextLock ==
  ASSUME Data, NEW t \in Thread, WantRight(t), pc[t] = "thr"
  PROVE  /\ Next_lock(t) \in want[t] /\ Next_lock(t) \in Table
         /\ Next_lock(t) \in Opened(t) /\ thr[t][Next_lock(t)] # "has"
<1> DEFINE T == {x \in want[t] : thr[t][x] # "has"}
<1>1. want[t] \subseteq Table /\ want[t] = Opened(t)  BY DEF Data, WantRight, Locking
<1>2. T \in SUBSET Nat /\ T # {}  BY <1>1, Constants DEF WantRight
<1>3. PICK x \in T : \A y \in T : x <= y  BY <1>2, Least
<1>4. /\ Next_lock(t) \in want[t] /\ thr[t][Next_lock(t)] # "has"
  BY <1>3 DEF Next_lock
<1>. QED  BY <1>1, <1>4

-----------------------------------------------------------------------------
(* Every step is right. *)

USE DEF Begins, Locking, Loop, FlushPc, DropPc, Naming, NamePc, Ends, Calm, Waits

(* A step that leaves the TABLEs of t alone, and does not end a FLUSH. *)
LEMMA HolderSame ==
  ASSUME IInv, NEW t \in Thread, Opened(t)' = Opened(t),
         \A x \in Opened(t) : inst'[t][x].version = inst[t][x].version,
         Commits(t)' => Commits(t) \/ global_read_lock = 0,
         holds'[t] /\ ~ killed'[t] => /\ holds[t] /\ ~ killed[t]
                                      /\ pc[t] \in Loop => pc'[t] \in Loop
                                      /\ pc[t] # "flush"
  PROVE  HolderStep(t)
<1>1. \A x \in Table : inst[t][x].version \in Nat
  BY Constants DEF IInv, Data, TableType
<1>2. Opened(t) \subseteq Table  BY DEF Opened
<1>3. \A x \in Opened(t) : inst'[t][x].version <= inst[t][x].version  BY <1>1, <1>2
<1>. QED  BY <1>3 DEF HolderStep


(* A step after which t has nothing open that it may write. *)
LEMMA HolderNot ==
  ASSUME NEW t \in Thread, ~ Commits(t)',
         holds'[t] /\ ~ killed'[t] => /\ holds[t] /\ ~ killed[t]
                                      /\ pc[t] \notin Loop \cup {"flush"}
  PROVE  HolderStep(t)
BY DEF HolderStep

(* The TABLEs that are made anew. *)
Anew(v, f, w) ==
  [NoTable EXCEPT !.version = v, !.file = f, !.used = TRUE, !.write = w]
LEMMA NewTable ==
  ASSUME NEW v \in 0 .. MaxVersion, NEW f \in 0 .. 2, NEW w \in BOOLEAN
  PROVE  LET i == Anew(v, f, w) IN
           /\ i \in TableType /\ i.version = v /\ i.file = f /\ i.write = w
           /\ i.used /\ ~ i.by_name /\ ~ i.by_flush
BY DEF Anew, NoTable, TableType

LEMMA NoTableSame ==
  /\ NoTable \in TableType /\ ~ NoTable.used /\ ~ NoTable.by_name
  /\ ~ NoTable.by_flush /\ NoTable.file = 0 /\ NoTable.version = 0
  /\ NameLock \in TableType /\ NameLock.used /\ NameLock.by_name
  /\ ~ NameLock.by_flush /\ NameLock.file = 0 /\ NameLock.version = 0
<1>1. 0 \in 0 .. MaxVersion /\ 0 \in 0 .. 2  BY Constants
<1>. QED  BY <1>1 DEF NoTable, NameLock, TableType

(* A thread that takes name locks has no other TABLE. *)
LEMMA NothingOpen ==
  ASSUME NEW t \in Thread, Right(t), pc[t] \in NamePc \cup {"idle"}, ~ locked_tables[t]
  PROVE  Opened(t) = {} /\ \A x \in Table : thr[t][x] = "no"
<1>1. \A x \in Table : x \notin Opened(t)  BY DEF Right, OpenRight
<1>2. Opened(t) = {}  BY <1>1 DEF Opened
<1>. QED  BY <1>2 DEF Right, ThrRight

(* close_old_data_files keeps the TABLEs. *)
LEMMA ClosedOldSame ==
  ASSUME Data, NEW t \in Thread, refresh_version \in 1 .. MaxVersion
  PROVE  /\ ClosedOld(t) \in [Thread -> [Table -> TableType]]
         /\ \A u \in Other(t) : ClosedOld(t)[u] = inst[u]
         /\ \A x \in Table : LET j == ClosedOld(t)[t][x] IN
              /\ j.used = inst[t][x].used /\ j.write = inst[t][x].write
              /\ j.by_name = inst[t][x].by_name /\ j.by_flush = inst[t][x].by_flush
              /\ x \in Stale(t) => j.version = refresh_version /\ j.file = 0
              /\ x \notin Stale(t) => j = inst[t][x]
<1> DEFINE C(i) == [i EXCEPT !.version = refresh_version, !.file = 0]
<1>1. \A i \in TableType :
         /\ C(i) \in TableType /\ C(i).used = i.used /\ C(i).write = i.write
         /\ C(i).by_name = i.by_name /\ C(i).by_flush = i.by_flush
         /\ C(i).version = refresh_version /\ C(i).file = 0
  <2>1. refresh_version \in 0 .. MaxVersion /\ 0 \in 0 .. 2  BY Constants
  <2>. QED  BY <2>1 DEF TableType
<1>2. \A x \in Table : ClosedOld(t)[t][x] = IF x \in Stale(t) THEN C(inst[t][x]) ELSE inst[t][x]
  BY DEF ClosedOld, Data
<1>3. \A u \in Other(t) : ClosedOld(t)[u] = inst[u]
  BY DEF ClosedOld, Data, Other
<1> HIDE DEF C
<1>4. \A x \in Table : inst[t][x] \in TableType  BY DEF Data
<1>5. \A x \in Table : ClosedOld(t)[t][x] \in TableType  BY <1>1, <1>2, <1>4
<1>6. ClosedOld(t) \in [Thread -> [Table -> TableType]]
  <2>1. ClosedOld(t)[t] \in [Table -> TableType]  BY <1>5 DEF ClosedOld, Data
  <2>2. \A u \in Thread : ClosedOld(t)[u] \in [Table -> TableType]
    BY <1>3, <2>1 DEF Data, Other
  <2>. QED  BY <2>2 DEF ClosedOld, Data
<1>. QED  BY <1>1, <1>2, <1>3, <1>4, <1>6

(* remove_table_from_cache, on a cache i that differs from inst for t only. *)
LEMMA RemoveKeeps ==
  ASSUME Data, NEW t \in Thread, NEW i \in [Thread -> [Table -> TableType]], NEW X,
         \A u \in Other(t) : i[u] = inst[u], remove_table_from_cache(t, i, X)
  PROVE  /\ inst' \in [Thread -> [Table -> TableType]]
         /\ unused' \in [Table -> SUBSET [version : 1 .. MaxVersion, file : 1 .. 2]]
         /\ some_tables_deleted' \in [Thread -> BOOLEAN]
         /\ \A x \in Table : unused'[x] \subseteq unused[x]
         /\ \A u \in Other(t) : \A x \in Table :
              inst'[u][x] = inst[u][x] \/ inst'[u][x] = Old(inst[u][x])
         /\ \A x \in Table : inst'[t][x] = IF x \in X THEN Old(i[t][x]) ELSE i[t][x]
<1>1. \A u \in Thread : \A x \in Table :
         inst'[u][x] = IF x \in X THEN Old(i[u][x]) ELSE i[u][x]
  BY DEF remove_table_from_cache, Outdated, Old
<1>2. \A u \in Thread : \A x \in Table : i[u][x] \in TableType  OBVIOUS
<1>3. \A u \in Thread : \A x \in Table : inst'[u][x] \in TableType
  BY <1>1, <1>2, OldSame
<1>4. inst' \in [Thread -> [Table -> TableType]]
  BY <1>3 DEF remove_table_from_cache, Outdated
<1>5. /\ unused' \in [Table -> SUBSET [version : 1 .. MaxVersion, file : 1 .. 2]]
      /\ \A x \in Table : unused'[x] \subseteq unused[x]
  BY DEF remove_table_from_cache, Data
<1>6. some_tables_deleted' \in [Thread -> BOOLEAN]
  BY DEF remove_table_from_cache, Data
<1>. QED  BY <1>1, <1>4, <1>5, <1>6 DEF Other

(* A query or LOCK TABLES starts; under LOCK TABLES it has its tables.     *)
LEMMA begin_query_right ==
  ASSUME IInv, NEW t \in Thread, begin_query(t)
  PROVE  StepRight(t)
<1>1. /\ Data /\ Right(t) /\ LabelRight(t) /\ WantRight(t) /\ MutexRight(t)
      /\ refresh_version \in 1 .. MaxVersion /\ global_read_lock \in Nat
      /\ protect_against_global_read_lock \in Nat /\ ReadLockCounts
      /\ \A x \in Table : InstRight(t, x) /\ ThrRight(t, x) /\ OpenRight(t, x)
  BY CountersType DEF IInv, Right
<1>p. PICK s \in Statement[t] :
         /\ s.op \in {"query", "lock"} /\ Starts(t, s)
         /\ \/ ~ locked_tables[t] /\ pc' = [pc EXCEPT ![t] = "open"]
            \/ /\ locked_tables[t] /\ s.op = "query"
               /\ s.tabs \subseteq Opened(t) /\ \A x \in s.writes : inst[t][x].write
               /\ pc' = [pc EXCEPT ![t] = "run"]
  BY DEF begin_query, Goto
<1>a. /\ s \in StatementType /\ WellFormed(s) /\ pc[t] = "idle" /\ ~ killed[t]
      /\ stmt' = [stmt EXCEPT ![t] = s] /\ stmt'[t] = s
  BY <1>1, <1>p, Statements DEF WellFormed, Starts, Data
<1>2. Data'
  <2>1. stmt' \in [Thread -> StatementType]  BY <1>1, <1>a DEF Data
  <2>2. pc' \in [Thread -> Label]  BY <1>1, <1>p DEF Data, Label
  <2>. QED  BY <1>1, <2>1, <2>2 DEF Data, begin_query
<1>3. Frame(t)
  BY <1>1, <1>a, Constants DEF Frame, Untouched, Other, Data, begin_query,
     Goto, Starts
<1>4. Counts(t)
  BY <1>1, <1>a DEF Counts, Protected, ToFlush, Op, Data, begin_query, Goto,
     Starts
<1>5. LabelRight(t)'
  BY <1>1, <1>p, <1>a DEF LabelRight, Op, Flushing, Data, begin_query
<1>6. WantRight(t)'
  BY <1>1, <1>a DEF WantRight, Opened, Data, begin_query, Goto, Starts
<1>7. MutexRight(t)'
  BY <1>1, <1>a, Constants DEF MutexRight, WritesOpened, Opened, Flushing, Op,
     Data, begin_query, Goto, Starts
<1>8. ASSUME NEW x \in Table PROVE InstRight(t, x)' /\ ThrRight(t, x)' /\ OpenRight(t, x)'
  <2>1. InstRight(t, x)'
    BY <1>1, <1>a DEF InstRight, Data, begin_query, Goto, Starts
  <2>2. ThrRight(t, x)'
    BY <1>1, <1>p, <1>a, NothingOpen DEF ThrRight, Opened, Data, begin_query
  <2>3. OpenRight(t, x)'
    BY <1>1, <1>a DEF OpenRight, MayBeClosed, Holding, Opened, Data,
       begin_query, Goto, Starts
  <2>. QED  BY <2>1, <2>2, <2>3
<1>9. HolderStep(t)
  <2>1. Opened(t)' = Opened(t) /\ (WritesOpened(t)' <=> WritesOpened(t))
        /\ \A x \in Opened(t) : inst'[t][x].version = inst[t][x].version
    BY <1>1, <1>a DEF WritesOpened, Opened, Data, begin_query, Goto, Starts
  <2>2. Commits(t)' => Commits(t) \/ global_read_lock = 0
    BY <1>1, <1>a, <2>1 DEF Commits, Data, begin_query, Goto, Starts
  <2>3. holds'[t] /\ ~ killed'[t] => /\ holds[t] /\ ~ killed[t]
                                     /\ pc[t] \in Loop => pc'[t] \in Loop
                                     /\ pc[t] # "flush"
    BY <1>1, <1>a DEF Data, begin_query, Goto, Starts
  <2>. QED  BY <2>1, <2>2, <2>3, HolderSame
<1>. QED
  BY <1>2, <1>3, <1>4, <1>5, <1>6, <1>7, <1>8, <1>9 DEF StepRight, Right

(* FLUSH TABLES starts, if the bound leaves room for it.                   *)
LEMMA begin_flush_right ==
  ASSUME IInv, NEW t \in Thread, begin_flush(t)
  PROVE  StepRight(t)
<1>1. /\ Data /\ Right(t) /\ LabelRight(t) /\ WantRight(t) /\ MutexRight(t)
      /\ refresh_version \in 1 .. MaxVersion /\ global_read_lock \in Nat
      /\ protect_against_global_read_lock \in Nat /\ ReadLockCounts
      /\ \A x \in Table : InstRight(t, x) /\ ThrRight(t, x) /\ OpenRight(t, x)
  BY CountersType DEF IInv, Right
<1>p. PICK s \in Statement[t] :
         /\ s.op \in {"flush", "read_lock"} /\ Starts(t, s)
         /\ \/ pc' = [pc EXCEPT ![t] = "read_lock"] /\ ~ holds[t]
            \/ pc' = [pc EXCEPT ![t] = "flush"]
  BY DEF begin_flush, Goto
<1>a. /\ s \in StatementType /\ WellFormed(s) /\ pc[t] = "idle" /\ ~ killed[t]
      /\ stmt' = [stmt EXCEPT ![t] = s] /\ stmt'[t] = s
  BY <1>1, <1>p, Statements DEF WellFormed, Starts, Data
<1>2. Data'
  <2>1. stmt' \in [Thread -> StatementType]  BY <1>1, <1>a DEF Data
  <2>2. pc' \in [Thread -> Label]  BY <1>1, <1>p DEF Data, Label
  <2>. QED  BY <1>1, <2>1, <2>2 DEF Data, begin_flush
<1>3. Frame(t)
  BY <1>1, <1>a, Constants DEF Frame, Untouched, Other, Data, begin_flush,
     Goto, Starts
<1>4. Counts(t)
  BY <1>1, <1>a DEF Counts, Protected, ToFlush, Op, Data, begin_flush, Goto,
     Starts
<1>5. LabelRight(t)'
  BY <1>1, <1>p, <1>a DEF LabelRight, Op, Flushing, Data, begin_flush
<1>6. WantRight(t)'
  BY <1>1, <1>a DEF WantRight, Opened, Data, begin_flush, Goto, Starts
<1>7. MutexRight(t)'
  BY <1>1, <1>a, Constants DEF MutexRight, WritesOpened, Opened, Flushing, Op,
     Data, begin_flush, Goto, Starts
<1>8. ASSUME NEW x \in Table PROVE InstRight(t, x)' /\ ThrRight(t, x)' /\ OpenRight(t, x)'
  <2>1. InstRight(t, x)'
    BY <1>1, <1>a DEF InstRight, Data, begin_flush, Goto, Starts
  <2>2. ThrRight(t, x)'
    BY <1>1, <1>a DEF ThrRight, Opened, Data, begin_flush, Goto, Starts
  <2>3. OpenRight(t, x)'
    BY <1>1, <1>a DEF OpenRight, MayBeClosed, Holding, Opened, Data,
       begin_flush, Goto, Starts
  <2>. QED  BY <2>1, <2>2, <2>3
<1>9. HolderStep(t)
  <2>1. Opened(t)' = Opened(t) /\ (WritesOpened(t)' <=> WritesOpened(t))
        /\ \A x \in Opened(t) : inst'[t][x].version = inst[t][x].version
    BY <1>1, <1>a DEF WritesOpened, Opened, Data, begin_flush, Goto, Starts
  <2>2. Commits(t)' => Commits(t) \/ global_read_lock = 0
    BY <1>1, <1>a, <2>1 DEF Commits, Data, begin_flush, Goto, Starts
  <2>3. holds'[t] /\ ~ killed'[t] => /\ holds[t] /\ ~ killed[t]
                                     /\ pc[t] \in Loop => pc'[t] \in Loop
                                     /\ pc[t] # "flush"
    BY <1>1, <1>a DEF Data, begin_flush, Goto, Starts
  <2>. QED  BY <2>1, <2>2, <2>3, HolderSame
<1>. QED
  BY <1>2, <1>3, <1>4, <1>5, <1>6, <1>7, <1>8, <1>9 DEF StepRight, Right

(* DROP, TRUNCATE or RENAME TABLE starts.                                  *)
LEMMA begin_ddl_right ==
  ASSUME IInv, NEW t \in Thread, begin_ddl(t)
  PROVE  StepRight(t)
<1>1. /\ Data /\ Right(t) /\ LabelRight(t) /\ WantRight(t) /\ MutexRight(t)
      /\ refresh_version \in 1 .. MaxVersion /\ global_read_lock \in Nat
      /\ protect_against_global_read_lock \in Nat /\ ReadLockCounts
      /\ \A x \in Table : InstRight(t, x) /\ ThrRight(t, x) /\ OpenRight(t, x)
  BY CountersType DEF IInv, Right
<1>p. PICK s \in Statement[t] :
         /\ Starts(t, s)
         /\ \/ s.op = "drop" /\ pc' = [pc EXCEPT ![t] = "drop"]
            \/ /\ s.op = "truncate" /\ ~ locked_tables[t]
               /\ pc' = [pc EXCEPT ![t] = "name_read_lock"]
            \/ /\ s.op = "rename" /\ ~ locked_tables[t]
               /\ pc' = [pc EXCEPT ![t] = "name_lock"]
  BY DEF begin_ddl, Goto
<1>a. /\ s \in StatementType /\ WellFormed(s) /\ pc[t] = "idle" /\ ~ killed[t]
      /\ stmt' = [stmt EXCEPT ![t] = s] /\ stmt'[t] = s
  BY <1>1, <1>p, Statements DEF WellFormed, Starts, Data
<1>2. Data'
  <2>1. stmt' \in [Thread -> StatementType]  BY <1>1, <1>a DEF Data
  <2>2. pc' \in [Thread -> Label]  BY <1>1, <1>p DEF Data, Label
  <2>. QED  BY <1>1, <2>1, <2>2 DEF Data, begin_ddl
<1>3. Frame(t)
  BY <1>1, <1>a, Constants DEF Frame, Untouched, Other, Data, begin_ddl, Goto,
     Starts
<1>4. Counts(t)
  BY <1>1, <1>a DEF Counts, Protected, ToFlush, Op, Data, begin_ddl, Goto,
     Starts
<1>5. LabelRight(t)'
  BY <1>1, <1>p, <1>a DEF LabelRight, Op, Flushing, Data, begin_ddl
<1>6. WantRight(t)'
  BY <1>1, <1>a DEF WantRight, Opened, Data, begin_ddl, Goto, Starts
<1>7. MutexRight(t)'
  BY <1>1, <1>a, Constants DEF MutexRight, WritesOpened, Opened, Flushing, Op,
     Data, begin_ddl, Goto, Starts
<1>8. ASSUME NEW x \in Table PROVE InstRight(t, x)' /\ ThrRight(t, x)' /\ OpenRight(t, x)'
  <2>1. InstRight(t, x)'
    BY <1>1, <1>a DEF InstRight, Data, begin_ddl, Goto, Starts
  <2>2. ThrRight(t, x)'
    BY <1>1, <1>a DEF ThrRight, Opened, Data, begin_ddl, Goto, Starts
  <2>3. OpenRight(t, x)'
    BY <1>1, <1>a DEF OpenRight, MayBeClosed, Holding, Opened, Data, begin_ddl,
       Goto, Starts
  <2>. QED  BY <2>1, <2>2, <2>3
<1>9. HolderStep(t)
  <2>1. Opened(t)' = Opened(t) /\ (WritesOpened(t)' <=> WritesOpened(t))
        /\ \A x \in Opened(t) : inst'[t][x].version = inst[t][x].version
    BY <1>1, <1>a DEF WritesOpened, Opened, Data, begin_ddl, Goto, Starts
  <2>2. Commits(t)' => Commits(t) \/ global_read_lock = 0
    BY <1>1, <1>a, <2>1 DEF Commits, Data, begin_ddl, Goto, Starts
  <2>3. holds'[t] /\ ~ killed'[t] => /\ holds[t] /\ ~ killed[t]
                                     /\ pc[t] \in Loop => pc'[t] \in Loop
                                     /\ pc[t] # "flush"
    BY <1>1, <1>a DEF Data, begin_ddl, Goto, Starts
  <2>. QED  BY <2>1, <2>2, <2>3, HolderSame
<1>. QED
  BY <1>2, <1>3, <1>4, <1>5, <1>6, <1>7, <1>8, <1>9 DEF StepRight, Right

(* UNLOCK TABLES gives back the global read lock.                          *)
LEMMA unlock_tables_right ==
  ASSUME IInv, NEW t \in Thread, unlock_tables(t)
  PROVE  StepRight(t)
<1>1. /\ Data /\ Right(t) /\ LabelRight(t) /\ WantRight(t) /\ MutexRight(t)
      /\ refresh_version \in 1 .. MaxVersion /\ global_read_lock \in Nat
      /\ protect_against_global_read_lock \in Nat /\ ReadLockCounts
      /\ \A x \in Table : InstRight(t, x) /\ ThrRight(t, x) /\ OpenRight(t, x)
  BY CountersType DEF IInv, Right
<1>2. Data'
  BY <1>1, Constants DEF Data, Label, unlock_tables, Goto,
     unlock_global_read_lock, Enter, BroadcastIf, Leave
<1>3. Frame(t)
  BY <1>1, Constants DEF Frame, Untouched, Other, Data, unlock_tables, Goto,
     unlock_global_read_lock, Enter, BroadcastIf, Leave
<1>4. Counts(t)
  BY <1>1 DEF Counts, Protected, ToFlush, Op, Data, unlock_tables, Goto,
     unlock_global_read_lock, Enter, BroadcastIf, Leave
<1>5. LabelRight(t)'
  BY <1>1 DEF LabelRight, Op, Flushing, Data, unlock_tables, Goto,
     unlock_global_read_lock, Enter, BroadcastIf, Leave
<1>6. WantRight(t)'
  BY <1>1 DEF WantRight, Opened, Data, unlock_tables, Goto,
     unlock_global_read_lock, Enter, BroadcastIf, Leave
<1>7. MutexRight(t)'
  BY <1>1, Constants DEF MutexRight, WritesOpened, Opened, Flushing, Op, Data,
     unlock_tables, Goto, unlock_global_read_lock, Enter, BroadcastIf, Leave
<1>8. ASSUME NEW x \in Table PROVE InstRight(t, x)' /\ ThrRight(t, x)' /\ OpenRight(t, x)'
  <2>1. InstRight(t, x)'
    BY <1>1 DEF InstRight, Data, unlock_tables, Goto, unlock_global_read_lock,
       Enter, BroadcastIf, Leave
  <2>2. ThrRight(t, x)'
    BY <1>1 DEF ThrRight, Opened, Data, unlock_tables, Goto,
       unlock_global_read_lock, Enter, BroadcastIf, Leave
  <2>3. OpenRight(t, x)'
    BY <1>1 DEF OpenRight, MayBeClosed, Holding, Opened, Data, unlock_tables,
       Goto, unlock_global_read_lock, Enter, BroadcastIf, Leave
  <2>. QED  BY <2>1, <2>2, <2>3
<1>9. HolderStep(t)
  <2>1. Opened(t)' = Opened(t) /\ (WritesOpened(t)' <=> WritesOpened(t))
        /\ \A x \in Opened(t) : inst'[t][x].version = inst[t][x].version
    BY <1>1 DEF WritesOpened, Opened, Data, unlock_tables, Goto,
       unlock_global_read_lock, Enter, BroadcastIf, Leave
  <2>2. Commits(t)' => Commits(t) \/ global_read_lock = 0
    BY <1>1, <2>1 DEF Commits, Data, unlock_tables, Goto,
       unlock_global_read_lock, Enter, BroadcastIf, Leave
  <2>3. holds'[t] /\ ~ killed'[t] => /\ holds[t] /\ ~ killed[t]
                                     /\ pc[t] \in Loop => pc'[t] \in Loop
                                     /\ pc[t] # "flush"
    BY <1>1 DEF Data, unlock_tables, Goto, unlock_global_read_lock, Enter,
       BroadcastIf, Leave
  <2>. QED  BY <2>1, <2>2, <2>3, HolderSame
<1>. QED
  BY <1>2, <1>3, <1>4, <1>5, <1>6, <1>7, <1>8, <1>9 DEF StepRight, Right

(* A killed thread does not open more tables.                              *)
LEMMA open_killed_right ==
  ASSUME IInv, NEW t \in Thread, open_killed(t)
  PROVE  StepRight(t)
<1>1. /\ Data /\ Right(t) /\ LabelRight(t) /\ WantRight(t) /\ MutexRight(t)
      /\ refresh_version \in 1 .. MaxVersion /\ global_read_lock \in Nat
      /\ protect_against_global_read_lock \in Nat /\ ReadLockCounts
      /\ \A x \in Table : InstRight(t, x) /\ ThrRight(t, x) /\ OpenRight(t, x)
  BY CountersType DEF IInv, Right
<1>2. Data'  BY <1>1, Constants DEF Data, Label, open_killed, Goto
<1>3. Frame(t)
  BY <1>1, Constants DEF Frame, Untouched, Other, Data, open_killed, Goto
<1>4. Counts(t)
  BY <1>1 DEF Counts, Protected, ToFlush, Op, Data, open_killed, Goto
<1>5. LabelRight(t)'
  BY <1>1 DEF LabelRight, Op, Flushing, Data, open_killed, Goto
<1>6. WantRight(t)'  BY <1>1 DEF WantRight, Opened, Data, open_killed, Goto
<1>7. MutexRight(t)'
  BY <1>1, Constants DEF MutexRight, WritesOpened, Opened, Flushing, Op, Data,
     open_killed, Goto
<1>8. ASSUME NEW x \in Table PROVE InstRight(t, x)' /\ ThrRight(t, x)' /\ OpenRight(t, x)'
  <2>1. InstRight(t, x)'  BY <1>1 DEF InstRight, Data, open_killed, Goto
  <2>2. ThrRight(t, x)'  BY <1>1 DEF ThrRight, Opened, Data, open_killed, Goto
  <2>3. OpenRight(t, x)'
    BY <1>1 DEF OpenRight, MayBeClosed, Holding, Opened, Data, open_killed,
       Goto
  <2>. QED  BY <2>1, <2>2, <2>3
<1>9. HolderStep(t)
  <2>1. Opened(t)' = Opened(t) /\ (WritesOpened(t)' <=> WritesOpened(t))
        /\ \A x \in Opened(t) : inst'[t][x].version = inst[t][x].version
    BY <1>1 DEF WritesOpened, Opened, Data, open_killed, Goto
  <2>2. Commits(t)' => Commits(t) \/ global_read_lock = 0
    BY <1>1, <2>1 DEF Commits, Data, open_killed, Goto
  <2>3. holds'[t] /\ ~ killed'[t] => /\ holds[t] /\ ~ killed[t]
                                     /\ pc[t] \in Loop => pc'[t] \in Loop
                                     /\ pc[t] # "flush"
    BY <1>1 DEF Data, open_killed, Goto
  <2>. QED  BY <2>1, <2>2, <2>3, HolderSame
<1>. QED
  BY <1>2, <1>3, <1>4, <1>5, <1>6, <1>7, <1>8, <1>9 DEF StepRight, Right

(* A thread that has older TABLEs open starts again.                       *)
LEMMA open_refused_right ==
  ASSUME IInv, NEW t \in Thread, open_refused(t)
  PROVE  StepRight(t)
<1>1. /\ Data /\ Right(t) /\ LabelRight(t) /\ WantRight(t) /\ MutexRight(t)
      /\ refresh_version \in 1 .. MaxVersion /\ global_read_lock \in Nat
      /\ protect_against_global_read_lock \in Nat /\ ReadLockCounts
      /\ \A x \in Table : InstRight(t, x) /\ ThrRight(t, x) /\ OpenRight(t, x)
  BY CountersType DEF IInv, Right
<1>2. Data'
  BY <1>1, Constants DEF Data, Label, open_refused, Goto, Opening, Enter,
     ThdVersion
<1>3. Frame(t)
  BY <1>1, Constants DEF Frame, Untouched, Other, Data, open_refused, Goto,
     Opening, Enter, ThdVersion
<1>4. Counts(t)
  BY <1>1 DEF Counts, Protected, ToFlush, Op, Data, open_refused, Goto,
     Opening, Enter, ThdVersion
<1>5. LabelRight(t)'
  BY <1>1 DEF LabelRight, Op, Flushing, Data, open_refused, Goto, Opening,
     Enter, ThdVersion
<1>6. WantRight(t)'
  BY <1>1 DEF WantRight, Opened, Data, open_refused, Goto, Opening, Enter,
     ThdVersion
<1>7. MutexRight(t)'
  BY <1>1, Constants DEF MutexRight, WritesOpened, Opened, Flushing, Op, Data,
     open_refused, Goto, Opening, Enter, ThdVersion
<1>8. ASSUME NEW x \in Table PROVE InstRight(t, x)' /\ ThrRight(t, x)' /\ OpenRight(t, x)'
  <2>1. InstRight(t, x)'
    BY <1>1 DEF InstRight, Data, open_refused, Goto, Opening, Enter, ThdVersion
  <2>2. ThrRight(t, x)'
    BY <1>1 DEF ThrRight, Opened, Data, open_refused, Goto, Opening, Enter,
       ThdVersion
  <2>3. OpenRight(t, x)'
    BY <1>1 DEF OpenRight, MayBeClosed, Holding, Opened, Data, open_refused,
       Goto, Opening, Enter, ThdVersion
  <2>. QED  BY <2>1, <2>2, <2>3
<1>9. HolderStep(t)
  <2>1. Opened(t)' = Opened(t) /\ (WritesOpened(t)' <=> WritesOpened(t))
        /\ \A x \in Opened(t) : inst'[t][x].version = inst[t][x].version
    BY <1>1 DEF WritesOpened, Opened, Data, open_refused, Goto, Opening, Enter,
       ThdVersion
  <2>2. Commits(t)' => Commits(t) \/ global_read_lock = 0
    BY <1>1, <2>1 DEF Commits, Data, open_refused, Goto, Opening, Enter,
       ThdVersion
  <2>3. holds'[t] /\ ~ killed'[t] => /\ holds[t] /\ ~ killed[t]
                                     /\ pc[t] \in Loop => pc'[t] \in Loop
                                     /\ pc[t] # "flush"
    BY <1>1 DEF Data, open_refused, Goto, Opening, Enter, ThdVersion
  <2>. QED  BY <2>1, <2>2, <2>3, HolderSame
<1>. QED
  BY <1>2, <1>3, <1>4, <1>5, <1>6, <1>7, <1>8, <1>9 DEF StepRight, Right

(* open_table closes the old files of the thread and waits.                *)
LEMMA open_waits_right ==
  ASSUME IInv, NEW t \in Thread, open_waits(t)
  PROVE  StepRight(t)
<1>1. /\ Data /\ Right(t) /\ LabelRight(t) /\ WantRight(t) /\ MutexRight(t)
      /\ refresh_version \in 1 .. MaxVersion /\ global_read_lock \in Nat
      /\ protect_against_global_read_lock \in Nat /\ ReadLockCounts
      /\ \A x \in Table : InstRight(t, x) /\ ThrRight(t, x) /\ OpenRight(t, x)
  BY CountersType DEF IInv, Right
<1>a. /\ inst' \in [Thread -> [Table -> TableType]] /\ \A u \in Other(t) : inst'[u] = inst[u]
      /\ \A x \in Table :
           /\ inst'[t][x].used = inst[t][x].used /\ inst'[t][x].write = inst[t][x].write
           /\ inst'[t][x].by_name = inst[t][x].by_name
           /\ inst'[t][x].by_flush = inst[t][x].by_flush
           /\ x \in Stale(t) => inst'[t][x].version = refresh_version
           /\ x \notin Stale(t) => inst'[t][x] = inst[t][x]
      /\ Opened(t)' = Opened(t) /\ ~ locked_tables[t] /\ pc[t] = "open" /\ pc'[t] = "refresh"
  BY <1>1, ClosedOldSame DEF open_waits, Opening, WaitAt, Goto, LabelRight,
     Opened, Data
<1>2. Data'
  BY <1>1, <1>a, Constants DEF Data, Label, open_waits, Goto, WaitAt, Opening,
     Enter, BroadcastIf
<1>3. Frame(t)
  BY <1>1, <1>a, Constants DEF Frame, Untouched, Other, Data, open_waits, Goto,
     WaitAt, Opening, Enter, BroadcastIf
<1>4. Counts(t)
  BY <1>1, <1>a DEF Counts, Protected, ToFlush, Op, Data, open_waits, Goto,
     WaitAt, Opening, Enter, BroadcastIf
<1>5. LabelRight(t)'
  BY <1>1, <1>a DEF LabelRight, Op, Flushing, Data, open_waits, Goto, WaitAt,
     Opening, Enter, BroadcastIf
<1>6. WantRight(t)'
  BY <1>1, <1>a DEF WantRight, Opened, Data, open_waits, Goto, WaitAt, Opening,
     Enter, BroadcastIf
<1>7. MutexRight(t)'
  BY <1>1, <1>a, Constants DEF MutexRight, WritesOpened, Opened, Flushing, Op,
     Data, open_waits, Goto, WaitAt, Opening, Enter, BroadcastIf
<1>8. ASSUME NEW x \in Table PROVE InstRight(t, x)' /\ ThrRight(t, x)' /\ OpenRight(t, x)'
  <2>1. InstRight(t, x)'
    BY <1>1, <1>a DEF InstRight, Stale, Opened, open_waits
  <2>2. ThrRight(t, x)'
    BY <1>1, <1>a DEF ThrRight, Opened, Data, open_waits, Goto, WaitAt,
       Opening, Enter, BroadcastIf
  <2>3. OpenRight(t, x)'
    BY <1>1, <1>a DEF OpenRight, MayBeClosed, Holding, Opened, Data,
       open_waits, Goto, WaitAt, Opening, Enter, BroadcastIf
  <2>. QED  BY <2>1, <2>2, <2>3
<1>9. HolderStep(t)
  <2>1. ~ Commits(t)'  BY <1>1, <1>a DEF Commits, open_waits, Data
  <2>. QED  BY <1>1, <2>1, HolderNot DEF open_waits, Opening, Data
<1>. QED
  BY <1>2, <1>3, <1>4, <1>5, <1>6, <1>7, <1>8, <1>9 DEF StepRight, Right

(* open_table takes an unused TABLE, which is of this version.             *)
LEMMA open_cached_right ==
  ASSUME IInv, NEW t \in Thread, open_cached(t)
  PROVE  StepRight(t)
<1>1. /\ Data /\ Right(t) /\ LabelRight(t) /\ WantRight(t) /\ MutexRight(t)
      /\ refresh_version \in 1 .. MaxVersion /\ global_read_lock \in Nat
      /\ protect_against_global_read_lock \in Nat /\ ReadLockCounts
      /\ \A x \in Table : InstRight(t, x) /\ ThrRight(t, x) /\ OpenRight(t, x)
  BY CountersType DEF IInv, Right
<1>q. PICK y \in Table : \E i \in unused[y] :
         /\ Opening(t, y) /\ ThdVersion(t) = refresh_version
         /\ unused' = unused \/ unused' = [unused EXCEPT ![y] = @ \ {i}]
         /\ Open(t, y, i)
  BY DEF open_cached
<1>p. PICK i \in unused[y] :
         /\ Opening(t, y) /\ ThdVersion(t) = refresh_version
         /\ unused' = unused \/ unused' = [unused EXCEPT ![y] = @ \ {i}]
         /\ Open(t, y, i)
  BY <1>q
<1>r. /\ pc[t] = "open" /\ y \in stmt[t].tabs \ Opened(t) /\ LOCK_open = NoThread
      /\ version' = [version EXCEPT ![t] = refresh_version]
      /\ i.version \in 1 .. MaxVersion /\ i.file \in 1 .. 2
      /\ i.version <= refresh_version
      /\ unused' \in [Table -> SUBSET [version : 1 .. MaxVersion, file : 1 .. 2]]
      /\ \A x \in Table : unused'[x] \subseteq unused[x]
  <2>1. unused[y] \subseteq [version : 1 .. MaxVersion, file : 1 .. 2]
    BY <1>1 DEF Data
  <2>2. i.version \in 1 .. MaxVersion /\ i.file \in 1 .. 2  BY <1>p, <2>1
  <2>3. i.version <= refresh_version  BY <1>p DEF IInv, Bounded
  <2>4. \A x \in Table : unused'[x] \subseteq unused[x]  BY <1>1, <1>p DEF Data
  <2>5. unused' \in [Table -> SUBSET [version : 1 .. MaxVersion, file : 1 .. 2]]
    <3>1. DOMAIN unused' = Table /\ unused' = [x \in Table |-> unused'[x]]
      BY <1>1, <1>p DEF Data
    <3>. HIDE DEF Data
    <3>2. \A x \in Table : unused'[x] \subseteq [version : 1 .. MaxVersion, file : 1 .. 2]
      BY <1>1, <2>4 DEF Data
    <3>. QED  BY <3>1, <3>2
  <2>. QED  BY <1>p, <2>2, <2>3, <2>4, <2>5 DEF Opening, Enter, ThdVersion
<1>a. /\ inst' \in [Thread -> [Table -> TableType]]
      /\ \A u \in Other(t) : inst'[u] = inst[u]
      /\ \A x \in Table \ {y} : inst'[t][x] = inst[t][x]
      /\ inst'[t][y].used /\ ~ inst'[t][y].by_name /\ ~ inst'[t][y].by_flush
      /\ inst'[t][y].file # 0 /\ inst'[t][y].version <= refresh_version
      /\ (inst'[t][y].write <=> y \in stmt[t].writes)
      /\ Opened(t)' = Opened(t) \cup {y}
  <2> DEFINE w == y \in stmt[t].writes
             j == Anew(i.version, i.file, w)
  <2>1. /\ j \in TableType /\ j.version = i.version /\ j.file = i.file /\ j.used
        /\ (j.write <=> y \in stmt[t].writes) /\ ~ j.by_name /\ ~ j.by_flush
    <3>1. i.version \in 0 .. MaxVersion /\ i.file \in 0 .. 2 /\ w \in BOOLEAN
      BY <1>1, <1>r, Constants
    <3> HIDE DEF w
    <3>2. /\ j \in TableType /\ j.version = i.version /\ j.file = i.file /\ j.used
          /\ j.write = w /\ ~ j.by_name /\ ~ j.by_flush
      BY <3>1, NewTable
    <3>. QED  BY <3>2 DEF w
  <2>2. inst' = [inst EXCEPT ![t][y] = j]  BY <1>p DEF Open, Anew
  <2> HIDE DEF j
  <2>3. /\ inst' \in [Thread -> [Table -> TableType]] /\ inst'[t][y] = j
        /\ \A x \in Table \ {y} : inst'[t][x] = inst[t][x]
        /\ \A u \in Other(t) : inst'[u] = inst[u]
    BY <1>1, <1>r, <2>1, <2>2 DEF Data, Other
  <2>4. Opened(t)' = Opened(t) \cup {y}  BY <1>r, <2>1, <2>3 DEF Opened
  <2>5. j.file # 0 /\ j.version <= refresh_version  BY <1>1, <1>r, <2>1
  <2>6. inst'[t][y] = j  BY <2>3
  <2>7. /\ inst'[t][y].used /\ ~ inst'[t][y].by_name /\ ~ inst'[t][y].by_flush
        /\ inst'[t][y].file # 0 /\ inst'[t][y].version <= refresh_version
    BY <2>1, <2>5, <2>6
  <2>8. inst'[t][y].write <=> y \in stmt[t].writes  BY <2>1, <2>6
  <2>. QED  BY <2>3, <2>4, <2>7, <2>8
<1>b. \/ /\ stmt[t].tabs = Opened(t)' /\ pc' = [pc EXCEPT ![t] = "lock"]
         /\ want' = [want EXCEPT ![t] = stmt[t].tabs]
      \/ pc' = pc /\ want' = want
  BY <1>p, <1>a DEF Open, Goto
<1>c. /\ ~ locked_tables[t] /\ stmt[t].tabs \subseteq Table /\ thr[t][y] = "no"
      /\ Opened(t) \subseteq Table
  BY <1>1, <1>r DEF LabelRight, WellFormed, StatementType, ThrRight, Opened
<1>2. Data'
  <2>1. pc' \in [Thread -> Label]  BY <1>1, <1>b DEF Data, Label
  <2>2. want' \in [Thread -> SUBSET Table]  BY <1>1, <1>b, <1>c DEF Data
  <2>3. version' \in [Thread -> 1 .. MaxVersion]  BY <1>1, <1>r DEF Data
  <2>4. unused' \in [Table -> SUBSET [version : 1 .. MaxVersion, file : 1 .. 2]]
    BY <1>1, <1>r DEF Data
  <2>. QED  BY <1>1, <1>p, <1>a, <2>1, <2>2, <2>3, <2>4 DEF Data, Open
<1>3. Frame(t)
  BY <1>1, <1>p, <1>r, <1>a, <1>b, <1>c, Constants DEF Frame, Untouched, Other,
     Data, open_cached, Open
<1>4. Counts(t)
  BY <1>1, <1>p, <1>r, <1>a, <1>b DEF Counts, Protected, ToFlush, Op, Data,
     Open
<1>5. LabelRight(t)'
  BY <1>1, <1>p, <1>r, <1>a, <1>b, <1>c DEF LabelRight, Op, Flushing, Data,
     open_cached, Open
<1>6. WantRight(t)'
  BY <1>1, <1>p, <1>r, <1>a, <1>b, <1>c DEF WantRight, Opened, Data,
     open_cached, Open
<1>7. MutexRight(t)'
  BY <1>1, <1>p, <1>r, <1>a, <1>b, <1>c, Constants DEF MutexRight,
     WritesOpened, Opened, Flushing, Op, Data, open_cached, Open
<1>8. ASSUME NEW x \in Table PROVE InstRight(t, x)' /\ ThrRight(t, x)' /\ OpenRight(t, x)'
  <2>1. InstRight(t, x)'
    BY <1>1, <1>p, <1>r, <1>a, <1>b DEF InstRight, Data, Open
  <2>2. ThrRight(t, x)'
    BY <1>1, <1>p, <1>r, <1>a, <1>b, <1>c DEF ThrRight, Data, Open
  <2>3. OpenRight(t, x)'
    BY <1>1, <1>p, <1>r, <1>a, <1>b, <1>c DEF OpenRight, MayBeClosed, Holding,
       Data, Open
  <2>. QED  BY <2>1, <2>2, <2>3
<1>9. HolderStep(t)
  <2>1. ~ Commits(t)'  BY <1>1, <1>r, <1>p, <1>b, <1>c DEF Commits, Open, Data
  <2>. QED  BY <1>1, <1>p, <1>r, <2>1, HolderNot DEF Open, Data
<1>. QED
  BY <1>2, <1>3, <1>4, <1>5, <1>6, <1>7, <1>8, <1>9 DEF StepRight, Right

(* open_table opens the files.                                             *)
LEMMA open_new_right ==
  ASSUME IInv, NEW t \in Thread, open_new(t)
  PROVE  StepRight(t)
<1>1. /\ Data /\ Right(t) /\ LabelRight(t) /\ WantRight(t) /\ MutexRight(t)
      /\ refresh_version \in 1 .. MaxVersion /\ global_read_lock \in Nat
      /\ protect_against_global_read_lock \in Nat /\ ReadLockCounts
      /\ \A x \in Table : InstRight(t, x) /\ ThrRight(t, x) /\ OpenRight(t, x)
  BY CountersType DEF IInv, Right
<1>p. PICK y \in Table :
         /\ NotCached(t, y) /\ file[y] # 0 /\ unused' = unused
         /\ Open(t, y, [version |-> refresh_version, file |-> file[y]])
  BY DEF open_new
<1>r. /\ pc[t] = "open" /\ y \in stmt[t].tabs \ Opened(t) /\ LOCK_open = NoThread
      /\ version' = [version EXCEPT ![t] = refresh_version]
      /\ file[y] \in 1 .. 2
      /\ unused' \in [Table -> SUBSET [version : 1 .. MaxVersion, file : 1 .. 2]]
      /\ \A x \in Table : unused'[x] \subseteq unused[x]
  <2>1. file[y] \in 0 .. 2 /\ unused \in [Table -> SUBSET [version : 1 .. MaxVersion, file : 1 .. 2]]
    BY <1>1 DEF Data
  <2>2. file[y] \in 1 .. 2  BY <1>p, <2>1
  <2>. QED  BY <1>p, <2>1, <2>2 DEF NotCached, Opening, Enter, ThdVersion
<1>a. /\ inst' \in [Thread -> [Table -> TableType]]
      /\ \A u \in Other(t) : inst'[u] = inst[u]
      /\ \A x \in Table \ {y} : inst'[t][x] = inst[t][x]
      /\ inst'[t][y].used /\ ~ inst'[t][y].by_name /\ ~ inst'[t][y].by_flush
      /\ inst'[t][y].file # 0 /\ inst'[t][y].version <= refresh_version
      /\ (inst'[t][y].write <=> y \in stmt[t].writes)
      /\ Opened(t)' = Opened(t) \cup {y}
  <2> DEFINE w == y \in stmt[t].writes
             j == Anew(refresh_version, file[y], w)
  <2>1. /\ j \in TableType /\ j.version = refresh_version /\ j.file = file[y] /\ j.used
        /\ (j.write <=> y \in stmt[t].writes) /\ ~ j.by_name /\ ~ j.by_flush
    <3>1. refresh_version \in 0 .. MaxVersion /\ file[y] \in 0 .. 2 /\ w \in BOOLEAN
      BY <1>1, <1>r, Constants
    <3> HIDE DEF w
    <3>2. /\ j \in TableType /\ j.version = refresh_version /\ j.file = file[y] /\ j.used
          /\ j.write = w /\ ~ j.by_name /\ ~ j.by_flush
      BY <3>1, NewTable
    <3>. QED  BY <3>2 DEF w
  <2>2. inst' = [inst EXCEPT ![t][y] = j]  BY <1>p DEF Open, Anew
  <2> HIDE DEF j
  <2>3. /\ inst' \in [Thread -> [Table -> TableType]] /\ inst'[t][y] = j
        /\ \A x \in Table \ {y} : inst'[t][x] = inst[t][x]
        /\ \A u \in Other(t) : inst'[u] = inst[u]
    BY <1>1, <1>r, <2>1, <2>2 DEF Data, Other
  <2>4. Opened(t)' = Opened(t) \cup {y}  BY <1>r, <2>1, <2>3 DEF Opened
  <2>5. j.file # 0 /\ j.version <= refresh_version  BY <1>1, <1>r, <2>1
  <2>6. inst'[t][y] = j  BY <2>3
  <2>7. /\ inst'[t][y].used /\ ~ inst'[t][y].by_name /\ ~ inst'[t][y].by_flush
        /\ inst'[t][y].file # 0 /\ inst'[t][y].version <= refresh_version
    BY <2>1, <2>5, <2>6
  <2>8. inst'[t][y].write <=> y \in stmt[t].writes  BY <2>1, <2>6
  <2>. QED  BY <2>3, <2>4, <2>7, <2>8
<1>b. \/ /\ stmt[t].tabs = Opened(t)' /\ pc' = [pc EXCEPT ![t] = "lock"]
         /\ want' = [want EXCEPT ![t] = stmt[t].tabs]
      \/ pc' = pc /\ want' = want
  BY <1>p, <1>a DEF Open, Goto
<1>c. /\ ~ locked_tables[t] /\ stmt[t].tabs \subseteq Table /\ thr[t][y] = "no"
      /\ Opened(t) \subseteq Table
  BY <1>1, <1>r DEF LabelRight, WellFormed, StatementType, ThrRight, Opened
<1>2. Data'
  <2>1. pc' \in [Thread -> Label]  BY <1>1, <1>b DEF Data, Label
  <2>2. want' \in [Thread -> SUBSET Table]  BY <1>1, <1>b, <1>c DEF Data
  <2>3. version' \in [Thread -> 1 .. MaxVersion]  BY <1>1, <1>r DEF Data
  <2>4. unused' \in [Table -> SUBSET [version : 1 .. MaxVersion, file : 1 .. 2]]
    BY <1>1, <1>r DEF Data
  <2>. QED  BY <1>1, <1>p, <1>a, <2>1, <2>2, <2>3, <2>4 DEF Data, Open
<1>3. Frame(t)
  BY <1>1, <1>p, <1>r, <1>a, <1>b, <1>c, Constants DEF Frame, Untouched, Other,
     Data, open_new, Open
<1>4. Counts(t)
  BY <1>1, <1>p, <1>r, <1>a, <1>b DEF Counts, Protected, ToFlush, Op, Data,
     Open
<1>5. LabelRight(t)'
  BY <1>1, <1>p, <1>r, <1>a, <1>b, <1>c DEF LabelRight, Op, Flushing, Data,
     open_new, Open
<1>6. WantRight(t)'
  BY <1>1, <1>p, <1>r, <1>a, <1>b, <1>c DEF WantRight, Opened, Data, open_new,
     Open
<1>7. MutexRight(t)'
  BY <1>1, <1>p, <1>r, <1>a, <1>b, <1>c, Constants DEF MutexRight,
     WritesOpened, Opened, Flushing, Op, Data, open_new, Open
<1>8. ASSUME NEW x \in Table PROVE InstRight(t, x)' /\ ThrRight(t, x)' /\ OpenRight(t, x)'
  <2>1. InstRight(t, x)'
    BY <1>1, <1>p, <1>r, <1>a, <1>b DEF InstRight, Data, Open
  <2>2. ThrRight(t, x)'
    BY <1>1, <1>p, <1>r, <1>a, <1>b, <1>c DEF ThrRight, Data, Open
  <2>3. OpenRight(t, x)'
    BY <1>1, <1>p, <1>r, <1>a, <1>b, <1>c DEF OpenRight, MayBeClosed, Holding,
       Data, Open
  <2>. QED  BY <2>1, <2>2, <2>3
<1>9. HolderStep(t)
  <2>1. ~ Commits(t)'  BY <1>1, <1>r, <1>p, <1>b, <1>c DEF Commits, Open, Data
  <2>. QED  BY <1>1, <1>p, <1>r, <2>1, HolderNot DEF Open, Data
<1>. QED
  BY <1>2, <1>3, <1>4, <1>5, <1>6, <1>7, <1>8, <1>9 DEF StepRight, Right

(* open_table finds no files.                                              *)
LEMMA open_fails_right ==
  ASSUME IInv, NEW t \in Thread, open_fails(t)
  PROVE  StepRight(t)
<1>1. /\ Data /\ Right(t) /\ LabelRight(t) /\ WantRight(t) /\ MutexRight(t)
      /\ refresh_version \in 1 .. MaxVersion /\ global_read_lock \in Nat
      /\ protect_against_global_read_lock \in Nat /\ ReadLockCounts
      /\ \A x \in Table : InstRight(t, x) /\ ThrRight(t, x) /\ OpenRight(t, x)
  BY CountersType DEF IInv, Right
<1>2. Data'
  BY <1>1, Constants DEF Data, Label, open_fails, Goto, NotCached, Opening,
     Enter, ThdVersion
<1>3. Frame(t)
  BY <1>1, Constants DEF Frame, Untouched, Other, Data, open_fails, Goto,
     NotCached, Opening, Enter, ThdVersion
<1>4. Counts(t)
  BY <1>1 DEF Counts, Protected, ToFlush, Op, Data, open_fails, Goto,
     NotCached, Opening, Enter, ThdVersion
<1>5. LabelRight(t)'
  BY <1>1 DEF LabelRight, Op, Flushing, Data, open_fails, Goto, NotCached,
     Opening, Enter, ThdVersion
<1>6. WantRight(t)'
  BY <1>1 DEF WantRight, Opened, Data, open_fails, Goto, NotCached, Opening,
     Enter, ThdVersion
<1>7. MutexRight(t)'
  BY <1>1, Constants DEF MutexRight, WritesOpened, Opened, Flushing, Op, Data,
     open_fails, Goto, NotCached, Opening, Enter, ThdVersion
<1>8. ASSUME NEW x \in Table PROVE InstRight(t, x)' /\ ThrRight(t, x)' /\ OpenRight(t, x)'
  <2>1. InstRight(t, x)'
    BY <1>1 DEF InstRight, Data, open_fails, Goto, NotCached, Opening, Enter,
       ThdVersion
  <2>2. ThrRight(t, x)'
    BY <1>1 DEF ThrRight, Opened, Data, open_fails, Goto, NotCached, Opening,
       Enter, ThdVersion
  <2>3. OpenRight(t, x)'
    BY <1>1 DEF OpenRight, MayBeClosed, Holding, Opened, Data, open_fails,
       Goto, NotCached, Opening, Enter, ThdVersion
  <2>. QED  BY <2>1, <2>2, <2>3
<1>9. HolderStep(t)
  <2>1. Opened(t)' = Opened(t) /\ (WritesOpened(t)' <=> WritesOpened(t))
        /\ \A x \in Opened(t) : inst'[t][x].version = inst[t][x].version
    BY <1>1 DEF WritesOpened, Opened, Data, open_fails, Goto, NotCached,
       Opening, Enter, ThdVersion
  <2>2. Commits(t)' => Commits(t) \/ global_read_lock = 0
    BY <1>1, <2>1 DEF Commits, Data, open_fails, Goto, NotCached, Opening,
       Enter, ThdVersion
  <2>3. holds'[t] /\ ~ killed'[t] => /\ holds[t] /\ ~ killed[t]
                                     /\ pc[t] \in Loop => pc'[t] \in Loop
                                     /\ pc[t] # "flush"
    BY <1>1 DEF Data, open_fails, Goto, NotCached, Opening, Enter, ThdVersion
  <2>. QED  BY <2>1, <2>2, <2>3, HolderSame
<1>. QED
  BY <1>2, <1>3, <1>4, <1>5, <1>6, <1>7, <1>8, <1>9 DEF StepRight, Right

(* open_tables gives up what is old or closed, and starts again.           *)
LEMMA refresh_right ==
  ASSUME IInv, NEW t \in Thread, refresh(t)
  PROVE  StepRight(t)
<1>1. /\ Data /\ Right(t) /\ LabelRight(t) /\ WantRight(t) /\ MutexRight(t)
      /\ refresh_version \in 1 .. MaxVersion /\ global_read_lock \in Nat
      /\ protect_against_global_read_lock \in Nat /\ ReadLockCounts
      /\ \A x \in Table : InstRight(t, x) /\ ThrRight(t, x) /\ OpenRight(t, x)
  BY CountersType DEF IInv, Right
<1>a. /\ pc[t] = "refresh" /\ pc'[t] = "open" /\ ~ locked_tables[t]
      /\ inst' \in [Thread -> [Table -> TableType]] /\ \A u \in Other(t) : inst'[u] = inst[u]
      /\ \A x \in Table : IF x \in Opened(t) /\ inst[t][x].file = 0
                          THEN inst'[t][x] = NoTable
                          ELSE inst'[t][x] = inst[t][x] \/ inst'[t][x] = NoTable
      /\ Opened(t)' \subseteq Opened(t) /\ Opened(t) \subseteq Table
  <2> DEFINE old == {x \in Opened(t) : \/ inst[t][x].version # refresh_version
                                       \/ inst[t][x].file = 0}
  <2>1. inst' = [inst EXCEPT ![t] = [x \in Table |-> IF x \in old THEN NoTable ELSE @[x]]]
    BY DEF refresh
  <2>2. /\ inst' \in [Thread -> [Table -> TableType]]
        /\ \A u \in Other(t) : inst'[u] = inst[u]
        /\ \A x \in Table : inst'[t][x] = IF x \in old THEN NoTable ELSE inst[t][x]
    <3> HIDE DEF old
    <3>. QED  BY <1>1, <2>1, NoTableSame DEF Data, Other
  <2>3. Opened(t)' \subseteq Opened(t) /\ Opened(t) \subseteq Table
    BY <2>2, NoTableSame DEF Opened
  <2>4. pc[t] = "refresh" /\ pc'[t] = "open" /\ ~ locked_tables[t]
    BY <1>1 DEF refresh, Goto, LabelRight, Data
  <2>. QED  BY <2>2, <2>3, <2>4
<1>2. Data'
  <2>1. pc' \in [Thread -> Label] /\ version' \in [Thread -> 1 .. MaxVersion]
    BY <1>1 DEF Data, Label, refresh, Goto
  <2>. QED  BY <1>1, <1>a, <2>1 DEF Data, refresh, Leave, BroadcastIf
<1>3. Frame(t)
  BY <1>1, <1>a, Constants DEF Frame, Untouched, Other, Data, refresh, Goto,
     Enter, BroadcastIf, Leave
<1>4. Counts(t)
  BY <1>1, <1>a DEF Counts, Protected, ToFlush, Op, Data, refresh, Goto, Enter,
     BroadcastIf, Leave
<1>5. LabelRight(t)'
  BY <1>1, <1>a DEF LabelRight, Op, Flushing, Data, refresh, Goto, Enter,
     BroadcastIf, Leave
<1>6. WantRight(t)'
  BY <1>1, <1>a DEF WantRight, Opened, Data, refresh, Goto, Enter, BroadcastIf,
     Leave
<1>7. MutexRight(t)'
  BY <1>1, <1>a, Constants DEF MutexRight, WritesOpened, Opened, Flushing, Op,
     Data, refresh, Goto, Enter, BroadcastIf, Leave
<1>8. ASSUME NEW x \in Table PROVE InstRight(t, x)' /\ ThrRight(t, x)' /\ OpenRight(t, x)'
  <2>1. InstRight(t, x)'  BY <1>1, <1>a, NoTableSame DEF InstRight, refresh
  <2>2. ThrRight(t, x)'  BY <1>1, <1>a DEF ThrRight, refresh
  <2>3. OpenRight(t, x)'  
    <3>1. x \in Opened(t)' => x \in Opened(t) /\ inst'[t][x] = inst[t][x] /\ inst[t][x].file # 0
      BY <1>a, NoTableSame DEF Opened
    <3>. QED  BY <1>1, <1>a, <3>1 DEF OpenRight, MayBeClosed, Holding, refresh
  <2>. QED  BY <2>1, <2>2, <2>3
<1>9. HolderStep(t)
  <2>1. ~ Commits(t)'  BY <1>1, <1>a DEF Commits, refresh, Data
  <2>. QED  BY <1>1, <2>1, HolderNot DEF refresh, Data
<1>. QED
  BY <1>2, <1>3, <1>4, <1>5, <1>6, <1>7, <1>8, <1>9 DEF StepRight, Right

(* mysql_lock_tables goes on only if it writes nothing or nobody holds.    *)
LEMMA lock_tables_right ==
  ASSUME IInv, NEW t \in Thread, lock_tables(t)
  PROVE  StepRight(t)
<1>1. /\ Data /\ Right(t) /\ LabelRight(t) /\ WantRight(t) /\ MutexRight(t)
      /\ refresh_version \in 1 .. MaxVersion /\ global_read_lock \in Nat
      /\ protect_against_global_read_lock \in Nat /\ ReadLockCounts
      /\ \A x \in Table : InstRight(t, x) /\ ThrRight(t, x) /\ OpenRight(t, x)
  BY CountersType DEF IInv, Right
<1>a. /\ want[t] = Opened(t) /\ want[t] # {} /\ want[t] \subseteq Table
      /\ \A x \in want[t] : thr[t][x] = "no"
      /\ pc'[t] = "thr" => (WritesOpened(t) => global_read_lock = 0)
  BY <1>1 DEF WantRight, ThrRight, WritesOpened, Data, lock_tables, Goto,
     BlockedByReadLock
<1>2. Data'
  BY <1>1, <1>a, Constants DEF Data, Label, lock_tables, Goto,
     BlockedByReadLock
<1>3. Frame(t)
  BY <1>1, <1>a, Constants DEF Frame, Untouched, Other, Data, lock_tables,
     Goto, BlockedByReadLock
<1>4. Counts(t)
  BY <1>1, <1>a DEF Counts, Protected, ToFlush, Op, Data, lock_tables, Goto,
     BlockedByReadLock
<1>5. LabelRight(t)'
  BY <1>1, <1>a DEF LabelRight, Op, Flushing, Data, lock_tables, Goto,
     BlockedByReadLock
<1>6. WantRight(t)'
  BY <1>1, <1>a DEF WantRight, Opened, Data, lock_tables, Goto,
     BlockedByReadLock
<1>7. MutexRight(t)'
  BY <1>1, <1>a, Constants DEF MutexRight, WritesOpened, Opened, Flushing, Op,
     Data, lock_tables, Goto, BlockedByReadLock
<1>8. ASSUME NEW x \in Table PROVE InstRight(t, x)' /\ ThrRight(t, x)' /\ OpenRight(t, x)'
  <2>1. InstRight(t, x)'
    BY <1>1, <1>a DEF InstRight, Data, lock_tables, Goto, BlockedByReadLock
  <2>2. ThrRight(t, x)'
    BY <1>1, <1>a DEF ThrRight, Opened, Data, lock_tables, Goto,
       BlockedByReadLock
  <2>3. OpenRight(t, x)'
    BY <1>1, <1>a DEF OpenRight, MayBeClosed, Holding, Opened, Data,
       lock_tables, Goto, BlockedByReadLock
  <2>. QED  BY <2>1, <2>2, <2>3
<1>9. HolderStep(t)
  <2>1. Opened(t)' = Opened(t) /\ (WritesOpened(t)' <=> WritesOpened(t))
        /\ \A x \in Opened(t) : inst'[t][x].version = inst[t][x].version
    BY <1>1, <1>a DEF WritesOpened, Opened, Data, lock_tables, Goto,
       BlockedByReadLock
  <2>2. Commits(t)' => Commits(t) \/ global_read_lock = 0
    BY <1>1, <1>a, <2>1 DEF Commits, Data, lock_tables, Goto, BlockedByReadLock
  <2>3. holds'[t] /\ ~ killed'[t] => /\ holds[t] /\ ~ killed[t]
                                     /\ pc[t] \in Loop => pc'[t] \in Loop
                                     /\ pc[t] # "flush"
    BY <1>1, <1>a DEF Data, lock_tables, Goto, BlockedByReadLock
  <2>. QED  BY <2>1, <2>2, <2>3, HolderSame
<1>. QED
  BY <1>2, <1>3, <1>4, <1>5, <1>6, <1>7, <1>8, <1>9 DEF StepRight, Right

(* wait_if_global_read_lock waits.                                         *)
LEMMA wait_if_waits_right ==
  ASSUME IInv, NEW t \in Thread, wait_if_waits(t)
  PROVE  StepRight(t)
<1>1. /\ Data /\ Right(t) /\ LabelRight(t) /\ WantRight(t) /\ MutexRight(t)
      /\ refresh_version \in 1 .. MaxVersion /\ global_read_lock \in Nat
      /\ protect_against_global_read_lock \in Nat /\ ReadLockCounts
      /\ \A x \in Table : InstRight(t, x) /\ ThrRight(t, x) /\ OpenRight(t, x)
  BY CountersType DEF IInv, Right
<1>2. Data'
  BY <1>1, Constants DEF Data, Label, wait_if_waits, Goto, WaitAt, InWaitIf,
     Enter, ForName
<1>3. Frame(t)
  BY <1>1, Constants DEF Frame, Untouched, Other, Data, wait_if_waits, Goto,
     WaitAt, InWaitIf, Enter, ForName
<1>4. Counts(t)
  BY <1>1 DEF Counts, Protected, ToFlush, Op, Data, wait_if_waits, Goto,
     WaitAt, InWaitIf, Enter, ForName
<1>5. LabelRight(t)'
  BY <1>1 DEF LabelRight, Op, Flushing, Data, wait_if_waits, Goto, WaitAt,
     InWaitIf, Enter, ForName
<1>6. WantRight(t)'
  BY <1>1 DEF WantRight, Opened, Data, wait_if_waits, Goto, WaitAt, InWaitIf,
     Enter, ForName
<1>7. MutexRight(t)'
  BY <1>1, Constants DEF MutexRight, WritesOpened, Opened, Flushing, Op, Data,
     wait_if_waits, Goto, WaitAt, InWaitIf, Enter, ForName
<1>8. ASSUME NEW x \in Table PROVE InstRight(t, x)' /\ ThrRight(t, x)' /\ OpenRight(t, x)'
  <2>1. InstRight(t, x)'
    BY <1>1 DEF InstRight, Data, wait_if_waits, Goto, WaitAt, InWaitIf, Enter,
       ForName
  <2>2. ThrRight(t, x)'
    BY <1>1 DEF ThrRight, Opened, Data, wait_if_waits, Goto, WaitAt, InWaitIf,
       Enter, ForName
  <2>3. OpenRight(t, x)'
    BY <1>1 DEF OpenRight, MayBeClosed, Holding, Opened, Data, wait_if_waits,
       Goto, WaitAt, InWaitIf, Enter, ForName
  <2>. QED  BY <2>1, <2>2, <2>3
<1>9. HolderStep(t)
  <2>1. Opened(t)' = Opened(t) /\ (WritesOpened(t)' <=> WritesOpened(t))
        /\ \A x \in Opened(t) : inst'[t][x].version = inst[t][x].version
    BY <1>1 DEF WritesOpened, Opened, Data, wait_if_waits, Goto, WaitAt,
       InWaitIf, Enter, ForName
  <2>2. Commits(t)' => Commits(t) \/ global_read_lock = 0
    BY <1>1, <2>1 DEF Commits, Data, wait_if_waits, Goto, WaitAt, InWaitIf,
       Enter, ForName
  <2>3. holds'[t] /\ ~ killed'[t] => /\ holds[t] /\ ~ killed[t]
                                     /\ pc[t] \in Loop => pc'[t] \in Loop
                                     /\ pc[t] # "flush"
    BY <1>1 DEF Data, wait_if_waits, Goto, WaitAt, InWaitIf, Enter, ForName
  <2>. QED  BY <2>1, <2>2, <2>3, HolderSame
<1>. QED
  BY <1>2, <1>3, <1>4, <1>5, <1>6, <1>7, <1>8, <1>9 DEF StepRight, Right

(* wait_if_global_read_lock refuses a holder and a killed thread.          *)
LEMMA wait_if_fails_right ==
  ASSUME IInv, NEW t \in Thread, wait_if_fails(t)
  PROVE  StepRight(t)
<1>1. /\ Data /\ Right(t) /\ LabelRight(t) /\ WantRight(t) /\ MutexRight(t)
      /\ refresh_version \in 1 .. MaxVersion /\ global_read_lock \in Nat
      /\ protect_against_global_read_lock \in Nat /\ ReadLockCounts
      /\ \A x \in Table : InstRight(t, x) /\ ThrRight(t, x) /\ OpenRight(t, x)
  BY CountersType DEF IInv, Right
<1>a. LOCK_open' # t /\ pc'[t] \in {"flush_end", "unlock"} /\ (pc'[t] = "flush_end" => killed[t] \/ LOCK_open' # t)
  BY <1>1, Constants DEF Data, wait_if_fails, Goto, Enter, lock_failed
<1>2. Data'
  BY <1>1, <1>a, Constants DEF Data, Label, wait_if_fails, Goto, InWaitIf,
     Enter, lock_failed, Flushing, Op
<1>3. Frame(t)
  BY <1>1, <1>a, Constants DEF Frame, Untouched, Other, Data, wait_if_fails,
     Goto, InWaitIf, Enter, lock_failed, Flushing, Op
<1>4. Counts(t)
  BY <1>1, <1>a DEF Counts, Protected, ToFlush, Op, Data, wait_if_fails, Goto,
     InWaitIf, Enter, lock_failed, Flushing
<1>5. LabelRight(t)'
  BY <1>1, <1>a DEF LabelRight, Op, Flushing, Data, wait_if_fails, Goto,
     InWaitIf, Enter, lock_failed
<1>6. WantRight(t)'
  BY <1>1, <1>a DEF WantRight, Opened, Data, wait_if_fails, Goto, InWaitIf,
     Enter, lock_failed, Flushing, Op
<1>7. MutexRight(t)'
  BY <1>1, <1>a, Constants DEF MutexRight, WritesOpened, Opened, Flushing, Op,
     Data, wait_if_fails, Goto, InWaitIf, Enter, lock_failed
<1>8. ASSUME NEW x \in Table PROVE InstRight(t, x)' /\ ThrRight(t, x)' /\ OpenRight(t, x)'
  <2>1. InstRight(t, x)'
    BY <1>1, <1>a DEF InstRight, Data, wait_if_fails, Goto, InWaitIf, Enter,
       lock_failed, Flushing, Op
  <2>2. ThrRight(t, x)'
    BY <1>1, <1>a DEF ThrRight, Opened, Data, wait_if_fails, Goto, InWaitIf,
       Enter, lock_failed, Flushing, Op
  <2>3. OpenRight(t, x)'
    BY <1>1, <1>a DEF LabelRight, Flushing, Op, OpenRight, MayBeClosed,
       Holding, Opened, Data, wait_if_fails, Goto, InWaitIf, Enter, lock_failed
  <2>. QED  BY <2>1, <2>2, <2>3
<1>9. HolderStep(t)
  <2>1. Opened(t)' = Opened(t) /\ (WritesOpened(t)' <=> WritesOpened(t))
        /\ \A x \in Opened(t) : inst'[t][x].version = inst[t][x].version
    BY <1>1, <1>a DEF WritesOpened, Opened, Data, wait_if_fails, Goto,
       InWaitIf, Enter, lock_failed, Flushing, Op
  <2>2. Commits(t)' => Commits(t) \/ global_read_lock = 0
    BY <1>1, <1>a, <2>1 DEF Commits, Data, wait_if_fails, Goto, InWaitIf,
       Enter, lock_failed, Flushing, Op
  <2>3. holds'[t] /\ ~ killed'[t] => /\ holds[t] /\ ~ killed[t]
                                     /\ pc[t] \in Loop => pc'[t] \in Loop
                                     /\ pc[t] # "flush"
    BY <1>1, <1>a DEF Data, wait_if_fails, Goto, InWaitIf, Enter, lock_failed,
       Flushing, Op
  <2>. QED  BY <2>1, <2>2, <2>3, HolderSame
<1>. QED
  BY <1>2, <1>3, <1>4, <1>5, <1>6, <1>7, <1>8, <1>9 DEF StepRight, Right

(* wait_if_global_read_lock returns; a name lock is then counted.          *)
LEMMA wait_if_done_right ==
  ASSUME IInv, NEW t \in Thread, wait_if_done(t)
  PROVE  StepRight(t)
<1>1. /\ Data /\ Right(t) /\ LabelRight(t) /\ WantRight(t) /\ MutexRight(t)
      /\ refresh_version \in 1 .. MaxVersion /\ global_read_lock \in Nat
      /\ protect_against_global_read_lock \in Nat /\ ReadLockCounts
      /\ \A x \in Table : InstRight(t, x) /\ ThrRight(t, x) /\ OpenRight(t, x)
  BY CountersType DEF IInv, Right
<1>a. /\ pc[t] \in Locking => /\ want[t] = Opened(t) /\ want[t] # {} /\ want[t] \subseteq Table
                              /\ \A x \in want[t] : thr[t][x] = "no"
      /\ pc[t] \notin Locking => pc'[t] = "name_lock"
  BY <1>1 DEF WantRight, ThrRight, Data, wait_if_done, Goto, InWaitIf, ForName
<1>2. Data'
  BY <1>1, <1>a, Constants DEF Data, Label, wait_if_done, Goto, InWaitIf,
     Enter, MustWaitIf, WaitIfFails, ForName
<1>3. Frame(t)
  BY <1>1, <1>a, Constants DEF Frame, Untouched, Other, Data, wait_if_done,
     Goto, InWaitIf, Enter, MustWaitIf, WaitIfFails, ForName
<1>4. Counts(t)
  <2>1. CASE ForName(t)
    <3>1. /\ Op(t) = "truncate" /\ pc'[t] = "name_lock" /\ stmt' = stmt
      BY <1>1, <2>1 DEF ForName, LabelRight, wait_if_done, Goto, Data
    <3>. QED
      BY <1>1, <2>1, <3>1 DEF Counts, Protected, ToFlush, Op, Data,
         wait_if_done, ForName
  <2>2. CASE ~ ForName(t)
    <3>1. pc[t] \in {"wait_if", "wait_if_wait"} /\ pc'[t] \in {"wait_tables", "thr"}
      BY <1>1, <2>2 DEF ForName, InWaitIf, wait_if_done, Goto, Data
    <3>. QED
      BY <1>1, <2>2, <3>1 DEF Counts, Protected, ToFlush, Op, Data,
         wait_if_done
  <2>. QED  BY <2>1, <2>2
<1>5. LabelRight(t)'
  BY <1>1, <1>a DEF LabelRight, Op, Flushing, Data, wait_if_done, Goto,
     InWaitIf, Enter, MustWaitIf, WaitIfFails, ForName
<1>6. WantRight(t)'
  BY <1>1, <1>a DEF WantRight, Opened, Data, wait_if_done, Goto, InWaitIf,
     Enter, MustWaitIf, WaitIfFails, ForName
<1>7. MutexRight(t)'
  <2>1. LOCK_open' # t  BY <1>1, Constants DEF wait_if_done, Enter
  <2>. QED  BY <2>1 DEF MutexRight
<1>8. ASSUME NEW x \in Table PROVE InstRight(t, x)' /\ ThrRight(t, x)' /\ OpenRight(t, x)'
  <2>1. InstRight(t, x)'
    BY <1>1, <1>a DEF InstRight, Data, wait_if_done, Goto, InWaitIf, Enter,
       MustWaitIf, WaitIfFails, ForName
  <2>2. ThrRight(t, x)'
    BY <1>1, <1>a DEF ThrRight, Opened, Data, wait_if_done, Goto, InWaitIf,
       Enter, MustWaitIf, WaitIfFails, ForName
  <2>3. OpenRight(t, x)'
    <3>1. /\ inst' = inst /\ thr' = thr /\ locked_tables' = locked_tables
          /\ stmt' = stmt /\ Opened(t)' = Opened(t)
      BY DEF wait_if_done, Opened
    <3>2. \/ pc[t] \in {"wait_if", "wait_if_wait"} /\ pc'[t] \in {"wait_tables", "thr"}
          \/ pc[t] \in NamePc /\ pc'[t] = "name_lock"
      BY <1>1 DEF Data, wait_if_done, Goto, InWaitIf, ForName
    <3>3. OpenRight(t, x)  BY <1>1
    <3>. QED  BY <3>1, <3>2, <3>3 DEF OpenRight, MayBeClosed, Holding
  <2>. QED  BY <2>1, <2>2, <2>3
<1>9. HolderStep(t)
  <2>1. Opened(t)' = Opened(t) /\ (WritesOpened(t)' <=> WritesOpened(t))
        /\ \A x \in Opened(t) : inst'[t][x].version = inst[t][x].version
    BY <1>1, <1>a DEF WritesOpened, Opened, Data, wait_if_done, Goto, InWaitIf,
       Enter, MustWaitIf, WaitIfFails, ForName
  <2>2. Commits(t)' => Commits(t) \/ global_read_lock = 0
    BY <1>1, <1>a, <2>1 DEF Commits, Data, wait_if_done, Goto, InWaitIf, Enter,
       MustWaitIf, WaitIfFails, ForName
  <2>3. holds'[t] /\ ~ killed'[t] => /\ holds[t] /\ ~ killed[t]
                                     /\ pc[t] \in Loop => pc'[t] \in Loop
                                     /\ pc[t] # "flush"
    BY <1>1, <1>a DEF Data, wait_if_done, Goto, InWaitIf, Enter, MustWaitIf,
       WaitIfFails, ForName
  <2>. QED  BY <2>1, <2>2, <2>3, HolderSame
<1>. QED
  BY <1>2, <1>3, <1>4, <1>5, <1>6, <1>7, <1>8, <1>9 DEF StepRight, Right

(* The last lock granted leaves every opened table locked.                 *)
LEMMA thr_grants_right ==
  ASSUME IInv, NEW t \in Thread, thr_grants(t)
  PROVE  StepRight(t)
<1>1. /\ Data /\ Right(t) /\ LabelRight(t) /\ WantRight(t) /\ MutexRight(t)
      /\ refresh_version \in 1 .. MaxVersion /\ global_read_lock \in Nat
      /\ protect_against_global_read_lock \in Nat /\ ReadLockCounts
      /\ \A x \in Table : InstRight(t, x) /\ ThrRight(t, x) /\ OpenRight(t, x)
  BY CountersType DEF IInv, Right
<1>a. /\ Next_lock(t) \in want[t] /\ Next_lock(t) \in Table
      /\ Next_lock(t) \in Opened(t) /\ thr[t][Next_lock(t)] # "has"
  BY <1>1, NextLock DEF thr_grants
<1>2. Data'  BY <1>1, <1>a, Constants DEF Data, Label, thr_grants, Goto
<1>3. Frame(t)
  BY <1>1, <1>a, Constants DEF Frame, Untouched, Other, Data, thr_grants, Goto
<1>4. Counts(t)
  BY <1>1, <1>a DEF Counts, Protected, ToFlush, Op, Data, thr_grants, Goto
<1>5. LabelRight(t)'
  BY <1>1, <1>a DEF LabelRight, Op, Flushing, Data, thr_grants, Goto
<1>6. WantRight(t)'
  BY <1>1, <1>a DEF WantRight, Opened, Data, thr_grants, Goto
<1>7. MutexRight(t)'
  BY <1>1, <1>a, Constants DEF MutexRight, WritesOpened, Opened, Flushing, Op,
     Data, thr_grants, Goto
<1>8. ASSUME NEW x \in Table PROVE InstRight(t, x)' /\ ThrRight(t, x)' /\ OpenRight(t, x)'
  <2>1. InstRight(t, x)'  BY <1>1, <1>a DEF InstRight, Data, thr_grants, Goto
  <2>2. ThrRight(t, x)'
    BY <1>1, <1>a DEF ThrRight, Opened, Data, thr_grants, Goto
  <2>3. OpenRight(t, x)'  
    <3>1. want[t] = Opened(t) /\ Opened(t)' = Opened(t) /\ pc'[t] \in {"thr", "locked"}
      BY <1>1 DEF WantRight, Opened, thr_grants, Goto, Data
    <3>2. pc'[t] = "locked" => \A y \in Opened(t) : thr'[t][y] = "has"
      BY <1>1, <1>a, <3>1 DEF thr_grants, Goto, Data
    <3>3. OpenRight(t, x)  BY <1>1
    <3>. QED
      BY <1>1, <3>1, <3>2, <3>3 DEF OpenRight, MayBeClosed, Holding,
         thr_grants, Data

  <2>. QED  BY <2>1, <2>2, <2>3
<1>9. HolderStep(t)
  <2>1. Opened(t)' = Opened(t) /\ (WritesOpened(t)' <=> WritesOpened(t))
        /\ \A x \in Opened(t) : inst'[t][x].version = inst[t][x].version
    BY <1>1, <1>a DEF WritesOpened, Opened, Data, thr_grants, Goto
  <2>2. Commits(t)' => Commits(t) \/ global_read_lock = 0
    BY <1>1, <1>a, <2>1 DEF Commits, Data, thr_grants, Goto
  <2>3. holds'[t] /\ ~ killed'[t] => /\ holds[t] /\ ~ killed[t]
                                     /\ pc[t] \in Loop => pc'[t] \in Loop
                                     /\ pc[t] # "flush"
    BY <1>1, <1>a DEF Data, thr_grants, Goto
  <2>. QED  BY <2>1, <2>2, <2>3, HolderSame
<1>. QED
  BY <1>2, <1>3, <1>4, <1>5, <1>6, <1>7, <1>8, <1>9 DEF StepRight, Right

(* A lock that another thread has.                                         *)
LEMMA thr_waits_right ==
  ASSUME IInv, NEW t \in Thread, thr_waits(t)
  PROVE  StepRight(t)
<1>1. /\ Data /\ Right(t) /\ LabelRight(t) /\ WantRight(t) /\ MutexRight(t)
      /\ refresh_version \in 1 .. MaxVersion /\ global_read_lock \in Nat
      /\ protect_against_global_read_lock \in Nat /\ ReadLockCounts
      /\ \A x \in Table : InstRight(t, x) /\ ThrRight(t, x) /\ OpenRight(t, x)
  BY CountersType DEF IInv, Right
<1>a. /\ Next_lock(t) \in want[t] /\ Next_lock(t) \in Table
      /\ Next_lock(t) \in Opened(t) /\ thr[t][Next_lock(t)] # "has"
  BY <1>1, NextLock DEF thr_waits
<1>2. Data'  BY <1>1, <1>a, Constants DEF Data, Label, thr_waits
<1>3. Frame(t)
  BY <1>1, <1>a, Constants DEF Frame, Untouched, Other, Data, thr_waits
<1>4. Counts(t)
  BY <1>1, <1>a DEF Counts, Protected, ToFlush, Op, Data, thr_waits
<1>5. LabelRight(t)'
  BY <1>1, <1>a DEF LabelRight, Op, Flushing, Data, thr_waits
<1>6. WantRight(t)'  BY <1>1, <1>a DEF WantRight, Opened, Data, thr_waits
<1>7. MutexRight(t)'
  BY <1>1, <1>a, Constants DEF MutexRight, WritesOpened, Opened, Flushing, Op,
     Data, thr_waits
<1>8. ASSUME NEW x \in Table PROVE InstRight(t, x)' /\ ThrRight(t, x)' /\ OpenRight(t, x)'
  <2>1. InstRight(t, x)'  BY <1>1, <1>a DEF InstRight, Data, thr_waits
  <2>2. ThrRight(t, x)'  BY <1>1, <1>a DEF ThrRight, Opened, Data, thr_waits
  <2>3. OpenRight(t, x)'
    BY <1>1, <1>a DEF OpenRight, MayBeClosed, Holding, Opened, Data, thr_waits
  <2>. QED  BY <2>1, <2>2, <2>3
<1>9. HolderStep(t)
  <2>1. Opened(t)' = Opened(t) /\ (WritesOpened(t)' <=> WritesOpened(t))
        /\ \A x \in Opened(t) : inst'[t][x].version = inst[t][x].version
    BY <1>1, <1>a DEF WritesOpened, Opened, Data, thr_waits
  <2>2. Commits(t)' => Commits(t) \/ global_read_lock = 0
    BY <1>1, <1>a, <2>1 DEF Commits, Data, thr_waits
  <2>3. holds'[t] /\ ~ killed'[t] => /\ holds[t] /\ ~ killed[t]
                                     /\ pc[t] \in Loop => pc'[t] \in Loop
                                     /\ pc[t] # "flush"
    BY <1>1, <1>a DEF Data, thr_waits
  <2>. QED  BY <2>1, <2>2, <2>3, HolderSame
<1>. QED
  BY <1>2, <1>3, <1>4, <1>5, <1>6, <1>7, <1>8, <1>9 DEF StepRight, Right

(* An aborted lock, or a kill: everything granted is given back.           *)
LEMMA thr_fails_right ==
  ASSUME IInv, NEW t \in Thread, thr_fails(t)
  PROVE  StepRight(t)
<1>1. /\ Data /\ Right(t) /\ LabelRight(t) /\ WantRight(t) /\ MutexRight(t)
      /\ refresh_version \in 1 .. MaxVersion /\ global_read_lock \in Nat
      /\ protect_against_global_read_lock \in Nat /\ ReadLockCounts
      /\ \A x \in Table : InstRight(t, x) /\ ThrRight(t, x) /\ OpenRight(t, x)
  BY CountersType DEF IInv, Right
<1>a. /\ Next_lock(t) \in want[t] /\ Next_lock(t) \in Table
      /\ Next_lock(t) \in Opened(t) /\ thr[t][Next_lock(t)] # "has"
  BY <1>1, NextLock DEF thr_fails
<1>2. Data'
  BY <1>1, <1>a, Constants DEF Data, Label, thr_fails, Goto, Release, Freed,
     StillClosed
<1>3. Frame(t)
  BY <1>1, <1>a, Constants DEF Frame, Untouched, Other, Data, thr_fails, Goto,
     Release, Freed, StillClosed
<1>4. Counts(t)
  BY <1>1, <1>a DEF Counts, Protected, ToFlush, Op, Data, thr_fails, Goto,
     Release, Freed, StillClosed
<1>5. LabelRight(t)'
  BY <1>1, <1>a DEF LabelRight, Op, Flushing, Data, thr_fails, Goto, Release,
     Freed, StillClosed
<1>6. WantRight(t)'
  BY <1>1, <1>a DEF WantRight, Opened, Data, thr_fails, Goto, Release, Freed,
     StillClosed
<1>7. MutexRight(t)'
  BY <1>1, <1>a, Constants DEF MutexRight, WritesOpened, Opened, Flushing, Op,
     Data, thr_fails, Goto, Release, Freed, StillClosed
<1>8. ASSUME NEW x \in Table PROVE InstRight(t, x)' /\ ThrRight(t, x)' /\ OpenRight(t, x)'
  <2>1. InstRight(t, x)'
    BY <1>1, <1>a DEF InstRight, Data, thr_fails, Goto, Release, Freed,
       StillClosed
  <2>2. ThrRight(t, x)'
    BY <1>1, <1>a DEF WantRight, ThrRight, Opened, Data, thr_fails, Goto,
       Release, Freed
  <2>3. OpenRight(t, x)'
    BY <1>1, <1>a DEF OpenRight, MayBeClosed, Holding, Opened, Data, thr_fails,
       Goto, Release, Freed, StillClosed
  <2>. QED  BY <2>1, <2>2, <2>3
<1>9. HolderStep(t)
  <2>1. Opened(t)' = Opened(t) /\ (WritesOpened(t)' <=> WritesOpened(t))
        /\ \A x \in Opened(t) : inst'[t][x].version = inst[t][x].version
    BY <1>1, <1>a DEF WritesOpened, Opened, Data, thr_fails, Goto, Release,
       Freed, StillClosed
  <2>2. Commits(t)' => Commits(t) \/ global_read_lock = 0
    BY <1>1, <1>a, <2>1 DEF Commits, Data, thr_fails, Goto, Release, Freed,
       StillClosed
  <2>3. holds'[t] /\ ~ killed'[t] => /\ holds[t] /\ ~ killed[t]
                                     /\ pc[t] \in Loop => pc'[t] \in Loop
                                     /\ pc[t] # "flush"
    BY <1>1, <1>a DEF Data, thr_fails, Goto, Release, Freed, StillClosed
  <2>. QED  BY <2>1, <2>2, <2>3, HolderSame
<1>. QED
  BY <1>2, <1>3, <1>4, <1>5, <1>6, <1>7, <1>8, <1>9 DEF StepRight, Right

(* The tables have changed in between: unlock and wait for them.           *)
LEMMA lock_again_right ==
  ASSUME IInv, NEW t \in Thread, lock_again(t)
  PROVE  StepRight(t)
<1>1. /\ Data /\ Right(t) /\ LabelRight(t) /\ WantRight(t) /\ MutexRight(t)
      /\ refresh_version \in 1 .. MaxVersion /\ global_read_lock \in Nat
      /\ protect_against_global_read_lock \in Nat /\ ReadLockCounts
      /\ \A x \in Table : InstRight(t, x) /\ ThrRight(t, x) /\ OpenRight(t, x)
  BY CountersType DEF IInv, Right
<1>2. Data'
  BY <1>1, Constants DEF Data, Label, lock_again, Goto, Release, Freed,
     StillClosed
<1>3. Frame(t)
  BY <1>1, Constants DEF Frame, Untouched, Other, Data, lock_again, Goto,
     Release, Freed, StillClosed
<1>4. Counts(t)
  BY <1>1 DEF Counts, Protected, ToFlush, Op, Data, lock_again, Goto, Release,
     Freed, StillClosed
<1>5. LabelRight(t)'
  BY <1>1 DEF LabelRight, Op, Flushing, Data, lock_again, Goto, Release, Freed,
     StillClosed
<1>6. WantRight(t)'
  BY <1>1 DEF WantRight, Opened, Data, lock_again, Goto, Release, Freed,
     StillClosed
<1>7. MutexRight(t)'
  BY <1>1, Constants DEF MutexRight, WritesOpened, Opened, Flushing, Op, Data,
     lock_again, Goto, Release, Freed, StillClosed
<1>8. ASSUME NEW x \in Table PROVE InstRight(t, x)' /\ ThrRight(t, x)' /\ OpenRight(t, x)'
  <2>1. InstRight(t, x)'
    BY <1>1 DEF InstRight, Data, lock_again, Goto, Release, Freed, StillClosed
  <2>2. ThrRight(t, x)'
    BY <1>1 DEF WantRight, ThrRight, Opened, Data, lock_again, Goto, Release,
       Freed
  <2>3. OpenRight(t, x)'
    BY <1>1 DEF OpenRight, MayBeClosed, Holding, Opened, Data, lock_again,
       Goto, Release, Freed, StillClosed
  <2>. QED  BY <2>1, <2>2, <2>3
<1>9. HolderStep(t)
  <2>1. Opened(t)' = Opened(t) /\ (WritesOpened(t)' <=> WritesOpened(t))
        /\ \A x \in Opened(t) : inst'[t][x].version = inst[t][x].version
    BY <1>1 DEF WritesOpened, Opened, Data, lock_again, Goto, Release, Freed,
       StillClosed
  <2>2. Commits(t)' => Commits(t) \/ global_read_lock = 0
    BY <1>1, <2>1 DEF Commits, Data, lock_again, Goto, Release, Freed,
       StillClosed
  <2>3. holds'[t] /\ ~ killed'[t] => /\ holds[t] /\ ~ killed[t]
                                     /\ pc[t] \in Loop => pc'[t] \in Loop
                                     /\ pc[t] # "flush"
    BY <1>1 DEF Data, lock_again, Goto, Release, Freed, StillClosed
  <2>. QED  BY <2>1, <2>2, <2>3, HolderSame
<1>. QED
  BY <1>2, <1>3, <1>4, <1>5, <1>6, <1>7, <1>8, <1>9 DEF StepRight, Right

(* Killed while it had just locked its tables.                             *)
LEMMA lock_killed_right ==
  ASSUME IInv, NEW t \in Thread, lock_killed(t)
  PROVE  StepRight(t)
<1>1. /\ Data /\ Right(t) /\ LabelRight(t) /\ WantRight(t) /\ MutexRight(t)
      /\ refresh_version \in 1 .. MaxVersion /\ global_read_lock \in Nat
      /\ protect_against_global_read_lock \in Nat /\ ReadLockCounts
      /\ \A x \in Table : InstRight(t, x) /\ ThrRight(t, x) /\ OpenRight(t, x)
  BY CountersType DEF IInv, Right
<1>2. Data'
  BY <1>1, Constants DEF Data, Label, lock_killed, Goto, Release, Freed,
     StillClosed, lock_failed, Flushing, Op
<1>3. Frame(t)
  BY <1>1, Constants DEF Frame, Untouched, Other, Data, lock_killed, Goto,
     Release, Freed, StillClosed, lock_failed, Flushing, Op
<1>4. Counts(t)
  BY <1>1 DEF Counts, Protected, ToFlush, Op, Data, lock_killed, Goto, Release,
     Freed, StillClosed, lock_failed, Flushing
<1>5. LabelRight(t)'
  BY <1>1 DEF LabelRight, Op, Flushing, Data, lock_killed, Goto, Release,
     Freed, StillClosed, lock_failed
<1>6. WantRight(t)'
  BY <1>1 DEF WantRight, Opened, Data, lock_killed, Goto, Release, Freed,
     StillClosed, lock_failed, Flushing, Op
<1>7. MutexRight(t)'
  BY <1>1, Constants DEF MutexRight, WritesOpened, Opened, Flushing, Op, Data,
     lock_killed, Goto, Release, Freed, StillClosed, lock_failed
<1>8. ASSUME NEW x \in Table PROVE InstRight(t, x)' /\ ThrRight(t, x)' /\ OpenRight(t, x)'
  <2>1. InstRight(t, x)'
    BY <1>1 DEF InstRight, Data, lock_killed, Goto, Release, Freed,
       StillClosed, lock_failed, Flushing, Op
  <2>2. ThrRight(t, x)'
    BY <1>1 DEF ThrRight, Opened, Data, lock_killed, Goto, Release, Freed,
       StillClosed, lock_failed, Flushing, Op
  <2>3. OpenRight(t, x)'
    BY <1>1 DEF LabelRight, OpenRight, MayBeClosed, Holding, Opened, Data,
       lock_killed, Goto, lock_failed, Flushing, Op
  <2>. QED  BY <2>1, <2>2, <2>3
<1>9. HolderStep(t)
  <2>1. Opened(t)' = Opened(t) /\ (WritesOpened(t)' <=> WritesOpened(t))
        /\ \A x \in Opened(t) : inst'[t][x].version = inst[t][x].version
    BY <1>1 DEF WritesOpened, Opened, Data, lock_killed, Goto, Release, Freed,
       StillClosed, lock_failed, Flushing, Op
  <2>2. Commits(t)' => Commits(t) \/ global_read_lock = 0
    BY <1>1, <2>1 DEF Commits, Data, lock_killed, Goto, Release, Freed,
       StillClosed, lock_failed, Flushing, Op
  <2>3. holds'[t] /\ ~ killed'[t] => /\ holds[t] /\ ~ killed[t]
                                     /\ pc[t] \in Loop => pc'[t] \in Loop
                                     /\ pc[t] # "flush"
    BY <1>1 DEF Data, lock_killed, Goto, Release, Freed, StillClosed,
       lock_failed, Flushing, Op
  <2>. QED  BY <2>1, <2>2, <2>3, HolderSame
<1>. QED
  BY <1>2, <1>3, <1>4, <1>5, <1>6, <1>7, <1>8, <1>9 DEF StepRight, Right

(* All tables are locked, and their files are open.                        *)
LEMMA lock_done_right ==
  ASSUME IInv, NEW t \in Thread, lock_done(t)
  PROVE  StepRight(t)
<1>1. /\ Data /\ Right(t) /\ LabelRight(t) /\ WantRight(t) /\ MutexRight(t)
      /\ refresh_version \in 1 .. MaxVersion /\ global_read_lock \in Nat
      /\ protect_against_global_read_lock \in Nat /\ ReadLockCounts
      /\ \A x \in Table : InstRight(t, x) /\ ThrRight(t, x) /\ OpenRight(t, x)
  BY CountersType DEF IInv, Right
<1>a. /\ want[t] = Opened(t) /\ (pc'[t] = "run" => stmt[t].tabs = Opened(t))
      /\ stmt[t].writes \subseteq stmt[t].tabs
      /\ pc'[t] = "flush_end" => locked_tables[t] /\ Flushing(t)
      /\ pc'[t] = "run" => ~ locked_tables[t] /\ ~ Flushing(t)
      /\ ~ killed[t]
  BY <1>1 DEF WantRight, LabelRight, WellFormed, StatementType, Data,
     lock_done, Goto
<1>2. Data'
  BY <1>1, <1>a, Constants DEF Data, Label, lock_done, Goto, Flushing, Op
<1>3. Frame(t)
  BY <1>1, <1>a, Constants DEF Frame, Untouched, Other, Data, lock_done, Goto,
     Flushing, Op
<1>4. Counts(t)
  BY <1>1, <1>a DEF Counts, Protected, ToFlush, Op, Data, lock_done, Goto,
     Flushing
<1>5. LabelRight(t)'
  BY <1>1, <1>a DEF LabelRight, Op, Flushing, Data, lock_done, Goto
<1>6. WantRight(t)'
  <2>1. pc'[t] = "run" => \A x \in stmt[t].writes : x \in Table /\ x \in Opened(t)
    BY <1>1, <1>a DEF Opened
  <2>2. \A x \in Table : pc'[t] = "run" /\ x \in Opened(t) /\ x \in stmt[t].writes => inst[t][x].write
    BY <1>1, <1>a DEF OpenRight, lock_done, Goto, Data
  <2>. QED
    BY <1>1, <1>a, <2>1, <2>2 DEF WantRight, Opened, Data, lock_done, Goto
<1>7. MutexRight(t)'
  BY <1>1, <1>a, Constants DEF MutexRight, WritesOpened, Opened, Flushing, Op,
     Data, lock_done, Goto
<1>8. ASSUME NEW x \in Table PROVE InstRight(t, x)' /\ ThrRight(t, x)' /\ OpenRight(t, x)'
  <2>1. InstRight(t, x)'
    BY <1>1, <1>a DEF InstRight, Data, lock_done, Goto, Flushing, Op
  <2>2. ThrRight(t, x)'
    BY <1>1, <1>a DEF ThrRight, Opened, Data, lock_done, Goto, Flushing, Op
  <2>3. OpenRight(t, x)'  
    BY <1>1, <1>a DEF OpenRight, MayBeClosed, Holding, Opened, Data, lock_done,
       Goto
  <2>. QED  BY <2>1, <2>2, <2>3
<1>9. HolderStep(t)
  <2>1. Opened(t)' = Opened(t) /\ (WritesOpened(t)' <=> WritesOpened(t))
        /\ \A x \in Opened(t) : inst'[t][x].version = inst[t][x].version
    BY <1>1, <1>a DEF WritesOpened, Opened, Data, lock_done, Goto, Flushing, Op
  <2>2. Commits(t)' => Commits(t) \/ global_read_lock = 0
    BY <1>1, <1>a, <2>1 DEF Commits, Data, lock_done, Goto, Flushing, Op
  <2>3. holds'[t] /\ ~ killed'[t] => /\ holds[t] /\ ~ killed[t]
                                     /\ pc[t] \in Loop => pc'[t] \in Loop
                                     /\ pc[t] # "flush"
    BY <1>1, <1>a DEF Data, lock_done, Goto, Flushing, Op
  <2>. QED  BY <2>1, <2>2, <2>3, HolderSame
<1>. QED
  BY <1>2, <1>3, <1>4, <1>5, <1>6, <1>7, <1>8, <1>9 DEF StepRight, Right

(* Killed in wait_for_tables.                                              *)
LEMMA wait_tables_killed_right ==
  ASSUME IInv, NEW t \in Thread, wait_tables_killed(t)
  PROVE  StepRight(t)
<1>1. /\ Data /\ Right(t) /\ LabelRight(t) /\ WantRight(t) /\ MutexRight(t)
      /\ refresh_version \in 1 .. MaxVersion /\ global_read_lock \in Nat
      /\ protect_against_global_read_lock \in Nat /\ ReadLockCounts
      /\ \A x \in Table : InstRight(t, x) /\ ThrRight(t, x) /\ OpenRight(t, x)
  BY CountersType DEF IInv, Right
<1>a. LOCK_open' # t /\ pc'[t] \in {"flush_end", "unlock"}
  BY <1>1, Constants DEF Data, wait_tables_killed, InWaitTables, Goto, Enter,
     lock_failed
<1>2. Data'
  BY <1>1, <1>a, Constants DEF Data, Label, wait_tables_killed, Goto,
     InWaitTables, Enter, lock_failed, Flushing, Op
<1>3. Frame(t)
  BY <1>1, <1>a, Constants DEF Frame, Untouched, Other, Data,
     wait_tables_killed, Goto, InWaitTables, Enter, lock_failed, Flushing, Op
<1>4. Counts(t)
  BY <1>1, <1>a DEF Counts, Protected, ToFlush, Op, Data, wait_tables_killed,
     Goto, InWaitTables, Enter, lock_failed, Flushing
<1>5. LabelRight(t)'
  BY <1>1, <1>a DEF LabelRight, Op, Flushing, Data, wait_tables_killed, Goto,
     InWaitTables, Enter, lock_failed
<1>6. WantRight(t)'
  BY <1>1, <1>a DEF WantRight, Opened, Data, wait_tables_killed, Goto,
     InWaitTables, Enter, lock_failed, Flushing, Op
<1>7. MutexRight(t)'
  BY <1>1, <1>a, Constants DEF MutexRight, WritesOpened, Opened, Flushing, Op,
     Data, wait_tables_killed, Goto, InWaitTables, Enter, lock_failed
<1>8. ASSUME NEW x \in Table PROVE InstRight(t, x)' /\ ThrRight(t, x)' /\ OpenRight(t, x)'
  <2>1. InstRight(t, x)'
    BY <1>1, <1>a DEF InstRight, Data, wait_tables_killed, Goto, InWaitTables,
       Enter, lock_failed, Flushing, Op
  <2>2. ThrRight(t, x)'
    BY <1>1, <1>a DEF ThrRight, Opened, Data, wait_tables_killed, Goto,
       InWaitTables, Enter, lock_failed, Flushing, Op
  <2>3. OpenRight(t, x)'
    BY <1>1, <1>a DEF LabelRight, Flushing, Op, OpenRight, MayBeClosed,
       Holding, Opened, Data, wait_tables_killed, Goto, InWaitTables, Enter,
       lock_failed
  <2>. QED  BY <2>1, <2>2, <2>3
<1>9. HolderStep(t)
  <2>1. Opened(t)' = Opened(t) /\ (WritesOpened(t)' <=> WritesOpened(t))
        /\ \A x \in Opened(t) : inst'[t][x].version = inst[t][x].version
    BY <1>1, <1>a DEF WritesOpened, Opened, Data, wait_tables_killed, Goto,
       InWaitTables, Enter, lock_failed, Flushing, Op
  <2>2. Commits(t)' => Commits(t) \/ global_read_lock = 0
    BY <1>1, <1>a, <2>1 DEF Commits, Data, wait_tables_killed, Goto,
       InWaitTables, Enter, lock_failed, Flushing, Op
  <2>3. holds'[t] /\ ~ killed'[t] => /\ holds[t] /\ ~ killed[t]
                                     /\ pc[t] \in Loop => pc'[t] \in Loop
                                     /\ pc[t] # "flush"
    BY <1>1, <1>a DEF Data, wait_tables_killed, Goto, InWaitTables, Enter,
       lock_failed, Flushing, Op
  <2>. QED  BY <2>1, <2>2, <2>3, HolderSame
<1>. QED
  BY <1>2, <1>3, <1>4, <1>5, <1>6, <1>7, <1>8, <1>9 DEF StepRight, Right

(* wait_for_tables closes old files, or opens again what is closed.        *)
LEMMA wait_for_tables_right ==
  ASSUME IInv, NEW t \in Thread, wait_for_tables(t)
  PROVE  StepRight(t)
<1>1. /\ Data /\ Right(t) /\ LabelRight(t) /\ WantRight(t) /\ MutexRight(t)
      /\ refresh_version \in 1 .. MaxVersion /\ global_read_lock \in Nat
      /\ protect_against_global_read_lock \in Nat /\ ReadLockCounts
      /\ \A x \in Table : InstRight(t, x) /\ ThrRight(t, x) /\ OpenRight(t, x)
  BY CountersType DEF IInv, Right
<1>a. /\ pc[t] \in {"wait_tables", "wait_tables_wait"} /\ LOCK_open = NoThread
      /\ \A x \in Table : ~ inst[t][x].by_name /\ ~ inst[t][x].by_flush /\ thr[t][x] = "no"
      /\ want[t] = Opened(t) /\ want[t] # {} /\ Opened(t) \subseteq Table
  BY <1>1 DEF wait_for_tables, InWaitTables, Enter, InstRight, ThrRight,
     WantRight, Opened
<1>b. /\ inst' \in [Thread -> [Table -> TableType]] /\ \A u \in Other(t) : inst'[u] = inst[u]
      /\ \A x \in Table :
           /\ inst'[t][x].used \/ inst'[t][x] = NoTable
           /\ inst'[t][x].used => inst[t][x].used
           /\ inst'[t][x].used => (inst'[t][x].write <=> inst[t][x].write)
           /\ ~ inst'[t][x].by_name /\ ~ inst'[t][x].by_flush
           /\ inst'[t][x].version <= refresh_version
           /\ pc'[t] # "wait_tables_wait" /\ inst'[t][x].used => inst'[t][x].file # 0
      /\ Opened(t)' \subseteq Opened(t)
      /\ pc'[t] \in {"wait_tables_wait", "lock"} => Opened(t)' = Opened(t)
      /\ \/ pc'[t] = "wait_tables_wait" /\ LOCK_open' = t
         \/ pc'[t] = "lock" /\ LOCK_open' = NoThread
         \/ pc'[t] = "flush_end" /\ Flushing(t) /\ LOCK_open' = NoThread
         \/ pc'[t] = "unlock" /\ ~ Flushing(t) /\ LOCK_open' = NoThread
  <2> DEFINE c == ClosedOld(t)
             T == [Thread -> [Table -> TableType]]
  <2>1. /\ c \in T /\ \A u \in Other(t) : c[u] = inst[u]
        /\ \A x \in Table :
             /\ c[t][x].used = inst[t][x].used /\ c[t][x].write = inst[t][x].write
             /\ ~ c[t][x].by_name /\ ~ c[t][x].by_flush
             /\ c[t][x].version = refresh_version \/ c[t][x] = inst[t][x]
             /\ c[t][x].used \/ c[t][x] = NoTable
    <3>1. \A x \in Table : x \notin Stale(t) => c[t][x] = inst[t][x]
      BY <1>1, ClosedOldSame
    <3>2. \A x \in Table : inst[t][x].used \/ inst[t][x] = NoTable
      BY <1>1 DEF InstRight
    <3>3. \A x \in Table : x \in Stale(t) => inst[t][x].used
      BY DEF Stale, Opened
    <3>. QED  BY <1>1, <1>a, <3>1, <3>2, <3>3, ClosedOldSame
  <2>2. \A x \in Table : c[t][x] \in TableType /\ c[t][x].version <= refresh_version
    <3>1. \A x \in Table : inst[t][x].version <= refresh_version
      BY <1>1 DEF InstRight
    <3>. QED  BY <1>1, <2>1, <3>1
  <2>3. CASE WaitsForTables(t)
    <3>1. inst' = c /\ pc' = [pc EXCEPT ![t] = "wait_tables_wait"] /\ LOCK_open' = t
      BY <2>3 DEF wait_for_tables, WaitAt, Goto
    <3>2. Opened(t)' = Opened(t)  BY <1>a, <2>1, <3>1 DEF Opened
    <3>3. pc'[t] = "wait_tables_wait"  BY <1>1, <3>1 DEF Data
    <3> HIDE DEF c
    <3>. QED  BY <2>1, <2>2, <3>1, <3>2, <3>3
  <2>4. CASE ~ WaitsForTables(t)
    <3>1. inst' = Reopened(t, c) /\ LOCK_open' = LOCK_open
          /\ pc' = [pc EXCEPT ![t] =
               IF \A x \in Opened(t) : inst'[t][x].used THEN "lock"
               ELSE IF Flushing(t) THEN "flush_end" ELSE "unlock"]
      BY <2>4 DEF wait_for_tables, Goto, Leave, lock_failed
    <3> HIDE DEF c
    <3>2. \A x \in Table : inst'[t][x] =
            IF ~ (c[t][x].used /\ c[t][x].file = 0) THEN c[t][x]
            ELSE IF file[x] = 0 THEN NoTable
            ELSE Anew(refresh_version, file[x], c[t][x].write)
      BY <2>1, <3>1 DEF Reopened, Anew
    <3>3. \A u \in Other(t) : inst'[u] = inst[u]
      BY <2>1, <3>1 DEF Reopened, Other
    <3>4. ASSUME NEW x \in Table
          PROVE  /\ inst'[t][x] \in TableType
                 /\ inst'[t][x].used \/ inst'[t][x] = NoTable
                 /\ inst'[t][x].used => inst[t][x].used /\ inst'[t][x].file # 0
                 /\ inst'[t][x].used => (inst'[t][x].write <=> inst[t][x].write)
                 /\ ~ inst'[t][x].by_name /\ ~ inst'[t][x].by_flush
                 /\ inst'[t][x].version <= refresh_version
      <4>1. CASE ~ (c[t][x].used /\ c[t][x].file = 0)
        BY <2>1, <2>2, <3>2, <4>1
      <4>2. CASE c[t][x].used /\ c[t][x].file = 0 /\ file[x] = 0
        BY <1>1, <3>2, <4>2, NoTableSame
      <4>3. CASE c[t][x].used /\ c[t][x].file = 0 /\ file[x] # 0
        <5>1. /\ refresh_version \in 0 .. MaxVersion /\ file[x] \in 0 .. 2
              /\ c[t][x].write \in BOOLEAN
          BY <1>1, <2>2, Constants DEF Data, TableType
        <5> DEFINE k == Anew(refresh_version, file[x], c[t][x].write)
        <5>2. /\ k \in TableType /\ k.version = refresh_version /\ k.file = file[x]
              /\ k.write = c[t][x].write /\ k.used /\ ~ k.by_name /\ ~ k.by_flush
          BY <5>1, NewTable
        <5>3. inst'[t][x] = k  BY <3>2, <4>3
        <5> HIDE DEF k
        <5>. QED  BY <1>1, <2>1, <4>3, <5>2, <5>3
      <4>. QED  BY <4>1, <4>2, <4>3
    <3>5. inst' \in T
      <4>1. inst'[t] \in [Table -> TableType]  BY <2>1, <3>1, <3>4 DEF Reopened
      <4>2. \A u \in Thread : inst'[u] \in [Table -> TableType]
        BY <1>1, <3>3, <4>1 DEF Data, Other
      <4>. QED  BY <2>1, <3>1, <4>2 DEF Reopened
    <3>6. Opened(t)' \subseteq Opened(t)  BY <1>a, <3>4 DEF Opened
    <3>7. (\A x \in Opened(t) : inst'[t][x].used) => Opened(t)' = Opened(t)
      BY <3>4, <3>6 DEF Opened
    <3>8. \/ pc'[t] = "lock" /\ Opened(t)' = Opened(t)
          \/ pc'[t] = "flush_end" /\ Flushing(t)
          \/ pc'[t] = "unlock" /\ ~ Flushing(t)
      BY <1>1, <3>1, <3>7 DEF Data
    <3>. QED  BY <1>a, <3>1, <3>3, <3>4, <3>5, <3>6, <3>8
  <2>. QED  BY <2>3, <2>4
<1>2. Data'
  <2>1. pc' \in [Thread -> Label]
    BY <1>1 DEF Data, Label, wait_for_tables, Goto, WaitAt, lock_failed
  <2>2. some_tables_deleted' \in [Thread -> BOOLEAN] /\ sleeping' \subseteq Thread
    BY <1>1 DEF Data, wait_for_tables, Broadcast, BroadcastIf
  <2>3. LOCK_open' \in Thread \cup {NoThread}  BY <1>b
  <2>. QED  BY <1>1, <1>b, <2>1, <2>2, <2>3 DEF Data, wait_for_tables
<1>3. Frame(t)
  <2>1. \A u \in Other(t) : pc'[u] = pc[u]
    BY <1>1 DEF Other, Data, wait_for_tables, Goto, WaitAt, lock_failed
  <2>2. \A u \in Other(t) : LOCK_open' # u  BY <1>b, Constants DEF Other
  <2>. QED  BY <1>b, <2>1, <2>2 DEF Frame, Untouched, wait_for_tables
<1>4. Counts(t)
  BY <1>1, <1>a, <1>b DEF Counts, Protected, ToFlush, Op, wait_for_tables
<1>5. LabelRight(t)'
  BY <1>1, <1>a, <1>b DEF LabelRight, Op, Flushing, Data, wait_for_tables
<1>6. WantRight(t)'  BY <1>1, <1>a, <1>b DEF WantRight, wait_for_tables
<1>7. MutexRight(t)'  BY <1>1, <1>a, <1>b, Constants DEF MutexRight
<1>8. ASSUME NEW x \in Table PROVE InstRight(t, x)' /\ ThrRight(t, x)' /\ OpenRight(t, x)'
  <2>1. InstRight(t, x)'  BY <1>1, <1>b DEF InstRight, wait_for_tables
  <2>2. ThrRight(t, x)'  BY <1>1, <1>a, <1>b DEF ThrRight, wait_for_tables
  <2>3. OpenRight(t, x)'  
    <3>1. x \in Opened(t)' => x \in Opened(t) /\ OpenRight(t, x)  BY <1>1, <1>b
    <3>2. x \in Opened(t)' => inst'[t][x].used  BY DEF Opened
    <3>3. LOCK_open' = t => pc'[t] = "wait_tables_wait"  BY <1>b, Constants
    <3>4. locked_tables[t] <=> Flushing(t)  BY <1>1, <1>a DEF LabelRight
    <3>. QED  BY <1>1, <1>a, <1>b, <3>1, <3>2, <3>3, <3>4
              DEF OpenRight, MayBeClosed, Holding, wait_for_tables
  <2>. QED  BY <2>1, <2>2, <2>3
<1>9. HolderStep(t)
  <2>1. ~ Commits(t)'  BY <1>1, <1>a, <1>b DEF Commits, wait_for_tables
  <2>. QED  BY <1>1, <1>a, <2>1, HolderNot DEF wait_for_tables
<1>. QED
  BY <1>2, <1>3, <1>4, <1>5, <1>6, <1>7, <1>8, <1>9 DEF StepRight, Right

(* A thread goes to sleep and gives LOCK_open up.                          *)
LEMMA cond_wait_right ==
  ASSUME IInv, NEW t \in Thread, cond_wait(t)
  PROVE  StepRight(t)
<1>1. /\ Data /\ Right(t) /\ LabelRight(t) /\ WantRight(t) /\ MutexRight(t)
      /\ refresh_version \in 1 .. MaxVersion /\ global_read_lock \in Nat
      /\ protect_against_global_read_lock \in Nat /\ ReadLockCounts
      /\ \A x \in Table : InstRight(t, x) /\ ThrRight(t, x) /\ OpenRight(t, x)
  BY CountersType DEF IInv, Right
<1>2. Data'  BY <1>1, Constants DEF Data, Label, cond_wait
<1>3. Frame(t)
  BY <1>1, Constants DEF Frame, Untouched, Other, Data, cond_wait
<1>4. Counts(t)  BY <1>1 DEF Counts, Protected, ToFlush, Op, Data, cond_wait
<1>5. LabelRight(t)'  BY <1>1 DEF LabelRight, Op, Flushing, Data, cond_wait
<1>6. WantRight(t)'  BY <1>1 DEF WantRight, Opened, Data, cond_wait
<1>7. MutexRight(t)'
  BY <1>1, Constants DEF MutexRight, WritesOpened, Opened, Flushing, Op, Data,
     cond_wait
<1>8. ASSUME NEW x \in Table PROVE InstRight(t, x)' /\ ThrRight(t, x)' /\ OpenRight(t, x)'
  <2>1. InstRight(t, x)'  BY <1>1 DEF InstRight, Data, cond_wait
  <2>2. ThrRight(t, x)'  BY <1>1 DEF ThrRight, Opened, Data, cond_wait
  <2>3. OpenRight(t, x)'
    BY <1>1 DEF OpenRight, MayBeClosed, Holding, Opened, Data, cond_wait
  <2>. QED  BY <2>1, <2>2, <2>3
<1>9. HolderStep(t)
  <2>1. Opened(t)' = Opened(t) /\ (WritesOpened(t)' <=> WritesOpened(t))
        /\ \A x \in Opened(t) : inst'[t][x].version = inst[t][x].version
    BY <1>1 DEF WritesOpened, Opened, Data, cond_wait
  <2>2. Commits(t)' => Commits(t) \/ global_read_lock = 0
    BY <1>1, <2>1 DEF Commits, Data, cond_wait
  <2>3. holds'[t] /\ ~ killed'[t] => /\ holds[t] /\ ~ killed[t]
                                     /\ pc[t] \in Loop => pc'[t] \in Loop
                                     /\ pc[t] # "flush"
    BY <1>1 DEF Data, cond_wait
  <2>. QED  BY <2>1, <2>2, <2>3, HolderSame
<1>. QED
  BY <1>2, <1>3, <1>4, <1>5, <1>6, <1>7, <1>8, <1>9 DEF StepRight, Right

(* The statement has run.                                                  *)
LEMMA run_done_right ==
  ASSUME IInv, NEW t \in Thread, run_done(t)
  PROVE  StepRight(t)
<1>1. /\ Data /\ Right(t) /\ LabelRight(t) /\ WantRight(t) /\ MutexRight(t)
      /\ refresh_version \in 1 .. MaxVersion /\ global_read_lock \in Nat
      /\ protect_against_global_read_lock \in Nat /\ ReadLockCounts
      /\ \A x \in Table : InstRight(t, x) /\ ThrRight(t, x) /\ OpenRight(t, x)
  BY CountersType DEF IInv, Right
<1>2. Data'  BY <1>1, Constants DEF Data, Label, run_done, Goto
<1>3. Frame(t)
  BY <1>1, Constants DEF Frame, Untouched, Other, Data, run_done, Goto
<1>4. Counts(t)
  BY <1>1 DEF Counts, Protected, ToFlush, Op, Data, run_done, Goto
<1>5. LabelRight(t)'
  BY <1>1 DEF LabelRight, Op, Flushing, Data, run_done, Goto
<1>6. WantRight(t)'  BY <1>1 DEF WantRight, Opened, Data, run_done, Goto
<1>7. MutexRight(t)'
  BY <1>1, Constants DEF MutexRight, WritesOpened, Opened, Flushing, Op, Data,
     run_done, Goto
<1>8. ASSUME NEW x \in Table PROVE InstRight(t, x)' /\ ThrRight(t, x)' /\ OpenRight(t, x)'
  <2>1. InstRight(t, x)'  BY <1>1 DEF InstRight, Data, run_done, Goto
  <2>2. ThrRight(t, x)'  BY <1>1 DEF ThrRight, Opened, Data, run_done, Goto
  <2>3. OpenRight(t, x)'
    BY <1>1 DEF OpenRight, MayBeClosed, Holding, Opened, Data, run_done, Goto
  <2>. QED  BY <2>1, <2>2, <2>3
<1>9. HolderStep(t)
  <2>1. Opened(t)' = Opened(t) /\ (WritesOpened(t)' <=> WritesOpened(t))
        /\ \A x \in Opened(t) : inst'[t][x].version = inst[t][x].version
    BY <1>1 DEF WritesOpened, Opened, Data, run_done, Goto
  <2>2. Commits(t)' => Commits(t) \/ global_read_lock = 0
    BY <1>1, <2>1 DEF Commits, Data, run_done, Goto
  <2>3. holds'[t] /\ ~ killed'[t] => /\ holds[t] /\ ~ killed[t]
                                     /\ pc[t] \in Loop => pc'[t] \in Loop
                                     /\ pc[t] # "flush"
    BY <1>1 DEF Data, run_done, Goto
  <2>. QED  BY <2>1, <2>2, <2>3, HolderSame
<1>. QED
  BY <1>2, <1>3, <1>4, <1>5, <1>6, <1>7, <1>8, <1>9 DEF StepRight, Right

(* mysql_unlock_tables.                                                    *)
LEMMA unlock_right ==
  ASSUME IInv, NEW t \in Thread, unlock(t)
  PROVE  StepRight(t)
<1>1. /\ Data /\ Right(t) /\ LabelRight(t) /\ WantRight(t) /\ MutexRight(t)
      /\ refresh_version \in 1 .. MaxVersion /\ global_read_lock \in Nat
      /\ protect_against_global_read_lock \in Nat /\ ReadLockCounts
      /\ \A x \in Table : InstRight(t, x) /\ ThrRight(t, x) /\ OpenRight(t, x)
  BY CountersType DEF IInv, Right
<1>2. Data'
  BY <1>1, Constants DEF Data, Label, unlock, Goto, Release, Freed, StillClosed
<1>3. Frame(t)
  BY <1>1, Constants DEF Frame, Untouched, Other, Data, unlock, Goto, Release,
     Freed, StillClosed
<1>4. Counts(t)
  BY <1>1 DEF Counts, Protected, ToFlush, Op, Data, unlock, Goto, Release,
     Freed, StillClosed
<1>5. LabelRight(t)'
  BY <1>1 DEF LabelRight, Op, Flushing, Data, unlock, Goto, Release, Freed,
     StillClosed
<1>6. WantRight(t)'
  BY <1>1 DEF WantRight, Opened, Data, unlock, Goto, Release, Freed,
     StillClosed
<1>7. MutexRight(t)'
  BY <1>1, Constants DEF MutexRight, WritesOpened, Opened, Flushing, Op, Data,
     unlock, Goto, Release, Freed, StillClosed
<1>8. ASSUME NEW x \in Table PROVE InstRight(t, x)' /\ ThrRight(t, x)' /\ OpenRight(t, x)'
  <2>1. InstRight(t, x)'
    BY <1>1 DEF InstRight, Data, unlock, Goto, Release, Freed, StillClosed
  <2>2. ThrRight(t, x)'
    BY <1>1 DEF ThrRight, Opened, Data, unlock, Goto, Release, Freed,
       StillClosed
  <2>3. OpenRight(t, x)'
    BY <1>1 DEF OpenRight, MayBeClosed, Holding, Opened, Data, unlock, Goto,
       Release, Freed, StillClosed
  <2>. QED  BY <2>1, <2>2, <2>3
<1>9. HolderStep(t)
  <2>1. Opened(t)' = Opened(t) /\ (WritesOpened(t)' <=> WritesOpened(t))
        /\ \A x \in Opened(t) : inst'[t][x].version = inst[t][x].version
    BY <1>1 DEF WritesOpened, Opened, Data, unlock, Goto, Release, Freed,
       StillClosed
  <2>2. Commits(t)' => Commits(t) \/ global_read_lock = 0
    BY <1>1, <2>1 DEF Commits, Data, unlock, Goto, Release, Freed, StillClosed
  <2>3. holds'[t] /\ ~ killed'[t] => /\ holds[t] /\ ~ killed[t]
                                     /\ pc[t] \in Loop => pc'[t] \in Loop
                                     /\ pc[t] # "flush"
    BY <1>1 DEF Data, unlock, Goto, Release, Freed, StillClosed
  <2>. QED  BY <2>1, <2>2, <2>3, HolderSame
<1>. QED
  BY <1>2, <1>3, <1>4, <1>5, <1>6, <1>7, <1>8, <1>9 DEF StepRight, Right

(* The TABLEs that are up to date stay in the cache.                       *)
LEMMA close_thread_tables_right ==
  ASSUME IInv, NEW t \in Thread, close_thread_tables(t)
  PROVE  StepRight(t)
<1>1. /\ Data /\ Right(t) /\ LabelRight(t) /\ WantRight(t) /\ MutexRight(t)
      /\ refresh_version \in 1 .. MaxVersion /\ global_read_lock \in Nat
      /\ protect_against_global_read_lock \in Nat /\ ReadLockCounts
      /\ \A x \in Table : InstRight(t, x) /\ ThrRight(t, x) /\ OpenRight(t, x)
  BY CountersType DEF IInv, Right
<1>a. /\ pc[t] = "close" /\ pc'[t] = "idle" /\ ~ locked_tables[t]
      /\ inst' \in [Thread -> [Table -> TableType]] /\ \A u \in Other(t) : inst'[u] = inst[u]
      /\ \A x \in Table : inst'[t][x] = NoTable
      /\ Opened(t)' = {} /\ \A x \in Table : thr[t][x] = "no"
  <2>1. pc[t] = "close" /\ pc'[t] = "idle" /\ ~ locked_tables[t]
    BY <1>1 DEF close_thread_tables, Goto, LabelRight, Data
  <2>2. \A x \in Table : thr[t][x] = "no" /\ (x \notin Opened(t) => inst[t][x] = NoTable)
    BY <1>1, <2>1 DEF ThrRight, InstRight, Opened
  <2>3. inst' = [inst EXCEPT ![t] = [x \in Table |-> IF x \in Opened(t) THEN NoTable ELSE @[x]]]
    BY DEF close_thread_tables
  <2>4. /\ inst' \in [Thread -> [Table -> TableType]]
        /\ \A u \in Other(t) : inst'[u] = inst[u]
        /\ \A x \in Table : inst'[t][x] = NoTable
    BY <1>1, <2>2, <2>3, NoTableSame DEF Data, Other
  <2>. QED  BY <2>1, <2>2, <2>4, NoTableSame DEF Opened
<1>b. /\ unused' \in [Table -> SUBSET [version : 1 .. MaxVersion, file : 1 .. 2]]
      /\ \A x \in Table : \A i \in unused'[x] : i \in unused[x] \/ i.version <= refresh_version
  <2> DEFINE new(x) == {[version |-> inst[t][y].version, file |-> inst[t][y].file] :
                          y \in {y \in Opened(t) : y = x /\ Kept(t, y)}}
  <2>1. unused' = [x \in Table |-> unused[x] \cup new(x)]
    BY DEF close_thread_tables
  <2>2. ASSUME NEW x \in Table, NEW i \in new(x)
        PROVE  i \in [version : 1 .. MaxVersion, file : 1 .. 2] /\ i.version = refresh_version
    <3>1. PICK y \in Opened(t) : /\ y = x /\ Kept(t, y)
                                 /\ i = [version |-> inst[t][y].version, file |-> inst[t][y].file]
      OBVIOUS
    <3>2. inst[t][x] \in TableType  BY <1>1 DEF Data
    <3>3. inst[t][x].version = refresh_version /\ inst[t][x].file \in 1 .. 2
      BY <3>1, <3>2 DEF Kept, TableType
    <3>. QED  BY <1>1, <3>1, <3>3
  <2> HIDE DEF new
  <2>3. \A x \in Table : unused'[x] = unused[x] \cup new(x)  BY <2>1
  <2>4. \A x \in Table : unused[x] \subseteq [version : 1 .. MaxVersion, file : 1 .. 2]
    BY <1>1 DEF Data
  <2>5. \A x \in Table : unused'[x] \subseteq [version : 1 .. MaxVersion, file : 1 .. 2]
    BY <2>2, <2>3, <2>4
  <2>6. \A x \in Table : \A i \in unused'[x] : i \in unused[x] \/ i.version <= refresh_version
    BY <1>1, <2>2, <2>3
  <2>. QED  BY <2>1, <2>5, <2>6
<1>2. Data'
  <2>1. pc' \in [Thread -> Label]
    BY <1>1 DEF Data, Label, close_thread_tables, Goto
  <2>. QED
    BY <1>1, <1>a, <1>b, <2>1 DEF Data, close_thread_tables, Leave, BroadcastIf
<1>3. Frame(t)
  BY <1>1, <1>a, Constants DEF Frame, Untouched, Other, Data,
     close_thread_tables, Goto, Enter, BroadcastIf, Leave
<1>4. Counts(t)
  BY <1>1, <1>a, <1>b DEF Counts, Protected, ToFlush, Op, close_thread_tables
<1>5. LabelRight(t)'
  BY <1>1, <1>a DEF LabelRight, Op, Flushing, Data, close_thread_tables, Goto,
     Enter, BroadcastIf, Leave
<1>6. WantRight(t)'
  BY <1>1, <1>a DEF WantRight, Opened, Data, close_thread_tables, Goto, Enter,
     BroadcastIf, Leave
<1>7. MutexRight(t)'
  BY <1>1, <1>a, Constants DEF MutexRight, WritesOpened, Opened, Flushing, Op,
     Data, close_thread_tables, Goto, Enter, BroadcastIf, Leave
<1>8. ASSUME NEW x \in Table PROVE InstRight(t, x)' /\ ThrRight(t, x)' /\ OpenRight(t, x)'
  <2>1. InstRight(t, x)'
    BY <1>1, <1>a, NoTableSame DEF InstRight, close_thread_tables
  <2>2. ThrRight(t, x)'  BY <1>1, <1>a DEF ThrRight, close_thread_tables
  <2>3. OpenRight(t, x)'  BY <1>1, <1>a DEF OpenRight
  <2>. QED  BY <2>1, <2>2, <2>3
<1>9. HolderStep(t)
  <2>1. ~ Commits(t)'  BY <1>1, <1>a DEF Commits, close_thread_tables, Data
  <2>. QED  BY <1>1, <2>1, HolderNot DEF close_thread_tables, Data
<1>. QED
  BY <1>2, <1>3, <1>4, <1>5, <1>6, <1>7, <1>8, <1>9 DEF StepRight, Right

(* The end of a connection: LOCK TABLES ends.                              *)
LEMMA cleanup_right ==
  ASSUME IInv, NEW t \in Thread, cleanup(t)
  PROVE  StepRight(t)
<1>1. /\ Data /\ Right(t) /\ LabelRight(t) /\ WantRight(t) /\ MutexRight(t)
      /\ refresh_version \in 1 .. MaxVersion /\ global_read_lock \in Nat
      /\ protect_against_global_read_lock \in Nat /\ ReadLockCounts
      /\ \A x \in Table : InstRight(t, x) /\ ThrRight(t, x) /\ OpenRight(t, x)
  BY CountersType DEF IInv, Right
<1>2. Data'  BY <1>1, Constants DEF Data, Label, cleanup, Goto
<1>3. Frame(t)
  BY <1>1, Constants DEF Frame, Untouched, Other, Data, cleanup, Goto
<1>4. Counts(t)
  BY <1>1 DEF Counts, Protected, ToFlush, Op, Data, cleanup, Goto
<1>5. LabelRight(t)'  BY <1>1 DEF LabelRight, Op, Flushing, Data, cleanup, Goto
<1>6. WantRight(t)'  BY <1>1 DEF WantRight, Opened, Data, cleanup, Goto
<1>7. MutexRight(t)'
  BY <1>1, Constants DEF MutexRight, WritesOpened, Opened, Flushing, Op, Data,
     cleanup, Goto
<1>8. ASSUME NEW x \in Table PROVE InstRight(t, x)' /\ ThrRight(t, x)' /\ OpenRight(t, x)'
  <2>1. InstRight(t, x)'  BY <1>1 DEF InstRight, Data, cleanup, Goto
  <2>2. ThrRight(t, x)'  BY <1>1 DEF ThrRight, Opened, Data, cleanup, Goto
  <2>3. OpenRight(t, x)'
    BY <1>1 DEF OpenRight, MayBeClosed, Holding, Opened, Data, cleanup, Goto
  <2>. QED  BY <2>1, <2>2, <2>3
<1>9. HolderStep(t)
  <2>1. Opened(t)' = Opened(t) /\ (WritesOpened(t)' <=> WritesOpened(t))
        /\ \A x \in Opened(t) : inst'[t][x].version = inst[t][x].version
    BY <1>1 DEF WritesOpened, Opened, Data, cleanup, Goto
  <2>2. Commits(t)' => Commits(t) \/ global_read_lock = 0
    BY <1>1, <2>1 DEF Commits, Data, cleanup, Goto
  <2>3. holds'[t] /\ ~ killed'[t] => /\ holds[t] /\ ~ killed[t]
                                     /\ pc[t] \in Loop => pc'[t] \in Loop
                                     /\ pc[t] # "flush"
    BY <1>1 DEF Data, cleanup, Goto
  <2>. QED  BY <2>1, <2>2, <2>3, HolderSame
<1>. QED
  BY <1>2, <1>3, <1>4, <1>5, <1>6, <1>7, <1>8, <1>9 DEF StepRight, Right

(* The end of a connection: the global read lock is given back.            *)
LEMMA disconnect_right ==
  ASSUME IInv, NEW t \in Thread, disconnect(t)
  PROVE  StepRight(t)
<1>1. /\ Data /\ Right(t) /\ LabelRight(t) /\ WantRight(t) /\ MutexRight(t)
      /\ refresh_version \in 1 .. MaxVersion /\ global_read_lock \in Nat
      /\ protect_against_global_read_lock \in Nat /\ ReadLockCounts
      /\ \A x \in Table : InstRight(t, x) /\ ThrRight(t, x) /\ OpenRight(t, x)
  BY CountersType DEF IInv, Right
<1>2. Data'
  BY <1>1, Constants DEF Data, Label, disconnect, Goto,
     unlock_global_read_lock, Enter, BroadcastIf, Leave
<1>3. Frame(t)
  BY <1>1, Constants DEF Frame, Untouched, Other, Data, disconnect, Goto,
     unlock_global_read_lock, Enter, BroadcastIf, Leave
<1>4. Counts(t)
  BY <1>1 DEF Counts, Protected, ToFlush, Op, Data, disconnect, Goto,
     unlock_global_read_lock, Enter, BroadcastIf, Leave
<1>5. LabelRight(t)'
  BY <1>1 DEF LabelRight, Op, Flushing, Data, disconnect, Goto,
     unlock_global_read_lock, Enter, BroadcastIf, Leave
<1>6. WantRight(t)'
  BY <1>1 DEF WantRight, Opened, Data, disconnect, Goto,
     unlock_global_read_lock, Enter, BroadcastIf, Leave
<1>7. MutexRight(t)'
  BY <1>1, Constants DEF MutexRight, WritesOpened, Opened, Flushing, Op, Data,
     disconnect, Goto, unlock_global_read_lock, Enter, BroadcastIf, Leave
<1>8. ASSUME NEW x \in Table PROVE InstRight(t, x)' /\ ThrRight(t, x)' /\ OpenRight(t, x)'
  <2>1. InstRight(t, x)'
    BY <1>1 DEF InstRight, Data, disconnect, Goto, unlock_global_read_lock,
       Enter, BroadcastIf, Leave
  <2>2. ThrRight(t, x)'
    BY <1>1 DEF ThrRight, Opened, Data, disconnect, Goto,
       unlock_global_read_lock, Enter, BroadcastIf, Leave
  <2>3. OpenRight(t, x)'
    BY <1>1 DEF OpenRight, MayBeClosed, Holding, Opened, Data, disconnect,
       Goto, unlock_global_read_lock, Enter, BroadcastIf, Leave
  <2>. QED  BY <2>1, <2>2, <2>3
<1>9. HolderStep(t)
  <2>1. Opened(t)' = Opened(t) /\ (WritesOpened(t)' <=> WritesOpened(t))
        /\ \A x \in Opened(t) : inst'[t][x].version = inst[t][x].version
    BY <1>1 DEF WritesOpened, Opened, Data, disconnect, Goto,
       unlock_global_read_lock, Enter, BroadcastIf, Leave
  <2>2. Commits(t)' => Commits(t) \/ global_read_lock = 0
    BY <1>1, <2>1 DEF Commits, Data, disconnect, Goto, unlock_global_read_lock,
       Enter, BroadcastIf, Leave
  <2>3. holds'[t] /\ ~ killed'[t] => /\ holds[t] /\ ~ killed[t]
                                     /\ pc[t] \in Loop => pc'[t] \in Loop
                                     /\ pc[t] # "flush"
    BY <1>1 DEF Data, disconnect, Goto, unlock_global_read_lock, Enter,
       BroadcastIf, Leave
  <2>. QED  BY <2>1, <2>2, <2>3, HolderSame
<1>. QED
  BY <1>2, <1>3, <1>4, <1>5, <1>6, <1>7, <1>8, <1>9 DEF StepRight, Right

(* The global read lock is taken, or waits, or the thread is killed.       *)
LEMMA lock_global_read_lock_right ==
  ASSUME IInv, NEW t \in Thread, lock_global_read_lock(t)
  PROVE  StepRight(t)
<1>1. /\ Data /\ Right(t) /\ LabelRight(t) /\ WantRight(t) /\ MutexRight(t)
      /\ refresh_version \in 1 .. MaxVersion /\ global_read_lock \in Nat
      /\ protect_against_global_read_lock \in Nat /\ ReadLockCounts
      /\ \A x \in Table : InstRight(t, x) /\ ThrRight(t, x) /\ OpenRight(t, x)
  BY CountersType DEF IInv, Right
<1>a. /\ ~ holds[t] /\ pc[t] \in {"read_lock", "read_lock_wait"}
      /\ \/ /\ pc'[t] = "read_lock_wait" /\ holds' = holds
            /\ global_read_lock' = global_read_lock
         \/ /\ pc'[t] \in {"idle", "unlock"} /\ holds' = holds
            /\ global_read_lock' = global_read_lock
         \/ /\ pc'[t] = "flush" /\ holds'[t] /\ \A u \in Other(t) : holds'[u] = holds[u]
            /\ global_read_lock' = global_read_lock + 1
  <2>1. ~ holds[t] /\ pc[t] \in {"read_lock", "read_lock_wait"}
    BY <1>1 DEF LabelRight, lock_global_read_lock
  <2>2. \/ /\ pc' = [pc EXCEPT ![t] = "read_lock_wait"] /\ holds' = holds
           /\ global_read_lock' = global_read_lock
        \/ /\ pc' = [pc EXCEPT ![t] = IF locked_tables[t] THEN "idle" ELSE "unlock"]
           /\ holds' = holds /\ global_read_lock' = global_read_lock
        \/ /\ pc' = [pc EXCEPT ![t] = "flush"] /\ holds' = [holds EXCEPT ![t] = TRUE]
           /\ global_read_lock' = global_read_lock + 1
    BY DEF lock_global_read_lock, Goto, WaitAt, Done
  <2>3. pc \in [Thread -> Label] /\ holds \in [Thread -> BOOLEAN]
    BY <1>1 DEF Data
  <2>. QED  BY <2>1, <2>2, <2>3 DEF Other
<1>2. Data'
  <2>1. pc' \in [Thread -> Label]
    <3>1. PICK l \in {"read_lock_wait", "idle", "unlock", "flush"} : pc' = [pc EXCEPT ![t] = l]
      BY DEF lock_global_read_lock, Goto, WaitAt, Done
    <3>. QED  BY <1>1, <3>1 DEF Data, Label
  <2>2. holds' \in [Thread -> BOOLEAN]  BY <1>1 DEF Data, lock_global_read_lock
  <2>3. LOCK_open' \in {LOCK_open, t} /\ sleeping' = sleeping
    BY DEF lock_global_read_lock, WaitAt
  <2>. QED  BY <1>1, <2>1, <2>2, <2>3 DEF Data, lock_global_read_lock
<1>3. Frame(t)
  BY <1>1, <1>a, Constants DEF Frame, Untouched, Other, Data,
     lock_global_read_lock, Goto, Enter, WaitAt, Done
<1>4. Counts(t)
  <2>1. /\ stmt' = stmt /\ refresh_version' = refresh_version /\ version' = version
        /\ unused' = unused
        /\ protect_against_global_read_lock' = protect_against_global_read_lock
    BY DEF lock_global_read_lock
  <2>. QED  BY <1>1, <1>a, <2>1 DEF Counts, Protected, ToFlush, Data
<1>5. LabelRight(t)'
  BY <1>1, <1>a DEF LabelRight, Op, Flushing, Data, lock_global_read_lock,
     Goto, Enter, WaitAt, Done
<1>6. WantRight(t)'
  BY <1>1, <1>a DEF WantRight, Opened, Data, lock_global_read_lock, Goto,
     Enter, WaitAt, Done
<1>7. MutexRight(t)'
  BY <1>1, <1>a, Constants DEF MutexRight, WritesOpened, Opened, Flushing, Op,
     Data, lock_global_read_lock, Goto, Enter, WaitAt, Done
<1>8. ASSUME NEW x \in Table PROVE InstRight(t, x)' /\ ThrRight(t, x)' /\ OpenRight(t, x)'
  <2>1. InstRight(t, x)'
    BY <1>1, <1>a DEF InstRight, Data, lock_global_read_lock, Goto, Enter,
       WaitAt, Done
  <2>2. ThrRight(t, x)'
    BY <1>1, <1>a DEF ThrRight, Opened, Data, lock_global_read_lock, Goto,
       Enter, WaitAt, Done
  <2>3. OpenRight(t, x)'
    BY <1>1, <1>a DEF OpenRight, MayBeClosed, Holding, Opened, Data,
       lock_global_read_lock, Goto, Enter, WaitAt, Done
  <2>. QED  BY <2>1, <2>2, <2>3
<1>9. HolderStep(t)
  <2>1. Opened(t)' = Opened(t) /\ (WritesOpened(t)' <=> WritesOpened(t))
        /\ \A x \in Opened(t) : inst'[t][x].version = inst[t][x].version
    BY <1>1 DEF WritesOpened, Opened, Data, lock_global_read_lock
  <2>2. Commits(t)' => Commits(t)
    BY <1>1, <1>a, <2>1 DEF Commits, Data, lock_global_read_lock
  <2>3. CASE pc'[t] = "flush"
    <3>1. \A x \in Table : inst'[t][x].version \in Nat
      <4>1. \A x \in Table : inst'[t][x] \in TableType  BY <1>2 DEF Data
      <4>. QED  BY <4>1, Constants DEF TableType
    <3>2. \A x \in Opened(t) : inst'[t][x].version <= inst[t][x].version
      BY <2>1, <3>1 DEF Opened
    <3>. QED  BY <2>1, <2>2, <2>3, <3>2 DEF HolderStep
  <2>4. CASE pc'[t] # "flush"
    <3>1. ~ holds'[t]  BY <1>a, <2>4
    <3>. QED  BY <2>1, <2>2, <3>1, HolderSame
  <2>. QED  BY <2>3, <2>4
<1>. QED
  BY <1>2, <1>3, <1>4, <1>5, <1>6, <1>7, <1>8, <1>9 DEF StepRight, Right

(* Every TABLE becomes old, those of the thread are closed.                *)
LEMMA close_cached_tables_right ==
  ASSUME IInv, NEW t \in Thread, close_cached_tables(t)
  PROVE  StepRight(t)
<1>1. /\ Data /\ Right(t) /\ LabelRight(t) /\ WantRight(t) /\ MutexRight(t)
      /\ refresh_version \in 1 .. MaxVersion /\ global_read_lock \in Nat
      /\ protect_against_global_read_lock \in Nat /\ ReadLockCounts
      /\ \A x \in Table : InstRight(t, x) /\ ThrRight(t, x) /\ OpenRight(t, x)
  BY CountersType DEF IInv, Right
<1>a. /\ pc[t] = "flush" /\ pc'[t] = "flush_loop" /\ LOCK_open = NoThread /\ LOCK_open' = t
      /\ refresh_version' = refresh_version + 1 /\ refresh_version + 1 \in 1 .. MaxVersion
      /\ Opened(t) \subseteq Table
      /\ \A x \in Table : ~ inst[t][x].by_name /\ ~ inst[t][x].by_flush
      /\ \A x \in Opened(t) : locked_tables[t] /\ inst[t][x].file # 0
      /\ \A x \in Table : x \notin Opened(t) => thr[t][x] = "no"
  <2>1. pc[t] = "flush" /\ pc'[t] = "flush_loop" /\ LOCK_open = NoThread /\ LOCK_open' = t
    BY <1>1 DEF close_cached_tables, Goto, Enter, Data
  <2>2. refresh_version' = refresh_version + 1 /\ refresh_version + 1 \in 1 .. MaxVersion
    <3> DEFINE F == {u \in Thread : ToFlush(u)}
    <3>1. t \in F  BY <2>1 DEF ToFlush
    <3>2. IsFiniteSet(F)  BY Constants, FS_Subset
    <3>3. Cardinality(F) \in Nat /\ Cardinality(F) # 0
      BY <3>1, <3>2, FS_CardinalityType, FS_EmptySet
    <3>4. refresh_version + Cardinality(F) <= MaxVersion  BY DEF IInv, Bounded
    <3> HIDE DEF F
    <3>5. refresh_version' = refresh_version + 1  BY DEF close_cached_tables
    <3>. QED  BY <1>1, <3>3, <3>4, <3>5, Constants
  <2>3. Opened(t) \subseteq Table  BY DEF Opened
  <2>4. \A x \in Table : ~ inst[t][x].by_name /\ ~ inst[t][x].by_flush
    BY <1>1, <2>1 DEF InstRight
  <2>5. \A x \in Opened(t) : locked_tables[t] /\ inst[t][x].file # 0
    BY <1>1, <2>1, <2>3 DEF OpenRight, MayBeClosed
  <2>. QED  BY <1>1, <2>1, <2>2, <2>3, <2>4, <2>5 DEF ThrRight
<1>b. /\ inst' \in [Thread -> [Table -> TableType]] /\ \A u \in Other(t) : inst'[u] = inst[u]
      /\ \A x \in Table :
           /\ x \notin Opened(t) => inst'[t][x] = inst[t][x]
           /\ x \in Opened(t) => /\ inst'[t][x].used /\ inst'[t][x].by_flush
                                 /\ ~ inst'[t][x].by_name /\ inst'[t][x].file = 0
                                 /\ inst'[t][x].version = inst[t][x].version
           /\ thr'[t][x] = "no"
      /\ Opened(t)' = Opened(t)
      /\ thr' \in [Thread -> [Table -> {"no", "waits", "has", "aborted"}]]
      /\ \A u \in Other(t) : \A x \in Table :
           thr'[u][x] = thr[u][x] \/ (thr[u][x] = "waits" /\ thr'[u][x] = "aborted")
      /\ write_only' \subseteq Table
  <2> DEFINE C(i) == [i EXCEPT !.file = 0, !.by_flush = TRUE]
  <2>1. \A i \in TableType : /\ C(i) \in TableType /\ C(i).file = 0 /\ C(i).by_flush
                             /\ C(i).used = i.used /\ C(i).by_name = i.by_name
                             /\ C(i).version = i.version
    <3>1. ASSUME NEW i \in TableType
          PROVE  /\ C(i).file = 0 /\ C(i).by_flush
                 /\ C(i).used = i.used /\ C(i).by_name = i.by_name
                 /\ C(i).version = i.version
      BY DEF TableType
    <3>2. 0 \in 0 .. 2 /\ TRUE \in BOOLEAN  OBVIOUS
    <3>3. \A i \in TableType : C(i) \in TableType  BY <3>2 DEF TableType
    <3> HIDE DEF C
    <3>. QED  BY <3>1, <3>3
  <2>2. inst' = [inst EXCEPT ![t] = [x \in Table |->
                   IF x \in Opened(t) /\ @[x].file # 0 THEN C(@[x]) ELSE @[x]]]
    BY DEF close_cached_tables
  <2> HIDE DEF C
  <2>3. \A x \in Table : inst'[t][x] = IF x \in Opened(t) THEN C(inst[t][x]) ELSE inst[t][x]
    BY <1>1, <1>a, <2>2 DEF Data
  <2>4. \A x \in Table : inst[t][x] \in TableType  BY <1>1 DEF Data
  <2>5. \A u \in Other(t) : inst'[u] = inst[u]  BY <2>2 DEF Other
  <2>6. inst' \in [Thread -> [Table -> TableType]]
    <3>1. \A x \in Table : inst'[t][x] \in TableType  BY <2>1, <2>3, <2>4
    <3>2. inst'[t] \in [Table -> TableType]  BY <1>1, <2>2, <3>1 DEF Data
    <3>. QED  BY <1>1, <2>2, <2>5, <3>2 DEF Data, Other
  <2>7. \A x \in Opened(t) : inst[t][x].used /\ ~ inst[t][x].by_name
    BY DEF Opened
  <2>8. \A x \in Opened(t) : /\ inst'[t][x].used /\ inst'[t][x].by_flush
                             /\ ~ inst'[t][x].by_name /\ inst'[t][x].file = 0
                             /\ inst'[t][x].version = inst[t][x].version
    BY <1>a, <2>1, <2>3, <2>4, <2>7
  <2>9. \A x \in Table : x \notin Opened(t) => inst'[t][x] = inst[t][x]
    BY <2>3
  <2>10. Opened(t)' = Opened(t)
    BY <1>a, <2>8, <2>9 DEF Opened
  <2>11. {x \in Opened(t) : inst[t][x].file # 0} = Opened(t)  BY <1>a
  <2>12. AbortLocks(t, Opened(t))  BY <2>11 DEF close_cached_tables
  <2>13. \A u \in Thread : \A x \in Table : thr'[u][x] =
           IF x \in Opened(t) THEN IF u = t THEN "no"
              ELSE IF thr[u][x] = "waits" THEN "aborted" ELSE thr[u][x]
           ELSE thr[u][x]
    BY <2>12 DEF AbortLocks, Aborted
  <2>14. thr' \in [Thread -> [Table -> {"no", "waits", "has", "aborted"}]]
    BY <1>1, <2>12 DEF AbortLocks, Aborted, Data
  <2>15. write_only' \subseteq Table
    BY <1>1, <1>a, <2>12 DEF AbortLocks, StillClosed, Data
  <2>16. \A x \in Table : thr'[t][x] = "no"  BY <1>a, <2>13
  <2>17. \A u \in Other(t) : \A x \in Table :
           thr'[u][x] = thr[u][x] \/ (thr[u][x] = "waits" /\ thr'[u][x] = "aborted")
    BY <2>13 DEF Other
  <2>. QED  BY <2>5, <2>6, <2>8, <2>9, <2>10, <2>14, <2>15, <2>16, <2>17
<1>2. Data'
  <2>1. pc' \in [Thread -> Label]
    BY <1>1 DEF Data, Label, close_cached_tables, Goto
  <2>2. unused' \in [Table -> SUBSET [version : 1 .. MaxVersion, file : 1 .. 2]]
    BY DEF close_cached_tables
  <2>3. UNCHANGED <<file, want, stmt, thd>> /\ sleeping' = {}
    BY DEF close_cached_tables, Broadcast
  <2>. QED  BY <1>1, <1>a, <1>b, <2>1, <2>2, <2>3 DEF Data
<1>3. Frame(t)
  <2>1. \A u \in Other(t) : pc'[u] = pc[u]
    BY <1>1 DEF Other, Data, close_cached_tables, Goto
  <2>2. \A u \in Other(t) : LOCK_open' # u  BY <1>a DEF Other
  <2>. QED  BY <1>b, <2>1, <2>2 DEF Frame, Untouched, close_cached_tables
<1>4. Counts(t)
  BY <1>1, <1>a, <1>b DEF Counts, Protected, ToFlush, Op, close_cached_tables
<1>5. LabelRight(t)'
  BY <1>1, <1>a, <1>b DEF LabelRight, Op, Flushing, Data, close_cached_tables
<1>6. WantRight(t)'  BY <1>a DEF WantRight
<1>7. MutexRight(t)'  BY <1>1, <1>a, <1>b, Constants DEF MutexRight
<1>8. ASSUME NEW x \in Table PROVE InstRight(t, x)' /\ ThrRight(t, x)' /\ OpenRight(t, x)'
  <2>1. InstRight(t, x)'  
    <3>1. inst[t][x].version <= refresh_version /\ (inst[t][x].used \/ inst[t][x] = NoTable)
      BY <1>1 DEF InstRight
    <3>2. inst[t][x].version \in Nat
      <4>1. inst[t][x] \in TableType  BY <1>1 DEF Data
      <4>. QED  BY <4>1, Constants DEF TableType
    <3>3. inst'[t][x].version <= refresh_version'
      BY <1>1, <1>a, <1>b, <3>1, <3>2
    <3>. QED  BY <1>a, <1>b, <3>1, <3>3 DEF InstRight
  <2>2. ThrRight(t, x)'  BY <1>a, <1>b DEF ThrRight
  <2>3. OpenRight(t, x)'  
    <3>1. locked_tables' = locked_tables  BY DEF close_cached_tables
    <3>. QED  BY <1>a, <1>b, <3>1 DEF OpenRight, MayBeClosed, Holding
  <2>. QED  BY <2>1, <2>2, <2>3
<1>9. HolderStep(t)
  <2>1. ~ Commits(t)'  BY <1>a DEF Commits
  <2>. QED  BY <1>a, <2>1 DEF HolderStep
<1>. QED
  BY <1>2, <1>3, <1>4, <1>5, <1>6, <1>7, <1>8, <1>9 DEF StepRight, Right

(* FLUSH TABLES waits for older TABLEs.                                    *)
LEMMA flush_waits_right ==
  ASSUME IInv, NEW t \in Thread, flush_waits(t)
  PROVE  StepRight(t)
<1>1. /\ Data /\ Right(t) /\ LabelRight(t) /\ WantRight(t) /\ MutexRight(t)
      /\ refresh_version \in 1 .. MaxVersion /\ global_read_lock \in Nat
      /\ protect_against_global_read_lock \in Nat /\ ReadLockCounts
      /\ \A x \in Table : InstRight(t, x) /\ ThrRight(t, x) /\ OpenRight(t, x)
  BY CountersType DEF IInv, Right
<1>2. Data'
  BY <1>1, Constants DEF Data, Label, flush_waits, Goto, InFlushLoop, WaitAt,
     Enter
<1>3. Frame(t)
  BY <1>1, Constants DEF Frame, Untouched, Other, Data, flush_waits, Goto,
     InFlushLoop, WaitAt, Enter
<1>4. Counts(t)
  BY <1>1 DEF Counts, Protected, ToFlush, Op, Data, flush_waits, Goto,
     InFlushLoop, WaitAt, Enter
<1>5. LabelRight(t)'
  BY <1>1 DEF LabelRight, Op, Flushing, Data, flush_waits, Goto, InFlushLoop,
     WaitAt, Enter
<1>6. WantRight(t)'
  BY <1>1 DEF WantRight, Opened, Data, flush_waits, Goto, InFlushLoop, WaitAt,
     Enter
<1>7. MutexRight(t)'
  BY <1>1, Constants DEF MutexRight, WritesOpened, Opened, Flushing, Op, Data,
     flush_waits, Goto, InFlushLoop, WaitAt, Enter
<1>8. ASSUME NEW x \in Table PROVE InstRight(t, x)' /\ ThrRight(t, x)' /\ OpenRight(t, x)'
  <2>1. InstRight(t, x)'
    BY <1>1 DEF InstRight, Data, flush_waits, Goto, InFlushLoop, WaitAt, Enter
  <2>2. ThrRight(t, x)'
    BY <1>1 DEF ThrRight, Opened, Data, flush_waits, Goto, InFlushLoop, WaitAt,
       Enter
  <2>3. OpenRight(t, x)'
    BY <1>1 DEF OpenRight, MayBeClosed, Holding, Opened, Data, flush_waits,
       Goto, InFlushLoop, WaitAt, Enter
  <2>. QED  BY <2>1, <2>2, <2>3
<1>9. HolderStep(t)
  <2>1. Opened(t)' = Opened(t) /\ (WritesOpened(t)' <=> WritesOpened(t))
        /\ \A x \in Opened(t) : inst'[t][x].version = inst[t][x].version
    BY <1>1 DEF WritesOpened, Opened, Data, flush_waits, Goto, InFlushLoop,
       WaitAt, Enter
  <2>2. Commits(t)' => Commits(t) \/ global_read_lock = 0
    BY <1>1, <2>1 DEF Commits, Data, flush_waits, Goto, InFlushLoop, WaitAt,
       Enter
  <2>3. holds'[t] /\ ~ killed'[t] => /\ holds[t] /\ ~ killed[t]
                                     /\ pc[t] \in Loop => pc'[t] \in Loop
                                     /\ pc[t] # "flush"
    BY <1>1 DEF Data, flush_waits, Goto, InFlushLoop, WaitAt, Enter
  <2>. QED  BY <2>1, <2>2, <2>3, HolderSame
<1>. QED
  BY <1>2, <1>3, <1>4, <1>5, <1>6, <1>7, <1>8, <1>9 DEF StepRight, Right

(* No older TABLE is open, or the thread is killed: reopen_tables.         *)
LEMMA flush_reopens_right ==
  ASSUME IInv, NEW t \in Thread, flush_reopens(t)
  PROVE  StepRight(t)
<1>1. /\ Data /\ Right(t) /\ LabelRight(t) /\ WantRight(t) /\ MutexRight(t)
      /\ refresh_version \in 1 .. MaxVersion /\ global_read_lock \in Nat
      /\ protect_against_global_read_lock \in Nat /\ ReadLockCounts
      /\ \A x \in Table : InstRight(t, x) /\ ThrRight(t, x) /\ OpenRight(t, x)
  BY CountersType DEF IInv, Right
<1>a. /\ pc[t] \in Loop /\ Flushing(t) /\ (LOCK_open = t \/ LOCK_open = NoThread)
      /\ killed[t] \/ ~ OldTablesOpen
      /\ Opened(t) \subseteq Table
      /\ \A x \in Table : x \notin Opened(t) => inst[t][x] = NoTable /\ thr[t][x] = "no"
      /\ \A x \in Opened(t) : /\ locked_tables[t] /\ thr[t][x] = "no"
                              /\ inst[t][x].used /\ inst[t][x].file = 0
  <2>1. pc[t] \in Loop /\ (LOCK_open = t \/ LOCK_open = NoThread) /\ (killed[t] \/ ~ OldTablesOpen)
    BY DEF flush_reopens, InFlushLoop, Enter
  <2>2. Flushing(t) /\ Opened(t) \subseteq Table
    BY <1>1, <2>1 DEF LabelRight, Opened
  <2>3. \A x \in Table : x \notin Opened(t) => inst[t][x] = NoTable /\ thr[t][x] = "no"
    BY <1>1, <2>1 DEF InstRight, ThrRight, Opened
  <2>4. \A x \in Opened(t) : /\ locked_tables[t] /\ thr[t][x] = "no"
                              /\ inst[t][x].used /\ inst[t][x].file = 0
    BY <1>1, <2>1, <2>2 DEF OpenRight, Opened
  <2>. QED  BY <2>1, <2>2, <2>3, <2>4
<1>b. /\ inst' \in [Thread -> [Table -> TableType]] /\ \A u \in Other(t) : inst'[u] = inst[u]
      /\ \A x \in Table :
           /\ x \notin Opened(t)' => inst'[t][x] = NoTable
           /\ x \in Opened(t)' => /\ x \in Opened(t) /\ inst'[t][x].file # 0
           /\ ~ inst'[t][x].by_name /\ ~ inst'[t][x].by_flush
           /\ inst'[t][x].used \/ inst'[t][x] = NoTable
           /\ inst'[t][x].version <= refresh_version
      /\ \/ /\ Opened(t)' # {} /\ want' = [want EXCEPT ![t] = Opened(t)'] /\ LOCK_open' = t
            /\ pc' = [pc EXCEPT ![t] = "lock"] /\ sleeping' = sleeping
            /\ some_tables_deleted' = [some_tables_deleted EXCEPT ![t] = FALSE]
         \/ /\ Opened(t)' = {} /\ want' = want /\ LOCK_open' = NoThread
            /\ pc' = [pc EXCEPT ![t] = IF locked_tables[t] THEN "idle" ELSE "unlock"]
            /\ sleeping' \in {sleeping, {}} /\ some_tables_deleted' = some_tables_deleted
  <2> DEFINE lost == {x \in Opened(t) : inst[t][x].file = 0}
             back == {x \in lost : file[x] # 0}
             C(i) == [i EXCEPT !.by_flush = FALSE, !.version = IF back # {} THEN 0 ELSE refresh_version]
             new(x) == Anew(refresh_version, file[x], inst[t][x].write)
  <2>1. lost = Opened(t) /\ back = {x \in Opened(t) : file[x] # 0}  BY <1>a
  <2>2. inst' = [inst EXCEPT ![t] = [x \in Table |->
           IF x \notin Opened(t) THEN @[x]
           ELSE IF x \in lost \ back THEN NoTable
           ELSE C(Reopened(t, inst)[t][x])]]
    BY DEF flush_reopens
  <2>3. \A x \in Table : x \in back => Reopened(t, inst)[t][x] = new(x)
    BY <1>1, <1>a, <2>1 DEF Reopened, Anew, Data
  <2>4. \/ /\ back # {} /\ want' = [want EXCEPT ![t] = back] /\ LOCK_open' = t
           /\ pc' = [pc EXCEPT ![t] = "lock"] /\ sleeping' = sleeping
           /\ some_tables_deleted' = [some_tables_deleted EXCEPT ![t] = FALSE]
        \/ /\ back = {} /\ want' = want /\ LOCK_open' = NoThread
           /\ pc' = [pc EXCEPT ![t] = IF locked_tables[t] THEN "idle" ELSE "unlock"]
           /\ sleeping' \in {sleeping, {}} /\ some_tables_deleted' = some_tables_deleted
    BY DEF flush_reopens, Goto, Done, BroadcastIf
  <2>5. ASSUME NEW x \in Table, x \in back
        PROVE  /\ new(x) \in TableType /\ new(x).file = file[x] /\ file[x] # 0
               /\ new(x).used /\ ~ new(x).by_name
    <3>1. /\ refresh_version \in 0 .. MaxVersion /\ file[x] \in 0 .. 2
          /\ inst[t][x].write \in BOOLEAN
      BY <1>1, Constants DEF Data, TableType
    <3>. QED  BY <2>1, <2>5, <3>1, NewTable
  <2>6. \A i \in TableType : /\ C(i) \in TableType /\ C(i).file = i.file /\ C(i).used = i.used
                             /\ C(i).by_name = i.by_name /\ ~ C(i).by_flush
                             /\ C(i).version \in {0, refresh_version}
    <3> DEFINE v == IF back # {} THEN 0 ELSE refresh_version
    <3>1. v \in 0 .. MaxVersion /\ v \in {0, refresh_version}
      BY <1>1, Constants
    <3> HIDE DEF v
    <3>2. \A i \in TableType : [i EXCEPT !.by_flush = FALSE, !.version = v] \in TableType
      BY <3>1 DEF TableType
    <3>3. ASSUME NEW i \in TableType, NEW j, j = [i EXCEPT !.by_flush = FALSE, !.version = v]
          PROVE  /\ j.file = i.file /\ j.used = i.used
                 /\ j.by_name = i.by_name /\ ~ j.by_flush /\ j.version = v
      BY <3>3 DEF TableType
    <3>4. ASSUME NEW i \in TableType
          PROVE  /\ C(i) \in TableType /\ C(i).file = i.file /\ C(i).used = i.used
                 /\ C(i).by_name = i.by_name /\ ~ C(i).by_flush
                 /\ C(i).version \in {0, refresh_version}
      <4>1. C(i) = [i EXCEPT !.by_flush = FALSE, !.version = v]  BY DEF v
      <4> HIDE DEF C
      <4>. QED  BY <3>1, <3>2, <3>3, <4>1
    <3>. QED  BY <3>4
  <2>7. back \subseteq Opened(t) /\ back \subseteq Table  BY <1>a, <2>1
  <2> HIDE DEF lost, back, C, new
  <2>8. \A x \in Table : inst'[t][x] = IF x \in back THEN C(new(x)) ELSE NoTable
    BY <1>1, <1>a, <2>1, <2>2, <2>3, <2>7 DEF Data
  <2>9. \A u \in Other(t) : inst'[u] = inst[u]  BY <2>2 DEF Other
  <2>10. \A x \in Table : /\ inst'[t][x] \in TableType
                          /\ x \notin back => inst'[t][x] = NoTable
                          /\ x \in back => inst'[t][x].used /\ inst'[t][x].file # 0
                          /\ ~ inst'[t][x].by_name /\ ~ inst'[t][x].by_flush
                          /\ inst'[t][x].version \in {0, refresh_version}
    BY <2>5, <2>6, <2>8, NoTableSame
  <2>11. inst' \in [Thread -> [Table -> TableType]]
    <3>1. inst'[t] \in [Table -> TableType]  BY <1>1, <2>2, <2>10 DEF Data
    <3>. QED  BY <1>1, <2>2, <2>9, <3>1 DEF Data, Other
  <2>12. Opened(t)' = back  BY <2>7, <2>10, NoTableSame DEF Opened
  <2>13. \A x \in Table : inst'[t][x].version <= refresh_version
    BY <1>1, <2>10
  <2>. QED  BY <2>4, <2>7, <2>9, <2>10, <2>11, <2>12, <2>13
<1>c. \/ /\ pc'[t] = "lock" /\ LOCK_open' = t
         /\ Opened(t)' # {} /\ want'[t] = Opened(t)'
      \/ /\ LOCK_open' = NoThread /\ Opened(t)' = {}
         /\ pc'[t] = (IF locked_tables[t] THEN "idle" ELSE "unlock")
  <2>1. pc \in [Thread -> Label] /\ want \in [Thread -> SUBSET Table]
    BY <1>1 DEF Data
  <2> DEFINE O == Opened(t)'
  <2>2. \/ /\ O # {} /\ want' = [want EXCEPT ![t] = O] /\ LOCK_open' = t
           /\ pc' = [pc EXCEPT ![t] = "lock"]
        \/ /\ O = {} /\ LOCK_open' = NoThread
           /\ pc' = [pc EXCEPT ![t] = IF locked_tables[t] THEN "idle" ELSE "unlock"]
    BY <1>b
  <2> HIDE DEF O
  <2>3. \/ /\ pc'[t] = "lock" /\ LOCK_open' = t /\ O # {} /\ want'[t] = O
        \/ /\ LOCK_open' = NoThread /\ O = {}
           /\ pc'[t] = (IF locked_tables[t] THEN "idle" ELSE "unlock")
    BY <2>1, <2>2
  <2>. QED  BY <2>3 DEF O
<1>d. UNCHANGED <<file, unused, globals, thr, write_only, version, killed, locked_tables, holds, stmt>>
  BY DEF flush_reopens
<1>2. Data'
  <2>1. pc' \in [Thread -> Label]  BY <1>1, <1>b DEF Data, Label
  <2>2. Opened(t)' \subseteq Table  BY DEF Opened
  <2>3. want' \in [Thread -> SUBSET Table]
    <3> DEFINE O == Opened(t)'
    <3>1. want' = [want EXCEPT ![t] = O] \/ want' = want  BY <1>b
    <3>2. O \subseteq Table /\ want \in [Thread -> SUBSET Table]  BY <1>1, <2>2 DEF Data
    <3> HIDE DEF O
    <3>. QED  BY <3>1, <3>2
  <2>4. /\ some_tables_deleted' \in [Thread -> BOOLEAN] /\ sleeping' \subseteq Thread
        /\ LOCK_open' \in Thread \cup {NoThread}
    <3>1. /\ \/ some_tables_deleted' = [some_tables_deleted EXCEPT ![t] = FALSE]
             \/ some_tables_deleted' = some_tables_deleted
          /\ sleeping' \in {sleeping, {}} /\ LOCK_open' \in {t, NoThread}
      BY <1>b
    <3>. QED  BY <1>1, <3>1 DEF Data
  <2>. QED  BY <1>1, <1>b, <1>d, <2>1, <2>3, <2>4 DEF Data
<1>3. Frame(t)
  <2>1. \A u \in Other(t) : pc'[u] = pc[u] /\ want'[u] = want[u]
    BY <1>1, <1>b DEF Other, Data
  <2>2. \A u \in Other(t) : LOCK_open' # u  BY <1>c, Constants DEF Other
  <2>. QED  BY <1>b, <1>d, <2>1, <2>2 DEF Frame, Untouched
<1>4. Counts(t)  BY <1>1, <1>a, <1>c, <1>d DEF Counts, Protected, ToFlush
<1>5. LabelRight(t)'
  <2>1. Opened(t)' # {} => locked_tables[t]  BY <1>a, <1>b DEF Opened
  <2>. QED  BY <1>1, <1>a, <1>c, <1>d, <2>1 DEF LabelRight, Op, Flushing
<1>6. WantRight(t)'
  <2>1. Opened(t)' # {} => locked_tables[t]  BY <1>a, <1>b DEF Opened
  <2>. QED  BY <1>c, <1>d, <2>1 DEF WantRight
<1>7. MutexRight(t)'
  BY <1>a, <1>c, <1>d, Constants DEF MutexRight, Flushing, Op
<1>8. ASSUME NEW x \in Table PROVE InstRight(t, x)' /\ ThrRight(t, x)' /\ OpenRight(t, x)'
  <2>1. InstRight(t, x)'  BY <1>1, <1>b, <1>c, <1>d DEF InstRight
  <2>2. ThrRight(t, x)'  BY <1>a, <1>d DEF ThrRight
  <2>3. OpenRight(t, x)'
    BY <1>a, <1>b, <1>c, <1>d DEF OpenRight, MayBeClosed, Holding
  <2>. QED  BY <2>1, <2>2, <2>3
<1>9. HolderStep(t)
  <2>1. ~ Commits(t)'  BY <1>c DEF Commits, WritesOpened
  <2>. QED  BY <1>a, <1>d, <2>1 DEF HolderStep
<1>. QED
  BY <1>2, <1>3, <1>4, <1>5, <1>6, <1>7, <1>8, <1>9 DEF StepRight, Right

(* The tables of LOCK TABLES are locked again.                             *)
LEMMA flush_end_right ==
  ASSUME IInv, NEW t \in Thread, flush_end(t)
  PROVE  StepRight(t)
<1>1. /\ Data /\ Right(t) /\ LabelRight(t) /\ WantRight(t) /\ MutexRight(t)
      /\ refresh_version \in 1 .. MaxVersion /\ global_read_lock \in Nat
      /\ protect_against_global_read_lock \in Nat /\ ReadLockCounts
      /\ \A x \in Table : InstRight(t, x) /\ ThrRight(t, x) /\ OpenRight(t, x)
  BY CountersType DEF IInv, Right
<1>a. /\ pc[t] = "flush_end" /\ LOCK_open = t /\ LOCK_open' = NoThread
      /\ pc'[t] = (IF locked_tables[t] THEN "idle" ELSE "unlock")
      /\ Flushing(t) /\ Opened(t) \subseteq Table
      /\ inst' \in [Thread -> [Table -> TableType]] /\ \A u \in Other(t) : inst'[u] = inst[u]
      /\ \A x \in Table :
           /\ x \notin Opened(t) => inst'[t][x] = inst[t][x]
           /\ inst'[t][x].used = inst[t][x].used /\ inst'[t][x].write = inst[t][x].write
           /\ inst'[t][x].by_name = inst[t][x].by_name /\ inst'[t][x].file = inst[t][x].file
           /\ inst'[t][x].by_flush = inst[t][x].by_flush
           /\ inst'[t][x].version <= refresh_version
      /\ Opened(t)' = Opened(t)
  <2> DEFINE C(i) == [i EXCEPT !.version = refresh_version]
  <2>1. \A i \in TableType : /\ C(i) \in TableType /\ C(i).file = i.file
                             /\ C(i).used = i.used /\ C(i).by_name = i.by_name
                             /\ C(i).by_flush = i.by_flush /\ C(i).write = i.write
                             /\ C(i).version = refresh_version
    <3>1. refresh_version \in 0 .. MaxVersion  BY <1>1, Constants
    <3>. QED  BY <3>1 DEF TableType
  <2>2. inst' = [inst EXCEPT ![t] = [x \in Table |->
                   IF x \in Opened(t) THEN C(@[x]) ELSE @[x]]]
    BY DEF flush_end
  <2> HIDE DEF C
  <2>3. \A x \in Table : inst'[t][x] = IF x \in Opened(t) THEN C(inst[t][x]) ELSE inst[t][x]
    BY <1>1, <2>2 DEF Data
  <2>4. \A x \in Table : inst[t][x] \in TableType /\ inst[t][x].version <= refresh_version
    BY <1>1 DEF Data, InstRight
  <2>5. \A u \in Other(t) : inst'[u] = inst[u]  BY <2>2 DEF Other
  <2>6. inst' \in [Thread -> [Table -> TableType]]
    <3>1. \A x \in Table : inst'[t][x] \in TableType  BY <2>1, <2>3, <2>4
    <3>2. inst'[t] \in [Table -> TableType]  BY <1>1, <2>2, <3>1 DEF Data
    <3>. QED  BY <1>1, <2>2, <2>5, <3>2 DEF Data, Other
  <2>7. \A x \in Table :
           /\ x \notin Opened(t) => inst'[t][x] = inst[t][x]
           /\ inst'[t][x].used = inst[t][x].used /\ inst'[t][x].write = inst[t][x].write
           /\ inst'[t][x].by_name = inst[t][x].by_name /\ inst'[t][x].file = inst[t][x].file
           /\ inst'[t][x].by_flush = inst[t][x].by_flush
           /\ inst'[t][x].version <= refresh_version
    BY <1>1, <2>1, <2>3, <2>4
  <2>8. Opened(t)' = Opened(t) /\ Opened(t) \subseteq Table  BY <2>7 DEF Opened
  <2>9. /\ pc[t] = "flush_end" /\ LOCK_open = t /\ LOCK_open' = NoThread /\ Flushing(t)
        /\ pc'[t] = (IF locked_tables[t] THEN "idle" ELSE "unlock")
    BY <1>1 DEF flush_end, Goto, Done, Data, LabelRight
  <2>. QED  BY <2>5, <2>6, <2>7, <2>8, <2>9
<1>2. Data'
  <2>1. pc' \in [Thread -> Label]
    BY <1>1 DEF Data, Label, flush_end, Goto, Done
  <2>. QED  BY <1>1, <1>a, <2>1 DEF Data, flush_end, Broadcast
<1>3. Frame(t)
  BY <1>1, <1>a, Constants DEF Frame, Untouched, Other, Data, flush_end, Goto,
     Done
<1>4. Counts(t)  BY <1>1, <1>a DEF Counts, Protected, ToFlush, Op, flush_end
<1>5. LabelRight(t)'  BY <1>1, <1>a DEF LabelRight, Op, Flushing, flush_end
<1>6. WantRight(t)'  BY <1>a DEF WantRight
<1>7. MutexRight(t)'  BY <1>a, Constants DEF MutexRight
<1>8. ASSUME NEW x \in Table PROVE InstRight(t, x)' /\ ThrRight(t, x)' /\ OpenRight(t, x)'
  <2>1. InstRight(t, x)'  BY <1>1, <1>a DEF InstRight, Opened, flush_end
  <2>2. ThrRight(t, x)'  BY <1>1, <1>a DEF ThrRight, flush_end
  <2>3. OpenRight(t, x)'  
    <3>1. OpenRight(t, x)  BY <1>1
    <3>2. x \in Opened(t) => locked_tables[t] /\ inst[t][x].file # 0 /\ (~ killed[t] => thr[t][x] = "has")
      BY <1>a, <3>1 DEF OpenRight, MayBeClosed, Holding
    <3>. QED  BY <1>a, <3>2 DEF OpenRight, MayBeClosed, Holding, flush_end
  <2>. QED  BY <2>1, <2>2, <2>3
<1>9. HolderStep(t)
  <2>1. WritesOpened(t)' <=> WritesOpened(t)  BY <1>a DEF WritesOpened
  <2>2. Commits(t)' => global_read_lock = 0
    BY <1>1, <1>a, <2>1 DEF Commits, MutexRight
  <2>. QED  BY <1>a, <2>2 DEF HolderStep, flush_end
<1>. QED
  BY <1>2, <1>3, <1>4, <1>5, <1>6, <1>7, <1>8, <1>9 DEF StepRight, Right

(* DROP TABLE is refused to the holder of the global read lock.            *)
LEMMA drop_refused_right ==
  ASSUME IInv, NEW t \in Thread, drop_refused(t)
  PROVE  StepRight(t)
<1>1. /\ Data /\ Right(t) /\ LabelRight(t) /\ WantRight(t) /\ MutexRight(t)
      /\ refresh_version \in 1 .. MaxVersion /\ global_read_lock \in Nat
      /\ protect_against_global_read_lock \in Nat /\ ReadLockCounts
      /\ \A x \in Table : InstRight(t, x) /\ ThrRight(t, x) /\ OpenRight(t, x)
  BY CountersType DEF IInv, Right
<1>2. Data'
  BY <1>1, Constants DEF Data, Label, drop_refused, Goto, Leave, Done,
     Broadcast, Enter, InDrop
<1>3. Frame(t)
  BY <1>1, Constants DEF Frame, Untouched, Other, Data, drop_refused, Goto,
     Leave, Done, Broadcast, Enter, InDrop
<1>4. Counts(t)
  BY <1>1 DEF Counts, Protected, ToFlush, Op, Data, drop_refused, Goto, Leave,
     Done, Broadcast, Enter, InDrop
<1>5. LabelRight(t)'
  BY <1>1 DEF LabelRight, Op, Flushing, Data, drop_refused, Goto, Leave, Done,
     Broadcast, Enter, InDrop
<1>6. WantRight(t)'
  BY <1>1 DEF WantRight, Opened, Data, drop_refused, Goto, Leave, Done,
     Broadcast, Enter, InDrop
<1>7. MutexRight(t)'
  BY <1>1, Constants DEF MutexRight, WritesOpened, Opened, Flushing, Op, Data,
     drop_refused, Goto, Leave, Done, Broadcast, Enter, InDrop
<1>8. ASSUME NEW x \in Table PROVE InstRight(t, x)' /\ ThrRight(t, x)' /\ OpenRight(t, x)'
  <2>1. InstRight(t, x)'
    BY <1>1 DEF InstRight, Data, drop_refused, Goto, Leave, Done, Broadcast,
       Enter, InDrop
  <2>2. ThrRight(t, x)'
    BY <1>1 DEF ThrRight, Opened, Data, drop_refused, Goto, Leave, Done,
       Broadcast, Enter, InDrop
  <2>3. OpenRight(t, x)'
    BY <1>1 DEF OpenRight, MayBeClosed, Holding, Opened, Data, drop_refused,
       Goto, Leave, Done, Broadcast, Enter, InDrop
  <2>. QED  BY <2>1, <2>2, <2>3
<1>9. HolderStep(t)
  <2>1. Opened(t)' = Opened(t) /\ (WritesOpened(t)' <=> WritesOpened(t))
        /\ \A x \in Opened(t) : inst'[t][x].version = inst[t][x].version
    BY <1>1 DEF WritesOpened, Opened, Data, drop_refused, Goto, Leave, Done,
       Broadcast, Enter, InDrop
  <2>2. Commits(t)' => Commits(t) \/ global_read_lock = 0
    BY <1>1, <2>1 DEF Commits, Data, drop_refused, Goto, Leave, Done,
       Broadcast, Enter, InDrop
  <2>3. holds'[t] /\ ~ killed'[t] => /\ holds[t] /\ ~ killed[t]
                                     /\ pc[t] \in Loop => pc'[t] \in Loop
                                     /\ pc[t] # "flush"
    BY <1>1 DEF Data, drop_refused, Goto, Leave, Done, Broadcast, Enter, InDrop
  <2>. QED  BY <2>1, <2>2, <2>3, HolderSame
<1>. QED
  BY <1>2, <1>3, <1>4, <1>5, <1>6, <1>7, <1>8, <1>9 DEF StepRight, Right

(* DROP TABLE waits for the global read lock.                              *)
LEMMA drop_waits_right ==
  ASSUME IInv, NEW t \in Thread, drop_waits(t)
  PROVE  StepRight(t)
<1>1. /\ Data /\ Right(t) /\ LabelRight(t) /\ WantRight(t) /\ MutexRight(t)
      /\ refresh_version \in 1 .. MaxVersion /\ global_read_lock \in Nat
      /\ protect_against_global_read_lock \in Nat /\ ReadLockCounts
      /\ \A x \in Table : InstRight(t, x) /\ ThrRight(t, x) /\ OpenRight(t, x)
  BY CountersType DEF IInv, Right
<1>2. Data'
  BY <1>1, Constants DEF Data, Label, drop_waits, Goto, WaitAt, Enter, InDrop
<1>3. Frame(t)
  BY <1>1, Constants DEF Frame, Untouched, Other, Data, drop_waits, Goto,
     WaitAt, Enter, InDrop
<1>4. Counts(t)
  BY <1>1 DEF Counts, Protected, ToFlush, Op, Data, drop_waits, Goto, WaitAt,
     Enter, InDrop
<1>5. LabelRight(t)'
  BY <1>1 DEF LabelRight, Op, Flushing, Data, drop_waits, Goto, WaitAt, Enter,
     InDrop
<1>6. WantRight(t)'
  BY <1>1 DEF WantRight, Opened, Data, drop_waits, Goto, WaitAt, Enter, InDrop
<1>7. MutexRight(t)'
  BY <1>1, Constants DEF MutexRight, WritesOpened, Opened, Flushing, Op, Data,
     drop_waits, Goto, WaitAt, Enter, InDrop
<1>8. ASSUME NEW x \in Table PROVE InstRight(t, x)' /\ ThrRight(t, x)' /\ OpenRight(t, x)'
  <2>1. InstRight(t, x)'
    BY <1>1 DEF InstRight, Data, drop_waits, Goto, WaitAt, Enter, InDrop
  <2>2. ThrRight(t, x)'
    BY <1>1 DEF ThrRight, Opened, Data, drop_waits, Goto, WaitAt, Enter, InDrop
  <2>3. OpenRight(t, x)'
    BY <1>1 DEF OpenRight, MayBeClosed, Holding, Opened, Data, drop_waits,
       Goto, WaitAt, Enter, InDrop
  <2>. QED  BY <2>1, <2>2, <2>3
<1>9. HolderStep(t)
  <2>1. Opened(t)' = Opened(t) /\ (WritesOpened(t)' <=> WritesOpened(t))
        /\ \A x \in Opened(t) : inst'[t][x].version = inst[t][x].version
    BY <1>1 DEF WritesOpened, Opened, Data, drop_waits, Goto, WaitAt, Enter,
       InDrop
  <2>2. Commits(t)' => Commits(t) \/ global_read_lock = 0
    BY <1>1, <2>1 DEF Commits, Data, drop_waits, Goto, WaitAt, Enter, InDrop
  <2>3. holds'[t] /\ ~ killed'[t] => /\ holds[t] /\ ~ killed[t]
                                     /\ pc[t] \in Loop => pc'[t] \in Loop
                                     /\ pc[t] # "flush"
    BY <1>1 DEF Data, drop_waits, Goto, WaitAt, Enter, InDrop
  <2>. QED  BY <2>1, <2>2, <2>3, HolderSame
<1>. QED
  BY <1>2, <1>3, <1>4, <1>5, <1>6, <1>7, <1>8, <1>9 DEF StepRight, Right

(* DROP TABLE waits for the users of the table.                            *)
LEMMA drop_waits_for_users_right ==
  ASSUME IInv, NEW t \in Thread, drop_waits_for_users(t)
  PROVE  StepRight(t)
<1>1. /\ Data /\ Right(t) /\ LabelRight(t) /\ WantRight(t) /\ MutexRight(t)
      /\ refresh_version \in 1 .. MaxVersion /\ global_read_lock \in Nat
      /\ protect_against_global_read_lock \in Nat /\ ReadLockCounts
      /\ \A x \in Table : InstRight(t, x) /\ ThrRight(t, x) /\ OpenRight(t, x)
  BY CountersType DEF IInv, Right
<1>a. /\ pc[t] \in DropPc \ {"drop_killed"} /\ pc'[t] = "drop_wait"
      /\ LOCK_open = NoThread /\ LOCK_open' = t
      /\ Op(t) = "drop" /\ Opened(t) \subseteq Table
  BY <1>1 DEF drop_waits_for_users, InDropLoop, PastReadLock, InDrop, Enter,
     WaitAt, Goto,
              LabelRight, Data, Opened
<1>b. /\ inst' \in [Thread -> [Table -> TableType]]
      /\ unused' \in [Table -> SUBSET [version : 1 .. MaxVersion, file : 1 .. 2]]
      /\ some_tables_deleted' \in [Thread -> BOOLEAN]
      /\ \A x \in Table : unused'[x] \subseteq unused[x]
      /\ \A u \in Other(t) : \A x \in Table :
           inst'[u][x] = inst[u][x] \/ inst'[u][x] = Old(inst[u][x])
      /\ \A x \in Table : 
           /\ inst'[t][x].used = inst[t][x].used /\ inst'[t][x].write = inst[t][x].write
           /\ inst'[t][x].by_name = inst[t][x].by_name /\ inst'[t][x].file = inst[t][x].file
           /\ inst'[t][x].by_flush = inst[t][x].by_flush
           /\ inst'[t][x].version <= inst[t][x].version
           /\ inst'[t][x].version \in Nat /\ inst[t][x].version \in Nat
           /\ inst[t][x] = NoTable => inst'[t][x] = NoTable
      /\ Opened(t)' = Opened(t)
  <2>1. remove_table_from_cache(t, inst, {Dropped(t)})
    BY DEF drop_waits_for_users
  <2>2. /\ inst' \in [Thread -> [Table -> TableType]]
        /\ unused' \in [Table -> SUBSET [version : 1 .. MaxVersion, file : 1 .. 2]]
        /\ some_tables_deleted' \in [Thread -> BOOLEAN]
        /\ \A x \in Table : unused'[x] \subseteq unused[x]
        /\ \A u \in Other(t) : \A x \in Table :
             inst'[u][x] = inst[u][x] \/ inst'[u][x] = Old(inst[u][x])
        /\ \A x \in Table : inst'[t][x] = inst[t][x] \/ inst'[t][x] = Old(inst[t][x])
    <3>1. inst \in [Thread -> [Table -> TableType]] /\ \A u \in Other(t) : inst[u] = inst[u]
      BY <1>1 DEF Data
    <3>. QED  BY <1>1, <2>1, <3>1, RemoveKeeps
  <2>3. ASSUME NEW x \in Table
        PROVE  /\ inst'[t][x].used = inst[t][x].used /\ inst'[t][x].write = inst[t][x].write
               /\ inst'[t][x].by_name = inst[t][x].by_name /\ inst'[t][x].file = inst[t][x].file
               /\ inst'[t][x].by_flush = inst[t][x].by_flush
               /\ inst'[t][x].version <= inst[t][x].version
               /\ inst'[t][x].version \in Nat /\ inst[t][x].version \in Nat
               /\ inst[t][x] = NoTable => inst'[t][x] = NoTable
    <3>1. inst[t][x] \in TableType  BY <1>1 DEF Data
    <3>2. inst[t][x].version \in Nat  BY <3>1, Constants DEF TableType
    <3>3. CASE inst'[t][x] = inst[t][x]  BY <3>2, <3>3
    <3>4. CASE inst'[t][x] = Old(inst[t][x])  BY <3>1, <3>2, <3>4, OldSame
    <3>. QED  BY <2>2, <3>3, <3>4
  <2>4. Opened(t)' = Opened(t)  BY <2>3 DEF Opened
  <2>. QED  BY <2>2, <2>3, <2>4
<1>c. /\ thr' \in [Thread -> [Table -> {"no", "waits", "has", "aborted"}]]
      /\ \A u \in Thread : \A x \in Table :
           thr'[u][x] = thr[u][x] \/ (thr[u][x] = "waits" /\ thr'[u][x] = "aborted")
      /\ \A x \in Table : thr'[t][x] = thr[t][x] /\ thr[t][x] \in {"no", "has"}
      /\ write_only' \subseteq Table
  <2>1. thr' = AbortOnce(t) /\ write_only' = ClosedOnce(t)
    BY DEF drop_waits_for_users
  <2>2. \A u \in Thread : \A x \in Table :
           thr'[u][x] = thr[u][x] \/ (thr[u][x] = "waits" /\ thr'[u][x] = "aborted")
    BY <2>1 DEF AbortOnce
  <2>3. thr' \in [Thread -> [Table -> {"no", "waits", "has", "aborted"}]]
    BY <1>1, <2>1 DEF AbortOnce, Data
  <2>4. \A x \in Table : thr[t][x] \in {"no", "has"}
    <3>1. \A x \in Table : thr[t][x] \in {"no", "waits", "has", "aborted"}
      BY <1>1 DEF Data
    <3>. QED  BY <1>1, <1>a, <3>1 DEF ThrRight
  <2>5. write_only' \subseteq Table  BY <1>1, <1>a, <2>1 DEF ClosedOnce, Data
  <2>. QED  BY <2>2, <2>3, <2>4, <2>5
<1>d. UNCHANGED <<file, globals, want, version, killed, locked_tables, holds, sleeping, stmt>>
      /\ pc' = [pc EXCEPT ![t] = "drop_wait"]
  BY DEF drop_waits_for_users, WaitAt, Goto
<1>2. Data'
  <2>1. pc' \in [Thread -> Label]  BY <1>1, <1>d DEF Data, Label
  <2>. QED  BY <1>1, <1>a, <1>b, <1>c, <1>d, <2>1 DEF Data
<1>3. Frame(t)
  <2>1. \A u \in Other(t) : pc'[u] = pc[u] /\ LOCK_open' # u
    BY <1>1, <1>a, <1>d DEF Other, Data
  <2>2. ASSUME NEW u \in Other(t) PROVE Untouched(u)
    <3>1. u \in Thread  BY DEF Other
    <3>2. \A x \in Table :
            /\ inst'[u][x] = inst[u][x] \/ inst'[u][x] = Old(inst[u][x])
            /\ thr'[u][x] = thr[u][x] \/ (thr[u][x] = "waits" /\ thr'[u][x] = "aborted")
      BY <1>b, <1>c, <3>1
    <3>. QED  BY <1>d, <2>1, <3>2 DEF Untouched
  <2>. QED  BY <2>2 DEF Frame
<1>4. Counts(t)  BY <1>1, <1>a, <1>b, <1>d DEF Counts, Protected, ToFlush
<1>5. LabelRight(t)'  BY <1>1, <1>a, <1>d DEF LabelRight, Op, Flushing
<1>6. WantRight(t)'  BY <1>a DEF WantRight
<1>7. MutexRight(t)'  BY <1>a DEF MutexRight
<1>8. ASSUME NEW x \in Table PROVE InstRight(t, x)' /\ ThrRight(t, x)' /\ OpenRight(t, x)'
  <2>1. InstRight(t, x)'  BY <1>1, <1>a, <1>b, <1>d DEF InstRight
  <2>2. ThrRight(t, x)'
    <3>1. pc'[t] = "drop_wait"  BY <1>1, <1>d DEF Data
    <3>2. ThrRight(t, x) /\ thr'[t][x] = thr[t][x] /\ thr'[t][x] \in {"no", "has"}
      BY <1>1, <1>c
    <3>. QED  BY <1>b, <3>1, <3>2 DEF ThrRight
  <2>3. OpenRight(t, x)'
    BY <1>1, <1>a, <1>b, <1>c, <1>d DEF OpenRight, MayBeClosed, Holding
  <2>. QED  BY <2>1, <2>2, <2>3
<1>9. HolderStep(t)
  <2>1. WritesOpened(t)' <=> WritesOpened(t)  BY <1>a, <1>b DEF WritesOpened
  <2>2. Commits(t)' => Commits(t)  BY <1>a, <1>d, <2>1 DEF Commits
  <2>. QED  BY <1>a, <1>b, <1>d, <2>2 DEF HolderStep
<1>. QED
  BY <1>2, <1>3, <1>4, <1>5, <1>6, <1>7, <1>8, <1>9 DEF StepRight, Right

(* DROP TABLE gives up its own TABLE and deletes the files.                *)
LEMMA drop_files_right ==
  ASSUME IInv, NEW t \in Thread, drop_files(t)
  PROVE  StepRight(t)
<1>1. /\ Data /\ Right(t) /\ LabelRight(t) /\ WantRight(t) /\ MutexRight(t)
      /\ refresh_version \in 1 .. MaxVersion /\ global_read_lock \in Nat
      /\ protect_against_global_read_lock \in Nat /\ ReadLockCounts
      /\ \A x \in Table : InstRight(t, x) /\ ThrRight(t, x) /\ OpenRight(t, x)
  BY CountersType DEF IInv, Right
<1> DEFINE d == Dropped(t)
<1>a. /\ pc[t] \in DropPc \ {"drop_killed"} /\ LOCK_open = NoThread /\ LOCK_open' = LOCK_open
      /\ Op(t) = "drop" /\ Opened(t) \subseteq Table /\ d \in Table
      /\ \A x \in Table : x \notin Opened(t) => inst[t][x] = NoTable /\ thr[t][x] = "no"
      /\ \A x \in Opened(t) : locked_tables[t]
  <2>1. pc[t] \in DropPc \ {"drop_killed"} /\ LOCK_open = NoThread /\ LOCK_open' = LOCK_open
    BY DEF drop_files, InDropLoop, PastReadLock, InDrop, Enter, Leave
  <2>2. Op(t) = "drop" /\ WellFormed(stmt[t])  BY <1>1, <2>1 DEF LabelRight
  <2>3. d \in Table  BY <2>2 DEF WellFormed, Op, Dropped
  <2>4. \A x \in Table : x \notin Opened(t) => inst[t][x] = NoTable /\ thr[t][x] = "no"
    BY <1>1, <2>1 DEF InstRight, ThrRight, Opened
  <2>5. Opened(t) \subseteq Table  BY DEF Opened
  <2>6. \A x \in Opened(t) : locked_tables[t]
    BY <1>1, <2>1, <2>5 DEF OpenRight
  <2>. QED  BY <2>1, <2>2, <2>3, <2>4, <2>5, <2>6
<1>b. /\ inst' \in [Thread -> [Table -> TableType]]
      /\ unused' \in [Table -> SUBSET [version : 1 .. MaxVersion, file : 1 .. 2]]
      /\ some_tables_deleted' \in [Thread -> BOOLEAN]
      /\ \A x \in Table : unused'[x] \subseteq unused[x]
      /\ \A u \in Other(t) : \A x \in Table :
           inst'[u][x] = inst[u][x] \/ inst'[u][x] = Old(inst[u][x])
      /\ \A x \in Table : inst'[t][x] = IF x = d THEN NoTable ELSE inst[t][x]
      /\ Opened(t)' = Opened(t) \ {d}
  <2> DEFINE i == [inst EXCEPT ![t][d] = IF d \in Opened(t) THEN NoTable ELSE @]
  <2>1. remove_table_from_cache(t, i, {d})  BY DEF drop_files
  <2>2. i[t][d] = NoTable /\ \A x \in Table \ {d} : i[t][x] = inst[t][x]
    BY <1>1, <1>a DEF Data
  <2>3. \A u \in Other(t) : i[u] = inst[u]  BY DEF Other
  <2>4. i \in [Thread -> [Table -> TableType]]
    BY <1>1, <1>a, NoTableSame DEF Data
  <2> HIDE DEF i, d
  <2>5. /\ inst' \in [Thread -> [Table -> TableType]]
        /\ unused' \in [Table -> SUBSET [version : 1 .. MaxVersion, file : 1 .. 2]]
        /\ some_tables_deleted' \in [Thread -> BOOLEAN]
        /\ \A x \in Table : unused'[x] \subseteq unused[x]
        /\ \A u \in Other(t) : \A x \in Table :
             inst'[u][x] = inst[u][x] \/ inst'[u][x] = Old(inst[u][x])
        /\ \A x \in Table : inst'[t][x] = IF x \in {d} THEN Old(i[t][x]) ELSE i[t][x]
    BY <1>1, <2>1, <2>3, <2>4, RemoveKeeps
  <2>6. Old(NoTable) = NoTable  BY NoTableSame DEF Old
  <2>7. \A x \in Table : inst'[t][x] = IF x = d THEN NoTable ELSE inst[t][x]
    BY <2>2, <2>5, <2>6
  <2>8. Opened(t)' = Opened(t) \ {d}  BY <2>7, NoTableSame DEF Opened
  <2>. QED  BY <2>5, <2>7, <2>8
<1>c. /\ thr' \in [Thread -> [Table -> {"no", "waits", "has", "aborted"}]]
      /\ \A u \in Other(t) : \A x \in Table :
           thr'[u][x] = thr[u][x] \/ (thr[u][x] = "waits" /\ thr'[u][x] = "aborted")
      /\ \A x \in Table : thr'[t][x] = IF x = d THEN "no" ELSE thr[t][x]
      /\ \A x \in Table : thr[t][x] \in {"no", "has"}
      /\ write_only' \subseteq Table
  <2>1. /\ thr' = [AbortOnce(t) EXCEPT ![t][d] = IF d \in Opened(t) THEN "no" ELSE @]
        /\ write_only' \subseteq write_only
    BY DEF drop_files
  <2>2. \A x \in Table : thr[t][x] \in {"no", "has"}
    <3>1. \A x \in Table : thr[t][x] \in {"no", "waits", "has", "aborted"}
      BY <1>1 DEF Data
    <3>. QED  BY <1>1, <1>a, <3>1 DEF ThrRight
  <2> DEFINE a == AbortOnce(t)
  <2>3. /\ a \in [Thread -> [Table -> {"no", "waits", "has", "aborted"}]]
        /\ \A u \in Thread : \A x \in Table :
             a[u][x] = thr[u][x] \/ (thr[u][x] = "waits" /\ a[u][x] = "aborted")
    <3>1. \A u \in Thread : \A x \in Table :
             a[u][x] = thr[u][x] \/ (thr[u][x] = "waits" /\ a[u][x] = "aborted")
      BY DEF AbortOnce
    <3>2. a \in [Thread -> [Table -> {"no", "waits", "has", "aborted"}]]
      BY <1>1 DEF AbortOnce, Data
    <3>. QED  BY <3>1, <3>2
  <2>4. \A x \in Table : a[t][x] = thr[t][x]  BY <2>2, <2>3
  <2> HIDE DEF a, d
  <2>5. /\ thr' \in [Thread -> [Table -> {"no", "waits", "has", "aborted"}]]
        /\ \A u \in Other(t) : thr'[u] = a[u]
        /\ \A x \in Table : thr'[t][x] = IF x = d /\ d \in Opened(t) THEN "no" ELSE a[t][x]
    BY <2>1, <2>3, <1>a DEF a, Other
  <2>6. \A x \in Table : thr'[t][x] = IF x = d THEN "no" ELSE thr[t][x]
    BY <1>a, <2>4, <2>5
  <2>7. \A u \in Other(t) : u \in Thread  BY DEF Other
  <2>. QED  BY <1>1, <2>1, <2>2, <2>3, <2>5, <2>6, <2>7 DEF Data
<1>d. /\ locked_tables' = [locked_tables EXCEPT ![t] = @ /\ Opened(t) \ {d} # {}]
      /\ \/ killed[t] /\ pc' = [pc EXCEPT ![t] = "drop_killed"] /\ file' = file
         \/ /\ ~ killed[t] /\ file' = [file EXCEPT ![d] = 0]
            /\ pc' = [pc EXCEPT ![t] = IF locked_tables'[t] THEN "idle" ELSE "unlock"]
      /\ UNCHANGED <<globals, want, version, killed, holds, stmt>> /\ sleeping' = {}
  BY DEF drop_files, Goto, Broadcast
<1> HIDE DEF d
<1>e. /\ locked_tables'[t] = (locked_tables[t] /\ Opened(t)' # {})
      /\ \/ killed[t] /\ pc'[t] = "drop_killed"
         \/ ~ killed[t] /\ pc'[t] = (IF locked_tables'[t] THEN "idle" ELSE "unlock")
      /\ \A u \in Other(t) : pc'[u] = pc[u] /\ locked_tables'[u] = locked_tables[u]
  BY <1>1, <1>b, <1>d DEF Data, Other
<1>2. Data'
  <2>1. pc' \in [Thread -> Label]  BY <1>1, <1>d DEF Data, Label
  <2>2. locked_tables' \in [Thread -> BOOLEAN]  BY <1>1, <1>d DEF Data
  <2>3. file' \in [Table -> 0 .. 2]
    <3>1. file \in [Table -> 0 .. 2] /\ 0 \in 0 .. 2  BY <1>1 DEF Data
    <3>2. file' = file \/ file' = [file EXCEPT ![d] = 0]  BY <1>d
    <3>. QED  BY <3>1, <3>2
  <2>. QED  BY <1>1, <1>a, <1>b, <1>c, <1>d, <2>1, <2>2, <2>3 DEF Data
<1>3. Frame(t)
  <2>1. \A u \in Other(t) : LOCK_open' # u  BY <1>a, Constants DEF Other
  <2>. QED  BY <1>b, <1>c, <1>d, <1>e, <2>1 DEF Frame, Untouched
<1>4. Counts(t)
  BY <1>1, <1>a, <1>b, <1>d, <1>e DEF Counts, Protected, ToFlush
<1>5. LabelRight(t)'  BY <1>1, <1>a, <1>d, <1>e DEF LabelRight, Op, Flushing
<1>6. WantRight(t)'  BY <1>a, <1>e DEF WantRight
<1>7. MutexRight(t)'  BY <1>a, Constants DEF MutexRight
<1>8. ASSUME NEW x \in Table PROVE InstRight(t, x)' /\ ThrRight(t, x)' /\ OpenRight(t, x)'
  <2>1. InstRight(t, x)'
    BY <1>1, <1>a, <1>b, <1>d, <1>e, NoTableSame DEF InstRight
  <2>2. ThrRight(t, x)'  BY <1>1, <1>a, <1>b, <1>c, <1>d, <1>e DEF ThrRight
  <2>3. OpenRight(t, x)'  
    <3>1. x \in Opened(t)' => x \in Opened(t) /\ x # d /\ locked_tables'[t] = locked_tables[t]
      BY <1>a, <1>b, <1>e
    <3>. QED
      BY <1>1, <1>a, <1>b, <1>c, <1>d, <1>e, <3>1 DEF OpenRight, MayBeClosed,
         Holding
  <2>. QED  BY <2>1, <2>2, <2>3
<1>9. HolderStep(t)
  <2>1. WritesOpened(t)' => WritesOpened(t)  BY <1>a, <1>b DEF WritesOpened
  <2>2. Commits(t)' => Commits(t)  BY <1>a, <1>d, <1>e, <2>1 DEF Commits
  <2>3. \A x \in Table : inst[t][x].version \in Nat
    <3>1. \A x \in Table : inst[t][x] \in TableType  BY <1>1 DEF Data
    <3>. QED  BY <3>1, Constants DEF TableType
  <2>4. \A x \in Table : x \in Opened(t)' =>
           x \in Opened(t) /\ inst'[t][x].version <= inst[t][x].version
    BY <1>b, <2>3
  <2>. QED  BY <1>a, <1>d, <2>2, <2>4 DEF HolderStep
<1>. QED
  BY <1>2, <1>3, <1>4, <1>5, <1>6, <1>7, <1>8, <1>9 DEF StepRight, Right

(* A killed DROP TABLE unlocks LOCK_open twice.                            *)
LEMMA drop_unlocks_again_right ==
  ASSUME IInv, NEW t \in Thread, drop_unlocks_again(t)
  PROVE  StepRight(t)
<1>1. /\ Data /\ Right(t) /\ LabelRight(t) /\ WantRight(t) /\ MutexRight(t)
      /\ refresh_version \in 1 .. MaxVersion /\ global_read_lock \in Nat
      /\ protect_against_global_read_lock \in Nat /\ ReadLockCounts
      /\ \A x \in Table : InstRight(t, x) /\ ThrRight(t, x) /\ OpenRight(t, x)
  BY CountersType DEF IInv, Right
<1>2. Data'
  BY <1>1, Constants DEF Data, Label, drop_unlocks_again, Goto, Broadcast, Done
<1>3. Frame(t)
  BY <1>1, Constants DEF Frame, Untouched, Other, Data, drop_unlocks_again,
     Goto, Broadcast, Done
<1>4. Counts(t)
  BY <1>1 DEF Counts, Protected, ToFlush, Op, Data, drop_unlocks_again, Goto,
     Broadcast, Done
<1>5. LabelRight(t)'
  BY <1>1 DEF LabelRight, Op, Flushing, Data, drop_unlocks_again, Goto,
     Broadcast, Done
<1>6. WantRight(t)'
  BY <1>1 DEF WantRight, Opened, Data, drop_unlocks_again, Goto, Broadcast,
     Done
<1>7. MutexRight(t)'
  BY <1>1, Constants DEF MutexRight, WritesOpened, Opened, Flushing, Op, Data,
     drop_unlocks_again, Goto, Broadcast, Done
<1>8. ASSUME NEW x \in Table PROVE InstRight(t, x)' /\ ThrRight(t, x)' /\ OpenRight(t, x)'
  <2>1. InstRight(t, x)'
    BY <1>1 DEF InstRight, Data, drop_unlocks_again, Goto, Broadcast, Done
  <2>2. ThrRight(t, x)'
    BY <1>1 DEF ThrRight, Opened, Data, drop_unlocks_again, Goto, Broadcast,
       Done
  <2>3. OpenRight(t, x)'
    BY <1>1 DEF OpenRight, MayBeClosed, Holding, Opened, Data,
       drop_unlocks_again, Goto, Broadcast, Done
  <2>. QED  BY <2>1, <2>2, <2>3
<1>9. HolderStep(t)
  <2>1. Opened(t)' = Opened(t) /\ (WritesOpened(t)' <=> WritesOpened(t))
        /\ \A x \in Opened(t) : inst'[t][x].version = inst[t][x].version
    BY <1>1 DEF WritesOpened, Opened, Data, drop_unlocks_again, Goto,
       Broadcast, Done
  <2>2. Commits(t)' => Commits(t) \/ global_read_lock = 0
    BY <1>1, <2>1 DEF Commits, Data, drop_unlocks_again, Goto, Broadcast, Done
  <2>3. holds'[t] /\ ~ killed'[t] => /\ holds[t] /\ ~ killed[t]
                                     /\ pc[t] \in Loop => pc'[t] \in Loop
                                     /\ pc[t] # "flush"
    BY <1>1 DEF Data, drop_unlocks_again, Goto, Broadcast, Done
  <2>. QED  BY <2>1, <2>2, <2>3, HolderSame
<1>. QED
  BY <1>2, <1>3, <1>4, <1>5, <1>6, <1>7, <1>8, <1>9 DEF StepRight, Right

(* A name lock whose table is in use waits for its users.                  *)
LEMMA lock_names_wait_right ==
  ASSUME IInv, NEW t \in Thread, lock_names_wait(t)
  PROVE  StepRight(t)
<1>1. /\ Data /\ Right(t) /\ LabelRight(t) /\ WantRight(t) /\ MutexRight(t)
      /\ refresh_version \in 1 .. MaxVersion /\ global_read_lock \in Nat
      /\ protect_against_global_read_lock \in Nat /\ ReadLockCounts
      /\ \A x \in Table : InstRight(t, x) /\ ThrRight(t, x) /\ OpenRight(t, x)
  BY CountersType DEF IInv, Right
<1>a. /\ pc[t] \in {"name_lock"} /\ Op(t) \in {"truncate", "rename"} /\ ~ locked_tables[t]
      /\ WellFormed(stmt[t]) /\ stmt[t].tabs \subseteq Table
      /\ Opened(t) = {} /\ \A x \in Table : thr[t][x] = "no"
      /\ \A x \in Table : ~ inst[t][x].by_flush /\ (inst[t][x].used => inst[t][x].by_name)
  <2>1. pc[t] \in {"name_lock"}  BY DEF lock_names_wait
  <2>2. Op(t) \in {"truncate", "rename"} /\ ~ locked_tables[t] /\ WellFormed(stmt[t])
    BY <1>1, <2>1 DEF LabelRight
  <2>3. Opened(t) = {} /\ \A x \in Table : thr[t][x] = "no"
    BY <1>1, <2>1, <2>2, NothingOpen
  <2>4. \A x \in Table : ~ inst[t][x].by_flush  BY <1>1, <2>1 DEF InstRight
  <2>5. \A x \in Table : inst[t][x].used => inst[t][x].by_name
    BY <2>3 DEF Opened
  <2>. QED  BY <2>1, <2>2, <2>3, <2>4, <2>5 DEF WellFormed, StatementType
<1>b. /\ inst' \in [Thread -> [Table -> TableType]]
      /\ unused' \in [Table -> SUBSET [version : 1 .. MaxVersion, file : 1 .. 2]]
      /\ some_tables_deleted' \in [Thread -> BOOLEAN]
      /\ \A x \in Table : unused'[x] \subseteq unused[x]
      /\ \A u \in Other(t) : \A x \in Table :
           inst'[u][x] = inst[u][x] \/ inst'[u][x] = Old(inst[u][x])
      /\ \A x \in Table : inst'[t][x] = IF x \in stmt[t].tabs THEN NameLock ELSE inst[t][x]
      /\ Opened(t)' = {}
  <2>1. remove_table_from_cache(t, NameLocked(t), stmt[t].tabs)
    BY DEF lock_names_wait
  <2> DEFINE i == NameLocked(t)
  <2>2. /\ \A x \in Table : i[t][x] = IF x \in stmt[t].tabs THEN NameLock ELSE inst[t][x]
        /\ \A u \in Other(t) : i[u] = inst[u]
    BY <1>1 DEF NameLocked, NameLock, Data, Other
  <2>3. i \in [Thread -> [Table -> TableType]]
    <3>1. \A x \in Table : i[t][x] \in TableType
      BY <1>1, <2>2, NoTableSame DEF Data
    <3>2. i[t] \in [Table -> TableType]  BY <1>1, <3>1 DEF NameLocked, Data
    <3>. QED  BY <1>1, <2>2, <3>2 DEF NameLocked, Data, Other
  <2> HIDE DEF i
  <2>4. /\ inst' \in [Thread -> [Table -> TableType]]
        /\ unused' \in [Table -> SUBSET [version : 1 .. MaxVersion, file : 1 .. 2]]
        /\ some_tables_deleted' \in [Thread -> BOOLEAN]
        /\ \A x \in Table : unused'[x] \subseteq unused[x]
        /\ \A u \in Other(t) : \A x \in Table :
             inst'[u][x] = inst[u][x] \/ inst'[u][x] = Old(inst[u][x])
        /\ \A x \in Table : inst'[t][x] = IF x \in stmt[t].tabs THEN Old(i[t][x]) ELSE i[t][x]
    BY <1>1, <2>1, <2>2, <2>3, RemoveKeeps DEF i
  <2>5. Old(NameLock) = NameLock  BY NoTableSame, OldSame
  <2>6. \A x \in Table : inst'[t][x] = IF x \in stmt[t].tabs THEN NameLock ELSE inst[t][x]
    BY <2>2, <2>4, <2>5
  <2>7. Opened(t)' = {}  BY <1>a, <2>6, NoTableSame DEF Opened
  <2>. QED  BY <2>4, <2>6, <2>7
<1>c. /\ UNCHANGED <<file, globals, locks, version, killed, locked_tables, holds, sleeping, stmt>>
      /\ LOCK_open' = t /\ pc' = [pc EXCEPT ![t] = "name_wait"]
  BY DEF lock_names_wait, WaitAt, Goto
<1>2. Data'
  <2>1. pc' \in [Thread -> Label] /\ LOCK_open' \in Thread \cup {NoThread}
    BY <1>1, <1>c DEF Data, Label
  <2>. QED  BY <1>1, <1>b, <1>c, <2>1 DEF Data
<1>3. Frame(t)
  <2>1. \A u \in Other(t) : pc'[u] = pc[u] /\ (LOCK_open' = u => LOCK_open = u)
    BY <1>1, <1>c, Constants DEF Other, Data
  <2>. QED  BY <1>b, <1>c, <2>1 DEF Frame, Untouched
<1>4. Counts(t)
  BY <1>1, <1>a, <1>b, <1>c DEF Counts, Protected, ToFlush, Op, Data
<1>5. LabelRight(t)'  BY <1>1, <1>a, <1>c DEF LabelRight, Op, Flushing, Data
<1>6. WantRight(t)'  BY <1>1, <1>a, <1>c DEF WantRight, Data
<1>7. MutexRight(t)'  BY <1>1, <1>a, <1>c, Constants DEF MutexRight, Data
<1>d. pc'[t] \in {"name_wait"} /\ stmt'[t] = stmt[t] /\ locked_tables'[t] = locked_tables[t]
      /\ refresh_version' = refresh_version /\ thr'[t] = thr[t]
  BY <1>1, <1>c DEF Data
<1>8. ASSUME NEW x \in Table PROVE InstRight(t, x)' /\ ThrRight(t, x)' /\ OpenRight(t, x)'
  <2>1. InstRight(t, x)'  BY <1>1, <1>a, <1>b, <1>d, NoTableSame DEF InstRight
  <2>2. ThrRight(t, x)'  BY <1>a, <1>d DEF ThrRight
  <2>3. OpenRight(t, x)'  BY <1>b DEF OpenRight
  <2>. QED  BY <2>1, <2>2, <2>3
<1>9. HolderStep(t)
  <2>1. ~ Commits(t)'  BY <1>b DEF Commits, WritesOpened
  <2>. QED  BY <1>a, <1>c, <2>1, HolderNot
<1>. QED
  BY <1>2, <1>3, <1>4, <1>5, <1>6, <1>7, <1>8, <1>9 DEF StepRight, Right

(* A name lock whose table nobody uses.                                    *)
LEMMA lock_names_right ==
  ASSUME IInv, NEW t \in Thread, lock_names(t)
  PROVE  StepRight(t)
<1>1. /\ Data /\ Right(t) /\ LabelRight(t) /\ WantRight(t) /\ MutexRight(t)
      /\ refresh_version \in 1 .. MaxVersion /\ global_read_lock \in Nat
      /\ protect_against_global_read_lock \in Nat /\ ReadLockCounts
      /\ \A x \in Table : InstRight(t, x) /\ ThrRight(t, x) /\ OpenRight(t, x)
  BY CountersType DEF IInv, Right
<1>a. /\ pc[t] \in {"name_lock"} /\ Op(t) \in {"truncate", "rename"} /\ ~ locked_tables[t]
      /\ WellFormed(stmt[t]) /\ stmt[t].tabs \subseteq Table
      /\ Opened(t) = {} /\ \A x \in Table : thr[t][x] = "no"
      /\ \A x \in Table : ~ inst[t][x].by_flush /\ (inst[t][x].used => inst[t][x].by_name)
  <2>1. pc[t] \in {"name_lock"}  BY DEF lock_names
  <2>2. Op(t) \in {"truncate", "rename"} /\ ~ locked_tables[t] /\ WellFormed(stmt[t])
    BY <1>1, <2>1 DEF LabelRight
  <2>3. Opened(t) = {} /\ \A x \in Table : thr[t][x] = "no"
    BY <1>1, <2>1, <2>2, NothingOpen
  <2>4. \A x \in Table : ~ inst[t][x].by_flush  BY <1>1, <2>1 DEF InstRight
  <2>5. \A x \in Table : inst[t][x].used => inst[t][x].by_name
    BY <2>3 DEF Opened
  <2>. QED  BY <2>1, <2>2, <2>3, <2>4, <2>5 DEF WellFormed, StatementType
<1>b. /\ inst' \in [Thread -> [Table -> TableType]]
      /\ unused' \in [Table -> SUBSET [version : 1 .. MaxVersion, file : 1 .. 2]]
      /\ some_tables_deleted' \in [Thread -> BOOLEAN]
      /\ \A x \in Table : unused'[x] \subseteq unused[x]
      /\ \A u \in Other(t) : \A x \in Table :
           inst'[u][x] = inst[u][x] \/ inst'[u][x] = Old(inst[u][x])
      /\ \A x \in Table : inst'[t][x] = IF x \in stmt[t].tabs THEN NameLock ELSE inst[t][x]
      /\ Opened(t)' = {}
  <2>1. remove_table_from_cache(t, NameLocked(t), stmt[t].tabs)
    BY DEF lock_names
  <2> DEFINE i == NameLocked(t)
  <2>2. /\ \A x \in Table : i[t][x] = IF x \in stmt[t].tabs THEN NameLock ELSE inst[t][x]
        /\ \A u \in Other(t) : i[u] = inst[u]
    BY <1>1 DEF NameLocked, NameLock, Data, Other
  <2>3. i \in [Thread -> [Table -> TableType]]
    <3>1. \A x \in Table : i[t][x] \in TableType
      BY <1>1, <2>2, NoTableSame DEF Data
    <3>2. i[t] \in [Table -> TableType]  BY <1>1, <3>1 DEF NameLocked, Data
    <3>. QED  BY <1>1, <2>2, <3>2 DEF NameLocked, Data, Other
  <2> HIDE DEF i
  <2>4. /\ inst' \in [Thread -> [Table -> TableType]]
        /\ unused' \in [Table -> SUBSET [version : 1 .. MaxVersion, file : 1 .. 2]]
        /\ some_tables_deleted' \in [Thread -> BOOLEAN]
        /\ \A x \in Table : unused'[x] \subseteq unused[x]
        /\ \A u \in Other(t) : \A x \in Table :
             inst'[u][x] = inst[u][x] \/ inst'[u][x] = Old(inst[u][x])
        /\ \A x \in Table : inst'[t][x] = IF x \in stmt[t].tabs THEN Old(i[t][x]) ELSE i[t][x]
    BY <1>1, <2>1, <2>2, <2>3, RemoveKeeps DEF i
  <2>5. Old(NameLock) = NameLock  BY NoTableSame, OldSame
  <2>6. \A x \in Table : inst'[t][x] = IF x \in stmt[t].tabs THEN NameLock ELSE inst[t][x]
    BY <2>2, <2>4, <2>5
  <2>7. Opened(t)' = {}  BY <1>a, <2>6, NoTableSame DEF Opened
  <2>. QED  BY <2>4, <2>6, <2>7
<1>c. /\ UNCHANGED <<file, globals, locks, version, killed, locked_tables, holds, sleeping, stmt>>
      /\ LOCK_open = NoThread /\ LOCK_open' = NoThread /\ Op(t) = "truncate"
      /\ pc' = [pc EXCEPT ![t] = "name_locked"]
  BY DEF lock_names, Enter, Goto
<1>2. Data'
  <2>1. pc' \in [Thread -> Label] /\ LOCK_open' \in Thread \cup {NoThread}
    BY <1>1, <1>c DEF Data, Label
  <2>. QED  BY <1>1, <1>b, <1>c, <2>1 DEF Data
<1>3. Frame(t)
  <2>1. \A u \in Other(t) : pc'[u] = pc[u] /\ (LOCK_open' = u => LOCK_open = u)
    BY <1>1, <1>c, Constants DEF Other, Data
  <2>. QED  BY <1>b, <1>c, <2>1 DEF Frame, Untouched
<1>4. Counts(t)
  BY <1>1, <1>a, <1>b, <1>c DEF Counts, Protected, ToFlush, Op, Data
<1>5. LabelRight(t)'  BY <1>1, <1>a, <1>c DEF LabelRight, Op, Flushing, Data
<1>6. WantRight(t)'  BY <1>1, <1>a, <1>c DEF WantRight, Data
<1>7. MutexRight(t)'  BY <1>1, <1>a, <1>c, Constants DEF MutexRight, Data
<1>d. pc'[t] \in {"name_locked"} /\ stmt'[t] = stmt[t] /\ locked_tables'[t] = locked_tables[t]
      /\ refresh_version' = refresh_version /\ thr'[t] = thr[t]
  BY <1>1, <1>c DEF Data
<1>8. ASSUME NEW x \in Table PROVE InstRight(t, x)' /\ ThrRight(t, x)' /\ OpenRight(t, x)'
  <2>1. InstRight(t, x)'  BY <1>1, <1>a, <1>b, <1>d, NoTableSame DEF InstRight
  <2>2. ThrRight(t, x)'  BY <1>a, <1>d DEF ThrRight
  <2>3. OpenRight(t, x)'  BY <1>b DEF OpenRight
  <2>. QED  BY <2>1, <2>2, <2>3
<1>9. HolderStep(t)
  <2>1. ~ Commits(t)'  BY <1>b DEF Commits, WritesOpened
  <2>. QED  BY <1>a, <1>c, <2>1, HolderNot
<1>. QED
  BY <1>2, <1>3, <1>4, <1>5, <1>6, <1>7, <1>8, <1>9 DEF StepRight, Right

(* A name lock goes on waiting.                                            *)
LEMMA names_wait_right ==
  ASSUME IInv, NEW t \in Thread, names_wait(t)
  PROVE  StepRight(t)
<1>1. /\ Data /\ Right(t) /\ LabelRight(t) /\ WantRight(t) /\ MutexRight(t)
      /\ refresh_version \in 1 .. MaxVersion /\ global_read_lock \in Nat
      /\ protect_against_global_read_lock \in Nat /\ ReadLockCounts
      /\ \A x \in Table : InstRight(t, x) /\ ThrRight(t, x) /\ OpenRight(t, x)
  BY CountersType DEF IInv, Right
<1>2. Data'
  BY <1>1, Constants DEF Data, Label, names_wait, Goto, WaitAt, Enter
<1>3. Frame(t)
  BY <1>1, Constants DEF Frame, Untouched, Other, Data, names_wait, Goto,
     WaitAt, Enter
<1>4. Counts(t)
  BY <1>1 DEF Counts, Protected, ToFlush, Op, Data, names_wait, Goto, WaitAt,
     Enter
<1>5. LabelRight(t)'
  BY <1>1 DEF LabelRight, Op, Flushing, Data, names_wait, Goto, WaitAt, Enter
<1>6. WantRight(t)'
  BY <1>1 DEF WantRight, Opened, Data, names_wait, Goto, WaitAt, Enter
<1>7. MutexRight(t)'
  BY <1>1, Constants DEF MutexRight, WritesOpened, Opened, Flushing, Op, Data,
     names_wait, Goto, WaitAt, Enter
<1>8. ASSUME NEW x \in Table PROVE InstRight(t, x)' /\ ThrRight(t, x)' /\ OpenRight(t, x)'
  <2>1. InstRight(t, x)'
    BY <1>1 DEF InstRight, Data, names_wait, Goto, WaitAt, Enter
  <2>2. ThrRight(t, x)'
    BY <1>1 DEF ThrRight, Opened, Data, names_wait, Goto, WaitAt, Enter
  <2>3. OpenRight(t, x)'
    BY <1>1 DEF OpenRight, MayBeClosed, Holding, Opened, Data, names_wait,
       Goto, WaitAt, Enter
  <2>. QED  BY <2>1, <2>2, <2>3
<1>9. HolderStep(t)
  <2>1. Opened(t)' = Opened(t) /\ (WritesOpened(t)' <=> WritesOpened(t))
        /\ \A x \in Opened(t) : inst'[t][x].version = inst[t][x].version
    BY <1>1 DEF WritesOpened, Opened, Data, names_wait, Goto, WaitAt, Enter
  <2>2. Commits(t)' => Commits(t) \/ global_read_lock = 0
    BY <1>1, <2>1 DEF Commits, Data, names_wait, Goto, WaitAt, Enter
  <2>3. holds'[t] /\ ~ killed'[t] => /\ holds[t] /\ ~ killed[t]
                                     /\ pc[t] \in Loop => pc'[t] \in Loop
                                     /\ pc[t] # "flush"
    BY <1>1 DEF Data, names_wait, Goto, WaitAt, Enter
  <2>. QED  BY <2>1, <2>2, <2>3, HolderSame
<1>. QED
  BY <1>2, <1>3, <1>4, <1>5, <1>6, <1>7, <1>8, <1>9 DEF StepRight, Right

(* The users of the name are gone.                                         *)
LEMMA names_locked_right ==
  ASSUME IInv, NEW t \in Thread, names_locked(t)
  PROVE  StepRight(t)
<1>1. /\ Data /\ Right(t) /\ LabelRight(t) /\ WantRight(t) /\ MutexRight(t)
      /\ refresh_version \in 1 .. MaxVersion /\ global_read_lock \in Nat
      /\ protect_against_global_read_lock \in Nat /\ ReadLockCounts
      /\ \A x \in Table : InstRight(t, x) /\ ThrRight(t, x) /\ OpenRight(t, x)
  BY CountersType DEF IInv, Right
<1>2. Data'
  BY <1>1, Constants DEF Data, Label, names_locked, Goto, Enter, Op
<1>3. Frame(t)
  BY <1>1, Constants DEF Frame, Untouched, Other, Data, names_locked, Goto,
     Enter, Op
<1>4. Counts(t)
  BY <1>1 DEF Counts, Protected, ToFlush, Op, Data, names_locked, Goto, Enter
<1>5. LabelRight(t)'
  BY <1>1 DEF LabelRight, Op, Flushing, Data, names_locked, Goto, Enter, Op
<1>6. WantRight(t)'
  BY <1>1 DEF WantRight, Opened, Data, names_locked, Goto, Enter, Op
<1>7. MutexRight(t)'
  BY <1>1, Constants DEF MutexRight, WritesOpened, Opened, Flushing, Op, Data,
     names_locked, Goto, Enter
<1>8. ASSUME NEW x \in Table PROVE InstRight(t, x)' /\ ThrRight(t, x)' /\ OpenRight(t, x)'
  <2>1. InstRight(t, x)'
    BY <1>1 DEF InstRight, Data, names_locked, Goto, Enter, Op
  <2>2. ThrRight(t, x)'
    BY <1>1 DEF ThrRight, Opened, Data, names_locked, Goto, Enter, Op
  <2>3. OpenRight(t, x)'
    BY <1>1 DEF OpenRight, MayBeClosed, Holding, Opened, Data, names_locked,
       Goto, Enter, Op
  <2>. QED  BY <2>1, <2>2, <2>3
<1>9. HolderStep(t)
  <2>1. Opened(t)' = Opened(t) /\ (WritesOpened(t)' <=> WritesOpened(t))
        /\ \A x \in Opened(t) : inst'[t][x].version = inst[t][x].version
    BY <1>1 DEF WritesOpened, Opened, Data, names_locked, Goto, Enter, Op
  <2>2. Commits(t)' => Commits(t) \/ global_read_lock = 0
    BY <1>1, <2>1 DEF Commits, Data, names_locked, Goto, Enter, Op
  <2>3. holds'[t] /\ ~ killed'[t] => /\ holds[t] /\ ~ killed[t]
                                     /\ pc[t] \in Loop => pc'[t] \in Loop
                                     /\ pc[t] # "flush"
    BY <1>1 DEF Data, names_locked, Goto, Enter, Op
  <2>. QED  BY <2>1, <2>2, <2>3, HolderSame
<1>. QED
  BY <1>2, <1>3, <1>4, <1>5, <1>6, <1>7, <1>8, <1>9 DEF StepRight, Right

(* Killed while it waited for a name lock.                                 *)
LEMMA names_failed_right ==
  ASSUME IInv, NEW t \in Thread, names_failed(t)
  PROVE  StepRight(t)
<1>1. /\ Data /\ Right(t) /\ LabelRight(t) /\ WantRight(t) /\ MutexRight(t)
      /\ refresh_version \in 1 .. MaxVersion /\ global_read_lock \in Nat
      /\ protect_against_global_read_lock \in Nat /\ ReadLockCounts
      /\ \A x \in Table : InstRight(t, x) /\ ThrRight(t, x) /\ OpenRight(t, x)
  BY CountersType DEF IInv, Right
<1>a. /\ pc[t] \in {"name_lock", "name_wait"} /\ Op(t) \in {"truncate", "rename"} /\ ~ locked_tables[t]
      /\ WellFormed(stmt[t]) /\ stmt[t].tabs \subseteq Table
      /\ Opened(t) = {} /\ \A x \in Table : thr[t][x] = "no"
      /\ \A x \in Table : ~ inst[t][x].by_flush /\ (inst[t][x].used => inst[t][x].by_name)
  <2>1. pc[t] \in {"name_lock", "name_wait"}  BY DEF names_failed
  <2>2. Op(t) \in {"truncate", "rename"} /\ ~ locked_tables[t] /\ WellFormed(stmt[t])
    BY <1>1, <2>1 DEF LabelRight
  <2>3. Opened(t) = {} /\ \A x \in Table : thr[t][x] = "no"
    BY <1>1, <2>1, <2>2, NothingOpen
  <2>4. \A x \in Table : ~ inst[t][x].by_flush  BY <1>1, <2>1 DEF InstRight
  <2>5. \A x \in Table : inst[t][x].used => inst[t][x].by_name
    BY <2>3 DEF Opened
  <2>. QED  BY <2>1, <2>2, <2>3, <2>4, <2>5 DEF WellFormed, StatementType
<1>b. /\ inst' \in [Thread -> [Table -> TableType]]
      /\ unused' \in [Table -> SUBSET [version : 1 .. MaxVersion, file : 1 .. 2]]
      /\ some_tables_deleted' \in [Thread -> BOOLEAN]
      /\ \A x \in Table : unused'[x] \subseteq unused[x]
      /\ \A u \in Other(t) : \A x \in Table :
           inst'[u][x] = inst[u][x] \/ inst'[u][x] = Old(inst[u][x])
      /\ \A x \in Table : inst'[t][x] = IF x \in stmt[t].tabs THEN NoTable ELSE inst[t][x]
      /\ Opened(t)' = {}
  <2>1. remove_table_from_cache(t, NamesUnlocked(t), (IF pc[t] = "name_lock" THEN stmt[t].tabs ELSE {}))
    BY DEF names_failed
  <2> DEFINE i == NamesUnlocked(t)
  <2>2. /\ \A x \in Table : i[t][x] = IF x \in stmt[t].tabs THEN NoTable ELSE inst[t][x]
        /\ \A u \in Other(t) : i[u] = inst[u]
    BY <1>1 DEF NamesUnlocked, NameLock, Data, Other
  <2>3. i \in [Thread -> [Table -> TableType]]
    <3>1. \A x \in Table : i[t][x] \in TableType
      BY <1>1, <2>2, NoTableSame DEF Data
    <3>2. i[t] \in [Table -> TableType]  BY <1>1, <3>1 DEF NamesUnlocked, Data
    <3>. QED  BY <1>1, <2>2, <3>2 DEF NamesUnlocked, Data, Other
  <2> HIDE DEF i
  <2>4. /\ inst' \in [Thread -> [Table -> TableType]]
        /\ unused' \in [Table -> SUBSET [version : 1 .. MaxVersion, file : 1 .. 2]]
        /\ some_tables_deleted' \in [Thread -> BOOLEAN]
        /\ \A x \in Table : unused'[x] \subseteq unused[x]
        /\ \A u \in Other(t) : \A x \in Table :
             inst'[u][x] = inst[u][x] \/ inst'[u][x] = Old(inst[u][x])
        /\ \A x \in Table : inst'[t][x] = IF x \in (IF pc[t] = "name_lock" THEN stmt[t].tabs ELSE {}) THEN Old(i[t][x]) ELSE i[t][x]
    BY <1>1, <2>1, <2>2, <2>3, RemoveKeeps DEF i
  <2>5. Old(NoTable) = NoTable  BY NoTableSame, OldSame
  <2>6. \A x \in Table : inst'[t][x] = IF x \in stmt[t].tabs THEN NoTable ELSE inst[t][x]
    BY <2>2, <2>4, <2>5
  <2>7. Opened(t)' = {}  BY <1>a, <2>6, NoTableSame DEF Opened
  <2>. QED  BY <2>4, <2>6, <2>7
<1>c. /\ UNCHANGED <<file, globals, locks, version, killed, locked_tables, holds, stmt>>
      /\ LOCK_open = NoThread /\ LOCK_open' = NoThread /\ sleeping' = {}
      /\ pc' = [pc EXCEPT ![t] = IF Op(t) = "truncate" THEN "name_failed" ELSE "unlock"]
  BY DEF names_failed, Enter, Goto, Leave, Broadcast
<1>2. Data'
  <2>1. pc' \in [Thread -> Label] /\ LOCK_open' \in Thread \cup {NoThread}
    BY <1>1, <1>c DEF Data, Label
  <2>. QED  BY <1>1, <1>b, <1>c, <2>1 DEF Data
<1>3. Frame(t)
  <2>1. \A u \in Other(t) : pc'[u] = pc[u] /\ (LOCK_open' = u => LOCK_open = u)
    BY <1>1, <1>c, Constants DEF Other, Data
  <2>. QED  BY <1>b, <1>c, <2>1 DEF Frame, Untouched
<1>4. Counts(t)
  BY <1>1, <1>a, <1>b, <1>c DEF Counts, Protected, ToFlush, Op, Data
<1>5. LabelRight(t)'  BY <1>1, <1>a, <1>c DEF LabelRight, Op, Flushing, Data
<1>6. WantRight(t)'  BY <1>1, <1>a, <1>c DEF WantRight, Data
<1>7. MutexRight(t)'  BY <1>1, <1>a, <1>c, Constants DEF MutexRight, Data
<1>d. pc'[t] \in {"name_failed", "unlock"} /\ stmt'[t] = stmt[t] /\ locked_tables'[t] = locked_tables[t]
      /\ refresh_version' = refresh_version /\ thr'[t] = thr[t]
  BY <1>1, <1>c DEF Data
<1>8. ASSUME NEW x \in Table PROVE InstRight(t, x)' /\ ThrRight(t, x)' /\ OpenRight(t, x)'
  <2>1. InstRight(t, x)'  BY <1>1, <1>a, <1>b, <1>d, NoTableSame DEF InstRight
  <2>2. ThrRight(t, x)'  BY <1>a, <1>d DEF ThrRight
  <2>3. OpenRight(t, x)'  BY <1>b DEF OpenRight
  <2>. QED  BY <2>1, <2>2, <2>3
<1>9. HolderStep(t)
  <2>1. ~ Commits(t)'  BY <1>b DEF Commits, WritesOpened
  <2>. QED  BY <1>a, <1>c, <2>1, HolderNot
<1>. QED
  BY <1>2, <1>3, <1>4, <1>5, <1>6, <1>7, <1>8, <1>9 DEF StepRight, Right

(* TRUNCATE is no longer counted.                                          *)
LEMMA start_waiting_global_read_lock_right ==
  ASSUME IInv, NEW t \in Thread, start_waiting_global_read_lock(t)
  PROVE  StepRight(t)
<1>1. /\ Data /\ Right(t) /\ LabelRight(t) /\ WantRight(t) /\ MutexRight(t)
      /\ refresh_version \in 1 .. MaxVersion /\ global_read_lock \in Nat
      /\ protect_against_global_read_lock \in Nat /\ ReadLockCounts
      /\ \A x \in Table : InstRight(t, x) /\ ThrRight(t, x) /\ OpenRight(t, x)
  BY CountersType DEF IInv, Right
<1>2. Data'
  BY <1>1, Constants DEF Data, Label, start_waiting_global_read_lock, Goto,
     Enter, BroadcastIf, Leave
<1>3. Frame(t)
  BY <1>1, Constants DEF Frame, Untouched, Other, Data,
     start_waiting_global_read_lock, Goto, Enter, BroadcastIf, Leave
<1>4. Counts(t)
  BY <1>1 DEF Counts, Protected, ToFlush, Op, Data,
     start_waiting_global_read_lock, Goto, Enter, BroadcastIf, Leave
<1>5. LabelRight(t)'
  BY <1>1 DEF LabelRight, Op, Flushing, Data, start_waiting_global_read_lock,
     Goto, Enter, BroadcastIf, Leave
<1>6. WantRight(t)'
  BY <1>1 DEF WantRight, Opened, Data, start_waiting_global_read_lock, Goto,
     Enter, BroadcastIf, Leave
<1>7. MutexRight(t)'
  BY <1>1, Constants DEF MutexRight, WritesOpened, Opened, Flushing, Op, Data,
     start_waiting_global_read_lock, Goto, Enter, BroadcastIf, Leave
<1>8. ASSUME NEW x \in Table PROVE InstRight(t, x)' /\ ThrRight(t, x)' /\ OpenRight(t, x)'
  <2>1. InstRight(t, x)'
    BY <1>1 DEF InstRight, Data, start_waiting_global_read_lock, Goto, Enter,
       BroadcastIf, Leave
  <2>2. ThrRight(t, x)'
    BY <1>1 DEF ThrRight, Opened, Data, start_waiting_global_read_lock, Goto,
       Enter, BroadcastIf, Leave
  <2>3. OpenRight(t, x)'
    BY <1>1 DEF OpenRight, MayBeClosed, Holding, Opened, Data,
       start_waiting_global_read_lock, Goto, Enter, BroadcastIf, Leave
  <2>. QED  BY <2>1, <2>2, <2>3
<1>9. HolderStep(t)
  <2>1. Opened(t)' = Opened(t) /\ (WritesOpened(t)' <=> WritesOpened(t))
        /\ \A x \in Opened(t) : inst'[t][x].version = inst[t][x].version
    BY <1>1 DEF WritesOpened, Opened, Data, start_waiting_global_read_lock,
       Goto, Enter, BroadcastIf, Leave
  <2>2. Commits(t)' => Commits(t) \/ global_read_lock = 0
    BY <1>1, <2>1 DEF Commits, Data, start_waiting_global_read_lock, Goto,
       Enter, BroadcastIf, Leave
  <2>3. holds'[t] /\ ~ killed'[t] => /\ holds[t] /\ ~ killed[t]
                                     /\ pc[t] \in Loop => pc'[t] \in Loop
                                     /\ pc[t] # "flush"
    BY <1>1 DEF Data, start_waiting_global_read_lock, Goto, Enter, BroadcastIf,
       Leave
  <2>. QED  BY <2>1, <2>2, <2>3, HolderSame
<1>. QED
  BY <1>2, <1>3, <1>4, <1>5, <1>6, <1>7, <1>8, <1>9 DEF StepRight, Right

(* TRUNCATE makes new files and takes the name lock off.                   *)
LEMMA truncate_right ==
  ASSUME IInv, NEW t \in Thread, truncate(t)
  PROVE  StepRight(t)
<1>1. /\ Data /\ Right(t) /\ LabelRight(t) /\ WantRight(t) /\ MutexRight(t)
      /\ refresh_version \in 1 .. MaxVersion /\ global_read_lock \in Nat
      /\ protect_against_global_read_lock \in Nat /\ ReadLockCounts
      /\ \A x \in Table : InstRight(t, x) /\ ThrRight(t, x) /\ OpenRight(t, x)
  BY CountersType DEF IInv, Right
<1>a. /\ pc[t] \in {"truncate"} /\ Op(t) \in {"truncate", "rename"} /\ ~ locked_tables[t]
      /\ WellFormed(stmt[t]) /\ stmt[t].tabs \subseteq Table
      /\ Opened(t) = {} /\ \A x \in Table : thr[t][x] = "no"
      /\ \A x \in Table : ~ inst[t][x].by_flush /\ (inst[t][x].used => inst[t][x].by_name)
  <2>1. pc[t] \in {"truncate"}  BY DEF truncate
  <2>2. Op(t) \in {"truncate", "rename"} /\ ~ locked_tables[t] /\ WellFormed(stmt[t])
    BY <1>1, <2>1 DEF LabelRight
  <2>3. Opened(t) = {} /\ \A x \in Table : thr[t][x] = "no"
    BY <1>1, <2>1, <2>2, NothingOpen
  <2>4. \A x \in Table : ~ inst[t][x].by_flush  BY <1>1, <2>1 DEF InstRight
  <2>5. \A x \in Table : inst[t][x].used => inst[t][x].by_name
    BY <2>3 DEF Opened
  <2>. QED  BY <2>1, <2>2, <2>3, <2>4, <2>5 DEF WellFormed, StatementType
<1>b. /\ inst' \in [Thread -> [Table -> TableType]]
      /\ unused' \in [Table -> SUBSET [version : 1 .. MaxVersion, file : 1 .. 2]]
      /\ some_tables_deleted' \in [Thread -> BOOLEAN]
      /\ \A x \in Table : unused'[x] \subseteq unused[x]
      /\ \A u \in Other(t) : \A x \in Table :
           inst'[u][x] = inst[u][x] \/ inst'[u][x] = Old(inst[u][x])
      /\ \A x \in Table : inst'[t][x] = IF x \in stmt[t].tabs THEN NoTable ELSE inst[t][x]
      /\ Opened(t)' = {}
  <2>1. inst' = NamesUnlocked(t) /\ unused' = unused /\ some_tables_deleted' = some_tables_deleted
    BY DEF truncate
  <2>2. /\ \A x \in Table : inst'[t][x] = IF x \in stmt[t].tabs THEN NoTable ELSE inst[t][x]
        /\ \A u \in Other(t) : inst'[u] = inst[u]
    BY <1>1, <2>1 DEF NamesUnlocked, Data, Other
  <2>3. inst' \in [Thread -> [Table -> TableType]]
    <3>1. \A x \in Table : inst'[t][x] \in TableType
      BY <1>1, <2>2, NoTableSame DEF Data
    <3>2. inst'[t] \in [Table -> TableType]
      BY <1>1, <2>1, <3>1 DEF NamesUnlocked, Data
    <3>. QED  BY <1>1, <2>1, <2>2, <3>2 DEF NamesUnlocked, Data, Other
  <2>4. Opened(t)' = {}  BY <1>a, <2>2, NoTableSame DEF Opened
  <2>. QED  BY <1>1, <2>1, <2>2, <2>3, <2>4 DEF Data
<1>c. /\ UNCHANGED <<globals, locks, version, killed, locked_tables, holds, stmt, LOCK_open>>
      /\ sleeping' = {} /\ pc' = [pc EXCEPT ![t] = "unlock"]
  BY DEF truncate, Goto, Leave, Broadcast
<1>2. Data'
  <2>1. pc' \in [Thread -> Label] /\ LOCK_open' \in Thread \cup {NoThread}
    BY <1>1, <1>c DEF Data, Label
  <2>2. file' \in [Table -> 0 .. 2]
    BY <1>1 DEF truncate, Data
  <2>. QED  BY <1>1, <1>b, <1>c, <2>1, <2>2 DEF Data
<1>3. Frame(t)
  <2>1. \A u \in Other(t) : pc'[u] = pc[u] /\ (LOCK_open' = u => LOCK_open = u)
    BY <1>1, <1>c, Constants DEF Other, Data
  <2>. QED  BY <1>b, <1>c, <2>1 DEF Frame, Untouched
<1>4. Counts(t)
  BY <1>1, <1>a, <1>b, <1>c DEF Counts, Protected, ToFlush, Op, Data
<1>5. LabelRight(t)'  BY <1>1, <1>a, <1>c DEF LabelRight, Op, Flushing, Data
<1>6. WantRight(t)'  BY <1>1, <1>a, <1>c DEF WantRight, Data
<1>7. MutexRight(t)'  BY <1>1, <1>a, <1>c, Constants DEF MutexRight, Data
<1>d. pc'[t] \in {"unlock"} /\ stmt'[t] = stmt[t] /\ locked_tables'[t] = locked_tables[t]
      /\ refresh_version' = refresh_version /\ thr'[t] = thr[t]
  BY <1>1, <1>c DEF Data
<1>8. ASSUME NEW x \in Table PROVE InstRight(t, x)' /\ ThrRight(t, x)' /\ OpenRight(t, x)'
  <2>1. InstRight(t, x)'  BY <1>1, <1>a, <1>b, <1>d, NoTableSame DEF InstRight
  <2>2. ThrRight(t, x)'  BY <1>a, <1>d DEF ThrRight
  <2>3. OpenRight(t, x)'  BY <1>b DEF OpenRight
  <2>. QED  BY <2>1, <2>2, <2>3
<1>9. HolderStep(t)
  <2>1. ~ Commits(t)'  BY <1>b DEF Commits, WritesOpened
  <2>. QED  BY <1>a, <1>c, <2>1, HolderNot
<1>. QED
  BY <1>2, <1>3, <1>4, <1>5, <1>6, <1>7, <1>8, <1>9 DEF StepRight, Right

(* RENAME renames the files and takes the name locks off.                  *)
LEMMA rename_right ==
  ASSUME IInv, NEW t \in Thread, rename(t)
  PROVE  StepRight(t)
<1>1. /\ Data /\ Right(t) /\ LabelRight(t) /\ WantRight(t) /\ MutexRight(t)
      /\ refresh_version \in 1 .. MaxVersion /\ global_read_lock \in Nat
      /\ protect_against_global_read_lock \in Nat /\ ReadLockCounts
      /\ \A x \in Table : InstRight(t, x) /\ ThrRight(t, x) /\ OpenRight(t, x)
  BY CountersType DEF IInv, Right
<1>a. /\ pc[t] \in {"name_lock", "name_wait"} /\ Op(t) \in {"truncate", "rename"} /\ ~ locked_tables[t]
      /\ WellFormed(stmt[t]) /\ stmt[t].tabs \subseteq Table
      /\ Opened(t) = {} /\ \A x \in Table : thr[t][x] = "no"
      /\ \A x \in Table : ~ inst[t][x].by_flush /\ (inst[t][x].used => inst[t][x].by_name)
  <2>1. pc[t] \in {"name_lock", "name_wait"}  BY DEF rename
  <2>2. Op(t) \in {"truncate", "rename"} /\ ~ locked_tables[t] /\ WellFormed(stmt[t])
    BY <1>1, <2>1 DEF LabelRight
  <2>3. Opened(t) = {} /\ \A x \in Table : thr[t][x] = "no"
    BY <1>1, <2>1, <2>2, NothingOpen
  <2>4. \A x \in Table : ~ inst[t][x].by_flush  BY <1>1, <2>1 DEF InstRight
  <2>5. \A x \in Table : inst[t][x].used => inst[t][x].by_name
    BY <2>3 DEF Opened
  <2>. QED  BY <2>1, <2>2, <2>3, <2>4, <2>5 DEF WellFormed, StatementType
<1>b. /\ inst' \in [Thread -> [Table -> TableType]]
      /\ unused' \in [Table -> SUBSET [version : 1 .. MaxVersion, file : 1 .. 2]]
      /\ some_tables_deleted' \in [Thread -> BOOLEAN]
      /\ \A x \in Table : unused'[x] \subseteq unused[x]
      /\ \A u \in Other(t) : \A x \in Table :
           inst'[u][x] = inst[u][x] \/ inst'[u][x] = Old(inst[u][x])
      /\ \A x \in Table : inst'[t][x] = IF x \in stmt[t].tabs THEN NoTable ELSE inst[t][x]
      /\ Opened(t)' = {}
  <2>1. remove_table_from_cache(t, NamesUnlocked(t), (IF pc[t] = "name_lock" THEN stmt[t].tabs ELSE {}))
    BY DEF rename
  <2> DEFINE i == NamesUnlocked(t)
  <2>2. /\ \A x \in Table : i[t][x] = IF x \in stmt[t].tabs THEN NoTable ELSE inst[t][x]
        /\ \A u \in Other(t) : i[u] = inst[u]
    BY <1>1 DEF NamesUnlocked, NameLock, Data, Other
  <2>3. i \in [Thread -> [Table -> TableType]]
    <3>1. \A x \in Table : i[t][x] \in TableType
      BY <1>1, <2>2, NoTableSame DEF Data
    <3>2. i[t] \in [Table -> TableType]  BY <1>1, <3>1 DEF NamesUnlocked, Data
    <3>. QED  BY <1>1, <2>2, <3>2 DEF NamesUnlocked, Data, Other
  <2> HIDE DEF i
  <2>4. /\ inst' \in [Thread -> [Table -> TableType]]
        /\ unused' \in [Table -> SUBSET [version : 1 .. MaxVersion, file : 1 .. 2]]
        /\ some_tables_deleted' \in [Thread -> BOOLEAN]
        /\ \A x \in Table : unused'[x] \subseteq unused[x]
        /\ \A u \in Other(t) : \A x \in Table :
             inst'[u][x] = inst[u][x] \/ inst'[u][x] = Old(inst[u][x])
        /\ \A x \in Table : inst'[t][x] = IF x \in (IF pc[t] = "name_lock" THEN stmt[t].tabs ELSE {}) THEN Old(i[t][x]) ELSE i[t][x]
    BY <1>1, <2>1, <2>2, <2>3, RemoveKeeps DEF i
  <2>5. Old(NoTable) = NoTable  BY NoTableSame, OldSame
  <2>6. \A x \in Table : inst'[t][x] = IF x \in stmt[t].tabs THEN NoTable ELSE inst[t][x]
    BY <2>2, <2>4, <2>5
  <2>7. Opened(t)' = {}  BY <1>a, <2>6, NoTableSame DEF Opened
  <2>. QED  BY <2>4, <2>6, <2>7
<1>c. /\ UNCHANGED <<globals, locks, version, killed, locked_tables, holds, stmt>>
      /\ LOCK_open = NoThread /\ LOCK_open' = NoThread /\ sleeping' = {}
      /\ Op(t) = "rename" /\ pc' = [pc EXCEPT ![t] = "unlock"]
  BY DEF rename, Enter, Goto, Leave, Broadcast
<1>2. Data'
  <2>1. pc' \in [Thread -> Label] /\ LOCK_open' \in Thread \cup {NoThread}
    BY <1>1, <1>c DEF Data, Label
  <2>2. file' \in [Table -> 0 .. 2]
    <3>1. file \in [Table -> 0 .. 2] /\ 0 \in 0 .. 2  BY <1>1 DEF Data
    <3>2. OldName(t) \in Table  BY <1>a, <1>c DEF WellFormed, OldName, Op
    <3>3. \/ file' = file
          \/ file' = [file EXCEPT ![NewName(t)] = file[OldName(t)], ![OldName(t)] = 0]
      BY DEF rename
    <3>. QED  BY <3>1, <3>2, <3>3
  <2>. QED  BY <1>1, <1>b, <1>c, <2>1, <2>2 DEF Data
<1>3. Frame(t)
  <2>1. \A u \in Other(t) : pc'[u] = pc[u] /\ (LOCK_open' = u => LOCK_open = u)
    BY <1>1, <1>c, Constants DEF Other, Data
  <2>. QED  BY <1>b, <1>c, <2>1 DEF Frame, Untouched
<1>4. Counts(t)
  BY <1>1, <1>a, <1>b, <1>c DEF Counts, Protected, ToFlush, Op, Data
<1>5. LabelRight(t)'  BY <1>1, <1>a, <1>c DEF LabelRight, Op, Flushing, Data
<1>6. WantRight(t)'  BY <1>1, <1>a, <1>c DEF WantRight, Data
<1>7. MutexRight(t)'  BY <1>1, <1>a, <1>c, Constants DEF MutexRight, Data
<1>d. pc'[t] \in {"unlock"} /\ stmt'[t] = stmt[t] /\ locked_tables'[t] = locked_tables[t]
      /\ refresh_version' = refresh_version /\ thr'[t] = thr[t]
  BY <1>1, <1>c DEF Data
<1>8. ASSUME NEW x \in Table PROVE InstRight(t, x)' /\ ThrRight(t, x)' /\ OpenRight(t, x)'
  <2>1. InstRight(t, x)'  BY <1>1, <1>a, <1>b, <1>d, NoTableSame DEF InstRight
  <2>2. ThrRight(t, x)'  BY <1>a, <1>d DEF ThrRight
  <2>3. OpenRight(t, x)'  BY <1>b DEF OpenRight
  <2>. QED  BY <2>1, <2>2, <2>3
<1>9. HolderStep(t)
  <2>1. ~ Commits(t)'  BY <1>b DEF Commits, WritesOpened
  <2>. QED  BY <1>a, <1>c, <2>1, HolderNot
<1>. QED
  BY <1>2, <1>3, <1>4, <1>5, <1>6, <1>7, <1>8, <1>9 DEF StepRight, Right

(* KILL of a thread.                                                       *)
LEMMA kill_right ==
  ASSUME IInv, NEW t \in Thread, kill(t)
  PROVE  StepRight(t)
<1>1. /\ Data /\ Right(t) /\ LabelRight(t) /\ WantRight(t) /\ MutexRight(t)
      /\ refresh_version \in 1 .. MaxVersion /\ global_read_lock \in Nat
      /\ protect_against_global_read_lock \in Nat /\ ReadLockCounts
      /\ \A x \in Table : InstRight(t, x) /\ ThrRight(t, x) /\ OpenRight(t, x)
  BY CountersType DEF IInv, Right
<1>2. Data'  BY <1>1, Constants DEF Data, Label, kill, Leave, Broadcast
<1>3. Frame(t)
  BY <1>1, Constants DEF Frame, Untouched, Other, Data, kill, Leave, Broadcast
<1>4. Counts(t)
  BY <1>1 DEF Counts, Protected, ToFlush, Op, Data, kill, Leave, Broadcast
<1>5. LabelRight(t)'
  BY <1>1 DEF LabelRight, Op, Flushing, Data, kill, Leave, Broadcast
<1>6. WantRight(t)'
  BY <1>1 DEF WantRight, Opened, Data, kill, Leave, Broadcast
<1>7. MutexRight(t)'
  BY <1>1, Constants DEF MutexRight, WritesOpened, Opened, Flushing, Op, Data,
     kill, Leave, Broadcast
<1>8. ASSUME NEW x \in Table PROVE InstRight(t, x)' /\ ThrRight(t, x)' /\ OpenRight(t, x)'
  <2>1. InstRight(t, x)'  BY <1>1 DEF InstRight, Data, kill, Leave, Broadcast
  <2>2. ThrRight(t, x)'
    BY <1>1 DEF ThrRight, Opened, Data, kill, Leave, Broadcast
  <2>3. OpenRight(t, x)'
    BY <1>1 DEF OpenRight, MayBeClosed, Holding, Opened, Data, kill, Leave,
       Broadcast
  <2>. QED  BY <2>1, <2>2, <2>3
<1>9. HolderStep(t)
  <2>1. Opened(t)' = Opened(t) /\ (WritesOpened(t)' <=> WritesOpened(t))
        /\ \A x \in Opened(t) : inst'[t][x].version = inst[t][x].version
    BY <1>1 DEF WritesOpened, Opened, Data, kill, Leave, Broadcast
  <2>2. Commits(t)' => Commits(t) \/ global_read_lock = 0
    BY <1>1, <2>1 DEF Commits, Data, kill, Leave, Broadcast
  <2>3. holds'[t] /\ ~ killed'[t] => /\ holds[t] /\ ~ killed[t]
                                     /\ pc[t] \in Loop => pc'[t] \in Loop
                                     /\ pc[t] # "flush"
    BY <1>1 DEF Data, kill, Leave, Broadcast
  <2>. QED  BY <2>1, <2>2, <2>3, HolderSame
<1>. QED
  BY <1>2, <1>3, <1>4, <1>5, <1>6, <1>7, <1>8, <1>9 DEF StepRight, Right

-----------------------------------------------------------------------------
(* The theorems. *)

LEMMA InitInv ==
  ASSUME Init
  PROVE  IInv
<1>1. Data
  <2>1. 1 \in 1 .. MaxVersion /\ 1 \in 0 .. 2  BY Constants
  <2>2. inst \in [Thread -> [Table -> TableType]]  BY NoTableSame DEF Init
  <2>3. stmt \in [Thread -> StatementType]  BY DEF Init, StatementType
  <2>4. thr \in [Thread -> [Table -> {"no", "waits", "has", "aborted"}]]  BY DEF Init
  <2>. QED  BY <2>1, <2>2, <2>3, <2>4 DEF Init, Data, Label
<1>2. ReadLockCounts
  <2>1. {t \in Thread : holds[t]} = {}  BY DEF Init
  <2>2. {t \in Thread : \/ pc[t] \in {"name_lock", "name_wait"} /\ Op(t) = "truncate"
                        \/ pc[t] \in {"name_locked", "name_failed"}} = {}
    BY DEF Init
  <2>. QED  BY <2>1, <2>2, FS_EmptySet DEF Init, ReadLockCounts
<1>3. Bounded
  <2>1. {t \in Thread : ToFlush(t)} = {}  BY DEF Init, ToFlush
  <2>2. Cardinality({t \in Thread : ToFlush(t)}) = 0  BY <2>1, FS_EmptySet
  <2>. QED  BY <2>2, Constants DEF Init, Bounded
<1>4. ASSUME NEW t \in Thread
      PROVE  Right(t) /\ HolderRight(t)
  <2>1. LabelRight(t)
    BY DEF Init, LabelRight, WellFormed, StatementType, Op, Flushing
  <2>2. WantRight(t) /\ MutexRight(t)  BY Constants DEF Init, WantRight, MutexRight
  <2>3. \A x \in Table : inst[t][x] = NoTable /\ thr[t][x] = "no" /\ x \notin Opened(t)
    BY NoTableSame DEF Init, Opened
  <2>4. \A x \in Table : InstRight(t, x) /\ ThrRight(t, x) /\ OpenRight(t, x)
    BY <2>3, NoTableSame DEF Init, InstRight, ThrRight, OpenRight
  <2>5. HolderRight(t)  BY DEF Init, HolderRight
  <2>. QED  BY <2>1, <2>2, <2>4, <2>5 DEF Right
<1>. QED  BY <1>1, <1>2, <1>3, <1>4 DEF IInv

(* Every step of a thread shows what it has to. *)
LEMMA StepsRight ==
  ASSUME IInv, NEW t \in Thread, Begin(t) \/ Step(t) \/ kill(t)
  PROVE  StepRight(t)
<1>1. IInv /\ t \in Thread  OBVIOUS
<1>2. ASSUME Begin(t) PROVE StepRight(t)
  BY <1>1, <1>2, begin_query_right, begin_flush_right, begin_ddl_right,
     unlock_tables_right DEF Begin
<1>3. ASSUME Step(t) PROVE StepRight(t)
  BY <1>1, <1>3, open_killed_right, open_refused_right, open_waits_right,
     open_cached_right, open_new_right, open_fails_right, refresh_right,
     lock_tables_right, wait_if_waits_right, wait_if_fails_right,
     wait_if_done_right, thr_grants_right, thr_waits_right, thr_fails_right,
     lock_again_right, lock_killed_right, lock_done_right,
     wait_tables_killed_right, wait_for_tables_right, cond_wait_right,
     run_done_right, unlock_right, close_thread_tables_right, cleanup_right,
     disconnect_right, lock_global_read_lock_right,
     close_cached_tables_right, flush_waits_right, flush_reopens_right,
     flush_end_right, drop_refused_right, drop_waits_right,
     drop_waits_for_users_right, drop_files_right, drop_unlocks_again_right,
     lock_names_wait_right, lock_names_right, names_wait_right,
     names_locked_right, names_failed_right,
     start_waiting_global_read_lock_right, truncate_right, rename_right DEF Step
<1>4. ASSUME kill(t) PROVE StepRight(t)  BY <1>1, <1>4, kill_right
<1>. QED  BY <1>2, <1>3, <1>4

(* Every step keeps the invariant. *)
LEMMA NextInv ==
  ASSUME IInv, [Next]_vars
  PROVE  IInv'
<1>1. CASE Next
  <2>1. PICK t \in Thread : Begin(t) \/ Step(t) \/ kill(t)  BY <1>1 DEF Next
  <2>. QED  BY <2>1, StepsRight, StepKeeps
<1>2. CASE UNCHANGED vars
  <2>. USE <1>2 DEF vars
  <2>1. Data' /\ ReadLockCounts'
    BY DEF IInv, Data, ReadLockCounts, Op
  <2>2. Bounded'  BY DEF IInv, Bounded, ToFlush
  <2>3. ASSUME NEW t \in Thread PROVE Right(t)' /\ HolderRight(t)'
    <3>1. Right(t) /\ HolderRight(t)  BY DEF IInv
    <3>2. Opened(t)' = Opened(t) /\ \A u \in Thread : Opened(u)' = Opened(u)
      BY DEF Opened
    <3>3. (WritesOpened(t)' <=> WritesOpened(t))
          /\ \A u \in Thread : WritesOpened(u)' <=> WritesOpened(u)
      BY <3>2 DEF WritesOpened
    <3>4. LabelRight(t)' /\ WantRight(t)' /\ MutexRight(t)'
      BY <3>1, <3>2, <3>3 DEF Right, LabelRight, WantRight, MutexRight, Flushing, Op
    <3>5. \A x \in Table : InstRight(t, x)' /\ ThrRight(t, x)' /\ OpenRight(t, x)'
      BY <3>1, <3>2 DEF Right, InstRight, ThrRight, OpenRight, MayBeClosed, Holding
    <3>6. HolderRight(t)'
      BY <3>1, <3>2, <3>3 DEF HolderRight, Commits, Other
    <3>. QED  BY <3>4, <3>5, <3>6 DEF Right
  <2>. QED  BY <2>1, <2>2, <2>3 DEF IInv
<1>. QED  BY <1>1, <1>2

(* What the invariant says of a statement that runs. *)
LEMMA RunsReadyInv ==
  ASSUME IInv
  PROVE  RunsReady
<1> SUFFICES ASSUME NEW t \in Thread, pc[t] = "run", NEW x \in stmt[t].tabs
             PROVE  /\ inst[t][x].file # 0 /\ thr[t][x] = "has"
                    /\ x \in stmt[t].writes => inst[t][x].write
  BY DEF RunsReady
<1>1. Right(t)  BY DEF IInv
<1>2. x \in Opened(t) /\ (x \in stmt[t].writes => inst[t][x].write)
  BY <1>1 DEF Right, WantRight
<1>3. x \in Table /\ OpenRight(t, x)  BY <1>1, <1>2 DEF Right, Opened
<1>4. ~ MayBeClosed(t) /\ Holding(t)  BY DEF MayBeClosed, Holding
<1>. QED  BY <1>2, <1>3, <1>4 DEF OpenRight

(* What it says of FLUSH TABLES WITH READ LOCK. *)
LEMMA NobodyRunsWritesInv ==
  ASSUME IInv
  PROVE  NobodyRunsWrites
<1> SUFFICES ASSUME NEW t \in Thread, NEW u \in Thread,
                    HasReadLock(t), u # t, pc[u] = "run", stmt[u].writes # {}
             PROVE  FALSE
  BY DEF NobodyRunsWrites
<1>1. Right(t) /\ Right(u) /\ HolderRight(t)  BY DEF IInv
<1>2. PICK x \in stmt[u].writes : TRUE  OBVIOUS
<1>3. x \in Opened(u) /\ inst[u][x].write
  BY <1>1 DEF Right, LabelRight, WantRight, WellFormed
<1>4. Commits(u)  BY <1>3 DEF Commits, WritesOpened
<1>5. pc[t] \in Loop \cup {"flush"}
  BY <1>1, <1>4 DEF HolderRight, HasReadLock, Other
<1>6. Flushing(t)  BY <1>1, <1>5 DEF Right, LabelRight
<1>. QED  BY <1>5, <1>6 DEF HasReadLock

LEMMA TypeInv ==
  ASSUME IInv
  PROVE  TypeOK
BY CountersType DEF IInv, Data, TypeOK

(* The invariant holds in every state. *)
THEOREM Invariant == Spec => []IInv
<1>1. Init => IInv  BY InitInv
<1>2. IInv /\ [Next]_vars => IInv'  BY NextInv
<1>. QED  BY <1>1, <1>2, PTL DEF Spec

(* The variables keep their types. *)
THEOREM Types == Spec => []TypeOK
<1>1. IInv => TypeOK  BY TypeInv
<1>. QED  BY <1>1, Invariant, PTL

(* Whatever way FLUSH TABLES WITH READ LOCK, UNLOCK TABLES, TRUNCATE, KILL   *)
(* and the end of a connection go, global_read_lock counts the threads that  *)
(* hold the global read lock and protect_against_global_read_lock those it   *)
(* has to wait for (lock.cc): neither is left too high or falls below zero.  *)
THEOREM CountersRight == Spec => []ReadLockCounts
<1>1. IInv => ReadLockCounts  BY DEF IInv
<1>. QED  BY <1>1, Invariant, PTL

(* A statement that has come through mysql_lock_tables (lock.cc), its        *)
(* retries, wait_for_tables and the FLUSH TABLES of its own thread has the   *)
(* files of all its tables open and their locks.                             *)
THEOREM RunReady == Spec => []RunsReady
<1>1. IInv => RunsReady  BY RunsReadyInv
<1>. QED  BY <1>1, Invariant, PTL

-----------------------------------------------------------------------------
(* FLUSH TABLES WITH READ LOCK and the statements it waits for exclude one   *)
(* another.                                                                  *)
NotBoth == global_read_lock > 0 => protect_against_global_read_lock = 0

(* What a step does to the two counters, and, while there is a global read   *)
(* lock, to the files.                                                       *)
CountersStep ==
  \/ /\ global_read_lock' \in {global_read_lock, global_read_lock - 1}
     /\ protect_against_global_read_lock' \in
          {protect_against_global_read_lock, protect_against_global_read_lock - 1}
  \/ global_read_lock' = global_read_lock /\ global_read_lock = 0
  \/ /\ protect_against_global_read_lock' = protect_against_global_read_lock
     /\ protect_against_global_read_lock = 0
FilesStep(t) ==
  global_read_lock > 0 =>
    /\ pc'[t] \in PastTest => pc'[t] = pc[t] \/ Protected(t)
    /\ file' # file => pc'[t] # pc[t] /\ (pc[t] \in PastTest \/ Op(t) = "rename")

(* A statement that is still in front of the test of the global read lock    *)
(* stays there, or does not change files.                                    *)
LEMMA ReadLockSteps ==
  ASSUME IInv, NEW t \in Thread, Begin(t) \/ Step(t) \/ kill(t)
  PROVE  CountersStep /\ FilesStep(t)
<1>1. /\ Data /\ pc[t] \in Label /\ global_read_lock \in Nat
      /\ protect_against_global_read_lock \in Nat
  BY CountersType DEF IInv, Data
<1>2. CASE begin_query(t)
  BY <1>1, <1>2 DEF CountersStep, FilesStep, PastTest, Data, begin_query,
     Starts, Goto
<1>3. CASE begin_flush(t)
  BY <1>1, <1>3 DEF CountersStep, FilesStep, PastTest, Data, begin_flush,
     Starts, Goto
<1>4. CASE begin_ddl(t)
  BY <1>1, <1>4 DEF CountersStep, FilesStep, PastTest, Data, begin_ddl,
     Starts, Goto
<1>5. CASE unlock_tables(t)
  BY <1>1, <1>5 DEF CountersStep, FilesStep, PastTest, Data, unlock_tables,
     unlock_global_read_lock, Goto
<1>6. CASE open_killed(t)
  BY <1>1, <1>6 DEF CountersStep, FilesStep, PastTest, Data, open_killed, Goto
<1>7. CASE open_refused(t)
  BY <1>1, <1>7 DEF CountersStep, FilesStep, PastTest, Data, open_refused, Goto
<1>8. CASE open_waits(t)
  BY <1>1, <1>8 DEF CountersStep, FilesStep, PastTest, Data, open_waits,
     WaitAt, Goto
<1>9. CASE open_cached(t)
  BY <1>1, <1>9 DEF CountersStep, FilesStep, PastTest, Data, open_cached,
     Open, Goto
<1>10. CASE open_new(t)
  BY <1>1, <1>10 DEF CountersStep, FilesStep, PastTest, Data, open_new, Open,
     Goto
<1>11. CASE open_fails(t)
  BY <1>1, <1>11 DEF CountersStep, FilesStep, PastTest, Data, open_fails, Goto
<1>12. CASE refresh(t)
  BY <1>1, <1>12 DEF CountersStep, FilesStep, PastTest, Data, refresh, Goto
<1>13. CASE lock_tables(t)
  BY <1>1, <1>13 DEF CountersStep, FilesStep, PastTest, Data, lock_tables, Goto
<1>14. CASE wait_if_waits(t)
  BY <1>1, <1>14 DEF CountersStep, FilesStep, PastTest, Data, wait_if_waits,
     WaitAt, Goto
<1>15. CASE wait_if_fails(t)
  BY <1>1, <1>15 DEF CountersStep, FilesStep, PastTest, Data, wait_if_fails,
     lock_failed, Goto
<1>16. CASE wait_if_done(t)
  BY <1>1, <1>16 DEF CountersStep, FilesStep, PastTest, Data, wait_if_done,
     InWaitIf, ForName, MustWaitIf, WaitIfFails, Goto
<1>17. CASE thr_grants(t)
  BY <1>1, <1>17 DEF CountersStep, FilesStep, PastTest, Data, thr_grants, Goto
<1>18. CASE thr_waits(t)
  BY <1>1, <1>18 DEF CountersStep, FilesStep, PastTest, Data, thr_waits
<1>19. CASE thr_fails(t)
  BY <1>1, <1>19 DEF CountersStep, FilesStep, PastTest, Data, thr_fails, Goto
<1>20. CASE lock_again(t)
  BY <1>1, <1>20 DEF CountersStep, FilesStep, PastTest, Data, lock_again, Goto
<1>21. CASE lock_killed(t)
  BY <1>1, <1>21 DEF CountersStep, FilesStep, PastTest, Data, lock_killed,
     lock_failed, Goto
<1>22. CASE lock_done(t)
  BY <1>1, <1>22 DEF CountersStep, FilesStep, PastTest, Data, lock_done, Goto
<1>23. CASE wait_tables_killed(t)
  BY <1>1, <1>23 DEF CountersStep, FilesStep, PastTest, Data,
     wait_tables_killed, lock_failed, Goto
<1>24. CASE wait_for_tables(t)
  BY <1>1, <1>24 DEF CountersStep, FilesStep, PastTest, Data, wait_for_tables,
     WaitAt, lock_failed, Goto
<1>25. CASE cond_wait(t)
  BY <1>1, <1>25 DEF CountersStep, FilesStep, PastTest, Data, cond_wait
<1>26. CASE run_done(t)
  BY <1>1, <1>26 DEF CountersStep, FilesStep, PastTest, Data, run_done, Goto
<1>27. CASE unlock(t)
  BY <1>1, <1>27 DEF CountersStep, FilesStep, PastTest, Data, unlock, Goto
<1>28. CASE close_thread_tables(t)
  BY <1>1, <1>28 DEF CountersStep, FilesStep, PastTest, Data,
     close_thread_tables, Goto
<1>29. CASE cleanup(t)
  BY <1>1, <1>29 DEF CountersStep, FilesStep, PastTest, Data, cleanup, Goto
<1>30. CASE disconnect(t)
  BY <1>1, <1>30 DEF CountersStep, FilesStep, PastTest, Data, disconnect,
     unlock_global_read_lock, Goto
<1>31. CASE lock_global_read_lock(t)
  BY <1>1, <1>31 DEF CountersStep, FilesStep, PastTest, Data,
     lock_global_read_lock, WaitAt, Done, Goto
<1>32. CASE close_cached_tables(t)
  BY <1>1, <1>32 DEF CountersStep, FilesStep, PastTest, Data,
     close_cached_tables, Goto
<1>33. CASE flush_waits(t)
  BY <1>1, <1>33 DEF CountersStep, FilesStep, PastTest, Data, flush_waits,
     WaitAt, Goto
<1>34. CASE flush_reopens(t)
  BY <1>1, <1>34 DEF CountersStep, FilesStep, PastTest, Data, flush_reopens,
     Done, Goto
<1>35. CASE flush_end(t)
  BY <1>1, <1>35 DEF CountersStep, FilesStep, PastTest, Data, flush_end, Done,
     Goto
<1>36. CASE drop_refused(t)
  BY <1>1, <1>36 DEF CountersStep, FilesStep, PastTest, Data, drop_refused,
     Done, Goto
<1>37. CASE drop_waits(t)
  BY <1>1, <1>37 DEF CountersStep, FilesStep, PastTest, Data, drop_waits,
     WaitAt, Goto
<1>38. CASE drop_waits_for_users(t)
  BY <1>1, <1>38 DEF CountersStep, FilesStep, PastTest, Data,
     drop_waits_for_users, InDropLoop, PastReadLock, WaitAt, Goto
<1>39. CASE drop_files(t)
  BY <1>1, <1>39 DEF CountersStep, FilesStep, PastTest, Data, drop_files,
     InDropLoop, PastReadLock, Goto
<1>40. CASE drop_unlocks_again(t)
  BY <1>1, <1>40 DEF CountersStep, FilesStep, PastTest, Data,
     drop_unlocks_again, Done, Goto
<1>41. CASE lock_names_wait(t)
  BY <1>1, <1>41 DEF CountersStep, FilesStep, PastTest, Data, lock_names_wait,
     WaitAt, Goto
<1>42. CASE lock_names(t)
  BY <1>1, <1>42 DEF CountersStep, FilesStep, PastTest, Data, lock_names, Goto
<1>43. CASE names_wait(t)
  BY <1>1, <1>43 DEF CountersStep, FilesStep, PastTest, Data, names_wait,
     WaitAt, Goto
<1>44. CASE names_locked(t)
  BY <1>1, <1>44 DEF CountersStep, FilesStep, PastTest, Data, names_locked,
     Goto
<1>45. CASE names_failed(t)
  BY <1>1, <1>45 DEF CountersStep, FilesStep, PastTest, Data, names_failed,
     Goto
<1>46. CASE start_waiting_global_read_lock(t)
  BY <1>1, <1>46 DEF CountersStep, FilesStep, PastTest, Data,
     start_waiting_global_read_lock, Protected, Goto
<1>47. CASE truncate(t)
  BY <1>1, <1>47 DEF CountersStep, FilesStep, PastTest, Data, truncate, Goto
<1>48. CASE rename(t)
  BY <1>1, <1>48 DEF CountersStep, FilesStep, PastTest, Data, rename, Goto
<1>49. CASE kill(t)
  BY <1>1, <1>49 DEF CountersStep, FilesStep, PastTest, Data, kill
<1>. QED
  BY <1>2, <1>3, <1>4, <1>5, <1>6, <1>7, <1>8, <1>9, <1>10, <1>11, <1>12,
     <1>13, <1>14, <1>15, <1>16, <1>17, <1>18, <1>19, <1>20, <1>21, <1>22,
     <1>23, <1>24, <1>25, <1>26, <1>27, <1>28, <1>29, <1>30, <1>31, <1>32,
     <1>33, <1>34, <1>35, <1>36, <1>37, <1>38, <1>39, <1>40, <1>41, <1>42,
     <1>43, <1>44, <1>45, <1>46, <1>47, <1>48, <1>49 DEF Begin, Step

LEMMA NotBothKept ==
  ASSUME IInv, IInv', NotBoth, CountersStep
  PROVE  NotBoth'
<1>1. \A S \in SUBSET Thread : Cardinality(S) \in Nat
  BY Constants, FS_Subset, FS_CardinalityType
<1>2. /\ global_read_lock \in Nat /\ protect_against_global_read_lock \in Nat
      /\ global_read_lock' \in Nat /\ protect_against_global_read_lock' \in Nat
  BY <1>1 DEF IInv, ReadLockCounts
<1>. QED  BY <1>2 DEF NotBoth, CountersStep

LEMMA NotBothInv == Spec => [](IInv /\ NotBoth)
<1>1. Init => NotBoth  BY DEF Init, NotBoth
<1>2. IInv /\ IInv' /\ NotBoth /\ [Next]_vars => NotBoth'
  <2> SUFFICES ASSUME IInv, IInv', NotBoth, [Next]_vars PROVE NotBoth'  OBVIOUS
  <2>1. CASE Next
    <3>1. PICK t \in Thread : Begin(t) \/ Step(t) \/ kill(t)  BY <2>1 DEF Next
    <3>. QED  BY <3>1, ReadLockSteps, NotBothKept
  <2>2. CASE UNCHANGED vars  BY <2>2 DEF vars, NotBoth
  <2>. QED  BY <2>1, <2>2
<1>. QED  BY <1>1, <1>2, Invariant, PTL DEF Spec

(* Nobody is protected when that counter is zero. *)
LEMMA NoProtected ==
  ASSUME ReadLockCounts, protect_against_global_read_lock = 0, NEW t \in Thread
  PROVE  ~ Protected(t)
<1> DEFINE P == {u \in Thread : Protected(u)}
<1>1. IsFiniteSet(P)  BY Constants, FS_Subset
<1>2. Cardinality(P) = 0  BY DEF ReadLockCounts, Protected
<1>3. P = {}  BY <1>1, <1>2, FS_EmptySet
<1>. QED  BY <1>3

LEMMA OnlyThoseBeforeStep ==
  ASSUME IInv, NotBoth, [Next]_vars
  PROVE  OnlyThoseBefore
<1> SUFFICES ASSUME NEW a \in Thread, HasReadLock(a)
             PROVE  /\ \A u \in Thread : pc'[u] \in PastTest => pc[u] = pc'[u]
                    /\ file' # file => \E u \in Thread :
                         pc'[u] # pc[u] /\ (pc[u] \in PastTest \/ Op(u) = "rename")
  BY DEF OnlyThoseBefore
<1>1. global_read_lock # 0  BY NoHolder DEF HasReadLock, IInv
<1>2. global_read_lock > 0  BY <1>1, CountersType
<1>3. \A u \in Thread : ~ Protected(u)  BY <1>2, NoProtected DEF NotBoth, IInv
<1>4. CASE Next
  <2>1. PICK t \in Thread : Begin(t) \/ Step(t) \/ kill(t)  BY <1>4 DEF Next
  <2>2. FilesStep(t) /\ Frame(t)  BY <2>1, ReadLockSteps, StepsRight DEF StepRight
  <2>3. \A u \in Thread \ {t} : pc'[u] = pc[u]  BY <2>2 DEF Frame, Untouched, Other
  <2>. QED  BY <1>2, <1>3, <2>2, <2>3 DEF FilesStep
<1>5. CASE UNCHANGED vars  BY <1>5 DEF vars
<1>. QED  BY <1>4, <1>5

(* While a thread has the global read lock, no other thread executes a       *)
(* statement that came through mysql_lock_tables and writes rows: the test   *)
(* there and the wait of close_cached_tables for older TABLEs leave no gap   *)
(* between them.  And no TRUNCATE or DROP comes past its own test, so that   *)
(* of these only the ones that had passed it before, and RENAME, still       *)
(* change files.                                                             *)
THEOREM NobodyWrites == Spec => ReadLockHolds
<1>1. IInv => NobodyRunsWrites  BY NobodyRunsWritesInv
<1>2. IInv /\ NotBoth /\ [Next]_vars => [OnlyThoseBefore]_vars
  BY OnlyThoseBeforeStep
<1>. QED  BY <1>1, <1>2, NotBothInv, PTL DEF Spec, ReadLockHolds

-----------------------------------------------------------------------------
(* No thread keeps the files of a table that DROP, TRUNCATE or RENAME TABLE  *)
(* has changed.                                                              *)
USE DEF Begins, Locking, Loop, FlushPc, DropPc, Naming, NamePc, Ends, Calm, Waits

(* TRUNCATE asks once for TABLEs with open files and overlooks one that       *)
(* FLUSH TABLES has closed and will open again (README, section 5).           *)
Apart ==
  \/ \A t \in Thread : \A s \in Statement[t] : s.op # "truncate"
  \/ \A t \in Thread : \A s, r \in Statement[t] :
       ~ (s.op = "lock" /\ r.op \in {"flush", "read_lock"})

(* What a thread says, and has said before it has LOCK TABLES. *)
Legal(t) ==
  /\ stmt[t] \in Statement[t] \/ stmt[t].op = "query"
  /\ locked_tables[t] => \E s \in Statement[t] : s.op = "lock"

(* FLUSH TABLES has made the TABLEs of its own thread old. *)
FlusherPc(t) ==
  pc[t] \in Loop \cup {"flush_end"} \/ (pc[t] \in Locking /\ Flushing(t))
Flusher(t) == FlusherPc(t) => version[t] < refresh_version

(* A TABLE of x that close_thread_table will not keep. *)
Passing(u, x) ==
  \/ inst[u][x].version = 0
  \/ version[u] < refresh_version /\ pc[u] \notin Begins

(* Once a thread has a name lock of x, files of x that are open go away, and  *)
(* when it is done waiting there are none.                                    *)
Named(t, x) ==
  /\ unused[x] = {}
  /\ \A u \in Other(t) : inst[u][x].file # 0 => pc[t] = "name_wait" /\ Passing(u, x)
Name(t) == pc[t] \in Naming => \A x \in stmt[t].tabs : Named(t, x)

Cur ==
  /\ OpenIsCurrent
  /\ \A t \in Thread : Name(t) /\ Flusher(t) /\ Legal(t)

-----------------------------------------------------------------------------
(* What a step of thread t must show for Cur. *)

(* It opens nothing behind a name lock, and leaves nothing there for others.  *)
NamesRespected(t) ==
  \A a \in Other(t) : pc[a] \in Naming => \A x \in stmt[a].tabs :
    /\ unused'[x] = {}
    /\ inst'[t][x].file # 0 => pc[a] = "name_wait" /\ Passing(t, x)'
CurStep(t) ==
  /\ OpenIsCurrent' /\ NamesRespected(t)
  /\ Name(t)' /\ Flusher(t)'

(* What LOCK TABLES and a statement may become. *)
LegalStep(t) ==
  /\ stmt'[t] = stmt[t] \/ stmt'[t] \in Statement[t]
  /\ locked_tables'[t] => \/ locked_tables[t]
                          \/ pc[t] = "run" /\ Op(t) = "lock"

(* A step that opens no files, keeps none and changes none. *)
Quiet(t) ==
  /\ file' = file /\ refresh_version' = refresh_version
  /\ \A x \in Table : unused'[x] \subseteq unused[x]
  /\ \A x \in Table : inst'[t][x].file # 0 =>
       /\ inst'[t][x].file = inst[t][x].file
       /\ inst'[t][x].version \in {inst[t][x].version, 0}
  /\ version'[t] = version[t] \/ Opened(t) = {}
  /\ pc'[t] \in Begins => pc[t] \in Begins \/ Opened(t) = {}
  /\ pc'[t] \in Naming =>
       /\ pc[t] \in Naming /\ stmt'[t] = stmt[t]
       /\ pc'[t] = "name_wait" <=> pc[t] = "name_wait"
  /\ FlusherPc(t)' => FlusherPc(t) /\ version'[t] = version[t]

-----------------------------------------------------------------------------
(* The frame. *)

(* Only a TABLE that a thread has opened has files. *)
LEMMA FilesOpened ==
  ASSUME NEW u \in Thread, Right(u), NEW x \in Table, inst[u][x].file # 0
  PROVE  x \in Opened(u)
<1>1. InstRight(u, x) /\ NoTable.file = 0 /\ NameLock.file = 0
  BY DEF Right, NoTable, NameLock
<1>. QED  BY <1>1 DEF InstRight, Opened

LEMMA NamesAreTables ==
  ASSUME NEW t \in Thread, Right(t)
  PROVE  stmt[t].tabs \subseteq Table /\ stmt[t].writes \subseteq Table
BY DEF Right, LabelRight, WellFormed, StatementType

LEMMA CurKeeps ==
  ASSUME IInv, Cur, NEW t \in Thread, StepRight(t), CurStep(t), LegalStep(t)
  PROVE  Cur'
<1>1. Data /\ Data' /\ Frame(t) /\ Counts(t) /\ Bounded
  BY DEF IInv, StepRight
<1>2. refresh_version <= refresh_version' /\ refresh_version \in Nat
      /\ refresh_version' \in Nat
  BY <1>1, CountsKept DEF IInv, Bounded
<1>3. \A u \in Thread : version[u] \in Nat  BY <1>1, Constants DEF Data
<1>4. ASSUME NEW u \in Other(t)
      PROVE  /\ u \in Thread /\ Untouched(u) /\ pc'[u] = pc[u] /\ stmt'[u] = stmt[u]
             /\ version'[u] = version[u] /\ locked_tables'[u] = locked_tables[u]
             /\ \A x \in Table : /\ inst'[u][x].file = inst[u][x].file
                                 /\ Passing(u, x) => Passing(u, x)'
  <2>1. u \in Thread /\ Untouched(u)  BY <1>1 DEF Frame, Other
  <2>2. \A x \in Table : /\ inst'[u][x].file = inst[u][x].file
                         /\ inst'[u][x].version <= inst[u][x].version
    BY <1>1, <2>1, OthersSame
  <2>3. \A x \in Table : inst'[u][x].version \in Nat /\ inst[u][x].version \in Nat
    BY <1>1, <2>1, Constants DEF Data, TableType
  <2>4. \A x \in Table : inst[u][x].version = 0 => inst'[u][x].version = 0
    BY <2>2, <2>3
  <2>5. pc'[u] = pc[u] /\ stmt'[u] = stmt[u] /\ version'[u] = version[u]
        /\ locked_tables'[u] = locked_tables[u]
    BY <2>1 DEF Untouched
  <2>6. version[u] < refresh_version => version'[u] < refresh_version'
    BY <1>2, <1>3, <2>1, <2>5
  <2>. QED  BY <2>1, <2>2, <2>4, <2>5, <2>6 DEF Passing
<1>5. ASSUME NEW u \in Thread PROVE Flusher(u)'
  <2>1. CASE u = t  BY <2>1 DEF CurStep
  <2>2. CASE u # t
    <3>1. u \in Other(t) /\ Flusher(u)  BY <2>2 DEF Other, Cur
    <3>. QED  BY <1>2, <1>3, <1>4, <3>1 DEF Flusher, FlusherPc, Flushing, Op
  <2>. QED  BY <2>1, <2>2
<1>6. ASSUME NEW u \in Thread PROVE Legal(u)'
  <2>1. Legal(u)  BY DEF Cur
  <2>2. CASE u = t
    <3>1. pc[t] = "run" /\ Op(t) = "lock" => \E s \in Statement[t] : s.op = "lock"
      BY <2>1, <2>2 DEF Legal, Op
    <3>. QED  BY <2>1, <2>2, <3>1 DEF Legal, LegalStep
  <2>3. CASE u # t
    <3>1. u \in Other(t)  BY <2>3 DEF Other
    <3>. QED  BY <1>4, <2>1, <3>1 DEF Legal
  <2>. QED  BY <2>2, <2>3
<1>7. ASSUME NEW a \in Thread PROVE Name(a)'
  <2>1. CASE a = t  BY <2>1 DEF CurStep
  <2>2. CASE a # t
    <3>1. a \in Other(t) /\ Name(a) /\ Right(a)  BY <2>2 DEF Other, Cur, IInv
    <3>2. pc'[a] = pc[a] /\ stmt'[a] = stmt[a]  BY <1>4, <3>1
    <3> SUFFICES ASSUME pc[a] \in Naming, NEW x \in stmt[a].tabs PROVE Named(a, x)'
      BY <3>2 DEF Name
    <3>3. x \in Table  BY <3>1, NamesAreTables
    <3>4. Named(a, x)  BY <3>1 DEF Name
    <3>5. unused'[x] = {} /\ (inst'[t][x].file # 0 => pc[a] = "name_wait" /\ Passing(t, x)')
      BY <3>1 DEF CurStep, NamesRespected
    <3>6. ASSUME NEW u \in Other(a), inst'[u][x].file # 0
          PROVE  pc'[a] = "name_wait" /\ Passing(u, x)'
      <4>1. CASE u = t  BY <3>2, <3>5, <3>6, <4>1
      <4>2. CASE u # t
        <5>1. u \in Other(t)  BY <4>2 DEF Other
        <5>2. inst[u][x].file # 0  BY <1>4, <3>3, <3>6, <5>1
        <5>3. pc[a] = "name_wait" /\ Passing(u, x)  BY <3>4, <5>2 DEF Named
        <5>. QED  BY <1>4, <3>2, <3>3, <5>1, <5>3
      <4>. QED  BY <4>1, <4>2
    <3>. QED  BY <3>5, <3>6 DEF Named, Other
  <2>. QED  BY <2>1, <2>2
<1>. QED  BY <1>5, <1>6, <1>7 DEF Cur, CurStep

(* A step of t that changes no file on disk: what it opens is current. *)
LEMMA CurrentKept ==
  ASSUME IInv, Cur, NEW t \in Thread, StepRight(t), file' = file,
         \A x \in Table : inst'[t][x].file \in {0, inst[t][x].file, file[x]},
         \A x \in Table : \A i \in unused'[x] : i \in unused[x] \/ i.file = file[x]
  PROVE  OpenIsCurrent'
<1>1. Data /\ Frame(t) /\ OpenIsCurrent  BY DEF IInv, StepRight, Cur
<1>2. ASSUME NEW x \in Table, NEW u \in Thread, inst'[u][x].file # 0
      PROVE  inst'[u][x].file = file'[x]
  <2>1. CASE u = t  BY <1>1, <1>2, <2>1 DEF OpenIsCurrent
  <2>2. CASE u # t
    <3>1. Untouched(u)  BY <1>1, <2>2 DEF Frame, Other
    <3>2. inst'[u][x].file = inst[u][x].file  BY <1>1, <3>1, OthersSame
    <3>. QED  BY <1>1, <1>2, <3>2 DEF OpenIsCurrent
  <2>. QED  BY <2>1, <2>2
<1>3. \A x \in Table : \A i \in unused'[x] : i.file = file'[x]
  BY <1>1 DEF OpenIsCurrent
<1>. QED  BY <1>2, <1>3 DEF OpenIsCurrent

LEMMA QuietStep ==
  ASSUME IInv, Cur, NEW t \in Thread, StepRight(t), Quiet(t)
  PROVE  CurStep(t)
<1>1. Data /\ Right(t) /\ Name(t) /\ Flusher(t)  BY DEF IInv, Cur
<1>2. OpenIsCurrent'
  <2>1. \A x \in Table : inst'[t][x].file \in {0, inst[t][x].file, file[x]}
    BY DEF Quiet
  <2>2. \A x \in Table : \A i \in unused'[x] : i \in unused[x] \/ i.file = file[x]
    BY DEF Quiet
  <2>. QED  BY <2>1, <2>2, CurrentKept DEF Quiet
<1>3. ASSUME NEW x \in Table, inst'[t][x].file # 0, Passing(t, x)
      PROVE  Passing(t, x)'
  <2>1. /\ inst[t][x].file # 0
        /\ inst'[t][x].version \in {inst[t][x].version, 0}
    BY <1>3 DEF Quiet
  <2>2. x \in Opened(t)  BY <1>1, <2>1, FilesOpened
  <2>. QED  BY <1>3, <2>1, <2>2 DEF Quiet, Passing
<1>4. ASSUME NEW a \in Other(t), pc[a] \in Naming, NEW x \in stmt[a].tabs
      PROVE  /\ unused'[x] = {}
             /\ inst'[t][x].file # 0 => pc[a] = "name_wait" /\ Passing(t, x)'
  <2>1. a \in Thread /\ Right(a) /\ Name(a) /\ t \in Other(a)  BY DEF Other, IInv, Cur
  <2>2. x \in Table /\ Named(a, x)  BY <1>4, <2>1, NamesAreTables DEF Name
  <2>3. unused'[x] = {}  BY <2>2 DEF Named, Quiet
  <2>4. inst'[t][x].file # 0 => inst[t][x].file # 0  BY <2>2 DEF Quiet
  <2>. QED  BY <1>3, <2>1, <2>2, <2>3, <2>4 DEF Named
<1>5. Name(t)'
  <2> SUFFICES ASSUME pc'[t] \in Naming, NEW x \in stmt'[t].tabs PROVE Named(t, x)'
    BY DEF Name
  <2>1. /\ pc[t] \in Naming /\ stmt'[t] = stmt[t]
        /\ pc'[t] = "name_wait" <=> pc[t] = "name_wait"
    BY DEF Quiet
  <2>2. x \in Table /\ Named(t, x)  BY <1>1, <2>1, NamesAreTables DEF Name
  <2>3. unused'[x] = {}  BY <2>2 DEF Named, Quiet
  <2>4. ASSUME NEW u \in Other(t), inst'[u][x].file # 0
        PROVE  pc'[t] = "name_wait" /\ Passing(u, x)'
    <3>1. u \in Thread /\ Untouched(u) /\ refresh_version' = refresh_version
      BY DEF Other, StepRight, Frame, Quiet
    <3>2. inst'[u][x].file = inst[u][x].file /\ inst'[u][x].version <= inst[u][x].version
      BY <1>1, <2>2, <3>1, OthersSame
    <3>3. inst'[u][x].version \in Nat /\ inst[u][x].version \in Nat
      BY <2>2, <3>1, Constants DEF IInv, StepRight, Data, TableType
    <3>4. pc[t] = "name_wait" /\ Passing(u, x)  BY <2>2, <2>4, <3>2 DEF Named
    <3>. QED  BY <2>1, <3>1, <3>2, <3>3, <3>4 DEF Passing, Untouched
  <2>. QED  BY <2>3, <2>4 DEF Named, Other
<1>6. Flusher(t)'  BY <1>1 DEF Quiet, Flusher
<1>. QED  BY <1>2, <1>4, <1>5, <1>6 DEF CurStep, NamesRespected

(* Most steps are quiet. *)
LEMMA QuietSteps ==
  ASSUME IInv, NEW t \in Thread,
         open_killed(t) \/ open_refused(t) \/ open_fails(t) \/ lock_tables(t)
         \/ wait_if_waits(t) \/ wait_if_fails(t) \/ wait_if_done(t)
         \/ thr_grants(t) \/ thr_waits(t) \/ thr_fails(t) \/ lock_again(t)
         \/ lock_killed(t) \/ lock_done(t) \/ wait_tables_killed(t)
         \/ cond_wait(t) \/ run_done(t) \/ unlock(t) \/ cleanup(t)
         \/ disconnect(t) \/ lock_global_read_lock(t) \/ flush_waits(t)
         \/ drop_refused(t) \/ drop_waits(t) \/ drop_unlocks_again(t)
         \/ names_wait(t) \/ start_waiting_global_read_lock(t) \/ kill(t)
         \/ begin_flush(t) \/ begin_ddl(t) \/ unlock_tables(t)
  PROVE  Quiet(t)
<1>1. /\ Data /\ LabelRight(t) /\ pc[t] \in Label
      /\ \A x \in Table : OpenRight(t, x)
  BY DEF IInv, Right, Data
<1>2. CASE open_killed(t)
  BY <1>1, <1>2 DEF Quiet, FlusherPc, Flushing, Op, Data, LabelRight,
     open_killed, Goto
<1>3. CASE open_refused(t)
  BY <1>1, <1>3 DEF Quiet, FlusherPc, Flushing, Op, Data, LabelRight,
     open_refused, Goto, Opening, ThdVersion
<1>4. CASE open_fails(t)
  BY <1>1, <1>4 DEF Quiet, FlusherPc, Flushing, Op, Data, LabelRight,
     open_fails, Goto, NotCached, Opening, ThdVersion
<1>5. CASE lock_tables(t)
  BY <1>1, <1>5 DEF Quiet, FlusherPc, Flushing, Op, Data, LabelRight,
     lock_tables, Goto
<1>6. CASE wait_if_waits(t)
  BY <1>1, <1>6 DEF Quiet, FlusherPc, Flushing, Op, Data, LabelRight,
     wait_if_waits, WaitAt, Goto, InWaitIf, ForName
<1>7. CASE wait_if_fails(t)
  BY <1>1, <1>7 DEF Quiet, FlusherPc, Flushing, Op, Data, LabelRight,
     wait_if_fails, lock_failed, Goto, InWaitIf
<1>8. CASE wait_if_done(t)
  BY <1>1, <1>8 DEF Quiet, FlusherPc, Flushing, Op, Data, LabelRight,
     wait_if_done, Goto, InWaitIf, ForName
<1>9. CASE thr_grants(t)
  BY <1>1, <1>9 DEF Quiet, FlusherPc, Flushing, Op, Data, LabelRight,
     thr_grants, Goto
<1>10. CASE thr_waits(t)
  BY <1>1, <1>10 DEF Quiet, FlusherPc, Flushing, Op, Data, LabelRight,
     thr_waits
<1>11. CASE thr_fails(t)
  BY <1>1, <1>11 DEF Quiet, FlusherPc, Flushing, Op, Data, LabelRight,
     thr_fails, Goto
<1>12. CASE lock_again(t)
  BY <1>1, <1>12 DEF Quiet, FlusherPc, Flushing, Op, Data, LabelRight,
     lock_again, Goto
<1>13. CASE lock_killed(t)
  BY <1>1, <1>13 DEF Quiet, FlusherPc, Flushing, Op, Data, LabelRight,
     lock_killed, lock_failed, Goto
<1>14. CASE lock_done(t)
  BY <1>1, <1>14 DEF Quiet, FlusherPc, Flushing, Op, Data, LabelRight,
     lock_done, Goto
<1>15. CASE wait_tables_killed(t)
  BY <1>1, <1>15 DEF Quiet, FlusherPc, Flushing, Op, Data, LabelRight,
     wait_tables_killed, lock_failed, Goto, InWaitTables
<1>16. CASE cond_wait(t)
  BY <1>1, <1>16 DEF Quiet, FlusherPc, Flushing, Op, Data, LabelRight,
     cond_wait
<1>17. CASE run_done(t)
  BY <1>1, <1>17 DEF Quiet, FlusherPc, Flushing, Op, Data, LabelRight,
     run_done, Goto
<1>18. CASE unlock(t)
  BY <1>1, <1>18 DEF Quiet, FlusherPc, Flushing, Op, Data, LabelRight, unlock,
     Goto
<1>19. CASE cleanup(t)
  BY <1>1, <1>19 DEF Quiet, FlusherPc, Flushing, Op, Data, LabelRight,
     cleanup, Goto
<1>20. CASE disconnect(t)
  BY <1>1, <1>20 DEF Quiet, FlusherPc, Flushing, Op, Data, LabelRight,
     disconnect, unlock_global_read_lock, Goto
<1>21. CASE lock_global_read_lock(t)
  BY <1>1, <1>21 DEF Quiet, FlusherPc, Flushing, Op, Data, LabelRight,
     lock_global_read_lock, WaitAt, Done, Goto
<1>22. CASE flush_waits(t)
  BY <1>1, <1>22 DEF Quiet, FlusherPc, Flushing, Op, Data, LabelRight,
     flush_waits, WaitAt, Goto, InFlushLoop
<1>23. CASE drop_refused(t)
  BY <1>1, <1>23 DEF Quiet, FlusherPc, Flushing, Op, Data, LabelRight,
     drop_refused, Done, Goto
<1>24. CASE drop_waits(t)
  BY <1>1, <1>24 DEF Quiet, FlusherPc, Flushing, Op, Data, LabelRight,
     drop_waits, WaitAt, Goto
<1>25. CASE drop_unlocks_again(t)
  BY <1>1, <1>25 DEF Quiet, FlusherPc, Flushing, Op, Data, LabelRight,
     drop_unlocks_again, Done, Goto
<1>26. CASE names_wait(t)
  BY <1>1, <1>26 DEF Quiet, FlusherPc, Flushing, Op, Data, LabelRight,
     names_wait, WaitAt, Goto
<1>27. CASE start_waiting_global_read_lock(t)
  BY <1>1, <1>27 DEF Quiet, FlusherPc, Flushing, Op, Data, LabelRight,
     start_waiting_global_read_lock, Goto
<1>28. CASE kill(t)
  BY <1>1, <1>28 DEF Quiet, FlusherPc, Flushing, Op, Data, LabelRight, kill,
     Leave, Broadcast
<1>29. CASE begin_flush(t)
  BY <1>1, <1>29 DEF Quiet, FlusherPc, Flushing, Op, Data, LabelRight,
     begin_flush, Starts, Goto
<1>30. CASE begin_ddl(t)
  BY <1>1, <1>30 DEF Quiet, FlusherPc, Flushing, Op, Data, LabelRight,
     begin_ddl, Starts, Goto
<1>31. CASE unlock_tables(t)
  BY <1>1, <1>31 DEF Quiet, FlusherPc, Flushing, Op, Data, LabelRight,
     unlock_tables, unlock_global_read_lock, Goto
<1>. QED
  BY <1>2, <1>3, <1>4, <1>5, <1>6, <1>7, <1>8, <1>9, <1>10, <1>11, <1>12,
     <1>13, <1>14, <1>15, <1>16, <1>17, <1>18, <1>19, <1>20, <1>21, <1>22,
     <1>23, <1>24, <1>25, <1>26, <1>27, <1>28, <1>29, <1>30, <1>31

(* A new query has nothing open, or runs under LOCK TABLES. *)
LEMMA begin_query_cur ==
  ASSUME IInv, NEW t \in Thread, begin_query(t)
  PROVE  Quiet(t)
<1>1. /\ Data /\ LabelRight(t) /\ \A x \in Table : OpenRight(t, x)
  BY DEF IInv, Right
<1>2. /\ pc[t] = "idle" /\ UNCHANGED <<file, unused, inst, refresh_version, version>>
      /\ \/ ~ locked_tables[t] /\ pc' = [pc EXCEPT ![t] = "open"]
         \/ pc' = [pc EXCEPT ![t] = "run"]
  BY DEF begin_query, Starts, Goto
<1>3. ~ locked_tables[t] => Opened(t) = {}  BY <1>1, <1>2 DEF OpenRight, Opened
<1>. QED  BY <1>1, <1>2, <1>3 DEF Quiet, FlusherPc, Data

(* close_old_data_files opens nothing. *)
LEMMA open_waits_cur ==
  ASSUME IInv, NEW t \in Thread, open_waits(t)
  PROVE  Quiet(t)
<1>1. Data /\ LabelRight(t) /\ refresh_version \in 1 .. MaxVersion
  BY CountersType DEF IInv, Right
<1>2. /\ pc[t] = "open" /\ pc' = [pc EXCEPT ![t] = "refresh"] /\ inst' = ClosedOld(t)
      /\ UNCHANGED <<file, unused, refresh_version, stmt>>
      /\ version' = [version EXCEPT ![t] = ThdVersion(t)]
      /\ ThdVersion(t) = refresh_version
  BY DEF open_waits, Opening, WaitAt, Goto
<1>3. \A x \in Table : inst'[t][x].file # 0 => inst'[t][x] = inst[t][x]
  BY <1>1, <1>2, ClosedOldSame
<1>4. version'[t] = version[t] \/ Opened(t) = {}
  BY <1>1, <1>2 DEF ThdVersion, Data
<1>. QED  BY <1>1, <1>2, <1>3, <1>4 DEF Quiet, FlusherPc, Data

(* Nor does the first half of DROP. *)
LEMMA drop_waits_for_users_cur ==
  ASSUME IInv, NEW t \in Thread, drop_waits_for_users(t)
  PROVE  Quiet(t)
<1>1. Data /\ refresh_version \in 1 .. MaxVersion
  BY CountersType DEF IInv
<1>2. /\ pc' = [pc EXCEPT ![t] = "drop_wait"]
      /\ UNCHANGED <<file, refresh_version, version, stmt>>
      /\ remove_table_from_cache(t, inst, {Dropped(t)})
  BY DEF drop_waits_for_users, WaitAt, Goto
<1>3. /\ \A x \in Table : unused'[x] \subseteq unused[x]
      /\ \A x \in Table : inst'[t][x] = inst[t][x] \/ inst'[t][x] = Old(inst[t][x])
  <2>1. inst \in [Thread -> [Table -> TableType]] /\ \A u \in Other(t) : inst[u] = inst[u]
    BY <1>1 DEF Data
  <2>. QED  BY <1>1, <1>2, <2>1, RemoveKeeps
<1>4. \A x \in Table : /\ inst'[t][x].file = inst[t][x].file
                       /\ inst'[t][x].version \in {inst[t][x].version, 0}
  <2>1. \A x \in Table : inst[t][x] \in TableType  BY <1>1 DEF Data
  <2>. QED  BY <1>3, <2>1, OldSame
<1>. QED  BY <1>1, <1>2, <1>3, <1>4 DEF Quiet, FlusherPc, Data

(* A thread that is not inside a statement on tables has no files. *)
Without(t) ==
  ~ locked_tables[t] /\ pc[t] \notin Begins \cup Locking \cup Ends \cup {"run"}
LEMMA NoFiles ==
  ASSUME NEW t \in Thread, Right(t), Without(t)
  PROVE  \A x \in Table : inst[t][x].file = 0
<1>1. \A x \in Table : x \notin Opened(t)  BY DEF Without, Right, OpenRight
<1>. QED  BY <1>1, FilesOpened
LEMMA NoFilesNext ==
  ASSUME NEW t \in Thread, StepRight(t), Without(t)' \/ Opened(t)' = {}
  PROVE  \A x \in Table : inst'[t][x].file = 0
<1>1. \A x \in Table : x \notin Opened(t)'
  BY DEF Without, StepRight, Right, OpenRight
<1>2. NoTable.file = 0 /\ NameLock.file = 0  BY DEF NoTable, NameLock
<1>. QED  BY <1>1, <1>2 DEF StepRight, Right, InstRight, Opened

(* A name lock that fails. *)
LEMMA names_failed_cur ==
  ASSUME IInv, NEW t \in Thread, StepRight(t), names_failed(t)
  PROVE  Quiet(t)
<1>1. Data /\ Data' /\ Right(t) /\ LabelRight(t) /\ refresh_version \in 1 .. MaxVersion
  BY CountersType DEF IInv, StepRight, Right
<1>2. /\ pc[t] \in {"name_lock", "name_wait"}
      /\ pc' = [pc EXCEPT ![t] = IF Op(t) = "truncate" THEN "name_failed" ELSE "unlock"]
      /\ UNCHANGED <<file, refresh_version, version, stmt, locked_tables>>
      /\ unused' = [x \in Table |-> IF x \in (IF pc[t] = "name_lock" THEN stmt[t].tabs ELSE {})
                                    THEN {} ELSE unused[x]]
      /\ inst' = Outdated(NamesUnlocked(t), IF pc[t] = "name_lock" THEN stmt[t].tabs ELSE {})
  BY DEF names_failed, remove_table_from_cache, Goto
<1>3. \A x \in Table : unused'[x] \subseteq unused[x]  BY <1>2
<1>4. \A x \in Table : inst'[t][x].file = 0
  <2>1. stmt[t].tabs \subseteq Table  BY <1>1, NamesAreTables
  <2>2. \A x \in Table : inst[t][x].file = 0  BY <1>1, <1>2, NoFiles DEF Without, LabelRight
  <2>3. \A x \in Table : NamesUnlocked(t)[t][x] \in TableType /\ NamesUnlocked(t)[t][x].file = 0
    BY <1>1, <2>2, NoTableSame DEF NamesUnlocked, Data
  <2>4. \A x \in Table : inst'[t][x] \in {NamesUnlocked(t)[t][x],
                                           [NamesUnlocked(t)[t][x] EXCEPT !.version = 0]}
    BY <1>2 DEF Outdated
  <2> DEFINE N == NamesUnlocked(t)
  <2> HIDE DEF N
  <2>5. \A i \in TableType : [i EXCEPT !.version = 0].file = i.file  BY DEF TableType
  <2>. QED  BY <2>3, <2>4, <2>5
<1>. QED  BY <1>1, <1>2, <1>3, <1>4 DEF Quiet, FlusherPc, Data

-----------------------------------------------------------------------------
(* The steps that open, keep or change files. *)

(* What another thread has a name lock of. *)
Hidden(t, x) == \E a \in Other(t) : pc[a] \in Naming /\ x \in stmt[a].tabs

LEMMA NamesLeft ==
  ASSUME IInv, Cur, NEW t \in Thread,
         \A x \in Table : Hidden(t, x) =>
           /\ unused'[x] \subseteq unused[x]
           /\ inst'[t][x].file # 0 =>
                inst[t][x].file # 0 /\ (Passing(t, x) => Passing(t, x)')
  PROVE  NamesRespected(t)
<1> SUFFICES ASSUME NEW a \in Other(t), pc[a] \in Naming, NEW x \in stmt[a].tabs
             PROVE  /\ unused'[x] = {}
                    /\ inst'[t][x].file # 0 => pc[a] = "name_wait" /\ Passing(t, x)'
  BY DEF NamesRespected
<1>1. a \in Thread /\ Right(a) /\ Name(a) /\ t \in Other(a)  BY DEF Other, IInv, Cur
<1>2. x \in Table /\ Named(a, x) /\ Hidden(t, x)
  BY <1>1, NamesAreTables DEF Name, Hidden
<1>. QED  BY <1>1, <1>2 DEF Named

(* What lies behind a name lock of another thread. *)
LEMMA Behind ==
  ASSUME IInv, Cur, NEW t \in Thread, NEW x \in Table, Hidden(t, x)
  PROVE  /\ unused[x] = {}
         /\ inst[t][x].file # 0 => Passing(t, x)
         /\ OldUser(t, x) /\ (\E a \in Other(t) : inst[a][x].by_name)
<1>1. PICK a \in Other(t) : pc[a] \in Naming /\ x \in stmt[a].tabs  BY DEF Hidden
<1>2. a \in Thread /\ Right(a) /\ Name(a) /\ t \in Other(a)  BY DEF Other, IInv, Cur
<1>3. Named(a, x)  BY <1>1, <1>2 DEF Name
<1>4. inst[a][x] = NameLock  BY <1>1, <1>2 DEF Right, InstRight
<1>5. refresh_version \in 1 .. MaxVersion  BY CountersType
<1>. QED  BY <1>2, <1>3, <1>4, <1>5, NoTableSame, Constants DEF Named, OldUser

(* A TABLE that open_table takes or makes is current, and no name lock hides it. *)
LEMMA OpenedCur ==
  ASSUME IInv, Cur, NEW t \in Thread, StepRight(t), NEW y \in Table, pc[t] = "open",
         file' = file, refresh_version' = refresh_version, stmt' = stmt,
         \A x \in Table : unused'[x] \subseteq unused[x],
         \A x \in Table \ {y} : inst'[t][x] = inst[t][x],
         inst'[t][y].file = file[y], ~ Hidden(t, y),
         pc'[t] \in {"open", "lock"}
  PROVE  CurStep(t)
<1>1. LabelRight(t)  BY DEF IInv, Right
<1>2. OpenIsCurrent'
  <2>1. \A x \in Table : inst'[t][x].file \in {0, inst[t][x].file, file[x]}  OBVIOUS
  <2>2. \A x \in Table : \A i \in unused'[x] : i \in unused[x] \/ i.file = file[x]
    OBVIOUS
  <2>. QED  BY <2>1, <2>2, CurrentKept
<1>3. NamesRespected(t)
  <2>1. ASSUME NEW x \in Table, Hidden(t, x), inst'[t][x].file # 0
        PROVE  inst[t][x].file # 0 /\ (Passing(t, x) => Passing(t, x)')
    <3>1. inst'[t][x] = inst[t][x]  BY <2>1
    <3>. QED  BY <2>1, <3>1 DEF Passing
  <2>. QED  BY <2>1, NamesLeft
<1>4. Name(t)'  BY DEF Name
<1>5. Flusher(t)'  BY <1>1 DEF LabelRight, Flusher, FlusherPc, Flushing, Op
<1>. QED  BY <1>2, <1>3, <1>4, <1>5 DEF CurStep

LEMMA open_cached_cur ==
  ASSUME IInv, Cur, NEW t \in Thread, StepRight(t), open_cached(t)
  PROVE  CurStep(t)
<1>1. Data /\ OpenIsCurrent  BY DEF IInv, Cur
<1>2. PICK y \in Table : \E i \in unused[y] :
         /\ Opening(t, y)
         /\ unused' = unused \/ unused' = [unused EXCEPT ![y] = @ \ {i}]
         /\ Open(t, y, i)
  BY DEF open_cached
<1>3. PICK i \in unused[y] :
         /\ Opening(t, y)
         /\ unused' = unused \/ unused' = [unused EXCEPT ![y] = @ \ {i}]
         /\ Open(t, y, i)
  BY <1>2
<1>4. i.file = file[y] /\ i.file \in 0 .. 2 /\ i.version \in 0 .. MaxVersion
  BY <1>1, Constants DEF OpenIsCurrent, Data
<1> DEFINE w == y \in stmt[t].writes
           j == Anew(i.version, i.file, w)
<1>5. inst' = [inst EXCEPT ![t][y] = j]  BY <1>3 DEF Open, Anew
<1>6. w \in BOOLEAN  OBVIOUS
<1> HIDE DEF w
<1>7. j.file = file[y]  BY <1>4, <1>6, NewTable
<1> HIDE DEF j
<1>8. inst'[t][y].file = file[y] /\ \A x \in Table \ {y} : inst'[t][x] = inst[t][x]
  BY <1>1, <1>5, <1>7 DEF Data
<1>9. ~ Hidden(t, y)  BY <1>3, Behind
<1>10. \A x \in Table : unused'[x] \subseteq unused[x]  BY <1>1, <1>3 DEF Data
<1>11. /\ pc[t] = "open" /\ pc'[t] \in {"open", "lock"}
       /\ file' = file /\ refresh_version' = refresh_version /\ stmt' = stmt
  BY <1>1, <1>3 DEF Opening, Open, Goto, Data
<1>. QED  BY <1>8, <1>9, <1>10, <1>11, OpenedCur

LEMMA open_new_cur ==
  ASSUME IInv, Cur, NEW t \in Thread, StepRight(t), open_new(t)
  PROVE  CurStep(t)
<1>1. Data /\ refresh_version \in 1 .. MaxVersion  BY CountersType DEF IInv
<1>2. PICK y \in Table :
         /\ NotCached(t, y) /\ unused' = unused
         /\ Open(t, y, [version |-> refresh_version, file |-> file[y]])
  BY DEF open_new
<1>3. refresh_version \in 0 .. MaxVersion /\ file[y] \in 0 .. 2
  BY <1>1, Constants DEF Data
<1> DEFINE w == y \in stmt[t].writes
           j == Anew(refresh_version, file[y], w)
<1>5. inst' = [inst EXCEPT ![t][y] = j]  BY <1>2 DEF Open, Anew
<1>6. w \in BOOLEAN  OBVIOUS
<1> HIDE DEF w
<1>7. j.file = file[y]  BY <1>3, <1>6, NewTable
<1> HIDE DEF j
<1>8. inst'[t][y].file = file[y] /\ \A x \in Table \ {y} : inst'[t][x] = inst[t][x]
  BY <1>1, <1>5, <1>7 DEF Data
<1>9. ~ Hidden(t, y)  BY <1>2, Behind DEF NotCached
<1>10. \A x \in Table : unused'[x] \subseteq unused[x]  BY <1>2
<1>11. /\ pc[t] = "open" /\ pc'[t] \in {"open", "lock"}
       /\ file' = file /\ refresh_version' = refresh_version /\ stmt' = stmt
  BY <1>1, <1>2 DEF NotCached, Opening, Open, Goto, Data
<1>. QED  BY <1>8, <1>9, <1>10, <1>11, OpenedCur

LEMMA refresh_cur ==
  ASSUME IInv, Cur, NEW t \in Thread, StepRight(t), refresh(t)
  PROVE  CurStep(t)
<1>1. Data /\ Right(t) /\ refresh_version \in 1 .. MaxVersion
  BY CountersType DEF IInv
<1>2. /\ pc[t] = "refresh" /\ pc'[t] = "open"
      /\ UNCHANGED <<file, unused, refresh_version, stmt>>
  BY <1>1 DEF refresh, Goto, Data
<1>3. \A x \in Table :
         inst'[t][x] = IF /\ x \in Opened(t)
                          /\ inst[t][x].version # refresh_version \/ inst[t][x].file = 0
                       THEN NoTable ELSE inst[t][x]
  BY <1>1 DEF refresh, Data
<1>4. OpenIsCurrent'
  <2>1. \A x \in Table : inst'[t][x].file \in {0, inst[t][x].file, file[x]}
    BY <1>3, NoTableSame
  <2>. QED  BY <1>2, <2>1, CurrentKept
<1>5. NamesRespected(t)
  <2>1. ASSUME NEW x \in Table, Hidden(t, x), inst'[t][x].file # 0
        PROVE  inst[t][x].file # 0 /\ (Passing(t, x) => Passing(t, x)')
    <3>1. inst'[t][x] = inst[t][x]  BY <1>3, <2>1, NoTableSame
    <3>2. x \in Opened(t)  BY <1>1, <2>1, <3>1, FilesOpened
    <3>3. inst[t][x].version = refresh_version  BY <1>3, <2>1, <3>2, NoTableSame
    <3>. QED  BY <1>1, <1>2, <2>1, <3>1, <3>3 DEF Passing
  <2>. QED  BY <1>2, <2>1, NamesLeft
<1>6. Name(t)' /\ Flusher(t)'
  BY <1>2 DEF Name, Flusher, FlusherPc
<1>. QED  BY <1>4, <1>5, <1>6 DEF CurStep

(* close_thread_table does not keep a TABLE behind a name lock. *)
LEMMA close_thread_tables_cur ==
  ASSUME IInv, Cur, NEW t \in Thread, StepRight(t), close_thread_tables(t)
  PROVE  CurStep(t)
<1>1. /\ Data /\ LabelRight(t) /\ OpenIsCurrent /\ refresh_version \in 1 .. MaxVersion
      /\ version[t] <= refresh_version
  BY CountersType DEF IInv, Right, Cur, Bounded
<1>2. /\ pc[t] = "close" /\ pc'[t] = "idle" /\ locked_tables' = locked_tables
      /\ UNCHANGED <<file, refresh_version, stmt>>
  BY <1>1 DEF close_thread_tables, Goto, Data
<1>3. \A x \in Table : inst'[t][x].file = 0
  BY <1>1, <1>2, NoFilesNext DEF Without, LabelRight
<1>4. ASSUME NEW x \in Table, NEW i \in unused'[x]
      PROVE  i \in unused[x] \/ (Kept(t, x) /\ i.file = inst[t][x].file)
  <2>1. i \in unused[x] \cup {[version |-> inst[t][y].version, file |-> inst[t][y].file] :
                                y \in {y \in Opened(t) : y = x /\ Kept(t, y)}}
    BY <1>4 DEF close_thread_tables
  <2>. QED  BY <2>1
<1>5. OpenIsCurrent'
  <2>1. \A x \in Table : \A i \in unused'[x] : i \in unused[x] \/ i.file = file[x]
    BY <1>1, <1>4 DEF Kept, OpenIsCurrent
  <2>. QED  BY <1>2, <1>3, <2>1, CurrentKept
<1>6. NamesRespected(t)
  <2>1. ASSUME NEW x \in Table, Hidden(t, x) PROVE unused'[x] \subseteq unused[x]
    <3>1. ~ Kept(t, x)
      <4>1. inst[t][x].file # 0 => Passing(t, x)  BY <2>1, Behind
      <4>2. version[t] \in Nat  BY <1>1, Constants DEF Data
      <4>. QED  BY <1>1, <4>1, <4>2 DEF Kept, Passing
    <3>. QED  BY <1>4, <3>1
  <2>. QED  BY <1>3, <2>1, NamesLeft
<1>7. Name(t)' /\ Flusher(t)'
  BY <1>2 DEF Name, Flusher, FlusherPc
<1>. QED  BY <1>5, <1>6, <1>7 DEF CurStep

(* wait_for_tables opens no TABLE that a name lock hides. *)
LEMMA wait_for_tables_cur ==
  ASSUME IInv, Cur, NEW t \in Thread, StepRight(t), wait_for_tables(t)
  PROVE  CurStep(t)
<1>1. Data /\ Right(t) /\ LabelRight(t) /\ Flusher(t) /\ refresh_version \in 1 .. MaxVersion
  BY CountersType DEF IInv, Right, Cur
<1>2. /\ pc[t] \in {"wait_tables", "wait_tables_wait"}
      /\ pc'[t] \in {"wait_tables_wait", "lock", "flush_end", "unlock"}
      /\ pc'[t] = "flush_end" => Flushing(t)
      /\ UNCHANGED <<file, unused, refresh_version, version, stmt>>
  BY <1>1 DEF wait_for_tables, InWaitTables, WaitAt, Goto, lock_failed, Data
<1>3. \A x \in Table : /\ ClosedOld(t)[t][x].file \in {0, inst[t][x].file}
                       /\ ClosedOld(t)[t][x].file # 0 => ClosedOld(t)[t][x] = inst[t][x]
                       /\ ClosedOld(t)[t][x].used = inst[t][x].used
                       /\ ClosedOld(t)[t][x].by_name = inst[t][x].by_name
                       /\ ClosedOld(t)[t][x].write = inst[t][x].write
  BY <1>1, ClosedOldSame
<1>4. ASSUME NEW x \in Table
      PROVE  \/ inst'[t][x].file = 0
             \/ inst'[t][x] = inst[t][x]
             \/ /\ ~ WaitsForTables(t) /\ x \in Opened(t)
                /\ inst'[t][x].file = file[x]
  <2>1. CASE WaitsForTables(t)
    BY <1>3, <2>1 DEF wait_for_tables
  <2>2. CASE ~ WaitsForTables(t)
    <3> DEFINE c == ClosedOld(t)
               j == Anew(refresh_version, file[x], c[t][x].write)
    <3>0. c \in [Thread -> [Table -> TableType]]  BY <1>1, ClosedOldSame
    <3>1. inst' = Reopened(t, c)  BY <2>2 DEF wait_for_tables
    <3>2. /\ c[t][x].file = 0 \/ c[t][x] = inst[t][x]
          /\ c[t][x].used = inst[t][x].used /\ c[t][x].by_name = inst[t][x].by_name
          /\ c[t][x].write \in BOOLEAN
      BY <1>1, <1>3 DEF Data, TableType
    <3>3. file[x] \in 0 .. 2 /\ refresh_version \in 0 .. MaxVersion
      BY <1>1, Constants DEF Data
    <3> HIDE DEF c
    <3>4. j.file = file[x]  BY <3>2, <3>3, NewTable
    <3>5. inst'[t][x] = IF ~ (c[t][x].used /\ c[t][x].file = 0) THEN c[t][x]
                        ELSE IF file[x] = 0 THEN NoTable ELSE j
      BY <3>0, <3>1 DEF Reopened, Anew
    <3> HIDE DEF j
    <3>6. ~ inst[t][x].by_name  BY <1>1, <1>2 DEF Right, InstRight
    <3>7. inst[t][x].used => x \in Opened(t)  BY <3>6 DEF Opened
    <3>. QED  BY <2>2, <3>2, <3>4, <3>5, <3>7, NoTableSame
  <2>. QED  BY <2>1, <2>2
<1>5. OpenIsCurrent'
  <2>1. \A x \in Table : inst'[t][x].file \in {0, inst[t][x].file, file[x]}  BY <1>4
  <2>. QED  BY <1>2, <2>1, CurrentKept
<1>6. NamesRespected(t)
  <2>1. ASSUME NEW x \in Table, Hidden(t, x), inst'[t][x].file # 0
        PROVE  inst[t][x].file # 0 /\ (Passing(t, x) => Passing(t, x)')
    <3>1. PICK a \in Other(t) : inst[a][x].by_name  BY <2>1, Behind
    <3>2. ClosedOld(t)[a][x].by_name  BY <1>1, <3>1, ClosedOldSame
    <3>3. x \in Opened(t) => WaitsForTables(t)
      BY <3>1, <3>2 DEF WaitsForTables, table_is_used, Other
    <3>4. inst'[t][x] = inst[t][x]  BY <1>4, <2>1, <3>3
    <3>. QED  BY <1>2, <2>1, <3>4 DEF Passing
  <2>. QED  BY <1>2, <2>1, NamesLeft
<1>7. Name(t)'  BY <1>2 DEF Name
<1>8. Flusher(t)'
  <2>1. Flushing(t)' = Flushing(t)  BY <1>2 DEF Flushing, Op
  <2>. QED  BY <1>1, <1>2, <2>1 DEF Flusher, FlusherPc
<1>. QED  BY <1>5, <1>6, <1>7, <1>8 DEF CurStep

(* FLUSH TABLES closes what its thread has, and throws away what is unused. *)
LEMMA close_cached_tables_cur ==
  ASSUME IInv, Cur, NEW t \in Thread, StepRight(t), close_cached_tables(t)
  PROVE  CurStep(t)
<1>1. /\ Data /\ refresh_version \in 1 .. MaxVersion
      /\ version[t] <= refresh_version
  BY CountersType DEF IInv, Bounded
<1>2. /\ pc'[t] = "flush_loop" /\ refresh_version' = refresh_version + 1
      /\ UNCHANGED <<file, version, stmt>>
      /\ \A x \in Table : unused'[x] = {}
  BY <1>1 DEF close_cached_tables, Goto, Data
<1>3. \A x \in Table : inst'[t][x].file = 0
  <2>1. \A x \in Table : x \in Opened(t)' => inst'[t][x].file = 0
    BY <1>2 DEF StepRight, Right, OpenRight
  <2>2. NoTable.file = 0 /\ NameLock.file = 0  BY DEF NoTable, NameLock
  <2>. QED  BY <2>1, <2>2 DEF StepRight, Right, InstRight, Opened
<1>4. OpenIsCurrent'  BY <1>2, <1>3, CurrentKept
<1>5. NamesRespected(t)  BY <1>2, <1>3, NamesLeft
<1>6. Name(t)'  BY <1>2 DEF Name
<1>7. Flusher(t)'
  <2>1. version[t] \in Nat  BY <1>1, Constants DEF Data
  <2>. QED  BY <1>1, <1>2, <2>1 DEF Flusher
<1>. QED  BY <1>4, <1>5, <1>6, <1>7 DEF CurStep

(* Whoever reopens the tables of LOCK TABLES meets no TRUNCATE past its test. *)
LEMMA ReopensApart ==
  ASSUME Apart, IInv, Cur, NEW t \in Thread, pc[t] \in Loop, Opened(t) # {},
         NEW a \in Thread, pc[a] \in Naming
  PROVE  pc[a] = "name_wait"
<1>1. PICK x \in Table : x \in Opened(t)  BY DEF Opened
<1>2. /\ Right(t) /\ LabelRight(t) /\ Legal(t) /\ LabelRight(a) /\ Legal(a)
      /\ OpenRight(t, x)
  BY DEF IInv, Right, Cur
<1>3. Flushing(t) /\ locked_tables[t]  BY <1>1, <1>2 DEF LabelRight, OpenRight
<1>4. stmt[t] \in Statement[t] /\ stmt[t].op \in {"flush", "read_lock"}
  BY <1>2, <1>3 DEF Legal, Flushing, Op
<1>5. \E s \in Statement[t] : s.op = "lock"  BY <1>2, <1>3 DEF Legal
<1>6. \A s \in Statement[a] : s.op # "truncate"  BY <1>4, <1>5 DEF Apart
<1>7. pc[a] # "name_wait" => Op(a) = "truncate"  BY <1>2 DEF LabelRight
<1>. QED  BY <1>2, <1>6, <1>7 DEF Legal, Op

LEMMA flush_reopens_cur ==
  ASSUME Apart, IInv, Cur, NEW t \in Thread, StepRight(t), flush_reopens(t)
  PROVE  CurStep(t)
<1>1. /\ Data /\ Right(t) /\ LabelRight(t) /\ Flusher(t) /\ refresh_version \in 1 .. MaxVersion
  BY CountersType DEF IInv, Right, Cur
<1>2. /\ pc[t] \in Loop /\ pc'[t] \in {"lock", "idle", "unlock"}
      /\ UNCHANGED <<file, unused, refresh_version, version, stmt>>
  BY <1>1 DEF flush_reopens, InFlushLoop, Goto, Done, Data
<1>3. \A x \in Opened(t) : x \in Table /\ inst[t][x].file = 0 /\ inst[t][x].used
  BY <1>1, <1>2 DEF Right, OpenRight, Opened
<1>4. \A x \in Table : x \notin Opened(t) => inst[t][x].file = 0
  BY <1>1, FilesOpened
<1>5. ASSUME NEW x \in Table
      PROVE  \/ inst'[t][x].file = 0
             \/ x \in Opened(t) /\ inst'[t][x].file = file[x] /\ inst'[t][x].version = 0
  <2> DEFINE lost == {y \in Opened(t) : inst[t][y].file = 0}
             back == {y \in lost : file[y] # 0}
             v == IF back # {} THEN 0 ELSE refresh_version
             C(i) == [i EXCEPT !.by_flush = FALSE, !.version = v]
             j == Anew(refresh_version, file[x], inst[t][x].write)
  <2>1. inst' = [inst EXCEPT ![t] = [y \in Table |->
           IF y \notin Opened(t) THEN @[y]
           ELSE IF y \in lost \ back THEN NoTable
           ELSE C(Reopened(t, inst)[t][y])]]
    BY DEF flush_reopens
  <2>2. x \in Opened(t) => x \in lost  BY <1>3
  <2>3. x \in back => v = 0 /\ file[x] # 0 /\ x \in Opened(t)  OBVIOUS
  <2>4. v \in 0 .. MaxVersion  BY <1>1, Constants
  <2> HIDE DEF lost, back, v
  <2>5. \A i \in TableType : C(i).file = i.file /\ C(i).version = v
    BY <2>4 DEF TableType
  <2> HIDE DEF C
  <2>6. inst'[t][x] = IF x \notin Opened(t) THEN inst[t][x]
                      ELSE IF x \in lost \ back THEN NoTable
                      ELSE C(Reopened(t, inst)[t][x])
    BY <1>1, <2>1 DEF Data
  <2>7. x \in back => Reopened(t, inst)[t][x] = j
    BY <1>1, <1>3, <2>3 DEF Reopened, Anew, Data
  <2>8. j \in TableType /\ j.file = file[x]
    <3>1. /\ refresh_version \in 0 .. MaxVersion /\ file[x] \in 0 .. 2
          /\ inst[t][x].write \in BOOLEAN
      BY <1>1, Constants DEF Data, TableType
    <3>. QED  BY <3>1, NewTable
  <2> HIDE DEF j
  <2>. QED  BY <1>4, <2>2, <2>3, <2>5, <2>6, <2>7, <2>8, NoTableSame
<1>6. OpenIsCurrent'
  <2>1. \A x \in Table : inst'[t][x].file \in {0, inst[t][x].file, file[x]}  BY <1>5
  <2>. QED  BY <1>2, <2>1, CurrentKept
<1>7. NamesRespected(t)
  <2> SUFFICES ASSUME NEW a \in Other(t), pc[a] \in Naming, NEW x \in stmt[a].tabs
               PROVE  /\ unused'[x] = {}
                      /\ inst'[t][x].file # 0 => pc[a] = "name_wait" /\ Passing(t, x)'
    BY DEF NamesRespected
  <2>1. a \in Thread /\ Right(a) /\ Name(a)  BY DEF Other, IInv, Cur
  <2>2. x \in Table /\ unused[x] = {}  BY <2>1, NamesAreTables DEF Name, Named
  <2>3. x \in Opened(t) => pc[a] = "name_wait"  BY <1>2, <2>1, ReopensApart
  <2>. QED  BY <1>2, <1>5, <2>2, <2>3 DEF Passing
<1>8. Name(t)'  BY <1>2 DEF Name
<1>9. Flusher(t)'
  BY <1>1, <1>2 DEF Flusher, FlusherPc
<1>. QED  BY <1>6, <1>7, <1>8, <1>9 DEF CurStep

(* The end of FLUSH TABLES: what it keeps is of a thread that is older. *)
LEMMA flush_end_cur ==
  ASSUME IInv, Cur, NEW t \in Thread, StepRight(t), flush_end(t)
  PROVE  CurStep(t)
<1>1. Data /\ Flusher(t) /\ refresh_version \in 1 .. MaxVersion
  BY CountersType DEF IInv, Cur
<1>2. /\ pc[t] = "flush_end" /\ pc'[t] \in {"idle", "unlock"}
      /\ UNCHANGED <<file, unused, refresh_version, version, stmt>>
  BY <1>1 DEF flush_end, Goto, Done, Data
<1>3. \A x \in Table : inst'[t][x].file = inst[t][x].file
  <2> DEFINE C(i) == [i EXCEPT !.version = refresh_version]
  <2>1. \A i \in TableType : C(i).file = i.file  BY DEF TableType
  <2>2. inst' = [inst EXCEPT ![t] = [x \in Table |->
                   IF x \in Opened(t) THEN C(@[x]) ELSE @[x]]]
    BY DEF flush_end
  <2> HIDE DEF C
  <2>3. \A x \in Table : inst'[t][x] = IF x \in Opened(t) THEN C(inst[t][x]) ELSE inst[t][x]
    BY <1>1, <2>2 DEF Data
  <2>4. \A x \in Table : inst[t][x] \in TableType  BY <1>1 DEF Data
  <2>. QED  BY <2>1, <2>3, <2>4
<1>4. OpenIsCurrent'  BY <1>2, <1>3, CurrentKept
<1>5. version[t] < refresh_version  BY <1>1, <1>2 DEF Flusher, FlusherPc
<1>6. NamesRespected(t)
  BY <1>2, <1>3, <1>5, NamesLeft DEF Passing
<1>7. Name(t)' /\ Flusher(t)'  BY <1>2 DEF Name, Flusher, FlusherPc
<1>. QED  BY <1>4, <1>6, <1>7 DEF CurStep

(* The second half of DROP TABLE: nobody else has the files it deletes. *)
LEMMA drop_files_cur ==
  ASSUME IInv, Cur, NEW t \in Thread, StepRight(t), drop_files(t)
  PROVE  CurStep(t)
<1> DEFINE d == Dropped(t)
<1>1. Data /\ Data' /\ Right(t) /\ OpenIsCurrent /\ Frame(t)
  BY DEF IInv, Cur, StepRight
<1>2. /\ pc'[t] \in {"drop_killed", "idle", "unlock"}
      /\ UNCHANGED <<refresh_version, version, stmt>>
      /\ \/ file' = file
         \/ file' = [file EXCEPT ![d] = 0] /\ ~ InUseByOthers(t, d)
  BY <1>1 DEF drop_files, Goto, Data
<1> DEFINE i == [inst EXCEPT ![t][d] = IF d \in Opened(t) THEN NoTable ELSE @]
<1>3. /\ unused' = [x \in Table |-> IF x \in {d} THEN {} ELSE unused[x]]
      /\ inst' = Outdated(i, {d})
  BY DEF drop_files, remove_table_from_cache
<1>4. \A x \in Table : /\ i[t][x].file \in {0, inst[t][x].file}
                       /\ x = d => i[t][x].file = 0
                       /\ x # d => i[t][x] = inst[t][x]
  <2>1. \A x \in Table : x \notin Opened(t) => inst[t][x].file = 0
    BY <1>1, FilesOpened
  <2> HIDE DEF d
  <2>2. inst \in [Thread -> [Table -> TableType]]  BY <1>1 DEF Data
  <2>3. \A x \in Table :
           i[t][x] = IF x = d /\ x \in Opened(t) THEN NoTable ELSE inst[t][x]
    BY <2>2
  <2> HIDE DEF i
  <2>. QED  BY <2>1, <2>3, NoTableSame
<1>5. i \in [Thread -> [Table -> TableType]]
  <2> HIDE DEF d
  <2>1. inst \in [Thread -> [Table -> TableType]] /\ NoTable \in TableType
    BY <1>1, NoTableSame DEF Data
  <2>. QED  BY <2>1
<1> HIDE DEF i, d
<1>6. \A x \in Table : /\ x = d => inst'[t][x].file = 0
                       /\ x # d => inst'[t][x] = inst[t][x]
  <2>1. \A x \in Table : inst'[t][x] = IF x = d THEN Old(i[t][x]) ELSE i[t][x]
    BY <1>3 DEF Outdated, Old
  <2>2. \A x \in Table : i[t][x] \in TableType  BY <1>5
  <2>. QED  BY <1>4, <2>1, <2>2, OldSame
<1>7. OpenIsCurrent'
  <2>1. CASE file' = file
    <3>1. \A x \in Table : inst'[t][x].file \in {0, inst[t][x].file, file[x]}  BY <1>6
    <3>2. \A x \in Table : \A k \in unused'[x] : k \in unused[x] \/ k.file = file[x]
      BY <1>3
    <3>. QED  BY <2>1, <3>1, <3>2, CurrentKept
  <2>2. CASE file' = [file EXCEPT ![d] = 0] /\ ~ InUseByOthers(t, d)
    <3>1. \A x \in Table : x # d => file'[x] = file[x]  BY <1>1, <2>2 DEF Data
    <3>2. \A x \in Table : \A k \in unused'[x] : k.file = file'[x]
      BY <1>1, <1>3, <3>1 DEF OpenIsCurrent
    <3>3. ASSUME NEW x \in Table, NEW u \in Thread, inst'[u][x].file # 0
          PROVE  inst'[u][x].file = file'[x]
      <4>1. CASE u = t  BY <1>1, <1>6, <3>1, <3>3, <4>1 DEF OpenIsCurrent
      <4>2. CASE u # t
        <5>1. Untouched(u) /\ u \in Other(t)  BY <1>1, <4>2 DEF Frame, Other
        <5>2. inst'[u][x].file = inst[u][x].file  BY <1>1, <5>1, OthersSame
        <5>3. x # d  BY <2>2, <3>3, <5>1, <5>2 DEF InUseByOthers
        <5>. QED  BY <1>1, <3>1, <3>3, <5>2, <5>3 DEF OpenIsCurrent
      <4>. QED  BY <4>1, <4>2
    <3>. QED  BY <3>2, <3>3 DEF OpenIsCurrent
  <2>. QED  BY <1>2, <2>1, <2>2
<1>8. NamesRespected(t)
  <2>1. ASSUME NEW x \in Table, inst'[t][x].file # 0
        PROVE  inst[t][x].file # 0 /\ (Passing(t, x) => Passing(t, x)')
    <3>1. inst'[t][x] = inst[t][x]  BY <1>6, <2>1
    <3>. QED  BY <1>2, <2>1, <3>1 DEF Passing
  <2>2. \A x \in Table : unused'[x] \subseteq unused[x]  BY <1>3
  <2>. QED  BY <2>1, <2>2, NamesLeft
<1>9. Name(t)' /\ Flusher(t)'  BY <1>2 DEF Name, Flusher, FlusherPc
<1>. QED  BY <1>7, <1>8, <1>9 DEF CurStep

-----------------------------------------------------------------------------
(* Name locks. *)

LEMMA NamesGone ==
  ASSUME Data, NEW t \in Thread, Right(t), pc[t] \in NamePc
  PROVE  /\ stmt[t].tabs \subseteq Table
         /\ NamesUnlocked(t) \in [Thread -> [Table -> TableType]]
         /\ \A x \in Table : NamesUnlocked(t)[t][x].file = 0
<1>1. stmt[t].tabs \subseteq Table  BY NamesAreTables
<1>2. \A x \in Table : inst[t][x].file = 0
  BY NoFiles DEF Without, Right, LabelRight
<1>. QED  BY <1>1, <1>2, NoTableSame DEF NamesUnlocked, Data

(* After the tests of name locks, others have no files of the tables. *)
LEMMA NoUsers ==
  ASSUME IInv, NEW t \in Thread, ~ FirstUse(t) \/ ~ NamesInUse(t),
         NEW x \in stmt[t].tabs, NEW u \in Other(t)
  PROVE  inst[u][x].file = 0
<1>1. Data /\ u \in Thread /\ Right(u) /\ refresh_version \in 1 .. MaxVersion
  BY CountersType DEF IInv, Other
<1>2. CASE ~ FirstUse(t)  BY <1>2 DEF FirstUse, InUseByOthers
<1>3. CASE ~ NamesInUse(t)
  <2>1. x \in Table  BY NamesAreTables DEF IInv
  <2>2. Outdated(inst, stmt[t].tabs)[u][x] = Old(inst[u][x])
    BY <1>1, <2>1 DEF Outdated, Old
  <2>3. Old(inst[u][x]).file = 0 \/ Old(inst[u][x]).version >= refresh_version
    <3>1. ~ (Old(inst[u][x]).file # 0 /\ Old(inst[u][x]).version < refresh_version)
      BY <1>1, <1>3, <2>2 DEF NamesInUse, table_is_used
    <3>2. Old(inst[u][x]).version \in Nat
      BY <1>1, <2>1, OldSame, Constants DEF Data, TableType
    <3>. QED  BY <1>1, <3>1, <3>2
  <2>4. inst[u][x] \in TableType /\ (inst[u][x].used \/ inst[u][x] = NoTable)
    BY <1>1, <2>1 DEF Data, Right, InstRight
  <2>. QED  BY <1>1, <2>3, <2>4, OldSame, NoTableSame
<1>. QED  BY <1>2, <1>3

LEMMA lock_names_wait_cur ==
  ASSUME IInv, Cur, NEW t \in Thread, StepRight(t), lock_names_wait(t)
  PROVE  CurStep(t)
<1>1. Data /\ Right(t) /\ LabelRight(t)  BY DEF IInv, Right
<1>2. /\ pc[t] = "name_lock" /\ pc'[t] = "name_wait"
      /\ UNCHANGED <<file, refresh_version, version, stmt, locked_tables>>
      /\ remove_table_from_cache(t, NameLocked(t), stmt[t].tabs)
  BY <1>1 DEF lock_names_wait, WaitAt, Goto, Data
<1>3. \A x \in Table : inst'[t][x].file = 0
  BY <1>1, <1>2, NoFilesNext DEF Without, LabelRight
<1>4. \A x \in Table : /\ unused'[x] \subseteq unused[x]
                       /\ x \in stmt[t].tabs => unused'[x] = {}
  BY <1>2 DEF remove_table_from_cache
<1>5. OpenIsCurrent'  BY <1>2, <1>3, <1>4, CurrentKept
<1>6. NamesRespected(t)  BY <1>3, <1>4, NamesLeft
<1>7. Name(t)'
  <2> SUFFICES ASSUME NEW x \in stmt[t].tabs PROVE Named(t, x)'
    BY <1>2 DEF Name
  <2>1. x \in Table  BY <1>1, NamesAreTables
  <2>2. ASSUME NEW u \in Other(t), inst'[u][x].file # 0
        PROVE  inst'[u][x].version = 0
    <3>1. u \in Thread /\ u # t /\ Right(u) /\ inst[u][x] \in TableType
      BY <1>1, <2>1 DEF Other, IInv, Data
    <3>2. inst'[u][x] = Old(inst[u][x])
      BY <1>1, <1>2, <2>1, <3>1
      DEF remove_table_from_cache, Outdated, Old, NameLocked, Data
    <3>3. inst[u][x].used  BY <2>1, <2>2, <3>1, <3>2, OldSame, NoTableSame
                           DEF Right, InstRight
    <3>. QED  BY <3>1, <3>2, <3>3, OldSame
  <2>. QED  BY <1>2, <1>4, <2>1, <2>2 DEF Named, Passing, Other
<1>8. Flusher(t)'  BY <1>2 DEF Flusher, FlusherPc
<1>. QED  BY <1>5, <1>6, <1>7, <1>8 DEF CurStep

LEMMA lock_names_cur ==
  ASSUME IInv, Cur, NEW t \in Thread, StepRight(t), lock_names(t)
  PROVE  CurStep(t)
<1>1. Data /\ Right(t) /\ LabelRight(t)  BY DEF IInv, Right
<1>2. /\ pc[t] = "name_lock" /\ pc'[t] = "name_locked" /\ ~ FirstUse(t)
      /\ UNCHANGED <<file, refresh_version, version, stmt, locked_tables>>
      /\ remove_table_from_cache(t, NameLocked(t), stmt[t].tabs)
  BY <1>1 DEF lock_names, Goto, Data
<1>3. \A x \in Table : inst'[t][x].file = 0
  BY <1>1, <1>2, NoFilesNext DEF Without, LabelRight
<1>4. \A x \in Table : /\ unused'[x] \subseteq unused[x]
                       /\ x \in stmt[t].tabs => unused'[x] = {}
  BY <1>2 DEF remove_table_from_cache
<1>5. OpenIsCurrent'  BY <1>2, <1>3, <1>4, CurrentKept
<1>6. NamesRespected(t)  BY <1>3, <1>4, NamesLeft
<1>7. Name(t)'
  <2> SUFFICES ASSUME NEW x \in stmt[t].tabs PROVE Named(t, x)'
    BY <1>2 DEF Name
  <2>1. x \in Table  BY <1>1, NamesAreTables
  <2>2. ASSUME NEW u \in Other(t) PROVE inst'[u][x].file = 0
    <3>1. u \in Thread /\ Untouched(u)  BY DEF Other, StepRight, Frame
    <3>2. inst[u][x].file = 0  BY <1>2, NoUsers
    <3>. QED  BY <1>1, <2>1, <3>1, <3>2, OthersSame
  <2>. QED  BY <1>4, <2>1, <2>2 DEF Named, Other
<1>8. Flusher(t)'  BY <1>2 DEF Flusher, FlusherPc
<1>. QED  BY <1>5, <1>6, <1>7, <1>8 DEF CurStep

LEMMA names_locked_cur ==
  ASSUME IInv, Cur, NEW t \in Thread, StepRight(t), names_locked(t)
  PROVE  CurStep(t)
<1>1. Data /\ Right(t) /\ Name(t)  BY DEF IInv, Cur
<1>2. /\ pc[t] = "name_wait" /\ pc'[t] = "name_locked" /\ ~ NamesInUse(t)
      /\ UNCHANGED <<file, unused, inst, refresh_version, version, stmt>>
  BY <1>1 DEF names_locked, Goto, Data
<1>3. OpenIsCurrent'  BY <1>2 DEF Cur, OpenIsCurrent
<1>4. NamesRespected(t)  BY <1>2, NamesLeft DEF Passing
<1>5. Name(t)'
  <2> SUFFICES ASSUME NEW x \in stmt[t].tabs PROVE Named(t, x)'
    BY <1>2 DEF Name
  <2>1. unused[x] = {}  BY <1>1, <1>2 DEF Name, Named
  <2>2. \A u \in Other(t) : inst[u][x].file = 0  BY <1>2, NoUsers
  <2>. QED  BY <1>2, <2>1, <2>2 DEF Named, Other
<1>6. Flusher(t)'  BY <1>2 DEF Flusher, FlusherPc
<1>. QED  BY <1>3, <1>4, <1>5, <1>6 DEF CurStep

(* A statement changes files that nobody has. *)
LEMMA FilesChanged ==
  ASSUME IInv, Cur, NEW t \in Thread, StepRight(t), NEW X \in SUBSET Table,
         \A x \in Table \ X : file'[x] = file[x],
         \A x \in Table : unused'[x] \subseteq unused[x],
         \A x \in X : unused'[x] = {},
         \A x \in X : \A u \in Other(t) : inst[u][x].file = 0,
         \A x \in Table : inst'[t][x].file = 0,
         pc'[t] = "unlock"
  PROVE  CurStep(t)
<1>1. Data /\ Frame(t) /\ OpenIsCurrent  BY DEF IInv, StepRight, Cur
<1>2. ASSUME NEW x \in Table, NEW u \in Thread, inst'[u][x].file # 0
      PROVE  inst'[u][x].file = file'[x]
  <2>1. u \in Other(t) /\ Untouched(u)  BY <1>1, <1>2 DEF Other, Frame
  <2>2. inst'[u][x].file = inst[u][x].file  BY <1>1, <2>1, OthersSame
  <2>3. x \notin X  BY <1>2, <2>1, <2>2
  <2>. QED  BY <1>1, <1>2, <2>2, <2>3 DEF OpenIsCurrent
<1>3. \A x \in Table : \A i \in unused'[x] : i.file = file'[x]
  BY <1>1 DEF OpenIsCurrent
<1>4. OpenIsCurrent'  BY <1>2, <1>3 DEF OpenIsCurrent
<1>5. NamesRespected(t)  BY NamesLeft
<1>6. Name(t)' /\ Flusher(t)'  BY DEF Name, Flusher, FlusherPc
<1>. QED  BY <1>4, <1>5, <1>6 DEF CurStep

LEMMA truncate_cur ==
  ASSUME IInv, Cur, NEW t \in Thread, StepRight(t), truncate(t)
  PROVE  CurStep(t)
<1>1. Data /\ Right(t) /\ Name(t)  BY DEF IInv, Cur
<1>2. /\ pc[t] = "truncate" /\ pc'[t] = "unlock" /\ unused' = unused
      /\ file' = [x \in Table |-> IF x \in stmt[t].tabs /\ file[x] # 0
                                  THEN 3 - file[x] ELSE file[x]]
      /\ inst' = NamesUnlocked(t)
  BY <1>1 DEF truncate, Goto, Data
<1>3. stmt[t].tabs \in SUBSET Table /\ \A x \in Table : inst'[t][x].file = 0
  BY <1>1, <1>2, NamesGone
<1>4. \A x \in stmt[t].tabs : unused[x] = {} /\ \A u \in Other(t) : inst[u][x].file = 0
  BY <1>1, <1>2 DEF Name, Named
<1>5. \A x \in Table \ stmt[t].tabs : file'[x] = file[x]  BY <1>2
<1>. QED  BY <1>2, <1>3, <1>4, <1>5, FilesChanged

LEMMA rename_cur ==
  ASSUME IInv, Cur, NEW t \in Thread, StepRight(t), rename(t)
  PROVE  CurStep(t)
<1>1. Data /\ Right(t) /\ LabelRight(t) /\ Name(t)  BY DEF IInv, Right, Cur
<1> DEFINE X == IF pc[t] = "name_lock" THEN stmt[t].tabs ELSE {}
<1>2. /\ pc[t] \in {"name_lock", "name_wait"} /\ pc'[t] = "unlock" /\ Op(t) = "rename"
      /\ ~ FirstUse(t) \/ ~ NamesInUse(t)
      /\ remove_table_from_cache(t, NamesUnlocked(t), X)
      /\ file' = IF file[NewName(t)] = 0
                 THEN [file EXCEPT ![NewName(t)] = file[OldName(t)], ![OldName(t)] = 0]
                 ELSE file
  BY <1>1 DEF rename, Goto, Data
<1>3. /\ stmt[t].tabs \in SUBSET Table
      /\ NamesUnlocked(t) \in [Thread -> [Table -> TableType]]
      /\ \A x \in Table : NamesUnlocked(t)[t][x].file = 0
  BY <1>1, <1>2, NamesGone
<1>4. OldName(t) \in stmt[t].tabs /\ NewName(t) \in stmt[t].tabs
  <2>1. PICK x \in Table : \E y \in Table \ {x} :
           stmt[t].tabs = {x, y} /\ stmt[t].writes = {x}
    BY <1>1, <1>2 DEF LabelRight, WellFormed, Op
  <2>2. PICK y \in Table \ {x} : stmt[t].tabs = {x, y} /\ stmt[t].writes = {x}
    BY <2>1
  <2>. QED  BY <2>2 DEF OldName, NewName
<1>5. \A x \in Table \ stmt[t].tabs : file'[x] = file[x]
  BY <1>1, <1>2, <1>4 DEF Data
<1>6. /\ \A x \in Table : unused'[x] \subseteq unused[x]
      /\ \A x \in stmt[t].tabs : unused'[x] = {}
  <2>1. unused' = [x \in Table |-> IF x \in X THEN {} ELSE unused[x]]
    BY <1>2 DEF remove_table_from_cache
  <2>2. pc[t] = "name_wait" => \A x \in stmt[t].tabs : unused[x] = {}
    BY <1>1 DEF Name, Named
  <2>. QED  BY <1>2, <1>3, <2>1, <2>2
<1>7. \A x \in stmt[t].tabs : \A u \in Other(t) : inst[u][x].file = 0
  BY <1>2, NoUsers
<1>8. \A x \in Table : inst'[t][x].file = 0
  <2> HIDE DEF X
  <2> DEFINE i == NamesUnlocked(t)
  <2>1. \A x \in Table : inst'[t][x] = IF x \in X THEN Old(i[t][x]) ELSE i[t][x]
    BY <1>2 DEF remove_table_from_cache, Outdated, Old
  <2>2. i \in [Thread -> [Table -> TableType]] /\ \A x \in Table : i[t][x].file = 0
    BY <1>3
  <2> HIDE DEF i
  <2>. QED  BY <2>1, <2>2, OldSame
<1>. QED  BY <1>2, <1>3, <1>5, <1>6, <1>7, <1>8, FilesChanged

(* LOCK TABLES is what sets locked_tables, and a statement is a thread's own. *)
LEMMA LegalSteps ==
  ASSUME IInv, NEW t \in Thread, Begin(t) \/ Step(t) \/ kill(t)
  PROVE  LegalStep(t)
<1>1. Data  BY DEF IInv
<1>2. CASE Begin(t)
  <2>1. CASE begin_query(t) \/ begin_flush(t) \/ begin_ddl(t)
    BY <1>1, <2>1 DEF LegalStep, Data, begin_query, begin_flush, begin_ddl, Starts
  <2>2. CASE unlock_tables(t)
    BY <1>1, <2>2 DEF LegalStep, Data, unlock_tables
  <2>. QED  BY <1>2, <2>1, <2>2 DEF Begin
<1>3. CASE kill(t)  BY <1>3 DEF LegalStep, kill
<1>4. CASE run_done(t)  BY <1>1, <1>4 DEF LegalStep, Data, run_done
<1>5. CASE cleanup(t) \/ drop_files(t)
  BY <1>1, <1>5 DEF LegalStep, Data, cleanup, drop_files
<1>6. CASE open_killed(t) \/ open_refused(t) \/ open_waits(t)
          \/ open_cached(t) \/ open_new(t) \/ open_fails(t) \/ refresh(t)
          \/ lock_tables(t)
  BY <1>6 DEF LegalStep, open_killed, open_refused, open_waits, open_cached,
     open_new, open_fails, refresh, lock_tables, Open, NotCached
<1>7. CASE wait_if_waits(t) \/ wait_if_fails(t) \/ wait_if_done(t)
          \/ thr_grants(t) \/ thr_waits(t) \/ thr_fails(t) \/ lock_again(t)
          \/ lock_killed(t)
  BY <1>7 DEF LegalStep, wait_if_waits, wait_if_fails, wait_if_done,
     thr_grants, thr_waits, thr_fails, lock_again, lock_killed
<1>8. CASE lock_done(t) \/ wait_tables_killed(t) \/ wait_for_tables(t)
          \/ cond_wait(t) \/ unlock(t) \/ close_thread_tables(t)
          \/ disconnect(t) \/ lock_global_read_lock(t)
  BY <1>8 DEF LegalStep, lock_done, wait_tables_killed, wait_for_tables,
     cond_wait, unlock, close_thread_tables, disconnect, lock_global_read_lock
<1>9. CASE close_cached_tables(t) \/ flush_waits(t) \/ flush_reopens(t)
          \/ flush_end(t) \/ drop_refused(t) \/ drop_waits(t)
          \/ drop_waits_for_users(t) \/ drop_unlocks_again(t)
  BY <1>9 DEF LegalStep, close_cached_tables, flush_waits, flush_reopens,
     flush_end, drop_refused, drop_waits, drop_waits_for_users,
     drop_unlocks_again
<1>10. CASE lock_names_wait(t) \/ lock_names(t) \/ names_wait(t)
          \/ names_locked(t) \/ names_failed(t)
          \/ start_waiting_global_read_lock(t) \/ truncate(t) \/ rename(t)
  BY <1>10 DEF LegalStep, lock_names_wait, lock_names, names_wait,
     names_locked, names_failed, start_waiting_global_read_lock, truncate,
     rename
<1>. QED
  BY <1>2, <1>3, <1>4, <1>5, <1>6, <1>7, <1>8, <1>9, <1>10 DEF Step

-----------------------------------------------------------------------------
(* The invariant. *)

LEMMA InitCur ==
  ASSUME Init
  PROVE  Cur
BY NoTableSame DEF Init, Cur, OpenIsCurrent, Name, Flusher, FlusherPc, Legal

(* Every step of a thread shows what it has to. *)
LEMMA StepsCur ==
  ASSUME Apart, IInv, Cur, NEW t \in Thread, Begin(t) \/ Step(t) \/ kill(t)
  PROVE  CurStep(t)
<1>1. IInv /\ Cur /\ Apart /\ t \in Thread  OBVIOUS
<1>2. StepRight(t)  BY StepsRight
<1>3. \/ begin_query(t) \/ open_waits(t) \/ drop_waits_for_users(t) \/ names_failed(t)
      \/ open_killed(t) \/ open_refused(t) \/ open_fails(t) \/ lock_tables(t)
      \/ wait_if_waits(t) \/ wait_if_fails(t) \/ wait_if_done(t)
      \/ thr_grants(t) \/ thr_waits(t) \/ thr_fails(t) \/ lock_again(t)
      \/ lock_killed(t) \/ lock_done(t) \/ wait_tables_killed(t)
      \/ cond_wait(t) \/ run_done(t) \/ unlock(t) \/ cleanup(t)
      \/ disconnect(t) \/ lock_global_read_lock(t) \/ flush_waits(t)
      \/ drop_refused(t) \/ drop_waits(t) \/ drop_unlocks_again(t)
      \/ names_wait(t) \/ start_waiting_global_read_lock(t) \/ kill(t)
      \/ begin_flush(t) \/ begin_ddl(t) \/ unlock_tables(t)
      => Quiet(t)
  BY <1>1, <1>2, begin_query_cur, open_waits_cur, drop_waits_for_users_cur,
     names_failed_cur, QuietSteps
<1>4. \/ open_cached(t) \/ open_new(t) \/ refresh(t) \/ wait_for_tables(t)
      \/ close_thread_tables(t) \/ close_cached_tables(t) \/ flush_reopens(t)
      \/ flush_end(t) \/ drop_files(t) \/ lock_names_wait(t) \/ lock_names(t)
      \/ names_locked(t) \/ truncate(t) \/ rename(t)
      => CurStep(t)
  BY <1>1, <1>2, open_cached_cur, open_new_cur, refresh_cur, wait_for_tables_cur,
     close_thread_tables_cur, close_cached_tables_cur, flush_reopens_cur,
     flush_end_cur, drop_files_cur, lock_names_wait_cur, lock_names_cur,
     names_locked_cur, truncate_cur, rename_cur
<1>. QED  BY <1>1, <1>2, <1>3, <1>4, QuietStep DEF Begin, Step

LEMMA NextCur ==
  ASSUME Apart, IInv, Cur, [Next]_vars
  PROVE  Cur'
<1>1. CASE Next
  <2>1. PICK t \in Thread : Begin(t) \/ Step(t) \/ kill(t)  BY <1>1 DEF Next
  <2>. QED  BY <2>1, StepsRight, StepsCur, LegalSteps, CurKeeps
<1>2. CASE UNCHANGED vars
  <2>. USE <1>2 DEF vars
  <2>1. OpenIsCurrent'  BY DEF Cur, OpenIsCurrent
  <2>2. ASSUME NEW t \in Thread PROVE Name(t)' /\ Flusher(t)' /\ Legal(t)'
    <3>1. Name(t) /\ Flusher(t) /\ Legal(t)  BY DEF Cur
    <3>. QED  BY <3>1 DEF Name, Named, Passing, Flusher, FlusherPc, Flushing, Op, Legal
  <2>. QED  BY <2>1, <2>2 DEF Cur
<1>. QED  BY <1>1, <1>2

(* A TABLE with open files has the files its table has now, in every state:  *)
(* DROP, TRUNCATE and RENAME TABLE take LOCK_open and a name lock, wait for  *)
(* who has the old files, and keep out who would open new ones until they    *)
(* are done (sql_table.cc, sql_delete.cc, sql_rename.cc, sql_base.cc).       *)
THEOREM FilesCurrent ==
  ASSUME Apart
  PROVE  Spec => []OpenIsCurrent
<1>1. Init => Cur  BY InitCur
<1>2. IInv /\ Cur /\ [Next]_vars => Cur'  BY NextCur
<1>3. Cur => OpenIsCurrent  BY DEF Cur
<1>. QED  BY <1>1, <1>2, <1>3, Invariant, PTL DEF Spec

-----------------------------------------------------------------------------
(* No thread sleeps on COND_refresh for nothing.                             *)

(* No TRUNCATE, which broadcasts without LOCK_open; and FLUSH TABLES under    *)
(* LOCK TABLES finds all the tables it has closed, or none: else it wakes     *)
(* those who wait for a dropped one only after it has locked the others.      *)
Settled ==
  /\ \A t \in Thread : \A s \in Statement[t] : s.op # "truncate"
  /\ \/ \A t \in Thread : \A s \in Statement[t] : s.op \notin {"drop", "rename"}
     \/ \A t \in Thread : \A s, r \in Statement[t] :
          s.op = "lock" /\ r.op \in {"flush", "read_lock"} =>
            \A x, y \in s.tabs : x = y

(* Asleep on COND_refresh, or about to be and still with LOCK_open.           *)
Waiting(t) == pc[t] \in Waits /\ (t \in sleeping \/ LOCK_open = t)

(* DROP has made the TABLEs old that it waits for.                            *)
Must(t) ==
  /\ MustSleep(t)
  /\ pc[t] = "drop_wait" =>
       \E u \in Other(t) : /\ inst[u][Dropped(t)].file # 0
                           /\ inst[u][Dropped(t)].version # refresh_version

(* LOCK TABLES opens the tables it names.                                     *)
LockedRight(t) ==
  locked_tables[t] =>
    \E s \in Statement[t] : s.op = "lock" /\ Opened(t) \subseteq s.tabs

FilesThere ==
  \/ \E t \in Thread : \E s \in Statement[t] : s.op \in {"drop", "truncate", "rename"}
  \/ \A x \in Table : file[x] # 0

Awake ==
  /\ \A t \in sleeping : pc[t] \in Waits
  /\ \A t \in Thread : Waiting(t) => Must(t)
  /\ \A t \in Thread : LockedRight(t)
  /\ FilesThere

-----------------------------------------------------------------------------
(* What a step of thread t must show for Awake: it wakes all others, or what  *)
(* they may wait for is still so.                                             *)
IsOld(i, r)   == i.used /\ i.version # r
Lingers(i, r) == i.file # 0 /\ i.version < r

Wakes(t) == sleeping' = {} /\ \A u \in Other(t) : LOCK_open' # u
LeavesTable(i, j, t) ==
  /\ IsOld(i, refresh_version) => IsOld(j, refresh_version)
  /\ Lingers(i, refresh_version) => Lingers(j, refresh_version)
  /\ i.by_flush => j.by_flush \/ Lingers(j, refresh_version)
  /\ i.by_name => j.by_name
  /\ i.file # 0 => \/ j.file # 0
                   \/ i.version # 0 /\ version[t] = refresh_version
Leaves(t) ==
  /\ refresh_version' = refresh_version
  /\ global_read_lock > 0 => global_read_lock' > 0
  /\ protect_against_global_read_lock > 0 => protect_against_global_read_lock' > 0
  /\ \A x \in Table : LeavesTable(inst[t][x], inst'[t][x], t)
AwakeStep(t) ==
  /\ sleeping' \subseteq sleeping \cup {t}
  /\ t \in sleeping' => pc'[t] \in Waits
  /\ Waiting(t)' => Must(t)'
  /\ Wakes(t) \/ Leaves(t)
  /\ locked_tables'[t] =>
       \/ locked_tables[t] /\ Opened(t)' \subseteq Opened(t)
       \/ pc[t] = "run" /\ Op(t) = "lock" /\ Opened(t)' \subseteq stmt[t].tabs
  /\ file' = file \/ Op(t) \in {"drop", "truncate", "rename"}

(* The table that DROP drops.                                                 *)
LEMMA DroppedTable ==
  ASSUME NEW t \in Thread, Right(t), Op(t) = "drop"
  PROVE  Dropped(t) \in Table /\ stmt[t].tabs = {Dropped(t)}
<1>1. \E x \in Table : stmt[t].tabs = {x}  BY DEF Right, LabelRight, WellFormed, Op
<1>. QED  BY <1>1 DEF Dropped

(* What wait_for_tables waits for.                                            *)
LEMMA WaitsBecause ==
  ASSUME Data, NEW t \in Thread, WaitsForTables(t), refresh_version \in Nat
  PROVE  \E x \in Opened(t) : \E u \in Thread :
           \/ inst[u][x].by_flush \/ inst[u][x].by_name
           \/ u # t /\ Lingers(inst[u][x], refresh_version)
<1>1. PICK x \in Opened(t), u \in Thread :
         LET i == ClosedOld(t) IN
         \/ i[u][x].by_flush \/ i[u][x].by_name
         \/ i[u][x].file # 0 /\ i[u][x].version < refresh_version
  BY DEF WaitsForTables, table_is_used
<1>2. x \in Table /\ inst[u][x] \in TableType  BY DEF Opened, Data
<1>3. CASE u # t
  <2>1. ClosedOld(t)[u] = inst[u]  BY <1>3 DEF ClosedOld, Data
  <2>. QED  BY <1>1, <1>3, <2>1 DEF Lingers
<1>4. CASE u = t
  <2>1. ClosedOld(t)[t][x] = IF x \in Stale(t)
          THEN [inst[t][x] EXCEPT !.version = refresh_version, !.file = 0]
          ELSE inst[t][x]
    BY <1>2 DEF ClosedOld, Data
  <2>2. CASE x \in Stale(t)
    <3>1. /\ ClosedOld(t)[t][x].by_flush = inst[t][x].by_flush
          /\ ClosedOld(t)[t][x].by_name = inst[t][x].by_name
          /\ ClosedOld(t)[t][x].file = 0
      BY <1>2, <1>4, <2>1, <2>2 DEF TableType
    <3>. QED  BY <1>1, <1>4, <3>1
  <2>3. CASE x \notin Stale(t)
    <3>1. inst[t][x].version = refresh_version  BY <2>3 DEF Stale
    <3>. QED  BY <1>1, <1>4, <2>1, <2>3, <3>1
  <2>. QED  BY <2>2, <2>3
<1>. QED  BY <1>3, <1>4

LEMMA WaitsAgain ==
  ASSUME Data', NEW t \in Thread, NEW x \in Opened(t)', NEW u \in Thread,
         \/ inst'[u][x].by_flush \/ inst'[u][x].by_name
         \/ u # t /\ Lingers(inst'[u][x], refresh_version')
  PROVE  WaitsForTables(t)'
<1>1. x \in Table /\ inst'[u][x] \in TableType  BY DEF Opened, Data
<1> DEFINE i == ClosedOld(t)'
<1>2. CASE u # t
  <2>1. i[u] = inst'[u]  BY <1>2 DEF ClosedOld, Data
  <2>2. table_is_used(ClosedOld(t), x, TRUE)'
    BY <2>1 DEF Lingers, table_is_used
  <2>. QED  BY <2>2 DEF WaitsForTables
<1>3. CASE u = t
  <2>1. i[t][x] \in {inst'[t][x],
          [inst'[t][x] EXCEPT !.version = refresh_version', !.file = 0]}
    BY <1>1 DEF ClosedOld, Data
  <2>2. i[t][x].by_flush = inst'[t][x].by_flush /\ i[t][x].by_name = inst'[t][x].by_name
    BY <1>1, <1>3, <2>1 DEF TableType
  <2>3. table_is_used(ClosedOld(t), x, TRUE)'
    BY <1>3, <2>2 DEF table_is_used
  <2>. QED  BY <2>3 DEF WaitsForTables
<1>. QED  BY <1>2, <1>3

(* What RENAME waits for.                                                     *)
LEMMA NamesBecause ==
  ASSUME Data, NEW t \in Thread, NamesInUse(t), stmt[t].tabs \subseteq Table
  PROVE  \E x \in stmt[t].tabs : \E u \in Thread :
           inst[u][x].by_flush \/ inst[u][x].file # 0
<1> DEFINE i == Outdated(inst, stmt[t].tabs)
<1>1. PICK x \in stmt[t].tabs, u \in Thread : i[u][x].by_flush \/ i[u][x].file # 0
  BY DEF NamesInUse, table_is_used
<1>2. inst[u][x] \in TableType  BY DEF Data
<1>3. i[u][x] = Old(inst[u][x])  BY DEF Outdated, Old
<1>4. i[u][x].by_flush = inst[u][x].by_flush /\ i[u][x].file = inst[u][x].file
  BY <1>2, <1>3, OldSame
<1>. QED  BY <1>1, <1>4

LEMMA NamesAgain ==
  ASSUME Data', NEW t \in Thread, NEW x \in stmt'[t].tabs, x \in Table, NEW u \in Thread,
         inst'[u][x].by_flush \/ inst'[u][x].file # 0, inst'[u][x].used,
         refresh_version' \in Nat \ {0}
  PROVE  NamesInUse(t)'
<1> DEFINE i == Outdated(inst', stmt'[t].tabs)
<1>1. inst'[u][x] \in TableType  BY DEF Data
<1>2. i[u][x] = Old(inst'[u][x])  BY DEF Outdated, Old
<1>3. /\ i[u][x].by_flush = inst'[u][x].by_flush /\ i[u][x].file = inst'[u][x].file
      /\ i[u][x].version = 0
  BY <1>1, <1>2, OldSame
<1>4. table_is_used(Outdated(inst, stmt[t].tabs), x, FALSE)'
  BY <1>3 DEF table_is_used
<1>. QED  BY <1>4 DEF NamesInUse

(* What a step of t leaves of all TABLEs.                                     *)
LEMMA TablesLeft ==
  ASSUME IInv, NEW t \in Thread, StepRight(t), Leaves(t), NEW v \in Thread, NEW x \in Table
  PROVE  LeavesTable(inst[v][x], inst'[v][x], v)
<1>1. Data /\ Data' /\ Frame(t) /\ refresh_version \in Nat \ {0}
  BY DEF IInv, StepRight, Bounded
<1>2. CASE v = t  BY <1>2 DEF Leaves
<1>3. CASE v # t
  <2>1. Untouched(v)  BY <1>1, <1>3 DEF Frame, Other
  <2>2. inst[v][x] \in TableType /\ inst'[v][x] \in TableType  BY <1>1 DEF Data
  <2>3. /\ inst'[v][x].used = inst[v][x].used /\ inst'[v][x].file = inst[v][x].file
        /\ inst'[v][x].by_flush = inst[v][x].by_flush
        /\ inst'[v][x].by_name = inst[v][x].by_name
    BY <1>1, <2>1, OthersSame
  <2>4. inst'[v][x].version \in {inst[v][x].version, 0}
    BY <2>1, <2>2, OldSame DEF Untouched
  <2>. QED  BY <1>1, <2>3, <2>4 DEF LeavesTable, IsOld, Lingers
<1>. QED  BY <1>2, <1>3

LEMMA MustKept ==
  ASSUME IInv, Cur, NEW t \in Thread, StepRight(t), Leaves(t),
         NEW u \in Other(t), Must(u), pc[u] \in Waits
  PROVE  Must(u)'
<1>1. /\ Data /\ Data' /\ Frame(t) /\ refresh_version \in Nat \ {0}
      /\ refresh_version' = refresh_version /\ IInv'
  BY StepKeeps DEF IInv, StepRight, Bounded, Leaves
<1>2. u \in Thread /\ Untouched(u) /\ Right(u) /\ Name(u)
  BY <1>1 DEF Other, Frame, IInv, Cur
<1>3. /\ pc'[u] = pc[u] /\ stmt'[u] = stmt[u] /\ version'[u] = version[u]
      /\ Opened(u)' = Opened(u) /\ Op(u)' = Op(u)
  BY <1>1, <1>2, OthersSame DEF Untouched, Op
<1>4. stmt[u].tabs \subseteq Table  BY <1>2, NamesAreTables
<1>5. \A v \in Thread, x \in Table : LeavesTable(inst[v][x], inst'[v][x], v)
  BY TablesLeft
<1>6. \A v \in Thread : Right(v) /\ Right(v)'  BY <1>1 DEF IInv
<1>7. CASE pc[u] = "refresh"
  <2>1. PICK x \in stmt[u].tabs \ Opened(u), v \in Thread :
           inst[v][x].used /\ inst[v][x].version # refresh_version
    BY <1>7 DEF Must, MustSleep, OldUser
  <2>2. inst'[v][x].used /\ inst'[v][x].version # refresh_version'
    BY <1>1, <1>4, <1>5, <2>1 DEF LeavesTable, IsOld
  <2>3. OldUser(u, x)'  BY <2>2 DEF OldUser
  <2>. QED  BY <1>3, <1>7, <2>1, <2>3 DEF Must, MustSleep
<1>8. CASE pc[u] \in {"wait_if_wait", "name_read_lock_wait", "drop_read_lock", "read_lock_wait"}
  BY <1>1, <1>3, <1>8 DEF Must, MustSleep, Leaves
<1>9. CASE pc[u] = "flush_wait"
  <2>1. PICK v \in Thread, x \in Table : Lingers(inst[v][x], refresh_version)
    BY <1>9 DEF Must, MustSleep, OldTablesOpen, Lingers
  <2>2. Lingers(inst'[v][x], refresh_version')  BY <1>1, <1>5, <2>1 DEF LeavesTable
  <2>3. OldTablesOpen'  BY <2>2 DEF OldTablesOpen, Lingers
  <2>. QED  BY <1>3, <1>9, <2>3 DEF Must, MustSleep
<1>10. CASE pc[u] = "wait_tables_wait"
  <2>1. WaitsForTables(u)  BY <1>10 DEF Must, MustSleep
  <2>2. PICK x \in Opened(u), v \in Thread :
           \/ inst[v][x].by_flush \/ inst[v][x].by_name
           \/ v # u /\ Lingers(inst[v][x], refresh_version)
    BY <1>1, <1>2, <2>1, WaitsBecause
  <2>3. x \in Table /\ LeavesTable(inst[v][x], inst'[v][x], v)
    BY <1>5, <2>2 DEF Opened
  <2>4. ~ inst[u][x].by_flush
    BY <1>2, <1>10, <2>3 DEF Right, InstRight
  <2>5. \/ inst'[v][x].by_flush \/ inst'[v][x].by_name
        \/ v # u /\ Lingers(inst'[v][x], refresh_version')
    BY <1>1, <2>2, <2>3, <2>4 DEF LeavesTable
  <2>6. WaitsForTables(u)'  BY <1>1, <1>2, <1>3, <2>2, <2>5, WaitsAgain
  <2>. QED  BY <1>3, <1>10, <2>6 DEF Must, MustSleep
<1>11. CASE pc[u] = "drop_wait"
  <2>1. Dropped(u) \in Table /\ Dropped(u)' = Dropped(u)
    BY <1>2, <1>3, <1>11, DroppedTable DEF Right, LabelRight, Dropped
  <2>2. PICK v \in Other(u) : /\ inst[v][Dropped(u)].file # 0
                              /\ inst[v][Dropped(u)].version # refresh_version
    BY <1>11 DEF Must
  <2>3. v \in Thread  BY DEF Other
  <2>4. Lingers(inst[v][Dropped(u)], refresh_version)
    <3>1. InstRight(v, Dropped(u)) /\ inst[v][Dropped(u)] \in TableType
      BY <1>1, <1>6, <2>1, <2>3 DEF Right, Data
    <3>2. inst[v][Dropped(u)].version \in Nat  BY <3>1, Constants DEF TableType
    <3>. QED  BY <1>1, <2>2, <3>1, <3>2 DEF InstRight, Lingers
  <2>5. Lingers(inst'[v][Dropped(u)], refresh_version')
    BY <1>1, <1>5, <2>1, <2>3, <2>4 DEF LeavesTable
  <2>6. inst'[v][Dropped(u)].version \in Nat
    <3>1. inst'[v][Dropped(u)] \in TableType  BY <1>1, <2>1, <2>3 DEF Data
    <3>. QED  BY <3>1, Constants DEF TableType
  <2>7. /\ inst'[v][Dropped(u)].file # 0
        /\ inst'[v][Dropped(u)].version # refresh_version'
    BY <1>1, <2>5, <2>6 DEF Lingers
  <2>8. InUseByOthers(u, Dropped(u))'  BY <2>1, <2>2, <2>7 DEF InUseByOthers, Other
  <2>. QED  BY <1>3, <1>11, <2>1, <2>2, <2>7, <2>8 DEF Must, MustSleep, Other
<1>12. CASE pc[u] = "name_wait"
  <2>1. NamesInUse(u)  BY <1>12 DEF Must, MustSleep
  <2>2. PICK x \in stmt[u].tabs, v \in Thread : inst[v][x].by_flush \/ inst[v][x].file # 0
    BY <1>1, <1>2, <1>4, <2>1, NamesBecause
  <2>3. x \in Table /\ LeavesTable(inst[v][x], inst'[v][x], v)  BY <1>4, <1>5, <2>2
  <2>4. ASSUME inst[v][x].file # 0 PROVE inst'[v][x].file # 0
    <3>1. CASE v = u
      BY <1>1, <1>2, <2>3, <2>4, <3>1, OthersSame
    <3>2. CASE v # u
      <4>1. Passing(v, x)  BY <1>12, <1>2, <2>2, <2>4, <3>2 DEF Name, Named, Other
      <4>2. version[v] \in Nat  BY <1>1, Constants DEF Data
      <4>. QED  BY <1>1, <2>3, <2>4, <4>1, <4>2 DEF LeavesTable, Passing
    <3>. QED  BY <3>1, <3>2
  <2>5. inst'[v][x].by_flush \/ inst'[v][x].file # 0
    BY <2>2, <2>3, <2>4 DEF LeavesTable, Lingers
  <2>6. inst'[v][x].used
    <3>1. InstRight(v, x)' /\ ~ NoTable.by_flush /\ NoTable.file = 0
      BY <1>6, <2>3 DEF Right, NoTable
    <3>. QED  BY <2>5, <3>1 DEF InstRight
  <2>7. NamesInUse(u)'
    BY <1>1, <1>2, <1>3, <2>2, <2>3, <2>5, <2>6, NamesAgain
  <2>. QED  BY <1>3, <1>12, <2>7 DEF Must, MustSleep
<1>. QED  BY <1>7, <1>8, <1>9, <1>10, <1>11, <1>12

LEMMA AwakeKeeps ==
  ASSUME IInv, Cur, Awake, NEW t \in Thread, StepRight(t), LegalStep(t), AwakeStep(t)
  PROVE  Awake'
<1>1. Data /\ Frame(t)  BY DEF IInv, StepRight
<1>2. ASSUME NEW u \in Thread, u # t
      PROVE  /\ u \in Other(t) /\ Untouched(u) /\ Opened(u)' = Opened(u)
             /\ pc'[u] = pc[u] /\ locked_tables'[u] = locked_tables[u]
             /\ LOCK_open' = u => LOCK_open = u
  <2>1. u \in Other(t) /\ Untouched(u)  BY <1>1, <1>2 DEF Frame, Other
  <2>. QED  BY <1>1, <2>1, OthersSame DEF Untouched
<1>3. ASSUME NEW u \in sleeping' PROVE pc'[u] \in Waits
  <2>1. u \in Thread  BY <1>3 DEF StepRight, Data
  <2>2. CASE u = t  BY <1>3, <2>2 DEF AwakeStep
  <2>3. CASE u # t
    <3>1. u \in sleeping  BY <1>3, <2>3 DEF AwakeStep
    <3>. QED  BY <1>2, <2>1, <2>3, <3>1 DEF Awake
  <2>. QED  BY <2>2, <2>3
<1>4. ASSUME NEW u \in Thread, Waiting(u)' PROVE Must(u)'
  <2>1. CASE u = t  BY <1>4, <2>1 DEF AwakeStep
  <2>2. CASE u # t
    <3>1. ~ Wakes(t)  BY <1>2, <1>4, <2>2 DEF Wakes, Waiting
    <3>2. Leaves(t)  BY <3>1 DEF AwakeStep
    <3>3. Waiting(u)  BY <1>2, <1>4, <2>2 DEF Waiting, AwakeStep
    <3>4. Must(u) /\ pc[u] \in Waits  BY <3>3 DEF Awake, Waiting
    <3>. QED  BY <1>2, <2>2, <3>2, <3>4, MustKept
  <2>. QED  BY <2>1, <2>2
<1>5. ASSUME NEW u \in Thread PROVE LockedRight(u)'
  <2>1. LockedRight(u)  BY DEF Awake
  <2>2. CASE u = t
    <3>1. CASE locked_tables'[t] /\ locked_tables[t] /\ Opened(t)' \subseteq Opened(t)
      BY <2>1, <2>2, <3>1 DEF LockedRight
    <3>2. CASE pc[t] = "run" /\ Op(t) = "lock" /\ Opened(t)' \subseteq stmt[t].tabs
      <4>1. Legal(t)  BY DEF Cur
      <4>2. stmt[t] \in Statement[t]  BY <3>2, <4>1 DEF Legal, Op
      <4>. QED  BY <2>2, <3>2, <4>2 DEF LockedRight, Op
    <3>. QED  BY <2>2, <3>1, <3>2 DEF AwakeStep, LockedRight
  <2>3. CASE u # t  BY <1>2, <2>1, <2>3 DEF LockedRight
  <2>. QED  BY <2>2, <2>3
<1>6. FilesThere'
  <2>1. CASE file' = file  BY <2>1 DEF Awake, FilesThere
  <2>2. CASE Op(t) \in {"drop", "truncate", "rename"}
    <3>1. Legal(t)  BY DEF Cur
    <3>2. stmt[t] \in Statement[t]  BY <2>2, <3>1 DEF Legal, Op
    <3>. QED  BY <2>2, <3>2 DEF FilesThere, Op
  <2>. QED  BY <2>1, <2>2 DEF AwakeStep
<1>. QED  BY <1>3, <1>4, <1>5, <1>6 DEF Awake

-----------------------------------------------------------------------------
(* Steps that leave the TABLEs in use alone.                                  *)

Still(t) ==
  /\ inst' = inst /\ file' = file /\ refresh_version' = refresh_version
  /\ global_read_lock > 0 => global_read_lock' > 0
  /\ protect_against_global_read_lock > 0 => protect_against_global_read_lock' > 0
  /\ sleeping' \subseteq sleeping \cup {t}
  /\ t \in sleeping' => pc'[t] \in Waits
  /\ Waiting(t)' => Must(t)'
  /\ locked_tables'[t] => locked_tables[t] \/ (pc[t] = "run" /\ Op(t) = "lock")

LEMMA StillStep ==
  ASSUME IInv, NEW t \in Thread, Still(t)
  PROVE  AwakeStep(t)
<1>1. Right(t)  BY DEF IInv
<1>2. \A x \in Table : LeavesTable(inst[t][x], inst'[t][x], t)
  BY DEF Still, LeavesTable
<1>3. Leaves(t)  BY <1>2 DEF Still, Leaves
<1>4. Opened(t)' = Opened(t)  BY DEF Still, Opened
<1>5. ASSUME pc[t] = "run", Op(t) = "lock" PROVE Opened(t) \subseteq stmt[t].tabs
  <2>1. ~ locked_tables[t]  BY <1>1, <1>5 DEF Right, LabelRight
  <2>2. \A x \in Table : x \in Opened(t) => x \in stmt[t].tabs
    BY <1>1, <1>5, <2>1 DEF Right, OpenRight
  <2>. QED  BY <2>2 DEF Opened
<1>. QED  BY <1>3, <1>4, <1>5 DEF Still, AwakeStep

(* What a thread waits for depends on these only.                             *)
LEMMA MustSame ==
  ASSUME NEW t \in Thread, Must(t), pc[t] \in Waits, inst' = inst,
         refresh_version' = refresh_version,
         global_read_lock' = global_read_lock,
         protect_against_global_read_lock' = protect_against_global_read_lock,
         version'[t] = version[t], pc'[t] = pc[t], stmt'[t] = stmt[t]
  PROVE  Must(t)'
<1>1. Opened(t)' = Opened(t) /\ Dropped(t)' = Dropped(t)  BY DEF Opened, Dropped
<1>2. \A x : (OldUser(t, x)' <=> OldUser(t, x)) /\ (InUseByOthers(t, x)' <=> InUseByOthers(t, x))
  BY DEF OldUser, InUseByOthers, Other
<1>3. OldTablesOpen' <=> OldTablesOpen  BY DEF OldTablesOpen
<1>4. NamesInUse(t)' <=> NamesInUse(t)
  BY DEF NamesInUse, table_is_used, Outdated
<1>5. WaitsForTables(t)' <=> WaitsForTables(t)
  BY <1>1 DEF WaitsForTables, table_is_used, ClosedOld, Stale
<1>6. MustSleep(t)'
  <2>1. CASE pc[t] = "refresh"
    <3>1. \E x \in stmt[t].tabs \ Opened(t) : OldUser(t, x)  BY <2>1 DEF Must, MustSleep
    <3>2. \E x \in stmt'[t].tabs \ Opened(t)' : OldUser(t, x)'  BY <1>1, <1>2, <3>1
    <3>. QED  BY <2>1, <3>2 DEF MustSleep
  <2>2. CASE pc[t] \in {"wait_if_wait", "name_read_lock_wait", "drop_read_lock", "read_lock_wait"}
    BY <2>2 DEF Must, MustSleep
  <2>3. CASE pc[t] \in {"wait_tables_wait", "flush_wait", "name_wait"}
    BY <1>3, <1>4, <1>5, <2>3 DEF Must, MustSleep
  <2>4. CASE pc[t] = "drop_wait"
    BY <1>1, <1>2, <2>4 DEF Must, MustSleep
  <2>. QED  BY <2>1, <2>2, <2>3, <2>4
<1>. QED  BY <1>1, <1>6 DEF Must, Other

LEMMA AwakeLabel ==
  ASSUME Awake, NEW t \in Thread, pc[t] \notin Waits
  PROVE  t \notin sleeping
BY DEF Awake

LEMMA StillSteps ==
  ASSUME IInv, Awake, NEW t \in Thread,
         begin_query(t) \/ begin_flush(t) \/ begin_ddl(t) \/ open_killed(t)
         \/ open_refused(t) \/ open_fails(t) \/ lock_tables(t)
         \/ wait_if_fails(t) \/ wait_if_done(t)
         \/ thr_grants(t) \/ thr_waits(t) \/ thr_fails(t) \/ lock_again(t)
         \/ lock_killed(t) \/ lock_done(t) \/ wait_tables_killed(t)
         \/ run_done(t) \/ unlock(t) \/ cleanup(t) \/ drop_refused(t)
         \/ drop_unlocks_again(t) \/ names_locked(t)
  PROVE  Still(t)
<1>1. /\ Data /\ global_read_lock \in Nat /\ protect_against_global_read_lock \in Nat
      /\ t # NoThread /\ LabelRight(t) /\ MutexRight(t)
      /\ pc[t] \notin Waits => t \notin sleeping
  BY CountersType, Constants, AwakeLabel DEF IInv, Right
<1>2. CASE begin_query(t) \/ begin_flush(t) \/ begin_ddl(t)
  <2>1. pc'[t] \notin Waits
    BY <1>1, <1>2 DEF begin_query, begin_flush, begin_ddl, Starts, Goto, Data
  <2>. QED
    BY <1>1, <1>2, <2>1 DEF Still, Waiting, begin_query, begin_flush, begin_ddl, Starts
<1>3. CASE open_killed(t) \/ open_fails(t)
  <2>1. pc'[t] \notin Waits
    BY <1>1, <1>3 DEF open_killed, open_fails, Goto, Data
  <2>. QED  BY <1>1, <1>3, <2>1 DEF Still, Waiting, open_killed, open_fails, NotCached, Opening
<1>4. CASE open_refused(t)
  <2>1. t \notin sleeping' /\ LOCK_open' # t
    BY <1>1, <1>4 DEF open_refused, Opening, Enter
  <2>. QED  BY <1>4, <2>1 DEF Still, Waiting, open_refused
<1>5. CASE lock_tables(t) \/ lock_again(t) \/ lock_killed(t) \/ lock_done(t)
  <2>1. pc'[t] \notin Waits /\ pc[t] \notin Waits
    BY <1>1, <1>5 DEF lock_tables, lock_again, lock_killed, lock_done, lock_failed, Goto, Data
  <2>. QED  BY <1>1, <1>5, <2>1 DEF Still, Waiting, lock_tables, lock_again, lock_killed, lock_done
<1>6. CASE wait_if_fails(t) \/ wait_if_done(t) \/ wait_tables_killed(t) \/ names_locked(t)
  <2>1. pc'[t] \notin Waits /\ t \notin sleeping
    BY <1>1, <1>6 DEF wait_if_fails, wait_if_done, wait_tables_killed, names_locked,
       InWaitTables, lock_failed, Enter, Goto, Data
  <2>2. CASE wait_if_done(t)
    BY <1>1, <2>1, <2>2 DEF Still, Waiting, wait_if_done
  <2>. QED
    BY <1>1, <1>6, <2>1, <2>2 DEF Still, Waiting, wait_if_fails, wait_tables_killed, names_locked
<1>7. CASE thr_grants(t) \/ thr_waits(t) \/ thr_fails(t)
  <2>1. pc'[t] \notin Waits /\ pc[t] \notin Waits
    BY <1>1, <1>7 DEF thr_grants, thr_waits, thr_fails, Goto, Data
  <2>. QED  BY <1>1, <1>7, <2>1 DEF Still, Waiting, thr_grants, thr_waits, thr_fails
<1>8. CASE run_done(t) \/ unlock(t) \/ cleanup(t)
  <2>1. pc'[t] \notin Waits /\ pc[t] \notin Waits
    BY <1>1, <1>8 DEF run_done, unlock, cleanup, Goto, Data
  <2>2. locked_tables'[t] => locked_tables[t] \/ (pc[t] = "run" /\ Op(t) = "lock")
    BY <1>1, <1>8 DEF run_done, unlock, cleanup, Data
  <2>. QED  BY <1>1, <1>8, <2>1, <2>2 DEF Still, Waiting, run_done, unlock, cleanup
<1>9. CASE drop_refused(t) \/ drop_unlocks_again(t)
  <2>1. pc'[t] \notin Waits /\ sleeping' = {}
    BY <1>1, <1>9 DEF drop_refused, drop_unlocks_again, Done, Goto, Data, Broadcast
  <2>. QED  BY <1>1, <1>9, <2>1 DEF Still, Waiting, drop_refused, drop_unlocks_again
<1>. QED  BY <1>2, <1>3, <1>4, <1>5, <1>6, <1>7, <1>8, <1>9

(* Steps towards pthread_cond_wait, and KILL.                                 *)
LEMMA WaitingSteps ==
  ASSUME IInv, Awake, NEW t \in Thread,
         wait_if_waits(t) \/ lock_global_read_lock(t) \/ flush_waits(t)
         \/ drop_waits(t) \/ names_wait(t) \/ cond_wait(t) \/ kill(t)
  PROVE  Still(t)
<1>1. /\ Data /\ global_read_lock \in Nat /\ protect_against_global_read_lock \in Nat
      /\ t # NoThread /\ LabelRight(t)
      /\ pc[t] \notin Waits => t \notin sleeping
  BY CountersType, Constants, AwakeLabel DEF IInv, Right
<1>2. CASE wait_if_waits(t)
  <2>1. /\ pc'[t] = IF ForName(t) THEN "name_read_lock_wait" ELSE "wait_if_wait"
        /\ global_read_lock > 0 /\ (ForName(t) \/ version[t] = refresh_version)
        /\ t \notin sleeping
    BY <1>1, <1>2 DEF wait_if_waits, WaitAt, Goto, Data, MustWaitIf, Enter
  <2>2. Must(t)'  BY <1>2, <2>1 DEF wait_if_waits, Must, MustSleep
  <2>. QED  BY <1>2, <2>1, <2>2 DEF Still, wait_if_waits
<1>3. CASE lock_global_read_lock(t)
  <2>1. t \notin sleeping  BY <1>3 DEF lock_global_read_lock, Enter
  <2>2. CASE /\ protect_against_global_read_lock > 0 /\ WaitAt(t, "read_lock_wait")
             /\ UNCHANGED <<global_read_lock, holds, sleeping>>
    <3>1. pc'[t] = "read_lock_wait"  BY <1>1, <2>2 DEF WaitAt, Goto, Data
    <3>2. Must(t)'
      BY <1>3, <2>2, <3>1 DEF lock_global_read_lock, Must, MustSleep
    <3>. QED  BY <1>3, <2>1, <2>2, <3>2 DEF Still, lock_global_read_lock
  <2>3. CASE Done(t) /\ UNCHANGED <<global_read_lock, holds, mutex>>
    <3>1. pc'[t] \notin Waits  BY <1>1, <2>3 DEF Done, Goto, Data
    <3>. QED  BY <1>3, <2>1, <2>3, <3>1 DEF Still, Waiting, lock_global_read_lock
  <2>4. CASE global_read_lock' = global_read_lock + 1 /\ Goto(t, "flush") /\ UNCHANGED mutex
    <3>1. pc'[t] \notin Waits  BY <1>1, <2>4 DEF Goto, Data
    <3>. QED  BY <1>1, <1>3, <2>1, <2>4, <3>1 DEF Still, Waiting, lock_global_read_lock
  <2>. QED  BY <1>3, <2>2, <2>3, <2>4 DEF lock_global_read_lock
<1>4. CASE flush_waits(t)
  <2>1. pc'[t] = "flush_wait" /\ OldTablesOpen
    BY <1>1, <1>4 DEF flush_waits, WaitAt, Goto, Data
  <2>2. Must(t)'  BY <1>4, <2>1 DEF flush_waits, Must, MustSleep, OldTablesOpen
  <2>3. t \notin sleeping  BY <1>1, <1>4 DEF flush_waits, InFlushLoop, Enter
  <2>. QED  BY <1>4, <2>2, <2>3 DEF Still, flush_waits
<1>5. CASE drop_waits(t)
  <2>1. pc'[t] = "drop_read_lock" /\ global_read_lock > 0 /\ t \notin sleeping
    BY <1>1, <1>5 DEF drop_waits, InDrop, Enter, WaitAt, Goto, Data
  <2>2. Must(t)'  BY <1>5, <2>1 DEF drop_waits, Must, MustSleep
  <2>. QED  BY <1>5, <2>1, <2>2 DEF Still, drop_waits
<1>6. CASE names_wait(t)
  <2>1. pc'[t] = "name_wait" /\ NamesInUse(t) /\ t \notin sleeping
    BY <1>1, <1>6 DEF names_wait, Enter, WaitAt, Goto, Data
  <2>2. NamesInUse(t)'
    BY <1>6, <2>1 DEF names_wait, NamesInUse, table_is_used, Outdated
  <2>3. Must(t)'  BY <2>1, <2>2 DEF Must, MustSleep
  <2>. QED  BY <1>6, <2>1, <2>3 DEF Still, names_wait
<1>7. CASE cond_wait(t)
  <2>1. Must(t) /\ pc[t] \in Waits  BY <1>7 DEF cond_wait, Awake, Waiting
  <2>2. Must(t)'  BY <1>7, <2>1, MustSame DEF cond_wait
  <2>. QED  BY <1>7, <2>1, <2>2 DEF Still, cond_wait
<1>8. CASE kill(t)
  <2>1. CASE Waiting(t)
    <3>1. Must(t)'  BY <1>8, <2>1, MustSame DEF kill, Awake, Waiting
    <3>2. pc'[t] \in Waits /\ sleeping' \subseteq sleeping
      BY <1>8, <2>1 DEF kill, Waiting, Broadcast
    <3>. QED  BY <1>8, <3>1, <3>2 DEF Still, kill
  <2>2. CASE ~ Waiting(t)
    <3>1. mutex' = mutex  BY <1>8, <2>2 DEF kill, Waiting
    <3>2. ~ Waiting(t)' /\ t \notin sleeping'
      BY <1>1, <1>8, <2>2, <3>1 DEF kill, Waiting
    <3>. QED  BY <1>8, <3>1, <3>2 DEF Still, kill
  <2>. QED  BY <2>1, <2>2
<1>. QED  BY <1>2, <1>3, <1>4, <1>5, <1>6, <1>7, <1>8

(* The global read lock is given back.                                        *)
LEMMA UnlockSteps ==
  ASSUME IInv, Awake, NEW t \in Thread, unlock_tables(t) \/ disconnect(t)
  PROVE  AwakeStep(t)
<1>1. /\ Data /\ global_read_lock \in Nat /\ t # NoThread /\ pc[t] \notin Waits
      /\ t \notin sleeping
  <2>1. pc[t] \notin Waits  BY DEF unlock_tables, disconnect
  <2>. QED  BY <2>1, CountersType, Constants, AwakeLabel DEF IInv
<1>2. /\ pc'[t] \notin Waits /\ inst' = inst /\ file' = file
      /\ refresh_version' = refresh_version
      /\ protect_against_global_read_lock' = protect_against_global_read_lock
      /\ locked_tables'[t] => locked_tables[t]
  BY <1>1 DEF unlock_tables, disconnect, unlock_global_read_lock, Goto, Data
<1>3. CASE unlock_global_read_lock(t) /\ global_read_lock = 1
  <2>1. sleeping' = {} /\ LOCK_open' = NoThread
    BY <1>3 DEF unlock_global_read_lock, Enter, BroadcastIf, Leave
  <2>2. Wakes(t)  BY <2>1, Constants DEF Wakes, Other
  <2>3. Opened(t)' = Opened(t)  BY <1>2 DEF Opened
  <2>. QED  BY <1>2, <2>1, <2>2, <2>3 DEF AwakeStep, Waiting
<1>4. CASE unlock_global_read_lock(t) /\ global_read_lock # 1
  <2>1. global_read_lock' = global_read_lock - 1 /\ sleeping' = sleeping
    BY <1>4 DEF unlock_global_read_lock, BroadcastIf
  <2>2. Still(t)  BY <1>1, <1>2, <1>4, <2>1 DEF Still, Waiting
  <2>. QED  BY <2>2, StillStep
<1>5. CASE UNCHANGED <<holds, globals, mutex>>
  <2>1. Still(t)  BY <1>1, <1>2, <1>5 DEF Still, Waiting
  <2>. QED  BY <2>1, StillStep
<1>. QED  BY <1>3, <1>4, <1>5 DEF unlock_tables, disconnect

(* A step that wakes all the others.                                          *)
LEMMA WakesStep ==
  ASSUME NEW t \in Thread, sleeping' = {}, LOCK_open' \in {t, NoThread},
         Waiting(t)' => Must(t)',
         locked_tables'[t] => locked_tables[t] /\ Opened(t)' \subseteq Opened(t),
         file' = file \/ Op(t) \in {"drop", "truncate", "rename"}
  PROVE  AwakeStep(t)
<1>1. Wakes(t)  BY Constants DEF Wakes, Other
<1>. QED  BY <1>1 DEF AwakeStep

(* open_table waits for a TABLE of a table that its thread has not opened.    *)
LEMMA open_waits_awake ==
  ASSUME IInv, Awake, NEW t \in Thread, open_waits(t)
  PROVE  AwakeStep(t)
<1>1. Data /\ Right(t) /\ LabelRight(t) /\ refresh_version \in 1 .. MaxVersion
  BY CountersType DEF IInv, Right
<1>2. /\ pc[t] = "open" /\ pc'[t] = "refresh" /\ LOCK_open' = t /\ t \notin sleeping
      /\ inst' = ClosedOld(t) /\ sleeping' = IF Stale(t) # {} THEN {} ELSE sleeping
      /\ UNCHANGED <<file, globals, stmt, locked_tables>>
  BY <1>1 DEF open_waits, Opening, Enter, WaitAt, Goto, BroadcastIf, Data
<1>3. ~ locked_tables[t]  BY <1>1, <1>2 DEF LabelRight
<1>4. PICK x \in stmt[t].tabs \ Opened(t) : OldUser(t, x) /\ x \in Table
  BY DEF open_waits, Opening
<1>5. /\ Opened(t)' = Opened(t)
      /\ \A u \in Other(t) : inst'[u] = inst[u]
      /\ Stale(t) = {} => \A y \in Table : inst'[t][y] = inst[t][y]
  BY <1>1, <1>2, ClosedOldSame DEF Opened
<1>6. Must(t)'
  <2>1. PICK u \in Thread : inst[u][x].used /\ inst[u][x].version # refresh_version
    BY <1>4 DEF OldUser
  <2>2. u # t
    <3>1. ~ inst[t][x].by_name  BY <1>1, <1>2, <1>4 DEF Right, InstRight
    <3>. QED  BY <1>4, <2>1, <3>1 DEF Opened
  <2>3. inst'[u] = inst[u]  BY <1>5, <2>2 DEF Other
  <2>4. OldUser(t, x)'  BY <1>2, <2>1, <2>3 DEF OldUser
  <2>5. x \in stmt'[t].tabs \ Opened(t)'  BY <1>2, <1>4, <1>5
  <2>. QED  BY <1>2, <2>4, <2>5 DEF Must, MustSleep
<1>7. CASE Stale(t) # {}
  BY <1>2, <1>3, <1>6, <1>7, WakesStep
<1>8. CASE Stale(t) = {}
  <2>1. Leaves(t)  BY <1>2, <1>5, <1>8 DEF Leaves, LeavesTable
  <2>. QED  BY <1>2, <1>3, <1>6, <1>8, <2>1 DEF AwakeStep
<1>. QED  BY <1>7, <1>8

(* A table is opened.                                                         *)
LEMMA OpenedAwake ==
  ASSUME IInv, NEW t \in Thread, NEW y \in Table, Opening(t, y),
         UNCHANGED <<file, globals, mutex, locked_tables>>,
         \A x \in Table \ {y} : inst'[t][x] = inst[t][x]
  PROVE  AwakeStep(t)
<1>1. Data /\ Right(t) /\ LabelRight(t)  BY DEF IInv, Right
<1>2. pc[t] = "open" /\ y \notin Opened(t) /\ t \notin sleeping /\ LOCK_open = NoThread
  BY DEF Opening, Enter
<1>3. ~ locked_tables[t]  BY <1>1, <1>2 DEF LabelRight
<1>4. inst[t][y] = NoTable
  <2>1. ~ inst[t][y].by_name  BY <1>1, <1>2 DEF Right, InstRight
  <2>. QED  BY <1>1, <1>2, <2>1 DEF Right, InstRight, Opened
<1>5. ASSUME NEW x \in Table PROVE LeavesTable(inst[t][x], inst'[t][x], t)
  BY <1>4, NoTableSame DEF LeavesTable, IsOld, Lingers
<1>6. Leaves(t)  BY <1>5 DEF Leaves
<1>7. ~ Waiting(t)'  BY <1>2, Constants DEF Waiting
<1>. QED  BY <1>2, <1>3, <1>6, <1>7 DEF AwakeStep

LEMMA open_awake ==
  ASSUME IInv, NEW t \in Thread, open_cached(t) \/ open_new(t)
  PROVE  AwakeStep(t)
<1>1. PICK y \in Table : \E i : Opening(t, y) /\ Open(t, y, i)
  BY DEF open_cached, open_new, NotCached
<1>2. PICK i : Opening(t, y) /\ Open(t, y, i)  BY <1>1
<1>3. \A x \in Table \ {y} : inst'[t][x] = inst[t][x]
  BY <1>2 DEF Open, IInv, Data
<1>4. UNCHANGED <<file, globals, mutex, locked_tables>>
  BY <1>2 DEF Open
<1>. QED  BY <1>2, <1>3, <1>4, OpenedAwake

LEMMA refresh_awake ==
  ASSUME IInv, NEW t \in Thread, refresh(t)
  PROVE  AwakeStep(t)
<1> DEFINE old == {x \in Opened(t) : \/ inst[t][x].version # refresh_version
                                     \/ inst[t][x].file = 0}
<1>1. Data /\ LabelRight(t)  BY DEF IInv, Right
<1>2. /\ pc[t] = "refresh" /\ pc'[t] = "open"
      /\ LOCK_open = NoThread /\ LOCK_open' = NoThread /\ t \notin sleeping
      /\ sleeping' = IF old # {} THEN {} ELSE sleeping
      /\ \A x \in Table : inst'[t][x] = IF x \in old THEN NoTable ELSE inst[t][x]
      /\ UNCHANGED <<file, globals, locked_tables>>
  BY <1>1 DEF refresh, Enter, Leave, BroadcastIf, Goto, Data
<1>3. ~ locked_tables[t]  BY <1>1, <1>2 DEF LabelRight
<1>4. ~ Waiting(t)'  BY <1>2 DEF Waiting
<1> HIDE DEF old
<1>5. CASE old # {}  BY <1>2, <1>3, <1>4, <1>5, WakesStep
<1>6. CASE old = {}
  <2>1. Leaves(t)  BY <1>2, <1>6 DEF Leaves, LeavesTable
  <2>. QED  BY <1>2, <1>3, <1>4, <1>6, <2>1 DEF AwakeStep
<1>. QED  BY <1>5, <1>6

(* wait_for_tables closes its old TABLEs and waits, or goes on.               *)
LEMMA wait_for_tables_awake ==
  ASSUME IInv, NEW t \in Thread, StepRight(t), wait_for_tables(t)
  PROVE  AwakeStep(t)
<1>1. Data /\ Data' /\ Right(t) /\ refresh_version \in 1 .. MaxVersion
  BY CountersType DEF IInv, StepRight
<1>2. /\ pc[t] \in {"wait_tables", "wait_tables_wait"}
      /\ LOCK_open = NoThread /\ t \notin sleeping
      /\ UNCHANGED <<file, globals, locked_tables>>
  BY DEF wait_for_tables, InWaitTables, Enter
<1>3. /\ \A x \in Table : /\ ClosedOld(t)[t][x].used = inst[t][x].used
                          /\ ClosedOld(t)[t][x].by_name = inst[t][x].by_name
                          /\ ClosedOld(t)[t][x].by_flush = inst[t][x].by_flush
      /\ \A u \in Other(t) : ClosedOld(t)[u] = inst[u]
      /\ Stale(t) = {} => \A x \in Table : ClosedOld(t)[t][x] = inst[t][x]
  BY <1>1, ClosedOldSame
<1>4. CASE WaitsForTables(t)
  <2>1. /\ inst' = ClosedOld(t) /\ LOCK_open' = t /\ pc'[t] = "wait_tables_wait"
        /\ sleeping' = IF Stale(t) # {} \/ Dropping # {} THEN {} ELSE sleeping
    BY <1>1, <1>4 DEF wait_for_tables, WaitAt, Goto, BroadcastIf, Data
  <2>2. Opened(t)' = Opened(t)  BY <1>3, <2>1 DEF Opened
  <2>3. Must(t)'
    <3>1. PICK x \in Opened(t), u \in Thread :
             \/ inst[u][x].by_flush \/ inst[u][x].by_name
             \/ u # t /\ Lingers(inst[u][x], refresh_version)
      BY <1>1, <1>4, WaitsBecause
    <3>2. x \in Table /\ x \in Opened(t)'  BY <2>2 DEF Opened
    <3>3. \/ inst'[u][x].by_flush \/ inst'[u][x].by_name
          \/ u # t /\ Lingers(inst'[u][x], refresh_version')
      <4>1. CASE u = t  BY <1>3, <2>1, <3>1, <3>2, <4>1
      <4>2. CASE u # t
        <5>1. inst'[u] = inst[u]  BY <1>3, <2>1, <4>2 DEF Other
        <5>. QED  BY <1>2, <3>1, <5>1
      <4>. QED  BY <4>1, <4>2
    <3>4. WaitsForTables(t)'  BY <1>1, <3>2, <3>3, WaitsAgain
    <3>. QED  BY <2>1, <3>4 DEF Must, MustSleep
  <2>4. CASE Stale(t) # {} \/ Dropping # {}
    BY <1>2, <2>1, <2>2, <2>3, <2>4, WakesStep
  <2>5. CASE Stale(t) = {} /\ Dropping = {}
    <3>1. Leaves(t)  BY <1>2, <1>3, <2>1, <2>5 DEF Leaves, LeavesTable
    <3>. QED  BY <1>2, <2>1, <2>2, <2>3, <2>5, <3>1 DEF AwakeStep
  <2>. QED  BY <2>4, <2>5
<1>5. CASE ~ WaitsForTables(t)
  <2>1. /\ inst' = Reopened(t, ClosedOld(t)) /\ LOCK_open' = NoThread /\ sleeping' = {}
    BY <1>2, <1>5 DEF wait_for_tables, Broadcast, Leave
  <2>2. ASSUME NEW x \in Table, x \in Opened(t)' PROVE x \in Opened(t)
    <3> DEFINE c == ClosedOld(t)
    <3>1. c \in [Thread -> [Table -> TableType]]  BY <1>1, ClosedOldSame
    <3> HIDE DEF c
    <3>2. inst' = Reopened(t, c)  BY <2>1 DEF c
    <3>3. inst'[t][x] = c[t][x] \/ inst'[t][x] = NoTable \/ c[t][x].used
      BY <3>1, <3>2 DEF Reopened
    <3>4. c[t][x].used  BY <2>2, <3>3, NoTableSame DEF Opened
    <3>5. ~ inst[t][x].by_name  BY <1>1, <1>2 DEF Right, InstRight
    <3>. QED  BY <1>3, <3>4, <3>5 DEF Opened, c
  <2>3. Opened(t)' \subseteq Opened(t)  BY <2>2 DEF Opened
  <2>4. ~ Waiting(t)'  BY <2>1, Constants DEF Waiting
  <2>. QED  BY <1>2, <2>1, <2>3, <2>4, WakesStep
<1>. QED  BY <1>4, <1>5

(* close_thread_table wakes the others but for a TABLE that is up to date.    *)
LEMMA close_thread_tables_awake ==
  ASSUME IInv, NEW t \in Thread, close_thread_tables(t)
  PROVE  AwakeStep(t)
<1>1. Data /\ Right(t) /\ LabelRight(t) /\ refresh_version \in 1 .. MaxVersion
  BY CountersType DEF IInv, Right
<1>2. /\ pc[t] = "close" /\ pc'[t] = "idle"
      /\ LOCK_open = NoThread /\ LOCK_open' = NoThread /\ t \notin sleeping
      /\ sleeping' = IF \E x \in Opened(t) : ~ Kept(t, x) THEN {} ELSE sleeping
      /\ \A x \in Table : inst'[t][x] = IF x \in Opened(t) THEN NoTable ELSE inst[t][x]
      /\ UNCHANGED <<file, globals, locked_tables>>
  BY <1>1 DEF close_thread_tables, Enter, Leave, BroadcastIf, Goto, Data
<1>3. ~ locked_tables[t]  BY <1>1, <1>2 DEF LabelRight
<1>4. ~ Waiting(t)'  BY <1>2 DEF Waiting
<1>5. CASE \E x \in Opened(t) : ~ Kept(t, x)
  BY <1>2, <1>3, <1>4, <1>5, WakesStep
<1>6. CASE \A x \in Opened(t) : Kept(t, x)
  <2>1. ASSUME NEW x \in Table PROVE LeavesTable(inst[t][x], inst'[t][x], t)
    <3>1. CASE x \in Opened(t)
      <4>1. /\ inst[t][x].version = refresh_version /\ version[t] = refresh_version
            /\ ~ inst[t][x].by_name
        BY <1>6, <3>1 DEF Kept, Opened
      <4>2. ~ inst[t][x].by_flush  BY <1>1, <1>2 DEF Right, InstRight
      <4>3. refresh_version \in Nat \ {0}  BY <1>1, Constants
      <4>. QED  BY <4>1, <4>2, <4>3 DEF LeavesTable, IsOld, Lingers
    <3>2. CASE x \notin Opened(t)
      <4>1. inst'[t][x] = inst[t][x]  BY <1>2, <3>2
      <4>. QED  BY <4>1 DEF LeavesTable
    <3>. QED  BY <3>1, <3>2
  <2>2. Leaves(t)  BY <1>2, <2>1 DEF Leaves
  <2>. QED  BY <1>2, <1>3, <1>4, <1>6, <2>2 DEF AwakeStep
<1>. QED  BY <1>5, <1>6

LEMMA close_cached_tables_awake ==
  ASSUME IInv, NEW t \in Thread, close_cached_tables(t)
  PROVE  AwakeStep(t)
<1>1. Data  BY DEF IInv
<1>2. /\ pc'[t] = "flush_loop" /\ LOCK_open' = t /\ sleeping' = {}
      /\ UNCHANGED <<file, locked_tables>>
  BY <1>1 DEF close_cached_tables, Broadcast, Goto, Data
<1>3. Opened(t)' \subseteq Opened(t)
  BY <1>1 DEF close_cached_tables, Opened, Data
<1>4. ~ Waiting(t)'  BY <1>2 DEF Waiting
<1>. QED  BY <1>2, <1>3, <1>4, WakesStep

(* FLUSH TABLES opens all the tables it has closed, or none.                  *)
LEMMA AllOrNone ==
  ASSUME Settled, IInv, Cur, Awake, NEW t \in Thread, pc[t] \in Loop,
         NEW x \in Opened(t), NEW y \in Opened(t), file[x] # 0
  PROVE  file[y] # 0
<1> SUFFICES ASSUME file[y] = 0 PROVE FALSE
  OBVIOUS
<1>1. /\ x \in Table /\ y \in Table /\ LabelRight(t) /\ OpenRight(t, x) /\ Legal(t)
      /\ LockedRight(t) /\ FilesThere
  BY DEF Opened, IInv, Right, Cur, Awake
<1>2. \E u \in Thread : \E s \in Statement[u] : s.op \in {"drop", "rename"}
  BY <1>1 DEF FilesThere, Settled
<1>3. locked_tables[t] /\ stmt[t] \in Statement[t] /\ Op(t) \in {"flush", "read_lock"}
  BY <1>1 DEF OpenRight, LabelRight, Flushing, Legal, Op
<1>4. PICK s \in Statement[t] : s.op = "lock" /\ Opened(t) \subseteq s.tabs
  BY <1>1, <1>3 DEF LockedRight
<1>5. x = y  BY <1>2, <1>3, <1>4 DEF Settled, Op
<1>. QED  BY <1>5

LEMMA flush_reopens_awake ==
  ASSUME Settled, IInv, Cur, Awake, NEW t \in Thread, flush_reopens(t)
  PROVE  AwakeStep(t)
<1> DEFINE lost == {x \in Opened(t) : inst[t][x].file = 0}
           back == {x \in lost : file[x] # 0}
           v == IF back # {} THEN 0 ELSE refresh_version
           C(i) == [i EXCEPT !.by_flush = FALSE, !.version = v]
<1>1. /\ Data /\ Right(t) /\ LabelRight(t) /\ refresh_version \in 1 .. MaxVersion
      /\ t # NoThread
  BY CountersType, Constants DEF IInv, Right
<1>2. /\ pc[t] \in Loop /\ pc'[t] \in {"lock", "idle", "unlock"}
      /\ UNCHANGED <<file, globals, locked_tables>>
  BY <1>1 DEF flush_reopens, InFlushLoop, Goto, Done, Data
<1>3. t \notin sleeping
  BY <1>2 DEF flush_reopens, InFlushLoop, Enter, Awake
<1>4. inst' = [inst EXCEPT ![t] = [x \in Table |->
         IF x \notin Opened(t) THEN @[x]
         ELSE IF x \in lost \ back THEN NoTable
         ELSE C(Reopened(t, inst)[t][x])]]
  BY DEF flush_reopens
<1>5. IF back # {} THEN LOCK_open' = t /\ sleeping' = sleeping
      ELSE LOCK_open' = NoThread /\ sleeping' = IF Opened(t) # {} THEN {} ELSE sleeping
  BY DEF flush_reopens, BroadcastIf
<1>6. \A x \in Opened(t) : /\ x \in Table /\ inst[t][x].file = 0 /\ inst[t][x].used
                           /\ ~ inst[t][x].by_name /\ x \in lost
  BY <1>1, <1>2 DEF Right, OpenRight, Opened
<1>7. Opened(t)' \subseteq Opened(t)
  <2> HIDE DEF back, lost, C
  <2>1. \A x \in Table : x \notin Opened(t) => inst'[t][x] = inst[t][x]
    BY <1>1, <1>4 DEF Data
  <2>. QED  BY <2>1 DEF Opened
<1>8. ~ Waiting(t)'  BY <1>2 DEF Waiting
<1>9. CASE back = {} /\ Opened(t) # {}
  BY <1>2, <1>5, <1>7, <1>8, <1>9, WakesStep
<1>10. CASE Opened(t) = {}
  <2>1. \A x \in Table : inst'[t][x] = inst[t][x]
    <3> HIDE DEF back, lost, C
    <3>. QED  BY <1>1, <1>4, <1>10 DEF Data
  <2>2. Leaves(t)  BY <1>2, <2>1 DEF Leaves, LeavesTable
  <2>. QED  BY <1>2, <1>3, <1>5, <1>7, <1>8, <1>10, <2>2 DEF AwakeStep
<1>11. CASE back # {}
  <2>1. ASSUME NEW x \in Opened(t) PROVE x \in back
    BY <1>2, <1>6, <1>11, AllOrNone
  <2>2. ASSUME NEW x \in Table PROVE LeavesTable(inst[t][x], inst'[t][x], t)
    <3>1. CASE x \in Opened(t)
      <4> DEFINE j == Anew(refresh_version, file[x], inst[t][x].write)
      <4>1. file[x] # 0 /\ x \notin lost \ back /\ v = 0  BY <1>11, <2>1, <3>1
      <4>2. 0 \in 0 .. MaxVersion  BY Constants
      <4>3. \A i \in TableType :
               /\ C(i).file = i.file /\ C(i).used = i.used /\ C(i).version = 0
        BY <4>1, <4>2 DEF TableType
      <4> HIDE DEF back, lost, C, v
      <4>4. inst'[t][x] = C(Reopened(t, inst)[t][x])
        BY <1>1, <1>4, <3>1, <4>1 DEF Data
      <4>5. Reopened(t, inst)[t][x] = j
        BY <1>1, <1>6, <3>1, <4>1 DEF Reopened, Anew, Data
      <4>6. j \in TableType /\ j.file = file[x] /\ j.used
        <5>1. /\ refresh_version \in 0 .. MaxVersion /\ file[x] \in 0 .. 2
              /\ inst[t][x].write \in BOOLEAN
          BY <1>1, Constants DEF Data, TableType
        <5>. QED  BY <5>1, NewTable
      <4> HIDE DEF j
      <4>7. inst'[t][x].file # 0 /\ inst'[t][x].used /\ inst'[t][x].version = 0
        BY <4>1, <4>3, <4>4, <4>5, <4>6
      <4>8. 0 < refresh_version /\ 0 # refresh_version  BY <1>1, Constants
      <4>. QED  BY <1>6, <3>1, <4>7, <4>8 DEF LeavesTable, IsOld, Lingers
    <3>2. CASE x \notin Opened(t)
      <4> HIDE DEF back, lost, C
      <4>1. inst'[t][x] = inst[t][x]  BY <1>1, <1>4, <3>2 DEF Data
      <4>. QED  BY <4>1 DEF LeavesTable
    <3>. QED  BY <3>1, <3>2
  <2>3. Leaves(t)  BY <1>2, <2>2 DEF Leaves
  <2>. QED  BY <1>2, <1>3, <1>5, <1>7, <1>8, <1>11, <2>3 DEF AwakeStep
<1>. QED  BY <1>9, <1>10, <1>11

LEMMA flush_end_awake ==
  ASSUME IInv, NEW t \in Thread, flush_end(t)
  PROVE  AwakeStep(t)
<1>1. Data  BY DEF IInv
<1>2. /\ pc'[t] \in {"idle", "unlock"} /\ LOCK_open' = NoThread /\ sleeping' = {}
      /\ UNCHANGED <<file, locked_tables>>
  BY <1>1 DEF flush_end, Broadcast, Goto, Done, Data
<1>3. Opened(t)' \subseteq Opened(t)
  BY <1>1 DEF flush_end, Opened, Data
<1>4. ~ Waiting(t)'  BY <1>2 DEF Waiting
<1>. QED  BY <1>2, <1>3, <1>4, WakesStep

(* What remove_table_from_cache makes old, others still wait for.             *)
LEMMA OldLeft ==
  ASSUME NEW i \in TableType, NEW t \in Thread, i.used \/ i = NoTable,
         refresh_version \in Nat \ {0}
  PROVE  LeavesTable(i, Old(i), t)
<1>1. CASE i.used
  <2>1. /\ Old(i).used /\ Old(i).version = 0 /\ Old(i).file = i.file
        /\ Old(i).by_flush = i.by_flush /\ Old(i).by_name = i.by_name
    BY <1>1, OldSame
  <2>. QED  BY <2>1 DEF LeavesTable, IsOld, Lingers
<1>2. CASE i = NoTable
  <2>1. Old(i) = i  BY <1>2, OldSame
  <2>. QED  BY <2>1 DEF LeavesTable
<1>. QED  BY <1>1, <1>2

LEMMA drop_waits_for_users_awake ==
  ASSUME IInv, NEW t \in Thread, drop_waits_for_users(t)
  PROVE  AwakeStep(t)
<1> DEFINE d == Dropped(t)
<1>1. /\ Data /\ refresh_version \in Nat \ {0}
      /\ \A u \in Thread : Right(u)
  BY DEF IInv, Bounded
<1>2. /\ pc[t] \in DropPc /\ pc'[t] = "drop_wait" /\ LOCK_open' = t
      /\ t \notin sleeping /\ sleeping' = sleeping
      /\ UNCHANGED <<file, globals, stmt, locked_tables>>
      /\ inst' = Outdated(inst, {d}) /\ InUseByOthers(t, d)
  BY <1>1 DEF drop_waits_for_users, remove_table_from_cache, InDropLoop,
     PastReadLock, InDrop, Enter, WaitAt, Goto, Data
<1>3. d \in Table
  <2>1. Op(t) = "drop"  BY <1>1, <1>2 DEF Right, LabelRight
  <2>. QED  BY <1>1, <2>1, DroppedTable
<1> HIDE DEF d
<1>4. \A u \in Thread, x \in Table :
         inst'[u][x] = IF x = d THEN Old(inst[u][x]) ELSE inst[u][x]
  BY <1>2 DEF Outdated, Old
<1>5. \A u \in Thread, x \in Table :
         /\ inst[u][x] \in TableType
         /\ inst[u][x].used \/ inst[u][x] = NoTable
  BY <1>1 DEF Data, Right, InstRight
<1>6. \A x \in Table : LeavesTable(inst[t][x], inst'[t][x], t)
  BY <1>1, <1>4, <1>5, OldLeft DEF LeavesTable
<1>7. Leaves(t)  BY <1>2, <1>6 DEF Leaves
<1>8. Opened(t)' = Opened(t)  BY <1>4, <1>5, OldSame DEF Opened
<1>9. PICK u \in Other(t) : inst[u][d].file # 0
  BY <1>2 DEF InUseByOthers
<1>10. inst'[u][d].file # 0 /\ inst'[u][d].version = 0
  <2>1. u \in Thread  BY DEF Other
  <2>2. inst[u][d].used  BY <1>3, <1>5, <1>9, <2>1, NoTableSame
  <2>. QED  BY <1>3, <1>4, <1>5, <1>9, <2>1, <2>2, OldSame
<1>11. Dropped(t)' = d  BY <1>2 DEF Dropped, d
<1>12. Must(t)'
  BY <1>1, <1>2, <1>10, <1>11 DEF Must, MustSleep, InUseByOthers, Other
<1>. QED  BY <1>2, <1>7, <1>8, <1>12 DEF AwakeStep

LEMMA drop_files_awake ==
  ASSUME IInv, NEW t \in Thread, drop_files(t)
  PROVE  AwakeStep(t)
<1> DEFINE d == Dropped(t)
           i == [inst EXCEPT ![t][d] = IF d \in Opened(t) THEN NoTable ELSE @]
<1>1. Data /\ LabelRight(t)  BY DEF IInv, Right
<1>2. /\ pc[t] \in DropPc /\ pc'[t] \in {"drop_killed", "idle", "unlock"}
      /\ LOCK_open' = NoThread /\ sleeping' = {}
      /\ locked_tables'[t] => locked_tables[t]
      /\ inst' = Outdated(i, {d})
  BY <1>1 DEF drop_files, remove_table_from_cache, InDropLoop, PastReadLock, InDrop,
     Enter, Broadcast, Leave, Goto, Data
<1>3. Op(t) = "drop"  BY <1>1, <1>2 DEF LabelRight
<1>4. ASSUME NEW x \in Table, x \in Opened(t)' PROVE x \in Opened(t)
  <2> HIDE DEF d
  <2>1. i[t][x] = inst[t][x] \/ i[t][x] = NoTable
    BY <1>1 DEF Data
  <2> HIDE DEF i
  <2>2. inst'[t][x] = i[t][x] \/ inst'[t][x] = Old(i[t][x])
    BY <1>2 DEF Outdated, Old
  <2>3. inst[t][x] \in TableType  BY <1>1 DEF Data
  <2>. QED  BY <1>4, <2>1, <2>2, <2>3, OldSame, NoTableSame DEF Opened
<1>5. Opened(t)' \subseteq Opened(t)  BY <1>4 DEF Opened
<1>6. ~ Waiting(t)'  BY <1>2 DEF Waiting
<1>. QED  BY <1>2, <1>3, <1>5, <1>6, WakesStep

(* RENAME TABLE puts its name locks where its thread has nothing, and waits.  *)
LEMMA lock_names_wait_awake ==
  ASSUME IInv, NEW t \in Thread, StepRight(t), lock_names_wait(t)
  PROVE  AwakeStep(t)
<1>1. /\ Data /\ Data' /\ Right(t) /\ LabelRight(t) /\ refresh_version \in Nat \ {0}
      /\ stmt[t].tabs \subseteq Table
  BY NamesAreTables DEF IInv, Right, Bounded, StepRight
<1>2. /\ pc[t] = "name_lock" /\ pc'[t] = "name_wait" /\ FirstUse(t) /\ LOCK_open' = t
      /\ t \notin sleeping /\ sleeping' = sleeping
      /\ UNCHANGED <<file, globals, stmt, locked_tables>>
      /\ remove_table_from_cache(t, NameLocked(t), stmt[t].tabs)
  BY <1>1 DEF lock_names_wait, Enter, WaitAt, Goto, Data
<1>3. ~ locked_tables[t]  BY <1>1, <1>2 DEF LabelRight
<1>4. ASSUME NEW x \in Table PROVE inst[t][x] = NoTable
  <2>1. ~ inst[t][x].by_name  BY <1>1, <1>2 DEF Right, InstRight
  <2>2. x \notin Opened(t)  BY <1>1, <1>2, <1>3, NothingOpen
  <2>. QED  BY <1>1, <2>1, <2>2 DEF Right, InstRight, Opened
<1>5. \A x \in Table : LeavesTable(inst[t][x], inst'[t][x], t)
  BY <1>4, NoTableSame DEF LeavesTable, IsOld, Lingers
<1>6. Leaves(t)  BY <1>2, <1>5 DEF Leaves
<1>7. PICK x \in stmt[t].tabs, u \in Other(t) : inst[u][x].file # 0
  BY <1>2 DEF FirstUse, InUseByOthers
<1>8. inst'[u][x].file # 0 /\ inst'[u][x].used
  <2>1. u \in Thread /\ Untouched(u) /\ Right(u) /\ x \in Table
    BY <1>1, <1>7 DEF Other, StepRight, Frame, IInv
  <2>2. inst[u][x].used  BY <1>7, <2>1, FilesOpened DEF Opened
  <2>. QED  BY <1>1, <1>7, <2>1, <2>2, OthersSame
<1>9. NamesInUse(t)'
  <2>1. u \in Thread  BY DEF Other
  <2>. QED  BY <1>1, <1>2, <1>7, <1>8, <2>1, NamesAgain
<1>10. Must(t)'  BY <1>2, <1>9 DEF Must, MustSleep
<1>. QED  BY <1>2, <1>3, <1>6, <1>10 DEF AwakeStep

LEMMA names_awake ==
  ASSUME IInv, NEW t \in Thread, names_failed(t) \/ rename(t)
  PROVE  AwakeStep(t)
<1>1. Data /\ LabelRight(t)  BY DEF IInv, Right
<1>2. /\ pc[t] \in {"name_lock", "name_wait"} /\ pc'[t] \in {"name_failed", "unlock"}
      /\ LOCK_open' = NoThread /\ sleeping' = {} /\ locked_tables' = locked_tables
      /\ file' = file \/ Op(t) = "rename"
  BY <1>1 DEF names_failed, rename, Enter, Broadcast, Leave, Goto, Data
<1>3. ~ locked_tables[t]  BY <1>1, <1>2 DEF LabelRight
<1>4. ~ Waiting(t)'  BY <1>2 DEF Waiting
<1>. QED  BY <1>2, <1>3, <1>4, WakesStep

(* No statement of any thread is a TRUNCATE.                                  *)
LEMMA NotTruncate ==
  ASSUME Settled, IInv, Cur, NEW t \in Thread
  PROVE  ~ lock_names(t) /\ ~ start_waiting_global_read_lock(t) /\ ~ truncate(t)
<1>1. LabelRight(t) /\ Legal(t)  BY DEF IInv, Right, Cur
<1>2. Op(t) # "truncate"  BY <1>1 DEF Settled, Legal, Op
<1>. QED  BY <1>1, <1>2 DEF lock_names, start_waiting_global_read_lock, truncate, LabelRight

-----------------------------------------------------------------------------
(* The invariant. *)

LEMMA InitAwake ==
  ASSUME Init
  PROVE  Awake
<1>1. \A x \in Table : file[x] = 1  BY DEF Init
<1>. QED  BY <1>1 DEF Init, Awake, Waiting, LockedRight, FilesThere

LEMMA StepsAwake ==
  ASSUME Settled, IInv, Cur, Awake, NEW t \in Thread, StepRight(t),
         Begin(t) \/ Step(t) \/ kill(t)
  PROVE  AwakeStep(t)
<1>1. Settled /\ IInv /\ Cur /\ Awake /\ t \in Thread /\ StepRight(t)  OBVIOUS
<1>2. begin_query(t) \/ begin_flush(t) \/ begin_ddl(t) \/ open_killed(t)
      \/ open_refused(t) \/ open_fails(t) \/ lock_tables(t)
      \/ wait_if_fails(t) \/ wait_if_done(t)
      \/ thr_grants(t) \/ thr_waits(t) \/ thr_fails(t) \/ lock_again(t)
      \/ lock_killed(t) \/ lock_done(t) \/ wait_tables_killed(t)
      \/ run_done(t) \/ unlock(t) \/ cleanup(t) \/ drop_refused(t)
      \/ drop_unlocks_again(t) \/ names_locked(t)
      \/ wait_if_waits(t) \/ lock_global_read_lock(t) \/ flush_waits(t)
      \/ drop_waits(t) \/ names_wait(t) \/ cond_wait(t) \/ kill(t)
      => AwakeStep(t)
  BY <1>1, StillSteps, WaitingSteps, StillStep
<1>3. \/ unlock_tables(t) \/ disconnect(t) \/ open_waits(t) \/ open_cached(t)
      \/ open_new(t) \/ refresh(t) \/ wait_for_tables(t) \/ close_thread_tables(t)
      \/ close_cached_tables(t) \/ flush_reopens(t) \/ flush_end(t)
      \/ drop_waits_for_users(t) \/ drop_files(t) \/ lock_names_wait(t)
      \/ names_failed(t) \/ rename(t)
      => AwakeStep(t)
  BY <1>1, UnlockSteps, open_waits_awake, open_awake, refresh_awake,
     wait_for_tables_awake, close_thread_tables_awake, close_cached_tables_awake,
     flush_reopens_awake, flush_end_awake, drop_waits_for_users_awake,
     drop_files_awake, lock_names_wait_awake, names_awake
<1>4. ~ (lock_names(t) \/ start_waiting_global_read_lock(t) \/ truncate(t))
  BY <1>1, NotTruncate
<1>. QED  BY <1>2, <1>3, <1>4 DEF Begin, Step

LEMMA NextAwake ==
  ASSUME Settled, IInv, Cur, Awake, [Next]_vars
  PROVE  Awake'
<1>1. CASE Next
  <2>1. PICK t \in Thread : Begin(t) \/ Step(t) \/ kill(t)  BY <1>1 DEF Next
  <2>. QED  BY <2>1, StepsRight, StepsAwake, LegalSteps, AwakeKeeps
<1>2. CASE UNCHANGED vars
  <2>. USE <1>2 DEF vars
  <2>1. FilesThere' /\ \A t \in sleeping' : pc'[t] \in Waits
    BY DEF Awake, FilesThere
  <2>2. ASSUME NEW t \in Thread PROVE (Waiting(t)' => Must(t)') /\ LockedRight(t)'
    <3>1. Waiting(t)' => Waiting(t)  BY DEF Waiting
    <3>2. Waiting(t)' => Must(t)'  BY <3>1, MustSame DEF Awake, Waiting
    <3>3. LockedRight(t)'  BY DEF Awake, LockedRight, Opened
    <3>. QED  BY <3>2, <3>3
  <2>. QED  BY <2>1, <2>2 DEF Awake
<1>. QED  BY <1>1, <1>2

(* A thread sleeps on COND_refresh only while what it waits for is so, in     *)
(* every state: whoever frees a table, makes the last old TABLE go away, or   *)
(* gives back the global read lock broadcasts before it lets go of LOCK_open  *)
(* (sql_base.cc, lock.cc, sql_table.cc), but for TRUNCATE and for FLUSH       *)
(* TABLES with some of its LOCK TABLES dropped.                               *)
THEOREM WakeupsKept ==
  ASSUME Settled
  PROVE  Spec => []NoLostWakeup
<1>1. Init => Cur /\ Awake  BY InitCur, InitAwake
<1>2. Apart  BY DEF Settled, Apart
<1>3. IInv /\ Cur /\ Awake /\ [Next]_vars => Cur' /\ Awake'
  BY <1>2, NextCur, NextAwake
<1>4. IInv /\ Awake => NoLostWakeup
  BY DEF IInv, Data, Awake, Waiting, Must, NoLostWakeup
<1>. QED  BY <1>1, <1>3, <1>4, Invariant, PTL DEF Spec
=============================================================================
