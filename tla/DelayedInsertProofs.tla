------------------------ MODULE DelayedInsertProofs ------------------------
(* What holds for any number of clients and delayed handlers, wherever a     *)
(* KILL reaches a client (but for the one hypothesis of OneAtATime).         *)
EXTENDS DelayedInsert, FiniteSetTheorems, TLAPS

(* A client that has LOCK_delayed_create. *)
Creating(c) ==
    \/ pc[c] \in {"create", "open_wait", "opened"}
    \/ pc[c] \in {"unlock", "unlock_last"} /\ next[c] = "idle"

(* A client that has the table of its handler. *)
Borrowing(c) ==
    \/ pc[c] \in {"insert", "queue_wait", "end"}
    \/ pc[c] \in {"unlock", "unlock_last"} /\ next[c] = "insert"

(* Those that locks_in_memory and tables_in_use count. *)
Finders(d) ==
    {c \in Client : ref[c] = d /\
        pc[c] \in {"open_wait", "opened", "get_table", "lock_wait", "unlock"}}
Borrowers(d) == {c \in Client : ref[c] = d /\ (pc[c] = "lock_wait" \/ Borrowing(c))}

Counted ==
    \A d \in Handler : /\ di[d].locks_in_memory = Cardinality(Finders(d))
                       /\ di[d].tables_in_use = Cardinality(Borrowers(d))

(* A handler at p, with the object r; l is whether it is listed.             *)
Inserting == {"upgrade", "rows", "writing", "reschedule", "no_cache", "err", "err_dec"}

HandlerRight(p, r, l) ==
    /\ p \in {"none", "start", "open", "delete_create", "delete"} => ~r.table
    /\ p = "append" => r.table
    /\ l => r.table
    /\ r.lock => r.table
    /\ ~r.lock => r.stacked_inserts = 0 /\ r.rows = 0
    /\ p \in Inserting => r.lock
    /\ p \notin {"err", "err_dec"} => /\ r.rows <= r.stacked_inserts
                                      /\ ~r.dead => r.rows = r.stacked_inserts
    /\ p = "unlinked" => ~l /\ r.locks_in_memory <= r.unlisted_locks
    /\ p = "end" => /\ r.stacked_inserts = 0
                    /\ r.table => ~l /\ r.locks_in_memory = 0 /\ r.tables_in_use = 0

Right(d) == HandlerRight(pc[d], di[d], d \in listed)

(* A client and the handler it points to: one that has not opened its table  *)
(* or has closed it is known to its creator alone, but for those that are    *)
(* just leaving.                                                             *)
ClientRight(c) ==
    /\ pc[c] \in Using =>
         /\ ref[c] \in Handler
         /\ pc[ref[c]] # "none"
         /\ ~di[ref[c]].table => Creating(c) \/ (pc[c] = "unlock_last" /\ next[c] # "insert")
         /\ Borrowing(c) => di[ref[c]].lock
         /\ pc[c] = "opened" => di[ref[c]].table \/ di[ref[c]].killed \/ c \in killed
    /\ pc[c] \in {"idle", "create_lock", "create"} => ref[c] = Nobody
    /\ pc[c] = "queue_wait" => left[c] > 0
    /\ Creating(c) => owner["LOCK_delayed_create"] = c
    /\ pc[c] = "unlock_last" => owner["LOCK_delayed_insert"] = c

Mutexes ==
    /\ \A d \in Handler : pc[d] = "delete" => owner["LOCK_delayed_create"] = d
    /\ pc[Flusher] = "killing" => owner["LOCK_delayed_insert"] = Flusher

(* The inductive invariant.                                                  *)
IInv ==
    /\ TypeOK
    /\ \A d \in Handler : Right(d)
    /\ \A c \in Client : ClientRight(c)
    /\ Mutexes
    /\ Counted

-----------------------------------------------------------------------------
(* The constants.                                                            *)

(* The threads are apart, and there are finitely many clients. *)
LEMMA Apart ==
  /\ Client \subseteq Thread /\ Handler \subseteq Thread /\ Flusher \in Thread
  /\ Client \cap Handler = {} /\ Flusher \notin Client /\ Flusher \notin Handler
  /\ Nobody \notin Thread
  /\ IsFiniteSet(Client) /\ Cardinality(Client) \in Nat
  /\ QueueSize \in Nat \ {0} /\ MaxUint \in Nat /\ MaxUint > QueueSize
BY HandlerAssumption, FS_CardinalityType DEF Thread

(* Counting down an unsigned integer. *)
LEMMA CountDown ==
  ASSUME NEW n \in 0 .. MaxUint
  PROVE  /\ (n + MaxUint) % (MaxUint + 1) \in 0 .. MaxUint
         /\ n > 0 => (n + MaxUint) % (MaxUint + 1) = n - 1
<1>1. MaxUint \in Nat  BY Apart
<1>2. CASE n = 0
  BY <1>1, <1>2
<1>3. CASE n > 0
  <2>1. n + MaxUint = (n - 1) + 1 * (MaxUint + 1)  BY <1>1
  <2>2. n - 1 \in 0 .. MaxUint  BY <1>1, <1>3
  <2>. QED  BY <1>1, <1>3, <2>1, <2>2
<1>. QED  BY <1>2, <1>3

(* A set of clients that one client joins or leaves. *)
LEMMA CountMoves ==
  ASSUME NEW S \in SUBSET Client, NEW T \in SUBSET Client, NEW c,
         S \ {c} = T \ {c}
  PROVE  /\ (c \in S <=> c \in T) => Cardinality(T) = Cardinality(S)
         /\ c \in T \ S => Cardinality(T) = Cardinality(S) + 1
         /\ c \in S \ T => Cardinality(T) = Cardinality(S) - 1
         /\ Cardinality(S) \in 0 .. Cardinality(Client)
         /\ Cardinality(T) \in 0 .. Cardinality(Client)
<1>1. /\ IsFiniteSet(S) /\ Cardinality(S) \in Nat /\ Cardinality(S) <= Cardinality(Client)
      /\ IsFiniteSet(T) /\ Cardinality(T) \in Nat /\ Cardinality(T) <= Cardinality(Client)
  BY Apart, FS_Subset, FS_CardinalityType
<1>2. (c \in S <=> c \in T) => S = T  OBVIOUS
<1>3. c \in T \ S => T = S \cup {c}  OBVIOUS
<1>4. c \in S \ T => T = S \ {c}  OBVIOUS
<1>5. c \in T \ S => Cardinality(T) = Cardinality(S) + 1  BY <1>1, <1>3, FS_AddElement
<1>6. c \in S \ T => Cardinality(T) = Cardinality(S) - 1  BY <1>1, <1>4, FS_RemoveElement
<1>. QED  BY <1>1, <1>2, <1>5, <1>6, Apart

-----------------------------------------------------------------------------
(* A step of a handler.                                                      *)

(* Handler d moves: it counts nobody in or out, and gives up the table and   *)
(* its lock only when nobody has it.                                         *)
HandlerMoves(d) ==
    /\ UNCHANGED <<cvars, fvars>>
    /\ pc' \in [Thread -> ClientPc \cup HandlerPc \cup FlusherPc]
    /\ \A t \in Thread \ {d} : pc'[t] = pc[t]
    /\ pc'[d] \in HandlerPc \ {"none"} /\ pc[d] # "none"
    /\ di' \in [Handler -> Object] /\ \A e \in Handler \ {d} : di'[e] = di[e]
    /\ listed' \subseteq Handler /\ listed' \ {d} = listed \ {d}
    /\ asleep' \subseteq Thread
    /\ owner' \in [Mutex -> Thread \cup {Nobody}]
    /\ \A m \in {"LOCK_delayed_insert", "LOCK_delayed_create"} :
          owner[m] \notin {d, Nobody} => owner'[m] = owner[m]
    /\ pc'[d] = "delete" => owner'["LOCK_delayed_create"] = d
    /\ HandlerRight(pc'[d], di'[d], d \in listed')
    /\ di'[d].locks_in_memory = di[d].locks_in_memory
    /\ di'[d].tables_in_use = di[d].tables_in_use
    /\ di[d].killed => di'[d].killed
    /\ di[d].table => \/ di'[d].table
                      \/ /\ di[d].locks_in_memory = 0 /\ di[d].tables_in_use = 0
                         /\ di'[d].killed
    /\ di[d].lock => di'[d].lock \/ di[d].tables_in_use = 0

(* Nobody is counted where the count is zero. *)
LEMMA NobodyCounted ==
  ASSUME IInv, NEW c \in Client, pc[c] \in Using
  PROVE  /\ di[ref[c]].locks_in_memory = 0 =>
              pc[c] \notin {"open_wait", "opened", "get_table", "lock_wait", "unlock"}
         /\ di[ref[c]].tables_in_use = 0 => pc[c] # "lock_wait" /\ ~ Borrowing(c)
<1> DEFINE d == ref[c]
<1>1. d \in Handler /\ Counted  BY DEF IInv, ClientRight
<1>2. /\ IsFiniteSet(Finders(d)) /\ IsFiniteSet(Borrowers(d))
  BY Apart, FS_Subset DEF Finders, Borrowers
<1>3. di[d].locks_in_memory = 0 => Finders(d) = {}  BY <1>1, <1>2, FS_EmptySet DEF Counted
<1>4. di[d].tables_in_use = 0 => Borrowers(d) = {}  BY <1>1, <1>2, FS_EmptySet DEF Counted
<1>. QED  BY <1>3, <1>4 DEF Finders, Borrowers

(* A step of a handler keeps the invariant. *)
LEMMA HandlerKeeps ==
  ASSUME IInv, NEW d \in Handler, HandlerMoves(d)
  PROVE  IInv'
<1>1. /\ TypeOK /\ pc' \in [Thread -> ClientPc \cup HandlerPc \cup FlusherPc]
      /\ \A t \in Thread \ {d} : pc'[t] = pc[t]
      /\ \A e \in Handler \ {d} : di'[e] = di[e]
      /\ di' \in [Handler -> Object]
  BY Apart DEF IInv, TypeOK, HandlerMoves
<1>2. \A c \in Client : pc'[c] = pc[c] /\ ref'[c] = ref[c] /\ next'[c] = next[c]
                        /\ left'[c] = left[c]
  BY <1>1, Apart DEF HandlerMoves, cvars
<1>3. \A c \in Client : (Creating(c)' <=> Creating(c)) /\ (Borrowing(c)' <=> Borrowing(c))
  BY <1>2 DEF Creating, Borrowing
<1>4. TypeOK'
  <2>1. /\ \A c \in Client : pc'[c] \in ClientPc
        /\ \A e \in Handler : pc'[e] \in HandlerPc
        /\ pc'[Flusher] \in FlusherPc
    BY <1>1, Apart DEF TypeOK, HandlerMoves
  <2>. QED  BY <1>1, <2>1 DEF TypeOK, HandlerMoves, cvars, fvars
<1>5. \A e \in Handler : Right(e)'
  <2>1. ASSUME NEW e \in Handler \ {d} PROVE Right(e)'
    <3>1. pc'[e] = pc[e] /\ di'[e] = di[e] /\ (e \in listed' <=> e \in listed)
      BY <1>1, Apart DEF HandlerMoves
    <3>2. Right(e)  BY DEF IInv
    <3>. QED  BY <3>1, <3>2 DEF Right, HandlerRight
  <2>2. Right(d)'  BY DEF Right, HandlerMoves
  <2>. QED  BY <2>1, <2>2
<1>6. \A c \in Client : ClientRight(c)'
  <2> SUFFICES ASSUME NEW c \in Client PROVE ClientRight(c)'  OBVIOUS
  <2>1. ClientRight(c)  BY DEF IInv
  <2>2. /\ pc[c] \in {"idle", "create_lock", "create"} => ref[c] = Nobody
        /\ pc[c] = "queue_wait" => left[c] > 0
        /\ Creating(c) => owner'["LOCK_delayed_create"] = c
        /\ pc[c] = "unlock_last" => owner'["LOCK_delayed_insert"] = c
    BY <2>1, Apart DEF ClientRight, HandlerMoves
  <2>3. ASSUME pc[c] \in Using, ref[c] = d
        PROVE  /\ pc'[d] # "none"
               /\ ~di'[d].table => Creating(c) \/ (pc[c] = "unlock_last" /\ next[c] # "insert")
               /\ Borrowing(c) => di'[d].lock
               /\ pc[c] = "opened" => di'[d].table \/ di'[d].killed \/ c \in killed
    <3>1. pc'[d] # "none"  BY DEF HandlerMoves
    <3>2. ASSUME ~ di'[d].table, di[d].table
          PROVE  pc[c] = "unlock_last" /\ next[c] # "insert"
      <4>1. di[d].locks_in_memory = 0 /\ di[d].tables_in_use = 0  BY <3>2 DEF HandlerMoves
      <4>. QED  BY <2>3, <4>1, NobodyCounted DEF Using, ClientPc, Borrowing
    <3>3. ASSUME Borrowing(c) PROVE di'[d].lock
      <4>1. di[d].lock  BY <2>1, <2>3, <3>3 DEF ClientRight
      <4>2. di[d].tables_in_use # 0  BY <2>3, <3>3, NobodyCounted
      <4>. QED  BY <4>1, <4>2 DEF HandlerMoves
    <3>. QED  BY <2>1, <2>3, <3>1, <3>2, <3>3 DEF ClientRight, HandlerMoves
  <2>4. CASE pc[c] \in Using /\ ref[c] = d
    <3>1. killed' = killed  BY DEF HandlerMoves, cvars
    <3>. QED  BY <1>2, <1>3, <2>2, <2>3, <2>4, <3>1 DEF ClientRight
  <2>5. CASE pc[c] \in Using /\ ref[c] # d
    <3>1. killed' = killed  BY DEF HandlerMoves, cvars
    <3>2. ref[c] \in Handler /\ pc'[ref[c]] = pc[ref[c]] /\ di'[ref[c]] = di[ref[c]]
      BY <1>1, <2>1, <2>5, Apart DEF ClientRight
    <3>. QED  BY <1>2, <1>3, <2>1, <2>2, <2>5, <3>1, <3>2 DEF ClientRight
  <2>6. CASE pc[c] \notin Using
    BY <1>2, <1>3, <2>2, <2>6 DEF ClientRight
  <2>. QED  BY <2>4, <2>5, <2>6
<1>7. Mutexes'
  <2>1. Mutexes  BY DEF IInv
  <2>2. \A e \in Handler \ {d} : pc'[e] = "delete" => owner'["LOCK_delayed_create"] = e
    BY <1>1, <2>1, Apart DEF Mutexes, HandlerMoves
  <2>3. pc'[Flusher] = "killing" => owner'["LOCK_delayed_insert"] = Flusher
    BY <1>1, <2>1, Apart DEF Mutexes, HandlerMoves
  <2>. QED  BY <2>2, <2>3 DEF Mutexes, HandlerMoves
<1>8. Counted'
  <2>1. Counted  BY DEF IInv
  <2>2. \A e \in Handler : Finders(e)' = Finders(e) /\ Borrowers(e)' = Borrowers(e)
    BY <1>2, <1>3 DEF Finders, Borrowers
  <2>3. \A e \in Handler : /\ di'[e].locks_in_memory = di[e].locks_in_memory
                           /\ di'[e].tables_in_use = di[e].tables_in_use
    BY <1>1 DEF HandlerMoves
  <2>. QED  BY <2>1, <2>2, <2>3 DEF Counted
<1>. QED  BY <1>4, <1>5, <1>6, <1>7, <1>8 DEF IInv

(* What Goto leaves. *)
LEMMA GotoIs ==
  ASSUME TypeOK, NEW t \in Thread, NEW p \in ClientPc \cup HandlerPc \cup FlusherPc, Goto(t, p)
  PROVE  /\ pc' \in [Thread -> ClientPc \cup HandlerPc \cup FlusherPc]
         /\ pc'[t] = p /\ \A s \in Thread \ {t} : pc'[s] = pc[s]
BY DEF Goto, TypeOK

(* What Set leaves. *)
LEMMA SetIs ==
  ASSUME TypeOK, NEW d \in Handler, NEW r \in Object, Set(d, r)
  PROVE  /\ di' \in [Handler -> Object]
         /\ di'[d] = r /\ \A e \in Handler \ {d} : di'[e] = di[e]
BY DEF Set, TypeOK

(* What Lock and Unlock leave. *)
LEMMA OwnerIs ==
  ASSUME TypeOK, NEW m \in Mutex, NEW t \in Thread \cup {Nobody},
         owner' = [owner EXCEPT ![m] = t]
  PROVE  /\ owner' \in [Mutex -> Thread \cup {Nobody}]
         /\ owner'[m] = t /\ \A n \in Mutex \ {m} : owner'[n] = owner[n]
BY DEF TypeOK

(* The object o becomes r, and stays the same where it matters. *)
Like(r, o) ==
    /\ r.locks_in_memory = o.locks_in_memory /\ r.tables_in_use = o.tables_in_use
    /\ r.unlisted_locks = o.unlisted_locks
    /\ r.stacked_inserts = o.stacked_inserts /\ r.rows = o.rows
    /\ r.table = o.table /\ r.lock = o.lock
    /\ o.dead => r.dead
    /\ o.killed => r.killed

(* What a step of a handler does in most cases: it goes on to p, makes its   *)
(* object r, and may take or give its own mutex.                             *)
LEMMA HandlerGoes ==
  ASSUME IInv, NEW d \in Handler, NEW p \in HandlerPc \ {"none", "delete"}, NEW r \in Object,
         pc[d] # "none", Goto(d, p) \/ (UNCHANGED pc /\ p = pc[d]),
         Set(d, r) \/ (UNCHANGED di /\ r = di[d]),
         UNCHANGED <<cvars, fvars>>, asleep' \subseteq Thread,
         listed' \subseteq Handler, listed' \ {d} = listed \ {d},
         \/ UNCHANGED owner
         \/ \E t \in {d, Nobody} : owner' = [owner EXCEPT ![d] = t],
         HandlerRight(p, r, d \in listed'),
         r.locks_in_memory = di[d].locks_in_memory,
         r.tables_in_use = di[d].tables_in_use,
         di[d].killed => r.killed,
         di[d].table => \/ r.table
                        \/ /\ di[d].locks_in_memory = 0 /\ di[d].tables_in_use = 0
                           /\ r.killed,
         di[d].lock => r.lock \/ di[d].tables_in_use = 0
  PROVE  HandlerMoves(d)
<1>1. /\ TypeOK /\ d \in Thread /\ Nobody \in Thread \cup {Nobody}
      /\ d \in Mutex \ {"LOCK_delayed_insert", "LOCK_delayed_create"}
  BY HandlerAssumption, Apart DEF IInv, Mutex
<1>2. /\ pc' \in [Thread -> ClientPc \cup HandlerPc \cup FlusherPc]
      /\ pc'[d] = p /\ \A s \in Thread \ {d} : pc'[s] = pc[s]
  BY <1>1, GotoIs DEF TypeOK
<1>3. /\ di' \in [Handler -> Object]
      /\ di'[d] = r /\ \A e \in Handler \ {d} : di'[e] = di[e]
  BY <1>1, SetIs DEF TypeOK
<1>4. /\ owner' \in [Mutex -> Thread \cup {Nobody}]
      /\ \A n \in Mutex \ {d} : owner'[n] = owner[n]
  BY <1>1, OwnerIs DEF TypeOK
<1>5. {"LOCK_delayed_insert", "LOCK_delayed_create"} \subseteq Mutex \ {d}
  BY <1>1 DEF Mutex
<1>. QED  BY <1>1, <1>2, <1>3, <1>4, <1>5 DEF HandlerMoves

(* Where a handler may be in any state of its object that it keeps.          *)
Plain == {"lock", "read_lock_wait", "loop", "unlink", "sleep", "work", "inserts", "tail", "unlocked"}

(* A step of a handler that leaves its object alike, to a place that asks    *)
(* no more of it than where the handler was.                                 *)
LEMMA HandlerGoesOn ==
  ASSUME IInv, NEW d \in Handler, NEW p \in HandlerPc, NEW r \in Object,
         pc[d] \notin {"none", "err", "err_dec"}, Like(r, di[d]),
         p \in Plain \/ (p \in Inserting /\ di[d].lock),
         Goto(d, p) \/ (UNCHANGED pc /\ p = pc[d]),
         Set(d, r) \/ (UNCHANGED di /\ r = di[d]),
         UNCHANGED <<listed, cvars, fvars>>, asleep' \subseteq Thread,
         \/ UNCHANGED owner
         \/ \E t \in {d, Nobody} : owner' = [owner EXCEPT ![d] = t]
  PROVE  HandlerMoves(d)
<1>1. Right(d) /\ listed \subseteq Handler /\ p \in HandlerPc \ {"none", "delete"}
  BY DEF IInv, TypeOK, Plain, Inserting
<1>2. HandlerRight(p, r, d \in listed')
  BY <1>1 DEF Right, HandlerRight, Inserting, Plain, Like
<1>. QED  BY <1>1, <1>2, HandlerGoes DEF Like

(* A handler takes the next row, or finds the queue empty. *)
LEMMA RowTaken ==
  ASSUME IInv, NEW d \in Handler, NEW o \in Object, pc[d] \in {"rows", "writing", "reschedule"},
         Like(o, di[d]), TakeRow(d, o),
         UNCHANGED <<owner, listed, cvars, fvars>>, asleep' \subseteq Thread
  PROVE  HandlerMoves(d)
<1>1. Right(d) /\ listed \subseteq Handler /\ di[d].lock /\ di[d] \in Object
  BY DEF IInv, TypeOK, Right, HandlerRight, Inserting
<1>2. CASE o.rows = 0
  BY <1>1, <1>2, HandlerGoesOn DEF TakeRow, HandlerPc, Inserting
<1>3. CASE o.rows # 0
  <2> DEFINE n == (o.stacked_inserts + MaxUint) % (MaxUint + 1)
             r == [o EXCEPT !.rows = @ - 1, !.stacked_inserts = n]
  <2>1. o.rows \in Nat /\ o.rows > 0 /\ o.stacked_inserts \in 0 .. MaxUint
    BY <1>3 DEF Object
  <2>2. o.rows <= o.stacked_inserts /\ (~ o.dead => o.rows = o.stacked_inserts)
    BY <1>1 DEF Right, HandlerRight, Like
  <2>3. n = o.stacked_inserts - 1 /\ n \in 0 .. MaxUint /\ o.rows - 1 \in Nat
    BY <2>1, <2>2, CountDown, Apart
  <2>4. Set(d, r) /\ Goto(d, "writing")  BY <2>1 DEF TakeRow
  <2> HIDE DEF n
  <2>5. /\ r \in Object /\ r.rows = o.rows - 1 /\ r.stacked_inserts = o.stacked_inserts - 1
        /\ r.locks_in_memory = o.locks_in_memory /\ r.tables_in_use = o.tables_in_use
        /\ r.unlisted_locks = o.unlisted_locks
        /\ r.table = o.table /\ r.lock = o.lock /\ r.dead = o.dead /\ r.killed = o.killed
    BY <2>1, <2>3 DEF Object
  <2> HIDE DEF r
  <2>6. HandlerRight("writing", r, d \in listed)
    BY <1>1, <2>1, <2>2, <2>5, Apart DEF Right, HandlerRight, Inserting, Like
  <2>. QED  BY <1>1, <2>4, <2>5, <2>6, HandlerGoes DEF Like, HandlerPc
<1>. QED  BY <1>2, <1>3

(* The steps of handle_delayed_insert().                                     *)
LEMMA HandlerSteps ==
  ASSUME IInv, NEW d \in Handler, HandlerStep(d), ~ Delete(d)
  PROVE  HandlerMoves(d)
<1>1. /\ TypeOK /\ di[d] \in Object /\ pc[d] \in HandlerPc
      /\ owner \in [Mutex -> Thread \cup {Nobody}] /\ asleep \subseteq Thread
      /\ listed \subseteq Handler
      /\ Right(d) /\ d \in Thread
      /\ d \in Mutex \ {"LOCK_delayed_insert", "LOCK_delayed_create", "LOCK_open"}
      /\ {"LOCK_delayed_insert", "LOCK_delayed_create", "LOCK_open"} \subseteq Mutex
      /\ Nobody # d /\ Nobody \in Thread \cup {Nobody}
  BY HandlerAssumption, Apart DEF IInv, TypeOK, Mutex
<1> DEFINE o == di[d]
          l == d \in listed
<1>2. CASE StartHandler(d)
  <2>1. pc[d] = "start" /\ Goto(d, "open") /\ HandlerRight("open", o, l)
    BY <1>1, <1>2 DEF StartHandler, Right, HandlerRight, Inserting
  <2>. QED  BY <1>1, <1>2, <2>1, HandlerGoes DEF StartHandler, Lock, HandlerPc
<1>3. CASE OpenTable(d)
  <2>0. pc[d] = "open" /\ UNCHANGED <<owner, asleep, listed, cvars, fvars>>
    BY <1>3 DEF OpenTable
  <2>1. ASSUME NEW p \in {"lock", "end"}, NEW r \in Object, Set(d, r), Goto(d, p), Like(r, o)
        PROVE HandlerMoves(d)
    <3>1. HandlerRight(p, r, l)
      BY <1>1, <2>0, <2>1 DEF Right, HandlerRight, Inserting, Like
    <3>. QED  BY <1>1, <2>0, <2>1, <3>1, HandlerGoes DEF HandlerPc, Like
  <2>2. /\ [o EXCEPT !.opened = "current"] \in Object
        /\ Like([o EXCEPT !.opened = "current"], o)
        /\ [o EXCEPT !.fatal_error = TRUE] \in Object
        /\ Like([o EXCEPT !.fatal_error = TRUE], o)
    BY <1>1 DEF Object, Like
  <2>. QED  BY <1>3, <2>1, <2>2 DEF OpenTable
<1>4. CASE mysql_lock_tables(d)
  <2>1. /\ pc[d] \in {"lock", "read_lock_wait"} /\ UNCHANGED <<owner, listed, cvars, fvars>>
        /\ asleep' \subseteq Thread
    BY <1>1, <1>4 DEF mysql_lock_tables, LockFails, BroadcastClients, Refresh
  <2>2. CASE LockFails(d) /\ ~ o.table
    <3> DEFINE r == [o EXCEPT !.fatal_error = TRUE]
    <3>1. r \in Object /\ Like(r, o)  BY <1>1 DEF Object, Like
    <3>2. HandlerRight("end", r, l)
      BY <1>1, <2>1, <2>2, <3>1 DEF Right, HandlerRight, Inserting, Like
    <3>3. Set(d, r) /\ Goto(d, "end")  BY <2>2 DEF LockFails
    <3>. QED  BY <1>1, <2>1, <3>1, <3>2, <3>3, HandlerGoes DEF HandlerPc, Like
  <2>3. CASE LockFails(d) /\ o.table
    <3> DEFINE r == [o EXCEPT !.dead = TRUE, !.killed = TRUE]
    <3>1. r \in Object /\ Like(r, o)  BY <1>1 DEF Object, Like
    <3>2. Set(d, r) /\ Goto(d, "inserts")  BY <2>3 DEF LockFails
    <3>. QED  BY <1>1, <2>1, <3>1, <3>2, HandlerGoesOn DEF HandlerPc, Plain
  <2>4. ASSUME NEW p \in {"inserts", "append"}, Goto(d, p),
               Set(d, [o EXCEPT !.lock = TRUE, !.table = TRUE])
        PROVE HandlerMoves(d)
    <3> DEFINE r == [o EXCEPT !.lock = TRUE, !.table = TRUE]
    <3>1. /\ r \in Object /\ r.lock /\ r.table
          /\ r.locks_in_memory = o.locks_in_memory /\ r.tables_in_use = o.tables_in_use
          /\ r.stacked_inserts = o.stacked_inserts /\ r.rows = o.rows
          /\ r.dead = o.dead /\ r.killed = o.killed
      BY <1>1 DEF Object
    <3>2. Set(d, r)  BY <2>4
    <3> HIDE DEF r
    <3>3. HandlerRight(p, r, l)
      BY <1>1, <2>1, <3>1 DEF Right, HandlerRight, Inserting
    <3>. QED  BY <1>1, <2>1, <2>4, <3>1, <3>2, <3>3, HandlerGoes DEF HandlerPc
  <2>5. CASE Goto(d, "read_lock_wait") /\ UNCHANGED di
    BY <1>1, <2>1, <2>5, HandlerGoesOn DEF HandlerPc, Plain, Like
  <2>6. CASE Goto(d, "lock") /\ Set(d, [o EXCEPT !.opened = "reopened"])
    <3> DEFINE r == [o EXCEPT !.opened = "reopened"]
    <3>1. r \in Object /\ Like(r, o)  BY <1>1 DEF Object, Like
    <3>. QED  BY <1>1, <2>1, <2>6, <3>1, HandlerGoesOn DEF HandlerPc, Plain
  <2>. QED  BY <1>4, <2>2, <2>3, <2>4, <2>5, <2>6 DEF mysql_lock_tables
<1>5. CASE Append(d)
  <2>1. /\ pc[d] = "append" /\ UNCHANGED <<owner, di, cvars, fvars>> /\ Goto(d, "loop")
        /\ asleep' \subseteq Thread /\ listed' = listed \cup {d}
    BY <1>1, <1>5 DEF Append
  <2>2. HandlerRight("loop", o, TRUE)
    BY <1>1, <2>1 DEF Right, HandlerRight, Inserting
  <2>. QED  BY <1>1, <2>1, <2>2, HandlerGoes DEF HandlerPc
<1>6. CASE Loop(d)
  <2>1. /\ pc[d] = "loop" /\ UNCHANGED <<di, listed, cvars, fvars>>
        /\ asleep' \subseteq Thread
        /\ UNCHANGED owner \/ owner' = [owner EXCEPT ![d] = Nobody]
        /\ \E p \in {"unlink", "work", "sleep"} : Goto(d, p)
    BY <1>1, <1>6 DEF Loop, Unlock
  <2>. QED  BY <1>1, <2>1, HandlerGoesOn DEF HandlerPc, Plain, Like
<1>7. CASE Unlink(d)
  <2> DEFINE r == [o EXCEPT !.unlisted_locks = o.locks_in_memory]
  <2>1. /\ pc[d] = "unlink" /\ UNCHANGED <<owner, asleep, cvars, fvars>> /\ Set(d, r)
        /\ Goto(d, "unlinked") /\ listed' = listed \ {d}
    BY <1>7 DEF Unlink
  <2>2. /\ r \in Object /\ r.unlisted_locks = o.locks_in_memory
        /\ r.locks_in_memory = o.locks_in_memory /\ r.tables_in_use = o.tables_in_use
        /\ r.stacked_inserts = o.stacked_inserts /\ r.rows = o.rows
        /\ r.table = o.table /\ r.lock = o.lock /\ r.dead = o.dead /\ r.killed = o.killed
        /\ o.locks_in_memory \in Nat
    BY <1>1 DEF Object
  <2> HIDE DEF r
  <2>3. HandlerRight("unlinked", r, d \in listed')
    BY <1>1, <2>1, <2>2 DEF Right, HandlerRight, Inserting
  <2>. QED  BY <1>1, <2>1, <2>2, <2>3, HandlerGoes DEF HandlerPc
<1>8. CASE Unlinked(d)
  <2>1. /\ pc[d] = "unlinked" /\ UNCHANGED <<asleep, di, listed, cvars, fvars>>
        /\ owner' = [owner EXCEPT ![d] = d]
        /\ Goto(d, IF TimeToDie(o) THEN "end" ELSE "work")
    BY <1>8 DEF Unlinked, Lock
  <2>2. CASE TimeToDie(o)
    <3>1. /\ o.locks_in_memory \in Nat /\ o.unlisted_locks \in Nat
          /\ o.rows \in Nat /\ o.stacked_inserts \in Nat
      BY <1>1 DEF Object
    <3>2. HandlerRight("end", o, l)
      BY <1>1, <2>1, <2>2, <3>1 DEF Right, HandlerRight, Inserting, TimeToDie
    <3>. QED  BY <1>1, <2>1, <2>2, <3>2, HandlerGoes DEF HandlerPc
  <2>3. CASE ~ TimeToDie(o)
    BY <1>1, <2>1, <2>3, HandlerGoesOn DEF HandlerPc, Plain, Like
  <2>. QED  BY <2>2, <2>3
<1>9. CASE Woken(d)
  <2>1. /\ pc[d] = "sleep" /\ UNCHANGED <<owner, di, listed, cvars, fvars>>
        /\ asleep' \subseteq Thread /\ (Goto(d, "work") \/ UNCHANGED pc)
    BY <1>1, <1>9 DEF Woken
  <2>. QED  BY <1>1, <2>1, HandlerGoesOn DEF HandlerPc, Plain, Like
<1>10. CASE TimeOut(d)
  <2> DEFINE r == [o EXCEPT !.killed = @ \/ ~ o.status]
  <2>1. /\ pc[d] = "sleep" /\ UNCHANGED <<owner, listed, cvars, fvars>>
        /\ asleep' \subseteq Thread /\ Goto(d, "work") /\ Set(d, r)
    BY <1>1, <1>10 DEF TimeOut
  <2>2. r \in Object /\ Like(r, o)  BY <1>1 DEF Object, Like
  <2>. QED  BY <1>1, <2>1, <2>2, HandlerGoesOn DEF HandlerPc, Plain
<1>11. CASE Work(d)
  <2>1. /\ pc[d] \in {"work", "inserts"} /\ UNCHANGED <<asleep, di, listed, cvars, fvars>>
        /\ \E t \in {d, Nobody} : owner' = [owner EXCEPT ![d] = t]
        /\ \E p \in {"lock", "upgrade", "tail"} :
              Goto(d, p) /\ (p = "upgrade" => o.stacked_inserts > 0)
    BY <1>11 DEF Work
  <2>2. o.stacked_inserts > 0 => o.lock
    BY <1>1 DEF Right, HandlerRight
  <2>. QED  BY <1>1, <2>1, <2>2, HandlerGoesOn DEF HandlerPc, Plain, Inserting, Like
<1>12. CASE Upgrade(d)
  <2> DEFINE stale == o.killed \/ o.opened = "old"
             r == [o EXCEPT !.all = stale, !.killed = stale]
  <2>1. pc[d] = "upgrade" /\ UNCHANGED <<owner, asleep, listed, cvars, fvars>>
    BY <1>12 DEF Upgrade
  <2>2. o.lock  BY <1>1, <2>1 DEF Right, HandlerRight, Inserting
  <2>3. r \in Object /\ Like(r, o) /\ Like(o, o)  BY <1>1 DEF Object, Like
  <2>4. (Set(d, r) /\ Goto(d, "rows")) \/ (Goto(d, "err") /\ UNCHANGED di)
    BY <1>12 DEF Upgrade
  <2>. QED  BY <1>1, <2>1, <2>2, <2>3, <2>4, HandlerGoesOn DEF HandlerPc, Inserting
<1>13. CASE FirstRow(d)
  BY <1>1, <1>13, RowTaken DEF FirstRow, Like
<1>14. CASE Written(d)
  <2> DEFINE full == ~ o.all /\ o.group_count = InsertLimit
             r == [o EXCEPT !.group_count =
                     IF full THEN 0 ELSE IF @ < InsertLimit THEN @ + 1 ELSE @]
  <2>1. /\ pc[d] = "writing" /\ UNCHANGED <<owner, listed, cvars, fvars>>
        /\ asleep' \subseteq Thread
        /\ (Set(d, r) /\ Goto(d, "reschedule")) \/ TakeRow(d, r)
    BY <1>1, <1>14 DEF Written, WakeClients, BroadcastClients
  <2>2. r \in Object /\ Like(r, o)
    <3>1. o.group_count \in 0 .. InsertLimit /\ InsertLimit \in Nat
      BY <1>1, HandlerAssumption DEF Object
    <3>2. (IF full THEN 0 ELSE IF o.group_count < InsertLimit THEN o.group_count + 1
           ELSE o.group_count) \in 0 .. InsertLimit
      BY <3>1
    <3>. QED  BY <1>1, <3>2 DEF Object, Like
  <2>3. o.lock  BY <1>1, <2>1 DEF Right, HandlerRight, Inserting
  <2> HIDE DEF r
  <2>. QED  BY <1>1, <2>1, <2>2, <2>3, HandlerGoesOn, RowTaken DEF HandlerPc, Inserting
<1>15. CASE Rescheduled(d)
  <2>1. /\ pc[d] = "reschedule" /\ UNCHANGED <<owner, listed, cvars, fvars>>
        /\ asleep' \subseteq Thread
        /\ TakeRow(d, o) \/ (Goto(d, "err") /\ UNCHANGED di)
    BY <1>1, <1>15 DEF Rescheduled, WakeClients, BroadcastClients
  <2>2. CASE TakeRow(d, o)  BY <1>1, <2>1, <2>2, RowTaken DEF Like
  <2>3. CASE Goto(d, "err") /\ UNCHANGED di
    <3>1. o.lock  BY <1>1, <2>1 DEF Right, HandlerRight, Inserting
    <3>. QED
      BY <1>1, <2>1, <2>3, <3>1, HandlerGoesOn DEF HandlerPc, Plain, Inserting, Like
  <2>. QED  BY <2>1, <2>2, <2>3
<1>16. CASE NoCache(d)
  <2>1. /\ pc[d] = "no_cache" /\ UNCHANGED <<asleep, di, listed, cvars, fvars>>
        /\ UNCHANGED owner \/ owner' = [owner EXCEPT ![d] = d]
        /\ \E p \in {"tail", "err"} : Goto(d, p)
    BY <1>16 DEF NoCache, Lock
  <2>2. o.lock  BY <1>1, <2>1 DEF Right, HandlerRight, Inserting
  <2>. QED  BY <1>1, <2>1, <2>2, HandlerGoesOn DEF HandlerPc, Plain, Inserting, Like
<1>17. CASE DropRow(d)
  <2>1. /\ pc[d] \in {"err", "err_dec"} /\ UNCHANGED <<owner, asleep, listed, cvars, fvars>>
        /\ o.lock
    BY <1>1, <1>17 DEF DropRow, Right, HandlerRight, Inserting
  <2>2. ASSUME NEW p \in {"err", "err_dec"}, NEW r \in Object, Set(d, r), Goto(d, p),
               r.locks_in_memory = o.locks_in_memory, r.tables_in_use = o.tables_in_use,
               r.table = o.table, r.lock = o.lock, r.killed = o.killed
        PROVE HandlerMoves(d)
    <3>1. HandlerRight(p, r, l)
      BY <1>1, <2>1, <2>2 DEF Right, HandlerRight, Inserting
    <3>. QED  BY <1>1, <2>1, <2>2, <3>1, HandlerGoes DEF HandlerPc
  <2>3. CASE pc[d] = "err"
    <3> DEFINE r == [o EXCEPT !.rows = @ - 1, !.seen = o.stacked_inserts]
    <3>1. Set(d, r) /\ Goto(d, "err_dec") /\ o.rows > 0  BY <1>17, <2>3 DEF DropRow
    <3>2. /\ r \in Object
          /\ r.locks_in_memory = o.locks_in_memory /\ r.tables_in_use = o.tables_in_use
          /\ r.table = o.table /\ r.lock = o.lock /\ r.killed = o.killed
      <4>1. o.rows - 1 \in Nat /\ o.stacked_inserts \in 0 .. MaxUint  BY <1>1, <3>1 DEF Object
      <4>. QED  BY <1>1, <4>1 DEF Object
    <3>. QED  BY <2>2, <3>1, <3>2
  <2>4. CASE pc[d] = "err_dec"
    <3> DEFINE n == (o.seen + MaxUint) % (MaxUint + 1)
               r == [o EXCEPT !.seen = 0, !.stacked_inserts = n]
    <3>1. Set(d, r) /\ Goto(d, "err")  BY <1>17, <2>4 DEF DropRow
    <3>2. n \in 0 .. MaxUint /\ 0 \in 0 .. MaxUint  BY <1>1, CountDown, Apart DEF Object
    <3> HIDE DEF n
    <3>3. /\ r \in Object
          /\ r.locks_in_memory = o.locks_in_memory /\ r.tables_in_use = o.tables_in_use
          /\ r.table = o.table /\ r.lock = o.lock /\ r.killed = o.killed
      BY <1>1, <3>2 DEF Object
    <3>. QED  BY <2>2, <3>1, <3>3
  <2>. QED  BY <2>1, <2>3, <2>4
<1>18. CASE InsertsFail(d)
  <2> DEFINE r == [o EXCEPT !.dead = TRUE, !.killed = TRUE]
  <2>1. /\ pc[d] = "err" /\ o.rows = 0 /\ UNCHANGED <<asleep, listed, cvars, fvars>>
        /\ owner' = [owner EXCEPT ![d] = d] /\ Set(d, r) /\ Goto(d, "tail")
    BY <1>18 DEF InsertsFail, Lock
  <2>2. r \in Object /\ Like(r, o) /\ r.dead  BY <1>1 DEF Object, Like
  <2>3. o.stacked_inserts \in Nat  BY <1>1 DEF Object
  <2> HIDE DEF r
  <2>4. HandlerRight("tail", r, l)
    BY <1>1, <2>1, <2>2, <2>3 DEF Right, HandlerRight, Inserting, Like
  <2>. QED  BY <1>1, <2>1, <2>2, <2>4, HandlerGoes DEF HandlerPc, Like
<1>19. CASE Tail(d)
  <2>1. /\ pc[d] = "tail" /\ UNCHANGED <<listed, cvars, fvars>> /\ asleep' \subseteq Thread
        /\ UNCHANGED owner \/ owner' = [owner EXCEPT ![d] = Nobody]
    BY <1>1, <1>19 DEF Tail, WakeClients, BroadcastClients, Unlock
  <2>2. CASE Idle(o) /\ o.lock
    <3> DEFINE r == [o EXCEPT !.status = FALSE, !.lock = FALSE]
    <3>1. Set(d, r) /\ Goto(d, "unlocked")  BY <1>19, <2>2 DEF Tail
    <3>2. /\ r \in Object /\ ~ r.lock /\ r.table = o.table
          /\ r.locks_in_memory = o.locks_in_memory /\ r.tables_in_use = o.tables_in_use
          /\ r.stacked_inserts = o.stacked_inserts /\ r.rows = o.rows
          /\ r.dead = o.dead /\ r.killed = o.killed
          /\ o.rows \in Nat
      BY <1>1 DEF Object
    <3> HIDE DEF r
    <3>3. HandlerRight("unlocked", r, l)
      BY <1>1, <2>1, <2>2, <3>2 DEF Right, HandlerRight, Inserting, Idle
    <3>. QED  BY <1>1, <2>1, <2>2, <3>1, <3>2, <3>3, HandlerGoes DEF HandlerPc, Idle
  <2>3. CASE ~ (Idle(o) /\ o.lock)
    <3> DEFINE r == [o EXCEPT !.status = FALSE]
    <3>1. Set(d, r) /\ Goto(d, "loop")  BY <1>19, <2>3 DEF Tail
    <3>2. r \in Object /\ Like(r, o)  BY <1>1 DEF Object, Like
    <3>. QED  BY <1>1, <2>1, <3>1, <3>2, HandlerGoesOn DEF HandlerPc, Plain
  <2>. QED  BY <2>2, <2>3
<1>20. CASE Unlocked(d)
  <2> DEFINE r == [o EXCEPT !.group_count = 0]
  <2>1. /\ pc[d] = "unlocked" /\ UNCHANGED <<listed, cvars, fvars>> /\ asleep' \subseteq Thread
        /\ owner' = [owner EXCEPT ![d] = d] /\ Set(d, r) /\ Goto(d, "loop")
    BY <1>1, <1>20 DEF Unlocked, WakeClients, BroadcastClients, Lock
  <2>2. r \in Object /\ Like(r, o)  BY <1>1, HandlerAssumption DEF Object, Like
  <2>. QED  BY <1>1, <2>1, <2>2, HandlerGoesOn DEF HandlerPc, Plain
<1>21. CASE End(d)
  <2> DEFINE r == [o EXCEPT !.opened = "no", !.table = FALSE, !.lock = FALSE,
                            !.dead = TRUE, !.killed = TRUE]
  <2>1. /\ pc[d] = "end" /\ UNCHANGED <<listed, cvars, fvars>> /\ asleep' \subseteq Thread
        /\ owner' = [owner EXCEPT ![d] = Nobody] /\ Set(d, r) /\ Goto(d, "delete_create")
    BY <1>1, <1>21 DEF End, Refresh, Unlock
  <2>2. /\ r \in Object /\ ~ r.lock /\ ~ r.table /\ r.dead /\ r.killed
        /\ r.locks_in_memory = o.locks_in_memory /\ r.tables_in_use = o.tables_in_use
        /\ r.stacked_inserts = o.stacked_inserts /\ r.rows = o.rows
        /\ o.rows \in Nat
    BY <1>1 DEF Object
  <2> HIDE DEF r
  <2>3. HandlerRight("delete_create", r, l)
    BY <1>1, <2>1, <2>2 DEF Right, HandlerRight, Inserting
  <2>4. o.table => o.locks_in_memory = 0 /\ o.tables_in_use = 0
    BY <1>1, <2>1 DEF Right, HandlerRight
  <2>5. o.lock => o.tables_in_use = 0
    BY <1>1, <2>1, <2>4 DEF Right, HandlerRight
  <2>. QED  BY <1>1, <2>1, <2>2, <2>3, <2>4, <2>5, HandlerGoes DEF HandlerPc
<1>22. CASE DeleteLock(d)
  <2>1. /\ pc[d] = "delete_create" /\ UNCHANGED <<asleep, di, listed, cvars, fvars>>
        /\ owner["LOCK_delayed_create"] = Nobody /\ Goto(d, "delete")
        /\ owner' = [owner EXCEPT !["LOCK_delayed_create"] = d]
    BY <1>22 DEF DeleteLock, Lock, Free
  <2>2. /\ pc' \in [Thread -> ClientPc \cup HandlerPc \cup FlusherPc]
        /\ pc'[d] = "delete" /\ \A s \in Thread \ {d} : pc'[s] = pc[s]
    BY <1>1, <2>1, GotoIs DEF HandlerPc
  <2>3. /\ owner' \in [Mutex -> Thread \cup {Nobody}]
        /\ owner'["LOCK_delayed_create"] = d
        /\ \A n \in Mutex \ {"LOCK_delayed_create"} : owner'[n] = owner[n]
    BY <1>1, <2>1, OwnerIs
  <2>4. HandlerRight("delete", o, l)
    BY <1>1, <2>1 DEF Right, HandlerRight, Inserting
  <2>. QED  BY <1>1, <2>1, <2>2, <2>3, <2>4 DEF HandlerMoves, HandlerPc, TypeOK
<1>. QED
  BY <1>2, <1>3, <1>4, <1>5, <1>6, <1>7, <1>8, <1>9, <1>10, <1>11, <1>12, <1>13, <1>14, <1>15,
     <1>16, <1>17, <1>18, <1>19, <1>20, <1>21, <1>22 DEF HandlerStep

(* ~delayed_insert(): nobody points to the handler any more.                 *)
LEMMA DeleteKeeps ==
  ASSUME IInv, NEW d \in Handler, Delete(d)
  PROVE  IInv'
<1>1. /\ TypeOK /\ d \in Thread /\ "LOCK_delayed_create" \in Mutex /\ New \in Object
      /\ pc[d] = "delete" /\ owner["LOCK_delayed_insert"] = Nobody
      /\ owner["LOCK_delayed_create"] = d /\ \A c \in Client : c # d /\ c # Nobody
      /\ UNCHANGED <<asleep, listed, cvars, fvars>>
  BY HandlerAssumption, Apart DEF IInv, Mutexes, Delete, Free, Mutex, New, Object
<1>2. /\ pc' \in [Thread -> ClientPc \cup HandlerPc \cup FlusherPc]
      /\ pc'[d] = "none" /\ \A s \in Thread \ {d} : pc'[s] = pc[s]
  BY <1>1, GotoIs DEF Delete, HandlerPc
<1>3. /\ di' \in [Handler -> Object]
      /\ di'[d] = New /\ \A e \in Handler \ {d} : di'[e] = di[e]
  BY <1>1, SetIs DEF Delete
<1>4. /\ owner' \in [Mutex -> Thread \cup {Nobody}]
      /\ owner'["LOCK_delayed_insert"] = owner["LOCK_delayed_insert"]
  BY <1>1, OwnerIs DEF Delete, Unlock, Mutex
<1>5. \A c \in Client : pc'[c] = pc[c] /\ ref'[c] = ref[c] /\ next'[c] = next[c]
                        /\ left'[c] = left[c] /\ (c \in killed' <=> c \in killed)
  BY <1>1, <1>2, Apart DEF cvars
<1>6. \A c \in Client : (Creating(c)' <=> Creating(c)) /\ (Borrowing(c)' <=> Borrowing(c))
  BY <1>5 DEF Creating, Borrowing
<1>7. \A c \in Client : ~ Creating(c) /\ (pc[c] \in Using => ref[c] # d)
  <2> SUFFICES ASSUME NEW c \in Client
               PROVE  ~ Creating(c) /\ (pc[c] \in Using => ref[c] # d)
    OBVIOUS
  <2>1. ClientRight(c) /\ Right(d)  BY DEF IInv
  <2>2. ~ di[d].table  BY <1>1, <2>1 DEF Right, HandlerRight
  <2>. QED  BY <1>1, <2>1, <2>2 DEF ClientRight
<1>8. TypeOK'
  <2>1. /\ \A c \in Client : pc'[c] \in ClientPc
        /\ \A e \in Handler : pc'[e] \in HandlerPc
        /\ pc'[Flusher] \in FlusherPc
    BY <1>1, <1>2, Apart DEF TypeOK, HandlerPc
  <2>. QED  BY <1>1, <1>2, <1>3, <1>4, <2>1 DEF TypeOK, cvars, fvars
<1>9. \A e \in Handler : Right(e)'
  <2>1. ASSUME NEW e \in Handler \ {d} PROVE Right(e)'
    <3>1. pc'[e] = pc[e] /\ di'[e] = di[e] /\ listed' = listed
      BY <1>1, <1>2, <1>3, Apart
    <3>2. Right(e)  BY DEF IInv
    <3>. QED  BY <3>1, <3>2 DEF Right, HandlerRight
  <2>2. d \notin listed
    <3>1. Right(d)  BY DEF IInv
    <3>. QED  BY <1>1, <3>1 DEF Right, HandlerRight
  <2>3. Right(d)'  BY <1>1, <1>2, <1>3, <2>2 DEF Right, HandlerRight, New, Inserting
  <2>. QED  BY <2>1, <2>3
<1>10. \A c \in Client : ClientRight(c)'
  <2> SUFFICES ASSUME NEW c \in Client PROVE ClientRight(c)'  OBVIOUS
  <2>1. ClientRight(c)  BY DEF IInv
  <2>2. pc[c] \in Using => /\ ref[c] \in Handler /\ pc'[ref[c]] = pc[ref[c]]
                           /\ di'[ref[c]] = di[ref[c]]
    BY <1>2, <1>3, <1>7, <2>1, Apart DEF ClientRight
  <2>. QED  BY <1>4, <1>5, <1>6, <1>7, <2>1, <2>2 DEF ClientRight
<1>11. Mutexes'
  <2>1. Mutexes  BY DEF IInv
  <2>. QED  BY <1>1, <1>2, <1>4, <2>1, Apart DEF Mutexes
<1>12. Counted'
  <2>1. Counted  BY DEF IInv
  <2>2. \A e \in Handler : Finders(e)' = Finders(e) /\ Borrowers(e)' = Borrowers(e)
    BY <1>5, <1>6 DEF Finders, Borrowers
  <2>3. Finders(d) = {} /\ Borrowers(d) = {}
    BY <1>7 DEF Finders, Borrowers, Borrowing, Using, ClientPc
  <2>4. Cardinality({}) = 0  BY FS_EmptySet
  <2>5. New.locks_in_memory = 0 /\ New.tables_in_use = 0  BY DEF New
  <2>6. Finders(d)' = {} /\ Borrowers(d)' = {}  BY <2>2, <2>3
  <2>7. \A e \in Handler \ {d} : /\ di'[e].locks_in_memory = Cardinality(Finders(e)')
                                /\ di'[e].tables_in_use = Cardinality(Borrowers(e)')
    BY <1>3, <2>1, <2>2 DEF Counted
  <2>. QED  BY <1>3, <2>4, <2>5, <2>6, <2>7 DEF Counted
<1>. QED  BY <1>8, <1>9, <1>10, <1>11, <1>12 DEF IInv

-----------------------------------------------------------------------------
(* FLUSH TABLES and KILL.                                                    *)

(* A step in which every client and every handler stays where it is. *)
LEMMA StandStill ==
  ASSUME IInv, TypeOK', \A t \in Client \cup Handler : pc'[t] = pc[t],
         UNCHANGED <<ref, next, left, listed>>, killed \subseteq killed',
         \A e \in Handler : Like(di'[e], di[e]),
         owner'["LOCK_delayed_create"] = owner["LOCK_delayed_create"],
         owner["LOCK_delayed_insert"] \in Client =>
             owner'["LOCK_delayed_insert"] = owner["LOCK_delayed_insert"],
         pc'[Flusher] = "killing" => owner'["LOCK_delayed_insert"] = Flusher
  PROVE  IInv'
<1>1. \A c \in Client : (Creating(c)' <=> Creating(c)) /\ (Borrowing(c)' <=> Borrowing(c))
  BY DEF Creating, Borrowing
<1>2. ASSUME NEW e \in Handler PROVE Right(e)'
  <2>1. Right(e) /\ pc'[e] = pc[e] /\ Like(di'[e], di[e]) /\ listed' = listed  BY DEF IInv
  <2>. QED  BY <2>1 DEF Right, HandlerRight, Like
<1>3. ASSUME NEW c \in Client PROVE ClientRight(c)'
  <2>1. ClientRight(c)  BY DEF IInv
  <2>2. pc[c] \in Using => /\ ref[c] \in Handler /\ pc'[ref[c]] = pc[ref[c]]
                           /\ Like(di'[ref[c]], di[ref[c]])
    BY <2>1 DEF ClientRight
  <2>3. pc'[c] = pc[c] /\ ref' = ref /\ next' = next /\ left' = left  OBVIOUS
  <2>4. pc[c] = "unlock_last" => owner'["LOCK_delayed_insert"] = c
    BY <2>1 DEF ClientRight
  <2>. QED  BY <1>1, <2>1, <2>2, <2>3, <2>4 DEF ClientRight, Like
<1>4. Mutexes'  BY DEF IInv, Mutexes
<1>5. Counted'
  <2>1. \A e \in Handler : Finders(e)' = Finders(e) /\ Borrowers(e)' = Borrowers(e)
    BY <1>1 DEF Finders, Borrowers
  <2>. QED  BY <2>1 DEF IInv, Counted, Like
<1>. QED  BY <1>2, <1>3, <1>4, <1>5 DEF IInv

(* KILL of a handler and of a client. *)
LEMMA KillKeeps ==
  ASSUME IInv, (\E d \in Handler : KillHandler(d)) \/ (\E c \in Client : KillClient(c))
  PROVE  IInv'
<1>1. TypeOK /\ Mutexes  BY DEF IInv
<1>2. ASSUME NEW d \in Handler, KillHandler(d) PROVE IInv'
  <2> DEFINE r == [di[d] EXCEPT !.killed = TRUE]
  <2>1. di[d] \in Object  BY <1>1 DEF TypeOK
  <2>2. r \in Object /\ Like(r, di[d])  BY <2>1 DEF Object, Like
  <2>3. /\ di' \in [Handler -> Object]
        /\ di'[d] = r /\ \A e \in Handler \ {d} : di'[e] = di[e]
    BY <1>1, <1>2, <2>2, SetIs DEF KillHandler
  <2>4. UNCHANGED <<pc, owner, listed, cvars, fvars>> /\ asleep' \subseteq asleep
    BY <1>2 DEF KillHandler
  <2>5. \A e \in Handler : Like(di'[e], di[e])  BY <2>2, <2>3 DEF Like
  <2>6. TypeOK'  BY <1>1, <2>3, <2>4 DEF TypeOK, cvars, fvars
  <2>. QED  BY <1>1, <2>4, <2>5, <2>6, StandStill DEF cvars, Mutexes
<1>3. ASSUME NEW c \in Client, KillClient(c) PROVE IInv'
  <2>1. /\ UNCHANGED <<pc, owner, asleep, di, listed, ref, next, left, statements, fvars>>
        /\ killed' = killed \cup {c}
    BY <1>3 DEF KillClient
  <2>2. TypeOK'  BY <1>1, <2>1 DEF TypeOK, fvars
  <2>3. \A e \in Handler : Like(di'[e], di[e])  BY <2>1 DEF Like
  <2>. QED  BY <1>1, <2>1, <2>2, <2>3, StandStill DEF Mutexes
<1>. QED  BY <1>2, <1>3

(* FLUSH TABLES. *)
LEMMA FlushKeeps ==
  ASSUME IInv, StartFlush \/ FlusherStep
  PROVE  IInv'
<1>1. /\ TypeOK /\ Mutexes /\ Flusher \in Thread
      /\ pc \in [Thread -> ClientPc \cup HandlerPc \cup FlusherPc]
      /\ {"LOCK_delayed_insert", "LOCK_delayed_create", "LOCK_open"} \subseteq Mutex
      /\ Nobody \in Thread \cup {Nobody} /\ Flusher \notin Client /\ Nobody \notin Client
  BY Apart DEF IInv, Mutex, TypeOK
<1>2. ASSUME NEW p \in FlusherPc, Goto(Flusher, p)
      PROVE  /\ pc' \in [Thread -> ClientPc \cup HandlerPc \cup FlusherPc]
             /\ pc'[Flusher] = p /\ \A t \in Client \cup Handler : pc'[t] = pc[t]
  BY <1>1, <1>2, GotoIs, Apart
<1>3. CASE StartFlush
  <2>1. /\ Goto(Flusher, "flush") /\ UNCHANGED <<owner, asleep, di, listed, todo, cvars>>
        /\ flushes' \in 0 .. Flushes /\ global_read_lock' \in BOOLEAN
    BY <1>1, <1>3, HandlerAssumption DEF StartFlush, TypeOK
  <2>2. TypeOK'  BY <1>1, <1>2, <2>1 DEF TypeOK, FlusherPc, cvars
  <2>. QED  BY <1>2, <2>1, <2>2, StandStill DEF Like, cvars, FlusherPc
<1>4. CASE close_cached_tables
  <2>1. /\ Goto(Flusher, "kill") /\ UNCHANGED <<asleep, listed, cvars, fvars>>
        /\ owner' = [owner EXCEPT !["LOCK_open"] = Flusher]
        /\ di' = [d \in Handler |->
                    [di[d] EXCEPT !.opened = IF @ = "no" THEN "no" ELSE "old"]]
    BY <1>4 DEF close_cached_tables, Lock
  <2>2. /\ owner' \in [Mutex -> Thread \cup {Nobody}]
        /\ owner'["LOCK_delayed_insert"] = owner["LOCK_delayed_insert"]
        /\ owner'["LOCK_delayed_create"] = owner["LOCK_delayed_create"]
    BY <1>1, <2>1, OwnerIs
  <2>3. ASSUME NEW e \in Handler PROVE di'[e] \in Object /\ Like(di'[e], di[e])
    <3>1. di[e] \in Object  BY <1>1 DEF TypeOK
    <3>2. di'[e] = [di[e] EXCEPT !.opened = IF @ = "no" THEN "no" ELSE "old"]  BY <2>1
    <3>. QED  BY <3>1, <3>2 DEF Object, Like
  <2>4. di' \in [Handler -> Object]  BY <2>1, <2>3
  <2>5. TypeOK'  BY <1>1, <1>2, <2>1, <2>2, <2>4 DEF TypeOK, FlusherPc, cvars, fvars
  <2>. QED  BY <1>1, <1>2, <2>1, <2>2, <2>3, <2>5, StandStill DEF cvars, FlusherPc
<1>5. CASE kill_delayed_threads
  <2>1. /\ Goto(Flusher, "killing") /\ UNCHANGED <<asleep, di, listed, flushes, global_read_lock, cvars>>
        /\ owner["LOCK_delayed_insert"] = Nobody /\ todo' = listed
        /\ owner' = [owner EXCEPT !["LOCK_delayed_insert"] = Flusher]
    BY <1>5 DEF kill_delayed_threads, Lock, Free
  <2>2. /\ owner' \in [Mutex -> Thread \cup {Nobody}]
        /\ owner'["LOCK_delayed_insert"] = Flusher
        /\ owner'["LOCK_delayed_create"] = owner["LOCK_delayed_create"]
    BY <1>1, <2>1, OwnerIs
  <2>3. TypeOK'  BY <1>1, <1>2, <2>1, <2>2 DEF TypeOK, FlusherPc, cvars
  <2>. QED  BY <1>1, <1>2, <2>1, <2>2, <2>3, StandStill DEF Like, cvars, FlusherPc
<1>6. CASE KillOne
  <2>1. PICK d \in todo : /\ Set(d, [di[d] EXCEPT !.killed = TRUE])
                          /\ asleep' = asleep \ {d} /\ todo' = todo \ {d}
    BY <1>6 DEF KillOne
  <2> DEFINE r == [di[d] EXCEPT !.killed = TRUE]
  <2>2. UNCHANGED <<pc, owner, listed, flushes, global_read_lock, cvars>>
    BY <1>6 DEF KillOne
  <2>3. d \in Handler /\ di[d] \in Object  BY <1>1 DEF TypeOK
  <2>4. r \in Object /\ Like(r, di[d])  BY <2>3 DEF Object, Like
  <2>5. /\ di' \in [Handler -> Object]
        /\ di'[d] = r /\ \A e \in Handler \ {d} : di'[e] = di[e]
    BY <1>1, <2>1, <2>3, <2>4, SetIs
  <2>6. \A e \in Handler : Like(di'[e], di[e])  BY <2>4, <2>5 DEF Like
  <2>7. TypeOK'  BY <1>1, <2>1, <2>2, <2>5 DEF TypeOK, cvars
  <2>. QED  BY <1>1, <2>2, <2>6, <2>7, StandStill DEF cvars, Mutexes
<1>7. CASE KillDone
  <2>1. /\ pc[Flusher] = "killing" /\ Goto(Flusher, "refresh")
        /\ UNCHANGED <<di, listed, cvars, fvars>> /\ asleep' \subseteq asleep
        /\ owner' = [owner EXCEPT !["LOCK_delayed_insert"] = Nobody]
    BY <1>7 DEF KillDone, Unlock, Refresh
  <2>2. /\ owner' \in [Mutex -> Thread \cup {Nobody}]
        /\ owner["LOCK_delayed_insert"] \notin Client
        /\ owner'["LOCK_delayed_create"] = owner["LOCK_delayed_create"]
    BY <1>1, <2>1, OwnerIs DEF Mutexes
  <2>3. TypeOK'  BY <1>1, <1>2, <2>1, <2>2 DEF TypeOK, FlusherPc, cvars, fvars
  <2>. QED  BY <1>1, <1>2, <2>1, <2>2, <2>3, StandStill DEF Like, cvars, FlusherPc
<1>8. CASE WaitRefresh
  <2>1. /\ pc[Flusher] = "refresh" /\ (Goto(Flusher, "release") \/ UNCHANGED pc)
        /\ UNCHANGED <<di, listed, cvars, fvars>> /\ asleep' \subseteq Thread
        /\ owner' = [owner EXCEPT !["LOCK_open"] = Nobody]
    BY <1>1, <1>8 DEF WaitRefresh, Unlock, TypeOK
  <2>2. /\ owner' \in [Mutex -> Thread \cup {Nobody}]
        /\ owner'["LOCK_delayed_insert"] = owner["LOCK_delayed_insert"]
        /\ owner'["LOCK_delayed_create"] = owner["LOCK_delayed_create"]
    BY <1>1, <2>1, OwnerIs
  <2>3. /\ pc' \in [Thread -> ClientPc \cup HandlerPc \cup FlusherPc]
        /\ pc'[Flusher] \in {"release", "refresh"} /\ \A t \in Client \cup Handler : pc'[t] = pc[t]
    BY <1>1, <1>2, <2>1 DEF FlusherPc
  <2>4. TypeOK'  BY <1>1, <2>1, <2>2, <2>3 DEF TypeOK, FlusherPc, cvars, fvars
  <2>. QED  BY <1>1, <2>1, <2>2, <2>3, <2>4, StandStill DEF Like, cvars
<1>9. CASE EndFlush
  <2>1. /\ Goto(Flusher, "idle") /\ UNCHANGED <<owner, di, listed, todo, flushes, cvars>>
        /\ asleep' \subseteq asleep /\ global_read_lock' \in BOOLEAN
    BY <1>9 DEF EndFlush, Refresh
  <2>2. TypeOK'  BY <1>1, <1>2, <2>1 DEF TypeOK, FlusherPc, cvars
  <2>. QED  BY <1>2, <2>1, <2>2, StandStill DEF Like, cvars, FlusherPc
<1>. QED  BY <1>3, <1>4, <1>5, <1>6, <1>7, <1>8, <1>9 DEF FlusherStep

-----------------------------------------------------------------------------
(* A step of a client.                                                       *)

FindPc == {"open_wait", "opened", "get_table", "lock_wait", "unlock"}
Finding(c) == pc[c] \in FindPc
Counting(c) == pc[c] = "lock_wait" \/ Borrowing(c)
One(b) == IF b THEN 1 ELSE 0

(* Client c moves, and counts itself in its handler d or out of it; or there *)
(* is no d yet, or it creates it.                                            *)
ClientMoves(c, d) ==
    /\ UNCHANGED <<listed, killed, fvars>>
    /\ pc' \in [Thread -> ClientPc \cup HandlerPc \cup FlusherPc]
    /\ pc'[c] \in ClientPc /\ \A t \in Thread \ {c, d} : pc'[t] = pc[t]
    /\ ref' \in [Client -> Handler \cup {Nobody}]
    /\ next' \in [Client -> {"idle", "insert", "fatal_error"}]
    /\ left' \in [Client -> 0 .. RowsPer]
    /\ statements' \in [Client -> 0 .. Statements]
    /\ \A x \in Client \ {c} : ref'[x] = ref[x] /\ next'[x] = next[x] /\ left'[x] = left[x]
    /\ asleep' \subseteq Thread
    /\ owner' \in [Mutex -> Thread \cup {Nobody}]
    /\ \A m \in {"LOCK_delayed_insert", "LOCK_delayed_create"} :
          owner[m] \notin {c, Nobody} => owner'[m] = owner[m]
    /\ di' \in [Handler -> Object] /\ \A e \in Handler \ {d} : di'[e] = di[e]
    /\ pc[c] \in Using => ref[c] = d
    /\ pc'[c] \in Using => ref'[c] = d
    /\ d \in Handler =>
         /\ \/ /\ pc'[d] = pc[d] /\ di'[d].table = di[d].table
               /\ di'[d].lock = di[d].lock /\ di'[d].killed = di[d].killed
            \/ pc[d] = "none" /\ pc'[d] = "start"
         /\ HandlerRight(pc'[d], di'[d], d \in listed)
         /\ di'[d].locks_in_memory
              = di[d].locks_in_memory + One(Finding(c)') - One(Finding(c))
         /\ di'[d].tables_in_use
              = di[d].tables_in_use + One(Counting(c)') - One(Counting(c))
    /\ ClientRight(c)'

(* A step of a client keeps the invariant. *)
LEMMA ClientKeeps ==
  ASSUME IInv, NEW c \in Client, NEW d \in Handler \cup {Nobody}, ClientMoves(c, d)
  PROVE  IInv'
<1>1. /\ TypeOK /\ c \in Thread /\ c \notin Handler /\ c # d
      /\ pc' \in [Thread -> ClientPc \cup HandlerPc \cup FlusherPc]
      /\ \A x \in Client \ {c} : pc'[x] = pc[x] /\ ref'[x] = ref[x] /\ next'[x] = next[x]
                                 /\ left'[x] = left[x]
      /\ \A e \in Handler \ {d} : pc'[e] = pc[e] /\ di'[e] = di[e]
      /\ pc'[Flusher] = pc[Flusher] /\ listed' = listed /\ killed' = killed
  BY Apart DEF IInv, ClientMoves
<1>2. \A x \in Client \ {c} :
         (Creating(x)' <=> Creating(x)) /\ (Borrowing(x)' <=> Borrowing(x))
  BY <1>1 DEF Creating, Borrowing
<1>3. TypeOK'
  <2>1. \A x \in Client : pc'[x] \in ClientPc
    BY <1>1 DEF TypeOK, ClientMoves
  <2>2. \A e \in Handler : pc'[e] \in HandlerPc
    BY <1>1 DEF TypeOK, ClientMoves, HandlerPc
  <2>. QED  BY <1>1, <2>1, <2>2 DEF TypeOK, ClientMoves, fvars
<1>4. ASSUME NEW e \in Handler PROVE Right(e)'
  <2>1. CASE e # d
    <3>1. pc'[e] = pc[e] /\ di'[e] = di[e] /\ Right(e)  BY <1>1, <2>1 DEF IInv
    <3>. QED  BY <1>1, <3>1 DEF Right, HandlerRight
  <2>2. CASE e = d
    BY <1>1, <2>2 DEF ClientMoves, Right
  <2>. QED  BY <2>1, <2>2
<1>5. ASSUME NEW x \in Client PROVE ClientRight(x)'
  <2>1. CASE x = c
    BY <2>1 DEF ClientMoves
  <2>2. CASE x # c
    <3>1. ClientRight(x)  BY DEF IInv
    <3>2. pc'[x] = pc[x] /\ ref'[x] = ref[x] /\ next'[x] = next[x] /\ left'[x] = left[x]
      BY <1>1, <2>2
    <3>3. (Creating(x)' <=> Creating(x)) /\ (Borrowing(x)' <=> Borrowing(x))
      BY <1>2, <2>2
    <3>4. /\ Creating(x) => owner'["LOCK_delayed_create"] = x
          /\ pc[x] = "unlock_last" => owner'["LOCK_delayed_insert"] = x
      BY <2>2, <3>1, Apart DEF ClientRight, ClientMoves
    <3>5. pc[x] \in Using =>
            /\ ref[x] \in Handler /\ pc'[ref[x]] = pc[ref[x]]
            /\ di'[ref[x]].table = di[ref[x]].table /\ di'[ref[x]].lock = di[ref[x]].lock
            /\ di'[ref[x]].killed = di[ref[x]].killed
      BY <1>1, <3>1 DEF ClientRight, ClientMoves
    <3>. QED  BY <1>1, <3>1, <3>2, <3>3, <3>4, <3>5 DEF ClientRight
  <2>. QED  BY <2>1, <2>2
<1>6. Mutexes'
  <2>1. Mutexes  BY DEF IInv
  <2>2. ASSUME NEW e \in Handler, pc'[e] = "delete" PROVE owner'["LOCK_delayed_create"] = e
    <3>1. pc[e] = "delete"  BY <1>1, <2>2 DEF ClientMoves
    <3>. QED  BY <2>1, <3>1, Apart DEF Mutexes, ClientMoves
  <2>3. pc'[Flusher] = "killing" => owner'["LOCK_delayed_insert"] = Flusher
    BY <1>1, <2>1, Apart DEF Mutexes, ClientMoves
  <2>. QED  BY <2>2, <2>3 DEF Mutexes
<1>7. ASSUME NEW e \in Handler
      PROVE  /\ di'[e].locks_in_memory = Cardinality(Finders(e)')
             /\ di'[e].tables_in_use = Cardinality(Borrowers(e)')
  <2>1. /\ di[e].locks_in_memory = Cardinality(Finders(e))
        /\ di[e].tables_in_use = Cardinality(Borrowers(e))
    BY DEF IInv, Counted
  <2>2. /\ Finders(e)' \ {c} = Finders(e) \ {c} /\ Borrowers(e)' \ {c} = Borrowers(e) \ {c}
        /\ Finders(e)' \subseteq Client /\ Borrowers(e)' \subseteq Client
        /\ Finders(e) \subseteq Client /\ Borrowers(e) \subseteq Client
    BY <1>1, <1>2 DEF Finders, Borrowers
  <2>3. /\ c \in Finders(e) <=> Finding(c) /\ ref[c] = e
        /\ c \in Finders(e)' <=> Finding(c)' /\ ref'[c] = e
        /\ c \in Borrowers(e) <=> Counting(c) /\ ref[c] = e
        /\ c \in Borrowers(e)' <=> Counting(c)' /\ ref'[c] = e
    BY DEF Finders, Borrowers, Finding, FindPc, Counting
  <2>4. /\ Finding(c) \/ Counting(c) => pc[c] \in Using
        /\ Finding(c)' \/ Counting(c)' => pc'[c] \in Using
    BY DEF Finding, FindPc, Counting, Borrowing, Using, ClientPc
  <2>5. CASE e # d
    <3>1. c \notin Finders(e) /\ c \notin Finders(e)' /\ c \notin Borrowers(e) /\ c \notin Borrowers(e)'
      BY <2>3, <2>4, <2>5 DEF ClientMoves
    <3>2. Finders(e)' = Finders(e) /\ Borrowers(e)' = Borrowers(e)  BY <2>2, <3>1
    <3>. QED  BY <1>1, <2>1, <2>5, <3>2
  <2>6. CASE e = d
    <3>1. /\ c \in Finders(e) <=> Finding(c)
          /\ c \in Finders(e)' <=> Finding(c)'
          /\ c \in Borrowers(e) <=> Counting(c)
          /\ c \in Borrowers(e)' <=> Counting(c)'
      BY <2>3, <2>4, <2>6 DEF ClientMoves
    <3>2. /\ Cardinality(Finders(e)') = Cardinality(Finders(e)) + One(Finding(c)') - One(Finding(c))
      BY <2>2, <3>1, CountMoves, Apart DEF One
    <3>3. /\ Cardinality(Borrowers(e)') = Cardinality(Borrowers(e)) + One(Counting(c)') - One(Counting(c))
      BY <2>2, <3>1, CountMoves, Apart DEF One
    <3>. QED  BY <2>1, <2>6, <3>2, <3>3 DEF ClientMoves
  <2>. QED  BY <2>5, <2>6
<1>. QED  BY <1>3, <1>4, <1>5, <1>6, <1>7 DEF IInv, Counted

(* There is room to count one more, and one that is counted can be taken off. *)
LEMMA Room ==
  ASSUME IInv, NEW c \in Client, NEW d \in Handler
  PROVE  /\ di[d].locks_in_memory \in Nat /\ di[d].tables_in_use \in Nat
         /\ ~ (Finding(c) /\ ref[c] = d) =>
               di[d].locks_in_memory + 1 \in 0 .. Cardinality(Client)
         /\ Finding(c) /\ ref[c] = d =>
               di[d].locks_in_memory > 0 /\ di[d].locks_in_memory - 1 \in 0 .. Cardinality(Client)
         /\ ~ (Counting(c) /\ ref[c] = d) =>
               di[d].tables_in_use + 1 \in 0 .. Cardinality(Client)
         /\ Counting(c) /\ ref[c] = d =>
               di[d].tables_in_use > 0 /\ di[d].tables_in_use - 1 \in 0 .. Cardinality(Client)
<1>1. ASSUME NEW S \in SUBSET Client
      PROVE  /\ Cardinality(S) \in Nat
             /\ c \notin S => Cardinality(S) + 1 \in 0 .. Cardinality(Client)
             /\ c \in S => Cardinality(S) > 0 /\ Cardinality(S) - 1 \in 0 .. Cardinality(Client)
  <2>1. ASSUME c \notin S PROVE Cardinality(S) + 1 \in 0 .. Cardinality(Client)
    <3> DEFINE T == S \cup {c}
    <3>1. T \in SUBSET Client /\ S \ {c} = T \ {c} /\ c \in T \ S  BY <2>1
    <3> HIDE DEF T
    <3>2. Cardinality(T) = Cardinality(S) + 1 /\ Cardinality(T) \in 0 .. Cardinality(Client)
      BY <3>1, CountMoves
    <3>. QED  BY <3>2
  <2>2. ASSUME c \in S
        PROVE Cardinality(S) > 0 /\ Cardinality(S) - 1 \in 0 .. Cardinality(Client)
    <3> DEFINE T == S \ {c}
    <3>1. T \in SUBSET Client /\ S \ {c} = T \ {c} /\ c \in S \ T  BY <2>2
    <3> HIDE DEF T
    <3>2. /\ Cardinality(T) = Cardinality(S) - 1 /\ Cardinality(T) \in 0 .. Cardinality(Client)
          /\ Cardinality(S) \in 0 .. Cardinality(Client)
      BY <3>1, CountMoves
    <3>. QED  BY <3>2, Apart
  <2>. QED  BY <2>1, <2>2, Apart, FS_Subset, FS_CardinalityType
<1>2. Finders(d) \in SUBSET Client /\ Borrowers(d) \in SUBSET Client
  BY DEF Finders, Borrowers
<1>3. /\ c \in Finders(d) <=> Finding(c) /\ ref[c] = d
      /\ c \in Borrowers(d) <=> Counting(c) /\ ref[c] = d
  BY DEF Finders, Borrowers, Finding, FindPc, Counting
<1>4. /\ di[d].locks_in_memory = Cardinality(Finders(d))
      /\ di[d].tables_in_use = Cardinality(Borrowers(d))
  BY DEF IInv, Counted
<1>. QED  BY <1>1, <1>2, <1>3, <1>4

(* What a client does in most cases: it goes on to p, and makes the object   *)
(* of its handler r.                                                         *)
LEMMA ClientGoes ==
  ASSUME IInv, NEW c \in Client, NEW d \in Handler, NEW p \in ClientPc, NEW r \in Object,
         Goto(c, p) \/ (UNCHANGED pc /\ p = pc[c]),
         Set(d, r) \/ (UNCHANGED di /\ r = di[d]),
         UNCHANGED <<listed, killed, fvars>>, asleep' \subseteq Thread,
         ref' \in [Client -> Handler \cup {Nobody}],
         next' \in [Client -> {"idle", "insert", "fatal_error"}],
         left' \in [Client -> 0 .. RowsPer],
         statements' \in [Client -> 0 .. Statements],
         \A x \in Client \ {c} : ref'[x] = ref[x] /\ next'[x] = next[x] /\ left'[x] = left[x],
         owner' \in [Mutex -> Thread \cup {Nobody}],
         \A m \in {"LOCK_delayed_insert", "LOCK_delayed_create"} :
            owner[m] \notin {c, Nobody} => owner'[m] = owner[m],
         pc[c] \in Using => ref[c] = d,
         p \in Using => ref'[c] = d,
         r.table = di[d].table, r.lock = di[d].lock, r.killed = di[d].killed,
         HandlerRight(pc[d], r, d \in listed),
         r.locks_in_memory = di[d].locks_in_memory + One(Finding(c)') - One(Finding(c)),
         r.tables_in_use = di[d].tables_in_use + One(Counting(c)') - One(Counting(c)),
         ClientRight(c)'
  PROVE  ClientMoves(c, d)
<1>1. TypeOK /\ c \in Thread /\ c # d /\ d \in Thread  BY Apart DEF IInv
<1>2. /\ pc' \in [Thread -> ClientPc \cup HandlerPc \cup FlusherPc]
      /\ pc'[c] = p /\ \A s \in Thread \ {c} : pc'[s] = pc[s]
  BY <1>1, GotoIs DEF TypeOK
<1>3. /\ di' \in [Handler -> Object]
      /\ di'[d] = r /\ \A e \in Handler \ {d} : di'[e] = di[e]
  BY <1>1, SetIs DEF TypeOK
<1>. QED  BY <1>1, <1>2, <1>3 DEF ClientMoves

(* Where a client is when it goes on to p, and its handler.                  *)
LEMMA ClientIs ==
  ASSUME IInv, NEW c \in Client, NEW p \in ClientPc, Goto(c, p)
  PROVE  pc'[c] = p /\ \A e \in Handler : pc'[e] = pc[e]
BY GotoIs, Apart DEF IInv

(* find_handler() finds d. *)
LEMMA FindMoves ==
  ASSUME IInv, NEW c \in Client, NEW d \in listed, pc[c] \in {"idle", "create"},
         Found(c, d), Goto(c, "get_table"),
         UNCHANGED <<asleep, listed, next, killed, fvars>>,
         left' \in [Client -> 0 .. RowsPer], statements' \in [Client -> 0 .. Statements],
         \A x \in Client \ {c} : left'[x] = left[x],
         \/ UNCHANGED owner
         \/ pc[c] = "create" /\ Unlock("LOCK_delayed_create")
  PROVE  ClientMoves(c, d)
<1> DEFINE r == [di[d] EXCEPT !.locks_in_memory = @ + 1]
<1>1. /\ TypeOK /\ d \in Handler /\ di[d] \in Object /\ Right(d) /\ ClientRight(c)
      /\ "LOCK_delayed_create" \in Mutex /\ "LOCK_delayed_insert" \in Mutex
  BY DEF IInv, TypeOK, Mutex
<1>2. /\ ~ Finding(c) /\ ~ Counting(c) /\ pc[c] \notin Using /\ "get_table" \in ClientPc
  BY DEF Finding, FindPc, Counting, Borrowing, Using, ClientPc
<1>3. pc'[c] = "get_table" /\ \A e \in Handler : pc'[e] = pc[e]
  BY <1>2, ClientIs
<1>4. /\ r \in Object
      /\ r.locks_in_memory = di[d].locks_in_memory + 1
      /\ r.tables_in_use = di[d].tables_in_use /\ r.unlisted_locks = di[d].unlisted_locks
      /\ r.stacked_inserts = di[d].stacked_inserts /\ r.rows = di[d].rows
      /\ r.table = di[d].table /\ r.lock = di[d].lock /\ r.dead = di[d].dead
      /\ r.killed = di[d].killed
  <2>1. di[d].locks_in_memory + 1 \in 0 .. Cardinality(Client)  BY <1>1, <1>2, Room
  <2>. QED  BY <1>1, <2>1 DEF Object
<1>5. Set(d, r)  BY DEF Found
<1> HIDE DEF r
<1>6. di'[d] = r  BY <1>1, <1>4, <1>5, SetIs
<1>7. r.table /\ pc[d] # "none" /\ HandlerRight(pc[d], r, d \in listed)
  BY <1>1, <1>4 DEF Right, HandlerRight
<1>8. ref' \in [Client -> Handler \cup {Nobody}] /\ ref'[c] = d
      /\ \A x \in Client \ {c} : ref'[x] = ref[x]
  BY <1>1 DEF Found, TypeOK
<1>9. /\ owner' \in [Mutex -> Thread \cup {Nobody}]
      /\ \A m \in {"LOCK_delayed_insert", "LOCK_delayed_create"} :
            owner[m] \notin {c, Nobody} => owner'[m] = owner[m]
  BY <1>1 DEF Unlock, ClientRight, Creating, TypeOK
<1>10. Finding(c)' /\ ~ Counting(c)' /\ ~ Creating(c)' /\ ~ Borrowing(c)'
  BY <1>3 DEF Finding, FindPc, Counting, Borrowing, Creating
<1>11. ClientRight(c)'
  BY <1>1, <1>3, <1>6, <1>7, <1>8, <1>10 DEF ClientRight
<1>12. /\ r.locks_in_memory = di[d].locks_in_memory + One(Finding(c)') - One(Finding(c))
       /\ r.tables_in_use = di[d].tables_in_use + One(Counting(c)') - One(Counting(c))
  BY <1>2, <1>4, <1>10, Room, <1>1 DEF One
<1>. QED
  BY <1>1, <1>2, <1>4, <1>5, <1>7, <1>8, <1>9, <1>11, <1>12, ClientGoes DEF TypeOK

(* A client that has no handler, before and after.                           *)
LEMMA AloneMoves ==
  ASSUME IInv, NEW c \in Client, NEW p \in {"idle", "create_lock", "create"},
         pc[c] \notin Using, Goto(c, p),
         UNCHANGED <<di, listed, killed, next, fvars>>, asleep' \subseteq Thread,
         ref' \in [Client -> Handler \cup {Nobody}],
         left' \in [Client -> 0 .. RowsPer], statements' \in [Client -> 0 .. Statements],
         \A x \in Client \ {c} : ref'[x] = ref[x] /\ left'[x] = left[x],
         owner' \in [Mutex -> Thread \cup {Nobody}],
         \A m \in {"LOCK_delayed_insert", "LOCK_delayed_create"} :
            owner[m] \notin {c, Nobody} => owner'[m] = owner[m],
         p = "create" => owner'["LOCK_delayed_create"] = c,
         ref'[c] = Nobody
  PROVE  ClientMoves(c, Nobody)
<1>1. /\ TypeOK /\ c \in Thread /\ Nobody \notin Handler /\ p \in ClientPc
  BY Apart DEF IInv, ClientPc
<1>2. /\ pc' \in [Thread -> ClientPc \cup HandlerPc \cup FlusherPc]
      /\ pc'[c] = p /\ \A s \in Thread \ {c} : pc'[s] = pc[s]
  BY <1>1, GotoIs
<1>3. p \notin Using  BY DEF Using, ClientPc
<1>4. ClientRight(c)'
  BY <1>2, <1>3 DEF ClientRight, Creating
<1>. QED  BY <1>1, <1>2, <1>3, <1>4 DEF ClientMoves, TypeOK

(* A new handler: nobody has an object that is not allocated.                *)
LEMMA CreateMoves ==
  ASSUME IInv, NEW c \in Client, CreateHandler(c)
  PROVE  \E d \in Handler : ClientMoves(c, d)
<1>1. PICK d \in Handler \ Allocated :
        /\ Set(d, [New EXCEPT !.locks_in_memory = 1])
        /\ ref' = [ref EXCEPT ![c] = d]
        /\ pc' = [pc EXCEPT ![d] = "start",
                            ![c] = IF c \in killed THEN "opened" ELSE "open_wait"]
        /\ asleep' = IF c \in killed THEN asleep ELSE asleep \cup {c}
  BY DEF CreateHandler
<1> DEFINE q == IF c \in killed THEN "opened" ELSE "open_wait"
          r == [New EXCEPT !.locks_in_memory = 1]
<1>2. /\ TypeOK /\ Right(d) /\ ClientRight(c) /\ d \in Handler /\ pc[d] = "none"
      /\ pc[c] = "create" /\ d \in Thread /\ c \in Thread /\ c # d
      /\ UNCHANGED <<owner, listed, next, left, statements, killed, fvars>>
  BY <1>1, Apart DEF IInv, Allocated, CreateHandler
<1>3. ASSUME NEW x \in Client PROVE ~ (Finding(x) /\ ref[x] = d) /\ ~ (Counting(x) /\ ref[x] = d)
  <2>1. ClientRight(x)  BY DEF IInv
  <2>. QED
    BY <1>2, <2>1 DEF ClientRight, Finding, FindPc, Counting, Borrowing, Using, ClientPc
<1>4. di[d].locks_in_memory = 0 /\ di[d].tables_in_use = 0
  <2>1. Finders(d) = {} /\ Borrowers(d) = {}
    BY <1>3 DEF Finders, Borrowers, Finding, FindPc, Counting
  <2>. QED  BY <1>2, <2>1, FS_EmptySet DEF IInv, Counted
<1>5. /\ r \in Object /\ r.locks_in_memory = 1 /\ r.tables_in_use = 0
      /\ r.stacked_inserts = 0 /\ r.rows = 0
      /\ ~ r.table /\ ~ r.lock /\ ~ r.dead /\ ~ r.killed
  <2>1. 0 + 1 \in 0 .. Cardinality(Client)  BY <1>2, <1>3, <1>4, Room
  <2>2. /\ 1 \in 0 .. Cardinality(Client) /\ 0 \in 0 .. Cardinality(Client)
        /\ 0 \in 0 .. MaxUint /\ 0 \in 0 .. InsertLimit /\ 0 \in Nat
    BY <2>1, Apart, HandlerAssumption
  <2>3. New \in Object
    BY <2>2 DEF New, Object
  <2>4. /\ New.tables_in_use = 0 /\ New.stacked_inserts = 0 /\ New.rows = 0
        /\ ~ New.table /\ ~ New.lock /\ ~ New.dead /\ ~ New.killed
    BY DEF New
  <2>. QED  BY <2>2, <2>3, <2>4 DEF Object
<1>6. Set(d, r)  BY <1>1
<1> HIDE DEF r
<1>7. /\ di' \in [Handler -> Object]
      /\ di'[d] = r /\ \A e \in Handler \ {d} : di'[e] = di[e]
  BY <1>2, <1>5, <1>6, SetIs
<1>8. /\ q \in {"opened", "open_wait"} /\ q \in ClientPc /\ (q = "opened" => c \in killed)
      /\ pc' = [pc EXCEPT ![d] = "start", ![c] = q]
  BY <1>1 DEF ClientPc
<1> HIDE DEF q
<1>9. /\ pc' \in [Thread -> ClientPc \cup HandlerPc \cup FlusherPc]
      /\ pc'[c] = q /\ pc'[d] = "start" /\ \A t \in Thread \ {c, d} : pc'[t] = pc[t]
  BY <1>2, <1>8 DEF TypeOK, HandlerPc
<1>10. /\ ref' \in [Client -> Handler \cup {Nobody}] /\ ref'[c] = d
       /\ \A x \in Client \ {c} : ref'[x] = ref[x]
       /\ asleep' \subseteq Thread
  BY <1>1, <1>2 DEF TypeOK
<1>11. /\ Finding(c)' /\ ~ Counting(c)' /\ Creating(c)' /\ ~ Borrowing(c)'
       /\ ~ Finding(c) /\ ~ Counting(c) /\ Creating(c) /\ pc[c] \notin Using
  BY <1>2, <1>8, <1>9 DEF Finding, FindPc, Counting, Borrowing, Creating, Using
<1>12. d \notin listed  BY <1>2 DEF Right, HandlerRight
<1>13. HandlerRight("start", r, d \in listed)
  BY <1>5, <1>12 DEF HandlerRight, Inserting
<1>14. ClientRight(c)'
  BY <1>2, <1>7, <1>8, <1>9, <1>10, <1>11 DEF ClientRight
<1>15. ClientMoves(c, d)
  BY <1>2, <1>4, <1>5, <1>7, <1>8, <1>9, <1>10, <1>11, <1>13, <1>14
     DEF ClientMoves, TypeOK, One
<1>. QED  BY <1>15

(* delayed_get_table(). *)
LEMMA GetSteps ==
  ASSUME IInv, NEW c \in Client,
         \/ StartStatement(c) \/ LockCreate(c) \/ FindAgain(c) \/ CreateHandler(c)
         \/ CreateFails(c) \/ OpenWoken(c) \/ Opened(c) \/ ReadFatalError(c)
  PROVE  \E d \in Handler \cup {Nobody} : ClientMoves(c, d)
<1>1. /\ TypeOK /\ ClientRight(c) /\ listed \subseteq Handler /\ c \in Thread
      /\ asleep \subseteq Thread
      /\ "LOCK_delayed_create" \in Mutex /\ "LOCK_delayed_insert" \in Mutex
      /\ Nobody \in Thread \cup {Nobody} /\ RowsPer \in Nat /\ Nobody # c
  BY Apart, HandlerAssumption DEF IInv, TypeOK, Mutex
<1>2. CASE StartStatement(c)
  <2>1. /\ pc[c] = "idle" /\ UNCHANGED <<owner, asleep, listed, next, killed, fvars>>
        /\ statements' \in [Client -> 0 .. Statements]
        /\ left' \in [Client -> 0 .. RowsPer] /\ \A x \in Client \ {c} : left'[x] = left[x]
    <3>1. pc[c] = "idle" /\ UNCHANGED <<owner, asleep, listed, next, killed, fvars>>
      BY <1>2 DEF StartStatement
    <3>2. statements[c] - 1 \in 0 .. Statements
      BY <1>1, <1>2, HandlerAssumption DEF StartStatement, TypeOK
    <3>3. statements' \in [Client -> 0 .. Statements]
      BY <1>1, <1>2, <3>2 DEF StartStatement, TypeOK
    <3>4. left' \in [Client -> 0 .. RowsPer] /\ \A x \in Client \ {c} : left'[x] = left[x]
      BY <1>1, <1>2 DEF StartStatement, TypeOK
    <3>. QED  BY <3>1, <3>3, <3>4
  <2>2. CASE (\E d \in listed : Found(c, d)) /\ Goto(c, "get_table")
    <3>1. PICK d \in listed : Found(c, d)  BY <2>2
    <3>2. ClientMoves(c, d)  BY <2>1, <2>2, <3>1, FindMoves
    <3>. QED  BY <1>1, <3>2
  <2>3. CASE Goto(c, "create_lock") /\ UNCHANGED <<di, ref>>
    <3>1. ref'[c] = Nobody  BY <1>1, <2>1, <2>3 DEF ClientRight
    <3>. QED  BY <1>1, <2>1, <2>3, <3>1, AloneMoves DEF Using, TypeOK
  <2>. QED  BY <1>2, <2>2, <2>3 DEF StartStatement
<1>3. CASE LockCreate(c)
  <2>1. /\ pc[c] = "create_lock" /\ Goto(c, "create")
        /\ owner' = [owner EXCEPT !["LOCK_delayed_create"] = c]
        /\ owner["LOCK_delayed_create"] = Nobody
        /\ UNCHANGED <<asleep, di, listed, cvars, fvars>>
    BY <1>3 DEF LockCreate, Lock, Free
  <2>2. ref'[c] = Nobody  BY <1>1, <2>1 DEF ClientRight, cvars
  <2>. QED  BY <1>1, <2>1, <2>2, OwnerIs, AloneMoves DEF Using, TypeOK, cvars
<1>4. CASE FindAgain(c)
  <2>1. PICK d \in listed : Found(c, d)  BY <1>4 DEF FindAgain
  <2>2. /\ pc[c] = "create" /\ Goto(c, "get_table") /\ Unlock("LOCK_delayed_create")
        /\ UNCHANGED <<asleep, listed, next, left, statements, killed, fvars>>
    BY <1>4 DEF FindAgain
  <2>3. ClientMoves(c, d)  BY <1>1, <2>1, <2>2, FindMoves DEF TypeOK
  <2>. QED  BY <1>1, <2>3
<1>5. CASE CreateHandler(c)
  BY <1>5, CreateMoves
<1>6. CASE CreateFails(c)
  <2>1. /\ pc[c] = "create" /\ Goto(c, "idle") /\ owner["LOCK_delayed_create"] = c
        /\ owner' = [owner EXCEPT !["LOCK_delayed_create"] = Nobody]
        /\ left' = [left EXCEPT ![c] = 0]
        /\ UNCHANGED <<asleep, di, listed, ref, next, statements, killed, fvars>>
    BY <1>1, <1>6 DEF CreateFails, Unlock, ClientRight, Creating
  <2>2. left' \in [Client -> 0 .. RowsPer] /\ \A x \in Client \ {c} : left'[x] = left[x]
    BY <1>1, <2>1 DEF TypeOK
  <2>3. ref'[c] = Nobody  BY <1>1, <2>1 DEF ClientRight
  <2>. QED  BY <1>1, <2>1, <2>2, <2>3, OwnerIs, AloneMoves DEF Using, TypeOK
<1>7. CASE ReadFatalError(c)
  <2>1. /\ pc[c] = "fatal_error" /\ Goto(c, "idle")
        /\ ref' = [ref EXCEPT ![c] = Nobody] /\ left' = [left EXCEPT ![c] = 0]
        /\ UNCHANGED <<owner, asleep, di, listed, next, statements, killed, fvars>>
    BY <1>7 DEF ReadFatalError
  <2>2. /\ left' \in [Client -> 0 .. RowsPer] /\ \A x \in Client \ {c} : left'[x] = left[x]
        /\ ref' \in [Client -> Handler \cup {Nobody}]
        /\ \A x \in Client \ {c} : ref'[x] = ref[x]
    BY <1>1, <2>1 DEF TypeOK
  <2>. QED  BY <1>1, <2>1, <2>2, AloneMoves DEF Using, TypeOK
<1> DEFINE d == ref[c]
<1>8. ASSUME pc[c] \in {"open_wait", "opened"}
      PROVE  /\ d \in Handler /\ di[d] \in Object /\ Right(d) /\ pc[d] # "none"
             /\ Creating(c) /\ ~ Borrowing(c) /\ ~ Counting(c) /\ Finding(c)
             /\ owner["LOCK_delayed_create"] = c
             /\ di[d].locks_in_memory \in Nat /\ di[d].tables_in_use \in Nat
             /\ (pc[c] = "opened" => di[d].table \/ di[d].killed \/ c \in killed)
  <2>1. pc[c] \in Using /\ Creating(c) /\ ~ Borrowing(c) /\ ~ Counting(c) /\ Finding(c)
    BY <1>8 DEF Using, ClientPc, Creating, Borrowing, Counting, Finding, FindPc
  <2>2. d \in Handler  BY <1>1, <2>1 DEF ClientRight
  <2>. QED  BY <1>1, <2>1, <2>2, Room DEF ClientRight, IInv, TypeOK
<1>9. CASE OpenWoken(c)
  <2>1. /\ pc[c] = "open_wait" /\ UNCHANGED <<owner, di, listed, cvars, fvars>>
        /\ \/ Goto(c, "opened") /\ UNCHANGED asleep
              /\ (di[d].killed \/ di[d].table \/ c \in killed)
           \/ asleep' = asleep \cup {c} /\ UNCHANGED pc
    BY <1>9 DEF OpenWoken
  <2>2. PICK p \in {"open_wait", "opened"} :
           /\ Goto(c, p) \/ (UNCHANGED pc /\ p = pc[c])
           /\ p = "opened" => di[d].killed \/ di[d].table \/ c \in killed
    BY <2>1
  <2>3. pc'[c] = p /\ \A e \in Handler : pc'[e] = pc[e]
    BY <2>2, ClientIs DEF ClientPc
  <2>4. Creating(c)' /\ ~ Borrowing(c)' /\ ~ Counting(c)' /\ Finding(c)'
    BY <2>3 DEF Creating, Borrowing, Counting, Finding, FindPc
  <2>5. ClientRight(c)'
    BY <1>8, <2>1, <2>2, <2>3, <2>4 DEF ClientRight, cvars
  <2>6. ClientMoves(c, d)
    <3>1. p \in ClientPc /\ asleep' \subseteq Thread
      BY <1>1, <2>1 DEF ClientPc
    <3>2. /\ di[d].locks_in_memory = di[d].locks_in_memory + One(Finding(c)') - One(Finding(c))
          /\ di[d].tables_in_use = di[d].tables_in_use + One(Counting(c)') - One(Counting(c))
      BY <1>8, <2>1, <2>4 DEF One
    <3>. QED
      BY <1>1, <1>8, <2>1, <2>2, <2>5, <3>1, <3>2, ClientGoes DEF TypeOK, Right, cvars
  <2>. QED  BY <1>8, <2>1, <2>6
<1>10. CASE Opened(c)
  <2>1. /\ pc[c] = "opened"
        /\ UNCHANGED <<asleep, di, listed, ref, left, statements, killed, fvars>>
    BY <1>10 DEF Opened
  <2>2. CASE di[d].killed \/ c \in killed
    <3>1. /\ next' = [next EXCEPT ![c] = "idle"] /\ Goto(c, "unlock") /\ UNCHANGED owner
      BY <1>10, <2>2 DEF Opened
    <3>2. /\ pc'[c] = "unlock" /\ \A e \in Handler : pc'[e] = pc[e]
      BY <3>1, ClientIs DEF ClientPc
    <3>3. /\ next' \in [Client -> {"idle", "insert", "fatal_error"}] /\ next'[c] = "idle"
          /\ \A x \in Client \ {c} : next'[x] = next[x]
      BY <1>1, <3>1 DEF TypeOK
    <3>4. Creating(c)' /\ ~ Borrowing(c)' /\ ~ Counting(c)' /\ Finding(c)'
      BY <3>2, <3>3 DEF Creating, Borrowing, Counting, Finding, FindPc
    <3>5. ClientRight(c)'
      BY <1>8, <2>1, <3>1, <3>2, <3>3, <3>4 DEF ClientRight
    <3>6. ClientMoves(c, d)
      BY <1>1, <1>8, <2>1, <3>1, <3>3, <3>4, <3>5, ClientGoes
         DEF TypeOK, ClientPc, Right, One
    <3>. QED  BY <1>8, <2>1, <3>6
  <2>3. CASE ~ (di[d].killed \/ c \in killed)
    <3>1. /\ owner' = [owner EXCEPT !["LOCK_delayed_create"] = Nobody]
          /\ Goto(c, "get_table") /\ UNCHANGED next
      BY <1>10, <2>3 DEF Opened, Unlock
    <3>2. /\ pc'[c] = "get_table" /\ \A e \in Handler : pc'[e] = pc[e]
      BY <3>1, ClientIs DEF ClientPc
    <3>3. /\ owner' \in [Mutex -> Thread \cup {Nobody}]
          /\ \A m \in {"LOCK_delayed_insert", "LOCK_delayed_create"} :
                owner[m] \notin {c, Nobody} => owner'[m] = owner[m]
      <4>1. /\ owner' \in [Mutex -> Thread \cup {Nobody}]
            /\ owner'["LOCK_delayed_insert"] = owner["LOCK_delayed_insert"]
        BY <1>1, <3>1, OwnerIs
      <4>. QED  BY <1>8, <2>1, <4>1
    <3>4. ~ Creating(c)' /\ ~ Borrowing(c)' /\ ~ Counting(c)' /\ Finding(c)'
      BY <3>2 DEF Creating, Borrowing, Counting, Finding, FindPc
    <3>5. ClientRight(c)'
      BY <1>8, <2>1, <2>3, <3>1, <3>2, <3>4 DEF ClientRight
    <3>6. /\ di[d].locks_in_memory = di[d].locks_in_memory + One(Finding(c)') - One(Finding(c))
          /\ di[d].tables_in_use = di[d].tables_in_use + One(Counting(c)') - One(Counting(c))
      BY <1>8, <2>1, <3>4 DEF One
    <3>7. ClientMoves(c, d)
      BY <1>1, <1>8, <2>1, <3>1, <3>3, <3>5, <3>6, ClientGoes DEF TypeOK, ClientPc, Right
    <3>. QED  BY <1>8, <2>1, <3>7
  <2>. QED  BY <2>2, <2>3
<1>. QED  BY <1>2, <1>3, <1>4, <1>5, <1>6, <1>7, <1>9, <1>10

(* The handler of a client that has found it. *)
LEMMA InUse ==
  ASSUME IInv, NEW c \in Client, pc[c] \in Using
  PROVE  /\ ref[c] \in Handler /\ di[ref[c]] \in Object /\ pc[ref[c]] # "none"
         /\ Right(ref[c]) /\ ClientRight(c)
         /\ di[ref[c]].locks_in_memory \in Nat /\ di[ref[c]].tables_in_use \in Nat
         /\ ref[c] \in Thread /\ ref[c] # c
         /\ Finding(c) => di[ref[c]].locks_in_memory > 0
         /\ Counting(c) => di[ref[c]].tables_in_use > 0
         /\ pc[c] \in {"get_table", "lock_wait", "insert", "queue_wait", "end"} =>
              di[ref[c]].table /\ pc[ref[c]] # "end"
<1>1. /\ TypeOK /\ ClientRight(c) /\ ref[c] \in Handler /\ pc[ref[c]] # "none"
  BY DEF IInv, ClientRight
<1>2. /\ Right(ref[c]) /\ di[ref[c]] \in Object /\ ref[c] \in Thread /\ ref[c] # c
  BY <1>1, Apart DEF IInv, TypeOK
<1>3. /\ di[ref[c]].locks_in_memory \in Nat /\ di[ref[c]].tables_in_use \in Nat
      /\ Finding(c) => di[ref[c]].locks_in_memory > 0
      /\ Counting(c) => di[ref[c]].tables_in_use > 0
  BY <1>1, Room
<1>4. ASSUME pc[c] \in {"get_table", "lock_wait", "insert", "queue_wait", "end"}
      PROVE  di[ref[c]].table /\ pc[ref[c]] # "end"
  <2>1. ~ Creating(c) /\ pc[c] # "unlock_last"  BY <1>4 DEF Creating
  <2>2. di[ref[c]].table  BY <1>1, <2>1 DEF ClientRight
  <2>3. Finding(c) \/ Counting(c)  BY <1>4 DEF Finding, FindPc, Counting, Borrowing
  <2>. QED  BY <1>2, <1>3, <2>2, <2>3 DEF Right, HandlerRight
<1>. QED  BY <1>1, <1>2, <1>3, <1>4

(* A client goes on with its handler d: it stays at it, and at p. *)
LEMMA ClientGoesOn ==
  ASSUME IInv, NEW c \in Client, pc[c] \in Using, NEW p \in ClientPc, p \in Using,
         NEW r \in Object,
         Goto(c, p) \/ (UNCHANGED pc /\ p = pc[c]),
         Set(ref[c], r) \/ (UNCHANGED di /\ r = di[ref[c]]),
         UNCHANGED <<listed, killed, ref, statements, fvars>>, asleep' \subseteq Thread,
         next' \in [Client -> {"idle", "insert", "fatal_error"}],
         left' \in [Client -> 0 .. RowsPer],
         \A x \in Client \ {c} : next'[x] = next[x] /\ left'[x] = left[x],
         UNCHANGED owner,
         r.table = di[ref[c]].table, r.lock = di[ref[c]].lock, r.killed = di[ref[c]].killed,
         HandlerRight(pc[ref[c]], r, ref[c] \in listed),
         r.locks_in_memory = di[ref[c]].locks_in_memory + One(Finding(c)') - One(Finding(c)),
         r.tables_in_use = di[ref[c]].tables_in_use + One(Counting(c)') - One(Counting(c)),
         ~ r.table => Creating(c)',
         Borrowing(c)' => r.lock,
         p \notin {"opened", "unlock_last"},
         p = "queue_wait" => left'[c] > 0,
         Creating(c)' => Creating(c)
  PROVE  ClientMoves(c, ref[c])
<1> DEFINE d == ref[c]
<1>1. /\ TypeOK /\ d \in Handler /\ ClientRight(c) /\ pc[d] # "none"
  BY InUse DEF IInv
<1>2. pc'[c] = p /\ \A e \in Handler : pc'[e] = pc[e]
  BY ClientIs
<1>3. di'[d] = r  BY <1>1, SetIs
<1>4. ClientRight(c)'
  <2>1. p \notin {"idle", "create_lock", "create"}  BY DEF Using
  <2>. QED  BY <1>1, <1>2, <1>3, <2>1 DEF ClientRight
<1> HIDE DEF d
<1>5. \A m \in {"LOCK_delayed_insert", "LOCK_delayed_create"} : owner'[m] = owner[m]
  OBVIOUS
<1>. QED  BY <1>1, <1>4, <1>5, ClientGoes DEF d, TypeOK

(* The end of delayed_insert::unlock(). *)
LEMMA UnlockEnds ==
  ASSUME IInv, NEW c \in Client, pc[c] \in {"unlock", "unlock_last"}, NEW r \in Object,
         After(c), owner' = ReleaseAfter(c), asleep' \subseteq Thread,
         UNCHANGED <<listed, next, statements, killed, fvars>>,
         Set(ref[c], r) \/ (UNCHANGED di /\ r = di[ref[c]]),
         owner["LOCK_delayed_insert"] \in {Nobody, c},
         r.table = di[ref[c]].table, r.lock = di[ref[c]].lock, r.killed = di[ref[c]].killed,
         HandlerRight(pc[ref[c]], r, ref[c] \in listed),
         r.locks_in_memory = di[ref[c]].locks_in_memory - One(Finding(c)),
         r.tables_in_use = di[ref[c]].tables_in_use
  PROVE  ClientMoves(c, ref[c])
<1> DEFINE d == ref[c]
<1>0. pc[c] \in Using  BY DEF Using, ClientPc
<1>1. /\ TypeOK /\ d \in Handler /\ ClientRight(c) /\ pc[d] # "none" /\ Right(d)
      /\ di[d].tables_in_use \in Nat /\ di[d].locks_in_memory \in Nat
      /\ Nobody \in Thread \cup {Nobody} /\ RowsPer \in Nat
      /\ {"LOCK_delayed_insert", "LOCK_delayed_create"} \subseteq Mutex
  BY <1>0, InUse, HandlerAssumption DEF IInv, Mutex
<1>2. next[c] \in {"idle", "insert", "fatal_error"} /\ next[c] \in ClientPc
  BY <1>1 DEF TypeOK, ClientPc
<1>3. pc'[c] = next[c] /\ \A e \in Handler : pc'[e] = pc[e]
  BY <1>2, ClientIs DEF After
<1>4. di'[d] = r  BY <1>1, SetIs
<1>5. /\ ref' \in [Client -> Handler \cup {Nobody}]
      /\ left' \in [Client -> 0 .. RowsPer]
      /\ \A x \in Client \ {c} : ref'[x] = ref[x] /\ left'[x] = left[x]
      /\ next[c] = "insert" => ref'[c] = d
      /\ next[c] = "idle" => ref'[c] = Nobody
  BY <1>1 DEF After, TypeOK
<1>6. /\ owner' \in [Mutex -> Thread \cup {Nobody}]
      /\ \A m \in {"LOCK_delayed_insert", "LOCK_delayed_create"} :
            owner[m] \notin {c, Nobody} => owner'[m] = owner[m]
  BY <1>1 DEF ReleaseAfter, Holds, TypeOK
<1>7. /\ Counting(c)' <=> Counting(c)
      /\ ~ Finding(c)' /\ ~ Creating(c)'
      /\ Borrowing(c)' => Borrowing(c)
  BY <1>2, <1>3 DEF Counting, Borrowing, Finding, FindPc, Creating
<1>8. ASSUME next[c] = "insert" PROVE r.table /\ r.lock
  <2>1. Borrowing(c)  BY <1>8 DEF Borrowing
  <2>. QED  BY <1>0, <1>1, <2>1 DEF ClientRight, Right, HandlerRight
<1>9. ClientRight(c)'
  BY <1>1, <1>2, <1>3, <1>4, <1>5, <1>7, <1>8 DEF ClientRight, Using
<1>10. /\ r.locks_in_memory = di[d].locks_in_memory + One(Finding(c)') - One(Finding(c))
       /\ r.tables_in_use = di[d].tables_in_use + One(Counting(c)') - One(Counting(c))
  BY <1>1, <1>7 DEF One
<1>11. next[c] \in Using => ref'[c] = d
  BY <1>2, <1>5 DEF Using
<1> HIDE DEF d
<1>. QED
  BY <1>1, <1>2, <1>5, <1>6, <1>9, <1>10, <1>11, ClientGoes DEF d, After, TypeOK

(* delayed_insert::unlock(). *)
LEMMA UnlockSteps ==
  ASSUME IInv, NEW c \in Client, unlock(c) \/ unlock_last(c)
  PROVE  \E d \in Handler \cup {Nobody} : ClientMoves(c, d)
<1> DEFINE d == ref[c]
<1>1. pc[c] \in {"unlock", "unlock_last"} /\ pc[c] \in Using /\ TypeOK
  BY DEF unlock, unlock_last, Using, ClientPc, IInv
<1>2. /\ d \in Handler /\ di[d] \in Object /\ pc[d] # "none" /\ Right(d) /\ ClientRight(c)
      /\ di[d].tables_in_use \in Nat /\ di[d].locks_in_memory \in Nat
      /\ Finding(c) => di[d].locks_in_memory > 0
      /\ c \in Thread /\ asleep \subseteq Thread
      /\ {"LOCK_delayed_insert", "LOCK_delayed_create"} \subseteq Mutex
  BY <1>1, InUse, Apart DEF TypeOK, Mutex
<1>3. CASE unlock(c)
  <2> DEFINE r == [di[d] EXCEPT !.locks_in_memory = @ - 1]
  <2>1. /\ pc[c] = "unlock" /\ owner["LOCK_delayed_insert"] = Nobody /\ Finding(c)
        /\ UNCHANGED <<asleep, listed, next, statements, killed, fvars>>
        /\ Set(d, r)
    BY <1>3 DEF unlock, Free, Finding, FindPc
  <2>2. /\ r \in Object /\ r.locks_in_memory = di[d].locks_in_memory - 1
        /\ r.tables_in_use = di[d].tables_in_use /\ r.unlisted_locks = di[d].unlisted_locks
        /\ r.stacked_inserts = di[d].stacked_inserts /\ r.rows = di[d].rows
        /\ r.table = di[d].table /\ r.lock = di[d].lock /\ r.dead = di[d].dead
        /\ r.killed = di[d].killed
    <3>1. di[d].locks_in_memory - 1 \in 0 .. Cardinality(Client)  BY <1>2, <2>1, Room
    <3>. QED  BY <1>2, <3>1 DEF Object
  <2> HIDE DEF r
  <2>3. HandlerRight(pc[d], r, d \in listed)
    <3>1. di[d].unlisted_locks \in Nat  BY <1>2, Apart DEF Object
    <3>. QED  BY <1>2, <2>1, <2>2, <3>1 DEF Right, HandlerRight
  <2>4. CASE di[d].locks_in_memory = 1
    <3>1. /\ Goto(c, "unlock_last") /\ UNCHANGED <<ref, left>>
          /\ owner' = [owner EXCEPT !["LOCK_delayed_insert"] = c]
      BY <1>3, <2>4 DEF unlock, Lock
    <3>2. /\ owner' \in [Mutex -> Thread \cup {Nobody}]
          /\ owner'["LOCK_delayed_insert"] = c
          /\ owner'["LOCK_delayed_create"] = owner["LOCK_delayed_create"]
      BY <1>1, <1>2, <3>1, OwnerIs
    <3>3. pc'[c] = "unlock_last" /\ \A e \in Handler : pc'[e] = pc[e]
      BY <3>1, ClientIs DEF ClientPc
    <3>4. di'[d] = r  BY <1>1, <1>2, <2>1, <2>2, SetIs
    <3>5. /\ Counting(c)' <=> Counting(c)
          /\ ~ Finding(c)' /\ (Creating(c)' <=> Creating(c)) /\ (Borrowing(c)' <=> Borrowing(c))
      BY <2>1, <3>3 DEF Counting, Borrowing, Finding, FindPc, Creating
    <3>6. next[c] \in {"idle", "insert", "fatal_error"}  BY <1>1 DEF TypeOK
    <3>7. ClientRight(c)'
      <4>1. ~ r.table => Creating(c)  BY <1>1, <1>2, <2>1, <2>2 DEF ClientRight
      <4>2. Creating(c) => next[c] # "insert"  BY <2>1 DEF Creating
      <4>. QED
        BY <1>1, <1>2, <2>1, <2>2, <3>1, <3>2, <3>3, <3>4, <3>5, <4>1, <4>2 DEF ClientRight
    <3>8. /\ r.locks_in_memory = di[d].locks_in_memory + One(Finding(c)') - One(Finding(c))
          /\ r.tables_in_use = di[d].tables_in_use + One(Counting(c)') - One(Counting(c))
      BY <1>2, <2>1, <2>2, <3>5 DEF One
    <3>9. ClientMoves(c, d)
      BY <1>1, <1>2, <2>1, <2>2, <2>3, <3>1, <3>2, <3>7, <3>8, ClientGoes DEF TypeOK, ClientPc
    <3>. QED  BY <1>2, <3>9
  <2>5. CASE di[d].locks_in_memory # 1
    <3>1. After(c) /\ owner' = ReleaseAfter(c)
      BY <1>3, <2>5 DEF unlock
    <3>2. /\ r.locks_in_memory = di[d].locks_in_memory - One(Finding(c))
      BY <2>1, <2>2 DEF One
    <3>3. ClientMoves(c, d)
      BY <1>1, <1>2, <2>1, <2>2, <2>3, <3>1, <3>2, UnlockEnds
    <3>. QED  BY <1>2, <3>3
  <2>. QED  BY <2>4, <2>5
<1>4. CASE unlock_last(c)
  <2>1. /\ pc[c] = "unlock_last" /\ owner["LOCK_delayed_insert"] = c /\ ~ Finding(c)
        /\ UNCHANGED <<listed, next, statements, killed, fvars>>
        /\ After(c) /\ owner' = ReleaseAfter(c) /\ asleep' \subseteq Thread
        /\ Set(d, [di[d] EXCEPT !.status = TRUE]) \/ UNCHANGED di
    BY <1>2, <1>4 DEF unlock_last, Finding, FindPc, ClientRight, SignalHandler
  <2>2. /\ [di[d] EXCEPT !.status = TRUE] \in Object
        /\ Like([di[d] EXCEPT !.status = TRUE], di[d])
        /\ [di[d] EXCEPT !.status = TRUE].dead = di[d].dead
        /\ [di[d] EXCEPT !.status = TRUE].killed = di[d].killed
    BY <1>2 DEF Object, Like
  <2>3. PICK r \in Object : /\ Set(d, r) \/ (UNCHANGED di /\ r = di[d])
                            /\ Like(r, di[d]) /\ r.dead = di[d].dead /\ r.killed = di[d].killed
    <3>1. Like(di[d], di[d])  BY DEF Like
    <3>. QED  BY <1>2, <2>1, <2>2, <3>1
  <2>4. HandlerRight(pc[d], r, d \in listed)
    BY <1>2, <2>3 DEF Right, HandlerRight, Like
  <2>5. r.locks_in_memory = di[d].locks_in_memory - One(Finding(c))
    BY <1>2, <2>1, <2>3 DEF Like, One
  <2>6. ClientMoves(c, d)
    BY <1>1, <2>1, <2>3, <2>4, <2>5, UnlockEnds DEF Like
  <2>. QED  BY <1>2, <2>6
<1>. QED  BY <1>3, <1>4

(* delayed_insert::get_local_table(). *)
LEMMA GetTableSteps ==
  ASSUME IInv, NEW c \in Client, get_local_table(c) \/ LockWoken(c)
  PROVE  ClientMoves(c, ref[c])
<1> DEFINE d == ref[c]
           o == di[d]
           up == [o EXCEPT !.status = TRUE, !.tables_in_use = @ + 1]
<1>1. /\ pc[c] \in {"get_table", "lock_wait"} /\ pc[c] \in Using /\ TypeOK
      /\ UNCHANGED <<owner, listed, ref, left, statements, killed, fvars>>
  BY DEF get_local_table, LockWoken, Using, ClientPc, IInv
<1>2. /\ d \in Handler /\ o \in Object /\ pc[d] # "none" /\ Right(d) /\ ClientRight(c)
      /\ o.tables_in_use \in Nat /\ o.locks_in_memory \in Nat
      /\ o.table /\ pc[d] # "end"
      /\ c \in Thread /\ d \in Thread /\ asleep \subseteq Thread
      /\ Finding(c) /\ (Counting(c) <=> pc[c] = "lock_wait") /\ ~ Creating(c)
  BY <1>1, InUse, Apart DEF TypeOK, Finding, FindPc, Counting, Borrowing, Creating
<1>3. ASSUME NEW p \in {"unlock", "lock_wait"}, NEW r \in Object,
             Goto(c, p) \/ (UNCHANGED pc /\ p = pc[c]),
             Set(d, r) \/ (UNCHANGED di /\ r = o), asleep' \subseteq Thread,
             next' \in [Client -> {"idle", "insert", "fatal_error"}],
             \A x \in Client \ {c} : next'[x] = next[x],
             r.table = o.table, r.lock = o.lock, r.killed = o.killed, r.dead = o.dead,
             r.stacked_inserts = o.stacked_inserts, r.rows = o.rows,
             r.unlisted_locks = o.unlisted_locks, r.locks_in_memory = o.locks_in_memory,
             p = "unlock" => next'[c] # "idle",
             p = "unlock" /\ next'[c] = "insert" => r.lock,
             r.tables_in_use = o.tables_in_use
                 + One(p = "lock_wait" \/ next'[c] = "insert") - One(Counting(c))
      PROVE  ClientMoves(c, d)
  <2>1. HandlerRight(pc[d], r, d \in listed)
    BY <1>2, <1>3 DEF Right, HandlerRight
  <2>2. pc'[c] = p /\ p \in ClientPc /\ p \in Using
    BY <1>3, ClientIs DEF ClientPc, Using
  <2>3. /\ Finding(c)' /\ ~ Creating(c)' /\ (Borrowing(c)' => r.lock)
        /\ Counting(c)' <=> p = "lock_wait" \/ next'[c] = "insert"
    BY <1>3, <2>2 DEF Finding, FindPc, Creating, Borrowing, Counting
  <2>4. r.locks_in_memory = o.locks_in_memory + One(Finding(c)') - One(Finding(c))
    BY <1>2, <1>3, <2>3 DEF One
  <2>5. r.tables_in_use = o.tables_in_use + One(Counting(c)') - One(Counting(c))
    BY <1>3, <2>3 DEF One
  <2>6. /\ left' \in [Client -> 0 .. RowsPer] /\ \A x \in Client \ {c} : left'[x] = left[x]
    BY <1>1 DEF TypeOK
  <2>. QED
    BY <1>1, <1>2, <1>3, <2>1, <2>2, <2>3, <2>4, <2>5, <2>6, ClientGoesOn
<1>4. ASSUME NEW v \in {"insert", "fatal_error"}, next' = [next EXCEPT ![c] = v]
      PROVE  /\ next' \in [Client -> {"idle", "insert", "fatal_error"}]
             /\ next'[c] = v /\ \A x \in Client \ {c} : next'[x] = next[x]
  BY <1>1, <1>4 DEF TypeOK
<1>5. ASSUME pc[c] = "get_table"
      PROVE  /\ up \in Object /\ up.tables_in_use = o.tables_in_use + 1
             /\ up.table = o.table /\ up.lock = o.lock /\ up.killed = o.killed
             /\ up.dead = o.dead /\ up.stacked_inserts = o.stacked_inserts
             /\ up.rows = o.rows /\ up.unlisted_locks = o.unlisted_locks
             /\ up.locks_in_memory = o.locks_in_memory
  <2>1. o.tables_in_use + 1 \in 0 .. Cardinality(Client)  BY <1>2, <1>5, Room
  <2>. QED  BY <1>2, <2>1 DEF Object
<1>6. ASSUME NEW r \in {o, up}, GetFails(c, d, r),
             r = up <=> pc[c] = "get_table"
      PROVE  ClientMoves(c, d)
  <2> DEFINE s == [r EXCEPT !.tables_in_use = @ - 1, !.status = TRUE]
  <2>1. /\ Set(d, s) /\ Goto(c, "unlock") /\ asleep' \subseteq Thread
        /\ next' = [next EXCEPT ![c] = "fatal_error"]
    BY <1>2, <1>6 DEF GetFails, SignalHandler
  <2>2. /\ r \in Object /\ r.tables_in_use - 1 = o.tables_in_use - One(Counting(c))
        /\ r.table = o.table /\ r.lock = o.lock /\ r.killed = o.killed
        /\ r.dead = o.dead /\ r.stacked_inserts = o.stacked_inserts
        /\ r.rows = o.rows /\ r.unlisted_locks = o.unlisted_locks
        /\ r.locks_in_memory = o.locks_in_memory
    <3>1. CASE pc[c] = "get_table"
      <4>1. r = up  BY <1>6, <3>1
      <4>2. One(Counting(c)) = 0  BY <1>2, <3>1 DEF One
      <4> HIDE DEF up, o
      <4>3. /\ r \in Object /\ r.tables_in_use = o.tables_in_use + 1 /\ o.tables_in_use \in Nat
            /\ r.table = o.table /\ r.lock = o.lock /\ r.killed = o.killed
            /\ r.dead = o.dead /\ r.stacked_inserts = o.stacked_inserts
            /\ r.rows = o.rows /\ r.unlisted_locks = o.unlisted_locks
            /\ r.locks_in_memory = o.locks_in_memory
        BY <1>2, <1>5, <3>1, <4>1
      <4>. QED  BY <4>2, <4>3
    <3>2. CASE pc[c] = "lock_wait"
      <4>1. r = o  BY <1>6, <3>2
      <4>. QED  BY <1>2, <3>2, <4>1 DEF One
    <3>. QED  BY <1>1, <3>1, <3>2
  <2>3. o.tables_in_use - One(Counting(c)) \in 0 .. Cardinality(Client)
    BY <1>2, Room DEF One, Object
  <2>4. /\ s \in Object /\ s.tables_in_use = r.tables_in_use - 1
        /\ s.table = o.table /\ s.lock = o.lock /\ s.killed = o.killed
        /\ s.dead = o.dead /\ s.stacked_inserts = o.stacked_inserts
        /\ s.rows = o.rows /\ s.unlisted_locks = o.unlisted_locks
        /\ s.locks_in_memory = o.locks_in_memory
    <3> HIDE DEF o, up
    <3>. QED  BY <2>2, <2>3 DEF Object
  <2> HIDE DEF s
  <2>5. s.tables_in_use = o.tables_in_use
                 + One("unlock" = "lock_wait" \/ next'[c] = "insert") - One(Counting(c))
    BY <1>2, <1>4, <2>1, <2>2, <2>4 DEF One
  <2>. QED  BY <1>3, <1>4, <2>1, <2>4, <2>5
<1>7. CASE get_local_table(c)
  <2>1. pc[c] = "get_table"  BY <1>7 DEF get_local_table
  <2>2. CASE up.lock /\ Set(d, up) /\ GotTable(c) /\ UNCHANGED asleep
    <3>1. /\ Goto(c, "unlock") /\ Set(d, up) /\ next' = [next EXCEPT ![c] = "insert"]
          /\ up.lock /\ asleep' \subseteq Thread
      BY <1>2, <2>2 DEF GotTable
    <3> HIDE DEF up
    <3>2. up.tables_in_use = o.tables_in_use
                 + One("unlock" = "lock_wait" \/ next'[c] = "insert") - One(Counting(c))
      BY <1>2, <1>4, <1>5, <2>1, <3>1 DEF One
    <3>. QED  BY <1>3, <1>4, <1>5, <2>1, <3>1, <3>2
  <2>3. CASE GetFails(c, d, up)
    BY <1>6, <2>1, <2>3
  <2>4. CASE /\ Set(d, up) /\ Goto(c, "lock_wait") /\ UNCHANGED next
             /\ asleep' = (IF pc[d] = "sleep" THEN asleep \ {d} ELSE asleep) \cup {c}
    <3> HIDE DEF up
    <3>1. up.tables_in_use = o.tables_in_use
                 + One("lock_wait" = "lock_wait" \/ next'[c] = "insert") - One(Counting(c))
      BY <1>2, <1>5, <2>1 DEF One
    <3>2. asleep' \subseteq Thread /\ next' \in [Client -> {"idle", "insert", "fatal_error"}]
          /\ \A x \in Client \ {c} : next'[x] = next[x]
      BY <1>1, <1>2, <2>4 DEF TypeOK
    <3>. QED  BY <1>3, <1>5, <2>1, <2>4, <3>1, <3>2
  <2>. QED  BY <1>7, <2>2, <2>3, <2>4 DEF get_local_table
<1>8. CASE LockWoken(c)
  <2>1. pc[c] = "lock_wait"  BY <1>8 DEF LockWoken
  <2>2. CASE GetFails(c, d, o)
    <3>1. o # up
      <4>1. o.tables_in_use # o.tables_in_use + 1  BY <1>2
      <4>2. up.tables_in_use = o.tables_in_use + 1  BY <1>2 DEF Object
      <4>. QED  BY <4>1, <4>2
    <3>. QED  BY <1>6, <2>1, <2>2, <3>1
  <2>3. CASE o.lock /\ GotTable(c) /\ UNCHANGED <<asleep, di>>
    <3>1. Goto(c, "unlock") /\ next' = [next EXCEPT ![c] = "insert"]
      BY <2>3 DEF GotTable
    <3>2. o.tables_in_use = o.tables_in_use
                 + One("unlock" = "lock_wait" \/ next'[c] = "insert") - One(Counting(c))
      BY <1>2, <1>4, <2>1, <3>1 DEF One
    <3>. QED  BY <1>2, <1>3, <1>4, <2>3, <3>1, <3>2
  <2>4. CASE asleep' = asleep \cup {c} /\ UNCHANGED <<pc, di, next>>
    <3>1. o.tables_in_use = o.tables_in_use
                 + One("lock_wait" = "lock_wait" \/ next'[c] = "insert") - One(Counting(c))
      BY <1>2, <2>1 DEF One
    <3>2. asleep' \subseteq Thread /\ next' \in [Client -> {"idle", "insert", "fatal_error"}]
          /\ \A x \in Client \ {c} : next'[x] = next[x]
      BY <1>1, <1>2, <2>4 DEF TypeOK
    <3>. QED  BY <1>2, <1>3, <2>1, <2>4, <3>1, <3>2
  <2>. QED  BY <1>8, <2>2, <2>3, <2>4 DEF LockWoken
<1>. QED  BY <1>7, <1>8

(* write_delayed() and end_delayed_insert(). *)
LEMMA InsertSteps ==
  ASSUME IInv, NEW c \in Client, write_delayed(c) \/ end_delayed_insert(c)
  PROVE  ClientMoves(c, ref[c])
<1> DEFINE d == ref[c]
           o == di[d]
<1>1. /\ pc[c] \in {"insert", "queue_wait", "end"} /\ pc[c] \in Using /\ TypeOK
      /\ UNCHANGED <<owner, listed, next, statements, killed, fvars>>
  BY DEF write_delayed, end_delayed_insert, Using, ClientPc, IInv
<1>2. /\ d \in Handler /\ o \in Object /\ pc[d] # "none" /\ Right(d) /\ ClientRight(c)
      /\ o.tables_in_use \in Nat /\ o.locks_in_memory \in Nat
      /\ o.table /\ pc[d] # "end" /\ o.lock
      /\ c \in Thread /\ d \in Thread /\ asleep \subseteq Thread
      /\ ~ Finding(c) /\ Counting(c) /\ ~ Creating(c) /\ Borrowing(c)
  <2>1. ~ Finding(c) /\ Counting(c) /\ ~ Creating(c) /\ Borrowing(c)
    BY <1>1 DEF Finding, FindPc, Counting, Borrowing, Creating
  <2>. QED  BY <1>1, <2>1, InUse, Apart DEF TypeOK, ClientRight
<1>3. QueueSize \in Nat \ {0} /\ MaxUint \in Nat /\ MaxUint > QueueSize
      /\ RowsPer \in Nat \ {0} /\ Nobody \notin Handler
  BY Apart, HandlerAssumption
<1>4. CASE write_delayed(c)
  <2>1. /\ (pc[c] = "insert" /\ left[c] > 0) \/ pc[c] = "queue_wait"
        /\ UNCHANGED ref
    BY <1>4 DEF write_delayed
  <2>2. left[c] \in 1 .. RowsPer
    BY <1>1, <1>2, <1>3, <2>1 DEF ClientRight, TypeOK
  <2>3. ASSUME NEW p \in {"insert", "queue_wait", "end"}, Goto(c, p), NEW r \in Object,
               Set(d, r) \/ (UNCHANGED di /\ r = o), asleep' \subseteq Thread,
               left' \in [Client -> 0 .. RowsPer],
               \A x \in Client \ {c} : left'[x] = left[x],
               p = "queue_wait" => left'[c] > 0,
               HandlerRight(pc[d], r, d \in listed),
               r.table = o.table, r.lock = o.lock, r.killed = o.killed,
               r.locks_in_memory = o.locks_in_memory, r.tables_in_use = o.tables_in_use
        PROVE  ClientMoves(c, d)
    <3>1. pc'[c] = p /\ p \in ClientPc /\ p \in Using
      BY <2>3, ClientIs DEF ClientPc, Using
    <3>2. ~ Finding(c)' /\ Counting(c)' /\ ~ Creating(c)'
      BY <3>1 DEF Finding, FindPc, Counting, Borrowing, Creating
    <3>3. /\ r.locks_in_memory = o.locks_in_memory + One(Finding(c)') - One(Finding(c))
          /\ r.tables_in_use = o.tables_in_use + One(Counting(c)') - One(Counting(c))
      BY <1>2, <2>3, <3>2 DEF One
    <3>4. /\ next' \in [Client -> {"idle", "insert", "fatal_error"}]
          /\ \A x \in Client \ {c} : next'[x] = next[x]
      BY <1>1 DEF TypeOK
    <3>. QED
      BY <1>1, <1>2, <2>1, <2>3, <3>1, <3>2, <3>3, <3>4, ClientGoesOn
  <2>4. HandlerRight(pc[d], o, d \in listed)  BY <1>2 DEF Right
  <2>5. CASE Goto(c, "end") /\ UNCHANGED <<asleep, di, left>>
    BY <1>1, <1>2, <2>3, <2>4, <2>5 DEF TypeOK
  <2>6. CASE Goto(c, "queue_wait") /\ asleep' = asleep \cup {c} /\ UNCHANGED <<di, left>>
    <3>1. asleep' \subseteq Thread  BY <1>2, <2>6
    <3>2. left[c] > 0  BY <1>3, <2>2
    <3>. QED  BY <1>1, <1>2, <2>3, <2>4, <2>6, <3>1, <3>2 DEF TypeOK
  <2>7. CASE /\ o.stacked_inserts < QueueSize
             /\ Set(d, [o EXCEPT !.rows = @ + 1, !.stacked_inserts = @ + 1, !.status = TRUE])
             /\ SignalHandler(d)
             /\ left' = [left EXCEPT ![c] = @ - 1]
             /\ Goto(c, IF left[c] = 1 THEN "end" ELSE "insert")
    <3> DEFINE r == [o EXCEPT !.rows = @ + 1, !.stacked_inserts = @ + 1, !.status = TRUE]
    <3>1. /\ o.rows \in Nat /\ o.stacked_inserts \in 0 .. MaxUint
          /\ o.rows + 1 \in Nat /\ o.stacked_inserts + 1 \in 0 .. MaxUint
      BY <1>2, <1>3, <2>7 DEF Object
    <3>2. /\ r \in Object /\ r.rows = o.rows + 1 /\ r.stacked_inserts = o.stacked_inserts + 1
          /\ r.table = o.table /\ r.lock = o.lock /\ r.killed = o.killed /\ r.dead = o.dead
          /\ r.locks_in_memory = o.locks_in_memory /\ r.tables_in_use = o.tables_in_use
          /\ r.unlisted_locks = o.unlisted_locks
      <4> HIDE DEF o
      <4>. QED  BY <1>2, <3>1 DEF Object
    <3>3. Set(d, r)  BY <2>7
    <3> HIDE DEF r
    <3>4. HandlerRight(pc[d], r, d \in listed)
      BY <1>2, <3>1, <3>2 DEF Right, HandlerRight
    <3>5. asleep' \subseteq Thread  BY <1>2, <2>7 DEF SignalHandler
    <3>6. /\ left' \in [Client -> 0 .. RowsPer] /\ \A x \in Client \ {c} : left'[x] = left[x]
      <4>1. left[c] - 1 \in 0 .. RowsPer  BY <1>3, <2>2
      <4>. QED  BY <1>1, <2>7, <4>1 DEF TypeOK
    <3>7. PICK p \in {"insert", "end"} : Goto(c, p)  BY <2>7
    <3>. QED  BY <2>3, <3>2, <3>3, <3>4, <3>5, <3>6, <3>7
  <2>. QED  BY <1>4, <2>5, <2>6, <2>7 DEF write_delayed
<1>5. CASE end_delayed_insert(c)
  <2> DEFINE low == [o EXCEPT !.tables_in_use = @ - 1]
             lit == [low EXCEPT !.status = TRUE]
  <2>1. /\ pc[c] = "end" /\ Goto(c, "idle") /\ asleep' \subseteq Thread
        /\ ref' = [ref EXCEPT ![c] = Nobody] /\ left' = [left EXCEPT ![c] = 0]
        /\ Set(d, low) \/ Set(d, lit)
    BY <1>2, <1>5 DEF end_delayed_insert, SignalHandler
  <2>2. o.tables_in_use - 1 \in 0 .. Cardinality(Client)
    BY <1>2, Room
  <2>3. /\ low \in Object /\ low.tables_in_use = o.tables_in_use - 1
        /\ low.stacked_inserts = o.stacked_inserts /\ low.rows = o.rows
        /\ low.table = o.table /\ low.lock = o.lock /\ low.killed = o.killed
        /\ low.dead = o.dead /\ low.locks_in_memory = o.locks_in_memory
        /\ low.unlisted_locks = o.unlisted_locks
    <3> HIDE DEF o
    <3>. QED  BY <1>2, <2>2 DEF Object
  <2>4. /\ lit \in Object /\ lit.tables_in_use = o.tables_in_use - 1
        /\ lit.stacked_inserts = o.stacked_inserts /\ lit.rows = o.rows
        /\ lit.table = o.table /\ lit.lock = o.lock /\ lit.killed = o.killed
        /\ lit.dead = o.dead /\ lit.locks_in_memory = o.locks_in_memory
        /\ lit.unlisted_locks = o.unlisted_locks
    <3> HIDE DEF low
    <3>. QED  BY <2>3 DEF Object
  <2>5. PICK r \in {low, lit} : Set(d, r)  BY <2>1
  <2>6. /\ r \in Object /\ r.tables_in_use = o.tables_in_use - 1
        /\ r.stacked_inserts = o.stacked_inserts /\ r.rows = o.rows
        /\ r.table = o.table /\ r.lock = o.lock /\ r.killed = o.killed
        /\ r.dead = o.dead /\ r.locks_in_memory = o.locks_in_memory
        /\ r.unlisted_locks = o.unlisted_locks
    <3> HIDE DEF low, lit
    <3>. QED  BY <2>3, <2>4, <2>5
  <2> HIDE DEF low, lit
  <2>7. HandlerRight(pc[d], r, d \in listed)
    BY <1>2, <2>6 DEF Right, HandlerRight
  <2>8. pc'[c] = "idle" /\ "idle" \in ClientPc /\ "idle" \notin Using
    BY <2>1, ClientIs DEF ClientPc, Using
  <2>9. ~ Finding(c)' /\ ~ Counting(c)' /\ ~ Creating(c)'
    BY <2>8 DEF Finding, FindPc, Counting, Borrowing, Creating
  <2>10. /\ r.locks_in_memory = o.locks_in_memory + One(Finding(c)') - One(Finding(c))
         /\ r.tables_in_use = o.tables_in_use + One(Counting(c)') - One(Counting(c))
    BY <1>2, <2>6, <2>9 DEF One
  <2>11. ClientRight(c)'
    <3>1. ref'[c] = Nobody  BY <1>1, <1>3, <2>1 DEF TypeOK
    <3>. QED  BY <2>8, <2>9, <3>1 DEF ClientRight
  <2>12. /\ ref' \in [Client -> Handler \cup {Nobody}] /\ left' \in [Client -> 0 .. RowsPer]
         /\ \A x \in Client \ {c} : ref'[x] = ref[x] /\ left'[x] = left[x]
    BY <1>1, <1>3, <2>1 DEF TypeOK
  <2> HIDE DEF d
  <2>. QED
    BY <1>1, <1>2, <2>1, <2>5, <2>6, <2>7, <2>8, <2>10, <2>11, <2>12, ClientGoes
       DEF d, TypeOK
<1>. QED  BY <1>4, <1>5

(* Every step of a client keeps the invariant. *)
LEMMA ClientStepKeeps ==
  ASSUME IInv, NEW c \in Client, StartStatement(c) \/ ClientStep(c)
  PROVE  IInv'
<1>1. CASE \/ StartStatement(c) \/ LockCreate(c) \/ FindAgain(c) \/ CreateHandler(c)
           \/ CreateFails(c) \/ OpenWoken(c) \/ Opened(c) \/ ReadFatalError(c)
  BY <1>1, GetSteps, ClientKeeps
<1>2. CASE unlock(c) \/ unlock_last(c)
  BY <1>2, UnlockSteps, ClientKeeps
<1>3. CASE get_local_table(c) \/ LockWoken(c) \/ write_delayed(c) \/ end_delayed_insert(c)
  <2>1. pc[c] \in Using
    BY <1>3 DEF get_local_table, LockWoken, write_delayed, end_delayed_insert, Using, ClientPc
  <2>. QED  BY <1>3, <2>1, InUse, GetTableSteps, InsertSteps, ClientKeeps
<1>. QED  BY <1>1, <1>2, <1>3 DEF ClientStep

-----------------------------------------------------------------------------
(* The invariant holds.                                                      *)

(* The invariant holds at first. *)
LEMMA InitRight == Init => IInv
<1> SUFFICES ASSUME Init PROVE IInv  OBVIOUS
<1>1. /\ \A c \in Client : pc[c] = "idle" /\ ref[c] = Nobody
      /\ \A d \in Handler : pc[d] = "none" /\ di[d] = New
      /\ pc[Flusher] = "idle" /\ listed = {}
  BY Apart DEF Init
<1>2. New \in Object
  <2>1. /\ 0 \in 0 .. Cardinality(Client) /\ 0 \in 0 .. MaxUint /\ 0 \in 0 .. InsertLimit
        /\ 0 \in Nat
    BY Apart, HandlerAssumption
  <2>. QED  BY <2>1 DEF New, Object
<1>3. TypeOK
  <2>1. /\ Statements \in 0 .. Statements /\ 0 \in 0 .. RowsPer /\ Flushes \in 0 .. Flushes
    BY HandlerAssumption
  <2>2. pc \in [Thread -> ClientPc \cup HandlerPc \cup FlusherPc]
    BY DEF Init, ClientPc, HandlerPc
  <2>3. /\ "idle" \in ClientPc /\ "none" \in HandlerPc /\ "idle" \in FlusherPc
    BY DEF ClientPc, HandlerPc, FlusherPc
  <2>. QED  BY <1>1, <1>2, <2>1, <2>2, <2>3, Apart DEF Init, TypeOK
<1>4. ASSUME NEW d \in Handler PROVE Right(d)
  BY <1>1 DEF Right, HandlerRight, Inserting, New
<1>5. ASSUME NEW c \in Client PROVE ClientRight(c)
  BY <1>1 DEF ClientRight, Creating, Using
<1>6. Mutexes  BY <1>1 DEF Mutexes
<1>7. ASSUME NEW d \in Handler
      PROVE  /\ di[d].locks_in_memory = Cardinality(Finders(d))
             /\ di[d].tables_in_use = Cardinality(Borrowers(d))
  <2>1. Finders(d) = {} /\ Borrowers(d) = {}
    BY <1>1 DEF Finders, Borrowers, Borrowing
  <2>2. di[d].locks_in_memory = 0 /\ di[d].tables_in_use = 0  BY <1>1 DEF New
  <2>. QED  BY <2>1, <2>2, FS_EmptySet
<1>. QED  BY <1>3, <1>4, <1>5, <1>6, <1>7 DEF IInv, Counted

(* Every step keeps it. *)
LEMMA NextKeeps == IInv /\ [Next]_vars => IInv'
<1> SUFFICES ASSUME IInv, [Next]_vars PROVE IInv'  OBVIOUS
<1>1. CASE UNCHANGED vars
  <2>1. TypeOK'  BY <1>1 DEF IInv, TypeOK, vars, cvars, fvars
  <2>2. \A d \in Handler : Like(di'[d], di[d])  BY <1>1 DEF Like, vars
  <2>. QED  BY <1>1, <2>1, <2>2, StandStill DEF IInv, Mutexes, vars, cvars
<1>2. CASE Finished
  BY <1>1, <1>2 DEF Finished
<1>3. CASE \E c \in Client : StartStatement(c) \/ ClientStep(c) \/ KillClient(c)
  BY <1>3, ClientStepKeeps, KillKeeps
<1>4. CASE \E d \in Handler : HandlerStep(d) \/ KillHandler(d)
  <2>1. PICK d \in Handler : HandlerStep(d) \/ KillHandler(d)  BY <1>4
  <2>2. CASE KillHandler(d)  BY <2>2, KillKeeps
  <2>3. CASE Delete(d)  BY <2>3, DeleteKeeps
  <2>4. CASE HandlerStep(d) /\ ~ Delete(d)  BY <2>4, HandlerSteps, HandlerKeeps
  <2>. QED  BY <2>1, <2>2, <2>3, <2>4
<1>5. CASE StartFlush \/ FlusherStep
  BY <1>5, FlushKeeps
<1>. QED  BY <1>1, <1>2, <1>3, <1>4, <1>5 DEF Next

(* The inductive invariant holds: what a handler has, whom it counts, and    *)
(* where a client may be that points to it.                                  *)
THEOREM Invariant == Spec => []IInv
<1>. QED  BY InitRight, NextKeeps, PTL DEF Spec

(* The variables have their types: neither locks_in_memory nor               *)
(* tables_in_use goes below zero or above the number of clients.             *)
THEOREM Types == Spec => []TypeOK
<1>1. IInv => TypeOK  BY DEF IInv
<1>. QED  BY <1>1, Invariant, PTL

(* A client that is counted in locks_in_memory or tables_in_use keeps its    *)
(* handler; only one that is about to read fatal_error may find it deleted   *)
(* (sql_insert.cc:700).  A handler dies only when no row is left and no      *)
(* client gets its table.                                                    *)
THEOREM DiesAlone == Spec => []DiesUnused
<1>1. ASSUME IInv PROVE DiesUnused
  <2>1. ASSUME NEW c \in Client, ref[c] # Nobody, pc[ref[c]] = "none"
        PROVE  pc[c] = "fatal_error"
    <3>1. pc[c] \notin Using  BY <1>1, <2>1, InUse
    <3>2. pc[c] \notin {"idle", "create_lock", "create"}
      BY <1>1, <2>1 DEF IInv, ClientRight
    <3>. QED  BY <1>1, <3>1, <3>2 DEF IInv, TypeOK, Using
  <2>2. ASSUME NEW d \in Handler, Dying(d)
        PROVE  /\ di[d].rows = 0
               /\ \A c \in Client : ref[c] = d =>
                    pc[c] \in {"open_wait", "opened", "unlock", "unlock_last", "fatal_error"}
    <3>1. Right(d) /\ di[d] \in Object  BY <1>1 DEF IInv, TypeOK
    <3>2. di[d].rows = 0
      <4>1. CASE pc[d] = "end"
        BY <3>1, <4>1 DEF Right, HandlerRight, Object
      <4>2. CASE pc[d] # "end"
        BY <2>2, <3>1, <4>2 DEF Right, HandlerRight, Dying
      <4>. QED  BY <4>1, <4>2
    <3>3. ASSUME NEW c \in Client, ref[c] = d
          PROVE pc[c] \in {"open_wait", "opened", "unlock", "unlock_last", "fatal_error"}
      <4>1. ASSUME pc[c] \in {"get_table", "lock_wait", "insert", "queue_wait", "end"}
            PROVE  FALSE
        <5>1. pc[c] \in Using  BY <4>1 DEF Using, ClientPc
        <5>2. di[d].table /\ pc[d] # "end"  BY <1>1, <3>3, <4>1, <5>1, InUse
        <5>. QED  BY <2>2, <3>1, <5>2 DEF Dying, Right, HandlerRight
      <4>2. pc[c] \notin {"idle", "create_lock", "create"}
        BY <1>1, <3>3, Apart DEF IInv, ClientRight, Thread
      <4>3. pc[c] \in ClientPc  BY <1>1 DEF IInv, TypeOK
      <4>. QED  BY <4>1, <4>2, <4>3 DEF ClientPc
    <3>. QED  BY <3>2, <3>3
  <2>. QED  BY <2>1, <2>2 DEF DiesUnused
<1>. QED  BY <1>1, Invariant, PTL

(* While a client has the table of its handler, or a row is queued, the      *)
(* handler has the table open and locked.                                    *)
THEOREM RowsUnderLock == Spec => []RowsLocked
<1>1. ASSUME IInv PROVE RowsLocked
  <2>1. ASSUME NEW c \in Client, pc[c] \in {"insert", "queue_wait", "end"}
        PROVE  di[ref[c]].table /\ di[ref[c]].lock
    <3>1. pc[c] \in Using /\ Borrowing(c)  BY <2>1 DEF Using, ClientPc, Borrowing
    <3>. QED  BY <1>1, <2>1, <3>1, InUse DEF ClientRight
  <2>2. ASSUME NEW d \in Handler, di[d].rows > 0 \/ pc[d] = "writing"
        PROVE  di[d].table /\ di[d].lock
    <3>1. Right(d)  BY <1>1 DEF IInv
    <3>. QED  BY <2>2, <3>1 DEF Right, HandlerRight, Inserting
  <2>. QED  BY <2>1, <2>2 DEF RowsLocked
<1>. QED  BY <1>1, Invariant, PTL

-----------------------------------------------------------------------------
(* One handler at a time.                                                    *)

(* A handler that has not entered the list yet, and the client that created  *)
(* it, which holds LOCK_delayed_create until it is woken.                    *)
Young(d) ==
    \/ pc[d] \in {"start", "open", "append"}
    \/ pc[d] \in {"lock", "read_lock_wait"} /\ ~ di[d].table
Creator(c, d) == ref[c] = d /\ pc[c] = "open_wait" /\ c \in asleep

Single ==
    /\ \A c \in Client : pc[c] \in {"create_lock", "create"} => c \notin killed
    /\ \A d \in Handler : Young(d) => listed = {} /\ \E c \in Client : Creator(c, d)
    /\ \A d, e \in listed : d = e

(* A step that makes no handler young and wakes no creator. *)
LEMMA QuietKeeps ==
  ASSUME Single,
         \A c \in Client : pc'[c] \in {"create_lock", "create"} => c \notin killed',
         listed' \subseteq listed,
         \A d \in Handler : Young(d)' => Young(d),
         \A d \in Handler, c \in Client : Young(d)' /\ Creator(c, d) => Creator(c, d)'
  PROVE  Single'
<1>1. ASSUME NEW d \in Handler, Young(d)'
      PROVE  listed' = {} /\ \E c \in Client : Creator(c, d)'
  <2>1. Young(d)  BY <1>1
  <2>2. PICK c \in Client : Creator(c, d)  BY <2>1 DEF Single
  <2>3. listed = {}  BY <2>1 DEF Single
  <2>4. Creator(c, d)'  BY <1>1, <2>2
  <2>. QED  BY <2>3, <2>4
<1>2. \A d, e \in listed' : d = e  BY DEF Single
<1>. QED  BY <1>1, <1>2 DEF Single

(* Only one handler is young. *)
LEMMA OneYoung ==
  ASSUME IInv, Single, NEW d \in Handler, NEW e \in Handler, Young(d), Young(e)
  PROVE  d = e
<1>1. PICK b \in Client : Creator(b, d)  BY DEF Single
<1>2. PICK c \in Client : Creator(c, e)  BY DEF Single
<1>3. Creating(b) /\ Creating(c)  BY <1>1, <1>2 DEF Creator, Creating
<1>4. ClientRight(b) /\ ClientRight(c)  BY DEF IInv
<1>5. b = c  BY <1>3, <1>4 DEF ClientRight
<1>. QED  BY <1>1, <1>2, <1>5 DEF Creator

(* The steps of a handler but Append. *)
LEMMA HandlerQuiet ==
  ASSUME IInv, NEW d \in Handler, HandlerStep(d), ~ Append(d)
  PROVE  /\ listed' \subseteq listed
         /\ \A c \in Client \cap asleep : c \notin ClientsOf(d) => c \in asleep'
         /\ Young(d)' => Young(d) /\ (Client \cap asleep) \subseteq asleep'
<1>1. /\ TypeOK /\ Right(d) /\ d \in Thread /\ d \notin Client /\ Flusher \notin Client
      /\ Client \cap Handler = {} /\ di[d] \in Object
  BY Apart DEF IInv, TypeOK
<1>2. ASSUME NEW p \in HandlerPc, Goto(d, p) PROVE pc'[d] = p
  BY <1>1, <1>2, GotoIs
<1> DEFINE Old == HandlerPc \ {"start", "open", "append", "lock", "read_lock_wait"}
<1>3. ASSUME NEW p \in Old, Goto(d, p) PROVE ~ Young(d)'
  BY <1>2, <1>3 DEF Young
<1>4. \A c \in Client \cap asleep : c \in Refresh /\ c \in asleep \ {d} /\ c \in asleep \cup {d}
  BY <1>1 DEF Refresh
<1>5. CASE StartHandler(d)
  BY <1>5 DEF StartHandler, Young
<1>6. CASE OpenTable(d)
  BY <1>6 DEF OpenTable, Young
<1>7. CASE mysql_lock_tables(d)
  <2>1. /\ pc[d] \in {"lock", "read_lock_wait"} /\ UNCHANGED listed
    BY <1>7 DEF mysql_lock_tables
  <2>2. CASE LockFails(d) /\ ~ di[d].table
    <3>1. Goto(d, "end") /\ UNCHANGED asleep  BY <2>2 DEF LockFails
    <3>. QED  BY <1>3, <2>1, <3>1 DEF HandlerPc
  <2>3. CASE LockFails(d) /\ di[d].table
    <3>1. Goto(d, "inserts") /\ BroadcastClients(d)  BY <2>3 DEF LockFails
    <3>. QED  BY <1>3, <2>1, <3>1 DEF HandlerPc, BroadcastClients
  <2>4. CASE di[d].table /\ Goto(d, "inserts") /\ BroadcastClients(d)
    BY <1>3, <2>1, <2>4 DEF HandlerPc, BroadcastClients
  <2>5. CASE ~ di[d].table /\ UNCHANGED asleep
    BY <2>1, <2>5 DEF Young
  <2>6. CASE Goto(d, "read_lock_wait") /\ asleep' = asleep \cup {d} /\ UNCHANGED di
    <3>1. pc'[d] = "read_lock_wait"  BY <1>2, <2>6 DEF HandlerPc
    <3>. QED  BY <2>1, <2>6, <3>1 DEF Young
  <2>7. CASE /\ Set(d, [di[d] EXCEPT !.opened = "reopened"]) /\ Goto(d, "lock")
             /\ asleep' = Refresh
    <3> DEFINE r == [di[d] EXCEPT !.opened = "reopened"]
    <3>1. r \in Object /\ r.table = di[d].table  BY <1>1 DEF Object
    <3>2. Set(d, r)  BY <2>7
    <3> HIDE DEF r
    <3>3. di'[d].table = di[d].table  BY <1>1, <3>1, <3>2, SetIs
    <3>4. pc[d] \in {"lock", "read_lock_wait"}  BY <2>1
    <3>5. (\A c \in Client \cap asleep : c \in asleep') /\ listed' = listed
      BY <1>4, <2>1, <2>7
    <3>6. pc'[d] = "lock"  BY <1>2, <2>7 DEF HandlerPc
    <3>. QED  BY <3>3, <3>4, <3>5, <3>6 DEF Young
  <2>. QED
    BY <1>7, <2>2, <2>3, <2>4, <2>5, <2>6, <2>7 DEF mysql_lock_tables
<1>8. CASE Loop(d)
  BY <1>3, <1>4, <1>8 DEF Loop, HandlerPc
<1>9. CASE Unlink(d)
  BY <1>3, <1>9 DEF Unlink, HandlerPc
<1>10. CASE Unlinked(d)
  BY <1>3, <1>10 DEF Unlinked, HandlerPc
<1>11. CASE Woken(d)
  BY <1>3, <1>4, <1>11 DEF Woken, HandlerPc, Young
<1>12. CASE TimeOut(d)
  BY <1>3, <1>4, <1>12 DEF TimeOut, HandlerPc
<1>13. CASE Work(d)
  <2>1. UNCHANGED <<asleep, di, listed>>  BY <1>13 DEF Work
  <2>2. CASE di[d].tables_in_use > 0 /\ ~ di[d].lock
    <3>1. Borrowers(d) # {}
      BY <2>2, FS_EmptySet DEF IInv, Counted
    <3>2. PICK c \in Client : c \in Borrowers(d)  BY <3>1 DEF Borrowers
    <3>3. ClientRight(c) /\ ref[c] = d /\ pc[c] \in Using
          /\ (pc[c] = "lock_wait" \/ Borrowing(c))
      BY <3>2 DEF IInv, Borrowers, Borrowing, Using, ClientPc
    <3>4. pc[c] = "lock_wait"  BY <2>2, <3>3 DEF ClientRight
    <3>5. di[d].table  BY <3>3, <3>4, InUse
    <3>6. di'[d].table /\ (Goto(d, "lock") \/ Goto(d, "upgrade") \/ Goto(d, "tail"))
      BY <1>13, <2>1, <3>5 DEF Work
    <3>7. ~ Young(d)'
      BY <1>2, <3>6 DEF Young, HandlerPc
    <3>. QED  BY <2>1, <3>7
  <2>3. CASE ~ (di[d].tables_in_use > 0 /\ ~ di[d].lock)
    <3>1. Goto(d, "upgrade") \/ Goto(d, "tail")
      BY <1>13, <2>3 DEF Work
    <3>. QED  BY <1>3, <2>1, <3>1 DEF HandlerPc
  <2>. QED  BY <2>2, <2>3
<1>14. CASE Upgrade(d)
  BY <1>3, <1>14 DEF Upgrade, HandlerPc
<1>15. CASE FirstRow(d)
  BY <1>3, <1>15 DEF FirstRow, TakeRow, HandlerPc
<1>16. CASE Written(d)
  BY <1>3, <1>16 DEF Written, TakeRow, WakeClients, BroadcastClients, HandlerPc
<1>17. CASE Rescheduled(d)
  BY <1>3, <1>17 DEF Rescheduled, TakeRow, WakeClients, BroadcastClients, HandlerPc
<1>18. CASE NoCache(d)
  BY <1>3, <1>18 DEF NoCache, HandlerPc
<1>19. CASE DropRow(d)
  BY <1>3, <1>19 DEF DropRow, HandlerPc
<1>20. CASE InsertsFail(d)
  BY <1>3, <1>20 DEF InsertsFail, HandlerPc
<1>21. CASE Tail(d)
  BY <1>3, <1>21 DEF Tail, WakeClients, BroadcastClients, HandlerPc
<1>22. CASE Unlocked(d)
  BY <1>3, <1>22 DEF Unlocked, WakeClients, BroadcastClients, HandlerPc
<1>23. CASE End(d)
  BY <1>3, <1>4, <1>23 DEF End, HandlerPc
<1>24. CASE DeleteLock(d)
  BY <1>3, <1>24 DEF DeleteLock, HandlerPc
<1>25. CASE Delete(d)
  BY <1>3, <1>25 DEF Delete, HandlerPc
<1>. QED
  BY <1>5, <1>6, <1>7, <1>8, <1>9, <1>10, <1>11, <1>12, <1>13, <1>14, <1>15, <1>16,
     <1>17, <1>18, <1>19, <1>20, <1>21, <1>22, <1>23, <1>24, <1>25 DEF HandlerStep

(* A handler enters the list when it is empty, and the other steps are quiet. *)
LEMMA HandlerSingle ==
  ASSUME IInv, Single, NEW d \in Handler, HandlerStep(d)
  PROVE  Single'
<1>1. /\ \A t \in Thread \ {d} : pc'[t] = pc[t]
      /\ \A e \in Handler \ {d} : di'[e] = di[e]
      /\ UNCHANGED <<ref, killed>>
  <2>1. CASE Delete(d)
    BY <2>1, GotoIs, Apart DEF Delete, IInv, TypeOK, Goto, Set, HandlerPc, cvars
  <2>2. CASE ~ Delete(d)
    BY <2>2, HandlerSteps DEF HandlerMoves, cvars
  <2>. QED  BY <2>1, <2>2
<1>2. /\ Client \cap Handler = {} /\ Client \subseteq Thread /\ Handler \subseteq Thread
      /\ \A c \in Client : pc'[c] = pc[c]
      /\ \A e \in Handler \ {d} : Young(e)' <=> Young(e)
  BY <1>1, Apart DEF Young
<1>3. CASE ~ Append(d)
  <2>1. /\ listed' \subseteq listed
        /\ \A c \in Client \cap asleep : c \notin ClientsOf(d) => c \in asleep'
        /\ Young(d)' => Young(d) /\ (Client \cap asleep) \subseteq asleep'
    BY <1>3, HandlerQuiet
  <2>2. ASSUME NEW e \in Handler, NEW c \in Client, Young(e)', Creator(c, e)
        PROVE  Creator(c, e)'
    <3>1. ref[c] = e /\ pc[c] = "open_wait" /\ c \in asleep  BY <2>2 DEF Creator
    <3>2. c \in asleep'
      BY <2>1, <2>2, <3>1 DEF ClientsOf
    <3>. QED  BY <1>1, <1>2, <3>1, <3>2 DEF Creator
  <2>3. \A e \in Handler : Young(e)' => Young(e)  BY <1>2, <2>1
  <2>4. \A c \in Client : pc'[c] \in {"create_lock", "create"} => c \notin killed'
    BY <1>1, <1>2 DEF Single
  <2>. QED  BY <2>1, <2>2, <2>3, <2>4, QuietKeeps
<1>4. CASE Append(d)
  <2>1. /\ pc[d] = "append" /\ listed' = listed \cup {d} /\ Goto(d, "loop")
    BY <1>4 DEF Append
  <2>2. Young(d)  BY <2>1 DEF Young
  <2>3. listed' = {d}  BY <2>1, <2>2 DEF Single
  <2>4. pc'[d] = "loop"  BY <2>1, GotoIs, <1>2 DEF IInv, HandlerPc
  <2>5. ASSUME NEW e \in Handler, Young(e)' PROVE FALSE
    <3>1. e # d  BY <2>4, <2>5 DEF Young
    <3>2. Young(e)  BY <1>2, <2>5, <3>1
    <3>. QED  BY <2>2, <3>1, <3>2, OneYoung
  <2>6. \A c \in Client : pc'[c] \in {"create_lock", "create"} => c \notin killed'
    BY <1>1, <1>2 DEF Single
  <2>. QED  BY <2>3, <2>5, <2>6 DEF Single
<1>. QED  BY <1>3, <1>4

(* A step in which every handler stays where it is. *)
LEMMA OthersSingle ==
  ASSUME IInv, Single, KillAt \cap {"create_lock", "create"} = {},
         (\E d \in Handler : KillHandler(d)) \/ (\E c \in Client : KillClient(c))
             \/ StartFlush \/ FlusherStep
  PROVE  Single'
<1>1. /\ TypeOK /\ Client \cap Handler = {} /\ Flusher \notin Client /\ Flusher \notin Handler
      /\ Flusher \in Thread /\ Client \subseteq Thread /\ Handler \subseteq Thread
  BY Apart DEF IInv
<1>2. ASSUME \A t \in Client \cup Handler : pc'[t] = pc[t],
             \A e \in Handler : di'[e].table = di[e].table,
             Client \cap asleep \subseteq asleep', UNCHANGED <<ref, listed>>,
             \A c \in Client : pc'[c] \in {"create_lock", "create"} => c \notin killed'
      PROVE  Single'
  <2>1. \A e \in Handler : Young(e)' => Young(e)  BY <1>2 DEF Young
  <2>2. \A e \in Handler, c \in Client : Creator(c, e) => Creator(c, e)'
    BY <1>2 DEF Creator
  <2>. QED  BY <1>2, <2>1, <2>2, QuietKeeps
<1>3. ASSUME NEW d \in Handler, Set(d, [di[d] EXCEPT !.killed = TRUE])
      PROVE  \A e \in Handler : di'[e].table = di[e].table
  <2> DEFINE r == [di[d] EXCEPT !.killed = TRUE]
  <2>1. di[d] \in Object  BY <1>1 DEF TypeOK
  <2>2. r \in Object /\ r.table = di[d].table  BY <2>1 DEF Object
  <2>3. Set(d, r)  BY <1>3
  <2> HIDE DEF r
  <2>. QED  BY <1>1, <2>2, <2>3, SetIs
<1>4. CASE \E d \in Handler : KillHandler(d)
  <2>1. PICK d \in Handler : KillHandler(d)  BY <1>4
  <2>2. /\ Set(d, [di[d] EXCEPT !.killed = TRUE]) /\ asleep' = asleep \ {d}
        /\ UNCHANGED <<pc, listed, ref, killed>>
    BY <2>1 DEF KillHandler, cvars
  <2>. QED  BY <1>1, <1>2, <1>3, <2>2 DEF Single
<1>5. CASE \E c \in Client : KillClient(c)
  <2>1. PICK c \in Client : KillClient(c)  BY <1>5
  <2>2. pc[c] \notin {"create_lock", "create"} /\ killed' = killed \cup {c}
        /\ UNCHANGED <<pc, asleep, di, listed, ref>>
    BY <2>1 DEF KillClient
  <2>. QED  BY <1>2, <2>2 DEF Single
<1>6. CASE StartFlush \/ FlusherStep
  <2>1. \A t \in Client \cup Handler : pc'[t] = pc[t]
    <3>1. UNCHANGED pc \/ \E p \in FlusherPc : Goto(Flusher, p)
      BY <1>6 DEF StartFlush, FlusherStep, close_cached_tables, kill_delayed_threads,
                  KillOne, KillDone, WaitRefresh, EndFlush, FlusherPc
    <3>. QED  BY <1>1, <3>1, GotoIs
  <2>2. UNCHANGED <<ref, listed, killed>>
    BY <1>6 DEF StartFlush, FlusherStep, close_cached_tables, kill_delayed_threads,
                KillOne, KillDone, WaitRefresh, EndFlush, cvars
  <2>3. Client \cap asleep \subseteq asleep'
    BY <1>1, <1>6 DEF StartFlush, FlusherStep, close_cached_tables, kill_delayed_threads,
                KillOne, KillDone, WaitRefresh, EndFlush, Refresh, TypeOK
  <2>4. \A e \in Handler : di'[e].table = di[e].table
    <3>1. CASE UNCHANGED di  BY <3>1
    <3>2. CASE \E d \in todo : Set(d, [di[d] EXCEPT !.killed = TRUE])
      BY <1>1, <1>3, <3>2 DEF TypeOK
    <3>3. CASE di' = [d \in Handler |->
                         [di[d] EXCEPT !.opened = IF @ = "no" THEN "no" ELSE "old"]]
      <4> SUFFICES ASSUME NEW e \in Handler PROVE di'[e].table = di[e].table  OBVIOUS
      <4>1. di[e] \in Object  BY <1>1 DEF TypeOK
      <4>. QED  BY <3>3, <4>1 DEF Object
    <3>. QED
      BY <1>6, <3>1, <3>2, <3>3
         DEF StartFlush, FlusherStep, close_cached_tables, kill_delayed_threads,
             KillOne, KillDone, WaitRefresh, EndFlush
  <2>. QED  BY <1>2, <2>1, <2>2, <2>3, <2>4 DEF Single
<1>. QED  BY <1>4, <1>5, <1>6

(* A client creates a handler when there is none, and sleeps until it is      *)
(* listed.                                                                   *)
LEMMA CreateSingle ==
  ASSUME IInv, Single, NEW c \in Client, CreateHandler(c)
  PROVE  Single'
<1>1. PICK d \in Handler \ Allocated :
        /\ Set(d, [New EXCEPT !.locks_in_memory = 1])
        /\ ref' = [ref EXCEPT ![c] = d]
        /\ pc' = [pc EXCEPT ![d] = "start",
                            ![c] = IF c \in killed THEN "opened" ELSE "open_wait"]
        /\ asleep' = IF c \in killed THEN asleep ELSE asleep \cup {c}
  BY DEF CreateHandler
<1>2. /\ pc[c] = "create" /\ listed = {} /\ UNCHANGED <<listed, killed>>
      /\ TypeOK /\ d \in Thread /\ c \in Thread /\ c # d /\ d \in Handler
      /\ Client \subseteq Thread /\ Handler \subseteq Thread /\ Client \cap Handler = {}
  BY <1>1, Apart DEF CreateHandler, IInv
<1>3. c \notin killed  BY <1>2 DEF Single
<1>4. /\ pc' = [pc EXCEPT ![d] = "start", ![c] = "open_wait"] /\ asleep' = asleep \cup {c}
  BY <1>1, <1>3
<1>5. /\ pc'[c] = "open_wait" /\ pc'[d] = "start" /\ \A t \in Thread \ {c, d} : pc'[t] = pc[t]
      /\ ref'[c] = d /\ \A x \in Client \ {c} : ref'[x] = ref[x]
  BY <1>1, <1>2, <1>4 DEF TypeOK
<1>6. \A e \in Handler \ {d} : di'[e] = di[e]
  BY <1>1, <1>2 DEF Set, TypeOK
<1>7. Creator(c, d)'  BY <1>4, <1>5 DEF Creator
<1>8. ASSUME NEW e \in Handler \ {d}, Young(e)' PROVE \E x \in Client : Creator(x, e)'
  <2>1. Young(e)  BY <1>2, <1>5, <1>6, <1>8 DEF Young
  <2>2. PICK x \in Client : Creator(x, e)  BY <2>1 DEF Single
  <2>3. x # c  BY <1>2, <2>2 DEF Creator
  <2>4. pc'[x] = pc[x] /\ ref'[x] = ref[x] /\ x \in asleep'
    BY <1>2, <1>4, <1>5, <2>2, <2>3 DEF Creator
  <2>. QED  BY <2>2, <2>4 DEF Creator
<1>9. \A x \in Client : pc'[x] \in {"create_lock", "create"} => x \notin killed'
  BY <1>2, <1>5 DEF Single
<1>. QED  BY <1>2, <1>7, <1>8, <1>9 DEF Single

(* The other steps of a client are quiet. *)
LEMMA ClientSingle ==
  ASSUME IInv, Single, NEW c \in Client, StartStatement(c) \/ ClientStep(c),
         ~ CreateHandler(c)
  PROVE  Single'
<1>1. /\ TypeOK /\ Client \cap Handler = {} /\ Nobody \notin Client /\ c \in Thread
      /\ Client \subseteq Thread /\ Handler \subseteq Thread /\ ref[c] \notin Client
      /\ ref[c] \in Handler \cup {Nobody}
  <2>1. ref[c] \in Handler \cup {Nobody}  BY DEF IInv, TypeOK
  <2>. QED  BY <2>1, Apart DEF IInv
<1>2. Client \cap asleep \subseteq asleep' /\ UNCHANGED <<listed, killed>>
  BY <1>1 DEF StartStatement, ClientStep, LockCreate, FindAgain, CreateFails, OpenWoken,
       Opened, unlock, unlock_last, get_local_table, LockWoken, GotTable, GetFails,
       ReadFatalError, write_delayed, end_delayed_insert, SignalHandler, cvars
<1>3. ~ (pc[c] = "open_wait" /\ c \in asleep)
  BY DEF StartStatement, ClientStep, LockCreate, FindAgain, CreateFails, OpenWoken,
       Opened, unlock, unlock_last, get_local_table, LockWoken,
       ReadFatalError, write_delayed, end_delayed_insert
<1>4. /\ UNCHANGED pc \/ \E p \in ClientPc :
             Goto(c, p) /\ (p \in {"create_lock", "create"} => c \notin killed)
  <2>1. next[c] \in ClientPc \ {"create_lock", "create"}
    BY <1>1 DEF TypeOK, ClientPc
  <2>2. CASE StartStatement(c)
    BY <2>2 DEF StartStatement, ClientPc
  <2>3. CASE LockCreate(c)
    BY <2>3 DEF LockCreate, ClientPc, Single
  <2>4. CASE FindAgain(c) \/ CreateFails(c) \/ OpenWoken(c) \/ Opened(c) \/ ReadFatalError(c)
    BY <2>4 DEF FindAgain, CreateFails, OpenWoken, Opened, ReadFatalError, ClientPc
  <2>5. CASE unlock(c) \/ unlock_last(c)
    BY <2>1, <2>5 DEF unlock, unlock_last, After, ClientPc
  <2>6. CASE get_local_table(c) \/ LockWoken(c)
    BY <2>6 DEF get_local_table, LockWoken, GotTable, GetFails, ClientPc
  <2>7. CASE write_delayed(c) \/ end_delayed_insert(c)
    BY <2>7 DEF write_delayed, end_delayed_insert, ClientPc
  <2>. QED  BY <2>2, <2>3, <2>4, <2>5, <2>6, <2>7 DEF ClientStep
<1>5. /\ \A t \in Thread \ {c} : pc'[t] = pc[t]
      /\ pc'[c] = pc[c] \/ pc'[c] \notin {"create_lock", "create"} \/ c \notin killed
  BY <1>1, <1>4, GotoIs
<1>6. /\ \A x \in Client \ {c} : ref'[x] = ref[x]
      /\ \A e \in Handler : pc'[e] = pc[e] /\ di'[e].table = di[e].table
  <2>1. PICK d \in Handler \cup {Nobody} : ClientMoves(c, d)
    <3>1. CASE \/ StartStatement(c) \/ LockCreate(c) \/ FindAgain(c)
               \/ CreateFails(c) \/ OpenWoken(c) \/ Opened(c) \/ ReadFatalError(c)
      BY <3>1, GetSteps
    <3>2. CASE unlock(c) \/ unlock_last(c)
      BY <3>2, UnlockSteps
    <3>3. CASE get_local_table(c) \/ LockWoken(c) \/ write_delayed(c) \/ end_delayed_insert(c)
      BY <1>1, <3>3, GetTableSteps, InsertSteps
    <3>. QED  BY <3>1, <3>2, <3>3 DEF ClientStep
  <2>2. ~ (pc[d] = "none" /\ pc'[d] = "start") \/ d \notin Handler
    BY <1>1, <1>5
  <2>. QED  BY <1>1, <1>5, <2>1, <2>2 DEF ClientMoves
<1>7. \A e \in Handler : Young(e)' => Young(e)  BY <1>6 DEF Young
<1>8. \A e \in Handler, x \in Client : Creator(x, e) => Creator(x, e)'
  BY <1>1, <1>2, <1>3, <1>5, <1>6 DEF Creator
<1>9. \A x \in Client : pc'[x] \in {"create_lock", "create"} => x \notin killed'
  BY <1>1, <1>2, <1>5 DEF Single
<1>. QED  BY <1>2, <1>7, <1>8, <1>9, QuietKeeps

(* Every step leaves at most one handler. *)
LEMMA SingleKeeps ==
  ASSUME KillAt \cap {"create_lock", "create"} = {}
  PROVE  IInv /\ Single /\ [Next]_vars => Single'
<1> SUFFICES ASSUME IInv, Single, [Next]_vars PROVE Single'  OBVIOUS
<1>1. CASE UNCHANGED vars \/ Finished
  <2>1. UNCHANGED vars  BY <1>1 DEF Finished
  <2>. QED  BY <2>1 DEF Single, Young, Creator, vars, cvars, fvars
<1>2. CASE \E c \in Client : StartStatement(c) \/ ClientStep(c)
  BY <1>2, CreateSingle, ClientSingle
<1>3. CASE \E d \in Handler : HandlerStep(d)
  BY <1>3, HandlerSingle
<1>4. CASE (\E d \in Handler : KillHandler(d)) \/ (\E c \in Client : KillClient(c))
             \/ StartFlush \/ FlusherStep
  BY <1>4, OthersSingle
<1>. QED  BY <1>1, <1>2, <1>3, <1>4 DEF Next

(* LOCK_delayed_create: no two handlers take rows for the table, where no    *)
(* KILL reaches a client that has found no handler and has created none yet. *)
(* Such a client would not wait for its handler to open, and would give the  *)
(* mutex back before the handler can be found.                               *)
THEOREM OneAtATime ==
  ASSUME KillAt \cap {"create_lock", "create"} = {}
  PROVE  Spec => []OneHandler
<1>1. Init => Single
  BY Apart DEF Init, Single, Young
<1>2. IInv /\ Single /\ [Next]_vars => Single'  BY SingleKeeps
<1>3. IInv /\ Single => OneHandler
  <2> SUFFICES ASSUME Single PROVE OneHandler  OBVIOUS
  <2>1. CASE listed = {}
    BY <2>1, FS_EmptySet DEF OneHandler
  <2>2. CASE listed # {}
    <3>1. PICK d \in listed : TRUE  BY <2>2
    <3>2. listed = {d}  BY <3>1 DEF Single
    <3>. QED  BY <3>2, FS_Singleton DEF OneHandler
  <2>. QED  BY <2>1, <2>2
<1>. QED  BY <1>1, <1>2, <1>3, Invariant, PTL DEF Spec
=============================================================================
