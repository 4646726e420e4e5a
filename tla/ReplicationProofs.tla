-------------------------- MODULE ReplicationProofs --------------------------
(* What the slave executes, with which insert ids and temporary tables, for  *)
(* any number of statements, files and faults, and any size of the log.      *)
EXTENDS Replication, TLAPS, SequenceTheorems

(* No rotation between the end of file the dump thread has seen and its test *)
(* of is_active (README, section 5).                                         *)
NoGap == "eof" \notin RotateAt

-----------------------------------------------------------------------------
(* The contents L of the log: w statements, a the active file, r restarts.   *)

IsQuery(L, h, j) == j \in 1 .. Len(L[h]) /\ L[h][j].type = "query"

(* A position between an insert id and its statement. *)
Inside(L, f, p) == p > 0 /\ L[f][p].type = "intvar"
Valid(L, a, f, p) == f \in File /\ f <= a /\ p \in 0 .. Len(L[f])

(* Position p of file f is after event j of file h. *)
Past(f, p, h, j) == h < f \/ (h = f /\ j <= p)

(* No statement lies between position p of file f and the beginning of g. *)
Skips(L, f, p, g) ==
    \A h \in File, j \in Nat : IsQuery(L, h, j) => (Past(f, p, h, j) <=> Past(g, 0, h, j))

(* The first k statements are those before position p of file f. *)
Seen(L, f, p, k) ==
    \A h \in File, j \in Nat : IsQuery(L, h, j) => (L[h][j].n <= k <=> Past(f, p, h, j))

(* The events of a file: an insert id is written with its statement, a       *)
(* Rotate event and a Stop event end the file.                               *)
EventRight(s, w, a, r, f, j) ==
    LET e == s[j] IN
    /\ e.type = "query" =>
         /\ e.n <= w
         /\ e.n \in AutoInc => j > 1 /\ s[j-1].type = "intvar" /\ s[j-1].n = e.n
    /\ e.type = "intvar" =>
         j < Len(s) /\ s[j+1].type = "query" /\ s[j+1].n = e.n
    /\ e.type = "rotate" =>
         f < a /\ e.n = f + 1 /\ Len(s) = j + 1 /\ s[j+1].type = "stop"
    /\ e.type = "stop" =>
         f < a /\ Len(s) = j /\ (r = 0 => j > 1 /\ s[j-1].type = "rotate")
    /\ e.type = "start" => j = 1 /\ (r = 0 => f = 1)

FilesRight(L, w, a, r) ==
    \A f \in File : \A j \in 1 .. Len(L[f]) : EventRight(L[f], w, a, r, f, j)

InOrder(L) ==
    \A f, h \in File : \A i, j \in Nat :
       IsQuery(L, f, i) /\ IsQuery(L, h, j) /\ ~ Past(f, i, h, j) => L[f][i].n < L[h][j].n

AllThere(L, w) ==
    \A n \in 1 .. w : \E h \in File : \E j \in Nat : IsQuery(L, h, j) /\ L[h][j].n = n

LogOK(L, w, a, r) ==
    /\ L \in [File -> Seq(Events)] /\ w \in 0 .. MaxStatement /\ a \in File /\ r \in Nat
    /\ FilesRight(L, w, a, r) /\ InOrder(L) /\ AllThere(L, w)
    /\ \A f \in File : f > a => L[f] = <<>>

(* A later log M, in which b is the active file. *)
Grows(L, M, w, a, b) ==
    /\ M \in [File -> Seq(Events)] /\ b \in File /\ a <= b
    /\ \A f \in File : Len(L[f]) <= Len(M[f])
    /\ \A f \in File : \A j \in 1 .. Len(L[f]) : M[f][j] = L[f][j]
    /\ \A f \in File : f < a => M[f] = L[f]
    /\ \A h \in File, j \in Nat : IsQuery(M, h, j) /\ j > Len(L[h]) => h = a /\ M[h][j].n > w

(* Event e takes the stream from position p of f to position q of g: it is   *)
(* the next of its file, or the Rotate event that the dump thread makes up.  *)
Hop(L, e, f, p, g, q) ==
    \/ /\ f = g /\ q = p + 1 /\ q \in 1 .. Len(L[f])
       /\ e = L[f][q]
    \/ /\ e.type = "rotate" /\ e.n = g /\ q = 0
       /\ ~ Inside(L, f, p)
       /\ NoGap => Skips(L, f, p, g)

-----------------------------------------------------------------------------
(* The invariant.                                                            *)

Data ==
    /\ dump \in [pc : DumpPc, file : Nat, pos : Nat, offset : Nat]
    /\ net \in Seq(Events)
    /\ mi \in [file : File, pos : Nat, pending : {0, 1}]
    /\ info = [file |-> mi.file, pos |-> mi.pos]
    /\ spc \in {"stopped", "connect", "read", "executed"}
    /\ next_insert_id \in 0 .. MaxStatement /\ temp \in BOOLEAN
    /\ applied \in Seq([n : Statement, id : 0 .. MaxStatement])
    /\ {restarts, crashes, drops, purges} \subseteq Nat

LogRight ==
    /\ LogOK(logs, written, active, restarts)
    /\ rotating \in BOOLEAN
    /\ rotating => logs[active] = <<>>

(* A file that is in no index, though a later one, is empty: a master that   *)
(* died in new_file() has left it.                                           *)
Listed(I, f) == \E i \in 1 .. Len(I) : I[i] = f
IndexOK(L, F, I, a, rot) ==
    /\ I \in Seq(File) /\ I # <<>> /\ F \subseteq File
    /\ \A i, j \in 1 .. Len(I) : i < j => I[i] < I[j]
    /\ \A i \in 1 .. Len(I) : I[i] \in F /\ I[i] <= a
    /\ a \in F /\ \A f \in F : f <= a
    /\ rot => \A i \in 1 .. Len(I) : I[i] < a
    /\ ~ rot => I[Len(I)] = a
    /\ \A f \in File : f > I[1] /\ L[f] # <<>> => Listed(I, f)
IndexRight == IndexOK(logs, files, index, active, rotating)

DumpOK(L, I, a, rot, d) ==
    /\ d.offset \in 1 .. Len(I) /\ d.file = I[d.offset]
    /\ Valid(L, a, d.file, d.pos)
    /\ d.pc \in {"eof", "next"} => ~ Inside(L, d.file, d.pos)
    /\ d.pc = "catch" => d.file = a \/ d.pos < Len(L[d.file])
    /\ d.pc = "asleep" => d.file = a /\ d.pos >= Len(L[d.file])
    /\ d.pc = "next" => d.file # a
    /\ NoGap =>
         /\ d.pc = "eof" => ~ rot /\ (d.file = a \/ d.pos >= Len(L[d.file]))
         /\ d.pc = "next" => d.pos >= Len(L[d.file]) /\ d.offset < Len(I)
DumpRight ==
    dump.pc # "none" =>
      spc \in {"read", "executed"} /\ DumpOK(logs, index, active, rotating, dump)

(* The position of the slave is that of the stream; or it has gone to the    *)
(* next file with the Rotate event that was logged, or has ignored a Stop.   *)
Here(m, s) == m.pos + m.pending + (IF s = "executed" THEN 1 ELSE 0)
Turned(L, m, f, p) ==
    \/ \E j \in 1 .. p : L[f][j].type = "rotate" /\ L[f][j].n = m.file
    \/ f = m.file /\ p = 1 /\ L[f][1].type = "stop"
Sync(L, m, s, f, p) ==
    \/ m.file = f /\ p = Here(m, s)
    \/ s = "read" /\ m.pos = 0 /\ m.pending = 0 /\ Turned(L, m, f, p)

Chain(L, a, N, pf, pp) ==
    /\ pf \in [1 .. Len(N) + 1 -> File] /\ pp \in [1 .. Len(N) + 1 -> Nat]
    /\ \A i \in 1 .. Len(N) + 1 : Valid(L, a, pf[i], pp[i])
    /\ \A i \in 1 .. Len(N) : Hop(L, N[i], pf[i], pp[i], pf[i+1], pp[i+1])
Sent(d, k, pf, pp) == d.pc # "none" => pf[k] = d.file /\ pp[k] = d.pos
Link(L, a, N, d, m, s) ==
    \E pf, pp : /\ Chain(L, a, N, pf, pp)
                /\ Sent(d, Len(N) + 1, pf, pp)
                /\ Sync(L, m, s, pf[1], pp[1])
NetRight ==
    /\ spc = "connect" => net = <<>>
    /\ spc \in {"read", "executed"} => Link(logs, active, net, dump, mi, spc)

(* Where the slave is: never between an insert id and its statement. *)
Done == IF applied = <<>> THEN 0 ELSE applied[Len(applied)].n
Placed(L, a, m, s) ==
    /\ Valid(L, a, m.file, m.pos) /\ Valid(L, a, m.file, Here(m, s))
    /\ m.pos > 0 => L[m.file][m.pos].type \notin {"intvar", "rotate"}
    /\ m.pending = 1 => L[m.file][m.pos + 1].type = "intvar"
    /\ s = "executed" => IsQuery(L, m.file, Here(m, s))
SlaveRight ==
    /\ Placed(logs, active, mi, spc)
    /\ spc = "read" /\ mi.pending = 1 => next_insert_id = logs[mi.file][mi.pos + 1].n
    /\ spc = "executed" => applied # <<>> /\ Done = logs[mi.file][Here(mi, spc)].n

Counts(L, m, s, d, l, c) ==
    /\ d <= l /\ l <= d + c
    /\ \/ s # "executed" /\ Seen(L, m.file, m.pos, d)
       \/ /\ d > 0 /\ Seen(L, m.file, m.pos, d - 1)
          /\ s # "executed" => l < d + c
    /\ s = "executed" => Seen(L, m.file, Here(m, s), d)
Counted == Done <= written /\ Counts(logs, mi, spc, Done, Len(applied), crashes)

IInv ==
    /\ Data /\ LogRight /\ IndexRight /\ DumpRight /\ NetRight /\ SlaveRight
    /\ InsertIds
    /\ NoGap => Counted /\ TempTableKept

-----------------------------------------------------------------------------
(* Events and files.                                                         *)

LEMMA EventKinds ==
  ASSUME NEW e \in Events
  PROVE  /\ e.type \in {"intvar", "query", "rotate", "stop", "start"}
         /\ e.n \in Nat
         /\ e.type = "query" => e.n \in Statement
         /\ e.type = "intvar" => e.n \in Statement
         /\ e.type = "rotate" => e.n \in File
  BY ReplicationAssumption
     DEF Events, Intvar, Query, Rotate, Stop, Start, Statement, File

LEMMA Made ==
  /\ \A n \in AutoInc : Intvar(n) \in Events
  /\ \A n \in Statement : Query(n) \in Events
  /\ \A f \in File : Rotate(f) \in Events
  /\ Stop \in Events /\ Start \in Events
  /\ \A n : /\ Intvar(n).type = "intvar" /\ Intvar(n).n = n
            /\ Query(n).type = "query" /\ Query(n).n = n
            /\ Rotate(n).type = "rotate" /\ Rotate(n).n = n
  /\ Stop.type = "stop" /\ Start.type = "start"
  BY DEF Events, Intvar, Query, Rotate, Stop, Start

LEMMA At ==
  ASSUME NEW L \in [File -> Seq(Events)], NEW f \in File
  PROVE  /\ Len(L[f]) \in Nat
         /\ \A j \in 1 .. Len(L[f]) : L[f][j] \in Events
  OBVIOUS

LEMMA Bounds ==
  /\ MaxStatement \in Nat /\ MaxFile \in Nat
  /\ \A f \in File : f \in Nat
  /\ \A n \in Statement : n \in Nat
  BY ReplicationAssumption DEF File, Statement

(* A statement in the log is one of those written. *)
LEMMA QueryAt ==
  ASSUME NEW L, NEW w, NEW a, NEW r, LogOK(L, w, a, r),
         NEW h \in File, NEW j \in Nat, IsQuery(L, h, j)
  PROVE  /\ L[h][j] \in Events /\ L[h][j].type = "query"
         /\ L[h][j].n \in Statement /\ L[h][j].n <= w
         /\ L[h][j].n \in Nat
  <1>1. j \in 1 .. Len(L[h]) /\ L[h][j] \in Events
    BY At DEF LogOK, IsQuery
  <1>2. L[h][j].n \in Statement
    BY <1>1, EventKinds DEF IsQuery
  <1>3. EventRight(L[h], w, a, r, h, j)
    BY <1>1 DEF LogOK, FilesRight
  <1> QED
    BY <1>1, <1>2, <1>3, Bounds DEF EventRight, IsQuery

(* The statements before the n-th are those with a smaller number. *)
LEMMA SeenAt ==
  ASSUME NEW L, NEW w, NEW a, NEW r, LogOK(L, w, a, r),
         NEW f \in File, NEW i \in Nat, IsQuery(L, f, i)
  PROVE  Seen(L, f, i, L[f][i].n)
  <1> SUFFICES ASSUME NEW h \in File, NEW j \in Nat, IsQuery(L, h, j)
               PROVE  L[h][j].n <= L[f][i].n <=> Past(f, i, h, j)
    BY DEF Seen
  <1>1. /\ InOrder(L)
        /\ L[h][j].n \in Nat /\ L[f][i].n \in Nat
        /\ h \in Nat /\ f \in Nat
    BY QueryAt, Bounds DEF LogOK
  <1>2. ~ Past(f, i, h, j) => L[f][i].n < L[h][j].n
    BY <1>1 DEF InOrder
  <1>3. ~ Past(h, j, f, i) => L[h][j].n < L[f][i].n
    BY <1>1 DEF InOrder
  <1>4. Past(f, i, h, j) /\ Past(h, j, f, i) => h = f /\ j = i
    BY <1>1 DEF Past
  <1> QED
    BY <1>1, <1>2, <1>3, <1>4

(* After the first k statements comes statement k + 1. *)
LEMMA NextIs ==
  ASSUME NEW L, NEW w, NEW a, NEW r, LogOK(L, w, a, r),
         NEW f \in File, NEW p \in Nat, NEW k \in Nat,
         Seen(L, f, p, k), IsQuery(L, f, p + 1)
  PROVE  L[f][p + 1].n = k + 1
  <1> DEFINE n == L[f][p + 1].n
  <1>1. n \in Nat /\ n <= w /\ w \in Nat /\ f \in Nat
    <2>1. p + 1 \in Nat
      OBVIOUS
    <2>2. n \in Nat /\ n <= w
      BY <2>1, QueryAt
    <2>3. w \in Nat /\ f \in Nat
      BY Bounds DEF LogOK
    <2> QED
      BY <2>2, <2>3
  <1>2. ~ Past(f, p, f, p + 1)
    BY <1>1 DEF Past
  <1>3. n > k
    BY <1>1, <1>2 DEF Seen
  <1>4. PICK h \in File : \E j \in Nat : IsQuery(L, h, j) /\ L[h][j].n = k + 1
    <2> HIDE DEF n
    <2>1. k + 1 \in 1 .. w
      BY <1>1, <1>3
    <2>2. AllThere(L, w)
      BY DEF LogOK
    <2> QED
      BY <2>1, <2>2 DEF AllThere
  <1>5. PICK j \in Nat : IsQuery(L, h, j) /\ L[h][j].n = k + 1
    BY <1>4
  <1>6. ~ Past(f, p, h, j)
    BY <1>5 DEF Seen
  <1>7. Seen(L, f, p + 1, n)
    BY SeenAt
  <1>8. Past(f, p + 1, h, j)
    BY <1>1, <1>3, <1>5, <1>7 DEF Seen
  <1>9. h = f /\ j = p + 1
    BY <1>6, <1>8, Bounds DEF Past
  <1> QED
    BY <1>5, <1>9

(* An event that is no statement can be passed. *)
LEMMA SeenStep ==
  ASSUME NEW L, NEW f \in File, NEW p \in Nat, NEW k, ~ IsQuery(L, f, p + 1)
  PROVE  Seen(L, f, p, k) <=> Seen(L, f, p + 1, k)
  <1>1. ASSUME NEW h \in File, NEW j \in Nat, IsQuery(L, h, j)
        PROVE  Past(f, p, h, j) <=> Past(f, p + 1, h, j)
    BY <1>1, Bounds DEF Past
  <1> QED
    BY <1>1 DEF Seen

LEMMA SeenSkips ==
  ASSUME NEW L, NEW f \in File, NEW p \in Nat, NEW g \in File, NEW k,
         Skips(L, f, p, g)
  PROVE  Seen(L, f, p, k) <=> Seen(L, g, 0, k)
  BY DEF Seen, Skips

(* From the end of a file, or the Rotate event before it, to the next. *)
LEMMA SkipsEnd ==
  ASSUME NEW L, NEW f \in File, NEW p \in Nat, f + 1 \in File,
         \A j \in Nat : IsQuery(L, f, j) => j <= p
  PROVE  Skips(L, f, p, f + 1)
  <1> SUFFICES ASSUME NEW h \in File, NEW j \in Nat, IsQuery(L, h, j)
               PROVE  Past(f, p, h, j) <=> Past(f + 1, 0, h, j)
    BY DEF Skips
  <1>1. h \in Nat /\ f \in Nat /\ j >= 1
    BY Bounds DEF IsQuery
  <1>2. h = f => j <= p
    OBVIOUS
  <1> QED
    BY <1>1, <1>2 DEF Past

LEMMA RotateAtEnd ==
  ASSUME NEW L, NEW w, NEW a, NEW r, LogOK(L, w, a, r),
         NEW f \in File, NEW j \in 1 .. Len(L[f]), L[f][j].type = "rotate"
  PROVE  /\ L[f][j].n = f + 1 /\ f < a /\ f + 1 \in File /\ f + 1 <= a
         /\ Len(L[f]) = j + 1 /\ L[f][j + 1].type = "stop"
         /\ \A p \in Nat : p >= j => Skips(L, f, p, f + 1)
  <1>1. j \in Nat /\ f \in Nat /\ a \in Nat /\ Len(L[f]) \in Nat /\ a \in File
    BY Bounds, At DEF LogOK
  <1>2. L[f][j].n = f + 1 /\ f < a /\ Len(L[f]) = j + 1 /\ L[f][j + 1].type = "stop"
    BY DEF LogOK, FilesRight, EventRight
  <1>3. f + 1 \in File /\ f + 1 <= a
    BY <1>1, <1>2, Bounds DEF File
  <1>4. ASSUME NEW p \in Nat, p >= j
        PROVE  Skips(L, f, p, f + 1)
    <2>1. ASSUME NEW i \in Nat, IsQuery(L, f, i)
          PROVE  i <= p
      <3>1. i # j /\ i # j + 1 /\ i \in 1 .. j + 1
        BY <1>2, <2>1 DEF IsQuery
      <3> QED
        BY <3>1, <1>1, <1>4
    <2> QED
      BY <2>1, <1>3, SkipsEnd
  <1> QED
    BY <1>2, <1>3, <1>4

-----------------------------------------------------------------------------
(* What stays true when the log grows.                                       *)

LEMMA GrowsAt ==
  ASSUME NEW L, NEW M, NEW w, NEW a, NEW b, NEW r, LogOK(L, w, a, r), Grows(L, M, w, a, b),
         NEW f \in File, NEW p \in Nat, p <= Len(L[f])
  PROVE  /\ Len(L[f]) \in Nat /\ Len(M[f]) \in Nat /\ p <= Len(M[f])
         /\ p > 0 => M[f][p] = L[f][p]
         /\ Inside(M, f, p) <=> Inside(L, f, p)
  <1>1. /\ Len(L[f]) \in Nat /\ Len(M[f]) \in Nat
        /\ Len(L[f]) <= Len(M[f])
        /\ \A j \in 1 .. Len(L[f]) : M[f][j] = L[f][j]
    BY At DEF LogOK, Grows
  <1>2. p <= Len(M[f]) /\ (p > 0 => M[f][p] = L[f][p])
    BY <1>1
  <1> QED
    BY <1>1, <1>2 DEF Inside

LEMMA GrowsValid ==
  ASSUME NEW L, NEW M, NEW w, NEW a, NEW b, NEW r, LogOK(L, w, a, r), Grows(L, M, w, a, b),
         NEW f, NEW p, Valid(L, a, f, p)
  PROVE  /\ f \in File /\ p \in Nat /\ p <= Len(L[f])
         /\ Valid(M, b, f, p)
  <1>1. f \in File /\ p \in Nat /\ p <= Len(L[f]) /\ f <= a
    BY At DEF Valid, LogOK
  <1>2. f \in Nat /\ a \in Nat /\ b \in Nat /\ a <= b
    BY <1>1, Bounds DEF LogOK, Grows
  <1>3. p <= Len(M[f]) /\ Len(M[f]) \in Nat
    BY <1>1, GrowsAt
  <1> QED
    BY <1>1, <1>2, <1>3 DEF Valid

(* A statement of the later log is one of the first, or lies after every     *)
(* position of it and has a greater number.                                  *)
LEMMA GrowsQuery ==
  ASSUME NEW L, NEW M, NEW w, NEW a, NEW b, NEW r, LogOK(L, w, a, r), Grows(L, M, w, a, b),
         NEW h \in File, NEW j \in Nat
  PROVE  /\ IsQuery(L, h, j) => IsQuery(M, h, j) /\ M[h][j] = L[h][j]
         /\ IsQuery(M, h, j) /\ ~ IsQuery(L, h, j) =>
              /\ M[h][j].n \in Nat /\ M[h][j].n > w
              /\ \A f, p : Valid(L, a, f, p) => ~ Past(f, p, h, j)
  <1>1. Len(L[h]) \in Nat /\ Len(M[h]) \in Nat /\ Len(L[h]) <= Len(M[h])
    BY At DEF LogOK, Grows
  <1>2. j \in 1 .. Len(L[h]) => M[h][j] = L[h][j] /\ j \in 1 .. Len(M[h])
    BY <1>1 DEF Grows
  <1>3. ASSUME IsQuery(M, h, j), ~ IsQuery(L, h, j)
        PROVE  /\ M[h][j].n \in Nat /\ M[h][j].n > w
               /\ \A f, p : Valid(L, a, f, p) => ~ Past(f, p, h, j)
    <2>1. j > Len(L[h])
      BY <1>1, <1>2, <1>3 DEF IsQuery
    <2>2. h = a /\ M[h][j].n > w
      BY <1>3, <2>1 DEF Grows
    <2>3. M[h][j] \in Events
      BY <1>3, At DEF IsQuery, Grows
    <2>4. ASSUME NEW f, NEW p, Valid(L, a, f, p)
          PROVE  ~ Past(f, p, h, j)
      <3>1. f \in Nat /\ h \in Nat /\ f <= h /\ (f = h => p <= Len(L[h]))
        BY <2>2, <2>4, Bounds, At DEF Valid, LogOK
      <3>2. f = h => p \in Nat
        BY <2>4, <1>1 DEF Valid
      <3> QED
        BY <3>1, <3>2, <2>1, <1>1 DEF Past
    <2> QED
      BY <2>2, <2>3, <2>4, EventKinds
  <1> QED
    BY <1>2, <1>3 DEF IsQuery

LEMMA GrowsSeen ==
  ASSUME NEW L, NEW M, NEW w, NEW a, NEW b, NEW r, LogOK(L, w, a, r), Grows(L, M, w, a, b),
         NEW f, NEW p, Valid(L, a, f, p), NEW k \in Nat, k <= w, Seen(L, f, p, k)
  PROVE  Seen(M, f, p, k)
  <1> SUFFICES ASSUME NEW h \in File, NEW j \in Nat, IsQuery(M, h, j)
               PROVE  M[h][j].n <= k <=> Past(f, p, h, j)
    BY DEF Seen
  <1>1. CASE IsQuery(L, h, j)
    BY <1>1, GrowsQuery DEF Seen
  <1>2. CASE ~ IsQuery(L, h, j)
    <2>1. M[h][j].n \in Nat /\ M[h][j].n > w /\ ~ Past(f, p, h, j)
      BY <1>2, GrowsQuery
    <2> QED
      BY <2>1, Bounds DEF LogOK
  <1> QED
    BY <1>1, <1>2

LEMMA GrowsSkips ==
  ASSUME NEW L, NEW M, NEW w, NEW a, NEW b, NEW r, LogOK(L, w, a, r), Grows(L, M, w, a, b),
         NEW f, NEW p, Valid(L, a, f, p), NEW g, Valid(L, a, g, 0), Skips(L, f, p, g)
  PROVE  Skips(M, f, p, g)
  <1> SUFFICES ASSUME NEW h \in File, NEW j \in Nat, IsQuery(M, h, j)
               PROVE  Past(f, p, h, j) <=> Past(g, 0, h, j)
    BY DEF Skips
  <1>1. CASE IsQuery(L, h, j)
    BY <1>1 DEF Skips
  <1>2. CASE ~ IsQuery(L, h, j)
    BY <1>2, GrowsQuery
  <1> QED
    BY <1>1, <1>2

LEMMA GrowsHop ==
  ASSUME NEW L, NEW M, NEW w, NEW a, NEW b, NEW r, LogOK(L, w, a, r), Grows(L, M, w, a, b),
         NEW f, NEW p, Valid(L, a, f, p), NEW g, NEW q, Valid(L, a, g, q),
         NEW e, Hop(L, e, f, p, g, q)
  PROVE  Hop(M, e, f, p, g, q)
  <1>1. /\ f \in File /\ p \in Nat /\ p <= Len(L[f])
        /\ g \in File /\ q \in Nat /\ q <= Len(L[g])
    BY GrowsValid
  <1>2. CASE f = g /\ q = p + 1 /\ q \in 1 .. Len(L[f]) /\ e = L[f][q]
    BY <1>1, <1>2, GrowsAt DEF Hop
  <1>3. CASE /\ e.type = "rotate" /\ e.n = g /\ q = 0
             /\ ~ Inside(L, f, p)
             /\ NoGap => Skips(L, f, p, g)
    <2>1. ~ Inside(M, f, p)
      BY <1>1, <1>3, GrowsAt
    <2>2. NoGap => Skips(M, f, p, g)
      BY <1>3, GrowsSkips
    <2> QED
      BY <1>3, <2>1, <2>2 DEF Hop
  <1> QED
    BY <1>2, <1>3 DEF Hop

LEMMA GrowsSync ==
  ASSUME NEW L, NEW M, NEW w, NEW a, NEW b, NEW r, LogOK(L, w, a, r), Grows(L, M, w, a, b),
         NEW f, NEW p, Valid(L, a, f, p), NEW m, NEW s, Sync(L, m, s, f, p)
  PROVE  Sync(M, m, s, f, p)
  <1>1. f \in File /\ p \in Nat /\ p <= Len(L[f])
    BY GrowsValid
  <1>2. \A j \in 1 .. p : M[f][j] = L[f][j]
    BY <1>1, At DEF Grows, LogOK
  <1>3. Turned(L, m, f, p) => Turned(M, m, f, p)
    BY <1>1, <1>2 DEF Turned
  <1> QED
    BY <1>3 DEF Sync

LEMMA GrowsChain ==
  ASSUME NEW L, NEW M, NEW w, NEW a, NEW b, NEW r, LogOK(L, w, a, r), Grows(L, M, w, a, b),
         NEW N \in Seq(Events), NEW pf, NEW pp, Chain(L, a, N, pf, pp)
  PROVE  Chain(M, b, N, pf, pp)
  <1>1. Len(N) \in Nat
    OBVIOUS
  <1>2. \A i \in 1 .. Len(N) + 1 : Valid(M, b, pf[i], pp[i])
    BY GrowsValid DEF Chain
  <1>3. ASSUME NEW i \in 1 .. Len(N)
        PROVE  Hop(M, N[i], pf[i], pp[i], pf[i+1], pp[i+1])
    <2>1. i \in 1 .. Len(N) + 1 /\ i + 1 \in 1 .. Len(N) + 1
      BY <1>1
    <2>2. Valid(L, a, pf[i], pp[i]) /\ Valid(L, a, pf[i+1], pp[i+1])
      BY <2>1 DEF Chain
    <2>3. Hop(L, N[i], pf[i], pp[i], pf[i+1], pp[i+1])
      BY DEF Chain
    <2> QED
      BY <2>2, <2>3, GrowsHop
  <1> QED
    BY <1>2, <1>3 DEF Chain

LEMMA GrowsLink ==
  ASSUME NEW L, NEW M, NEW w, NEW a, NEW b, NEW r, LogOK(L, w, a, r), Grows(L, M, w, a, b),
         NEW N \in Seq(Events), NEW d, NEW e, e = d \/ (e.pc # "none" =>
            d.pc # "none" /\ e.file = d.file /\ e.pos = d.pos),
         NEW m, NEW s, Link(L, a, N, d, m, s)
  PROVE  Link(M, b, N, e, m, s)
  <1>1. PICK pf, pp : /\ Chain(L, a, N, pf, pp)
                      /\ Sent(d, Len(N) + 1, pf, pp)
                      /\ Sync(L, m, s, pf[1], pp[1])
    BY DEF Link
  <1>2. Chain(M, b, N, pf, pp)
    BY <1>1, GrowsChain
  <1>3. Sent(e, Len(N) + 1, pf, pp)
    BY <1>1 DEF Sent
  <1>4. 1 \in 1 .. Len(N) + 1
    OBVIOUS
  <1>5. Valid(L, a, pf[1], pp[1])
    BY <1>1, <1>4 DEF Chain
  <1>6. Sync(M, m, s, pf[1], pp[1])
    BY <1>1, <1>5, GrowsSync
  <1> QED
    BY <1>2, <1>3, <1>6 DEF Link

LEMMA GrowsPlaced ==
  ASSUME NEW L, NEW M, NEW w, NEW a, NEW b, NEW r, LogOK(L, w, a, r), Grows(L, M, w, a, b),
         NEW m \in [file : File, pos : Nat, pending : {0, 1}],
         NEW s \in {"stopped", "connect", "read", "executed"}, Placed(L, a, m, s)
  PROVE  /\ Placed(M, b, m, s)
         /\ m.pending = 1 => M[m.file][m.pos + 1] = L[m.file][m.pos + 1]
         /\ s = "executed" => M[m.file][Here(m, s)] = L[m.file][Here(m, s)]
  <1>1. m.file \in File /\ m.pos \in Nat /\ m.pending \in {0, 1} /\ Here(m, s) \in Nat
    BY DEF Here
  <1>2. m.pos <= Len(L[m.file]) /\ Here(m, s) <= Len(L[m.file])
    BY GrowsValid DEF Placed
  <1>3. Valid(M, b, m.file, m.pos) /\ Valid(M, b, m.file, Here(m, s))
    BY GrowsValid DEF Placed
  <1>4. m.pos > 0 => M[m.file][m.pos] = L[m.file][m.pos]
    BY <1>1, <1>2, GrowsAt
  <1>5. Here(m, s) > 0 => M[m.file][Here(m, s)] = L[m.file][Here(m, s)]
    BY <1>1, <1>2, GrowsAt
  <1>6. m.pending = 1 => M[m.file][m.pos + 1] = L[m.file][m.pos + 1]
    <2>1. m.pending = 1 => m.pos + 1 <= Len(L[m.file])
      BY <1>1, <1>2, At DEF Here, LogOK
    <2> QED
      BY <2>1, <1>1, GrowsAt
  <1>7. s = "executed" => IsQuery(M, m.file, Here(m, s)) /\ Here(m, s) > 0
    BY <1>1, GrowsQuery DEF Placed, IsQuery
  <1> QED
    BY <1>3, <1>4, <1>5, <1>6, <1>7 DEF Placed

LEMMA GrowsCounts ==
  ASSUME NEW L, NEW M, NEW w, NEW a, NEW b, NEW r, LogOK(L, w, a, r), Grows(L, M, w, a, b),
         NEW m, NEW s, Placed(L, a, m, s), NEW d \in Nat, d <= w, NEW l, NEW c,
         Counts(L, m, s, d, l, c)
  PROVE  Counts(M, m, s, d, l, c)
  <1>1. Valid(L, a, m.file, m.pos) /\ Valid(L, a, m.file, Here(m, s)) /\ w \in Nat
    BY Bounds DEF Placed, LogOK
  <1>2. Seen(L, m.file, m.pos, d) => Seen(M, m.file, m.pos, d)
    BY <1>1, GrowsSeen
  <1>3. Seen(L, m.file, Here(m, s), d) => Seen(M, m.file, Here(m, s), d)
    BY <1>1, GrowsSeen
  <1>4. d > 0 /\ Seen(L, m.file, m.pos, d - 1) => Seen(M, m.file, m.pos, d - 1)
    <2>1. d > 0 => d - 1 \in Nat /\ d - 1 <= w
      BY <1>1
    <2> QED
      BY <2>1, <1>1, GrowsSeen
  <1> QED
    BY <1>2, <1>3, <1>4 DEF Counts

-----------------------------------------------------------------------------
(* How the log grows.                                                        *)

(* Events are added: to the active file, with at most one statement, at q,   *)
(* and to files that were empty.                                             *)
Extends(L, M, w, v, a, b, r, q) ==
    /\ Grows(L, M, w, a, b)
    /\ \A f \in File : \A j \in 1 .. Len(M[f]) :
         j > Len(L[f]) => EventRight(M[f], v, b, r, f, j)
    /\ v \in 0 .. MaxStatement
    /\ v = w \/ (v = w + 1 /\ IsQuery(M, a, q) /\ M[a][q].n = v)
    /\ \A h \in File, j \in Nat : IsQuery(M, h, j) /\ j > Len(L[h]) =>
         h = a /\ j = q /\ v = w + 1 /\ M[h][j].n = v
    /\ \A f \in File : f > b => M[f] = <<>>

LEMMA ExtendEvents ==
  ASSUME NEW L, NEW M, NEW w, NEW v, NEW a, NEW b, NEW r, NEW s, NEW q \in Nat,
         LogOK(L, w, a, r), Extends(L, M, w, v, a, b, s, q), s = 0 => r = 0
  PROVE  FilesRight(M, v, b, s)
  <1> SUFFICES ASSUME NEW f \in File, NEW j \in 1 .. Len(M[f])
               PROVE  EventRight(M[f], v, b, s, f, j)
    BY DEF FilesRight
  <1>1. /\ w \in Nat /\ v \in Nat /\ w <= v
        /\ a \in Nat /\ b \in Nat /\ a <= b /\ f \in Nat
        /\ Len(L[f]) \in Nat /\ Len(M[f]) \in Nat /\ Len(L[f]) <= Len(M[f])
        /\ M[f][j] \in Events
    <2>1. w \in Nat /\ a \in Nat /\ f \in Nat /\ L \in [File -> Seq(Events)]
      BY Bounds DEF LogOK
    <2>2. /\ M \in [File -> Seq(Events)] /\ b \in File /\ a <= b
          /\ Len(L[f]) <= Len(M[f])
      BY DEF Extends, Grows
    <2>3. v \in Nat /\ w <= v
      BY <2>1, Bounds DEF Extends
    <2>4. b \in Nat
      BY <2>2, Bounds
    <2>5. Len(L[f]) \in Nat /\ Len(M[f]) \in Nat /\ M[f][j] \in Events
      BY <2>1, <2>2, At
    <2> QED
      BY <2>1, <2>2, <2>3, <2>4, <2>5
  <1>2. CASE j > Len(L[f])
    BY <1>2 DEF Extends
  <1>3. CASE j <= Len(L[f])
    <2>1. j \in 1 .. Len(L[f]) /\ M[f][j] = L[f][j]
      BY <1>1, <1>3 DEF Extends, Grows
    <2>2. EventRight(L[f], w, a, r, f, j)
      BY <2>1 DEF LogOK, FilesRight
    <2>3. f <= a
      BY <2>1, <1>1 DEF LogOK
    <2>4. M[f][j].n \in Nat
      BY <1>1, EventKinds
    <2>5. CASE f < a
      <3>1. M[f] = L[f]
        BY <2>5 DEF Extends, Grows
      <3> QED
        BY <3>1, <2>2, <2>4, <2>5, <1>1 DEF EventRight
    <2>6. CASE f = a
      <3>1. L[f][j].type # "rotate" /\ L[f][j].type # "stop"
        BY <2>2, <2>6, <1>1 DEF EventRight
      <3>2. \A i \in 1 .. Len(L[f]) : M[f][i] = L[f][i]
        BY DEF Extends, Grows
      <3>3. j > 1 => M[f][j-1] = L[f][j-1]
        <4>1. j > 1 => j - 1 \in 1 .. Len(L[f])
          BY <2>1, <1>1
        <4> QED
          BY <4>1, <3>2
      <3>4. j < Len(L[f]) => M[f][j+1] = L[f][j+1] /\ j < Len(M[f])
        BY <3>2, <2>1, <1>1
      <3>5. M[f][j].type # "rotate" /\ M[f][j].type # "stop"
        BY <3>1, <2>1
      <3>6. M[f][j].type = "query" =>
              /\ M[f][j].n <= v
              /\ M[f][j].n \in AutoInc =>
                   j > 1 /\ M[f][j-1].type = "intvar" /\ M[f][j-1].n = M[f][j].n
        <4>1. SUFFICES ASSUME L[f][j].type = "query"
                       PROVE  /\ L[f][j].n <= v
                              /\ L[f][j].n \in AutoInc =>
                                   /\ j > 1 /\ L[f][j-1].type = "intvar"
                                   /\ L[f][j-1].n = L[f][j].n
          BY <3>3, <2>1
        <4>2. /\ L[f][j].n <= w
              /\ L[f][j].n \in AutoInc =>
                   j > 1 /\ L[f][j-1].type = "intvar" /\ L[f][j-1].n = L[f][j].n
          BY <4>1, <2>2 DEF EventRight
        <4>3. L[f][j].n <= v
          BY <4>2, <2>1, <2>4, <1>1
        <4> QED
          BY <4>2, <4>3
      <3>7. M[f][j].type = "intvar" =>
              j < Len(M[f]) /\ M[f][j+1].type = "query" /\ M[f][j+1].n = M[f][j].n
        BY <3>4, <2>1, <2>2 DEF EventRight
      <3>8. M[f][j].type = "start" => j = 1 /\ (s = 0 => f = 1)
        BY <2>1, <2>2 DEF EventRight
      <3> QED
        BY <3>5, <3>6, <3>7, <3>8 DEF EventRight
    <2> QED
      BY <2>3, <2>5, <2>6, <1>1
  <1> QED
    BY <1>1, <1>2, <1>3

LEMMA ExtendOrder ==
  ASSUME NEW L, NEW M, NEW w, NEW v, NEW a, NEW b, NEW r, NEW s, NEW q \in Nat,
         LogOK(L, w, a, r), Extends(L, M, w, v, a, b, s, q)
  PROVE  InOrder(M) /\ AllThere(M, v)
  <1>1. Grows(L, M, w, a, b) /\ w \in Nat /\ v \in Nat /\ a \in File
    BY Bounds DEF Extends, LogOK
  <1>2. ASSUME NEW h \in File, NEW j \in Nat, IsQuery(M, h, j), ~ IsQuery(L, h, j)
        PROVE  h = a /\ j = q /\ v = w + 1 /\ M[h][j].n = v /\ j > Len(L[h])
    <2>1. Len(L[h]) \in Nat /\ \A i \in 1 .. Len(L[h]) : M[h][i] = L[h][i]
      BY At DEF LogOK, Extends, Grows
    <2>2. j > Len(L[h])
      BY <1>2, <2>1 DEF IsQuery
    <2> QED
      BY <1>2, <2>2 DEF Extends
  <1>3. ASSUME NEW h \in File, NEW j \in Nat, IsQuery(L, h, j)
        PROVE  /\ M[h][j] = L[h][j] /\ M[h][j].n <= w /\ M[h][j].n \in Nat
               /\ Valid(L, a, h, j)
    <2>1. M[h][j] = L[h][j]
      BY <1>1, <1>3, GrowsQuery
    <2>2. h <= a
      <3>1. h > a => L[h] = <<>>
        BY DEF LogOK
      <3> QED
        BY <3>1, <1>1, <1>3, Bounds DEF IsQuery
    <2>3. Valid(L, a, h, j)
      BY <2>2, <1>3, At DEF Valid, IsQuery, LogOK
    <2> QED
      BY <2>1, <2>3, <1>3, QueryAt
  <1>4. ASSUME NEW f \in File, NEW h \in File, NEW i \in Nat, NEW j \in Nat,
               IsQuery(M, f, i), IsQuery(M, h, j), ~ Past(f, i, h, j)
        PROVE  M[f][i].n < M[h][j].n
    <2>1. CASE IsQuery(L, f, i) /\ IsQuery(L, h, j)
      <3>1. L[f][i].n < L[h][j].n
        BY <2>1, <1>4 DEF LogOK, InOrder
      <3> QED
        BY <3>1, <2>1, <1>3
    <2>2. CASE IsQuery(L, f, i) /\ ~ IsQuery(L, h, j)
      <3>1. M[f][i].n <= w /\ M[f][i].n \in Nat /\ M[h][j].n = w + 1
        BY <2>2, <1>2, <1>3, <1>4
      <3> QED
        BY <3>1, <1>1
    <2>3. CASE ~ IsQuery(L, f, i) /\ IsQuery(L, h, j)
      <3>1. f = a /\ i > Len(L[f]) /\ h <= a /\ (h = a => j <= Len(L[h]))
        BY <2>3, <1>2, <1>3, <1>4 DEF Valid
      <3>2. Len(L[a]) \in Nat /\ h \in Nat /\ a \in Nat
        BY <1>1, At, Bounds DEF LogOK
      <3> QED
        BY <3>1, <3>2, <1>4 DEF Past
    <2>4. CASE ~ IsQuery(L, f, i) /\ ~ IsQuery(L, h, j)
      <3>1. f = h /\ i = j
        BY <2>4, <1>2, <1>4
      <3> QED
        BY <3>1, <1>4 DEF Past
    <2> QED
      BY <2>1, <2>2, <2>3, <2>4
  <1>5. ASSUME NEW n \in 1 .. v
        PROVE  \E h \in File : \E j \in Nat : IsQuery(M, h, j) /\ M[h][j].n = n
    <2>1. CASE n \in 1 .. w
      <3>1. PICK h \in File : \E j \in Nat : IsQuery(L, h, j) /\ L[h][j].n = n
        BY <2>1 DEF LogOK, AllThere
      <3>2. PICK j \in Nat : IsQuery(L, h, j) /\ L[h][j].n = n
        BY <3>1
      <3>3. IsQuery(M, h, j) /\ M[h][j].n = n
        BY <3>2, <1>1, GrowsQuery
      <3> QED
        BY <3>3
    <2>2. CASE n \notin 1 .. w
      <3>1. v # w
        BY <2>2
      <3>2. v = w + 1 /\ IsQuery(M, a, q) /\ M[a][q].n = v
        BY <3>1 DEF Extends
      <3>3. n = v
        BY <3>2, <2>2, <1>1
      <3> QED
        BY <3>2, <3>3, <1>1
    <2> QED
      BY <2>1, <2>2
  <1> QED
    BY <1>4, <1>5 DEF InOrder, AllThere

LEMMA ExtendLog ==
  ASSUME NEW L, NEW M, NEW w, NEW v, NEW a, NEW b, NEW r, NEW s \in Nat, NEW q \in Nat,
         LogOK(L, w, a, r), Extends(L, M, w, v, a, b, s, q), s = 0 => r = 0
  PROVE  LogOK(M, v, b, s) /\ Grows(L, M, w, a, b)
  <1>1. FilesRight(M, v, b, s)
    BY ExtendEvents
  <1>2. InOrder(M) /\ AllThere(M, v)
    BY ExtendOrder
  <1> QED
    BY <1>1, <1>2 DEF LogOK, Extends, Grows

LEMMA GrowsTrans ==
  ASSUME NEW L, NEW K, NEW M, NEW w, NEW a, NEW b, NEW r, LogOK(L, w, a, r),
         Grows(L, K, w, a, a), Grows(K, M, w + 1, a, b), LogOK(K, w + 1, a, r)
  PROVE  Grows(L, M, w, a, b)
  <1>1. w \in Nat /\ \A f \in File : Len(L[f]) \in Nat /\ Len(K[f]) \in Nat /\ Len(M[f]) \in Nat
    BY Bounds, At DEF LogOK, Grows
  <1>2. \A f \in File : Len(L[f]) <= Len(M[f])
    BY <1>1 DEF Grows
  <1>3. ASSUME NEW f \in File, NEW j \in 1 .. Len(L[f])
        PROVE  M[f][j] = L[f][j]
    <2>1. j \in 1 .. Len(K[f])
      BY <1>1 DEF Grows
    <2> QED
      BY <2>1 DEF Grows
  <1>4. \A f \in File : f < a => M[f] = L[f]
    BY DEF Grows
  <1>5. ASSUME NEW h \in File, NEW j \in Nat, IsQuery(M, h, j), j > Len(L[h])
        PROVE  h = a /\ M[h][j].n > w
    <2>1. CASE IsQuery(K, h, j)
      <3>1. h = a /\ K[h][j].n > w
        BY <2>1, <1>5 DEF Grows
      <3>2. M[h][j] = K[h][j]
        BY <2>1 DEF Grows, IsQuery
      <3> QED
        BY <3>1, <3>2
    <2>2. CASE ~ IsQuery(K, h, j)
      <3>1. ~ (j \in 1 .. Len(K[h]))
        BY <2>2, <1>5 DEF Grows, IsQuery
      <3>2. j > Len(K[h])
        BY <3>1, <1>1, <1>5
      <3>3. h = a /\ M[h][j].n > w + 1
        BY <3>2, <1>5 DEF Grows
      <3>4. M[h][j] \in Events
        BY <1>5, At DEF Grows, IsQuery
      <3> QED
        BY <3>3, <3>4, EventKinds, <1>1
    <2> QED
      BY <2>1, <2>2
  <1> QED
    BY <1>2, <1>3, <1>4, <1>5 DEF Grows

(* MYSQL_LOG::write() in one file. *)
LEMMA AppendLog ==
  ASSUME NEW L, NEW w, NEW a, NEW r, LogOK(L, w, a, r), w + 1 \in Statement,
         NEW S, S = L[a] \o (IF w + 1 \in AutoInc THEN <<Intvar(w + 1)>> ELSE <<>>)
                         \o <<Query(w + 1)>>,
         NEW M, M = [L EXCEPT ![a] = S]
  PROVE  LogOK(M, w + 1, a, r) /\ Grows(L, M, w, a, a)
  <1> DEFINE l == Len(L[a])
             q == Len(S)
  <1>1. /\ w \in Nat /\ a \in File /\ a \in Nat /\ r \in Nat
        /\ L \in [File -> Seq(Events)] /\ L[a] \in Seq(Events) /\ l \in Nat
    BY Bounds DEF LogOK
  <1>2. Query(w + 1) \in Events /\ (w + 1 \in AutoInc => Intvar(w + 1) \in Events)
    BY Made
  <1>3. /\ S \in Seq(Events) /\ q \in Nat /\ q > l
        /\ \A j \in 1 .. l : S[j] = L[a][j]
        /\ S[q] = Query(w + 1)
        /\ w + 1 \in AutoInc => q = l + 2 /\ S[l + 1] = Intvar(w + 1)
        /\ w + 1 \notin AutoInc => q = l + 1
    <2>1. CASE w + 1 \in AutoInc
      <3> DEFINE A == L[a] \o <<Intvar(w + 1)>>
      <3>1. /\ A \in Seq(Events) /\ Len(A) = l + 1 /\ A[l + 1] = Intvar(w + 1)
            /\ \A j \in 1 .. l : A[j] = L[a][j]
        BY <2>1, <1>1, <1>2
      <3> HIDE DEF A
      <3>2. S = A \o <<Query(w + 1)>>
        BY <2>1 DEF A
      <3>3. /\ S \in Seq(Events) /\ Len(S) = l + 2 /\ S[l + 2] = Query(w + 1)
            /\ \A j \in 1 .. l + 1 : S[j] = A[j]
        BY <3>1, <3>2, <1>1, <1>2
      <3> QED
        BY <3>1, <3>3, <2>1, <1>1
    <2>2. CASE w + 1 \notin AutoInc
      <3>1. S = L[a] \o <<Query(w + 1)>>
        BY <2>2, <1>1
      <3>2. /\ S \in Seq(Events) /\ Len(S) = l + 1 /\ S[l + 1] = Query(w + 1)
            /\ \A j \in 1 .. l : S[j] = L[a][j]
        BY <3>1, <1>1, <1>2
      <3> QED
        BY <3>2, <2>2, <1>1
    <2> QED
      BY <2>1, <2>2
  <1> HIDE DEF q
  <1>4. /\ M \in [File -> Seq(Events)] /\ M[a] = S
        /\ \A f \in File : f # a => M[f] = L[f]
    BY <1>1, <1>3
  <1>5. \A j \in 1 .. q : j > l => \/ j = q /\ S[j] = Query(w + 1)
                                   \/ j = l + 1 /\ q = l + 2 /\ S[j] = Intvar(w + 1)
    BY <1>1, <1>3
  <1>6. /\ \A n : Query(n).type = "query" /\ Query(n).n = n
        /\ \A n : Intvar(n).type = "intvar" /\ Intvar(n).n = n
    BY Made
  <1>7. Len(M[a]) = q
    BY <1>4 DEF q
  <1>8. ASSUME NEW h \in File, NEW j \in Nat, IsQuery(M, h, j), j > Len(L[h])
        PROVE  h = a /\ j = q /\ M[h][j].n = w + 1 /\ M[h][j].n > w
    <2>1. h = a
      BY <1>4, <1>8 DEF IsQuery
    <2>2. j \in 1 .. q /\ S[j].type = "query"
      BY <2>1, <1>4, <1>7, <1>8 DEF IsQuery
    <2>3. j = q
      BY <2>1, <2>2, <1>5, <1>6, <1>8
    <2>4. M[h][j].n = w + 1
      BY <2>1, <2>3, <1>3, <1>4, <1>6
    <2>5. w + 1 > w
      BY <1>1
    <2> QED
      BY ONLY <2>1, <2>3, <2>4, <2>5
  <1>9. ASSUME NEW f \in File, NEW j \in 1 .. Len(M[f]), j > Len(L[f])
        PROVE  EventRight(M[f], w + 1, a, r, f, j)
    <2>1. f = a
      <3> SUFFICES ASSUME f # a PROVE FALSE
        OBVIOUS
      <3>1. M[f] = L[f] /\ Len(L[f]) \in Nat
        BY <1>1, <1>4
      <3> QED
        BY <3>1, <1>9
    <2>2. j \in 1 .. q /\ j > l
      BY <2>1, <1>7, <1>9
    <2>3. CASE j = q
      <3>1. S[j].type = "query" /\ S[j].n = w + 1
        BY <2>3, <1>3, <1>6
      <3>2. w + 1 \in AutoInc => j > 1 /\ S[j-1].type = "intvar" /\ S[j-1].n = w + 1
        <4>1. w + 1 \in AutoInc => j - 1 = l + 1
          BY <2>3, <1>1, <1>3
        <4> QED
          BY <4>1, <2>3, <1>1, <1>3, <1>6
      <3>3. M[f] = S /\ w + 1 <= w + 1
        BY <2>1, <1>1, <1>4
      <3> HIDE DEF l
      <3> QED
        BY <3>1, <3>2, <3>3 DEF EventRight
    <2>4. CASE j = l + 1 /\ q = l + 2
      <3>1. S[j].type = "intvar" /\ S[j].n = w + 1
        BY <2>2, <2>4, <1>1, <1>5, <1>6
      <3>2. j < Len(S) /\ j + 1 = q /\ S[j + 1].type = "query" /\ S[j + 1].n = w + 1
        BY <2>4, <1>1, <1>3, <1>6 DEF q
      <3> QED
        BY <3>1, <3>2, <2>1, <1>4 DEF EventRight
    <2> QED
      BY <2>2, <2>3, <2>4, <1>5
  <1>10. Grows(L, M, w, a, a)
    <2>1. \A f \in File : Len(L[f]) <= Len(M[f])
      BY <1>1, <1>3, <1>4, <1>7
    <2>2. \A f \in File : \A j \in 1 .. Len(L[f]) : M[f][j] = L[f][j]
      BY <1>3, <1>4
    <2>3. \A f \in File : f < a => M[f] = L[f]
      BY <1>1, <1>4
    <2>4. \A h \in File, j \in Nat : IsQuery(M, h, j) /\ j > Len(L[h]) => h = a /\ M[h][j].n > w
      BY <1>8
    <2>5. M \in [File -> Seq(Events)] /\ a \in File /\ a <= a
      BY <1>1, <1>4
    <2> QED
      BY <2>1, <2>2, <2>3, <2>4, <2>5 DEF Grows
  <1>11. Extends(L, M, w, w + 1, a, a, r, q)
    <2>1. IsQuery(M, a, q) /\ M[a][q].n = w + 1
      BY <1>1, <1>3, <1>4, <1>6, <1>7 DEF IsQuery
    <2>2. \A f \in File : f > a => M[f] = <<>>
      BY <1>1, <1>4 DEF LogOK
    <2>3. w + 1 \in 0 .. MaxStatement
      BY DEF Statement
    <2> QED
      BY <2>1, <2>2, <2>3, <1>8, <1>9, <1>10 DEF Extends
  <1> QED
    BY <1>1, <1>3, <1>11, ExtendLog

(* new_file(). *)
LEMMA RotateLog ==
  ASSUME NEW L, NEW w, NEW a, NEW r, LogOK(L, w, a, r), a + 1 \in File,
         NEW M \in [File -> Seq(Events)], M[a] = L[a] \o <<Rotate(a + 1), Stop>>,
         \A f \in File : f # a => M[f] = L[f]
  PROVE  /\ LogOK(M, w, a + 1, r) /\ Grows(L, M, w, a, a + 1)
         /\ Len(M[a]) > Len(L[a]) /\ M[a + 1] = <<>>
  <1> DEFINE l == Len(L[a])
             S == L[a] \o <<Rotate(a + 1), Stop>>
  <1>1. /\ w \in Nat /\ a \in File /\ a \in Nat /\ r \in Nat
        /\ L \in [File -> Seq(Events)] /\ L[a] \in Seq(Events) /\ l \in Nat
    BY Bounds DEF LogOK
  <1>2. Rotate(a + 1) \in Events /\ Stop \in Events
    BY Made
  <1>3. /\ S \in Seq(Events) /\ Len(S) = l + 2
        /\ \A j \in 1 .. l : S[j] = L[a][j]
        /\ S[l + 1] = Rotate(a + 1) /\ S[l + 2] = Stop
    BY <1>1, <1>2
  <1>4. /\ M \in [File -> Seq(Events)] /\ M[a] = S
        /\ \A f \in File : f # a => M[f] = L[f]
    OBVIOUS
  <1> HIDE DEF S
  <1>5. /\ S[l + 1].type = "rotate" /\ S[l + 1].n = a + 1
        /\ S[l + 2].type = "stop"
    BY <1>3, Made
  <1>6. ASSUME NEW h \in File, NEW j \in Nat, j \in 1 .. Len(M[h]), j > Len(L[h])
        PROVE  h = a /\ (j = l + 1 \/ j = l + 2)
    <2>1. h # a => Len(M[h]) = Len(L[h]) /\ Len(L[h]) \in Nat
      BY <1>1, <1>4
    <2> QED
      BY <2>1, <1>1, <1>3, <1>4, <1>6
  <1>7. ASSUME NEW h \in File, NEW j \in Nat, j > Len(L[h])
        PROVE  ~ IsQuery(M, h, j)
    BY <1>4, <1>5, <1>6, <1>7 DEF IsQuery
  <1>8. ASSUME NEW f \in File, NEW j \in 1 .. Len(M[f]), j > Len(L[f])
        PROVE  EventRight(M[f], w, a + 1, r, f, j)
    <2>1. f = a /\ (j = l + 1 \/ j = l + 2)
      BY <1>6, <1>8
    <2>2. CASE j = l + 1
      <3>1. j + 1 = l + 2
        BY <2>2, <1>1
      <3> QED
        BY <3>1, <2>1, <2>2, <1>1, <1>3, <1>4, <1>5 DEF EventRight
    <2>3. CASE j = l + 2
      <3>1. j - 1 = l + 1 /\ j > 1
        BY <2>3, <1>1
      <3> QED
        BY <3>1, <2>1, <2>3, <1>1, <1>3, <1>4, <1>5 DEF EventRight
    <2> QED
      BY <2>1, <2>2, <2>3
  <1>9. Grows(L, M, w, a, a + 1)
    <2>1. \A f \in File : Len(L[f]) <= Len(M[f])
      BY <1>1, <1>3, <1>4
    <2>2. \A f \in File : \A j \in 1 .. Len(L[f]) : M[f][j] = L[f][j]
      BY <1>3, <1>4
    <2>3. \A f \in File : f < a => M[f] = L[f]
      BY <1>1, <1>4
    <2>4. M \in [File -> Seq(Events)] /\ a + 1 \in File /\ a <= a + 1
      BY <1>1, <1>4
    <2> QED
      BY <2>1, <2>2, <2>3, <2>4, <1>7 DEF Grows
  <1>10. \A f \in File : f > a => M[f] = <<>>
    BY <1>1, <1>4 DEF LogOK
  <1>11. \A f \in File : f > a + 1 => M[f] = <<>>
    BY <1>10, <1>1, Bounds
  <1>12. w \in 0 .. MaxStatement
    BY DEF LogOK
  <1>13. Extends(L, M, w, w, a, a + 1, r, 0)
    BY <1>7, <1>8, <1>9, <1>11, <1>12 DEF Extends
  <1>14. LogOK(M, w, a + 1, r)
    BY <1>1, <1>13, ExtendLog
  <1>15. Len(M[a]) > Len(L[a])
    BY <1>1, <1>3, <1>4
  <1> QED
    BY <1>1, <1>9, <1>10, <1>14, <1>15

(* open() after the server has stopped, or died. *)
LEMMA RestartLog ==
  ASSUME NEW L, NEW w, NEW a, NEW r, LogOK(L, w, a, r), NEW f \in File,
         NEW S, S = L[a] \/ (S = Append(L[a], Stop) /\ f = a + 1),
         f = a + 1 \/ (f = a /\ L[a] = <<>>),
         NEW M \in [File -> Seq(Events)], M[f] = <<Start>>, f # a => M[a] = S,
         \A g \in File : g # a /\ g # f => M[g] = L[g]
  PROVE  LogOK(M, w, f, r + 1) /\ Grows(L, M, w, a, f)
  <1> DEFINE l == Len(L[a])
  <1>1. /\ w \in Nat /\ a \in File /\ a \in Nat /\ r \in Nat /\ f \in Nat
        /\ L \in [File -> Seq(Events)] /\ L[a] \in Seq(Events) /\ l \in Nat
    BY Bounds DEF LogOK
  <1>2. Start \in Events /\ Stop \in Events /\ Start.type = "start" /\ Stop.type = "stop"
    BY Made
  <1>3. /\ S \in Seq(Events) /\ Len(S) \in {l, l + 1}
        /\ \A j \in 1 .. l : S[j] = L[a][j]
        /\ Len(S) = l + 1 => S[l + 1] = Stop /\ f = a + 1
    <2>1. CASE S = L[a]
      BY <2>1, <1>1
    <2>2. CASE S = Append(L[a], Stop) /\ f = a + 1
      BY <2>2, <1>1, <1>2
    <2> QED
      BY <2>1, <2>2
  <1>4. /\ M \in [File -> Seq(Events)] /\ M[f] = <<Start>>
        /\ f # a => M[a] = S
        /\ \A g \in File : g # a /\ g # f => M[g] = L[g]
    OBVIOUS
  <1>5. L[f] = <<>> /\ Len(L[f]) = 0
    BY <1>1 DEF LogOK
  <1>6. Len(M[f]) = 1 /\ M[f][1] = Start
    BY <1>4
  <1>7. ASSUME NEW h \in File, NEW j \in Nat, j \in 1 .. Len(M[h]), j > Len(L[h])
        PROVE  \/ h = f /\ j = 1 /\ M[h][j] = Start
               \/ h = a /\ f = a + 1 /\ j = Len(M[h]) /\ M[h][j] = Stop
    <2>1. CASE h = f
      BY <2>1, <1>6, <1>7
    <2>2. CASE h # f /\ h = a
      <3>1. M[h] = S /\ Len(L[h]) = l
        BY <2>2, <1>4
      <3> QED
        BY <3>1, <2>2, <1>1, <1>3, <1>7
    <2>3. CASE h # f /\ h # a
      <3>1. M[h] = L[h] /\ Len(L[h]) \in Nat
        BY <2>3, <1>1, <1>4
      <3> QED
        BY <3>1, <1>7
    <2> QED
      BY <2>1, <2>2, <2>3
  <1>8. ASSUME NEW h \in File, NEW j \in Nat, j > Len(L[h])
        PROVE  ~ IsQuery(M, h, j)
    BY <1>2, <1>7, <1>8 DEF IsQuery
  <1>9. ASSUME NEW h \in File, NEW j \in 1 .. Len(M[h]), j > Len(L[h])
        PROVE  EventRight(M[h], w, f, r + 1, h, j)
    <2>1. CASE h = f /\ j = 1 /\ M[h][j] = Start
      BY <2>1, <1>1, <1>2 DEF EventRight
    <2>2. CASE h = a /\ f = a + 1 /\ j = Len(M[h]) /\ M[h][j] = Stop
      <3>1. h < f /\ r + 1 # 0
        BY <2>2, <1>1
      <3> QED
        BY <3>1, <2>2, <1>2 DEF EventRight
    <2>3. j \in Nat
      OBVIOUS
    <2> QED
      BY <2>1, <2>2, <2>3, <1>7, <1>9
  <1>10. Grows(L, M, w, a, f)
    <2>1. \A g \in File : Len(L[g]) <= Len(M[g])
      <3>1. Len(L[f]) <= Len(M[f])
        BY <1>5, <1>6
      <3>2. f # a => Len(L[a]) <= Len(M[a])
        BY <1>1, <1>3, <1>4
      <3>3. ASSUME NEW g \in File, g # a /\ g # f
            PROVE  Len(L[g]) <= Len(M[g])
        <4>1. M[g] = L[g] /\ Len(L[g]) \in Nat
          BY <3>3, <1>1, <1>4
        <4>2. Len(L[g]) <= Len(L[g])
          BY <4>1
        <4> QED
          BY ONLY <4>1, <4>2
      <3> QED
        BY <3>1, <3>2, <3>3
    <2>2. \A g \in File : \A j \in 1 .. Len(L[g]) : M[g][j] = L[g][j]
      BY <1>3, <1>4, <1>5
    <2>3. \A g \in File : g < a => M[g] = L[g]
      BY <1>1, <1>4, Bounds
    <2>4. a <= f
      BY <1>1
    <2> QED
      BY <2>1, <2>2, <2>3, <2>4, <1>4, <1>8 DEF Grows
  <1>11. \A g \in File : g > f => M[g] = <<>>
    <2>1. \A g \in File : g > f => g > a /\ g # a /\ g # f
      BY <1>1, Bounds
    <2> QED
      BY <2>1, <1>4 DEF LogOK
  <1>12. w \in 0 .. MaxStatement
    BY DEF LogOK
  <1>13. Extends(L, M, w, w, a, f, r + 1, 0)
    <2>1. \A h \in File : \A j \in 1 .. Len(M[h]) :
             j > Len(L[h]) => EventRight(M[h], w, f, r + 1, h, j)
      BY <1>9
    <2> QED
      BY <2>1, <1>8, <1>10, <1>11, <1>12 DEF Extends
  <1>14. LogOK(M, w, f, r + 1)
    <2>1. r + 1 \in Nat /\ r + 1 # 0
      BY <1>1
    <2> QED
      BY <2>1, <1>13, ExtendLog
  <1> QED
    BY <1>10, <1>14

-----------------------------------------------------------------------------
(* The index, and the place of the dump thread.                              *)

LEMMA MaxIs ==
  ASSUME NEW F, F \subseteq File, NEW a \in F, \A f \in F : f <= a
  PROVE  Max(F) = a
  <1>1. \A f \in F : f \in Nat
    BY Bounds
  <1>2. \A x \in F : (\A y \in F : x >= y) <=> x = a
    BY <1>1
  <1> QED
    BY <1>2 DEF Max

LEMMA IndexTypes ==
  ASSUME NEW L, NEW F, NEW I, NEW a, NEW rot, IndexOK(L, F, I, a, rot)
  PROVE  /\ I \in Seq(File) /\ Len(I) \in Nat /\ Len(I) > 0
         /\ a \in File /\ a \in Nat
         /\ \A i \in 1 .. Len(I) : I[i] \in File /\ I[i] \in Nat
         /\ \A f \in F : f \in Nat
  <1>1. I \in Seq(File) /\ I # <<>> /\ a \in File /\ F \subseteq File
    BY DEF IndexOK
  <1>2. Len(I) \in Nat /\ Len(I) > 0 /\ \A i \in 1 .. Len(I) : I[i] \in File
    BY <1>1
  <1> QED
    BY <1>1, <1>2, Bounds

(* A new last entry. *)
LEMMA IndexAppend ==
  ASSUME NEW L, NEW F, NEW I, NEW a, NEW rot, IndexOK(L, F, I, a, rot),
         NEW f \in File, a <= f, \A i \in 1 .. Len(I) : I[i] < f,
         NEW M, \A g \in File : g # f /\ g > I[1] /\ M[g] # <<>> => Listed(I, g)
  PROVE  IndexOK(M, F \cup {f}, Append(I, f), f, FALSE)
  <1> DEFINE J == Append(I, f)
             n == Len(I)
  <1>1. /\ I \in Seq(File) /\ n \in Nat /\ n > 0 /\ a \in Nat /\ f \in Nat
        /\ \A i \in 1 .. n : I[i] \in Nat
        /\ \A g \in F : g \in Nat /\ g <= a
        /\ F \subseteq File
    BY IndexTypes, Bounds DEF IndexOK
  <1>2. /\ J \in Seq(File) /\ Len(J) = n + 1 /\ J[n + 1] = f
        /\ \A i \in 1 .. n : J[i] = I[i]
    BY <1>1
  <1> HIDE DEF J
  <1>3. \A i \in 1 .. n + 1 : i = n + 1 \/ i \in 1 .. n
    BY <1>1
  <1>4. J # <<>> /\ J[Len(J)] = f /\ J[1] = I[1]
    BY <1>1, <1>2
  <1>5. ASSUME NEW i \in 1 .. n + 1, NEW j \in 1 .. n + 1, i < j
        PROVE  J[i] < J[j]
    <2>1. i \in 1 .. n
      BY <1>1, <1>5
    <2>2. CASE j = n + 1
      BY <2>1, <2>2, <1>2
    <2>3. CASE j \in 1 .. n
      BY <2>1, <2>3, <1>2, <1>5 DEF IndexOK
    <2> QED
      BY <2>2, <2>3, <1>3
  <1>6. ASSUME NEW i \in 1 .. n + 1
        PROVE  J[i] \in F \cup {f} /\ J[i] <= f
    <2>1. CASE i = n + 1
      BY <2>1, <1>1, <1>2
    <2>2. CASE i \in 1 .. n
      <3>1. J[i] = I[i] /\ I[i] \in F /\ I[i] < f /\ I[i] \in Nat
        BY <2>2, <1>1, <1>2 DEF IndexOK
      <3> QED
        BY <3>1, <1>1
    <2> QED
      BY <2>1, <2>2, <1>3
  <1>7. \A g \in F \cup {f} : g <= f
    BY <1>1
  <1>8. ASSUME NEW g \in File, g > J[1], M[g] # <<>>
        PROVE  Listed(J, g)
    <2>1. CASE g = f
      BY <2>1, <1>1, <1>2 DEF Listed
    <2>2. CASE g # f
      <3>1. PICK i \in 1 .. n : I[i] = g
        BY <2>2, <1>4, <1>8 DEF Listed
      <3>2. i \in 1 .. n + 1 /\ J[i] = g
        BY <3>1, <1>1, <1>2
      <3> QED
        BY <3>2, <1>2 DEF Listed
    <2> QED
      BY <2>1, <2>2
  <1> HIDE DEF n
  <1>9. F \cup {f} \subseteq File /\ f \in F \cup {f}
    BY <1>1
  <1> QED
    BY <1>2, <1>4, <1>5, <1>6, <1>7, <1>8, <1>9 DEF IndexOK, J

(* new_file() changes the name of the active log. *)
LEMMA IndexRotate ==
  ASSUME NEW L, NEW F, NEW I, NEW a, IndexOK(L, F, I, a, FALSE),
         NEW b \in File, b = a + 1,
         NEW M, \A g \in File : g # a => M[g] = L[g]
  PROVE  IndexOK(M, F \cup {b}, I, b, TRUE)
  <1>1. /\ I \in Seq(File) /\ Len(I) \in Nat /\ Len(I) > 0 /\ a \in Nat /\ b \in Nat
        /\ \A i \in 1 .. Len(I) : I[i] \in Nat
        /\ \A g \in F : g \in Nat /\ g <= a
        /\ F \subseteq File /\ I # <<>>
    BY IndexTypes, Bounds DEF IndexOK
  <1>2. \A i \in 1 .. Len(I) : I[i] \in F /\ I[i] <= a
    BY DEF IndexOK
  <1>3. \A i \in 1 .. Len(I) : I[i] \in F \cup {b} /\ I[i] <= b /\ I[i] < b
    BY <1>1, <1>2
  <1>4. \A g \in F \cup {b} : g <= b
    BY <1>1
  <1>5. ASSUME NEW g \in File, g > I[1], M[g] # <<>>
        PROVE  Listed(I, g)
    <2>1. CASE g = a
      <3>1. I[Len(I)] = a /\ Len(I) \in 1 .. Len(I)
        BY <1>1 DEF IndexOK
      <3> QED
        BY <3>1, <2>1 DEF Listed
    <2>2. CASE g # a
      BY <2>2, <1>5 DEF IndexOK
    <2> QED
      BY <2>1, <2>2
  <1>6. \A i, j \in 1 .. Len(I) : i < j => I[i] < I[j]
    BY DEF IndexOK
  <1> QED
    BY <1>1, <1>3, <1>4, <1>5, <1>6 DEF IndexOK

(* An event is written to the active file. *)
LEMMA IndexSame ==
  ASSUME NEW L, NEW F, NEW I, NEW a, IndexOK(L, F, I, a, FALSE),
         NEW M, \A g \in File : g # a => M[g] = L[g]
  PROVE  IndexOK(M, F, I, a, FALSE)
  <1>1. ASSUME NEW g \in File, g > I[1], M[g] # <<>>
        PROVE  Listed(I, g)
    <2>1. CASE g = a
      <3>1. I[Len(I)] = a /\ Len(I) \in 1 .. Len(I)
        BY IndexTypes DEF IndexOK
      <3> QED
        BY <3>1, <2>1 DEF Listed
    <2>2. CASE g # a
      BY <2>2, <1>1 DEF IndexOK
    <2> QED
      BY <2>1, <2>2
  <1> QED
    BY <1>1 DEF IndexOK

(* purge_logs(). *)
LEMMA IndexPurge ==
  ASSUME NEW L, NEW F, NEW I, NEW a, NEW rot, IndexOK(L, F, I, a, rot),
         NEW k \in 2 .. Len(I), NEW J, J = SubSeq(I, k, Len(I)),
         NEW G, \A f \in File : f \in G <=> \E j \in 1 .. k - 1 : I[j] = f
  PROVE  IndexOK(L, F \ G, J, a, rot)
  <1> DEFINE n == Len(I) - k + 1
  <1>1. /\ I \in Seq(File) /\ Len(I) \in Nat /\ k \in Nat /\ n \in Nat /\ n > 0
        /\ k \in 1 .. Len(I) /\ a \in Nat
        /\ \A i \in 1 .. Len(I) : I[i] \in Nat
        /\ F \subseteq File
    <2>1. IndexOK(L, F, I, a, rot) /\ k \in 2 .. Len(I)
      OBVIOUS
    <2>2. /\ I \in Seq(File) /\ Len(I) \in Nat /\ a \in Nat
          /\ \A i \in 1 .. Len(I) : I[i] \in Nat
      BY ONLY <2>1, IndexTypes
    <2> QED
      BY ONLY <2>1, <2>2 DEF IndexOK
  <1>2. /\ J \in Seq(File) /\ Len(J) = n
        /\ \A i \in 1 .. n : J[i] = I[i + k - 1]
    BY <1>1
  <1>3. \A i, j \in 1 .. Len(I) : i < j => I[i] < I[j]
    BY DEF IndexOK
  <1>4. \A i \in 1 .. n : i + k - 1 \in 1 .. Len(I) /\ i + k - 1 >= k
    BY <1>1
  <1> HIDE DEF n
  <1>5. ASSUME NEW i \in 1 .. n, NEW j \in 1 .. n, i < j
        PROVE  J[i] < J[j]
    <2>1. i + k - 1 < j + k - 1
      BY <1>1, <1>5
    <2> QED
      BY <2>1, <1>2, <1>3, <1>4
  <1>6. ASSUME NEW m \in 1 .. Len(I), m >= k
        PROVE  I[m] \in F \ G
    <2>1. I[m] \in F /\ I[m] \in Nat /\ I[m] \in File
      BY <1>1 DEF IndexOK
    <2>2. ASSUME NEW j \in 1 .. k - 1
          PROVE  I[m] # I[j]
      <3>1. j \in 1 .. Len(I) /\ j < m
        BY <1>1, <1>6
      <3>2. I[j] < I[m] /\ I[j] \in Nat
        BY <3>1, <1>1, <1>3
      <3> QED
        BY <3>2, <2>1
    <2> QED
      BY <2>1, <2>2
  <1>7. \A i \in 1 .. n : J[i] \in F \ G /\ J[i] <= a
    <2>1. \A i \in 1 .. Len(I) : I[i] <= a
      BY DEF IndexOK
    <2> QED
      BY <2>1, <1>2, <1>4, <1>6
  <1>8. a \in F \ G
    <2>1. CASE rot
      <3>1. \A i \in 1 .. Len(I) : I[i] # a
        BY <2>1, <1>1 DEF IndexOK
      <3>2. \A j \in 1 .. k - 1 : j \in 1 .. Len(I)
        BY <1>1
      <3>3. a \in F /\ a \in File
        BY <1>1 DEF IndexOK
      <3> QED
        BY <3>1, <3>2, <3>3
    <2>2. CASE ~ rot
      <3>1. I[Len(I)] = a /\ Len(I) \in 1 .. Len(I) /\ Len(I) >= k
        BY <2>2, <1>1 DEF IndexOK
      <3> QED
        BY <3>1, <1>6
    <2> QED
      BY <2>1, <2>2
  <1>9. \A f \in F \ G : f <= a
    BY DEF IndexOK
  <1>10. rot => \A i \in 1 .. n : J[i] < a
    BY <1>2, <1>4 DEF IndexOK
  <1>11. ~ rot => J[n] = a
    <2>1. n \in 1 .. n /\ n + k - 1 = Len(I)
      BY <1>1 DEF n
    <2> QED
      BY <2>1, <1>2 DEF IndexOK
  <1>12. ASSUME NEW g \in File, g > J[1], L[g] # <<>>
         PROVE  Listed(J, g)
    <2>1. J[1] = I[k] /\ I[k] \in Nat /\ I[1] \in Nat /\ I[1] < I[k] /\ g \in Nat
      <3>1. 1 \in 1 .. n /\ 1 + k - 1 = k /\ 1 < k /\ 1 \in 1 .. Len(I)
        BY <1>1
      <3>2. J[1] = I[k]
        BY <3>1, <1>2
      <3> QED
        BY <3>1, <3>2, <1>1, <1>3, Bounds
    <2>2. PICK i \in 1 .. Len(I) : I[i] = g
      <3>1. g > I[1]
        BY <2>1, <1>12
      <3> QED
        BY <3>1, <1>12 DEF IndexOK, Listed
    <2>3. i > k
      <3>1. i < k => I[i] < I[k]
        BY <1>1, <1>3
      <3> QED
        BY <3>1, <2>1, <2>2, <1>1, <1>12
    <2>4. i - k + 1 \in 1 .. n /\ (i - k + 1) + k - 1 = i
      BY <2>3, <1>1 DEF n
    <2>5. J[i - k + 1] = g
      BY <2>2, <2>4, <1>2
    <2> QED
      BY <2>4, <2>5, <1>2 DEF Listed
  <1>13. J # <<>> /\ F \ G \subseteq File
    BY ONLY <1>1, <1>2
  <1>14. IndexOK(L, F \ G, J, a, rot)
    BY <1>2, <1>5, <1>7, <1>8, <1>9, <1>10, <1>11, <1>12, <1>13 DEF IndexOK
  <1> QED
    BY <1>14

DumpType == [pc : DumpPc, file : Nat, pos : Nat, offset : Nat]

LEMMA DumpGrows ==
  ASSUME NEW L, NEW M, NEW w, NEW a, NEW b, NEW r, LogOK(L, w, a, r), Grows(L, M, w, a, b),
         NEW I, NEW rot \in BOOLEAN, NEW rot2 \in BOOLEAN,
         NEW d \in DumpType, DumpOK(L, I, a, rot, d),
         NEW e, e = [d EXCEPT !.pc = IF @ = "asleep" THEN "read" ELSE @],
         \/ b = a /\ rot2 = rot
         \/ b > a /\ Len(M[a]) > Len(L[a]) /\ (NoGap => d.pc # "eof")
  PROVE  DumpOK(M, I, b, rot2, e)
  <1>1. /\ e.file = d.file /\ e.pos = d.pos /\ e.offset = d.offset
        /\ e.pc # "asleep" /\ (e.pc = d.pc \/ e.pc = "read")
    BY DEF DumpType
  <1> DEFINE f == d.file
             p == d.pos
  <1>2. Valid(L, a, f, p)
    BY DEF DumpOK
  <1>3. /\ f \in File /\ p \in Nat /\ p <= Len(L[f]) /\ Valid(M, b, f, p)
        /\ f <= a /\ a \in Nat /\ b \in Nat /\ f \in Nat /\ a <= b
    <2>1. f \in File /\ p \in Nat /\ p <= Len(L[f]) /\ Valid(M, b, f, p)
      BY <1>2, GrowsValid
    <2>2. f <= a /\ a \in File /\ b \in File /\ a <= b
      BY <1>2 DEF LogOK, Grows, Valid
    <2> QED
      BY <2>1, <2>2, Bounds
  <1>4. /\ Len(L[f]) \in Nat /\ Len(M[f]) \in Nat /\ Len(L[f]) <= Len(M[f])
        /\ Inside(M, f, p) <=> Inside(L, f, p)
        /\ f # a => M[f] = L[f]
    <2>1. Len(L[f]) \in Nat /\ Len(M[f]) \in Nat /\ Len(L[f]) <= Len(M[f])
      BY <1>3, At DEF LogOK, Grows
    <2>2. Inside(M, f, p) <=> Inside(L, f, p)
      BY <1>3, GrowsAt
    <2>3. f # a => M[f] = L[f]
      <3>1. f # a => f < a
        BY <1>3
      <3> QED
        BY <3>1, <1>3 DEF Grows
    <2> QED
      BY <2>1, <2>2, <2>3
  <1>5. e.pc \in {"eof", "next"} => ~ Inside(M, f, p)
    BY <1>1, <1>4 DEF DumpOK
  <1>6. e.pc = "catch" => f = b \/ p < Len(M[f])
    <2>1. e.pc = "catch" => f = a \/ p < Len(L[f])
      BY <1>1 DEF DumpOK
    <2> QED
      BY <2>1, <1>3, <1>4
  <1>7. e.pc = "next" => f # b
    <2>1. e.pc = "next" => f # a
      BY <1>1 DEF DumpOK
    <2> QED
      BY <2>1, <1>3
  <1>8. NoGap /\ e.pc = "eof" => ~ rot2 /\ (f = b \/ p >= Len(M[f]))
    <2>1. NoGap /\ e.pc = "eof" => ~ rot /\ (f = a \/ p >= Len(L[f])) /\ b = a /\ rot2 = rot
      BY <1>1, <1>3 DEF DumpOK
    <2> QED
      BY <2>1, <1>4
  <1>9. NoGap /\ e.pc = "next" => p >= Len(M[f]) /\ d.offset < Len(I)
    <2>1. NoGap /\ e.pc = "next" => p >= Len(L[f]) /\ d.offset < Len(I) /\ f # a
      BY <1>1 DEF DumpOK
    <2> QED
      BY <2>1, <1>4
  <1>10. d.offset \in 1 .. Len(I) /\ f = I[d.offset]
    BY DEF DumpOK
  <1> QED
    BY <1>1, <1>3, <1>5, <1>6, <1>7, <1>8, <1>9, <1>10 DEF DumpOK

(* The new file is added to the index. *)
LEMMA DumpAppend ==
  ASSUME NEW L, NEW I \in Seq(File), NEW a \in File, NEW d \in DumpType,
         NEW rot \in BOOLEAN, rot, DumpOK(L, I, a, rot, d)
  PROVE  DumpOK(L, Append(I, a), a, FALSE, d)
  <1> DEFINE J == Append(I, a)
  <1>1. /\ d.offset \in 1 .. Len(I) /\ d.file = I[d.offset] /\ Valid(L, a, d.file, d.pos)
    BY DEF DumpOK
  <1>2. /\ Len(I) \in Nat /\ Len(J) = Len(I) + 1
        /\ \A i \in 1 .. Len(I) : J[i] = I[i]
    OBVIOUS
  <1> HIDE DEF J
  <1>3. d.offset \in 1 .. Len(J) /\ d.file = J[d.offset]
    BY <1>1, <1>2
  <1>4. NoGap => d.pc # "eof" /\ (d.pc = "next" => d.pos >= Len(L[d.file]) /\ d.offset < Len(J))
    BY <1>2 DEF DumpOK, DumpType
  <1>5. /\ d.pc \in {"eof", "next"} => ~ Inside(L, d.file, d.pos)
        /\ d.pc = "catch" => d.file = a \/ d.pos < Len(L[d.file])
        /\ d.pc = "asleep" => d.file = a /\ d.pos >= Len(L[d.file])
        /\ d.pc = "next" => d.file # a
    BY DEF DumpOK
  <1> QED
    BY <1>1, <1>3, <1>4, <1>5 DEF DumpOK, J

-----------------------------------------------------------------------------
(* The stream.                                                               *)

(* The stream from position p of f to what the dump thread d has sent. *)
LEMMA LinkStart ==
  ASSUME NEW L, NEW a, NEW f, NEW p, Valid(L, a, f, p), p \in Nat, NEW d,
         d.pc # "none" => d.file = f /\ d.pos = p,
         NEW m, NEW s, Sync(L, m, s, f, p)
  PROVE  Link(L, a, <<>>, d, m, s)
  <1> DEFINE pf == [i \in {1} |-> f]
             pp == [i \in {1} |-> p]
             N == <<>>
  <1>1. Len(N) = 0 /\ 1 .. Len(N) + 1 = {1} /\ 1 .. Len(N) = {}
    OBVIOUS
  <1>2. pf \in [{1} -> File] /\ pp \in [{1} -> Nat] /\ pf[1] = f /\ pp[1] = p
    BY DEF Valid
  <1> HIDE DEF pf, pp, N
  <1>3. Chain(L, a, N, pf, pp)
    BY <1>1, <1>2 DEF Chain
  <1>4. Sent(d, Len(N) + 1, pf, pp)
    BY <1>1, <1>2 DEF Sent
  <1>5. Link(L, a, N, d, m, s)
    BY <1>2, <1>3, <1>4 DEF Link
  <1> QED
    BY <1>5 DEF N

LEMMA LinkSend ==
  ASSUME NEW L, NEW a, NEW N \in Seq(Events), NEW d \in DumpType, d.pc # "none", NEW m, NEW s,
         Link(L, a, N, d, m, s),
         NEW e \in Events, NEW c, NEW g, NEW q, c.file = g, c.pos = q, q \in Nat,
         Valid(L, a, g, q), Hop(L, e, d.file, d.pos, g, q)
  PROVE  Link(L, a, Append(N, e), c, m, s)
  <1> DEFINE n == Len(N)
             E == Append(N, e)
  <1>1. n \in Nat /\ E \in Seq(Events) /\ Len(E) = n + 1 /\ E[n + 1] = e
        /\ \A i \in 1 .. n : E[i] = N[i]
    OBVIOUS
  <1>2. PICK pf, pp : /\ Chain(L, a, N, pf, pp)
                      /\ Sent(d, n + 1, pf, pp)
                      /\ Sync(L, m, s, pf[1], pp[1])
    BY DEF Link
  <1>3. pf[n + 1] = d.file /\ pp[n + 1] = d.pos
    BY <1>2 DEF Sent
  <1> DEFINE qf == [i \in 1 .. n + 2 |-> IF i = n + 2 THEN g ELSE pf[i]]
             qp == [i \in 1 .. n + 2 |-> IF i = n + 2 THEN q ELSE pp[i]]
  <1> HIDE DEF E, n
  <1>4. /\ pf \in [1 .. n + 1 -> File] /\ pp \in [1 .. n + 1 -> Nat]
        /\ \A i \in 1 .. n + 1 : Valid(L, a, pf[i], pp[i])
        /\ \A i \in 1 .. n : Hop(L, N[i], pf[i], pp[i], pf[i+1], pp[i+1])
    BY <1>2 DEF Chain, n
  <1>5. /\ qf[n + 2] = g /\ qp[n + 2] = q
        /\ \A i \in 1 .. n + 1 : qf[i] = pf[i] /\ qp[i] = pp[i]
        /\ \A i \in 1 .. n + 2 : i = n + 2 \/ i \in 1 .. n + 1
        /\ \A i \in 1 .. n + 1 : i = n + 1 \/ i \in 1 .. n
    BY <1>1
  <1>6. qf \in [1 .. n + 2 -> File] /\ qp \in [1 .. n + 2 -> Nat]
    <2>1. \A i \in 1 .. n + 2 : (IF i = n + 2 THEN g ELSE pf[i]) \in File
                                /\ (IF i = n + 2 THEN q ELSE pp[i]) \in Nat
      BY <1>4, <1>5 DEF Valid
    <2> QED
      BY <2>1
  <1> HIDE DEF qf, qp
  <1>7. \A i \in 1 .. n + 2 : Valid(L, a, qf[i], qp[i])
    BY <1>4, <1>5
  <1>8. ASSUME NEW i \in 1 .. n + 1
        PROVE  Hop(L, E[i], qf[i], qp[i], qf[i+1], qp[i+1])
    <2>1. CASE i = n + 1
      <3>1. i + 1 = n + 2
        BY <2>1, <1>1
      <3>2. qf[i] = d.file /\ qp[i] = d.pos /\ qf[i + 1] = g /\ qp[i + 1] = q /\ E[i] = e
        BY <3>1, <2>1, <1>1, <1>3, <1>5
      <3> QED
        BY <3>2
    <2>2. CASE i \in 1 .. n
      <3>1. i + 1 \in 1 .. n + 1
        BY <2>2, <1>1
      <3>2. qf[i] = pf[i] /\ qp[i] = pp[i] /\ qf[i + 1] = pf[i + 1] /\ qp[i + 1] = pp[i + 1] /\ E[i] = N[i]
        BY <3>1, <2>2, <1>1, <1>5
      <3>3. Hop(L, N[i], pf[i], pp[i], pf[i+1], pp[i+1])
        BY <2>2, <1>4
      <3> QED
        BY <3>2, <3>3
    <2> QED
      BY <2>1, <2>2, <1>5
  <1>9. Len(E) + 1 = n + 2 /\ 1 \in 1 .. n + 1
    BY <1>1
  <1>10. Chain(L, a, E, qf, qp)
    BY <1>1, <1>6, <1>7, <1>8, <1>9 DEF Chain
  <1>11. Sent(c, Len(E) + 1, qf, qp)
    BY <1>5, <1>9 DEF Sent
  <1>12. Sync(L, m, s, qf[1], qp[1])
    BY <1>2, <1>5, <1>9
  <1>13. Link(L, a, E, c, m, s)
    BY <1>10, <1>11, <1>12 DEF Link
  <1> QED
    BY <1>13 DEF E

(* The connection breaks. *)
LEMMA LinkCut ==
  ASSUME NEW L, NEW a, NEW N \in Seq(Events), NEW d, NEW m, NEW s,
         Link(L, a, N, d, m, s), NEW k \in 0 .. Len(N)
  PROVE  Link(L, a, SubSeq(N, 1, k), NoDump, m, s) /\ SubSeq(N, 1, k) \in Seq(Events)
  <1> DEFINE n == Len(N)
             E == SubSeq(N, 1, k)
  <1>1. /\ n \in Nat /\ k \in Nat /\ k <= n /\ E \in Seq(Events) /\ Len(E) = k
        /\ \A i \in 1 .. k : E[i] = N[i]
    OBVIOUS
  <1>2. PICK pf, pp : /\ Chain(L, a, N, pf, pp)
                      /\ Sync(L, m, s, pf[1], pp[1])
    BY DEF Link
  <1> DEFINE qf == [i \in 1 .. k + 1 |-> pf[i]]
             qp == [i \in 1 .. k + 1 |-> pp[i]]
  <1> HIDE DEF E, n
  <1>3. /\ pf \in [1 .. n + 1 -> File] /\ pp \in [1 .. n + 1 -> Nat]
        /\ \A i \in 1 .. n + 1 : Valid(L, a, pf[i], pp[i])
        /\ \A i \in 1 .. n : Hop(L, N[i], pf[i], pp[i], pf[i+1], pp[i+1])
    BY <1>2 DEF Chain, n
  <1>4. \A i \in 1 .. k + 1 : i \in 1 .. n + 1 /\ qf[i] = pf[i] /\ qp[i] = pp[i]
    BY <1>1
  <1>5. qf \in [1 .. k + 1 -> File] /\ qp \in [1 .. k + 1 -> Nat]
    BY <1>3, <1>4
  <1> HIDE DEF qf, qp
  <1>6. \A i \in 1 .. k + 1 : Valid(L, a, qf[i], qp[i])
    BY <1>3, <1>4
  <1>7. ASSUME NEW i \in 1 .. k
        PROVE  Hop(L, E[i], qf[i], qp[i], qf[i+1], qp[i+1])
    <2>1. i \in 1 .. k + 1 /\ i + 1 \in 1 .. k + 1 /\ i \in 1 .. n
      BY <1>1
    <2>2. qf[i] = pf[i] /\ qp[i] = pp[i] /\ qf[i + 1] = pf[i + 1] /\ qp[i + 1] = pp[i + 1] /\ E[i] = N[i]
      BY <2>1, <1>1, <1>4
    <2>3. Hop(L, N[i], pf[i], pp[i], pf[i+1], pp[i+1])
      BY <2>1, <1>3
    <2> QED
      BY <2>2, <2>3
  <1>8. 1 \in 1 .. k + 1
    BY <1>1
  <1>9. Chain(L, a, E, qf, qp)
    BY <1>1, <1>5, <1>6, <1>7 DEF Chain
  <1>10. Sync(L, m, s, qf[1], qp[1])
    BY <1>2, <1>4, <1>8
  <1>11. Sent(NoDump, Len(E) + 1, qf, qp)
    BY DEF Sent, NoDump
  <1>12. Link(L, a, E, NoDump, m, s)
    BY <1>9, <1>10, <1>11 DEF Link
  <1> QED
    BY <1>1, <1>12 DEF E

(* The slave takes an event: it was at f, p, and goes to g, q. *)
LEMMA LinkTake ==
  ASSUME NEW L, NEW a, NEW N \in Seq(Events), N # <<>>, NEW d, NEW m, NEW s,
         Link(L, a, N, d, m, s)
  PROVE  \E f, p, g, q :
            /\ Valid(L, a, f, p) /\ f \in File /\ p \in Nat
            /\ Valid(L, a, g, q) /\ g \in File /\ q \in Nat
            /\ Hop(L, Head(N), f, p, g, q)
            /\ Sync(L, m, s, f, p)
            /\ \A o, t : Sync(L, o, t, g, q) => Link(L, a, Tail(N), d, o, t)
  <1> DEFINE n == Len(N)
             E == Tail(N)
  <1>1. /\ n \in Nat /\ n > 0 /\ E \in Seq(Events) /\ Len(E) = n - 1
        /\ Head(N) = N[1]
        /\ \A i \in 1 .. n - 1 : E[i] = N[i + 1]
    OBVIOUS
  <1>2. PICK pf, pp : /\ Chain(L, a, N, pf, pp)
                      /\ Sent(d, n + 1, pf, pp)
                      /\ Sync(L, m, s, pf[1], pp[1])
    BY DEF Link
  <1> DEFINE qf == [i \in 1 .. n |-> pf[i + 1]]
             qp == [i \in 1 .. n |-> pp[i + 1]]
  <1> HIDE DEF E, n
  <1>3. /\ pf \in [1 .. n + 1 -> File] /\ pp \in [1 .. n + 1 -> Nat]
        /\ \A i \in 1 .. n + 1 : Valid(L, a, pf[i], pp[i])
        /\ \A i \in 1 .. n : Hop(L, N[i], pf[i], pp[i], pf[i+1], pp[i+1])
    BY <1>2 DEF Chain, n
  <1>4. \A i \in 1 .. n : i + 1 \in 1 .. n + 1 /\ qf[i] = pf[i + 1] /\ qp[i] = pp[i + 1]
    BY <1>1
  <1>5. qf \in [1 .. n -> File] /\ qp \in [1 .. n -> Nat]
    BY <1>3, <1>4
  <1> HIDE DEF qf, qp
  <1>6. \A i \in 1 .. n : Valid(L, a, qf[i], qp[i])
    BY <1>3, <1>4
  <1>7. ASSUME NEW i \in 1 .. n - 1
        PROVE  Hop(L, E[i], qf[i], qp[i], qf[i+1], qp[i+1])
    <2>1. i \in 1 .. n /\ i + 1 \in 1 .. n
      BY <1>1
    <2>2. /\ qf[i] = pf[i + 1] /\ qp[i] = pp[i + 1] /\ E[i] = N[i + 1]
          /\ qf[i + 1] = pf[(i + 1) + 1] /\ qp[i + 1] = pp[(i + 1) + 1]
      BY <2>1, <1>1, <1>4
    <2>3. Hop(L, N[i + 1], pf[i + 1], pp[i + 1], pf[(i+1)+1], pp[(i+1)+1])
      BY <2>1, <1>3
    <2> QED
      BY <2>2, <2>3
  <1>8. Len(E) + 1 = n /\ 1 \in 1 .. n /\ n \in 1 .. n /\ 1 \in 1 .. n + 1 /\ 1 + 1 = 2
    BY <1>1
  <1>9. Chain(L, a, E, qf, qp)
    BY <1>1, <1>5, <1>6, <1>7, <1>8 DEF Chain
  <1>10. Sent(d, Len(E) + 1, qf, qp)
    BY <1>2, <1>4, <1>8 DEF Sent
  <1>11. \A o, t : Sync(L, o, t, qf[1], qp[1]) => Link(L, a, E, d, o, t)
    BY <1>9, <1>10 DEF Link
  <1>12. /\ Valid(L, a, pf[1], pp[1]) /\ pf[1] \in File /\ pp[1] \in Nat
         /\ Valid(L, a, qf[1], qp[1]) /\ qf[1] \in File /\ qp[1] \in Nat
    BY <1>3, <1>5, <1>6, <1>8
  <1>13. Hop(L, N[1], pf[1], pp[1], qf[1], qp[1])
    BY <1>3, <1>4, <1>8
  <1> QED
    BY <1>1, <1>2, <1>11, <1>12, <1>13 DEF E

(* The dump thread is replaced, or has moved in its own place. *)
LEMMA LinkDump ==
  ASSUME NEW L, NEW a, NEW N, NEW d, NEW m, NEW s, Link(L, a, N, d, m, s),
         NEW e, e.pc # "none" => d.pc # "none" /\ e.file = d.file /\ e.pos = d.pos
  PROVE  Link(L, a, N, e, m, s)
  <1>1. PICK pf, pp : /\ Chain(L, a, N, pf, pp)
                      /\ Sent(d, Len(N) + 1, pf, pp)
                      /\ Sync(L, m, s, pf[1], pp[1])
    BY DEF Link
  <1>2. Sent(e, Len(N) + 1, pf, pp)
    BY <1>1 DEF Sent
  <1> QED
    BY <1>1, <1>2 DEF Link

-----------------------------------------------------------------------------
(* The slave in the stream.                                                  *)

MiType == [file : File, pos : Nat, pending : {0, 1}]

(* A Stop event ends its file. *)
LEMMA StopAtEnd ==
  ASSUME NEW L, NEW w, NEW a, NEW r, LogOK(L, w, a, r),
         NEW f \in File, NEW j \in 1 .. Len(L[f]), L[f][j].type = "stop"
  PROVE  Len(L[f]) = j
  BY DEF LogOK, FilesRight, EventRight

(* After an insert id comes its statement. *)
LEMMA IntvarNext ==
  ASSUME NEW L, NEW w, NEW a, NEW r, LogOK(L, w, a, r),
         NEW f \in File, NEW j \in 1 .. Len(L[f]), L[f][j].type = "intvar"
  PROVE  j < Len(L[f]) /\ L[f][j+1].type = "query" /\ L[f][j+1].n = L[f][j].n
  BY DEF LogOK, FilesRight, EventRight

(* The slave has executed what lies before its place in the stream. *)
LEMMA SyncSeen ==
  ASSUME NEW L, NEW w, NEW a, NEW r, LogOK(L, w, a, r),
         NEW m \in MiType, Placed(L, a, m, "read"),
         NEW f \in File, NEW p \in Nat, Valid(L, a, f, p), Sync(L, m, "read", f, p), NEW k
  PROVE  Seen(L, m.file, m.pos, k) <=> Seen(L, f, p, k)
  <1>1. /\ m.file \in File /\ m.pos \in Nat /\ m.pending \in {0, 1}
        /\ Here(m, "read") = m.pos + m.pending
        /\ Len(L[f]) \in Nat /\ p <= Len(L[f])
    BY At DEF MiType, Here, Valid, LogOK
  <1>2. CASE m.file = f /\ p = m.pos + m.pending
    <2>1. CASE m.pending = 0
      BY <1>1, <1>2, <2>1
    <2>2. CASE m.pending = 1
      <3>1. ~ IsQuery(L, f, m.pos + 1) /\ p = m.pos + 1
        BY <1>1, <1>2, <2>2 DEF Placed, IsQuery
      <3> QED
        BY <3>1, <1>1, <1>2, SeenStep
    <2> QED
      BY <1>1, <2>1, <2>2
  <1>3. CASE m.pos = 0 /\ f = m.file /\ p = 1 /\ L[f][1].type = "stop"
    <2>1. ~ IsQuery(L, f, 0 + 1)
      BY <1>3 DEF IsQuery
    <2>2. Seen(L, f, 0, k) <=> Seen(L, f, 0 + 1, k)
      BY <2>1, SeenStep
    <2> QED
      BY <2>2, <1>3
  <1>4. CASE m.pos = 0 /\ \E j \in 1 .. p : L[f][j].type = "rotate" /\ L[f][j].n = m.file
    <2>1. PICK j \in 1 .. p : L[f][j].type = "rotate" /\ L[f][j].n = m.file
      BY <1>4
    <2>2. j \in 1 .. Len(L[f]) /\ p >= j
      BY <2>1, <1>1
    <2>3. m.file = f + 1 /\ f + 1 \in File /\ Skips(L, f, p, f + 1)
      BY <2>1, <2>2, RotateAtEnd
    <2> QED
      BY <2>3, <1>4, SeenSkips
  <1> QED
    BY <1>1, <1>2, <1>3, <1>4 DEF Sync, Turned

(* Only a Stop event, or the Rotate event of a new file, comes when the      *)
(* slave is elsewhere.                                                       *)
LEMMA AtHere ==
  ASSUME NEW L, NEW w, NEW a, NEW r, LogOK(L, w, a, r),
         NEW m \in MiType, NEW f \in File, NEW p \in Nat, Sync(L, m, "read", f, p),
         p + 1 \in 1 .. Len(L[f]), L[f][p + 1].type # "stop"
  PROVE  m.file = f /\ p = m.pos + m.pending
  <1>1. Len(L[f]) \in Nat /\ m.pos \in Nat /\ m.pending \in {0, 1}
    BY At DEF MiType, LogOK
  <1>2. CASE f = m.file /\ p = 1 /\ L[f][1].type = "stop"
    <2>1. 1 \in 1 .. Len(L[f])
      BY <1>1
    <2>2. Len(L[f]) = 1
      BY <2>1, <1>2, StopAtEnd
    <2> QED
      BY <2>2, <1>2
  <1>3. CASE \E j \in 1 .. p : L[f][j].type = "rotate" /\ L[f][j].n = m.file
    <2>1. PICK j \in 1 .. p : L[f][j].type = "rotate"
      BY <1>3
    <2>2. j \in 1 .. Len(L[f])
      BY <2>1, <1>1
    <2>3. Len(L[f]) = j + 1 /\ L[f][j + 1].type = "stop"
      BY <2>1, <2>2, RotateAtEnd
    <2>4. p = j
      BY <2>1, <2>3, <1>1
    <2> QED
      BY <2>3, <2>4
  <1>4. Here(m, "read") = m.pos + m.pending
    BY <1>1 DEF Here
  <1> QED
    BY <1>2, <1>3, <1>4 DEF Sync, Turned

(* What the slave finds at the place it has come to. *)
LEMMA Comes ==
  ASSUME NEW L, NEW w, NEW a, NEW r, LogOK(L, w, a, r),
         NEW m \in MiType, Placed(L, a, m, "read"),
         NEW f \in File, NEW p \in Nat, Valid(L, a, f, p), Sync(L, m, "read", f, p),
         NEW g, NEW q \in Nat, NEW e \in Events, Hop(L, e, f, p, g, q),
         e.type # "rotate"
  PROVE  /\ g = f /\ q = p + 1 /\ q \in 1 .. Len(L[f]) /\ e = L[f][q]
         /\ e.type # "stop" => m.file = f /\ p = m.pos + m.pending
         /\ e.type \notin {"stop", "query"} => m.pending = 0 /\ q = m.pos + 1
         /\ e.type = "query" =>
              /\ IsQuery(L, f, q) /\ e.n <= w /\ e.n \in Statement
              /\ e.n \in AutoInc =>
                   m.pending = 1 /\ L[f][m.pos + 1].n = e.n
         /\ e.type = "start" => m.pos = 0 /\ (r = 0 => f = 1)
  <1>1. g = f /\ q = p + 1 /\ q \in 1 .. Len(L[f]) /\ e = L[f][q]
    BY DEF Hop
  <1>2. Len(L[f]) \in Nat /\ m.pos \in Nat /\ m.pending \in {0, 1} /\ m.file \in File
    BY At DEF MiType, LogOK
  <1>3. e.type # "stop" => m.file = f /\ p = m.pos + m.pending
    BY <1>1, AtHere
  <1>4. ASSUME m.pending = 1, e.type # "stop"
        PROVE  e.type = "query"
    <2>1. p = m.pos + 1 /\ L[f][p].type = "intvar" /\ p \in 1 .. Len(L[f])
      BY <1>1, <1>2, <1>3, <1>4 DEF Placed
    <2> QED
      BY <2>1, <1>1, IntvarNext
  <1>5. EventRight(L[f], w, a, r, f, q)
    BY <1>1 DEF LogOK, FilesRight
  <1>6. ASSUME e.type = "query"
        PROVE  IsQuery(L, f, q) /\ e.n <= w /\ e.n \in Statement
    BY <1>1, <1>6, <1>5, EventKinds DEF IsQuery, EventRight
  <1>7. ASSUME e.type = "query", e.n \in AutoInc
        PROVE  m.pending = 1 /\ L[f][m.pos + 1].n = e.n
    <2>1. q > 1 /\ L[f][q - 1].type = "intvar" /\ L[f][q - 1].n = e.n
      BY <1>1, <1>5, <1>7 DEF EventRight
    <2>2. q - 1 = p /\ p > 0
      BY <2>1, <1>1
    <2>3. m.file = f /\ p = m.pos + m.pending
      BY <1>3, <1>7
    <2>4. m.pending # 0
      BY <2>1, <2>2, <2>3, <1>2 DEF Placed
    <2>5. m.pending = 1 /\ p = m.pos + 1
      BY <2>3, <2>4, <1>2
    <2> QED
      BY <2>1, <2>2, <2>5
  <1>8. ASSUME e.type = "start"
        PROVE  m.pos = 0 /\ (r = 0 => f = 1)
    <2>1. q = 1 /\ (r = 0 => f = 1)
      BY <1>1, <1>5, <1>8 DEF EventRight
    <2> QED
      BY <2>1, <1>1, <1>2, <1>3, <1>8
  <1>9. e.type \notin {"stop", "query"} => m.pending = 0 /\ q = m.pos + 1
    BY <1>1, <1>2, <1>3, <1>4
  <1> QED
    BY <1>1, <1>3, <1>6, <1>7, <1>8, <1>9

(* exec_stop(): the event is executed, or ignored at the start of a file. *)
LEMMA StopComes ==
  ASSUME NEW L, NEW w, NEW a, NEW r, LogOK(L, w, a, r),
         NEW m \in MiType, Placed(L, a, m, "read"),
         NEW f \in File, NEW p \in Nat, Valid(L, a, f, p), Sync(L, m, "read", f, p),
         NEW g, NEW q \in Nat, NEW e \in Events, Hop(L, e, f, p, g, q), e.type = "stop"
  PROVE  /\ m.pending = 0
         /\ m.pos > 0 => /\ m.file = f /\ m.pos = p /\ q = p + 1 /\ g = f
                         /\ L[f][q].type = "stop" /\ q \in 1 .. Len(L[f]) /\ r > 0
         /\ m.pos = 0 => Sync(L, m, "read", g, q)
  <1>1. g = f /\ q = p + 1 /\ q \in 1 .. Len(L[f]) /\ e = L[f][q]
    BY DEF Hop
  <1>2. /\ Len(L[f]) \in Nat /\ m.pos \in Nat /\ m.pending \in {0, 1} /\ m.file \in File
        /\ r \in Nat
    BY At DEF MiType, LogOK
  <1>3. EventRight(L[f], w, a, r, f, q)
    BY <1>1 DEF LogOK, FilesRight
  <1>4. CASE m.file = f /\ p = m.pos + m.pending
    <2>1. m.pending = 0
      <3>1. SUFFICES ASSUME m.pending = 1 PROVE FALSE
        BY <1>2
      <3>2. p = m.pos + 1 /\ L[f][p].type = "intvar" /\ p \in 1 .. Len(L[f])
        BY <1>1, <1>2, <1>4, <3>1 DEF Placed
      <3>3. L[f][p + 1].type = "query"
        BY <3>2, IntvarNext
      <3> QED
        BY <3>3, <1>1
    <2>2. p = m.pos
      BY <2>1, <1>2, <1>4
    <2>3. ASSUME m.pos > 0
          PROVE  r > 0
      <3>1. r = 0 => q > 1 /\ L[f][q - 1].type = "rotate"
        BY <1>1, <1>3 DEF EventRight
      <3>2. q - 1 = m.pos
        BY <2>2, <1>1, <1>2
      <3>3. L[f][m.pos].type # "rotate"
        BY <2>3, <1>4 DEF Placed
      <3> QED
        BY <3>1, <3>2, <3>3, <1>2
    <2>4. m.pos = 0 => Turned(L, m, f, q)
      <3>1. m.pos = 0 => q = 1
        BY <2>2, <1>1
      <3>2. L[f][q].type = "stop"
        BY <1>1
      <3> QED
        BY <3>1, <3>2, <1>4 DEF Turned
    <2>5. m.pos = 0 => Sync(L, m, "read", g, q)
      BY <2>1, <2>4, <1>1 DEF Sync
    <2> QED
      BY <2>1, <2>2, <2>3, <2>5, <1>1, <1>4
  <1>5. CASE m.pos = 0 /\ m.pending = 0 /\ Turned(L, m, f, p)
    <2>1. ~ (f = m.file /\ p = 1 /\ L[f][1].type = "stop")
      <3>1. SUFFICES ASSUME p = 1, L[f][1].type = "stop" PROVE FALSE
        OBVIOUS
      <3>2. 1 \in 1 .. Len(L[f])
        BY <3>1, <1>1
      <3>3. Len(L[f]) = 1
        BY <3>1, <3>2, StopAtEnd
      <3> QED
        BY <3>1, <3>3, <1>1
    <2>2. PICK j \in 1 .. p : L[f][j].type = "rotate" /\ L[f][j].n = m.file
      BY <2>1, <1>5 DEF Turned
    <2>3. j \in 1 .. q
      BY <2>2, <1>1
    <2>4. Turned(L, m, f, q)
      BY <2>2, <2>3 DEF Turned
    <2> QED
      BY <2>4, <1>1, <1>2, <1>5 DEF Sync
  <1>6. Here(m, "read") = m.pos + m.pending
    BY <1>2 DEF Here
  <1> QED
    BY <1>4, <1>5, <1>6 DEF Sync

(* exec_rotate(). *)
LEMMA RotateComes ==
  ASSUME NEW L, NEW w, NEW a, NEW r, LogOK(L, w, a, r),
         NEW m \in MiType, Placed(L, a, m, "read"),
         NEW f \in File, NEW p \in Nat, Valid(L, a, f, p), Sync(L, m, "read", f, p),
         NEW g \in File, NEW q \in Nat, Valid(L, a, g, q),
         NEW e \in Events, Hop(L, e, f, p, g, q), e.type = "rotate",
         NEW o, o = [m EXCEPT !.file = e.n, !.pos = 0]
  PROVE  /\ m.pending = 0 /\ e.n \in File /\ Valid(L, a, e.n, 0)
         /\ o.file = e.n /\ o.pos = 0 /\ o.pending = 0 /\ o \in MiType
         /\ Sync(L, o, "read", g, q)
         /\ \A k : NoGap /\ Seen(L, m.file, m.pos, k) => Seen(L, e.n, 0, k)
  <1>1. /\ Len(L[f]) \in Nat /\ m.pos \in Nat /\ m.pending \in {0, 1} /\ m.file \in File
        /\ e.n \in File
    BY At, EventKinds DEF MiType, LogOK
  <1>2. o.file = e.n /\ o.pos = 0 /\ o.pending = m.pending /\ o \in MiType
    BY <1>1 DEF MiType
  <1>3. CASE f = g /\ q = p + 1 /\ q \in 1 .. Len(L[f]) /\ e = L[f][q]
    <2>1. m.file = f /\ p = m.pos + m.pending
      BY <1>3, AtHere
    <2>2. m.pending = 0
      <3>1. SUFFICES ASSUME m.pending = 1 PROVE FALSE
        BY <1>1
      <3>2. p = m.pos + 1 /\ L[f][p].type = "intvar" /\ p \in 1 .. Len(L[f])
        BY <1>1, <1>3, <2>1, <3>1 DEF Placed
      <3>3. L[f][p + 1].type = "query"
        BY <3>2, IntvarNext
      <3> QED
        BY <3>3, <1>3
    <2>3. /\ e.n = f + 1 /\ f + 1 \in File /\ f + 1 <= a
          /\ Skips(L, f, q, f + 1)
      BY <1>3, RotateAtEnd
    <2>4. Valid(L, a, e.n, 0)
      BY <2>3, At DEF Valid, LogOK
    <2>5. Turned(L, o, f, q)
      BY <1>2, <1>3 DEF Turned
    <2>6. Sync(L, o, "read", g, q)
      BY <2>2, <2>5, <1>2, <1>3 DEF Sync
    <2>7. ASSUME NEW k, Seen(L, m.file, m.pos, k)
          PROVE  Seen(L, e.n, 0, k)
      <3>1. ~ IsQuery(L, f, p + 1)
        BY <1>3 DEF IsQuery
      <3>2. p = m.pos
        BY <2>1, <2>2, <1>1
      <3>3. Seen(L, f, q, k)
        BY <3>1, <3>2, <2>1, <2>7, <1>3, SeenStep
      <3> QED
        BY <3>3, <2>3, SeenSkips
    <2> QED
      BY <2>2, <2>4, <2>6, <2>7, <1>1, <1>2
  <1>4. CASE /\ e.n = g /\ q = 0
             /\ ~ Inside(L, f, p)
             /\ NoGap => Skips(L, f, p, g)
    <2>1. m.pending = 0
      <3>1. SUFFICES ASSUME m.pending = 1 PROVE FALSE
        BY <1>1
      <3>2. m.file = f /\ p = m.pos + 1
        BY <3>1, <1>1 DEF Sync, Here
      <3>3. L[f][p].type = "intvar" /\ p > 0
        BY <3>1, <3>2, <1>1 DEF Placed
      <3> QED
        BY <3>3, <1>4 DEF Inside
    <2>2. Sync(L, o, "read", g, q)
      BY <2>1, <1>2, <1>4 DEF Sync, Here
    <2>3. ASSUME NEW k, NoGap, Seen(L, m.file, m.pos, k)
          PROVE  Seen(L, e.n, 0, k)
      <3>1. Seen(L, f, p, k)
        BY <2>3, SyncSeen
      <3> QED
        BY <3>1, <2>3, <1>4, SeenSkips
    <2> QED
      BY <2>1, <2>2, <2>3, <1>1, <1>2, <1>4
  <1> QED
    BY <1>3, <1>4 DEF Hop

-----------------------------------------------------------------------------
(* The steps of the slave.                                                   *)

LEMMA MasterSame ==
  ASSUME LogRight, IndexRight, UNCHANGED mvars, UNCHANGED restarts
  PROVE  LogRight' /\ IndexRight'
  BY DEF LogRight, IndexRight, mvars

LEMMA DumpSame ==
  ASSUME DumpRight, UNCHANGED mvars, dump' = dump \/ dump' = NoDump,
         dump'.pc # "none" => spc' \in {"read", "executed"}
  PROVE  DumpRight'
  BY DEF DumpRight, mvars, NoDump

LEMMA Taken ==
  ASSUME IInv, NEW type, Takes(type)
  PROVE  /\ spc = "read" /\ net # <<>> /\ mi \in MiType /\ mi.file \in File
         /\ mi.pos \in Nat /\ mi.pending \in {0, 1}
         /\ LogOK(logs, written, active, restarts)
         /\ Placed(logs, active, mi, "read")
         /\ Head(net) \in Events /\ Head(net).type = type
         /\ net' = Tail(net) /\ Tail(net) \in Seq(Events)
         /\ \E f, p, g, q :
              /\ Valid(logs, active, f, p) /\ f \in File /\ p \in Nat
              /\ Valid(logs, active, g, q) /\ g \in File /\ q \in Nat
              /\ Hop(logs, Head(net), f, p, g, q)
              /\ Sync(logs, mi, "read", f, p)
              /\ \A o, t : Sync(logs, o, t, g, q) => Link(logs, active, Tail(net), dump, o, t)
  <1>1. /\ spc = "read" /\ net # <<>> /\ net' = Tail(net) /\ Head(net).type = type
        /\ net \in Seq(Events)
    BY DEF Takes, IInv, Data
  <1>2. Head(net) \in Events /\ Tail(net) \in Seq(Events)
    BY <1>1
  <1>3. mi \in MiType /\ mi.file \in File /\ mi.pos \in Nat /\ mi.pending \in {0, 1}
    BY DEF IInv, Data, MiType
  <1>4. LogOK(logs, written, active, restarts) /\ Placed(logs, active, mi, "read")
    BY <1>1 DEF IInv, LogRight, SlaveRight
  <1>5. Link(logs, active, net, dump, mi, "read")
    BY <1>1 DEF IInv, NetRight
  <1> QED
    BY <1>1, <1>2, <1>3, <1>4, <1>5, LinkTake

(* What the statements executed say of each other stays as it is. *)
LEMMA AppliedSame ==
  ASSUME UNCHANGED applied
  PROVE  /\ Done' = Done
         /\ InsertIds => InsertIds'
         /\ TempTableKept /\ UNCHANGED <<temp, restarts, crashes>> => TempTableKept'
  BY DEF Done, InsertIds, TempTableKept

LEMMA DoneType ==
  ASSUME applied \in Seq([n : Statement, id : 0 .. MaxStatement])
  PROVE  /\ Len(applied) \in Nat /\ Done \in Nat
         /\ applied # <<>> => Len(applied) > 0 /\ Done \in Statement
         /\ applied = <<>> => Done = 0 /\ Len(applied) = 0
  <1>1. CASE applied = <<>>
    BY <1>1 DEF Done
  <1>2. CASE applied # <<>>
    <2>1. Len(applied) \in Nat /\ Len(applied) # 0
      BY <1>2, LenProperties, EmptySeq
    <2>2. Len(applied) \in 1 .. Len(applied)
      BY <2>1
    <2>3. applied[Len(applied)] \in [n : Statement, id : 0 .. MaxStatement]
      BY <2>2, ElementOfSeq
    <2> QED
      BY <2>1, <2>3, <1>2, Bounds DEF Done
  <1> QED
    BY <1>1, <1>2

LEMMA IntvarStep ==
  ASSUME IInv, exec_intvar
  PROVE  IInv'
  <1>1. /\ UNCHANGED <<mvars, dump, info, spc, temp, applied, faults>>
        /\ next_insert_id' = Head(net).n /\ mi' = [mi EXCEPT !.pending = @ + 1]
        /\ Takes("intvar")
    BY DEF exec_intvar
  <1>2. PICK f, p, g, q :
              /\ Valid(logs, active, f, p) /\ f \in File /\ p \in Nat
              /\ Valid(logs, active, g, q) /\ g \in File /\ q \in Nat
              /\ Hop(logs, Head(net), f, p, g, q)
              /\ Sync(logs, mi, "read", f, p)
              /\ \A o, t : Sync(logs, o, t, g, q) => Link(logs, active, Tail(net), dump, o, t)
    BY <1>1, Taken
  <1>3. /\ spc = "read" /\ mi \in MiType /\ mi.file \in File /\ mi.pos \in Nat
        /\ LogOK(logs, written, active, restarts)
        /\ Placed(logs, active, mi, "read")
        /\ Head(net) \in Events /\ Head(net).type = "intvar"
        /\ net' = Tail(net) /\ Tail(net) \in Seq(Events)
    BY <1>1, Taken
  <1>4. /\ g = f /\ q \in 1 .. Len(logs[f]) /\ Head(net) = logs[f][q]
        /\ mi.file = f /\ mi.pending = 0 /\ q = mi.pos + 1
    BY <1>2, <1>3, Comes
  <1>5. /\ mi'.file = f /\ mi'.pos = mi.pos /\ mi'.pending = 1 /\ mi' \in MiType
        /\ Here(mi', "read") = q
    <2>1. mi'.file = f /\ mi'.pos = mi.pos /\ mi'.pending = 1 /\ mi' \in MiType
      BY <1>1, <1>3, <1>4 DEF MiType
    <2> QED
      BY <2>1, <1>3, <1>4 DEF Here
  <1>6. Data'
    <2>1. Head(net).n \in 0 .. MaxStatement
      BY <1>3, EventKinds, Bounds DEF Statement
    <2> QED
      BY <2>1, <1>1, <1>3, <1>4, <1>5 DEF IInv, Data, MiType, faults
  <1>7. LogRight' /\ IndexRight' /\ DumpRight'
    BY <1>1, <1>3, MasterSame, DumpSame DEF IInv, faults, DumpRight
  <1>8. NetRight'
    <2>1. Sync(logs, mi', "read", g, q)
      BY <1>4, <1>5 DEF Sync
    <2>2. Link(logs, active, Tail(net), dump, mi', "read")
      BY <2>1, <1>2
    <2> QED
      BY <2>2, <1>1, <1>3 DEF NetRight, mvars
  <1>9. SlaveRight'
    <2>1. Placed(logs, active, mi', "read")
      BY <1>2, <1>3, <1>4, <1>5 DEF Placed
    <2> QED
      BY <2>1, <1>1, <1>3, <1>4, <1>5 DEF SlaveRight, mvars
  <1>10. NoGap => Counted' /\ TempTableKept'
    <2>1. SUFFICES ASSUME NoGap PROVE Counted' /\ TempTableKept'
      OBVIOUS
    <2>2. Counts(logs, mi', "read", Done, Len(applied), crashes)
      BY <2>1, <1>3, <1>4, <1>5 DEF IInv, Counted, Counts
    <2> QED
      BY <2>1, <2>2, <1>1, <1>3, AppliedSame DEF IInv, Counted, mvars, faults
  <1> QED
    BY <1>1, <1>6, <1>7, <1>8, <1>9, <1>10, AppliedSame DEF IInv, NoGap

LEMMA Advances ==
  ASSUME mi \in MiType, Advance
  PROVE  /\ mi' \in MiType /\ mi'.file = mi.file /\ mi'.pos = mi.pos + 1 + mi.pending
         /\ mi'.pending = 0 /\ mi'.pos \in Nat
         /\ info' = [file |-> mi'.file, pos |-> mi'.pos]
  <1>1. mi' = [mi EXCEPT !.pos = @ + 1 + mi.pending, !.pending = 0]
    BY DEF Advance
  <1>2. mi.pos \in Nat /\ mi.pending \in {0, 1} /\ mi.file \in File
    BY DEF MiType
  <1> DEFINE v == mi.pos + 1 + mi.pending
  <1>3. v \in Nat /\ 0 \in {0, 1}
    BY <1>2
  <1> HIDE DEF v
  <1>4. mi' = [mi EXCEPT !.pos = v, !.pending = 0]
    BY <1>1 DEF v
  <1>5. /\ mi' \in MiType /\ mi'.file = mi.file /\ mi'.pos = v
        /\ mi'.pending = 0 /\ mi'.pos \in Nat
    BY <1>3, <1>4, <1>2 DEF MiType
  <1>6. /\ mi' \in MiType /\ mi'.file = mi.file /\ mi'.pos = mi.pos + 1 + mi.pending
        /\ mi'.pending = 0 /\ mi'.pos \in Nat
    BY <1>5 DEF v
  <1>7. info' = [file |-> mi'.file, pos |-> mi'.pos]
    BY DEF Advance
  <1> QED
    BY <1>6, <1>7

LEMMA StartStep ==
  ASSUME IInv, exec_start
  PROVE  IInv'
  <1>1. /\ UNCHANGED <<mvars, dump, spc, next_insert_id, applied, faults>>
        /\ temp' = FALSE /\ Advance
        /\ Takes("start")
    BY DEF exec_start
  <1>2. PICK f, p, g, q :
              /\ Valid(logs, active, f, p) /\ f \in File /\ p \in Nat
              /\ Valid(logs, active, g, q) /\ g \in File /\ q \in Nat
              /\ Hop(logs, Head(net), f, p, g, q)
              /\ Sync(logs, mi, "read", f, p)
              /\ \A o, t : Sync(logs, o, t, g, q) => Link(logs, active, Tail(net), dump, o, t)
    BY <1>1, Taken
  <1>3. /\ spc = "read" /\ mi \in MiType /\ mi.file \in File /\ mi.pos \in Nat
        /\ LogOK(logs, written, active, restarts)
        /\ Placed(logs, active, mi, "read")
        /\ Head(net) \in Events /\ Head(net).type = "start"
        /\ net' = Tail(net) /\ Tail(net) \in Seq(Events)
    BY <1>1, Taken
  <1>4. /\ g = f /\ q \in 1 .. Len(logs[f]) /\ Head(net) = logs[f][q]
        /\ mi.file = f /\ mi.pending = 0 /\ mi.pos = 0 /\ q = 1
        /\ restarts = 0 => f = 1
    BY <1>2, <1>3, Comes
  <1>5. /\ mi'.file = f /\ mi'.pos = 1 /\ mi'.pending = 0 /\ mi' \in MiType
        /\ info' = [file |-> mi'.file, pos |-> mi'.pos]
        /\ Here(mi', "read") = q
    <2>1. /\ mi'.file = f /\ mi'.pos = 1 /\ mi'.pending = 0 /\ mi' \in MiType
          /\ info' = [file |-> mi'.file, pos |-> mi'.pos]
      BY <1>1, <1>3, <1>4, Advances
    <2> QED
      BY <2>1, <1>4 DEF Here
  <1>6. Data'
    BY <1>1, <1>3, <1>5 DEF IInv, Data, MiType, faults
  <1>7. LogRight' /\ IndexRight' /\ DumpRight'
    BY <1>1, <1>3, MasterSame, DumpSame DEF IInv, faults, DumpRight
  <1>8. NetRight'
    <2>1. Sync(logs, mi', "read", g, q)
      BY <1>4, <1>5 DEF Sync
    <2>2. Link(logs, active, Tail(net), dump, mi', "read")
      BY <2>1, <1>2
    <2> QED
      BY <2>2, <1>1, <1>3 DEF NetRight, mvars
  <1>9. SlaveRight'
    <2>1. Placed(logs, active, mi', "read")
      BY <1>2, <1>3, <1>4, <1>5 DEF Placed
    <2> QED
      BY <2>1, <1>1, <1>3, <1>4, <1>5 DEF SlaveRight, mvars
  <1>10. NoGap => Counted' /\ TempTableKept'
    <2>1. SUFFICES ASSUME NoGap PROVE Counted' /\ TempTableKept'
      OBVIOUS
    <2>2. \A k : Seen(logs, f, 0, k) => Seen(logs, f, 1, k)
      <3>1. ~ IsQuery(logs, f, 0 + 1)
        BY <1>3, <1>4 DEF IsQuery
      <3>2. \A k : Seen(logs, f, 0, k) <=> Seen(logs, f, 0 + 1, k)
        BY <3>1, <1>2, SeenStep
      <3> QED
        BY <3>2
    <2>3. Counts(logs, mi', "read", Done, Len(applied), crashes)
      BY <2>1, <2>2, <1>3, <1>4, <1>5 DEF IInv, Counted, Counts
    <2>4. Counted'
      BY <2>1, <2>3, <1>1, <1>3, AppliedSame DEF IInv, Counted, mvars, faults
    <2>5. ASSUME restarts = 0, crashes = 0
          PROVE  applied = <<>>
      <3>1. /\ Len(applied) \in Nat /\ Done \in Nat
            /\ applied # <<>> => Done \in Statement
        BY DoneType DEF IInv, Data
      <3>2. Done <= written /\ Done = Len(applied) /\ Seen(logs, f, 0, Done)
        BY <2>1, <2>5, <3>1, <1>3, <1>4 DEF IInv, Counted, Counts
      <3>3. SUFFICES ASSUME applied # <<>> PROVE FALSE
        OBVIOUS
      <3>4. Done \in 1 .. written
        BY <3>1, <3>2, <3>3, <1>3, Bounds DEF Statement, LogOK
      <3>5. PICK h \in File : \E j \in Nat : IsQuery(logs, h, j) /\ logs[h][j].n = Done
        BY <3>4, <1>3 DEF LogOK, AllThere
      <3>6. PICK j \in Nat : IsQuery(logs, h, j) /\ logs[h][j].n = Done
        BY <3>5
      <3>7. Past(f, 0, h, j)
        BY <3>1, <3>2, <3>6 DEF Seen
      <3>8. h \in Nat /\ h >= 1 /\ j >= 1
        BY <3>6, Bounds DEF IsQuery, File
      <3>9. f = 1
        BY <2>5, <1>4
      <3> QED
        BY <3>7, <3>8, <3>9 DEF Past
    <2>6. TempTableKept'
      <3>1. ASSUME restarts = 0, crashes = 0
            PROVE  ~ \E i \in DOMAIN applied : applied[i].n = Temporary
        <4>1. applied = <<>>
          BY <2>5, <3>1
        <4> QED
          BY <4>1
      <3> QED
        BY <3>1, <1>1 DEF TempTableKept, faults
    <2> QED
      BY <2>4, <2>6
  <1> QED
    BY <1>1, <1>6, <1>7, <1>8, <1>9, <1>10, AppliedSame DEF IInv, NoGap

LEMMA DoneAppend ==
  ASSUME applied \in Seq([n : Statement, id : 0 .. MaxStatement]),
         NEW x \in Statement, NEW y \in 0 .. MaxStatement,
         applied' = Append(applied, [n |-> x, id |-> y])
  PROVE  /\ Done' = x /\ applied' # <<>> /\ Len(applied') = Len(applied) + 1
         /\ applied' \in Seq([n : Statement, id : 0 .. MaxStatement])
         /\ DOMAIN applied = 1 .. Len(applied)
         /\ DOMAIN applied' = 1 .. Len(applied) + 1
         /\ applied'[Len(applied) + 1].n = x /\ applied'[Len(applied) + 1].id = y
         /\ \A i \in 1 .. Len(applied) : applied'[i] = applied[i]
         /\ \A i \in 1 .. Len(applied) + 1 : i = Len(applied) + 1 \/ i \in 1 .. Len(applied)
  <1> DEFINE R == [n : Statement, id : 0 .. MaxStatement]
             e == [n |-> x, id |-> y]
  <1>1. applied \in Seq(R) /\ e \in R /\ e.n = x /\ e.id = y
    OBVIOUS
  <1> HIDE DEF R, e
  <1>2. applied' = Append(applied, e)
    BY DEF e
  <1>3. /\ Len(applied) \in Nat /\ DOMAIN applied = 1 .. Len(applied)
        /\ applied' \in Seq(R) /\ Len(applied') = Len(applied) + 1
        /\ applied'[Len(applied) + 1] = e
        /\ \A i \in 1 .. Len(applied) : applied'[i] = applied[i]
    BY <1>1, <1>2
  <1>4. DOMAIN applied' = 1 .. Len(applied) + 1 /\ applied' # <<>>
    BY <1>3
  <1>5. \A i \in 1 .. Len(applied) + 1 : i = Len(applied) + 1 \/ i \in 1 .. Len(applied)
    BY <1>3
  <1>6. Done' = x
    BY <1>1, <1>3, <1>4 DEF Done
  <1> QED
    BY <1>1, <1>3, <1>4, <1>5, <1>6 DEF R

(* The statement that comes is the one after those that were executed before *)
(* its position: a new one, or, after a crash, the last one.                 *)
LEMMA QueryComes ==
  ASSUME IInv, NoGap, spc = "read",
         NEW f \in File, NEW p \in Nat, Valid(logs, active, f, p),
         Sync(logs, mi, "read", f, p), IsQuery(logs, f, p + 1),
         NEW n, n = logs[f][p + 1].n
  PROVE  /\ n \in Nat /\ n > 0 /\ n <= written
         /\ Seen(logs, mi.file, mi.pos, n - 1) /\ Seen(logs, f, p + 1, n)
         /\ \/ n = Done + 1
            \/ n = Done /\ Len(applied) < Done + crashes /\ applied # <<>>
  <1>1. /\ LogOK(logs, written, active, restarts) /\ mi \in MiType
        /\ Placed(logs, active, mi, "read") /\ Counted
        /\ applied \in Seq([n : Statement, id : 0 .. MaxStatement])
    BY DEF IInv, Data, LogRight, SlaveRight, MiType
  <1>2. /\ Len(applied) \in Nat /\ Done \in Nat /\ (applied = <<>> => Done = 0)
        /\ p + 1 \in Nat
    BY <1>1, DoneType
  <1>3. n \in Nat /\ n <= written /\ Seen(logs, f, p + 1, n)
    BY <1>1, <1>2, QueryAt, SeenAt
  <1>4. ASSUME NEW k \in Nat, Seen(logs, mi.file, mi.pos, k)
        PROVE  n = k + 1
    <2>1. Seen(logs, f, p, k)
      BY <1>1, <1>4, SyncSeen
    <2> QED
      BY <2>1, <1>1, NextIs
  <1>5. CASE Seen(logs, mi.file, mi.pos, Done)
    <2>1. n = Done + 1 /\ n - 1 = Done
      BY <1>2, <1>4, <1>5
    <2> QED
      BY <2>1, <1>2, <1>3, <1>5
  <1>6. CASE Done > 0 /\ Seen(logs, mi.file, mi.pos, Done - 1) /\ Len(applied) < Done + crashes
    <2>1. Done - 1 \in Nat
      BY <1>2, <1>6
    <2>2. n = Done /\ n - 1 = Done - 1
      BY <2>1, <1>2, <1>4, <1>6
    <2> QED
      BY <2>2, <1>2, <1>3, <1>6
  <1> QED
    BY <1>1, <1>5, <1>6 DEF Counted, Counts

LEMMA QueryStep ==
  ASSUME IInv, exec_query
  PROVE  IInv'
  <1> DEFINE n == Head(net).n
  <1>1. /\ UNCHANGED <<mvars, dump, mi, info, faults>>
        /\ applied' = Append(applied, [n |-> n, id |-> next_insert_id])
        /\ next_insert_id' = IF n \in AutoInc THEN 0 ELSE next_insert_id
        /\ temp' = (temp \/ n = Temporary)
        /\ spc' = "executed"
        /\ Takes("query")
    BY DEF exec_query
  <1>2. PICK f, p, g, q :
              /\ Valid(logs, active, f, p) /\ f \in File /\ p \in Nat
              /\ Valid(logs, active, g, q) /\ g \in File /\ q \in Nat
              /\ Hop(logs, Head(net), f, p, g, q)
              /\ Sync(logs, mi, "read", f, p)
              /\ \A o, t : Sync(logs, o, t, g, q) => Link(logs, active, Tail(net), dump, o, t)
    BY <1>1, Taken
  <1>3. /\ spc = "read" /\ mi \in MiType /\ mi.file \in File /\ mi.pos \in Nat
        /\ mi.pending \in {0, 1}
        /\ LogOK(logs, written, active, restarts)
        /\ Placed(logs, active, mi, "read")
        /\ Head(net) \in Events /\ Head(net).type = "query"
        /\ net' = Tail(net) /\ Tail(net) \in Seq(Events)
    BY <1>1, Taken
  <1>4. /\ g = f /\ q = p + 1 /\ q \in 1 .. Len(logs[f]) /\ Head(net) = logs[f][q]
        /\ mi.file = f /\ p = mi.pos + mi.pending
        /\ IsQuery(logs, f, q) /\ n <= written /\ n \in Statement
        /\ n \in AutoInc => mi.pending = 1 /\ logs[f][mi.pos + 1].n = n
    BY <1>2, <1>3, Comes
  <1>5. Here(mi, "executed") = q
    BY <1>3, <1>4 DEF Here
  <1>6. /\ applied \in Seq([n : Statement, id : 0 .. MaxStatement])
        /\ next_insert_id \in 0 .. MaxStatement /\ temp \in BOOLEAN
        /\ InsertIds /\ SlaveRight /\ crashes \in Nat
    BY DEF IInv, Data
  <1>7. /\ Done' = n /\ applied' # <<>> /\ Len(applied') = Len(applied) + 1
        /\ applied' \in Seq([n : Statement, id : 0 .. MaxStatement])
        /\ DOMAIN applied = 1 .. Len(applied)
        /\ DOMAIN applied' = 1 .. Len(applied) + 1
        /\ applied'[Len(applied) + 1].n = n
        /\ applied'[Len(applied) + 1].id = next_insert_id
        /\ \A i \in 1 .. Len(applied) : applied'[i] = applied[i]
        /\ \A i \in 1 .. Len(applied) + 1 : i = Len(applied) + 1 \/ i \in 1 .. Len(applied)
    BY <1>1, <1>4, <1>6, DoneAppend
  <1> HIDE DEF n
  <1>8. Data'
    <2>1. next_insert_id' \in 0 .. MaxStatement
      BY <1>1, <1>6, Bounds
    <2>2. temp' \in BOOLEAN
      BY <1>1
    <2> QED
      BY <2>1, <2>2, <1>1, <1>3, <1>7 DEF IInv, Data, faults
  <1>9. LogRight' /\ IndexRight' /\ DumpRight'
    BY <1>1, <1>3, MasterSame, DumpSame DEF IInv, faults, DumpRight
  <1>10. NetRight'
    <2>1. Sync(logs, mi, "executed", g, q)
      BY <1>4, <1>5 DEF Sync
    <2>2. Link(logs, active, Tail(net), dump, mi, "executed")
      BY <2>1, <1>2
    <2> QED
      BY <2>2, <1>1, <1>3 DEF NetRight, mvars
  <1>11. SlaveRight'
    <2>1. Placed(logs, active, mi, "executed")
      BY <1>2, <1>3, <1>4, <1>5 DEF Placed
    <2>2. n = logs[f][q].n
      BY <1>4 DEF n
    <2> QED
      BY <2>1, <2>2, <1>1, <1>4, <1>5, <1>7 DEF SlaveRight, mvars
  <1>12. InsertIds'
    <2>1. n \in AutoInc => next_insert_id = n
      BY <1>3, <1>4, <1>6 DEF SlaveRight
    <2> QED
      BY <2>1, <1>6, <1>7 DEF InsertIds
  <1>13. NoGap => Counted' /\ TempTableKept'
    <2>1. SUFFICES ASSUME NoGap PROVE Counted' /\ TempTableKept'
      OBVIOUS
    <2>2. /\ n \in Nat /\ n > 0 /\ n <= written
          /\ Seen(logs, mi.file, mi.pos, n - 1) /\ Seen(logs, f, q, n)
          /\ n = Done + 1 \/ (n = Done /\ Len(applied) < Done + crashes)
      <3>1. n = logs[f][p + 1].n /\ IsQuery(logs, f, p + 1)
        BY <1>4 DEF n
      <3> QED
        BY <3>1, <2>1, <1>2, <1>3, <1>4, QueryComes
    <2>3. /\ Len(applied) \in Nat /\ Done \in Nat
          /\ Done <= Len(applied) /\ Len(applied) <= Done + crashes
      BY <2>1, <1>6, DoneType DEF IInv, Counted, Counts
    <2>4. n <= Len(applied) + 1 /\ Len(applied) + 1 <= n + crashes
      BY <2>2, <2>3, <1>6
    <2>5. Counts(logs, mi, "executed", n, Len(applied) + 1, crashes)
      BY <2>2, <2>4, <1>4, <1>5 DEF Counts
    <2>6. Counted'
      BY <2>2, <2>5, <1>1, <1>7 DEF Counted, mvars, faults
    <2>7. TempTableKept'
      <3>1. ASSUME restarts = 0, crashes = 0
            PROVE  temp' <=> \E i \in DOMAIN applied' : applied'[i].n = Temporary
        <4>1. temp <=> \E i \in 1 .. Len(applied) : applied[i].n = Temporary
          BY <2>1, <3>1, <1>7 DEF IInv, TempTableKept
        <4>2. (\E i \in DOMAIN applied' : applied'[i].n = Temporary)
                <=> (n = Temporary \/ \E i \in 1 .. Len(applied) : applied[i].n = Temporary)
          <5>1. \A i \in 1 .. Len(applied) : i \in 1 .. Len(applied) + 1
            BY <2>3
          <5>2. Len(applied) + 1 \in 1 .. Len(applied) + 1
            BY <2>3
          <5> QED
            BY <5>1, <5>2, <1>7
        <4> QED
          BY <4>1, <4>2, <1>1
      <3> QED
        BY <3>1, <1>1, <1>6 DEF TempTableKept, faults
    <2> QED
      BY <2>6, <2>7
  <1> QED
    BY <1>8, <1>9, <1>10, <1>11, <1>12, <1>13 DEF IInv, NoGap

LEMMA ExecutedStep ==
  ASSUME IInv, Executed
  PROVE  IInv'
  <1>1. /\ UNCHANGED <<mvars, dump, net, next_insert_id, temp, applied, faults>>
        /\ spc = "executed" /\ spc' = "read" /\ Advance
    BY DEF Executed
  <1>2. /\ mi \in MiType /\ mi.file \in File /\ mi.pos \in Nat /\ mi.pending \in {0, 1}
        /\ Placed(logs, active, mi, "executed")
    BY <1>1 DEF IInv, Data, SlaveRight, MiType
  <1>3. /\ mi' \in MiType /\ mi'.file = mi.file /\ mi'.pos = mi.pos + 1 + mi.pending
        /\ mi'.pending = 0 /\ mi'.pos \in Nat
        /\ info' = [file |-> mi'.file, pos |-> mi'.pos]
    BY <1>1, <1>2, Advances
  <1>4. Here(mi, "executed") = mi'.pos /\ Here(mi', "read") = mi'.pos
    BY <1>2, <1>3 DEF Here
  <1>5. Data'
    BY <1>1, <1>3 DEF IInv, Data, MiType, faults
  <1>6. LogRight' /\ IndexRight' /\ DumpRight'
    BY <1>1, MasterSame, DumpSame DEF IInv, faults, DumpRight
  <1>7. NetRight'
    <2>1. \A f, p : Sync(logs, mi, "executed", f, p) => Sync(logs, mi', "read", f, p)
      BY <1>3, <1>4 DEF Sync
    <2>2. Link(logs, active, net, dump, mi, "executed")
      BY <1>1 DEF IInv, NetRight
    <2>3. Link(logs, active, net, dump, mi', "read")
      BY <2>1, <2>2 DEF Link
    <2> QED
      BY <2>3, <1>1 DEF NetRight, mvars
  <1>8. SlaveRight'
    <2>1. Placed(logs, active, mi', "read")
      BY <1>2, <1>3, <1>4 DEF Placed, IsQuery
    <2> QED
      BY <2>1, <1>1, <1>3 DEF SlaveRight, mvars
  <1>9. NoGap => Counted' /\ TempTableKept'
    <2>1. SUFFICES ASSUME NoGap PROVE Counted' /\ TempTableKept'
      OBVIOUS
    <2>2. Counts(logs, mi', "read", Done, Len(applied), crashes)
      BY <2>1, <1>1, <1>3, <1>4 DEF IInv, Counted, Counts
    <2> QED
      BY <2>1, <2>2, <1>1, AppliedSame DEF IInv, Counted, mvars, faults
  <1> QED
    BY <1>1, <1>5, <1>6, <1>7, <1>8, <1>9, AppliedSame DEF IInv, NoGap

LEMMA StopStep ==
  ASSUME IInv, exec_stop
  PROVE  IInv'
  <1>1. /\ UNCHANGED <<mvars, dump, spc, next_insert_id, applied, faults>>
        /\ IF mi.pos > 0 THEN temp' = FALSE /\ Advance ELSE UNCHANGED <<temp, mi, info>>
        /\ Takes("stop")
    BY DEF exec_stop
  <1>2. PICK f, p, g, q :
              /\ Valid(logs, active, f, p) /\ f \in File /\ p \in Nat
              /\ Valid(logs, active, g, q) /\ g \in File /\ q \in Nat
              /\ Hop(logs, Head(net), f, p, g, q)
              /\ Sync(logs, mi, "read", f, p)
              /\ \A o, t : Sync(logs, o, t, g, q) => Link(logs, active, Tail(net), dump, o, t)
    BY <1>1, Taken
  <1>3. /\ spc = "read" /\ mi \in MiType /\ mi.file \in File /\ mi.pos \in Nat
        /\ LogOK(logs, written, active, restarts)
        /\ Placed(logs, active, mi, "read")
        /\ Head(net) \in Events /\ Head(net).type = "stop"
        /\ net' = Tail(net) /\ Tail(net) \in Seq(Events)
    BY <1>1, Taken
  <1>4. /\ mi.pending = 0
        /\ mi.pos > 0 => /\ mi.file = f /\ mi.pos = p /\ q = p + 1 /\ g = f
                         /\ logs[f][q].type = "stop" /\ q \in 1 .. Len(logs[f])
                         /\ restarts > 0
        /\ mi.pos = 0 => Sync(logs, mi, "read", g, q)
    BY <1>2, <1>3, StopComes
  <1>5. LogRight' /\ IndexRight' /\ DumpRight'
    BY <1>1, <1>3, MasterSame, DumpSame DEF IInv, faults, DumpRight
  <1>6. CASE mi.pos = 0
    <2>1. UNCHANGED <<temp, mi, info>>
      BY <1>1, <1>6
    <2>2. Data'
      BY <2>1, <1>1, <1>3 DEF IInv, Data, faults
    <2>3. NetRight'
      <3>1. Link(logs, active, Tail(net), dump, mi, "read")
        BY <1>2, <1>4, <1>6
      <3> QED
        BY <3>1, <2>1, <1>1, <1>3 DEF NetRight, mvars
    <2>4. SlaveRight'
      BY <2>1, <1>1, <1>3, AppliedSame DEF IInv, SlaveRight, mvars
    <2>5. NoGap => Counted' /\ TempTableKept'
      BY <2>1, <1>1, AppliedSame DEF IInv, Counted, mvars, faults
    <2> QED
      BY <2>2, <2>3, <2>4, <2>5, <1>1, <1>5, AppliedSame DEF IInv, NoGap
  <1>7. CASE mi.pos > 0
    <2>1. temp' = FALSE /\ Advance
      BY <1>1, <1>7
    <2>2. /\ mi' \in MiType /\ mi'.file = f /\ mi'.pos = q
          /\ mi'.pending = 0 /\ info' = [file |-> mi'.file, pos |-> mi'.pos]
      BY <2>1, <1>2, <1>3, <1>4, <1>7, Advances
    <2>3. Here(mi', "read") = q
      BY <2>2, <1>2 DEF Here
    <2>4. Data'
      BY <2>1, <2>2, <1>1, <1>3 DEF IInv, Data, MiType, faults
    <2>5. NetRight'
      <3>1. Sync(logs, mi', "read", g, q)
        BY <2>2, <2>3, <1>4, <1>7 DEF Sync
      <3>2. Link(logs, active, Tail(net), dump, mi', "read")
        BY <3>1, <1>2
      <3> QED
        BY <3>2, <1>1, <1>3 DEF NetRight, mvars
    <2>6. SlaveRight'
      <3>1. Placed(logs, active, mi', "read")
        BY <2>2, <2>3, <1>2, <1>4, <1>7 DEF Placed
      <3> QED
        BY <3>1, <2>2, <1>1, <1>3 DEF SlaveRight, mvars
    <2>7. NoGap => Counted' /\ TempTableKept'
      <3>1. SUFFICES ASSUME NoGap PROVE Counted' /\ TempTableKept'
        OBVIOUS
      <3>2. \A k : Seen(logs, f, p, k) => Seen(logs, f, q, k)
        <4>1. ~ IsQuery(logs, f, p + 1)
          BY <1>4, <1>7 DEF IsQuery
        <4>2. \A k : Seen(logs, f, p, k) <=> Seen(logs, f, p + 1, k)
          BY ONLY <4>1, <1>2, SeenStep
        <4> QED
          BY <4>2, <1>4, <1>7
      <3>3. Counts(logs, mi', "read", Done, Len(applied), crashes)
        BY <3>1, <3>2, <2>2, <1>3, <1>4, <1>7 DEF IInv, Counted, Counts
      <3>4. Counted'
        BY <3>1, <3>3, <1>1, <1>3, AppliedSame DEF IInv, Counted, mvars, faults
      <3>5. TempTableKept'
        BY <1>1, <1>4, <1>7 DEF TempTableKept, faults
      <3> QED
        BY <3>4, <3>5
    <2> QED
      BY <2>4, <2>5, <2>6, <2>7, <1>1, <1>5, AppliedSame DEF IInv, NoGap
  <1> QED
    BY <1>3, <1>6, <1>7

LEMMA RotateStep ==
  ASSUME IInv, exec_rotate
  PROVE  IInv'
  <1>1. /\ UNCHANGED <<mvars, dump, spc, next_insert_id, temp, applied, faults>>
        /\ mi' = [mi EXCEPT !.file = Head(net).n, !.pos = 0]
        /\ info' = [file |-> Head(net).n, pos |-> 0]
        /\ Takes("rotate")
    BY DEF exec_rotate
  <1>2. PICK f, p, g, q :
              /\ Valid(logs, active, f, p) /\ f \in File /\ p \in Nat
              /\ Valid(logs, active, g, q) /\ g \in File /\ q \in Nat
              /\ Hop(logs, Head(net), f, p, g, q)
              /\ Sync(logs, mi, "read", f, p)
              /\ \A o, t : Sync(logs, o, t, g, q) => Link(logs, active, Tail(net), dump, o, t)
    BY <1>1, Taken
  <1>3. /\ spc = "read" /\ mi \in MiType /\ mi.file \in File /\ mi.pos \in Nat
        /\ LogOK(logs, written, active, restarts)
        /\ Placed(logs, active, mi, "read")
        /\ Head(net) \in Events /\ Head(net).type = "rotate"
        /\ net' = Tail(net) /\ Tail(net) \in Seq(Events)
    BY <1>1, Taken
  <1> DEFINE h == Head(net).n
  <1>4. /\ mi.pending = 0 /\ h \in File /\ Valid(logs, active, h, 0)
        /\ mi'.file = h /\ mi'.pos = 0 /\ mi'.pending = 0 /\ mi' \in MiType
        /\ Sync(logs, mi', "read", g, q)
        /\ \A k : NoGap /\ Seen(logs, mi.file, mi.pos, k) => Seen(logs, h, 0, k)
    <2> DEFINE o == [mi EXCEPT !.file = h, !.pos = 0]
    <2>1. /\ mi.pending = 0 /\ h \in File /\ Valid(logs, active, h, 0)
          /\ o.file = h /\ o.pos = 0 /\ o.pending = 0 /\ o \in MiType
          /\ Sync(logs, o, "read", g, q)
          /\ \A k : NoGap /\ Seen(logs, mi.file, mi.pos, k) => Seen(logs, h, 0, k)
      BY <1>2, <1>3, RotateComes
    <2>2. mi' = o
      BY <1>1
    <2> HIDE DEF o, h
    <2> QED
      BY <2>1, <2>2
  <1>5. Here(mi', "read") = 0
    BY <1>4 DEF Here
  <1>6. Data'
    BY <1>1, <1>3, <1>4 DEF IInv, Data, MiType, faults
  <1>7. LogRight' /\ IndexRight' /\ DumpRight'
    BY <1>1, <1>3, MasterSame, DumpSame DEF IInv, faults, DumpRight
  <1>8. NetRight'
    <2>1. Link(logs, active, Tail(net), dump, mi', "read")
      BY <1>2, <1>4
    <2> QED
      BY <2>1, <1>1, <1>3 DEF NetRight, mvars
  <1> HIDE DEF h
  <1>9. SlaveRight'
    <2>1. Placed(logs, active, mi', "read")
      BY <1>4, <1>5 DEF Placed
    <2> QED
      BY <2>1, <1>1, <1>3, <1>4 DEF SlaveRight, mvars
  <1>10. NoGap => Counted' /\ TempTableKept'
    <2>1. SUFFICES ASSUME NoGap PROVE Counted' /\ TempTableKept'
      OBVIOUS
    <2>2. Counts(logs, mi', "read", Done, Len(applied), crashes)
      BY <2>1, <1>3, <1>4 DEF IInv, Counted, Counts
    <2> QED
      BY <2>1, <2>2, <1>1, <1>3, AppliedSame DEF IInv, Counted, mvars, faults
  <1> QED
    BY <1>1, <1>6, <1>7, <1>8, <1>9, <1>10, AppliedSame DEF IInv, NoGap

LEMMA ReadFailsStep ==
  ASSUME IInv, ReadFails
  PROVE  IInv'
  <1>1. /\ UNCHANGED <<mvars, dump, net, mi, info, next_insert_id, temp, applied, faults>>
        /\ spc = "read" /\ net = <<>> /\ dump.pc = "none" /\ spc' = "connect"
    BY DEF ReadFails
  <1>2. Data'
    BY <1>1 DEF IInv, Data, faults
  <1>3. LogRight' /\ IndexRight' /\ DumpRight'
    BY <1>1, MasterSame, DumpSame DEF IInv, faults
  <1>4. NetRight'
    BY <1>1 DEF NetRight
  <1>5. SlaveRight'
    BY <1>1 DEF IInv, SlaveRight, Placed, Here, mvars
  <1>6. NoGap => Counted' /\ TempTableKept'
    BY <1>1, AppliedSame DEF IInv, Counted, Counts, mvars, faults
  <1> QED
    BY <1>1, <1>2, <1>3, <1>4, <1>5, <1>6, AppliedSame DEF IInv, NoGap

(* The slave ends, between two events. *)
LEMMA EndStep ==
  ASSUME IInv, QueryFails \/ StopSlave
  PROVE  IInv'
  <1>1. /\ UNCHANGED <<mvars, mi, info, temp, applied, restarts, crashes, purges>>
        /\ spc \in {"connect", "read"} /\ spc' = "stopped" /\ dump' = NoDump
        /\ next_insert_id' = 0 /\ drops' = drops + 1
        /\ net' \in Seq(Events)
    <2>1. CASE QueryFails
      BY <2>1, Taken DEF QueryFails
    <2>2. CASE StopSlave
      BY <2>2 DEF StopSlave
    <2> QED
      BY <2>1, <2>2
  <1>2. Data'
    <2>1. NoDump \in [pc : DumpPc, file : Nat, pos : Nat, offset : Nat]
      BY DEF NoDump, DumpPc
    <2>2. 0 \in 0 .. MaxStatement /\ drops' \in Nat
      BY <1>1, Bounds DEF IInv, Data
    <2> QED
      BY <2>1, <2>2, <1>1 DEF IInv, Data
  <1>3. LogRight' /\ IndexRight' /\ DumpRight'
    BY <1>1, MasterSame, DumpSame DEF IInv, NoDump
  <1>4. NetRight'
    BY <1>1 DEF NetRight
  <1>5. SlaveRight'
    BY <1>1 DEF IInv, SlaveRight, Placed, Here, mvars
  <1>6. NoGap => Counted' /\ TempTableKept'
    BY <1>1, AppliedSame DEF IInv, Counted, Counts, mvars
  <1> QED
    BY <1>1, <1>2, <1>3, <1>4, <1>5, <1>6, AppliedSame DEF IInv, NoGap

(* The slave starts, and goes on where it was. *)
LEMMA ResetPending ==
  ASSUME NEW L, NEW a, NEW m \in MiType, NEW s, s # "executed", Placed(L, a, m, s),
         NEW o, o = [m EXCEPT !.pending = 0], NEW t, t # "executed"
  PROVE  /\ o \in MiType /\ o.file = m.file /\ o.pos = m.pos /\ o.pending = 0
         /\ Here(o, t) = m.pos /\ Placed(L, a, o, t)
  <1>1. o \in MiType /\ o.file = m.file /\ o.pos = m.pos /\ o.pending = 0 /\ m.pos \in Nat
    BY DEF MiType
  <1>2. Here(o, t) = m.pos
    BY <1>1 DEF Here
  <1> QED
    BY <1>1, <1>2 DEF Placed

LEMMA StartSlaveStep ==
  ASSUME IInv, StartSlave
  PROVE  IInv'
  <1>1. /\ UNCHANGED <<mvars, dump, info, next_insert_id, temp, applied, faults>>
        /\ spc = "stopped" /\ spc' = "connect" /\ net' = <<>>
        /\ mi' = [mi EXCEPT !.pending = 0]
    BY DEF StartSlave
  <1>2. /\ mi' \in MiType /\ mi'.file = mi.file /\ mi'.pos = mi.pos /\ mi'.pending = 0
        /\ Placed(logs, active, mi', "connect")
    BY <1>1, ResetPending DEF IInv, Data, SlaveRight, MiType
  <1>3. Data'
    BY <1>1, <1>2 DEF IInv, Data, MiType, faults
  <1>4. LogRight' /\ IndexRight' /\ DumpRight'
    BY <1>1, MasterSame, DumpSame DEF IInv, faults, DumpRight
  <1>5. NetRight'
    BY <1>1 DEF NetRight
  <1>6. SlaveRight'
    BY <1>1, <1>2 DEF SlaveRight, mvars
  <1>7. NoGap => Counted' /\ TempTableKept'
    BY <1>1, <1>2, AppliedSame DEF IInv, Counted, Counts, mvars, faults
  <1> QED
    BY <1>1, <1>3, <1>4, <1>5, <1>6, <1>7, AppliedSame DEF IInv, NoGap

(* The slave dies: what was executed since flush_master_info() is one        *)
(* statement at most.                                                        *)
LEMMA CrashStep ==
  ASSUME IInv, SlaveCrash
  PROVE  IInv'
  <1>1. /\ UNCHANGED <<mvars, info, applied, restarts, drops, purges>>
        /\ spc' = "connect" /\ dump' = NoDump /\ net' = <<>>
        /\ mi' = [file |-> info.file, pos |-> info.pos, pending |-> 0]
        /\ next_insert_id' = 0 /\ temp' = FALSE /\ crashes' = crashes + 1
    BY DEF SlaveCrash
  <1>2. /\ mi \in MiType /\ mi.file \in File /\ mi.pos \in Nat
        /\ info = [file |-> mi.file, pos |-> mi.pos] /\ crashes \in Nat
        /\ applied \in Seq([n : Statement, id : 0 .. MaxStatement])
    BY DEF IInv, Data, MiType
  <1>3. /\ mi' \in MiType /\ mi'.file = mi.file /\ mi'.pos = mi.pos /\ mi'.pending = 0
        /\ Here(mi', "connect") = mi.pos
    <2>1. /\ mi' \in MiType /\ mi'.file = mi.file /\ mi'.pos = mi.pos /\ mi'.pending = 0
      BY <1>1, <1>2 DEF MiType
    <2> QED
      BY <2>1, <1>2 DEF Here
  <1>4. Data'
    <2>1. NoDump \in [pc : DumpPc, file : Nat, pos : Nat, offset : Nat]
      BY DEF NoDump, DumpPc
    <2>2. 0 \in 0 .. MaxStatement /\ crashes' \in Nat
      BY <1>1, Bounds DEF IInv, Data
    <2>3. info' = [file |-> mi'.file, pos |-> mi'.pos]
      BY <1>1, <1>2, <1>3
    <2>4. /\ {restarts, crashes, drops, purges}' \subseteq Nat
          /\ applied' \in Seq([n : Statement, id : 0 .. MaxStatement])
      BY <2>2, <1>1, <1>2 DEF IInv, Data
    <2>5. /\ dump' \in [pc : DumpPc, file : Nat, pos : Nat, offset : Nat]
          /\ net' \in Seq(Events) /\ next_insert_id' \in 0 .. MaxStatement
          /\ spc' \in {"stopped", "connect", "read", "executed"} /\ temp' \in BOOLEAN
      <3>1. dump' = NoDump /\ net' = <<>> /\ next_insert_id' = 0 /\ spc' = "connect" /\ temp' = FALSE
        BY <1>1
      <3>2. <<>> \in Seq(Events)
        OBVIOUS
      <3> QED
        BY <3>1, <3>2, <2>1, <2>2
    <2>6. mi' \in [file : File, pos : Nat, pending : {0, 1}]
      BY <1>3 DEF MiType
    <2> QED
      BY <2>3, <2>4, <2>5, <2>6 DEF Data
  <1>5. LogRight' /\ IndexRight' /\ DumpRight'
    BY <1>1, MasterSame, DumpSame DEF IInv, NoDump
  <1>6. NetRight'
    BY <1>1 DEF NetRight
  <1>7. SlaveRight'
    <2>1. Placed(logs, active, mi', "connect")
      BY <1>3 DEF IInv, SlaveRight, Placed
    <2> QED
      BY <2>1, <1>1, <1>3 DEF SlaveRight, mvars
  <1>8. NoGap => Counted' /\ TempTableKept'
    <2>1. SUFFICES ASSUME NoGap PROVE Counted' /\ TempTableKept'
      OBVIOUS
    <2>2. Len(applied) \in Nat /\ Done \in Nat
      BY <1>2, DoneType
    <2>3. Done <= Len(applied) /\ Len(applied) <= Done + crashes
      BY <2>1 DEF IInv, Counted, Counts
    <2>4. Len(applied) <= Done + (crashes + 1) /\ Len(applied) < Done + (crashes + 1)
      BY <2>2, <2>3, <1>2
    <2>5. Counts(logs, mi', "connect", Done, Len(applied), crashes + 1)
      BY <2>1, <2>3, <2>4, <1>3 DEF IInv, Counted, Counts
    <2>6. Counted'
      BY <2>1, <2>5, <1>1, AppliedSame DEF IInv, Counted, mvars
    <2>7. crashes + 1 # 0
      BY <1>2
    <2>8. TempTableKept'
      BY <2>7, <1>1 DEF TempTableKept
    <2> QED
      BY <2>6, <2>8
  <1> QED
    BY <1>1, <1>4, <1>5, <1>6, <1>7, <1>8, AppliedSame DEF IInv, NoGap

-----------------------------------------------------------------------------
(* The steps of the dump thread.                                             *)

LEMMA SlaveSame ==
  ASSUME IInv, UNCHANGED <<mvars, mi, spc, next_insert_id, temp, applied, restarts, crashes>>
  PROVE  /\ SlaveRight' /\ InsertIds'
         /\ NoGap => Counted' /\ TempTableKept'
  <1>1. Done' = Done /\ InsertIds' /\ (TempTableKept => TempTableKept')
    BY AppliedSame DEF IInv
  <1>2. SlaveRight'
    BY <1>1 DEF IInv, SlaveRight, mvars
  <1>3. NoGap => Counted'
    BY <1>1 DEF IInv, Counted, mvars
  <1> QED
    BY <1>1, <1>2, <1>3 DEF IInv

(* A step of the dump thread in its place. *)
LEMMA DumpFrame ==
  ASSUME IInv, UNCHANGED <<mvars, svars, restarts, crashes, purges>>,
         drops' \in Nat, dump' \in DumpType, net' \in Seq(Events),
         DumpRight', NetRight'
  PROVE  IInv'
  <1>1. UNCHANGED <<mi, info, spc, next_insert_id, temp, applied>>
    BY DEF svars
  <1>2. Data'
    BY <1>1 DEF IInv, Data, DumpType
  <1>3. LogRight' /\ IndexRight'
    BY MasterSame DEF IInv
  <1> QED
    BY <1>1, <1>2, <1>3, SlaveSame DEF IInv, NoGap

LEMMA DumpTyped ==
  ASSUME IInv, dump.pc # "none"
  PROVE  /\ dump \in DumpType /\ dump.file \in File /\ dump.pos \in Nat /\ dump.offset \in Nat
         /\ dump.pc \in DumpPc
         /\ spc \in {"read", "executed"} /\ net \in Seq(Events) /\ Len(net) \in Nat
         /\ DumpOK(logs, index, active, rotating, dump)
         /\ Valid(logs, active, dump.file, dump.pos)
         /\ Len(logs[dump.file]) \in Nat /\ dump.pos <= Len(logs[dump.file])
         /\ Link(logs, active, net, dump, mi, spc)
         /\ LogOK(logs, written, active, restarts)
         /\ drops \in Nat
  <1>1. dump \in DumpType /\ net \in Seq(Events) /\ drops \in Nat
    BY DEF IInv, Data, DumpType
  <1>2. spc \in {"read", "executed"} /\ DumpOK(logs, index, active, rotating, dump)
    BY DEF IInv, DumpRight
  <1>3. Valid(logs, active, dump.file, dump.pos) /\ LogOK(logs, written, active, restarts)
    BY <1>2 DEF IInv, LogRight, DumpOK
  <1>4. dump.file \in File /\ Len(logs[dump.file]) \in Nat /\ dump.pos <= Len(logs[dump.file])
    BY <1>3, At DEF Valid, LogOK
  <1>5. Link(logs, active, net, dump, mi, spc)
    BY <1>2 DEF IInv, NetRight
  <1> QED
    BY <1>1, <1>2, <1>3, <1>4, <1>5 DEF DumpType

LEMMA SendNextStep ==
  ASSUME IInv, dump.pc # "none", ~ AtEof, SendNext, UNCHANGED <<mvars, svars, faults>>
  PROVE  IInv'
  <1> DEFINE f == dump.file
             q == dump.pos + 1
             e == logs[f][q]
  <1>1. net' = Append(net, e) /\ dump' = [dump EXCEPT !.pos = @ + 1, !.pc = "read"]
    BY DEF SendNext, Send
  <1>2. /\ dump \in DumpType /\ f \in File /\ dump.pos \in Nat /\ net \in Seq(Events)
        /\ spc \in {"read", "executed"}
        /\ DumpOK(logs, index, active, rotating, dump)
        /\ Valid(logs, active, f, dump.pos)
        /\ Len(logs[f]) \in Nat /\ dump.pos <= Len(logs[f])
        /\ Link(logs, active, net, dump, mi, spc)
        /\ LogOK(logs, written, active, restarts) /\ drops \in Nat
    BY DumpTyped
  <1>3. q \in 1 .. Len(logs[f]) /\ q \in Nat
    BY <1>2 DEF AtEof
  <1>4. e \in Events
    BY <1>2, <1>3, At DEF LogOK
  <1>5. Valid(logs, active, f, q)
    BY <1>2, <1>3 DEF Valid
  <1>6. Hop(logs, e, f, dump.pos, f, q)
    BY <1>3 DEF Hop
  <1> HIDE DEF q, e
  <1>7. /\ dump' \in DumpType /\ dump'.file = f /\ dump'.pos = q /\ dump'.pc = "read"
        /\ dump'.offset = dump.offset
    <2>1. dump' = [dump EXCEPT !.pos = q, !.pc = "read"]
      BY <1>1 DEF q
    <2>2. "read" \in DumpPc
      BY DEF DumpPc
    <2> QED
      BY <2>1, <2>2, <1>2, <1>3 DEF DumpType
  <1>8. net' \in Seq(Events)
    BY <1>1, <1>2, <1>4
  <1>9. DumpRight'
    <2>1. DumpOK(logs, index, active, rotating, dump')
      BY <1>2, <1>5, <1>7 DEF DumpOK
    <2> QED
      BY <2>1, <1>2 DEF DumpRight, mvars, svars
  <1>10. NetRight'
    <2>1. \A c : c.file = f /\ c.pos = q => Link(logs, active, Append(net, e), c, mi, spc)
      BY <1>2, <1>3, <1>4, <1>5, <1>6, LinkSend
    <2>2. Link(logs, active, net', dump', mi, spc)
      BY <2>1, <1>1, <1>7
    <2> QED
      BY <2>2, <1>2 DEF NetRight, mvars, svars
  <1> QED
    BY <1>2, <1>7, <1>8, <1>9, <1>10, DumpFrame DEF faults

LEMMA DumpPcStep ==
  ASSUME IInv, dump.pc # "none", UNCHANGED <<mvars, net, svars, faults>>,
         NEW c \in DumpPc, dump' = [dump EXCEPT !.pc = c],
         DumpOK(logs, index, active, rotating, dump')
  PROVE  IInv'
  <1>1. dump \in DumpType /\ net \in Seq(Events) /\ spc \in {"read", "executed"} /\ drops \in Nat
        /\ Link(logs, active, net, dump, mi, spc)
    BY DumpTyped
  <1>2. dump' \in DumpType /\ dump'.file = dump.file /\ dump'.pos = dump.pos
    BY <1>1 DEF DumpType
  <1>3. DumpRight'
    BY <1>1 DEF DumpRight, mvars, svars
  <1>4. NetRight'
    <2>1. Link(logs, active, net, dump', mi, spc)
      BY <1>1, <1>2, LinkDump
    <2> QED
      BY <2>1, <1>1 DEF NetRight, mvars, svars
  <1> QED
    BY <1>1, <1>2, <1>3, <1>4, DumpFrame DEF faults

LEMMA AtEofOutside ==
  ASSUME IInv, dump.pc # "none", AtEof
  PROVE  ~ Inside(logs, dump.file, dump.pos)
  <1>1. /\ dump.file \in File /\ dump.pos \in Nat /\ LogOK(logs, written, active, restarts)
        /\ Len(logs[dump.file]) \in Nat /\ dump.pos <= Len(logs[dump.file])
    BY DumpTyped
  <1>2. dump.pos = Len(logs[dump.file])
    BY <1>1 DEF AtEof
  <1> SUFFICES ASSUME dump.pos > 0, logs[dump.file][dump.pos].type = "intvar" PROVE FALSE
    BY DEF Inside
  <1>3. dump.pos \in 1 .. Len(logs[dump.file])
    BY <1>1, <1>2
  <1>4. dump.pos < Len(logs[dump.file])
    BY <1>1, <1>3, IntvarNext
  <1> QED
    BY <1>1, <1>2, <1>4

LEMMA DumpReadStep ==
  ASSUME IInv, DumpRead
  PROVE  IInv'
  <1>1. dump.pc = "read" /\ ~ rotating /\ UNCHANGED <<mvars, svars, faults>>
    BY DEF DumpRead
  <1>2. CASE AtEof
    <2>1. dump' = [dump EXCEPT !.pc = "eof"] /\ UNCHANGED net /\ "eof" \in DumpPc
      BY <1>2 DEF DumpRead, DumpPc
    <2>2. dump \in DumpType /\ DumpOK(logs, index, active, rotating, dump)
      BY <1>1, DumpTyped
    <2>3. /\ dump'.pc = "eof" /\ dump'.file = dump.file /\ dump'.pos = dump.pos
          /\ dump'.offset = dump.offset
      BY <2>1, <2>2 DEF DumpType
    <2>4. ~ Inside(logs, dump.file, dump.pos)
      BY <1>1, <1>2, AtEofOutside
    <2>5. DumpOK(logs, index, active, rotating, dump')
      BY <2>2, <2>3, <2>4, <1>1, <1>2 DEF DumpOK, AtEof
    <2> QED
      BY <2>1, <2>5, <1>1, DumpPcStep
  <1>3. CASE ~ AtEof
    BY <1>1, <1>3, SendNextStep DEF DumpRead
  <1> QED
    BY <1>2, <1>3

LEMMA DumpCatchStep ==
  ASSUME IInv, DumpCatch
  PROVE  IInv'
  <1>1. dump.pc = "catch" /\ ~ rotating /\ UNCHANGED <<mvars, svars, faults>>
    BY DEF DumpCatch
  <1>2. CASE AtEof
    <2>1. dump' = [dump EXCEPT !.pc = "asleep"] /\ UNCHANGED net /\ "asleep" \in DumpPc
      BY <1>2 DEF DumpCatch, DumpPc
    <2>2. /\ dump \in DumpType /\ DumpOK(logs, index, active, rotating, dump)
          /\ dump.pos \in Nat /\ Len(logs[dump.file]) \in Nat
      BY <1>1, DumpTyped
    <2>3. /\ dump'.pc = "asleep" /\ dump'.file = dump.file /\ dump'.pos = dump.pos
          /\ dump'.offset = dump.offset
      BY <2>1, <2>2 DEF DumpType
    <2>4. dump.file = active
      BY <2>2, <1>1, <1>2 DEF DumpOK, AtEof
    <2>5. DumpOK(logs, index, active, rotating, dump')
      BY <2>2, <2>3, <2>4, <1>1, <1>2 DEF DumpOK, AtEof
    <2> QED
      BY <2>1, <2>5, <1>1, DumpPcStep
  <1>3. CASE ~ AtEof
    BY <1>1, <1>3, SendNextStep DEF DumpCatch
  <1> QED
    BY <1>2, <1>3

LEMMA DumpEofStep ==
  ASSUME IInv, DumpEof
  PROVE  IInv'
  <1> DEFINE c == IF dump.file = active THEN "catch" ELSE "next"
  <1>1. /\ dump.pc = "eof" /\ UNCHANGED <<mvars, net, svars, faults>>
        /\ dump' = [dump EXCEPT !.pc = c] /\ c \in DumpPc
    BY DEF DumpEof, DumpPc
  <1>2. /\ dump \in DumpType /\ DumpOK(logs, index, active, rotating, dump)
        /\ dump.pos \in Nat /\ Len(logs[dump.file]) \in Nat
    BY <1>1, DumpTyped
  <1>3. /\ dump'.pc = c /\ dump'.file = dump.file /\ dump'.pos = dump.pos
        /\ dump'.offset = dump.offset
    BY <1>1, <1>2 DEF DumpType
  <1>4. NoGap /\ dump.file # active => dump.pos >= Len(logs[dump.file]) /\ dump.offset < Len(index)
    <2>1. SUFFICES ASSUME NoGap, dump.file # active
                   PROVE  dump.pos >= Len(logs[dump.file]) /\ dump.offset < Len(index)
      OBVIOUS
    <2>2. /\ dump.pos >= Len(logs[dump.file]) /\ ~ rotating
          /\ dump.offset \in 1 .. Len(index) /\ dump.file = index[dump.offset]
      BY <2>1, <1>1, <1>2 DEF DumpOK
    <2>3. index[Len(index)] = active /\ Len(index) \in Nat
      BY <2>2, IndexTypes DEF IInv, IndexRight, IndexOK
    <2> QED
      BY <2>1, <2>2, <2>3
  <1>5. DumpOK(logs, index, active, rotating, dump')
    BY <1>1, <1>2, <1>3, <1>4 DEF DumpOK
  <1> QED
    BY <1>1, <1>5, DumpPcStep

(* find_next_log(): no statement is passed over. *)
LEMMA NextSkips ==
  ASSUME IInv, NoGap, dump.pc = "next"
  PROVE  /\ dump.offset < Len(index)
         /\ Skips(logs, dump.file, dump.pos, index[dump.offset + 1])
  <1> DEFINE f == dump.file
             k == dump.offset
             g == index[k + 1]
  <1>1. /\ f \in File /\ dump.pos \in Nat /\ k \in Nat
        /\ Len(logs[f]) \in Nat /\ dump.pos <= Len(logs[f])
        /\ LogOK(logs, written, active, restarts)
        /\ dump.pos >= Len(logs[f]) /\ k < Len(index) /\ k \in 1 .. Len(index) /\ f = index[k]
    BY DumpTyped DEF DumpOK
  <1>2. /\ Len(index) \in Nat /\ \A i \in 1 .. Len(index) : index[i] \in Nat
        /\ \A i, j \in 1 .. Len(index) : i < j => index[i] < index[j]
        /\ \A h \in File : h > index[1] /\ logs[h] # <<>> => Listed(index, h)
    BY IndexTypes DEF IInv, IndexRight, IndexOK
  <1>3. k + 1 \in 1 .. Len(index) /\ g \in Nat /\ f < g /\ f \in Nat
    BY <1>1, <1>2
  <1>4. ASSUME NEW h \in File, NEW j \in Nat, IsQuery(logs, h, j)
        PROVE  Past(f, dump.pos, h, j) <=> Past(g, 0, h, j)
    <2>1. h \in Nat /\ j >= 1 /\ (h = f => j <= dump.pos) /\ logs[h] # <<>>
      BY <1>1, <1>4, Bounds DEF IsQuery
    <2>2. ~ (f < h /\ h < g)
      <3>1. SUFFICES ASSUME f < h, h < g PROVE FALSE
        OBVIOUS
      <3>2. index[1] <= f
        <4>1. 1 \in 1 .. Len(index) /\ (k = 1 \/ 1 < k)
          BY <1>1, <1>2
        <4> QED
          BY <4>1, <1>1, <1>2, <1>3
      <3>3. PICK i \in 1 .. Len(index) : index[i] = h
        <4>1. h > index[1] /\ index[1] \in Nat
          BY <3>1, <3>2, <2>1, <1>1, <1>2, <1>3
        <4> QED
          BY <4>1, <2>1, <1>2 DEF Listed
      <3>4. CASE i <= k
        <4>1. index[i] <= index[k]
          BY <3>4, <1>1, <1>2
        <4>2. h <= f /\ f \in Nat
          BY <4>1, <3>3, <1>1, Bounds
        <4> QED
          BY ONLY <4>2, <3>1, <2>1
      <3>5. CASE i >= k + 1
        <4>1. index[k + 1] <= index[i]
          BY <3>5, <1>1, <1>2, <1>3
        <4> QED
          BY <4>1, <3>1, <3>3, <2>1, <1>3
      <3> QED
        BY <3>4, <3>5, <1>1
    <2>3. h < g \/ h >= g
      BY <2>1, <1>3
    <2> HIDE DEF f, g
    <2> QED
      BY <2>1, <2>2, <1>3 DEF Past
  <1> QED
    BY <1>1, <1>4 DEF Skips

LEMMA DumpNextStep ==
  ASSUME IInv, DumpNext
  PROVE  IInv'
  <1> DEFINE f == IF dump.offset < Len(index) THEN index[dump.offset + 1] ELSE dump.file
             k == IF dump.offset < Len(index) THEN dump.offset + 1 ELSE dump.offset
  <1>1. /\ dump.pc = "next" /\ net' = Append(net, Rotate(f))
        /\ dump' = [pc |-> "read", file |-> f, pos |-> 0, offset |-> k]
        /\ UNCHANGED <<mvars, svars, faults>>
    BY DEF DumpNext, Send
  <1>2. /\ dump \in DumpType /\ dump.file \in File /\ dump.pos \in Nat /\ net \in Seq(Events)
        /\ spc \in {"read", "executed"} /\ dump.offset \in Nat
        /\ DumpOK(logs, index, active, rotating, dump)
        /\ Valid(logs, active, dump.file, dump.pos)
        /\ Link(logs, active, net, dump, mi, spc)
        /\ LogOK(logs, written, active, restarts) /\ drops \in Nat
    BY <1>1, DumpTyped
  <1>3. /\ Len(index) \in Nat /\ dump.offset \in 1 .. Len(index)
        /\ dump.file = index[dump.offset]
        /\ \A i \in 1 .. Len(index) : index[i] \in File /\ index[i] <= active
    BY <1>2, IndexTypes DEF IInv, IndexRight, IndexOK, DumpOK
  <1>4. k \in 1 .. Len(index) /\ f = index[k] /\ f \in File /\ f <= active /\ k \in Nat
    <2>1. CASE dump.offset < Len(index)
      <3>1. k = dump.offset + 1 /\ k \in 1 .. Len(index) /\ f = index[k]
        BY <2>1, <1>3
      <3> QED
        BY <3>1, <1>3
    <2>2. CASE ~ dump.offset < Len(index)
      <3>1. k = dump.offset /\ f = index[k]
        BY <2>2, <1>3
      <3> QED
        BY <3>1, <1>3
    <2> QED
      BY <2>1, <2>2
  <1>5. NoGap => Skips(logs, dump.file, dump.pos, f)
    BY <1>1, NextSkips
  <1> HIDE DEF f, k
  <1>6. Rotate(f) \in Events /\ Rotate(f).type = "rotate" /\ Rotate(f).n = f
    BY <1>4, Made
  <1>7. Valid(logs, active, f, 0)
    BY <1>2, <1>4, At DEF Valid, LogOK
  <1>8. Hop(logs, Rotate(f), dump.file, dump.pos, f, 0)
    <2>1. ~ Inside(logs, dump.file, dump.pos)
      BY <1>1, <1>2 DEF DumpOK
    <2> QED
      BY <2>1, <1>5, <1>6 DEF Hop
  <1>9. /\ dump' \in DumpType /\ dump'.pc = "read" /\ dump'.file = f /\ dump'.pos = 0
        /\ dump'.offset = k
    <2>1. "read" \in DumpPc /\ f \in Nat
      BY <1>4, Bounds DEF DumpPc
    <2> QED
      BY <2>1, <1>1, <1>4 DEF DumpType
  <1>10. net' \in Seq(Events)
    BY <1>1, <1>2, <1>6
  <1>11. DumpRight'
    <2>1. DumpOK(logs, index, active, rotating, dump')
      BY <1>4, <1>7, <1>9 DEF DumpOK
    <2> QED
      BY <2>1, <1>2, <1>1 DEF DumpRight, mvars, svars
  <1>12. NetRight'
    <2>1. \A c : c.file = f /\ c.pos = 0 => Link(logs, active, Append(net, Rotate(f)), c, mi, spc)
      BY <1>1, <1>2, <1>6, <1>7, <1>8, LinkSend
    <2>2. Link(logs, active, net', dump', mi, spc)
      BY <2>1, <1>1, <1>9
    <2> QED
      BY <2>2, <1>1, <1>2 DEF NetRight, mvars, svars
  <1> QED
    BY <1>1, <1>2, <1>9, <1>10, <1>11, <1>12, DumpFrame DEF faults

LEMMA DisconnectStep ==
  ASSUME IInv, Disconnect
  PROVE  IInv'
  <1>1. /\ dump.pc # "none" /\ dump' = NoDump /\ drops' = drops + 1
        /\ UNCHANGED <<mvars, svars, restarts, crashes, purges>>
    BY DEF Disconnect
  <1>2. PICK k \in 0 .. Len(net) : net' = SubSeq(net, 1, k)
    BY DEF Disconnect
  <1>3. /\ net \in Seq(Events) /\ drops \in Nat /\ spc \in {"read", "executed"}
        /\ Link(logs, active, net, dump, mi, spc)
    BY <1>1, DumpTyped
  <1>4. Link(logs, active, net', NoDump, mi, spc) /\ net' \in Seq(Events)
    BY <1>2, <1>3, LinkCut
  <1>5. dump' \in DumpType /\ dump'.pc = "none"
    BY <1>1 DEF NoDump, DumpPc, DumpType
  <1>6. DumpRight' /\ NetRight'
    BY <1>1, <1>3, <1>4, <1>5 DEF DumpRight, NetRight, mvars, svars
  <1>7. drops' \in Nat
    BY <1>1, <1>3
  <1> QED
    BY <1>1, <1>4, <1>5, <1>6, <1>7, DumpFrame

(* The slave asks for its position. *)
LEMMA ConnectStep ==
  ASSUME IInv, Connect
  PROVE  IInv'
  <1> DEFINE k == CHOOSE i \in DOMAIN index : index[i] = mi.file
  <1>1. /\ spc = "connect" /\ dump.pc = "none" /\ mi.file \in ToSet(index)
        /\ mi' = [mi EXCEPT !.pending = 0]
        /\ dump' = [pc |-> "read", file |-> mi.file, pos |-> mi.pos, offset |-> k]
        /\ net' = IF mi.pos = 0 THEN <<Rotate(mi.file)>> ELSE <<>>
        /\ spc' = "read"
        /\ UNCHANGED <<mvars, info, next_insert_id, temp, applied, faults>>
    BY DEF Connect
  <1>2. /\ mi \in MiType /\ mi.file \in File /\ mi.pos \in Nat
        /\ LogOK(logs, written, active, restarts) /\ Placed(logs, active, mi, "connect")
    BY <1>1 DEF IInv, Data, MiType, LogRight, SlaveRight
  <1>3. /\ mi' \in MiType /\ mi'.file = mi.file /\ mi'.pos = mi.pos /\ mi'.pending = 0
        /\ Here(mi', "read") = mi.pos /\ Placed(logs, active, mi', "read")
    BY <1>1, <1>2, ResetPending
  <1>4. Valid(logs, active, mi.file, mi.pos)
    BY <1>2 DEF Placed
  <1>5. k \in 1 .. Len(index) /\ index[k] = mi.file /\ k \in Nat
    <2>1. DOMAIN index = 1 .. Len(index)
      BY IndexTypes DEF IInv, IndexRight
    <2>2. \E i \in DOMAIN index : index[i] = mi.file
      BY <1>1 DEF ToSet
    <2> QED
      BY <2>1, <2>2
  <1> HIDE DEF k
  <1>6. /\ dump' \in DumpType /\ dump'.pc = "read" /\ dump'.file = mi.file
        /\ dump'.pos = mi.pos /\ dump'.offset = k
    <2>1. "read" \in DumpPc /\ mi.file \in Nat
      BY <1>2, Bounds DEF DumpPc
    <2> QED
      BY <2>1, <1>1, <1>2, <1>5 DEF DumpType
  <1>7. Sync(logs, mi', "read", mi.file, mi.pos)
    BY <1>3 DEF Sync
  <1>8. Link(logs, active, net', dump', mi', "read") /\ net' \in Seq(Events)
    <2>1. Link(logs, active, <<>>, dump', mi', "read") /\ <<>> \in Seq(Events)
      BY <1>2, <1>4, <1>6, <1>7, LinkStart
    <2>2. CASE mi.pos # 0
      BY <2>1, <2>2, <1>1
    <2>3. CASE mi.pos = 0
      <3> DEFINE e == Rotate(mi.file)
      <3>1. e \in Events /\ e.type = "rotate" /\ e.n = mi.file
        BY <1>2, Made
      <3> HIDE DEF e
      <3>2. Hop(logs, e, mi.file, 0, mi.file, 0)
        <4>1. Skips(logs, mi.file, 0, mi.file)
          BY DEF Skips
        <4>2. ~ Inside(logs, mi.file, 0)
          BY DEF Inside
        <4> QED
          BY <4>1, <4>2, <3>1 DEF Hop
      <3>3. Link(logs, active, Append(<<>>, e), dump', mi', "read")
        <4>1. /\ dump' \in DumpType /\ dump'.pc # "none"
              /\ dump'.file = mi.file /\ dump'.pos = 0
              /\ Valid(logs, active, mi.file, 0)
          BY <2>3, <1>4, <1>6
        <4>2. Hop(logs, e, dump'.file, dump'.pos, mi.file, 0)
          BY <4>1, <3>2
        <4> DEFINE N == <<>>
        <4>3. N \in Seq(Events) /\ Link(logs, active, N, dump', mi', "read")
          BY <2>1
        <4> HIDE DEF N
        <4>4. Link(logs, active, Append(N, e), dump', mi', "read")
          BY <4>1, <4>2, <4>3, <3>1, LinkSend
        <4> QED
          BY <4>4 DEF N
      <3>4. net' = Append(<<>>, e) /\ Append(<<>>, e) \in Seq(Events)
        BY <3>1, <2>3, <1>1 DEF e
      <3> QED
        BY <3>3, <3>4
    <2> QED
      BY <2>2, <2>3
  <1>9. Data'
    <2>1. info' = [file |-> mi'.file, pos |-> mi'.pos]
      BY <1>1, <1>3 DEF IInv, Data
    <2> QED
      BY <2>1, <1>1, <1>3, <1>6, <1>8 DEF IInv, Data, MiType, DumpType, faults
  <1>10. LogRight' /\ IndexRight'
    BY <1>1, MasterSame DEF IInv, faults
  <1>11. DumpRight'
    <2>1. DumpOK(logs, index, active, rotating, dump')
      BY <1>4, <1>5, <1>6 DEF DumpOK
    <2> QED
      BY <2>1, <1>1 DEF DumpRight, mvars
  <1>12. NetRight'
    BY <1>1, <1>8 DEF NetRight, mvars
  <1>13. SlaveRight'
    BY <1>1, <1>3 DEF SlaveRight, mvars
  <1>14. NoGap => Counted' /\ TempTableKept'
    BY <1>1, <1>3, AppliedSame DEF IInv, Counted, Counts, mvars, faults
  <1> QED
    BY <1>1, <1>9, <1>10, <1>11, <1>12, <1>13, <1>14, AppliedSame DEF IInv, NoGap

-----------------------------------------------------------------------------
(* The steps of the master.                                                  *)

LEMMA SlaveGrows ==
  ASSUME IInv, Grows(logs, logs', written, active, active'),
         written' \in Nat, written <= written',
         UNCHANGED <<mi, spc, next_insert_id, temp, applied, crashes>>
  PROVE  /\ SlaveRight' /\ InsertIds'
         /\ NoGap => Counted'
         /\ UNCHANGED restarts \/ restarts' # 0 => (TempTableKept => TempTableKept')
  <1>1. /\ LogOK(logs, written, active, restarts) /\ mi \in MiType
        /\ spc \in {"stopped", "connect", "read", "executed"}
        /\ Placed(logs, active, mi, spc) /\ SlaveRight
        /\ applied \in Seq([n : Statement, id : 0 .. MaxStatement])
    BY DEF IInv, Data, LogRight, SlaveRight, MiType
  <1>2. Done' = Done /\ InsertIds' /\ Done \in Nat
    BY <1>1, AppliedSame, DoneType DEF IInv
  <1>3. /\ Placed(logs', active', mi, spc)
        /\ mi.pending = 1 => logs'[mi.file][mi.pos + 1] = logs[mi.file][mi.pos + 1]
        /\ spc = "executed" => logs'[mi.file][Here(mi, spc)] = logs[mi.file][Here(mi, spc)]
    BY <1>1, GrowsPlaced DEF MiType
  <1>4. SlaveRight'
    BY <1>1, <1>2, <1>3 DEF SlaveRight
  <1>5. NoGap => Counted'
    <2>1. SUFFICES ASSUME NoGap PROVE Counted'
      OBVIOUS
    <2>2. Done <= written /\ Counts(logs, mi, spc, Done, Len(applied), crashes) /\ written \in Nat
      BY <2>1, <1>1, Bounds DEF IInv, Counted, LogOK
    <2>3. Counts(logs', mi, spc, Done, Len(applied), crashes)
      BY <2>2, <1>1, <1>2, GrowsCounts
    <2>4. Done <= written'
      BY <2>2, <1>2
    <2> QED
      BY <2>3, <2>4, <1>2 DEF Counted
  <1>6. UNCHANGED restarts \/ restarts' # 0 => (TempTableKept => TempTableKept')
    BY DEF TempTableKept
  <1> QED
    BY <1>2, <1>4, <1>5, <1>6

LEMMA NextName ==
  ASSUME IInv, NewName \in File
  PROVE  NewName = active + 1
  <1>1. /\ files \subseteq File /\ active \in files /\ \A f \in files : f <= active
    BY DEF IInv, IndexRight, IndexOK
  <1> QED
    BY <1>1, MaxIs DEF NewName

LEMMA Woken ==
  ASSUME IInv, Broadcast
  PROVE  /\ dump' \in DumpType /\ (dump'.pc = "none" <=> dump.pc = "none")
         /\ dump'.file = dump.file /\ dump'.pos = dump.pos
         /\ dump' = [dump EXCEPT !.pc = IF @ = "asleep" THEN "read" ELSE @]
  <1>1. /\ dump \in DumpType
        /\ dump' = [dump EXCEPT !.pc = IF @ = "asleep" THEN "read" ELSE @]
        /\ "read" \in DumpPc
    BY DEF IInv, Data, DumpType, Broadcast, DumpPc
  <1> QED
    BY <1>1 DEF DumpType

(* What a step does that writes to the active log, and changes it or not. *)
LEMMA WriteFrame ==
  ASSUME IInv, Broadcast, UNCHANGED <<net, svars, faults, index>>,
         LogOK(logs', written', active', restarts), Grows(logs, logs', written, active, active'),
         written <= written', rotating' \in BOOLEAN, rotating' => logs'[active'] = <<>>,
         IndexRight',
         \/ active' = active /\ rotating' = rotating
         \/ /\ active' > active /\ Len(logs'[active]) > Len(logs[active])
            /\ NoGap => dump.pc # "eof"
  PROVE  IInv'
  <1>1. /\ UNCHANGED <<mi, info, spc, next_insert_id, temp, applied>>
        /\ UNCHANGED <<restarts, crashes, drops, purges>>
    BY DEF svars, faults
  <1>2. LogOK(logs, written, active, restarts) /\ written' \in Nat /\ rotating \in BOOLEAN
    BY Bounds DEF IInv, LogRight, LogOK
  <1>3. /\ dump' \in DumpType /\ (dump'.pc = "none" <=> dump.pc = "none")
        /\ dump'.file = dump.file /\ dump'.pos = dump.pos
        /\ dump' = [dump EXCEPT !.pc = IF @ = "asleep" THEN "read" ELSE @]
    BY Woken
  <1>4. Data'
    BY <1>1, <1>3 DEF IInv, Data, DumpType
  <1>5. LogRight'
    BY <1>1 DEF LogRight
  <1>6. DumpRight'
    <2>1. SUFFICES ASSUME dump.pc # "none"
                   PROVE  /\ spc \in {"read", "executed"}
                          /\ DumpOK(logs', index, active', rotating', dump')
      BY <1>1, <1>3 DEF DumpRight
    <2>2. /\ spc \in {"read", "executed"} /\ dump \in DumpType
          /\ DumpOK(logs, index, active, rotating, dump)
      BY <2>1, DumpTyped
    <2>3. \A e : e = [dump EXCEPT !.pc = IF @ = "asleep" THEN "read" ELSE @] =>
                   DumpOK(logs', index, active', rotating', e)
      BY <2>2, <1>2, DumpGrows
    <2> QED
      BY <2>2, <2>3, <1>3
  <1>7. NetRight'
    <2>1. spc = "connect" => net' = <<>>
      BY <1>1 DEF IInv, NetRight
    <2>2. ASSUME spc \in {"read", "executed"}
          PROVE  Link(logs', active', net, dump', mi, spc)
      <3>1. Link(logs, active, net, dump, mi, spc) /\ net \in Seq(Events)
        BY <2>2 DEF IInv, NetRight, Data
      <3>2. Link(logs, active, net, dump', mi, spc)
        BY <3>1, <1>3, LinkDump
      <3> QED
        BY <3>1, <3>2, <1>2, GrowsLink
    <2> QED
      BY <2>1, <2>2, <1>1 DEF NetRight
  <1>8. /\ SlaveRight' /\ InsertIds'
        /\ NoGap => Counted'
        /\ TempTableKept => TempTableKept'
    BY <1>1, <1>2, SlaveGrows
  <1> QED
    BY <1>4, <1>5, <1>6, <1>7, <1>8 DEF IInv, NoGap

(* new_file(S): L is the log with S in the active file. *)
LEMMA NewFile ==
  ASSUME IInv, ~ rotating, NEW S, new_file(S),
         NEW L, NEW w, LogOK(L, w, active, restarts),
         L[active] = S, \A g \in File : g # active => L[g] = logs[g]
  PROVE  /\ LogOK(logs', w, active', restarts) /\ Grows(L, logs', w, active, active')
         /\ active' > active /\ Len(logs'[active]) > Len(L[active])
         /\ rotating' \in BOOLEAN /\ logs'[active'] = <<>>
         /\ IndexRight' /\ UNCHANGED index
         /\ NoGap => dump.pc # "eof"
  <1>1. /\ dump.pc \in RotateAt /\ NewName \in File
        /\ logs' = [logs EXCEPT ![active] = S \o <<Rotate(NewName), Stop>>]
        /\ files' = files \cup {NewName} /\ active' = NewName
        /\ rotating' = TRUE /\ UNCHANGED index
    BY DEF new_file
  <1>2. NewName = active + 1
    BY <1>1, NextName
  <1>3. /\ active \in File /\ active \in Nat /\ logs \in [File -> Seq(Events)]
        /\ L \in [File -> Seq(Events)]
    BY Bounds DEF IInv, LogRight, LogOK
  <1>4. \A g \in File : g # active => L[g] = logs[g]
    OBVIOUS
  <1>5. /\ logs' \in [File -> Seq(Events)]
        /\ logs'[active] = L[active] \o <<Rotate(active + 1), Stop>>
        /\ \A g \in File : g # active => logs'[g] = L[g]
    <2> DEFINE T == S \o <<Rotate(active + 1), Stop>>
    <2>1. logs' = [logs EXCEPT ![active] = T]
      BY <1>1, <1>2
    <2>2. T \in Seq(Events)
      <3>1. Rotate(active + 1) \in Events /\ Stop \in Events /\ S \in Seq(Events)
        BY <1>1, <1>2, <1>3, Made
      <3> QED
        BY <3>1
    <2>3. T = L[active] \o <<Rotate(active + 1), Stop>>
      OBVIOUS
    <2> HIDE DEF T
    <2> QED
      BY <2>1, <2>2, <2>3, <1>3, <1>4
  <1>6. /\ LogOK(logs', w, active + 1, restarts) /\ Grows(L, logs', w, active, active + 1)
        /\ Len(logs'[active]) > Len(L[active]) /\ logs'[active + 1] = <<>>
    <2>1. active + 1 \in File /\ LogOK(L, w, active, restarts)
      BY <1>1, <1>2
    <2> QED
      BY ONLY <2>1, <1>5, RotateLog
  <1>7. IndexRight'
    <2>1. IndexOK(logs, files, index, active, FALSE)
      BY DEF IInv, IndexRight, LogRight
    <2>2. \A g \in File : g # active => logs'[g] = logs[g]
      BY <1>4, <1>5
    <2>3. active + 1 \in File
      BY <1>1, <1>2
    <2>4. IndexOK(logs', files \cup {active + 1}, index, active + 1, TRUE)
      BY ONLY <2>1, <2>2, <2>3, IndexRotate
    <2> QED
      BY <2>4, <1>1, <1>2 DEF IndexRight
  <1>8. active' = active + 1 /\ active' > active
    BY <1>1, <1>2, <1>3
  <1>9. NoGap => dump.pc # "eof"
    BY <1>1 DEF NoGap
  <1> QED
    BY <1>1, <1>6, <1>7, <1>8, <1>9

LEMMA WriteStep ==
  ASSUME IInv, Write
  PROVE  IInv'
  <1> DEFINE n == written + 1
             S == logs[active] \o (IF n \in AutoInc THEN <<Intvar(n)>> ELSE <<>>)
                               \o <<Query(n)>>
             L == [logs EXCEPT ![active] = S]
  <1>1. /\ ~ rotating /\ n \in Statement /\ written' = n
        /\ IF Len(S) >= LogSize
             THEN new_file(S)
             ELSE /\ logs' = L
                  /\ UNCHANGED <<files, index, active, rotating>>
        /\ Broadcast /\ UNCHANGED <<net, svars, faults>>
    BY DEF Write
  <1>2. /\ LogOK(logs, written, active, restarts) /\ active \in File
        /\ written \in Nat /\ logs \in [File -> Seq(Events)]
    BY Bounds DEF IInv, LogRight, LogOK
  <1>3. LogOK(L, n, active, restarts) /\ Grows(logs, L, written, active, active)
    BY <1>1, <1>2, AppendLog
  <1>4. L[active] = S /\ \A g \in File : g # active => L[g] = logs[g]
    BY <1>2
  <1>5. written <= n
    BY <1>2
  <1>6. IndexOK(logs, files, index, active, FALSE) /\ UNCHANGED restarts
    BY <1>1 DEF IInv, IndexRight, LogRight, faults
  <1> HIDE DEF S, L
  <1>7. CASE Len(S) >= LogSize
    <2>1. new_file(S)
      BY <1>1, <1>7
    <2>2. /\ LogOK(logs', n, active', restarts) /\ Grows(L, logs', n, active, active')
          /\ active' > active /\ Len(logs'[active]) > Len(L[active])
          /\ rotating' \in BOOLEAN /\ logs'[active'] = <<>>
          /\ IndexRight' /\ UNCHANGED index
          /\ NoGap => dump.pc # "eof"
      BY <2>1, <1>1, <1>3, <1>4, NewFile
    <2>3. Grows(logs, logs', written, active, active')
      BY <2>2, <1>2, <1>3, GrowsTrans
    <2>4. Len(logs'[active]) > Len(logs[active])
      <3>1. Len(logs[active]) <= Len(L[active])
        BY <1>2, <1>3 DEF Grows
      <3>2. Len(logs[active]) \in Nat /\ Len(L[active]) \in Nat /\ Len(logs'[active]) \in Nat
        BY <2>2, <1>2, <1>3, At DEF LogOK
      <3> QED
        BY <3>1, <3>2, <2>2
    <2> QED
      BY <2>2, <2>3, <2>4, <1>1, <1>5, WriteFrame
  <1>8. CASE ~ (Len(S) >= LogSize)
    <2>1. logs' = L /\ UNCHANGED <<files, index, active, rotating>>
      BY <1>1, <1>8
    <2>2. IndexRight'
      <3>1. IndexOK(L, files, index, active, FALSE)
        BY <1>4, <1>6, IndexSame
      <3> QED
        BY <3>1, <2>1, <1>1 DEF IInv, IndexRight, LogRight
    <2>3. rotating' \in BOOLEAN /\ ~ rotating'
      BY <2>1, <1>1 DEF IInv, LogRight
    <2> QED
      BY <2>1, <2>2, <2>3, <1>1, <1>3, <1>5, WriteFrame
  <1> QED
    BY <1>7, <1>8

LEMMA FlushStep ==
  ASSUME IInv, FlushLogs
  PROVE  IInv'
  <1>1. /\ ~ rotating /\ new_file(logs[active]) /\ Broadcast
        /\ UNCHANGED <<written, net, svars, faults>>
    BY DEF FlushLogs
  <1>2. /\ LogOK(logs, written, active, restarts) /\ active \in File
        /\ written \in Nat /\ logs \in [File -> Seq(Events)]
    BY Bounds DEF IInv, LogRight, LogOK
  <1>3. /\ LogOK(logs', written, active', restarts)
        /\ Grows(logs, logs', written, active, active')
        /\ active' > active /\ Len(logs'[active]) > Len(logs[active])
        /\ rotating' \in BOOLEAN /\ logs'[active'] = <<>>
        /\ IndexRight' /\ UNCHANGED index
        /\ NoGap => dump.pc # "eof"
    BY <1>1, <1>2, NewFile
  <1> QED
    BY <1>1, <1>2, <1>3, WriteFrame

LEMMA GrowsSelf ==
  ASSUME NEW L, NEW w, NEW a, NEW r, LogOK(L, w, a, r)
  PROVE  Grows(L, L, w, a, a)
  <1>1. L \in [File -> Seq(Events)] /\ a \in File /\ a \in Nat
    BY Bounds DEF LogOK
  <1>2. \A f \in File : Len(L[f]) \in Nat
    BY <1>1, At
  <1>3. ASSUME NEW h \in File, NEW j \in Nat, IsQuery(L, h, j), j > Len(L[h])
        PROVE  FALSE
    BY <1>2, <1>3 DEF IsQuery
  <1> QED
    BY <1>1, <1>2, <1>3 DEF Grows

(* new_file() ends. *)
LEMMA IndexStep ==
  ASSUME IInv, IndexWritten
  PROVE  IInv'
  <1>1. /\ rotating /\ index' = Append(index, active) /\ rotating' = FALSE
        /\ UNCHANGED <<written, logs, files, active, dump, net, svars, faults>>
    BY DEF IndexWritten
  <1>2. /\ UNCHANGED <<mi, info, spc, next_insert_id, temp, applied>>
        /\ UNCHANGED <<restarts, crashes, drops, purges>>
    BY <1>1 DEF svars, faults
  <1>3. /\ IndexOK(logs, files, index, active, rotating) /\ rotating \in BOOLEAN
        /\ LogOK(logs, written, active, restarts) /\ written \in Nat
        /\ active \in File /\ active \in Nat
    BY <1>1, Bounds DEF IInv, IndexRight, LogRight, LogOK
  <1>4. index \in Seq(File) /\ files \cup {active} = files
    BY <1>3 DEF IndexOK
  <1>5. IndexRight'
    <2>1. \A i \in 1 .. Len(index) : index[i] < active
      BY <1>1, <1>3 DEF IndexOK
    <2>2. \A g \in File : g # active /\ g > index[1] /\ logs[g] # <<>> => Listed(index, g)
      BY <1>3 DEF IndexOK
    <2>3. active <= active
      BY <1>3
    <2>4. IndexOK(logs, files \cup {active}, Append(index, active), active, FALSE)
      BY ONLY <2>1, <2>2, <2>3, <1>3, IndexAppend
    <2> QED
      BY <2>4, <1>1, <1>4 DEF IndexRight
  <1>6. Data'
    BY <1>1, <1>2 DEF IInv, Data
  <1>7. LogRight'
    BY <1>1, <1>2, <1>3 DEF LogRight
  <1>8. DumpRight'
    <2>1. SUFFICES ASSUME dump.pc # "none"
                   PROVE  /\ spc \in {"read", "executed"}
                          /\ DumpOK(logs, Append(index, active), active, FALSE, dump)
      BY <1>1, <1>2 DEF DumpRight
    <2>2. /\ spc \in {"read", "executed"} /\ dump \in DumpType
          /\ DumpOK(logs, index, active, rotating, dump)
      BY <2>1, DumpTyped
    <2> QED
      BY <2>2, <1>1, <1>3, <1>4, DumpAppend
  <1>9. NetRight'
    BY <1>1, <1>2 DEF IInv, NetRight
  <1>10. /\ SlaveRight' /\ InsertIds' /\ (NoGap => Counted')
         /\ TempTableKept => TempTableKept'
    <2>1. Grows(logs, logs', written, active, active')
      BY <1>1, <1>3, GrowsSelf
    <2> QED
      BY <2>1, <1>1, <1>2, <1>3, SlaveGrows
  <1> QED
    BY <1>5, <1>6, <1>7, <1>8, <1>9, <1>10 DEF IInv, NoGap

(* purge_logs(): no dump thread reads a file that is deleted. *)
LEMMA PurgeStep ==
  ASSUME IInv, NEW k \in 1 .. MaxFile, Purge(k)
  PROVE  IInv'
  <1> DEFINE J == SubSeq(index, k, Len(index))
  <1>1. /\ k \in 2 .. Len(index) /\ ~ log_in_use(k)
        /\ files' = files \ {index[j] : j \in 1 .. k - 1} /\ index' = J
        /\ dump' = [dump EXCEPT !.offset = IF dump.pc = "none" THEN 0 ELSE adjusted(k)]
        /\ purges' = purges + 1
        /\ UNCHANGED <<written, logs, active, rotating, net, svars,
                       restarts, crashes, drops>>
    BY DEF Purge
  <1>2. UNCHANGED <<mi, info, spc, next_insert_id, temp, applied>>
    BY <1>1 DEF svars
  <1>3. /\ IndexOK(logs, files, index, active, rotating) /\ rotating \in BOOLEAN
        /\ LogOK(logs, written, active, restarts) /\ written \in Nat
        /\ dump \in DumpType /\ purges \in Nat
    BY Bounds DEF IInv, IndexRight, LogRight, LogOK, Data, DumpType
  <1>4. /\ Len(index) \in Nat /\ k \in Nat /\ k > 1 /\ k <= Len(index)
    BY <1>1, <1>3, IndexTypes
  <1>5. /\ IndexOK(logs, files', index', active, rotating)
        /\ Len(index') = Len(index) - k + 1
        /\ \A i \in 1 .. Len(index) - k + 1 : index'[i] = index[i + k - 1]
    <2> DEFINE G == {index[j] : j \in 1 .. k - 1}
    <2>1. \A f \in File : f \in G <=> \E j \in 1 .. k - 1 : index[j] = f
      OBVIOUS
    <2>2. files' = files \ G /\ index' = SubSeq(index, k, Len(index))
      BY <1>1
    <2> HIDE DEF G
    <2>3. k \in 2 .. Len(index)
      BY <1>1
    <2>4. IndexOK(logs, files \ G, index', active, rotating)
      BY ONLY <2>1, <2>2, <2>3, <1>3, IndexPurge
    <2>5. /\ Len(index') = Len(index) - k + 1
          /\ \A i \in 1 .. Len(index) - k + 1 : index'[i] = index[i + k - 1]
      <3>1. index \in Seq(File)
        BY <1>3 DEF IndexOK
      <3> QED
        BY <3>1, <2>2, <1>4
    <2> QED
      BY <2>2, <2>4, <2>5
  <1>6. /\ dump' \in DumpType /\ dump'.pc = dump.pc
        /\ dump'.file = dump.file /\ dump'.pos = dump.pos
        /\ DumpRight'
    <2>1. CASE dump.pc = "none"
      <3>1. dump' = [dump EXCEPT !.offset = 0]
        BY <1>1, <2>1
      <3>2. /\ dump' \in DumpType /\ dump'.pc = dump.pc
            /\ dump'.file = dump.file /\ dump'.pos = dump.pos
        BY <3>1, <1>3 DEF DumpType
      <3> QED
        BY <3>2, <2>1 DEF DumpRight
    <2>2. CASE dump.pc # "none"
      <3> DEFINE n == dump.offset - (k - 1)
      <3>1. /\ spc \in {"read", "executed"} /\ dump.offset \in Nat
            /\ DumpOK(logs, index, active, rotating, dump)
        BY <2>2, DumpTyped
      <3>2. dump.offset \in 1 .. Len(index) /\ dump.file = index[dump.offset]
        BY <3>1 DEF DumpOK
      <3>3. dump.offset >= k
        BY <3>2, <2>2, <1>1, <1>4 DEF log_in_use
      <3>4. /\ n \in 1 .. Len(index) - k + 1 /\ n \in Nat /\ n + k - 1 = dump.offset
            /\ dump.offset < Len(index) => n < Len(index) - k + 1
        BY <3>1, <3>2, <3>3, <1>4
      <3>5. dump' = [dump EXCEPT !.offset = n]
        BY <2>2, <1>1 DEF adjusted
      <3> HIDE DEF n
      <3>6. /\ dump' \in DumpType /\ dump'.pc = dump.pc
            /\ dump'.file = dump.file /\ dump'.pos = dump.pos /\ dump'.offset = n
        BY <3>4, <3>5, <1>3 DEF DumpType
      <3>7. index'[n] = dump.file /\ n \in 1 .. Len(index')
        BY <3>2, <3>4, <1>5
      <3>8. dump.offset < Len(index) => n < Len(index')
        BY <3>4, <1>5
      <3>9. DumpOK(logs, index', active, rotating, dump')
        BY <3>1, <3>6, <3>7, <3>8 DEF DumpOK
      <3> QED
        BY <3>1, <3>6, <3>9, <1>1, <1>2 DEF DumpRight
    <2> QED
      BY <2>1, <2>2
  <1>7. Data'
    <2>1. Data /\ purges' \in Nat
      BY <1>1, <1>3 DEF IInv
    <2>2. UNCHANGED <<net, restarts, crashes, drops>>
      BY <1>1
    <2> QED
      BY <2>1, <2>2, <1>2, <1>6 DEF Data, DumpType
  <1>8. LogRight' /\ IndexRight'
    BY <1>1, <1>5 DEF IInv, LogRight, IndexRight
  <1>9. NetRight'
    <2>1. ASSUME spc \in {"read", "executed"}
          PROVE  Link(logs, active, net, dump', mi, spc)
      <3>1. Link(logs, active, net, dump, mi, spc)
        BY <2>1 DEF IInv, NetRight
      <3> QED
        BY <3>1, <1>6, LinkDump
    <2> QED
      BY <2>1, <1>1, <1>2 DEF IInv, NetRight
  <1>10. /\ SlaveRight' /\ InsertIds' /\ (NoGap => Counted')
         /\ TempTableKept => TempTableKept'
    <2>1. Grows(logs, logs', written, active, active')
      BY <1>1, <1>3, GrowsSelf
    <2> QED
      BY <2>1, <1>1, <1>2, <1>3, SlaveGrows
  <1> QED
    BY <1>6, <1>7, <1>8, <1>9, <1>10 DEF IInv, NoGap

(* The server is stopped, or dies, and is started again. *)
LEMMA RestartStep ==
  ASSUME IInv, NEW stops \in BOOLEAN, MasterRestart(stops)
  PROVE  IInv'
  <1> DEFINE S == IF stops THEN Append(logs[active], Stop) ELSE logs[active]
  <1>1. /\ stops => ~ rotating
        /\ rotating' = FALSE /\ restarts' = restarts + 1 /\ dump' = NoDump
        /\ UNCHANGED <<written, svars, crashes, drops, purges>>
    BY DEF MasterRestart
  <1>2. PICK f \in {NewName} \cup (IF rotating THEN {active} ELSE {}) :
             /\ f \in File /\ active' = f /\ files' = files \cup {f}
             /\ index' = Append(index, f)
             /\ logs' = [logs EXCEPT ![active] = S, ![f] = <<Start>>]
    BY DEF MasterRestart
  <1>3. PICK k \in 0 .. Len(net) : net' = SubSeq(net, 1, k)
    BY DEF MasterRestart
  <1>4. UNCHANGED <<mi, info, spc, next_insert_id, temp, applied>>
    BY <1>1 DEF svars
  <1>5. /\ IndexOK(logs, files, index, active, rotating) /\ rotating \in BOOLEAN
        /\ LogOK(logs, written, active, restarts) /\ written \in Nat
        /\ active \in File /\ active \in Nat /\ restarts \in Nat
        /\ rotating => logs[active] = <<>>
    BY Bounds DEF IInv, IndexRight, LogRight, LogOK
  <1>6. f = active + 1 \/ (f = active /\ rotating)
    BY <1>2, NextName
  <1>7. S = logs[active] \/ (S = Append(logs[active], Stop) /\ f = active + 1)
    BY <1>1, <1>6
  <1>8. rotating => S = logs[active]
    BY <1>1
  <1> HIDE DEF S
  <1>9. /\ LogOK(logs', written, f, restarts + 1) /\ Grows(logs, logs', written, active, f)
        /\ \A g \in File : g # f /\ logs'[g] # <<>> => g = active \/ logs[g] # <<>>
        /\ S = logs[active] => \A g \in File : g # f => logs'[g] = logs[g]
    <2>1. f \in File /\ (f = active + 1 \/ (f = active /\ logs[active] = <<>>))
      BY <1>2, <1>5, <1>6
    <2>2. S \in Seq(Events) /\ <<Start>> \in Seq(Events)
      BY <1>5, <1>7, Made DEF LogOK
    <2>3. /\ logs' \in [File -> Seq(Events)] /\ logs'[f] = <<Start>>
          /\ f # active => logs'[active] = S
          /\ \A g \in File : g # active /\ g # f => logs'[g] = logs[g]
      <3> DEFINE N == <<Start>>
      <3>1. /\ logs \in [File -> Seq(Events)] /\ active \in File
            /\ logs' = [logs EXCEPT ![active] = S, ![f] = N]
            /\ S \in Seq(Events) /\ N \in Seq(Events)
        BY <2>2, <1>2, <1>5 DEF LogOK
      <3> HIDE DEF N
      <3>2. /\ logs' \in [File -> Seq(Events)] /\ logs'[f] = N
            /\ f # active => logs'[active] = S
            /\ \A g \in File : g # active /\ g # f => logs'[g] = logs[g]
        BY ONLY <2>1, <3>1
      <3> QED
        BY <3>2 DEF N
    <2>4. LogOK(logs', written, f, restarts + 1) /\ Grows(logs, logs', written, active, f)
      BY ONLY <2>1, <2>3, <1>5, <1>7, RestartLog
    <2>5. /\ \A g \in File : g # f /\ logs'[g] # <<>> => g = active \/ logs[g] # <<>>
          /\ S = logs[active] => \A g \in File : g # f => logs'[g] = logs[g]
      BY ONLY <2>3
    <2> QED
      BY <2>4, <2>5
  <1>10. IndexRight'
    <2>1. active <= f /\ f \in Nat
      BY <1>2, <1>5, <1>6, Bounds
    <2>2. \A i \in 1 .. Len(index) : index[i] < f
      <3>1. SUFFICES ASSUME NEW i \in 1 .. Len(index) PROVE index[i] < f
        OBVIOUS
      <3>2. index[i] <= active /\ (rotating => index[i] < active)
        BY <1>5 DEF IndexOK
      <3>3. index[i] \in Nat
        BY <1>5, IndexTypes
      <3> QED
        BY <3>2, <3>3, <1>5, <1>6
    <2>3. ASSUME NEW g \in File, g # f, g > index[1], logs'[g] # <<>>
          PROVE  Listed(index, g)
      <3>1. CASE logs[g] # <<>>
        BY <3>1, <2>3, <1>5 DEF IndexOK
      <3>2. CASE logs[g] = <<>>
        <4>1. g = active
          BY <3>2, <2>3, <1>9
        <4>2. ~ rotating
          BY <3>2, <2>3, <1>8, <1>9
        <4>3. index[Len(index)] = active /\ Len(index) \in Nat /\ Len(index) > 0
          BY <4>2, <1>5, IndexTypes DEF IndexOK
        <4> QED
          BY <4>1, <4>3 DEF Listed
      <3> QED
        BY <3>1, <3>2
    <2>4. IndexOK(logs', files \cup {f}, Append(index, f), f, FALSE)
      BY <2>1, <2>2, <2>3, <1>2, <1>5, IndexAppend
    <2> QED
      BY <2>4, <1>1, <1>2 DEF IndexRight
  <1>11. LogRight'
    BY <1>1, <1>2, <1>9 DEF LogRight
  <1>12. dump' \in DumpType /\ dump'.pc = "none" /\ DumpRight'
    BY <1>1 DEF NoDump, DumpPc, DumpType, DumpRight
  <1>13. net \in Seq(Events) /\ net' \in Seq(Events)
    <2>1. net \in Seq(Events)
      BY DEF IInv, Data
    <2> QED
      BY <2>1, <1>3
  <1>14. NetRight'
    <2>1. ASSUME spc = "connect"
          PROVE  net' = <<>>
      <3>1. net = <<>>
        BY <2>1 DEF IInv, NetRight
      <3> QED
        BY <3>1, <1>3
    <2>2. ASSUME spc \in {"read", "executed"}
          PROVE  Link(logs', f, net', NoDump, mi, spc)
      <3>1. Link(logs, active, net, dump, mi, spc)
        BY <2>2 DEF IInv, NetRight
      <3>2. Link(logs, active, net', NoDump, mi, spc)
        BY <3>1, <1>3, <1>13, LinkCut
      <3> QED
        BY <3>2, <1>5, <1>9, <1>13, GrowsLink
    <2> QED
      BY <2>1, <2>2, <1>1, <1>2, <1>4 DEF NetRight
  <1>15. Data'
    BY <1>1, <1>4, <1>5, <1>12, <1>13 DEF IInv, Data, DumpType
  <1>16. /\ SlaveRight' /\ InsertIds' /\ (NoGap => Counted')
         /\ TempTableKept => TempTableKept'
    <2>1. Grows(logs, logs', written, active, active') /\ written' = written
      BY <1>1, <1>2, <1>9
    <2>2. restarts' # 0
      BY <1>1, <1>5
    <2> QED
      BY <2>1, <2>2, <1>1, <1>4, <1>5, SlaveGrows
  <1> QED
    BY <1>10, <1>11, <1>12, <1>14, <1>15, <1>16 DEF IInv, NoGap

-----------------------------------------------------------------------------
(* The invariant holds.                                                      *)

LEMMA InitRight == Init => IInv
  <1> SUFFICES ASSUME Init PROVE IInv
    OBVIOUS
  <1>1. /\ written = 0 /\ files = {1} /\ index = <<1>> /\ active = 1 /\ rotating = FALSE
        /\ logs = [f \in File |-> IF f = 1 THEN <<Start>> ELSE <<>>]
        /\ dump = NoDump /\ net = <<>> /\ spc = "connect"
        /\ mi = [file |-> 1, pos |-> 0, pending |-> 0] /\ info = [file |-> 1, pos |-> 0]
        /\ next_insert_id = 0 /\ temp = FALSE /\ applied = <<>>
        /\ restarts = 0 /\ crashes = 0 /\ drops = 0 /\ purges = 0
    BY DEF Init
  <1>2. /\ 1 \in File /\ 0 \in 0 .. MaxStatement
        /\ \A f \in File : f \in Nat /\ f >= 1
    BY ReplicationAssumption, Bounds DEF ReplicationAssumption, File
  <1>3. Start \in Events /\ Start.type = "start"
    BY Made
  <1>4. /\ logs[1] = <<Start>> /\ Len(logs[1]) = 1 /\ logs[1][1] = Start
        /\ \A f \in File : f # 1 => logs[f] = <<>> /\ Len(logs[f]) = 0
    BY <1>1, <1>2
  <1>5. logs \in [File -> Seq(Events)]
    BY <1>1, <1>3
  <1>6. \A f \in File : \A j \in Nat : ~ IsQuery(logs, f, j)
    <2>1. SUFFICES ASSUME NEW f \in File, NEW j \in Nat, IsQuery(logs, f, j) PROVE FALSE
      OBVIOUS
    <2>2. f = 1 /\ j = 1
      BY <2>1, <1>4 DEF IsQuery
    <2> QED
      BY <2>1, <2>2, <1>3, <1>4 DEF IsQuery
  <1>7. LogOK(logs, 0, 1, 0)
    <2>1. FilesRight(logs, 0, 1, 0)
      <3>1. SUFFICES ASSUME NEW f \in File, NEW j \in 1 .. Len(logs[f])
                     PROVE  EventRight(logs[f], 0, 1, 0, f, j)
        BY DEF FilesRight
      <3>2. f = 1
        <4>1. f # 1 => 1 .. Len(logs[f]) = {}
          BY <1>4
        <4> QED
          BY <4>1
      <3>3. j = 1
        BY <3>2, <1>4
      <3> QED
        BY <3>2, <3>3, <1>3, <1>4 DEF EventRight
    <2>2. InOrder(logs) /\ AllThere(logs, 0)
      BY <1>6 DEF InOrder, AllThere
    <2>3. \A f \in File : f > 1 => logs[f] = <<>>
      BY <1>2, <1>4
    <2> QED
      BY <2>1, <2>2, <2>3, <1>2, <1>5 DEF LogOK
  <1>8. LogRight
    BY <1>1, <1>7 DEF LogRight
  <1>9. IndexRight
    <2>1. /\ index \in Seq(File) /\ index # <<>> /\ Len(index) = 1 /\ index[1] = 1
          /\ \A i \in 1 .. Len(index) : i = 1
      BY <1>1, <1>2
    <2>2. \A f \in File : f > index[1] => logs[f] = <<>>
      BY <2>1, <1>2, <1>4
    <2> QED
      BY <2>1, <2>2, <1>1, <1>2 DEF IndexRight, IndexOK
  <1>10. dump \in DumpType /\ dump.pc = "none"
    BY <1>1 DEF NoDump, DumpPc, DumpType
  <1>11. mi \in MiType /\ mi.file = 1 /\ mi.pos = 0 /\ mi.pending = 0
    BY <1>1, <1>2 DEF MiType
  <1>12. Data
    <2>1. info = [file |-> mi.file, pos |-> mi.pos]
      BY <1>1, <1>11
    <2>2. net \in Seq(Events) /\ applied \in Seq([n : Statement, id : 0 .. MaxStatement])
      BY <1>1
    <2> QED
      BY <2>1, <2>2, <1>1, <1>2, <1>10, <1>11 DEF Data, DumpType, MiType
  <1>13. DumpRight /\ NetRight
    BY <1>1, <1>10 DEF DumpRight, NetRight
  <1>14. Placed(logs, active, mi, spc)
    <2>1. Here(mi, spc) = 0
      BY <1>1, <1>11 DEF Here
    <2>2. Valid(logs, 1, 1, 0)
      BY <1>2, <1>4 DEF Valid
    <2> QED
      BY <2>1, <2>2, <1>1, <1>11 DEF Placed
  <1>15. SlaveRight
    BY <1>1, <1>14 DEF SlaveRight
  <1>16. DOMAIN applied = {} /\ Done = 0 /\ Len(applied) = 0
    BY <1>1 DEF Done
  <1>17. InsertIds /\ TempTableKept
    BY <1>1, <1>16 DEF InsertIds, TempTableKept
  <1>18. Counted
    <2>1. Seen(logs, mi.file, mi.pos, 0)
      BY <1>6 DEF Seen
    <2> QED
      BY <2>1, <1>1, <1>16 DEF Counted, Counts
  <1> QED
    BY <1>8, <1>9, <1>12, <1>13, <1>15, <1>17, <1>18 DEF IInv

LEMMA StutterStep ==
  ASSUME IInv, UNCHANGED vars
  PROVE  IInv'
  <1>1. UNCHANGED <<mvars, dump, net, svars, faults>>
    BY DEF vars
  <1>2. /\ UNCHANGED <<mi, info, spc, next_insert_id, temp, applied>>
        /\ UNCHANGED <<restarts, crashes, drops, purges>>
    BY <1>1 DEF svars, faults
  <1>3. /\ drops' \in Nat /\ dump' \in DumpType /\ net' \in Seq(Events)
        /\ DumpRight' /\ NetRight'
    BY <1>1, <1>2 DEF IInv, Data, DumpType, DumpRight, NetRight, mvars
  <1> QED
    BY <1>1, <1>2, <1>3, DumpFrame

LEMMA NextStep ==
  ASSUME IInv, [Next]_vars
  PROVE  IInv'
  <1>1. CASE Write \/ FlushLogs \/ IndexWritten
    BY <1>1, WriteStep, FlushStep, IndexStep
  <1>2. ASSUME NEW stops \in BOOLEAN, MasterRestart(stops)
        PROVE  IInv'
    BY <1>2, RestartStep
  <1>3. ASSUME NEW k \in 1 .. MaxFile, Purge(k)
        PROVE  IInv'
    BY <1>3, PurgeStep
  <1>4. CASE DumpStep
    BY <1>4, DumpReadStep, DumpEofStep, DumpCatchStep, DumpNextStep DEF DumpStep
  <1>5. CASE SlaveStep
    <2>1. CASE ExecEvent
      BY <2>1, IntvarStep, QueryStep, StartStep, StopStep, RotateStep DEF ExecEvent
    <2> QED
      BY <2>1, <1>5, ExecutedStep, ReadFailsStep, ConnectStep DEF SlaveStep
  <1>6. CASE Disconnect \/ QueryFails \/ StopSlave \/ StartSlave \/ SlaveCrash
    BY <1>6, DisconnectStep, EndStep, StartSlaveStep, CrashStep
  <1>7. CASE UNCHANGED vars
    BY <1>7, StutterStep
  <1> QED
    BY <1>1, <1>2, <1>3, <1>4, <1>5, <1>6, <1>7 DEF Next

(* The invariant, of every reachable state. *)
THEOREM Invariant == Spec => []IInv
  <1>1. IInv /\ [Next]_vars => IInv'
    BY NextStep
  <1> QED
    BY <1>1, InitRight, PTL DEF Spec

-----------------------------------------------------------------------------
(* What it says.                                                             *)

LEMMA Typed == IInv => TypeOK
  <1> SUFFICES ASSUME IInv PROVE TypeOK
    OBVIOUS
  <1>1. /\ Data /\ LogOK(logs, written, active, restarts) /\ rotating \in BOOLEAN
        /\ IndexOK(logs, files, index, active, rotating)
        /\ Placed(logs, active, mi, spc)
    BY DEF IInv, LogRight, IndexRight, SlaveRight
  <1>2. /\ \A f \in File : Len(logs[f]) \in Nat /\ Range(logs[f]) \subseteq Events
        /\ written \in 0 .. MaxStatement
    <2>1. logs \in [File -> Seq(Events)] /\ written \in 0 .. MaxStatement
      BY <1>1 DEF LogOK
    <2>2. ASSUME NEW f \in File
          PROVE  Len(logs[f]) \in Nat /\ Range(logs[f]) \subseteq Events
      <3>1. logs[f] \in Seq(Events) /\ DOMAIN logs[f] = 1 .. Len(logs[f])
        BY <2>1
      <3> QED
        BY <3>1 DEF Range
    <2> QED
      BY <2>1, <2>2
  <1>3. files \subseteq File /\ active \in files /\ ToSet(index) \subseteq files
    <2>1. index \in Seq(File) /\ DOMAIN index = 1 .. Len(index)
      BY <1>1 DEF IndexOK
    <2> QED
      BY <2>1, <1>1 DEF IndexOK, ToSet
  <1>4. IsInjective(index)
    <2>1. DOMAIN index = 1 .. Len(index) /\ Len(index) \in Nat
          /\ \A i \in 1 .. Len(index) : index[i] \in Nat
      BY <1>1, IndexTypes
    <2>2. SUFFICES ASSUME NEW i \in 1 .. Len(index), NEW j \in 1 .. Len(index),
                          index[i] = index[j]
                   PROVE  i = j
      BY <2>1 DEF IsInjective
    <2>3. /\ i < j => index[i] < index[j]
          /\ j < i => index[j] < index[i]
      BY <1>1 DEF IndexOK
    <2> QED
      BY <2>1, <2>2, <2>3
  <1>5. dump.pc \in DumpPc /\ (dump.pc # "none" => dump.pos \in 0 .. Len(logs[dump.file]))
    BY <1>1, DumpTyped DEF Data, Valid
  <1>6. Range(net) \subseteq Events
    <2>1. net \in Seq(Events) /\ DOMAIN net = 1 .. Len(net)
      BY <1>1 DEF Data
    <2> QED
      BY <2>1 DEF Range
  <1>7. /\ mi.file \in File /\ mi.pos \in 0 .. Len(logs[mi.file])
        /\ mi.pos + mi.pending \in 0 .. Len(logs[mi.file])
    <2>1. mi.file \in File /\ mi.pos \in Nat /\ mi.pending \in {0, 1}
      BY <1>1 DEF Data
    <2>2. mi.pos \in 0 .. Len(logs[mi.file]) /\ Here(mi, spc) \in 0 .. Len(logs[mi.file])
      BY <1>1 DEF Placed, Valid
    <2> QED
      BY <2>1, <2>2, <1>2 DEF Here
  <1>8. info.file \in File /\ info.pos \in 0 .. Len(logs[info.file])
    <2>1. info.file = mi.file /\ info.pos = mi.pos
      BY <1>1 DEF Data
    <2> QED
      BY <2>1, <1>7
  <1>9. \A i \in DOMAIN applied : applied[i] \in [n : Statement, id : 0 .. MaxStatement]
    <2> DEFINE R == [n : Statement, id : 0 .. MaxStatement]
    <2>1. applied \in Seq(R)
      BY <1>1 DEF Data
    <2> HIDE DEF R
    <2>2. \A i \in DOMAIN applied : applied[i] \in R
      BY <2>1
    <2> QED
      BY <2>2 DEF R
  <1> QED
    BY <1>1, <1>2, <1>3, <1>4, <1>5, <1>6, <1>7, <1>8, <1>9 DEF TypeOK, Data

(* The types; the index names files that exist, each once, and a position of *)
(* the dump thread, of the slave or of master.info is one of its file.       *)
THEOREM Types == Spec => []TypeOK
  BY Invariant, Typed, PTL

(* An insert has on the slave the value it had on the master, whatever files *)
(* are rotated or purged, connections lost, and servers started again: the   *)
(* position never stands between an insert id and its statement.             *)
THEOREM InsertIdsKept == Spec => []InsertIds
  <1>1. IInv => InsertIds
    BY DEF IInv
  <1> QED
    BY <1>1, Invariant, PTL

(* A dump thread waits for an update at the end of the active file only,     *)
(* also when the log is rotated after the thread has read it to the end.     *)
THEOREM NothingMissed == Spec => []NoMissedUpdate
  <1>1. IInv => NoMissedUpdate
    <2>1. SUFFICES ASSUME IInv, dump.pc = "asleep" PROVE AtEof /\ dump.file = active
      BY DEF NoMissedUpdate
    <2> QED
      BY <2>1, DumpTyped DEF DumpOK, AtEof
  <1> QED
    BY <1>1, Invariant, PTL

(* While no server dies, a temporary table lives on the slave as long as on  *)
(* the master: no rotation of the log and no new connection drops it.        *)
THEOREM TemporaryTables ==
  ASSUME NoGap
  PROVE  Spec => []TempTableKept
  <1>1. IInv => TempTableKept
    BY DEF IInv
  <1> QED
    BY <1>1, Invariant, PTL

-----------------------------------------------------------------------------
(* The refinement.                                                           *)

(* Did: the statements the slave executed. *)
Did == [i \in DOMAIN applied |-> applied[i].n]

LEMMA DidIs ==
  ASSUME IInv
  PROVE  /\ Did \in Seq(Statement) /\ Len(Did) = Len(applied)
         /\ (Did = <<>> <=> applied = <<>>)
         /\ Log!Last0(Did) = Done
         /\ applied # <<>> => Last(Did) = Done
  <1> DEFINE R == [n : Statement, id : 0 .. MaxStatement]
  <1>1. applied \in Seq(R) /\ \A x \in R : x.n \in Statement
    BY DEF IInv, Data
  <1> HIDE DEF R
  <1>2. /\ Len(applied) \in Nat /\ DOMAIN applied = 1 .. Len(applied)
        /\ \A i \in 1 .. Len(applied) : applied[i].n \in Statement
    BY <1>1
  <1>3. /\ Did \in Seq(Statement) /\ Len(Did) = Len(applied)
        /\ \A i \in 1 .. Len(applied) : Did[i] = applied[i].n
    BY <1>2 DEF Did
  <1>4. applied # <<>> => Len(applied) \in 1 .. Len(applied)
    BY <1>1
  <1>5. Did = <<>> <=> applied = <<>>
    BY <1>1, <1>3
  <1>6. applied # <<>> => Last(Did) = Done
    BY <1>3, <1>4 DEF Last, Done
  <1>7. Log!Last0(Did) = Done
    BY <1>5, <1>6 DEF Log!Last0, Log!Last, Last, Done
  <1> QED
    BY <1>3, <1>5, <1>6, <1>7

LEMMA DidSame ==
  ASSUME UNCHANGED applied
  PROVE  Did' = Did
  BY DEF Did

LEMMA DidAppend ==
  ASSUME IInv, NEW n \in Statement, NEW id \in 0 .. MaxStatement,
         applied' = Append(applied, [n |-> n, id |-> id])
  PROVE  Did' = Append(Did, n)
  <1>1. applied \in Seq([n : Statement, id : 0 .. MaxStatement])
    BY DEF IInv, Data
  <1>2. /\ DOMAIN applied = 1 .. Len(applied) /\ Len(applied) \in Nat
        /\ DOMAIN applied' = 1 .. Len(applied) + 1
        /\ applied'[Len(applied) + 1].n = n
        /\ \A i \in 1 .. Len(applied) : applied'[i] = applied[i]
    BY <1>1, DoneAppend
  <1>3. Did \in Seq(Statement) /\ Len(Did) = Len(applied)
    BY DidIs
  <1> DEFINE D == Append(Did, n)
  <1>4. /\ D \in Seq(Statement) /\ DOMAIN D = 1 .. Len(applied) + 1
        /\ D[Len(applied) + 1] = n
        /\ \A i \in 1 .. Len(applied) : D[i] = Did[i]
    BY <1>2, <1>3
  <1> HIDE DEF D
  <1>5. \A i \in 1 .. Len(applied) + 1 : i = Len(applied) + 1 \/ i \in 1 .. Len(applied)
    BY <1>2
  <1>6. \A i \in 1 .. Len(applied) : Did[i] = applied[i].n
    BY <1>2 DEF Did
  <1>7. Did' = [i \in 1 .. Len(applied) + 1 |-> applied'[i].n]
    BY <1>2 DEF Did
  <1>8. D = [i \in 1 .. Len(applied) + 1 |-> D[i]]
    BY <1>4
  <1>9. \A i \in 1 .. Len(applied) + 1 : applied'[i].n = D[i]
    BY <1>2, <1>4, <1>5, <1>6
  <1> QED
    BY <1>7, <1>8, <1>9 DEF D

(* A step of the log, or none. *)
Simulated == \/ Log!AWrite \/ Log!AApply \/ Log!ARepeat \/ Log!ACrash
             \/ UNCHANGED Log!avars

LEMMA QuerySimulated ==
  ASSUME IInv, NoGap, exec_query
  PROVE  Simulated
  <1> DEFINE n == Head(net).n
  <1>1. /\ UNCHANGED <<mvars, faults>> /\ Takes("query")
        /\ applied' = Append(applied, [n |-> n, id |-> next_insert_id])
    BY DEF exec_query
  <1>2. PICK f, p, g, q :
              /\ Valid(logs, active, f, p) /\ f \in File /\ p \in Nat
              /\ Valid(logs, active, g, q) /\ g \in File /\ q \in Nat
              /\ Hop(logs, Head(net), f, p, g, q)
              /\ Sync(logs, mi, "read", f, p)
    BY <1>1, Taken
  <1>3. /\ spc = "read" /\ mi \in MiType
        /\ LogOK(logs, written, active, restarts)
        /\ Placed(logs, active, mi, "read")
        /\ Head(net) \in Events /\ Head(net).type = "query"
    BY <1>1, Taken
  <1>4. /\ g = f /\ q = p + 1 /\ q \in 1 .. Len(logs[f]) /\ Head(net) = logs[f][q]
        /\ IsQuery(logs, f, q) /\ n \in Statement
    BY <1>2, <1>3, Comes
  <1>5. n = logs[f][p + 1].n
    BY <1>4
  <1> HIDE DEF n
  <1>6. /\ n \in Nat /\ n <= written
        /\ n = Done + 1 \/ (n = Done /\ Len(applied) < Done + crashes /\ applied # <<>>)
    BY <1>2, <1>3, <1>4, <1>5, QueryComes
  <1>7. /\ next_insert_id \in 0 .. MaxStatement /\ crashes \in Nat
        /\ applied \in Seq([n : Statement, id : 0 .. MaxStatement])
    BY DEF IInv, Data
  <1>8. Did' = Append(Did, n)
    BY <1>1, <1>4, <1>7, DidAppend
  <1>9. UNCHANGED <<written, crashes>>
    BY <1>1 DEF mvars, faults
  <1>10. Done \in Nat /\ Len(applied) \in Nat
    BY <1>7, DoneType
  <1>11. CASE n = Done + 1
    <2>1. Log!Last0(Did) < written /\ n = Log!Last0(Did) + 1
      BY <1>6, <1>10, <1>11, DidIs, Bounds DEF IInv, LogRight, LogOK
    <2>2. Log!AApply
      BY <2>1, <1>8, <1>9 DEF Log!AApply, Did
    <2> QED
      BY <2>2 DEF Simulated
  <1>12. CASE n = Done /\ Len(applied) < Done + crashes /\ applied # <<>>
    <2>1. Did # <<>> /\ Len(Did) - Log!Last0(Did) < crashes /\ n = Last(Did)
      BY <1>7, <1>10, <1>12, DidIs
    <2>2. Log!ARepeat
      BY <2>1, <1>8, <1>9 DEF Log!ARepeat, Log!Last, Last, Did
    <2> QED
      BY <2>2 DEF Simulated
  <1> QED
    BY <1>6, <1>11, <1>12

LEMMA Simulates ==
  ASSUME IInv, NoGap, [Next]_vars
  PROVE  Simulated
  <1>1. CASE Write
    <2>1. written' = written + 1 /\ UNCHANGED <<svars, faults>>
      BY <1>1 DEF Write
    <2>2. UNCHANGED <<applied, crashes>>
      BY <2>1 DEF svars, faults
    <2> QED
      BY <2>1, <2>2, DidSame DEF Simulated, Log!AWrite, Did
  <1>2. CASE exec_query
    BY <1>2, QuerySimulated
  <1>3. CASE SlaveCrash
    <2>1. crashes' = crashes + 1 /\ UNCHANGED <<mvars, applied>>
      BY <1>3 DEF SlaveCrash
    <2> QED
      BY <2>1, DidSame DEF Simulated, Log!ACrash, Did, mvars
  <1>4. CASE UNCHANGED <<written, applied, crashes>>
    BY <1>4, DidSame DEF Simulated, Log!avars, Did
  <1>5. ASSUME ~ Write, ~ exec_query, ~ SlaveCrash
        PROVE  UNCHANGED <<written, applied, crashes>>
    <2>1. CASE FlushLogs \/ IndexWritten
      BY <2>1 DEF FlushLogs, IndexWritten, svars, faults
    <2>2. ASSUME NEW stops \in BOOLEAN, MasterRestart(stops)
          PROVE  UNCHANGED <<written, applied, crashes>>
      BY <2>2 DEF MasterRestart, svars
    <2>3. ASSUME NEW k \in 1 .. MaxFile, Purge(k)
          PROVE  UNCHANGED <<written, applied, crashes>>
      BY <2>3 DEF Purge, svars
    <2>4. CASE DumpStep
      BY <2>4 DEF DumpStep, DumpRead, DumpEof, DumpCatch, DumpNext, mvars, svars, faults
    <2>5. CASE exec_intvar \/ exec_start \/ exec_stop \/ exec_rotate
      BY <2>5 DEF exec_intvar, exec_start, exec_stop, exec_rotate, mvars, faults
    <2>6. CASE Executed \/ ReadFails \/ Connect
      BY <2>6 DEF Executed, ReadFails, Connect, mvars, faults
    <2>7. CASE Disconnect \/ QueryFails \/ StopSlave \/ StartSlave
      BY <2>7 DEF Disconnect, QueryFails, StopSlave, StartSlave, mvars, svars, faults
    <2>8. CASE UNCHANGED vars
      BY <2>8 DEF vars, mvars, svars, faults
    <2> QED
      BY <1>5, <2>1, <2>2, <2>3, <2>4, <2>5, <2>6, <2>7, <2>8
      DEF Next, SlaveStep, ExecEvent
  <1> QED
    BY <1>1, <1>2, <1>3, <1>4, <1>5

(* The slave executes what the master wrote, in its order, nothing left out, *)
(* and a statement again only for a crash of its own: log.cc, sql_repl.cc    *)
(* and slave.cc implement ReplicatedLog.                                     *)
THEOREM Implements ==
  ASSUME NoGap
  PROVE  Spec => KeepsOrder
  <1>1. Init => Log!AInit
    BY DEF Init, Log!AInit
  <1>2. IInv /\ [Next]_vars =>
          [Log!AWrite \/ Log!AApply \/ Log!ARepeat \/ Log!ACrash]_(Log!avars)
    BY Simulates DEF Simulated
  <1> QED
    BY <1>1, <1>2, Invariant, PTL DEF Spec, KeepsOrder, Log!ASpec
=============================================================================
