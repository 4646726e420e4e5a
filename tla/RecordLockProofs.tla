-------------------------- MODULE RecordLockProofs --------------------------
(* What locks on records exclude, who waits, and that locking reads are      *)
(* repeatable, for any number of transactions and keys.                      *)
EXTENDS RecordLock, ListLemmas

-----------------------------------------------------------------------------
(* The invariant.                                                            *)

(* The requests s of a record: one that is granted and not of the gap type   *)
(* has no conflicting one of another transaction ahead, granted or not.      *)
Ordered(s) ==
    \A i, j \in DOMAIN s :
        (j < i /\ ~s[i].wait /\ ~s[i].gap /\ ~s[j].gap /\ s[j].trx # s[i].trx) =>
            Compatible(s[i].mode, s[j].mode)

(* RULE 1 of lock0lock.c for the writer t of a record with the requests s.   *)
Guards(s, t) ==
    \A l \in Range(s) : l.trx # t /\ ~l.gap =>
        l.wait /\ \E x \in Range(s) : x.trx = t /\ x.mode = "X" /\ ~x.wait /\ ~x.gap

(* A transaction waits for one request at a time.                            *)
WaitsOnce(q) ==
    \A r, p \in Rec : \A i \in DOMAIN q[r], j \in DOMAIN q[p] :
        q[r][i].wait /\ q[p][j].wait /\ q[r][i].trx = q[p][j].trx => r = p /\ i = j

Caused(q) ==
    \A r \in Rec : \A i \in DOMAIN q[r] : q[r][i].wait => HasToWaitInQueue(q, r, i)

NoCircle(q) == \A t \in Trx : t \notin Reached(q, t)

(* The queues q, when w are the writers of the records.                      *)
Queues == [Rec -> Seq(Request)]
LockTable(q, w) ==
    /\ q \in Queues
    /\ \A k \in Key : Ordered(q[k]) /\ \A t \in Trx : w[k] = t => Guards(q[k], t)
    /\ Caused(q) /\ WaitsOnce(q) /\ NoCircle(q)

(* t holds key k: a lock on its record, or on that after the gap it would    *)
(* be inserted into.                                                         *)
Has(q, r, t) == \E l \in Range(q[r]) : l.trx = t
HasGranted(q, r, t) == \E l \in Range(q[r]) : l.trx = t /\ ~l.wait
Holds(m, t, k) ==
    IF k \in page THEN HasExpl(queue, m, k, t) ELSE HasGranted(queue, NextRec(k), t)

(* The undo log of t: its rows are those on the page t has written, and the  *)
(* first change of a row has found a committed version.                      *)
UndoRight(t) ==
    /\ \A k \in Key : writer[k] = t => \E i \in DOMAIN undo[t] : undo[t][i].key = k
    /\ \A i \in DOMAIN undo[t] :
          LET u == undo[t][i] IN
          /\ u.key \in page /\ writer[u.key] = t
          /\ u.prev = IF \E j \in 1 .. (i-1) : undo[t][j].key = u.key THEN t ELSE NoTrx
          /\ u.type = "insert" => u.prev = NoTrx
          /\ u.type = "upd_del" => HasExpl(queue, "S", u.key, t)

RemoveRight(t) ==
    op[t].do = "remove" =>
        /\ op[t].key \in Key /\ Holds("S", t, op[t].key)
        /\ op[t].key \in page => op[t].key \in deleted /\ writer[op[t].key] = NoTrx

Passed(t, k) == cursor[t].from \in Key /\ cursor[t].from <= k /\ k <= cursor[t].pos

(* A scan that has waited finds its record, or the one after, next.          *)
ScanRight(t) ==
    /\ cursor[t] = NoScan \/ (cursor[t].from \in Key /\ cursor[t].from <= cursor[t].pos + 1)
    /\ \A k \in result[t] : Passed(t, k)
    /\ op[t].do = "scan" =>
        /\ cursor[t].from \in Key
        /\ cursor[t].pos < op[t].key /\ op[t].key <= NextRec(cursor[t].pos)
        /\ Has(queue, NextRec(cursor[t].pos), t)

ReadRight(t) ==
    op[t].do \notin {"rollback", "remove"} =>
        \A k \in Key : Passed(t, k) =>
            \/ writer[k] = t
            \/ Holds(cursor[t].mode, t, k) /\ (k \in result[t] <=> k \in page \ deleted)

Rights(t) == UndoRight(t) /\ RemoveRight(t) /\ ScanRight(t) /\ ReadRight(t)

IInv ==
    /\ TypeOK
    /\ LockTable(queue, writer)
    /\ waiting = WaitersOf(queue)
    /\ \A t \in Trx : Rights(t)

-----------------------------------------------------------------------------
(* The waits-for graph.                                                      *)

LEMMA Sizes ==
  /\ MaxKey \in Nat \ {0} /\ Supremum \in Nat /\ Supremum = MaxKey + 1
  /\ Key \subseteq Rec /\ Rec \subseteq Nat /\ Supremum \in Rec /\ Supremum \notin Key
  /\ \A r \in Rec : r \in Key <=> r # Supremum
  /\ IsFiniteSet(Trx) /\ NoTrx \notin Trx /\ Cardinality(Trx) \in Nat
  BY RecordLockAssumption, FS_CardinalityType DEF Key, Rec, Supremum

Further(q, S) == S \cup UNION {WaitsFor(q, u) : u \in S}

Reaches(f, q, t, m) ==
  /\ f[0] = WaitsFor(q, t)
  /\ \A n \in 1 .. m : f[n] = Further(q, f[n-1])

ReachesUpTo(q, t, c) ==
  \E f : f = [n \in 0 .. c |-> IF n = 0 THEN WaitsFor(q, t) ELSE Further(q, f[n-1])]

(* The function that Reached recurses with.                                  *)
LEMMA ReachExists ==
  ASSUME NEW q, NEW t, NEW c \in Nat
  PROVE  ReachesUpTo(q, t, c)
  <1> DEFINE P(m) == \E f : Reaches(f, q, t, m)
             T == {m \in Nat : ~ P(m)}
  <1>1. T = {}
    <2> SUFFICES ASSUME T # {} PROVE FALSE
      OBVIOUS
    <2>1. PICK m \in T : \A k \in T : m <= k
      BY Least
    <2>2. m # 0
      <3>1. Reaches([n \in {0} |-> WaitsFor(q, t)], q, t, 0)
        BY DEF Reaches
      <3> QED
        BY <3>1
    <2>3. m - 1 \in Nat /\ m - 1 \notin T
      BY <2>1, <2>2
    <2>4. PICK g : Reaches(g, q, t, m - 1)
      BY <2>3
    <2> DEFINE h == [n \in 0 .. m |-> IF n < m THEN g[n] ELSE Further(q, g[m-1])]
    <2>5. \A n \in 0 .. (m-1) : h[n] = g[n]
      BY <2>1
    <2>6. h[m] = Further(q, g[m-1])
      BY <2>1
    <2> HIDE DEF h
    <2>7. ASSUME NEW n \in 1 .. m
          PROVE  h[n] = Further(q, h[n-1])
      <3>1. h[n-1] = g[n-1]
        BY <2>1, <2>5
      <3>2. CASE n = m
        BY <3>1, <3>2, <2>6
      <3>3. CASE n # m
        <4>1. n \in 1 .. (m-1) /\ n \in 0 .. (m-1)
          BY <2>1, <3>3
        <4> QED
          BY <4>1, <3>1, <2>4, <2>5 DEF Reaches
      <3> QED
        BY <3>2, <3>3
    <2>8. h[0] = WaitsFor(q, t)
      BY <2>1, <2>2, <2>4, <2>5 DEF Reaches
    <2> QED
      BY <2>1, <2>7, <2>8 DEF Reaches
  <1>2. PICK f : Reaches(f, q, t, c)
    BY <1>1
  <1> DEFINE h == [n \in 0 .. c |-> f[n]]
  <1>3. \A n \in 1 .. c : h[n-1] = f[n-1]
    OBVIOUS
  <1>4. h = [n \in 0 .. c |-> IF n = 0 THEN WaitsFor(q, t) ELSE Further(q, h[n-1])]
    <2>1. ASSUME NEW n \in 0 .. c
          PROVE  f[n] = IF n = 0 THEN WaitsFor(q, t) ELSE Further(q, h[n-1])
      <3>1. n # 0 => n \in 1 .. c
        OBVIOUS
      <3> HIDE DEF h
      <3> QED
        BY <3>1, <1>2, <1>3 DEF Reaches
    <2> QED
      BY <2>1
  <1> HIDE DEF h
  <1> QED
    BY <1>4 DEF ReachesUpTo

LEMMA ReachFacts ==
  ASSUME NEW q, NEW t
  PROVE  \E f : /\ Reaches(f, q, t, Cardinality(Trx))
                /\ Reached(q, t) = f[Cardinality(Trx)]
  <1> DEFINE c == Cardinality(Trx)
             body(g) == [n \in 0 .. c |->
                           IF n = 0 THEN WaitsFor(q, t) ELSE Further(q, g[n-1])]
             f == CHOOSE g : g = body(g)
  <1>1. c \in Nat
    BY Sizes
  <1>2. Reached(q, t) = f[c]
    BY DEF Reached, Further
  <1> HIDE DEF c
  <1>3. f = body(f)
    <2>1. \E g : g = body(g)
      <3>1. ReachesUpTo(q, t, c)
        BY <1>1, ReachExists
      <3> QED
        BY <3>1 DEF ReachesUpTo
    <2> QED
      BY <2>1
  <1> HIDE DEF f
  <1>4. f[0] = WaitsFor(q, t)
    BY <1>1, <1>3
  <1>5. \A n \in 1 .. c : f[n] = Further(q, f[n-1])
    <2> TAKE n \in 1 .. c
    <2>1. n \in 0 .. c /\ n # 0
      BY <1>1
    <2> QED
      BY <2>1, <1>3
  <1> QED
    BY <1>2, <1>4, <1>5 DEF Reaches, c

(* What is reached from t is the least set with those t waits for, and those *)
(* its elements wait for.                                                    *)
LEMMA ReachedLeast ==
  ASSUME NEW q, NEW t, NEW C, WaitsFor(q, t) \subseteq C,
         \A u \in C : WaitsFor(q, u) \subseteq C
  PROVE  Reached(q, t) \subseteq C
  <1> DEFINE c == Cardinality(Trx)
  <1>1. PICK f : Reaches(f, q, t, c) /\ Reached(q, t) = f[c]
    BY ReachFacts
  <1>2. c \in Nat
    BY Sizes
  <1> HIDE DEF c
  <1> DEFINE T == {n \in Nat : n <= c /\ ~ (f[n] \subseteq C)}
  <1>3. T = {}
    <2> SUFFICES ASSUME T # {} PROVE FALSE
      OBVIOUS
    <2>1. PICK n \in T : \A k \in T : n <= k
      BY Least
    <2>2. n # 0
      BY <1>1 DEF Reaches
    <2>3. n \in 1 .. c /\ n - 1 \in Nat /\ n - 1 <= c /\ n - 1 \notin T
      BY <1>2, <2>1, <2>2
    <2>4. f[n-1] \subseteq C
      BY <2>3
    <2>5. f[n] = Further(q, f[n-1])
      BY <1>1, <2>3 DEF Reaches
    <2>6. f[n] \subseteq C
      BY <2>4, <2>5 DEF Further
    <2> QED
      BY <2>1, <2>6
  <1>4. f[c] \subseteq C
    BY <1>2, <1>3
  <1> QED
    BY <1>1, <1>4

LEMMA ReachedClosed ==
  ASSUME NEW q, NEW t
  PROVE  /\ Reached(q, t) \subseteq Trx /\ WaitsFor(q, t) \subseteq Reached(q, t)
         /\ \A u \in Reached(q, t) : WaitsFor(q, u) \subseteq Reached(q, t)
  <1> DEFINE c == Cardinality(Trx)
  <1>1. PICK f : Reaches(f, q, t, c) /\ Reached(q, t) = f[c]
    BY ReachFacts
  <1>2. c \in Nat
    BY Sizes
  <1>3. \A u : WaitsFor(q, u) \subseteq Trx
    BY DEF WaitsFor
  <1> HIDE DEF c
  (* It takes in one more at each step, or is closed.                        *)
  <1> DEFINE Good(n) == /\ f[n] \subseteq Trx /\ WaitsFor(q, t) \subseteq f[n]
                        /\ \/ Further(q, f[n]) = f[n]
                           \/ Cardinality(f[n]) >= n
             T == {n \in Nat : n <= c /\ ~ Good(n)}
  <1>4. T = {}
    <2> SUFFICES ASSUME T # {} PROVE FALSE
      OBVIOUS
    <2>1. PICK n \in T : \A k \in T : n <= k
      BY Least
    <2>2. n # 0
      <3>1. f[0] = WaitsFor(q, t)
        BY <1>1 DEF Reaches
      <3>2. IsFiniteSet(f[0]) /\ Cardinality(f[0]) \in Nat
        BY <3>1, <1>3, Sizes, FS_Subset, FS_CardinalityType
      <3>3. Good(0)
        BY <3>1, <3>2, <1>3
      <3> HIDE DEF Good
      <3> QED
        BY <3>3
    <2>3. n \in 1 .. c /\ n - 1 \in Nat /\ n - 1 <= c /\ n - 1 \notin T
      <3> HIDE DEF Good
      <3> QED
        BY <1>2, <2>1, <2>2
    <2>4. Good(n - 1)
      <3> HIDE DEF Good
      <3> QED
        BY <2>3
    <2> DEFINE A == f[n-1]
               B == f[n]
    <2>5. B = Further(q, A)
      BY <1>1, <2>3 DEF Reaches
    <2>6. A \subseteq B /\ B \subseteq Trx /\ WaitsFor(q, t) \subseteq B
      BY <2>4, <2>5, <1>3 DEF Further
    <2>7. IsFiniteSet(A) /\ IsFiniteSet(B) /\ Cardinality(A) \in Nat /\ Cardinality(B) \in Nat
      BY <2>6, Sizes, FS_Subset, FS_CardinalityType
    <2>8. CASE A = B
      <3>1. Further(q, B) = B
        BY <2>5, <2>8
      <3> QED
        BY <3>1, <2>1, <2>6
    <2>9. CASE A # B
      <3>1. Cardinality(A) >= n - 1
        BY <2>4, <2>5, <2>9
      <3>2. Cardinality(A) < Cardinality(B)
        <4>1. Cardinality(A) <= Cardinality(B) /\ Cardinality(A) # Cardinality(B)
          BY <2>6, <2>7, <2>9, FS_Subset
        <4> HIDE DEF A, B
        <4> QED
          BY <4>1, <2>7
      <3>3. Cardinality(B) >= n
        <4> HIDE DEF A, B
        <4> QED
          BY <3>1, <3>2, <2>3, <2>7
      <3> QED
        BY <3>3, <2>1, <2>6
    <2> QED
      BY <2>8, <2>9
  <1>5. Good(c)
    <2> HIDE DEF Good
    <2> QED
      BY <1>2, <1>4
  <1>6. Further(q, f[c]) = f[c]
    <2>1. CASE Cardinality(f[c]) >= c
      <3>1. f[c] = Trx
        <4>1. IsFiniteSet(Trx) /\ f[c] \in SUBSET Trx
          BY <1>5, Sizes
        <4>2. Cardinality(f[c]) <= Cardinality(Trx) /\ Cardinality(f[c]) \in Nat
          BY <4>1, FS_Subset, FS_CardinalityType
        <4>3. Cardinality(f[c]) = Cardinality(Trx)
          BY <4>2, <2>1, <1>2 DEF c
        <4> QED
          BY <4>1, <4>3, FS_Subset
      <3> QED
        BY <3>1, <1>3 DEF Further
    <2> QED
      BY <2>1, <1>5
  <1> QED
    BY <1>1, <1>5, <1>6 DEF Further

LEMMA NoNewCircle ==
  ASSUME NEW q, NEW p, NoCircle(q), \A u \in Trx : WaitsFor(p, u) \subseteq WaitsFor(q, u)
  PROVE  NoCircle(p)
  <1>1. ASSUME NEW t \in Trx PROVE Reached(p, t) \subseteq Reached(q, t)
    <2> DEFINE C == Reached(q, t)
    <2>1. C \subseteq Trx /\ WaitsFor(q, t) \subseteq C /\ \A u \in C : WaitsFor(q, u) \subseteq C
      BY ReachedClosed
    <2> HIDE DEF C
    <2>2. WaitsFor(p, t) \subseteq C /\ \A u \in C : WaitsFor(p, u) \subseteq C
      BY <2>1
    <2>3. Reached(p, t) \subseteq C
      BY <2>2, ReachedLeast
    <2> QED
      BY <2>3 DEF C
  <1> QED
    BY <1>1 DEF NoCircle

(* The search from t alone is enough when only t waits for more.             *)
LEMMA NewWaiter ==
  ASSUME NEW q, NEW p, NEW t \in Trx, NoCircle(q), t \notin Reached(p, t),
         \A u \in Trx \ {t} : WaitsFor(p, u) \subseteq WaitsFor(q, u)
  PROVE  NoCircle(p)
  <1>1. SUFFICES ASSUME NEW v \in Trx, v \in Reached(p, v) PROVE FALSE
    BY DEF NoCircle
  <1>2. v # t /\ v \notin Reached(q, v)
    BY <1>1 DEF NoCircle
  <1> DEFINE P == Reached(p, v)
             Q == Reached(q, v)
             R == Reached(p, t)
  <1>3. P \subseteq Trx /\ WaitsFor(p, v) \subseteq P /\ \A u \in P : WaitsFor(p, u) \subseteq P
    BY ReachedClosed
  <1>4. Q \subseteq Trx /\ WaitsFor(q, v) \subseteq Q /\ \A u \in Q : WaitsFor(q, u) \subseteq Q
    BY ReachedClosed
  <1>5. R \subseteq Trx /\ WaitsFor(p, t) \subseteq R /\ \A u \in R : WaitsFor(p, u) \subseteq R
    BY ReachedClosed
  <1>6. \A C : WaitsFor(p, v) \subseteq C /\ (\A u \in C : WaitsFor(p, u) \subseteq C) => P \subseteq C
    BY ReachedLeast
  <1>7. v \in P /\ v \notin Q /\ t \notin R
    BY <1>1, <1>2
  <1> HIDE DEF P, Q, R
  <1>8. CASE t \notin P
    <2> DEFINE C == P \cap Q
    <2>1. WaitsFor(p, v) \subseteq C
      BY <1>2, <1>3, <1>4
    <2>2. \A u \in C : WaitsFor(p, u) \subseteq C
      BY <1>3, <1>4, <1>8
    <2>3. P \subseteq C
      BY <1>6, <2>1, <2>2
    <2> QED
      BY <2>3, <1>7
  <1>9. CASE t \in P
    <2> DEFINE C == Q \cup R
    <2>1. WaitsFor(p, v) \subseteq C
      BY <1>2, <1>4
    <2>2. ASSUME NEW u \in C PROVE WaitsFor(p, u) \subseteq C
      <3>1. CASE u = t
        BY <3>1, <1>5
      <3>2. CASE u # t
        BY <3>2, <1>4, <1>5
      <3> QED
        BY <3>1, <3>2
    <2>3. P \subseteq C
      BY <1>6, <2>1, <2>2
    <2>4. v \in R
      BY <2>3, <1>7
    <2>5. P \subseteq R
      BY <1>5, <1>6, <2>4
    <2> QED
      BY <2>5, <1>7, <1>9
  <1> QED
    BY <1>8, <1>9

-----------------------------------------------------------------------------
(* Queues.                                                                   *)

LEMMA QueueFacts ==
  ASSUME NEW q \in Queues, NEW r \in Rec
  PROVE  /\ q[r] \in Seq(Request) /\ Len(q[r]) \in Nat /\ DOMAIN q[r] = 1 .. Len(q[r])
         /\ \A i \in 1 .. Len(q[r]) :
              /\ q[r][i] \in Request /\ q[r][i].trx \in Trx /\ q[r][i].mode \in LockMode
              /\ q[r][i].gap \in BOOLEAN /\ q[r][i].wait \in BOOLEAN
         /\ \A l : l \in Range(q[r]) <=> \E i \in 1 .. Len(q[r]) : q[r][i] = l
  <1>1. q[r] \in Seq(Request)
    BY DEF Queues
  <1> DEFINE s == q[r]
  <1>2. Len(s) \in Nat /\ DOMAIN s = 1 .. Len(s) /\ \A i \in 1 .. Len(s) : s[i] \in Request
    BY <1>1
  <1> HIDE DEF s
  <1>3. \A i \in 1 .. Len(s) : /\ s[i].trx \in Trx /\ s[i].mode \in LockMode
                               /\ s[i].gap \in BOOLEAN /\ s[i].wait \in BOOLEAN
    BY <1>2 DEF Request
  <1>4. \A l : l \in Range(s) <=> \E i \in 1 .. Len(s) : s[i] = l
    BY <1>2 DEF Range
  <1> QED
    BY <1>1, <1>2, <1>3, <1>4 DEF s

(* The queue p[r] is what is left of q[r] when those outside K are gone and  *)
(* who has nothing to wait for is let in; h says where they were.            *)
Left(q, p, K, r, h) ==
  /\ h \in [1 .. Len(p[r]) -> 1 .. Len(q[r])]
  /\ \A i, j \in 1 .. Len(p[r]) : i < j => h[i] < h[j]
  /\ \A i \in 1 .. Len(p[r]) :
       /\ p[r][i].trx = q[r][h[i]].trx /\ p[r][i].mode = q[r][h[i]].mode
       /\ p[r][i].gap = q[r][h[i]].gap
       /\ p[r][i].wait <=> q[r][h[i]].wait /\ HasToWaitInQueue(p, r, i)
       /\ q[r][h[i]] \in K
  /\ \A i \in 1 .. Len(q[r]) : q[r][i] \in K => \E j \in 1 .. Len(p[r]) : h[j] = i

LEMMA GrantFacts ==
  ASSUME NEW q \in Queues
  PROVE  /\ Grant(q) \in Queues
         /\ \A r \in Rec :
              /\ Len(Grant(q)[r]) = Len(q[r])
              /\ \A i \in 1 .. Len(q[r]) :
                   /\ Grant(q)[r][i].trx = q[r][i].trx /\ Grant(q)[r][i].mode = q[r][i].mode
                   /\ Grant(q)[r][i].gap = q[r][i].gap
                   /\ HasToWaitInQueue(Grant(q), r, i) <=> HasToWaitInQueue(q, r, i)
                   /\ Grant(q)[r][i].wait <=> q[r][i].wait /\ HasToWaitInQueue(Grant(q), r, i)
  <1> DEFINE G == Grant(q)
             g(r, i) == [q[r][i] EXCEPT !.wait = @ /\ HasToWaitInQueue(q, r, i)]
  <1>1. ASSUME NEW r \in Rec, NEW i \in 1 .. Len(q[r])
        PROVE  /\ g(r, i) \in Request
               /\ g(r, i).trx = q[r][i].trx /\ g(r, i).mode = q[r][i].mode
               /\ g(r, i).gap = q[r][i].gap
               /\ g(r, i).wait <=> q[r][i].wait /\ HasToWaitInQueue(q, r, i)
    <2> DEFINE b == HasToWaitInQueue(q, r, i)
    <2>1. q[r][i] \in Request
      BY QueueFacts
    <2>2. b \in BOOLEAN
      BY DEF HasToWaitInQueue
    <2> HIDE DEF b
    <2>3. q[r][i] \in [trx : Trx, mode : LockMode, gap : BOOLEAN, wait : BOOLEAN]
      BY <2>1 DEF Request
    <2>4. \A l \in [trx : Trx, mode : LockMode, gap : BOOLEAN, wait : BOOLEAN] :
             LET m == [l EXCEPT !.wait = @ /\ b] IN
             /\ m \in [trx : Trx, mode : LockMode, gap : BOOLEAN, wait : BOOLEAN]
             /\ m.trx = l.trx /\ m.mode = l.mode /\ m.gap = l.gap
             /\ m.wait <=> l.wait /\ b
      BY <2>2
    <2> QED
      BY <2>3, <2>4 DEF Request, b
  <1>2. \A r \in Rec : DOMAIN q[r] = 1 .. Len(q[r]) /\ Len(q[r]) \in Nat
    BY QueueFacts
  <1>3. \A r \in Rec : G[r] = [i \in 1 .. Len(q[r]) |-> g(r, i)]
    BY <1>2 DEF Grant
  <1> HIDE DEF g
  <1>4. \A r \in Rec : /\ G[r] \in Seq(Request) /\ Len(G[r]) = Len(q[r])
                       /\ \A i \in 1 .. Len(q[r]) : G[r][i] = g(r, i)
    <2> TAKE r \in Rec
    <2> DEFINE n == Len(q[r])
    <2>1. n \in Nat /\ G[r] = [i \in 1 .. n |-> g(r, i)] /\ \A i \in 1 .. n : g(r, i) \in Request
      BY <1>1, <1>2, <1>3
    <2> HIDE DEF n
    <2>2. [i \in 1 .. n |-> g(r, i)] \in Seq(Request) /\ Len([i \in 1 .. n |-> g(r, i)]) = n
      BY <2>1
    <2> HIDE DEF G
    <2>3. \A i \in 1 .. n : G[r][i] = g(r, i)
      BY <2>1
    <2> QED
      BY <2>1, <2>2, <2>3 DEF n
  <1>5. G = [r \in Rec |-> G[r]]
    BY DEF Grant
  <1> HIDE DEF G
  <1>6. G \in Queues
    BY <1>4, <1>5 DEF Queues
  <1>7. ASSUME NEW r \in Rec, NEW i \in 1 .. Len(q[r])
        PROVE  HasToWaitInQueue(G, r, i) <=> HasToWaitInQueue(q, r, i)
    <2>1. DOMAIN G[r] = 1 .. Len(q[r]) /\ DOMAIN q[r] = 1 .. Len(q[r])
      BY <1>2, <1>4, <1>6, QueueFacts
    <2>2. \A j \in 1 .. Len(q[r]) : G[r][j].trx = q[r][j].trx /\ G[r][j].mode = q[r][j].mode
      BY <1>1, <1>4
    <2> QED
      BY <2>1, <2>2 DEF HasToWaitInQueue, WaitsAt
  <1>8. \A r \in Rec : \A i \in 1 .. Len(q[r]) :
           /\ G[r][i].trx = q[r][i].trx /\ G[r][i].mode = q[r][i].mode
           /\ G[r][i].gap = q[r][i].gap
           /\ G[r][i].wait <=> q[r][i].wait /\ HasToWaitInQueue(G, r, i)
    BY <1>1, <1>4, <1>7
  <1> QED
    BY <1>4, <1>6, <1>7, <1>8 DEF G

LEMMA LeftFacts ==
  ASSUME NEW q \in Queues, NEW K
  PROVE  LET p == Grant([r \in Rec |-> SubList(q[r], K)]) IN
         p \in Queues /\ \A r \in Rec : \E h : Left(q, p, K, r, h)
  <1> DEFINE c == [r \in Rec |-> SubList(q[r], K)]
             p == Grant(c)
  <1>1. \A r \in Rec : c[r] = SubList(q[r], K) /\ c[r] \in Seq(Request)
    BY SubListFacts, QueueFacts
  <1>2. c \in Queues
    BY <1>1 DEF Queues
  <1>3. ASSUME NEW r \in Rec PROVE \E h : Left(q, p, K, r, h)
    <2>1. PICK h : Places(q[r], K, c[r], h)
      BY <1>1, QueueFacts, SubListPlaces
    <2> HIDE DEF c
    <2>2. /\ Len(p[r]) = Len(c[r])
          /\ \A i \in 1 .. Len(c[r]) :
               /\ p[r][i].trx = c[r][i].trx /\ p[r][i].mode = c[r][i].mode
               /\ p[r][i].gap = c[r][i].gap
               /\ p[r][i].wait <=> c[r][i].wait /\ HasToWaitInQueue(p, r, i)
      BY <1>2, GrantFacts
    <2> HIDE DEF p
    <2>3. Left(q, p, K, r, h)
      BY <2>1, <2>2 DEF Places, Left
    <2> QED
      BY <2>3
  <1>4. p \in Queues
    BY <1>2, GrantFacts
  <1> QED
    BY <1>3, <1>4

LEMMA Conflicts ==
  /\ \A m, n \in LockMode : Compatible(m, n) <=> Compatible(n, m)
  /\ \A m, n \in LockMode : StrongerOrEq(m, n) => StrongerOrEq(m, "S")
  /\ \A m \in LockMode : ~ Compatible("X", m) /\ StrongerOrEq(m, "S") /\ StrongerOrEq(m, m)
  /\ \A m, n \in LockMode : ~ Compatible(n, m) <=> StrongerOrEq(n, ConflictMode(m))
  /\ \A m \in LockMode : StrongerOrEq(m, "X") <=> m = "X"
  /\ \A m \in LockMode : ConflictMode(m) \in LockMode
  BY DEF Compatible, StrongerOrEq, LockMode, ConflictMode

(* What t had in q it still has in p, granted what was granted.              *)
KeepsAt(q, p, r, t) ==
  \A l \in Range(q[r]) : l.trx = t =>
    \E x \in Range(p[r]) : /\ x.trx = t /\ x.mode = l.mode /\ x.gap = l.gap
                           /\ ~l.wait => ~x.wait
Keeps(q, p, t) == \A r \in Rec : KeepsAt(q, p, r, t)

KeepsGranted(q, p, t) ==
  \A r \in Rec : \A l \in Range(q[r]) : l.trx = t /\ ~l.wait =>
    \E x \in Range(p[r]) : x.trx = t /\ x.mode = l.mode /\ x.gap = l.gap /\ ~x.wait

LEMMA LeftKeeps ==
  ASSUME NEW q \in Queues, NEW p \in Queues, NEW K, NEW t,
         \A r \in Rec : \E h : Left(q, p, K, r, h),
         \A r \in Rec : \A l \in Range(q[r]) : l.trx = t /\ ~l.wait => l \in K
  PROVE  KeepsGranted(q, p, t) /\ ((\A r \in Rec : \A l \in Range(q[r]) : l.trx = t => l \in K)
                                     => Keeps(q, p, t))
  <1>1. SUFFICES ASSUME NEW r \in Rec, NEW l \in Range(q[r]), l.trx = t, l \in K
                 PROVE  \E x \in Range(p[r]) : /\ x.trx = t /\ x.mode = l.mode /\ x.gap = l.gap
                                               /\ ~l.wait => ~x.wait
    BY DEF Keeps, KeepsAt, KeepsGranted
  <1>2. PICK h : Left(q, p, K, r, h)
    OBVIOUS
  <1>3. PICK i \in 1 .. Len(q[r]) : q[r][i] = l
    BY <1>1, QueueFacts
  <1>4. PICK j \in 1 .. Len(p[r]) : h[j] = i
    BY <1>1, <1>2, <1>3 DEF Left
  <1>5. p[r][j] \in Range(p[r])
    BY QueueFacts
  <1> QED
    BY <1>1, <1>2, <1>3, <1>4, <1>5 DEF Left

LEMMA LeftOrdered ==
  ASSUME NEW q \in Queues, NEW p \in Queues, NEW K, NEW r \in Rec, NEW h,
         Left(q, p, K, r, h), Ordered(q[r])
  PROVE  Ordered(p[r])
  <1>1. SUFFICES ASSUME NEW i \in 1 .. Len(p[r]), NEW j \in 1 .. Len(p[r]), j < i,
                        ~p[r][i].wait, ~p[r][i].gap, ~p[r][j].gap, p[r][j].trx # p[r][i].trx
                 PROVE  Compatible(p[r][i].mode, p[r][j].mode)
    BY QueueFacts DEF Ordered
  <1>2. /\ h[i] \in 1 .. Len(q[r]) /\ h[j] \in 1 .. Len(q[r]) /\ h[j] < h[i]
        /\ p[r][i].trx = q[r][h[i]].trx /\ p[r][i].mode = q[r][h[i]].mode
        /\ p[r][i].gap = q[r][h[i]].gap
        /\ p[r][j].trx = q[r][h[j]].trx /\ p[r][j].mode = q[r][h[j]].mode
        /\ p[r][j].gap = q[r][h[j]].gap
    BY <1>1 DEF Left
  <1>3. CASE q[r][h[i]].wait
    <2>1. ~ HasToWaitInQueue(p, r, i)
      BY <1>1, <1>3 DEF Left
    <2>2. j \in DOMAIN p[r]
      BY QueueFacts
    <2> QED
      BY <2>1, <2>2, <1>1 DEF HasToWaitInQueue, WaitsAt
  <1>4. CASE ~q[r][h[i]].wait
    <2>1. h[i] \in DOMAIN q[r] /\ h[j] \in DOMAIN q[r]
      BY <1>2, QueueFacts
    <2> QED
      BY <2>1, <1>1, <1>2, <1>4 DEF Ordered
  <1> QED
    BY <1>3, <1>4

(* Who waits behind the lock of the writer t goes on waiting.                *)
LEMMA LeftGuards ==
  ASSUME NEW q \in Queues, NEW p \in Queues, NEW K, NEW r \in Rec, NEW h, NEW t,
         Left(q, p, K, r, h), Ordered(q[r]), Guards(q[r], t),
         \A l \in Range(q[r]) : l.trx = t /\ ~l.wait => l \in K
  PROVE  Guards(p[r], t)
  <1>1. SUFFICES ASSUME NEW l \in Range(p[r]), l.trx # t, ~l.gap
                 PROVE  l.wait /\ \E x \in Range(p[r]) :
                                    x.trx = t /\ x.mode = "X" /\ ~x.wait /\ ~x.gap
    BY DEF Guards
  <1>2. PICK i \in 1 .. Len(p[r]) : p[r][i] = l
    BY QueueFacts
  <1> DEFINE s == q[r]
  <1>3. /\ h[i] \in 1 .. Len(s) /\ s[h[i]].trx # t /\ ~s[h[i]].gap
        /\ s[h[i]].mode = l.mode
    BY <1>1, <1>2 DEF Left
  <1>4. s[h[i]].wait /\ \E x \in Range(s) : x.trx = t /\ x.mode = "X" /\ ~x.wait /\ ~x.gap
    <2>1. s[h[i]] \in Range(s)
      BY <1>3, QueueFacts
    <2> QED
      BY <2>1, <1>3 DEF Guards
  <1>5. PICK k \in 1 .. Len(s) : s[k].trx = t /\ s[k].mode = "X" /\ ~s[k].wait /\ ~s[k].gap
    <2>1. PICK x \in Range(s) : x.trx = t /\ x.mode = "X" /\ ~x.wait /\ ~x.gap
      BY <1>4
    <2>2. PICK k \in 1 .. Len(s) : s[k] = x
      BY QueueFacts
    <2> QED
      BY <2>1, <2>2
  <1>6. s[k] \in K
    BY <1>5, QueueFacts
  <1>7. PICK j \in 1 .. Len(p[r]) : h[j] = k
    BY <1>6 DEF Left
  <1>8. l.mode \in LockMode
    BY <1>2, QueueFacts
  <1>9. k < h[i]
    <2>1. ~ (h[i] < k)
      <3>1. h[i] \in DOMAIN s /\ k \in DOMAIN s
        BY <1>3, QueueFacts
      <3> QED
        BY <3>1, <1>3, <1>5, <1>8, Conflicts DEF Ordered
    <2>2. Len(s) \in Nat
      BY QueueFacts
    <2> HIDE DEF s
    <2> QED
      BY <2>1, <2>2, <1>3, <1>5
  <1>10. j < i
    <2>1. Len(p[r]) \in Nat /\ Len(q[r]) \in Nat
      BY QueueFacts
    <2>2. ~ (i < j) /\ i # j
      BY <1>3, <1>5, <1>7, <1>9, <2>1 DEF Left
    <2> QED
      BY <2>1, <2>2
  <1>11. /\ p[r][j].trx = t /\ p[r][j].mode = "X" /\ ~p[r][j].wait /\ ~p[r][j].gap
    BY <1>5, <1>7 DEF Left
  <1>12. HasToWaitInQueue(p, r, i)
    <2>1. j \in DOMAIN p[r]
      BY QueueFacts
    <2>2. ~ Compatible(l.mode, "X")
      BY <1>8, Conflicts DEF LockMode
    <2> QED
      BY <2>1, <2>2, <1>1, <1>2, <1>10, <1>11 DEF HasToWaitInQueue, WaitsAt
  <1>13. l.wait
    BY <1>2, <1>4, <1>12 DEF Left
  <1>14. p[r][j] \in Range(p[r])
    BY QueueFacts
  <1> QED
    BY <1>11, <1>13, <1>14

LEMMA LeftWaits ==
  ASSUME NEW q \in Queues, NEW p \in Queues, NEW K,
         \A r \in Rec : \E h : Left(q, p, K, r, h)
  PROVE  /\ Caused(p)
         /\ WaitsOnce(q) => WaitsOnce(p)
         /\ \A u \in Trx : WaitsFor(p, u) \subseteq WaitsFor(q, u)
         /\ WaitersOf(p) \subseteq WaitersOf(q)
  <1>1. \A r \in Rec : DOMAIN p[r] = 1 .. Len(p[r]) /\ DOMAIN q[r] = 1 .. Len(q[r])
    BY QueueFacts
  <1>2. PICK H : \A r \in Rec : Left(q, p, K, r, H[r])
    <2> DEFINE F == [r \in Rec |-> CHOOSE h : Left(q, p, K, r, h)]
    <2>1. \A r \in Rec : F[r] = CHOOSE h : Left(q, p, K, r, h)
      OBVIOUS
    <2> HIDE DEF F
    <2>2. \A r \in Rec : Left(q, p, K, r, F[r])
      BY <2>1
    <2> QED
      BY <2>2
  <1>3. Caused(p)
    BY <1>1, <1>2 DEF Caused, Left
  <1>4. ASSUME WaitsOnce(q) PROVE WaitsOnce(p)
    <2>1. SUFFICES ASSUME NEW r \in Rec, NEW f \in Rec,
                          NEW i \in 1 .. Len(p[r]), NEW j \in 1 .. Len(p[f]),
                          p[r][i].wait, p[f][j].wait, p[r][i].trx = p[f][j].trx
                   PROVE  r = f /\ i = j
      BY <1>1 DEF WaitsOnce
    <2>2. /\ H[r][i] \in DOMAIN q[r] /\ H[f][j] \in DOMAIN q[f]
          /\ q[r][H[r][i]].wait /\ q[f][H[f][j]].wait
          /\ q[r][H[r][i]].trx = q[f][H[f][j]].trx
      BY <1>1, <1>2, <2>1 DEF Left
    <2>3. r = f /\ H[r][i] = H[r][j]
      BY <1>4, <2>2 DEF WaitsOnce
    <2>4. ~ (i < j) /\ ~ (j < i)
      <3>1. H[r][i] \in 1 .. Len(q[r]) /\ Len(q[r]) \in Nat
        BY <1>1, <2>2, QueueFacts
      <3> QED
        BY <1>2, <2>1, <2>3, <3>1 DEF Left
    <2> QED
      BY <2>3, <2>4
  <1>5. ASSUME NEW u \in Trx PROVE WaitsFor(p, u) \subseteq WaitsFor(q, u)
    <2>1. SUFFICES ASSUME NEW x \in Trx, NEW r \in Rec,
                          NEW i \in 1 .. Len(p[r]), NEW j \in 1 .. Len(p[r]),
                          p[r][i].trx = u, p[r][i].wait, WaitsAt(p, r, i, j), p[r][j].trx = x
                   PROVE  x \in WaitsFor(q, u)
      BY <1>1 DEF WaitsFor
    <2> DEFINE a == H[r][i]
               b == H[r][j]
    <2>2. /\ a \in DOMAIN q[r] /\ b \in DOMAIN q[r] /\ b < a
          /\ q[r][a].trx = u /\ q[r][a].wait /\ q[r][b].trx = x
          /\ q[r][a].mode = p[r][i].mode /\ q[r][b].mode = p[r][j].mode
      <3>1. Left(q, p, K, r, H[r])
        BY <1>2
      <3>2. i \in DOMAIN p[r] /\ j \in DOMAIN p[r] /\ j < i
        BY <2>1 DEF WaitsAt
      <3>3. /\ a \in 1 .. Len(q[r]) /\ q[r][a].trx = p[r][i].trx
            /\ q[r][a].mode = p[r][i].mode /\ q[r][a].wait
        BY <3>1, <2>1 DEF Left
      <3>4. /\ b \in 1 .. Len(q[r]) /\ q[r][b].trx = p[r][j].trx
            /\ q[r][b].mode = p[r][j].mode
        BY <3>1 DEF Left
      <3>5. b < a
        BY <3>1, <3>2 DEF Left
      <3> QED
        BY <1>1, <2>1, <3>3, <3>4, <3>5
    <2> HIDE DEF a, b
    <2>3. WaitsAt(q, r, a, b)
      BY <2>1, <2>2 DEF WaitsAt
    <2> QED
      BY <2>2, <2>3 DEF WaitsFor
  <1>6. WaitersOf(p) \subseteq WaitersOf(q)
    <2>1. SUFFICES ASSUME NEW x \in Trx, NEW r \in Rec, NEW l \in Range(p[r]), l.trx = x, l.wait
                   PROVE  x \in WaitersOf(q)
      BY DEF WaitersOf
    <2>2. PICK i \in 1 .. Len(p[r]) : p[r][i] = l
      BY QueueFacts
    <2>3. /\ H[r][i] \in 1 .. Len(q[r])
          /\ q[r][H[r][i]].trx = x /\ q[r][H[r][i]].wait
      BY <1>2, <2>1, <2>2 DEF Left
    <2>4. q[r][H[r][i]] \in Range(q[r])
      BY <2>3, QueueFacts
    <2> QED
      BY <2>3, <2>4 DEF WaitersOf
  <1> QED
    BY <1>3, <1>4, <1>5, <1>6

(* Requests are taken out, all of t or one that waits, and others let in.    *)
Thinned(q, K) == Grant([r \in Rec |-> SubList(q[r], K)])

(* The granted locks of those who still are writers are left.                *)
Spares(q, w, v, K) ==
  \A k \in Key, t \in Trx :
     v[k] = t => w[k] = t /\ \A l \in Range(q[k]) : l.trx = t /\ ~l.wait => l \in K

LEMMA LetGo ==
  ASSUME NEW q, NEW w, LockTable(q, w), NEW K, NEW v, Spares(q, w, v, K)
  PROVE  LET p == Thinned(q, K) IN
         /\ LockTable(p, v)
         /\ WaitersOf(p) \subseteq WaitersOf(q)
         /\ \A t : (\A r \in Rec : \A l \in Range(q[r]) : l.trx = t => l \in K) => Keeps(q, p, t)
         /\ \A t : (\A r \in Rec : \A l \in Range(q[r]) : l.trx = t /\ ~l.wait => l \in K)
                      => KeepsGranted(q, p, t)
         /\ \A r \in Rec : q[r] = <<>> => p[r] = <<>>
  <1> DEFINE p == Grant([r \in Rec |-> SubList(q[r], K)])
  <1>1. q \in Queues
    BY DEF LockTable
  <1>2. p \in Queues /\ \A r \in Rec : \E h : Left(q, p, K, r, h)
    BY <1>1, LeftFacts
  <1> HIDE DEF p
  <1>3. Caused(p) /\ WaitsOnce(p) /\ NoCircle(p) /\ WaitersOf(p) \subseteq WaitersOf(q)
    BY <1>1, <1>2, LeftWaits, NoNewCircle DEF LockTable
  <1>4. ASSUME NEW k \in Key
        PROVE  Ordered(p[k]) /\ \A t \in Trx : v[k] = t => Guards(p[k], t)
    <2>1. k \in Rec
      BY Sizes
    <2>2. PICK h : Left(q, p, K, k, h)
      BY <1>2, <2>1
    <2>3. Ordered(q[k]) /\ \A t \in Trx : v[k] = t => Guards(q[k], t)
      BY DEF LockTable, Spares
    <2>4. Ordered(p[k])
      BY <1>1, <1>2, <2>1, <2>2, <2>3, LeftOrdered
    <2>5. ASSUME NEW t \in Trx, v[k] = t PROVE Guards(p[k], t)
      BY <1>1, <1>2, <2>1, <2>2, <2>3, <2>5, LeftGuards DEF Spares
    <2> QED
      BY <2>4, <2>5
  <1>5. \A t : (\A r \in Rec : \A l \in Range(q[r]) : l.trx = t => l \in K) => Keeps(q, p, t)
    BY <1>1, <1>2, LeftKeeps
  <1>6. \A t : (\A r \in Rec : \A l \in Range(q[r]) : l.trx = t /\ ~l.wait => l \in K)
                 => KeepsGranted(q, p, t)
    BY <1>1, <1>2, LeftKeeps
  <1>7. ASSUME NEW r \in Rec, q[r] = <<>> PROVE p[r] = <<>>
    <2>1. PICK h : Left(q, p, K, r, h)
      BY <1>2
    <2>2. Len(q[r]) = 0 /\ p[r] \in Seq(Request) /\ Len(p[r]) \in Nat
      BY <1>2, <1>7, QueueFacts
    <2>3. Len(p[r]) = 0
      <3>1. 1 \notin 1 .. Len(p[r])
        BY <2>1, <2>2 DEF Left
      <3> QED
        BY <3>1, <2>2
    <2> QED
      BY <2>2, <2>3
  <1> QED
    BY <1>2, <1>3, <1>4, <1>5, <1>6, <1>7 DEF LockTable, p, Thinned

-----------------------------------------------------------------------------
(* A request more.                                                           *)

Longer(q, r, l) == [q EXCEPT ![r] = Append(@, l)]

LEMMA LongerFacts ==
  ASSUME NEW q \in Queues, NEW r \in Rec, NEW l \in Request
  PROVE  LET p == Longer(q, r, l) IN
         /\ p \in Queues
         /\ \A x \in Rec : x # r => p[x] = q[x]
         /\ Len(p[r]) = Len(q[r]) + 1 /\ p[r][Len(q[r]) + 1] = l
         /\ \A i \in 1 .. Len(q[r]) : p[r][i] = q[r][i]
         /\ 1 .. Len(p[r]) = (1 .. Len(q[r])) \cup {Len(q[r]) + 1}
         /\ Range(p[r]) = Range(q[r]) \cup {l}
         /\ \A x \in Rec : Range(q[x]) \subseteq Range(p[x])
         /\ \A t : Keeps(q, p, t)
  <1> DEFINE p == Longer(q, r, l)
             s == q[r]
  <1>1. s \in Seq(Request) /\ Len(s) \in Nat
    BY QueueFacts
  <1>2. /\ \A x \in Rec : x # r => p[x] = q[x]
        /\ p[r] = Append(s, l)
        /\ p = [x \in Rec |-> p[x]]
    BY DEF Longer, Queues
  <1> HIDE DEF p, s
  <1>3. /\ Append(s, l) \in Seq(Request) /\ Len(Append(s, l)) = Len(s) + 1
        /\ Append(s, l)[Len(s) + 1] = l
        /\ \A i \in 1 .. Len(s) : Append(s, l)[i] = s[i]
    BY <1>1
  <1>4. p \in Queues
    <2>1. \A x \in Rec : p[x] \in Seq(Request)
      BY <1>2, <1>3, QueueFacts
    <2> QED
      BY <2>1, <1>2 DEF Queues
  <1>5. 1 .. Len(p[r]) = (1 .. Len(s)) \cup {Len(s) + 1}
    BY <1>1, <1>2, <1>3
  <1>6. Range(p[r]) = Range(s) \cup {l}
    <2>1. Range(Append(s, l)) = Range(s) \cup {l}
      BY <1>1, AppendFacts
    <2> QED
      BY <2>1, <1>2
  <1>7. \A x \in Rec : Range(q[x]) \subseteq Range(p[x])
    BY <1>2, <1>6 DEF s
  <1>8. \A t : Keeps(q, p, t)
    BY <1>7 DEF Keeps, KeepsAt
  <1> QED
    BY <1>2, <1>3, <1>4, <1>5, <1>6, <1>7, <1>8 DEF s, p

LEMMA LongerRange ==
  ASSUME NEW q \in Queues, NEW r \in Rec, NEW l \in Request
  PROVE  Range(Longer(q, r, l)[r]) = Range(q[r]) \cup {l}
  <1>1. q[r] \in Seq(Request) /\ Longer(q, r, l)[r] = Append(q[r], l)
    BY QueueFacts DEF Longer, Queues
  <1>2. Range(Append(q[r], l)) = Range(q[r]) \cup {l}
    BY <1>1, AppendFacts
  <1> QED
    BY <1>1, <1>2

LEMMA LongerWaits ==
  ASSUME NEW q \in Queues, NEW r \in Rec, NEW l \in Request
  PROVE  LET p == Longer(q, r, l) IN
         /\ \A u \in Trx : u # l.trx \/ ~l.wait => WaitsFor(p, u) \subseteq WaitsFor(q, u)
         /\ WaitersOf(p) = WaitersOf(q) \cup (IF l.wait THEN {l.trx} ELSE {})
         /\ Caused(q) /\ (l.wait => \E x \in Range(q[r]) : x.trx # l.trx
                                                            /\ ~Compatible(l.mode, x.mode))
              => Caused(p)
         /\ WaitsOnce(q) /\ (l.wait => l.trx \notin WaitersOf(q)) => WaitsOnce(p)
  <1> DEFINE p == Longer(q, r, l)
             n == Len(q[r])
  <1>1. /\ p \in Queues /\ n \in Nat /\ l.trx \in Trx /\ l.wait \in BOOLEAN
        /\ \A x \in Rec : x # r => p[x] = q[x]
        /\ p[r][n + 1] = l
        /\ \A i \in 1 .. n : p[r][i] = q[r][i]
        /\ DOMAIN p[r] = (1 .. n) \cup {n + 1} /\ DOMAIN q[r] = 1 .. n
        /\ Range(p[r]) = Range(q[r]) \cup {l}
    <2>1. l.trx \in Trx /\ l.wait \in BOOLEAN
      BY DEF Request
    <2>2. p \in Queues
      BY LongerFacts
    <2>3. DOMAIN p[r] = 1 .. Len(p[r]) /\ DOMAIN q[r] = 1 .. n /\ n \in Nat
      BY <2>2, QueueFacts
    <2>4. /\ \A x \in Rec : x # r => p[x] = q[x]
          /\ p[r][n + 1] = l
          /\ \A i \in 1 .. n : p[r][i] = q[r][i]
          /\ 1 .. Len(p[r]) = (1 .. n) \cup {n + 1}
      BY LongerFacts
    <2>5. Range(p[r]) = Range(q[r]) \cup {l}
      BY LongerRange
    <2> HIDE DEF p, n
    <2> QED
      BY <2>1, <2>2, <2>3, <2>4, <2>5
  <1>2. \A x \in Rec : DOMAIN q[x] \subseteq Nat
    BY QueueFacts
  <1> HIDE DEF p, n
  <1>3. ASSUME NEW x \in Rec, NEW i \in DOMAIN p[x], NEW j \in DOMAIN p[x], WaitsAt(p, x, i, j),
               ~ (x = r /\ i = n + 1)
        PROVE  /\ i \in DOMAIN q[x] /\ j \in DOMAIN q[x] /\ WaitsAt(q, x, i, j)
               /\ q[x][i] = p[x][i] /\ q[x][j] = p[x][j]
    <2>1. CASE x # r
      BY <2>1, <1>1, <1>3 DEF WaitsAt
    <2>2. CASE x = r
      <3>1. i \in 1 .. n /\ j \in 1 .. n
        BY <2>2, <1>1, <1>3 DEF WaitsAt
      <3> QED
        BY <3>1, <2>2, <1>1, <1>3 DEF WaitsAt
    <2> QED
      BY <2>1, <2>2
  <1>4. ASSUME NEW u \in Trx, u # l.trx \/ ~l.wait PROVE WaitsFor(p, u) \subseteq WaitsFor(q, u)
    <2>1. SUFFICES ASSUME NEW y \in Trx, NEW x \in Rec, NEW i \in DOMAIN p[x], NEW j \in DOMAIN p[x],
                          p[x][i].trx = u, p[x][i].wait, WaitsAt(p, x, i, j), p[x][j].trx = y
                   PROVE  y \in WaitsFor(q, u)
      BY DEF WaitsFor
    <2>2. ~ (x = r /\ i = n + 1)
      BY <1>1, <1>4, <2>1
    <2>3. /\ i \in DOMAIN q[x] /\ j \in DOMAIN q[x] /\ WaitsAt(q, x, i, j)
          /\ q[x][i] = p[x][i] /\ q[x][j] = p[x][j]
      BY <1>3, <2>1, <2>2
    <2> QED
      BY <2>1, <2>3 DEF WaitsFor
  <1>5. WaitersOf(p) = WaitersOf(q) \cup (IF l.wait THEN {l.trx} ELSE {})
    <2>1. \A y \in Trx : (\E x \in Rec : \E e \in Range(p[x]) : e.trx = y /\ e.wait)
            <=> \/ \E x \in Rec : \E e \in Range(q[x]) : e.trx = y /\ e.wait
                \/ l.wait /\ y = l.trx
      BY <1>1
    <2> QED
      BY <2>1, <1>1 DEF WaitersOf
  <1>6. ASSUME Caused(q), l.wait => \E x \in Range(q[r]) : x.trx # l.trx
                                                            /\ ~Compatible(l.mode, x.mode)
        PROVE  Caused(p)
    <2>1. SUFFICES ASSUME NEW x \in Rec, NEW i \in DOMAIN p[x], p[x][i].wait
                   PROVE  \E j \in DOMAIN p[x] : WaitsAt(p, x, i, j)
      BY DEF Caused, HasToWaitInQueue
    <2>2. CASE x = r /\ i = n + 1
      <3>1. PICK y \in Range(q[r]) : y.trx # l.trx /\ ~Compatible(l.mode, y.mode)
        BY <2>1, <2>2, <1>1, <1>6
      <3>2. PICK j \in 1 .. n : q[r][j] = y
        BY QueueFacts DEF n
      <3>3. j \in DOMAIN p[r] /\ j < n + 1
        BY <1>1
      <3> QED
        BY <3>1, <3>2, <3>3, <2>2, <1>1 DEF WaitsAt
    <2>3. CASE ~ (x = r /\ i = n + 1)
      <3>1. i \in DOMAIN q[x] /\ q[x][i] = p[x][i]
        BY <2>1, <2>3, <1>1
      <3>2. PICK j \in DOMAIN q[x] : WaitsAt(q, x, i, j)
        BY <3>1, <2>1, <1>6 DEF Caused, HasToWaitInQueue
      <3>3. j \in DOMAIN p[x] /\ p[x][j] = q[x][j]
        BY <1>1
      <3> QED
        BY <3>1, <3>2, <3>3 DEF WaitsAt
    <2> QED
      BY <2>2, <2>3
  <1>7. ASSUME WaitsOnce(q), l.wait => l.trx \notin WaitersOf(q)
        PROVE  WaitsOnce(p)
    <2>1. SUFFICES ASSUME NEW x \in Rec, NEW y \in Rec, NEW i \in DOMAIN p[x], NEW j \in DOMAIN p[y],
                          p[x][i].wait, p[y][j].wait, p[x][i].trx = p[y][j].trx
                   PROVE  x = y /\ i = j
      BY DEF WaitsOnce
    <2>2. \A z \in Rec : \A k \in DOMAIN p[z] :
             \/ z = r /\ k = n + 1 /\ p[z][k] = l
             \/ k \in DOMAIN q[z] /\ q[z][k] = p[z][k]
      BY <1>1
    <2>3. \A z \in Rec : \A k \in DOMAIN q[z] : q[z][k].wait /\ l.wait => q[z][k].trx # l.trx
      <3> SUFFICES ASSUME NEW z \in Rec, NEW k \in DOMAIN q[z], q[z][k].wait, l.wait,
                          q[z][k].trx = l.trx
                   PROVE  FALSE
        OBVIOUS
      <3>1. q[z][k] \in Range(q[z])
        BY DEF Range
      <3> QED
        BY <3>1, <1>1, <1>7 DEF WaitersOf
    <2>4. CASE (x = r /\ i = n + 1) \/ (y = r /\ j = n + 1)
      BY <2>1, <2>2, <2>3, <2>4, <1>1
    <2>5. CASE ~ (x = r /\ i = n + 1) /\ ~ (y = r /\ j = n + 1)
      BY <2>1, <2>2, <2>5, <1>7 DEF WaitsOnce
    <2> QED
      BY <2>4, <2>5
  <1> QED
    BY <1>4, <1>5, <1>6, <1>7 DEF p

(* The order of a queue that gets a request at its end.                      *)
LEMMA LongerOrdered ==
  ASSUME NEW q \in Queues, NEW r \in Rec, NEW l \in Request, Ordered(q[r]),
         l.wait \/ l.gap \/ \A x \in Range(q[r]) :
                               x.trx # l.trx /\ ~x.gap => Compatible(l.mode, x.mode)
  PROVE  Ordered(Longer(q, r, l)[r])
  <1> DEFINE s == Longer(q, r, l)[r]
             n == Len(q[r])
  <1>1. /\ n \in Nat /\ DOMAIN s = (1 .. n) \cup {n + 1} /\ DOMAIN q[r] = 1 .. n
        /\ s[n + 1] = l /\ \A i \in 1 .. n : s[i] = q[r][i]
    <2>1. Longer(q, r, l) \in Queues
      BY LongerFacts
    <2>2. DOMAIN s = 1 .. Len(s) /\ DOMAIN q[r] = 1 .. n /\ n \in Nat
      BY <2>1, QueueFacts
    <2> QED
      BY <2>2, LongerFacts
  <1>2. \A i \in 1 .. n : q[r][i] \in Range(q[r])
    BY QueueFacts
  <1> HIDE DEF s, n
  <1>3. SUFFICES ASSUME NEW i \in DOMAIN s, NEW j \in DOMAIN s, j < i,
                        ~s[i].wait, ~s[i].gap, ~s[j].gap, s[j].trx # s[i].trx
                 PROVE  Compatible(s[i].mode, s[j].mode)
    BY DEF Ordered, s
  <1>4. j \in 1 .. n
    BY <1>1, <1>3
  <1>5. CASE i = n + 1
    BY <1>1, <1>2, <1>3, <1>4, <1>5
  <1>6. CASE i # n + 1
    BY <1>1, <1>3, <1>4, <1>6 DEF Ordered
  <1> QED
    BY <1>5, <1>6

(* A request that is granted at once: of the gap type, or fit for all the    *)
(* requests on the record and for its writer.                                *)
LEMMA AddGranted ==
  ASSUME NEW q \in Queues, NEW w, LockTable(q, w), NEW r \in Rec, NEW l \in Request, ~l.wait,
         r \in Key /\ ~l.gap =>
           /\ \A x \in Range(q[r]) : x.trx # l.trx /\ ~x.gap => Compatible(l.mode, x.mode)
           /\ \A t \in Trx : w[r] = t => t = l.trx
  PROVE  LockTable(Longer(q, r, l), w) /\ WaitersOf(Longer(q, r, l)) = WaitersOf(q)
  <1> DEFINE p == Longer(q, r, l)
  <1>1. q \in Queues
    BY DEF LockTable
  <1>5. p \in Queues /\ \A x \in Rec : x # r => p[x] = q[x]
    BY <1>1, LongerFacts
  <1>7. Range(p[r]) = Range(q[r]) \cup {l}
    BY <1>1, LongerRange
  <1>6. /\ \A u \in Trx : WaitsFor(p, u) \subseteq WaitsFor(q, u)
        /\ WaitersOf(p) = WaitersOf(q) /\ Caused(p) /\ WaitsOnce(p)
    BY <1>1, LongerWaits DEF LockTable
  <1>2. p \in Queues /\ Caused(p) /\ WaitsOnce(p) /\ NoCircle(p) /\ WaitersOf(p) = WaitersOf(q)
    BY <1>5, <1>6, NoNewCircle DEF LockTable
  <1>3. ASSUME NEW k \in Key
        PROVE  Ordered(p[k]) /\ \A t \in Trx : w[k] = t => Guards(p[k], t)
    <2>1. Ordered(q[k]) /\ \A t \in Trx : w[k] = t => Guards(q[k], t)
      BY DEF LockTable
    <2>2. CASE k # r
      BY <1>1, <2>1, <2>2, Sizes, LongerFacts
    <2>3. CASE k = r
      <3>1. Ordered(p[r])
        BY <1>1, <2>1, <2>3, LongerOrdered
      <3>2. Range(p[r]) = Range(q[r]) \cup {l}
        BY <1>7
      <3>3. \A t \in Trx : w[k] = t => Guards(p[r], t)
        BY <2>1, <2>3, <3>2 DEF Guards
      <3> QED
        BY <2>3, <3>1, <3>3
    <2> QED
      BY <2>2, <2>3
  <1> QED
    BY <1>2, <1>3 DEF LockTable

(* A request that waits: it has to, and no circle is found.                  *)
LEMMA AddWaiting ==
  ASSUME NEW q \in Queues, NEW w, LockTable(q, w), NEW r \in Rec, NEW l \in Request, l.wait,
         l.trx \notin WaitersOf(q), ~DeadlockOccurs(Longer(q, r, l), l.trx),
         \E x \in Range(q[r]) : x.trx # l.trx /\ ~Compatible(l.mode, x.mode),
         r \in Key /\ ~l.gap =>
           \A t \in Trx : w[r] = t /\ t # l.trx => HasExpl(q, "X", r, t)
  PROVE  /\ LockTable(Longer(q, r, l), w)
         /\ WaitersOf(Longer(q, r, l)) = WaitersOf(q) \cup {l.trx}
  <1> DEFINE p == Longer(q, r, l)
  <1>1. q \in Queues /\ l.trx \in Trx
    BY DEF LockTable, Request
  <1>5. p \in Queues /\ \A x \in Rec : x # r => p[x] = q[x]
    BY <1>1, LongerFacts
  <1>7. Range(p[r]) = Range(q[r]) \cup {l}
    BY <1>1, LongerRange
  <1>2. p \in Queues /\ Caused(p) /\ WaitsOnce(p) /\ WaitersOf(p) = WaitersOf(q) \cup {l.trx}
    BY <1>1, LongerFacts, LongerWaits DEF LockTable
  <1>3. NoCircle(p)
    <2>1. \A u \in Trx \ {l.trx} : WaitsFor(p, u) \subseteq WaitsFor(q, u)
      BY <1>1, LongerWaits
    <2>2. l.trx \notin Reached(p, l.trx) /\ NoCircle(q)
      BY DEF DeadlockOccurs, LockTable
    <2> QED
      BY <2>1, <2>2, <1>1, NewWaiter
  <1>4. ASSUME NEW k \in Key
        PROVE  Ordered(p[k]) /\ \A t \in Trx : w[k] = t => Guards(p[k], t)
    <2>1. Ordered(q[k]) /\ \A t \in Trx : w[k] = t => Guards(q[k], t)
      BY DEF LockTable
    <2>2. CASE k # r
      BY <1>1, <2>1, <2>2, Sizes, LongerFacts
    <2>3. CASE k = r
      <3>1. Ordered(p[r])
        BY <1>1, <2>1, <2>3, LongerOrdered
      <3>2. Range(p[r]) = Range(q[r]) \cup {l}
        BY <1>7
      <3>3. ASSUME NEW t \in Trx, w[k] = t, t # l.trx, ~l.gap
            PROVE  \E x \in Range(q[r]) : x.trx = t /\ x.mode = "X" /\ ~x.wait /\ ~x.gap
        <4>1. PICK x \in Range(q[r]) : x.trx = t /\ StrongerOrEq(x.mode, "X") /\ ~x.wait /\ NonGap(r, x)
          BY <2>3, <3>3 DEF HasExpl
        <4>2. x.mode \in LockMode
          <5>1. PICK i \in 1 .. Len(q[r]) : q[r][i] = x
            BY <1>1, <4>1, QueueFacts
          <5> QED
            BY <5>1, <1>1, QueueFacts
        <4> QED
          BY <4>1, <4>2, Conflicts DEF NonGap
      <3>4. \A t \in Trx : w[k] = t => Guards(p[r], t)
        BY <2>1, <2>3, <3>2, <3>3 DEF Guards
      <3> QED
        BY <2>3, <3>1, <3>4
    <2> QED
      BY <2>2, <2>3
  <1> QED
    BY <1>2, <1>3, <1>4 DEF LockTable


-----------------------------------------------------------------------------
(* What the operations of the lock table leave.                              *)

LEMMA KeepsTransitive ==
  ASSUME NEW q, NEW p, NEW s, NEW t, Keeps(q, p, t), Keeps(p, s, t)
  PROVE  Keeps(q, s, t)
  <1>1. SUFFICES ASSUME NEW r \in Rec, NEW l \in Range(q[r]), l.trx = t
                 PROVE  \E x \in Range(s[r]) : /\ x.trx = t /\ x.mode = l.mode /\ x.gap = l.gap
                                               /\ ~l.wait => ~x.wait
    BY DEF Keeps, KeepsAt
  <1>2. PICK y \in Range(p[r]) : /\ y.trx = t /\ y.mode = l.mode /\ y.gap = l.gap
                                 /\ ~l.wait => ~y.wait
    BY <1>1 DEF Keeps, KeepsAt
  <1>3. PICK x \in Range(s[r]) : /\ x.trx = t /\ x.mode = y.mode /\ x.gap = y.gap
                                 /\ ~y.wait => ~x.wait
    BY <1>2 DEF Keeps, KeepsAt
  <1> QED
    BY <1>2, <1>3

LEMMA KeepsAtFacts ==
  ASSUME NEW q, NEW p, NEW t, NEW r \in Rec, KeepsAt(q, p, r, t)
  PROVE  /\ \A m : HasExpl(q, m, r, t) => HasExpl(p, m, r, t)
         /\ HasGranted(q, r, t) => HasGranted(p, r, t)
         /\ Has(q, r, t) => Has(p, r, t)
  <1>1. \A l \in Range(q[r]) : l.trx = t =>
           \E x \in Range(p[r]) : /\ x.trx = t /\ x.mode = l.mode /\ x.gap = l.gap
                                  /\ ~l.wait => ~x.wait
    BY DEF KeepsAt
  <1>2. ASSUME NEW m, HasExpl(q, m, r, t) PROVE HasExpl(p, m, r, t)
    <2>1. PICK l \in Range(q[r]) : l.trx = t /\ StrongerOrEq(l.mode, m) /\ ~l.wait /\ NonGap(r, l)
      BY <1>2 DEF HasExpl
    <2>2. PICK x \in Range(p[r]) : /\ x.trx = t /\ x.mode = l.mode /\ x.gap = l.gap
                                   /\ ~l.wait => ~x.wait
      BY <1>1, <2>1
    <2> QED
      BY <2>1, <2>2 DEF HasExpl, NonGap
  <1>3. HasGranted(q, r, t) => HasGranted(p, r, t)
    BY <1>1 DEF HasGranted
  <1>4. Has(q, r, t) => Has(p, r, t)
    BY <1>1 DEF Has
  <1> QED
    BY <1>2, <1>3, <1>4

LEMMA KeepsFacts ==
  ASSUME NEW q, NEW p, NEW t, NEW r \in Rec, Keeps(q, p, t)
  PROVE  /\ \A m : HasExpl(q, m, r, t) => HasExpl(p, m, r, t)
         /\ HasGranted(q, r, t) => HasGranted(p, r, t)
         /\ Has(q, r, t) => Has(p, r, t)
  BY KeepsAtFacts DEF Keeps

LEMMA KeepsGrantedFacts ==
  ASSUME NEW q, NEW p, NEW t, NEW r \in Rec, KeepsGranted(q, p, t)
  PROVE  /\ \A m : HasExpl(q, m, r, t) => HasExpl(p, m, r, t)
         /\ HasGranted(q, r, t) => HasGranted(p, r, t)
  <1>1. \A l \in Range(q[r]) : l.trx = t /\ ~l.wait =>
           \E x \in Range(p[r]) : x.trx = t /\ x.mode = l.mode /\ x.gap = l.gap /\ ~x.wait
    BY DEF KeepsGranted
  <1>2. \A m : HasExpl(q, m, r, t) => HasExpl(p, m, r, t)
    BY <1>1 DEF HasExpl, NonGap
  <1>3. HasGranted(q, r, t) => HasGranted(p, r, t)
    BY <1>1 DEF HasGranted
  <1> QED
    BY <1>2, <1>3

(* A granted lock on a record, seen in its queue.                            *)
LEMMA ExplFacts ==
  ASSUME NEW q \in Queues, NEW k \in Key, NEW t, NEW m \in LockMode
  PROVE  /\ HasExpl(q, m, k, t) <=>
              \E x \in Range(q[k]) : x.trx = t /\ StrongerOrEq(x.mode, m) /\ ~x.wait /\ ~x.gap
         /\ HasExpl(q, m, k, t) => HasExpl(q, "S", k, t) /\ HasGranted(q, k, t)
         /\ HasExpl(q, "X", k, t) <=>
              \E x \in Range(q[k]) : x.trx = t /\ x.mode = "X" /\ ~x.wait /\ ~x.gap
  <1>1. k # Supremum /\ k \in Rec
    BY Sizes
  <1>2. HasExpl(q, m, k, t) <=>
          \E x \in Range(q[k]) : x.trx = t /\ StrongerOrEq(x.mode, m) /\ ~x.wait /\ ~x.gap
    BY <1>1 DEF HasExpl, NonGap
  <1>3. \A x \in Range(q[k]) : x.mode \in LockMode
    <2> TAKE x \in Range(q[k])
    <2>1. PICK i \in 1 .. Len(q[k]) : q[k][i] = x
      BY <1>1, QueueFacts
    <2> QED
      BY <2>1, <1>1, QueueFacts
  <1>4. HasExpl(q, m, k, t) => HasExpl(q, "S", k, t)
    BY <1>2, <1>3, Conflicts DEF HasExpl, NonGap
  <1>5. HasExpl(q, m, k, t) => HasGranted(q, k, t)
    BY DEF HasExpl, HasGranted
  <1>6. HasExpl(q, "X", k, t) <=>
          \E x \in Range(q[k]) : x.trx = t /\ x.mode = "X" /\ ~x.wait /\ ~x.gap
    BY <1>1, <1>3, Conflicts DEF HasExpl, NonGap
  <1> QED
    BY <1>2, <1>4, <1>5, <1>6

LEMMA RequestFacts ==
  ASSUME NEW q \in Queues, NEW r \in Rec, NEW x \in Range(q[r])
  PROVE  /\ x \in Request /\ x.trx \in Trx /\ x.mode \in LockMode
         /\ x.gap \in BOOLEAN /\ x.wait \in BOOLEAN
  <1>1. PICK i \in 1 .. Len(q[r]) : q[r][i] = x
    BY QueueFacts
  <1> QED
    BY <1>1, QueueFacts

(* A granted x-lock guards the record, and excludes the locks of others.     *)
LEMMA ExplExcludes ==
  ASSUME NEW q \in Queues, NEW k \in Key, NEW t, Ordered(q[k]), HasExpl(q, "X", k, t)
  PROVE  Guards(q[k], t)
  <1> DEFINE s == q[k]
  <1>1. PICK x \in Range(s) : x.trx = t /\ x.mode = "X" /\ ~x.wait /\ ~x.gap
    BY ExplFacts DEF LockMode
  <1>2. SUFFICES ASSUME NEW l \in Range(s), l.trx # t, ~l.gap, ~l.wait
                 PROVE  FALSE
    <2>1. \A l \in Range(s) : l.wait \in BOOLEAN
      BY Sizes, RequestFacts
    <2> QED
      BY <1>1, <2>1 DEF Guards
  <1>3. k \in Rec
    BY Sizes
  <1>4. PICK i \in 1 .. Len(s) : s[i] = x
    BY <1>3, QueueFacts
  <1>5. PICK j \in 1 .. Len(s) : s[j] = l
    BY <1>3, <1>2, QueueFacts
  <1>6. l.mode \in LockMode
    BY <1>3, <1>2, RequestFacts
  <1>7. ~ Compatible("X", l.mode) /\ ~ Compatible(l.mode, "X")
    BY <1>6, Conflicts DEF LockMode
  <1>8. DOMAIN s = 1 .. Len(s) /\ Len(s) \in Nat
    BY <1>3, QueueFacts
  <1> HIDE DEF s
  <1>9. i # j /\ (i < j \/ j < i)
    BY <1>1, <1>2, <1>4, <1>5, <1>8
  <1>10. Ordered(s)
    BY DEF s
  <1> QED
    BY <1>1, <1>2, <1>4, <1>5, <1>7, <1>8, <1>9, <1>10 DEF Ordered

LEMMA GuardsExclude ==
  ASSUME NEW q \in Queues, NEW k \in Key, NEW t, NEW u, t # u, Guards(q[k], t)
  PROVE  \A m \in LockMode : ~ HasExpl(q, m, k, u)
  BY ExplFacts DEF Guards

-----------------------------------------------------------------------------
(* The operations of the lock table.                                         *)

(* Nothing is in the way of a lock of t on the record r.                     *)
Fit(q, w, r, t, m) ==
  /\ \A x \in Range(q[r]) : x.trx # t /\ ~x.gap => Compatible(m, x.mode)
  /\ \A u \in Trx : w[r] = u => u = t

LEMMA AddFacts ==
  ASSUME NEW q \in Queues, NEW w, LockTable(q, w), NEW r \in Rec, NEW t \in Trx,
         NEW m \in LockMode, NEW gap \in BOOLEAN,
         gap \/ r \notin Key \/ Fit(q, w, r, t, m)
  PROVE  LET p == AddToQueue(q, r, t, m, gap) IN
         /\ LockTable(p, w) /\ WaitersOf(p) = WaitersOf(q) /\ \A u : Keeps(q, p, u)
         /\ \A x \in Rec : x # r => p[x] = q[x]
         /\ \A x \in Range(p[r]) : x \in Range(q[r]) \/ (gap /\ r \in Key => x.gap)
         /\ \E x \in Range(p[r]) : /\ x.trx = t /\ x.mode = m /\ ~x.wait
                                   /\ ~gap \/ r \notin Key => ~x.gap
  <1> DEFINE l == [trx |-> t, mode |-> m, gap |-> gap /\ r # Supremum, wait |-> FALSE]
             p == AddToQueue(q, r, t, m, gap)
  <1>1. /\ l \in Request /\ l.trx = t /\ l.mode = m /\ ~l.wait /\ (l.gap <=> gap /\ r # Supremum)
        /\ r \in Key <=> r # Supremum
    BY Sizes DEF Request
  <1>2. (p = q /\ l \in Range(q[r])) \/ p = Longer(q, r, l)
    BY DEF AddToQueue, Longer
  <1> HIDE DEF l, p
  <1>3. CASE p = q /\ l \in Range(q[r])
    <2>1. \A u : Keeps(q, q, u)
      BY DEF Keeps, KeepsAt
    <2> QED
      BY <2>1, <1>1, <1>3 DEF p
  <1>4. CASE p = Longer(q, r, l)
    <2>1. LockTable(p, w) /\ WaitersOf(p) = WaitersOf(q)
      <3>1. r \in Key /\ ~l.gap =>
              /\ \A x \in Range(q[r]) : x.trx # l.trx /\ ~x.gap => Compatible(l.mode, x.mode)
              /\ \A u \in Trx : w[r] = u => u = l.trx
        BY <1>1 DEF Fit
      <3> QED
        BY <3>1, <1>1, <1>4, AddGranted
    <2>2. (\A u : Keeps(q, p, u)) /\ \A x \in Rec : x # r => p[x] = q[x]
      BY <1>1, <1>4, LongerFacts
    <2>3. Range(p[r]) = Range(q[r]) \cup {l}
      BY <1>1, <1>4, LongerRange
    <2> QED
      BY <2>1, <2>2, <2>3, <1>1 DEF p
  <1> QED
    BY <1>2, <1>3, <1>4

(* The same, for a request that is not of the gap type.                      *)
LockAdded(q, r, t, m) == AddToQueue(q, r, t, m, FALSE)

LEMMA AddRecordLock ==
  ASSUME NEW q \in Queues, NEW w, LockTable(q, w), NEW r \in Rec, NEW t \in Trx,
         NEW m \in LockMode,
         r \in Key => \A x \in Range(q[r]) : x.trx # t /\ ~x.gap => Compatible(m, x.mode),
         r \in Key => \A u \in Trx : w[r] = u => u = t
  PROVE  LET p == LockAdded(q, r, t, m) IN
         /\ LockTable(p, w) /\ WaitersOf(p) = WaitersOf(q) /\ \A u : Keeps(q, p, u)
         /\ \A x \in Rec : x # r => p[x] = q[x]
         /\ \E x \in Range(p[r]) : x.trx = t /\ x.mode = m /\ ~x.wait /\ ~x.gap
  <1> DEFINE gap == FALSE
             p == AddToQueue(q, r, t, m, gap)
  <1>1. gap \in BOOLEAN /\ ~gap
    OBVIOUS
  <1>4. r \notin Key \/ Fit(q, w, r, t, m)
    BY DEF Fit
  <1> HIDE DEF gap
  <1>2. /\ LockTable(p, w) /\ WaitersOf(p) = WaitersOf(q) /\ \A u : Keeps(q, p, u)
        /\ \A x \in Rec : x # r => p[x] = q[x]
    BY <1>1, <1>4, AddFacts
  <1>3. \E x \in Range(p[r]) : x.trx = t /\ x.mode = m /\ ~x.wait /\ ~x.gap
    BY <1>1, <1>4, AddFacts
  <1> HIDE DEF p
  <1> QED
    BY <1>2, <1>3 DEF p, gap, LockAdded

(* What a lock request of t on r comes to.                                   *)
Outcome(q, res, w, r, t) ==
  /\ LockTable(res.queue, w)
  /\ \A u : Keeps(q, res.queue, u)
  /\ \A x \in Rec : x # r => res.queue[x] = q[x]
  /\ \/ res.err \in {"success", "deadlock"} /\ WaitersOf(res.queue) = WaitersOf(q)
     \/ /\ res.err = "lock_wait" /\ WaitersOf(res.queue) = WaitersOf(q) \cup {t}
        /\ Has(res.queue, r, t)

(* The lock of who has written the record r is in its queue.                 *)
Explicit(q, w, r) == r \in Key => \A u \in Trx : w[r] = u => HasExpl(q, "X", r, u)

LEMMA EnqueueFacts ==
  ASSUME NEW q \in Queues, NEW w, LockTable(q, w), NEW r \in Rec, NEW t \in Trx,
         NEW m \in LockMode, NEW gap \in BOOLEAN, t \notin WaitersOf(q),
         \E x \in Range(q[r]) : x.trx # t /\ ~Compatible(m, x.mode),
         gap \/ Explicit(q, w, r)
  PROVE  LET res == EnqueueWaiting(q, r, t, m, gap) IN
         Outcome(q, res, w, r, t) /\ res.err \in {"deadlock", "lock_wait"}
  <1> DEFINE l == [trx |-> t, mode |-> m, gap |-> gap /\ r # Supremum, wait |-> TRUE]
             new == [q EXCEPT ![r] = Append(@, l)]
             res == EnqueueWaiting(q, r, t, m, gap)
  <1>1. /\ l \in Request /\ l.trx = t /\ l.mode = m /\ l.wait /\ (l.gap <=> gap /\ r # Supremum)
        /\ r \in Key <=> r # Supremum
    BY Sizes DEF Request
  <1>2. new = Longer(q, r, l)
    BY DEF Longer
  <1>3. res = IF DeadlockOccurs(new, t) THEN [queue |-> q, err |-> "deadlock"]
                                        ELSE [queue |-> new, err |-> "lock_wait"]
    BY DEF EnqueueWaiting
  <1> HIDE DEF l, new, res
  <1>4. CASE DeadlockOccurs(new, t)
    <2>1. res.queue = q /\ res.err = "deadlock"
      BY <1>3, <1>4
    <2>2. \A u : Keeps(q, q, u)
      BY DEF Keeps, KeepsAt
    <2> QED
      BY <2>1, <2>2 DEF Outcome, res
  <1>5. CASE ~DeadlockOccurs(new, t)
    <2>1. res.queue = new /\ res.err = "lock_wait"
      BY <1>3, <1>5
    <2>2. r \in Key /\ ~l.gap =>
            \A u \in Trx : w[r] = u /\ u # l.trx => HasExpl(q, "X", r, u)
      BY <1>1 DEF Explicit
    <2>3. LockTable(new, w) /\ WaitersOf(new) = WaitersOf(q) \cup {l.trx}
      BY <1>1, <1>2, <1>5, <2>2, AddWaiting
    <2>4. (\A u : Keeps(q, new, u)) /\ \A x \in Rec : x # r => new[x] = q[x]
      BY <1>1, <1>2, LongerFacts
    <2>5. l \in Range(new[r])
      BY <1>1, <1>2, LongerRange
    <2>6. Has(new, r, t)
      BY <1>1, <2>5 DEF Has
    <2> QED
      BY <2>1, <2>3, <2>4, <2>6, <1>1 DEF Outcome, res
  <1> QED
    BY <1>4, <1>5

(* lock_rec_lock(): the lock is there when it succeeds, or with impl nothing *)
(* is in its way.                                                            *)
LEMMA RecLockFacts ==
  ASSUME NEW q \in Queues, NEW w, LockTable(q, w), NEW r \in Rec, NEW t \in Trx,
         NEW m \in LockMode, NEW impl \in BOOLEAN, t \notin WaitersOf(q), Explicit(q, w, r)
  PROVE  LET res == RecLock(q, impl, m, r, t) IN
         /\ Outcome(q, res, w, r, t)
         /\ res.err = "success" /\ ~impl =>
              HasGranted(res.queue, r, t) /\ (r \in Key => HasExpl(res.queue, m, r, t))
         /\ res.err = "success" /\ impl /\ r \in Key =>
              \/ HasExpl(res.queue, m, r, t)
              \/ /\ res.queue = q
                 /\ \A x \in Range(q[r]) : x.trx # t /\ ~x.gap => Compatible(m, x.mode)
  <1> DEFINE res == RecLock(q, impl, m, r, t)
             added == LockAdded(q, r, t, m)
             enq == EnqueueWaiting(q, r, t, m, FALSE)
             other == OtherHasExplReq(q, ConflictMode(m), FALSE, r, t)
  <1>1. \A u : Keeps(q, q, u)
    BY DEF Keeps, KeepsAt
  <1>2. \A x \in Range(q[r]) : x.mode \in LockMode
    BY RequestFacts
  <1>3. other <=> \E x \in Range(q[r]) : x.trx # t /\ NonGap(r, x) /\ ~Compatible(m, x.mode)
    BY <1>2, Conflicts DEF OtherHasExplReq
  <1>4. r \in Key <=> r # Supremum
    BY Sizes
  <1>5. CASE HasExpl(q, m, r, t)
    <2>1. res.queue = q /\ res.err = "success"
      BY <1>5 DEF RecLock
    <2>2. HasGranted(q, r, t)
      BY <1>5 DEF HasExpl, HasGranted
    <2> HIDE DEF res
    <2> QED
      BY <2>1, <2>2, <1>1, <1>5 DEF Outcome, res
  <1>6. CASE ~HasExpl(q, m, r, t) /\ other
    <2>1. res = enq
      BY <1>6 DEF RecLock
    <2>2. Outcome(q, enq, w, r, t) /\ enq.err \in {"deadlock", "lock_wait"}
      BY <1>3, <1>6, EnqueueFacts
    <2> HIDE DEF enq, res
    <2> QED
      BY <2>1, <2>2 DEF res
  <1>7. CASE ~HasExpl(q, m, r, t) /\ ~other
    <2>1. res = [queue |-> IF impl THEN q ELSE added, err |-> "success"]
      BY <1>7 DEF RecLock, LockAdded
    <2>2. r \in Key => \A x \in Range(q[r]) : x.trx # t /\ ~x.gap => Compatible(m, x.mode)
      BY <1>3, <1>4, <1>7 DEF NonGap
    <2>3. r \in Key => \A u \in Trx : w[r] = u => u = t
      <3>1. SUFFICES ASSUME r \in Key, NEW u \in Trx, w[r] = u, u # t PROVE FALSE
        OBVIOUS
      <3>2. HasExpl(q, "X", r, u)
        BY <3>1 DEF Explicit
      <3>3. PICK x \in Range(q[r]) : x.trx = u /\ x.mode = "X" /\ ~x.gap
        BY <3>1, <3>2, ExplFacts DEF LockMode
      <3>4. ~ Compatible(m, "X")
        BY Conflicts DEF LockMode
      <3> QED
        BY <2>2, <3>1, <3>3, <3>4
    <2>4. LockTable(added, w) /\ WaitersOf(added) = WaitersOf(q) /\ \A u : Keeps(q, added, u)
      BY <2>2, <2>3, AddRecordLock
    <2>5. \A x \in Rec : x # r => added[x] = q[x]
      BY <2>2, <2>3, AddRecordLock
    <2>6. \E x \in Range(added[r]) : x.trx = t /\ x.mode = m /\ ~x.wait /\ ~x.gap
      BY <2>2, <2>3, AddRecordLock
    <2>7. HasGranted(added, r, t)
      BY <2>6 DEF HasGranted
    <2>8. r \in Key => HasExpl(added, m, r, t)
      BY <2>6, <1>4, Conflicts DEF HasExpl, NonGap
    <2> HIDE DEF added, res
    <2>9. CASE impl
      <3>1. res.queue = q /\ res.err = "success"
        BY <2>1, <2>9
      <3> QED
        BY <3>1, <2>2, <2>9, <1>1 DEF Outcome, res
    <2>10. CASE ~impl
      <3>1. res.queue = added /\ res.err = "success"
        BY <2>1, <2>10
      <3> QED
        BY <3>1, <2>4, <2>5, <2>7, <2>8, <2>10 DEF Outcome, res
    <2> QED
      BY <2>9, <2>10
  <1> QED
    BY <1>5, <1>6, <1>7

LEMMA ConvertFacts ==
  ASSUME NEW q \in Queues, LockTable(q, writer), NEW r \in Rec,
         writer \in [Key -> Trx \cup {NoTrx}]
  PROVE  LET p == ConvertImplToExpl(q, r) IN
         /\ p \in Queues /\ LockTable(p, writer) /\ WaitersOf(p) = WaitersOf(q)
         /\ \A u : Keeps(q, p, u)
         /\ \A x \in Rec : x # r => p[x] = q[x]
         /\ Explicit(p, writer, r)
  <1> DEFINE p == ConvertImplToExpl(q, r)
             added == LockAdded(q, r, writer[r], "X")
  <1>1. r \in Key <=> r # Supremum
    BY Sizes
  <1>2. CASE r # Supremum /\ writer[r] # NoTrx /\ ~HasExpl(q, "X", r, writer[r])
    <2> DEFINE t == writer[r]
    <2>1. p = added
      BY <1>2 DEF ConvertImplToExpl, LockAdded
    <2>2. r \in Key /\ t \in Trx /\ "X" \in LockMode
      BY <1>1, <1>2 DEF LockMode
    <2>3. Guards(q[r], t)
      BY <2>2 DEF LockTable
    <2>4. \A x \in Range(q[r]) : x.trx # t => x.gap
      <3>1. ~ \E x \in Range(q[r]) : x.trx = t /\ x.mode = "X" /\ ~x.wait /\ ~x.gap
        BY <1>2, <2>2, ExplFacts
      <3> QED
        BY <2>3, <3>1 DEF Guards
    <2>5. LockTable(added, writer) /\ WaitersOf(added) = WaitersOf(q) /\ \A u : Keeps(q, added, u)
      BY <2>2, <2>4, AddRecordLock
    <2>6. \A x \in Rec : x # r => added[x] = q[x]
      BY <2>2, <2>4, AddRecordLock
    <2>7. \E x \in Range(added[r]) : x.trx = t /\ x.mode = "X" /\ ~x.wait /\ ~x.gap
      BY <2>2, <2>4, AddRecordLock
    <2>8. HasExpl(added, "X", r, t)
      BY <2>7, <1>2, Conflicts DEF HasExpl, NonGap, StrongerOrEq
    <2>9. added \in Queues
      BY <2>5 DEF LockTable
    <2> HIDE DEF added, p
    <2>10. Explicit(added, writer, r)
      BY <2>8 DEF Explicit
    <2> QED
      BY <2>1, <2>5, <2>6, <2>9, <2>10 DEF p
  <1>3. CASE ~ (r # Supremum /\ writer[r] # NoTrx /\ ~HasExpl(q, "X", r, writer[r]))
    <2>1. p = q
      BY <1>3 DEF ConvertImplToExpl
    <2>2. \A u : Keeps(q, q, u)
      BY DEF Keeps, KeepsAt
    <2>3. Explicit(q, writer, r)
      BY <1>1, <1>3, Sizes DEF Explicit
    <2> HIDE DEF p
    <2> QED
      BY <2>1, <2>2, <2>3 DEF p
  <1> QED
    BY <1>2, <1>3

LEMMA OutcomeAfter ==
  ASSUME NEW q, NEW p, NEW res, NEW w, NEW r \in Rec, NEW t, Outcome(p, res, w, r, t),
         \A u : Keeps(q, p, u), \A x \in Rec : x # r => p[x] = q[x], WaitersOf(p) = WaitersOf(q)
  PROVE  Outcome(q, res, w, r, t)
  <1>1. \A u : Keeps(q, res.queue, u)
    BY KeepsTransitive DEF Outcome
  <1> QED
    BY <1>1 DEF Outcome

LEMMA ReadCheckFacts ==
  ASSUME NEW q \in Queues, LockTable(q, writer), NEW r \in Rec, NEW t \in Trx, NEW m \in LockMode,
         writer \in [Key -> Trx \cup {NoTrx}], t \notin WaitersOf(q)
  PROVE  LET res == ReadCheckAndLock(q, m, r, t) IN
         /\ Outcome(q, res, writer, r, t)
         /\ res.err = "success" =>
              HasGranted(res.queue, r, t) /\ (r \in Key => HasExpl(res.queue, m, r, t))
  <1> DEFINE p == ConvertImplToExpl(q, r)
             res == RecLock(p, FALSE, m, r, t)
  <1>1. /\ p \in Queues /\ LockTable(p, writer) /\ WaitersOf(p) = WaitersOf(q)
        /\ \A u : Keeps(q, p, u)
        /\ \A x \in Rec : x # r => p[x] = q[x]
        /\ Explicit(p, writer, r)
    BY ConvertFacts
  <1>2. ReadCheckAndLock(q, m, r, t) = res
    BY DEF ReadCheckAndLock
  <1> HIDE DEF p
  <1>3. /\ Outcome(p, res, writer, r, t)
        /\ res.err = "success" =>
             HasGranted(res.queue, r, t) /\ (r \in Key => HasExpl(res.queue, m, r, t))
    BY <1>1, RecLockFacts
  <1> HIDE DEF res
  <1>4. Outcome(q, res, writer, r, t)
    BY <1>1, <1>3, OutcomeAfter
  <1> QED
    BY <1>2, <1>3, <1>4

(* What is fit for x-locking the record k that nobody else has written.      *)
Free(q, k, t) ==
  \/ HasExpl(q, "X", k, t)
  \/ \A x \in Range(q[k]) : x.trx # t => x.gap

LEMMA ModifyCheckFacts ==
  ASSUME NEW q \in Queues, LockTable(q, writer), NEW k \in Key, NEW t \in Trx,
         writer \in [Key -> Trx \cup {NoTrx}], t \notin WaitersOf(q)
  PROVE  LET res == ModifyCheckAndLock(q, k, t) IN
         /\ Outcome(q, res, writer, k, t)
         /\ res.err = "success" => Free(res.queue, k, t)
  <1> DEFINE p == ConvertImplToExpl(q, k)
             res == RecLock(p, TRUE, "X", k, t)
  <1>1. k \in Rec
    BY Sizes
  <1>2. /\ p \in Queues /\ LockTable(p, writer) /\ WaitersOf(p) = WaitersOf(q)
        /\ \A u : Keeps(q, p, u)
        /\ \A x \in Rec : x # k => p[x] = q[x]
        /\ Explicit(p, writer, k)
    BY <1>1, ConvertFacts
  <1>3. ModifyCheckAndLock(q, k, t) = res
    BY DEF ModifyCheckAndLock
  <1> HIDE DEF p
  <1>4. /\ Outcome(p, res, writer, k, t)
        /\ res.err = "success" =>
              \/ HasExpl(res.queue, "X", k, t)
              \/ /\ res.queue = p
                 /\ \A x \in Range(p[k]) : x.trx # t /\ ~x.gap => Compatible("X", x.mode)
    BY <1>1, <1>2, RecLockFacts DEF LockMode
  <1> HIDE DEF res
  <1>5. Outcome(q, res, writer, k, t)
    BY <1>1, <1>2, <1>4, OutcomeAfter
  <1>6. \A x \in Range(p[k]) : x.mode \in LockMode /\ x.gap \in BOOLEAN
    BY <1>1, <1>2, RequestFacts
  <1>7. res.err = "success" => Free(res.queue, k, t)
    BY <1>4, <1>6, Conflicts DEF Free
  <1> QED
    BY <1>3, <1>5, <1>7

LEMMA InsertCheckFacts ==
  ASSUME NEW q \in Queues, NEW w, LockTable(q, w), NEW r \in Rec, NEW t \in Trx,
         t \notin WaitersOf(q)
  PROVE  LET res == InsertCheckAndLock(q, r, t) IN
         /\ Outcome(q, res, w, r, t)
         /\ res.err = "success" => res.queue = q /\ \A x \in Range(q[r]) : x.trx = t
  <1> DEFINE res == InsertCheckAndLock(q, r, t)
             enq == EnqueueWaiting(q, r, t, "X", TRUE)
             other == OtherHasExplReq(q, "S", TRUE, r, t)
  <1>1. other <=> \E x \in Range(q[r]) : x.trx # t
    BY Conflicts DEF OtherHasExplReq, StrongerOrEq
  <1>2. CASE other
    <2>1. \E x \in Range(q[r]) : x.trx # t /\ ~Compatible("X", x.mode)
      BY <1>1, <1>2 DEF Compatible
    <2>2. res = enq
      BY <1>2 DEF InsertCheckAndLock
    <2>3. Outcome(q, enq, w, r, t) /\ enq.err \in {"deadlock", "lock_wait"}
      BY <2>1, EnqueueFacts DEF LockMode
    <2> HIDE DEF enq, res
    <2> QED
      BY <2>2, <2>3 DEF res
  <1>3. CASE ~other
    <2>1. res.queue = q /\ res.err = "success"
      BY <1>3 DEF InsertCheckAndLock
    <2>2. \A u : Keeps(q, q, u)
      BY DEF Keeps, KeepsAt
    <2> HIDE DEF res
    <2> QED
      BY <2>1, <2>2, <1>1, <1>3 DEF Outcome, res
  <1> QED
    BY <1>2, <1>3

-----------------------------------------------------------------------------
(* Locks that are inherited.                                                 *)

GapAdded(q, heir, l) == AddToQueue(q, heir, l.trx, l.mode, TRUE)

Inherits(f, q, heir, s, m) ==
  /\ f[0] = q
  /\ \A n \in 1 .. m : f[n] = GapAdded(f[n-1], heir, s[n])

InheritsUpTo(q, heir, s, c) ==
  \E f : f = [n \in 0 .. c |-> IF n = 0 THEN q ELSE GapAdded(f[n-1], heir, s[n])]

(* The function that AddGapLocks recurses with.                              *)
LEMMA InheritExists ==
  ASSUME NEW q, NEW heir, NEW s, NEW c \in Nat
  PROVE  InheritsUpTo(q, heir, s, c)
  <1> DEFINE P(m) == \E f : Inherits(f, q, heir, s, m)
             T == {m \in Nat : ~ P(m)}
  <1>1. T = {}
    <2> SUFFICES ASSUME T # {} PROVE FALSE
      OBVIOUS
    <2>1. PICK m \in T : \A k \in T : m <= k
      BY Least
    <2>2. m # 0
      <3>1. Inherits([n \in {0} |-> q], q, heir, s, 0)
        BY DEF Inherits
      <3> QED
        BY <3>1
    <2>3. m - 1 \in Nat /\ m - 1 \notin T
      BY <2>1, <2>2
    <2>4. PICK g : Inherits(g, q, heir, s, m - 1)
      BY <2>3
    <2> DEFINE h == [n \in 0 .. m |-> IF n < m THEN g[n] ELSE GapAdded(g[m-1], heir, s[m])]
    <2>5. \A n \in 0 .. (m-1) : h[n] = g[n]
      BY <2>1
    <2>6. h[m] = GapAdded(g[m-1], heir, s[m])
      BY <2>1
    <2> HIDE DEF h
    <2>7. ASSUME NEW n \in 1 .. m
          PROVE  h[n] = GapAdded(h[n-1], heir, s[n])
      <3>1. h[n-1] = g[n-1]
        BY <2>1, <2>5
      <3>2. CASE n = m
        BY <3>1, <3>2, <2>6
      <3>3. CASE n # m
        <4>1. n \in 1 .. (m-1) /\ n \in 0 .. (m-1)
          BY <2>1, <3>3
        <4> QED
          BY <4>1, <3>1, <2>4, <2>5 DEF Inherits
      <3> QED
        BY <3>2, <3>3
    <2>8. h[0] = q
      BY <2>1, <2>2, <2>4, <2>5 DEF Inherits
    <2> QED
      BY <2>1, <2>7, <2>8 DEF Inherits
  <1>2. PICK f : Inherits(f, q, heir, s, c)
    BY <1>1
  <1> DEFINE h == [n \in 0 .. c |-> f[n]]
  <1>3. \A n \in 1 .. c : h[n-1] = f[n-1]
    OBVIOUS
  <1>4. h = [n \in 0 .. c |-> IF n = 0 THEN q ELSE GapAdded(h[n-1], heir, s[n])]
    <2>1. ASSUME NEW n \in 0 .. c
          PROVE  f[n] = IF n = 0 THEN q ELSE GapAdded(h[n-1], heir, s[n])
      <3>1. n # 0 => n \in 1 .. c
        OBVIOUS
      <3> HIDE DEF h
      <3> QED
        BY <3>1, <1>2, <1>3 DEF Inherits
    <2> QED
      BY <2>1
  <1> HIDE DEF h
  <1> QED
    BY <1>4 DEF InheritsUpTo

LEMMA InheritSteps ==
  ASSUME NEW q, NEW heir, NEW s, Len(s) \in Nat
  PROVE  \E f : Inherits(f, q, heir, s, Len(s)) /\ AddGapLocks(q, heir, s) = f[Len(s)]
  <1> DEFINE c == Len(s)
             body(g) == [n \in 0 .. c |-> IF n = 0 THEN q ELSE GapAdded(g[n-1], heir, s[n])]
             f == CHOOSE g : g = body(g)
  <1>1. c \in Nat
    OBVIOUS
  <1>2. AddGapLocks(q, heir, s) = f[c]
    BY DEF AddGapLocks, GapAdded
  <1> HIDE DEF c
  <1>3. f = body(f)
    <2>1. \E g : g = body(g)
      <3>1. InheritsUpTo(q, heir, s, c)
        BY <1>1, InheritExists
      <3> QED
        BY <3>1 DEF InheritsUpTo
    <2> QED
      BY <2>1
  <1> HIDE DEF f
  <1>4. f[0] = q
    BY <1>1, <1>3
  <1>5. \A n \in 1 .. c : f[n] = GapAdded(f[n-1], heir, s[n])
    <2> TAKE n \in 1 .. c
    <2>1. n \in 0 .. c /\ n # 0
      BY <1>1
    <2> QED
      BY <2>1, <1>3
  <1> QED
    BY <1>2, <1>4, <1>5 DEF Inherits, c

GapLockAdded(q, r, t, m) == AddToQueue(q, r, t, m, TRUE)

LEMMA AddGapLock ==
  ASSUME NEW q \in Queues, NEW w, LockTable(q, w), NEW r \in Rec, NEW t \in Trx,
         NEW m \in LockMode
  PROVE  LET p == GapLockAdded(q, r, t, m) IN
         /\ LockTable(p, w) /\ WaitersOf(p) = WaitersOf(q) /\ \A u : Keeps(q, p, u)
         /\ \A x \in Rec : x # r => p[x] = q[x]
         /\ \A x \in Range(p[r]) : x \in Range(q[r]) \/ (r \in Key => x.gap)
         /\ \E x \in Range(p[r]) : x.trx = t /\ ~x.wait
  <1> DEFINE gap == TRUE
             p == AddToQueue(q, r, t, m, gap)
  <1>1. gap \in BOOLEAN
    OBVIOUS
  <1>6. gap \/ r \notin Key \/ Fit(q, w, r, t, m)
    OBVIOUS
  <1> HIDE DEF gap
  <1>2. LockTable(p, w) /\ WaitersOf(p) = WaitersOf(q) /\ \A u : Keeps(q, p, u)
    BY <1>1, <1>6, AddFacts
  <1>3. \A x \in Rec : x # r => p[x] = q[x]
    BY <1>1, <1>6, AddFacts
  <1>4. \A x \in Range(p[r]) : x \in Range(q[r]) \/ (r \in Key => x.gap)
    <2>1. \A x \in Range(p[r]) : x \in Range(q[r]) \/ (gap /\ r \in Key => x.gap)
      BY <1>1, <1>6, AddFacts
    <2> QED
      BY <2>1 DEF gap
  <1>5. \E x \in Range(p[r]) : x.trx = t /\ ~x.wait
    BY <1>1, <1>6, AddFacts
  <1> HIDE DEF p
  <1> QED
    BY <1>2, <1>3, <1>4, <1>5 DEF p, gap, GapLockAdded

LEMMA GapAddedFacts ==
  ASSUME NEW q \in Queues, NEW w, LockTable(q, w), NEW r \in Rec, NEW l \in Request
  PROVE  LET p == GapAdded(q, r, l) IN
         /\ p \in Queues /\ LockTable(p, w) /\ WaitersOf(p) = WaitersOf(q)
         /\ \A u : Keeps(q, p, u)
         /\ \A x \in Rec : x # r => p[x] = q[x]
         /\ \A x \in Range(p[r]) : x \in Range(q[r]) \/ (r \in Key => x.gap)
         /\ HasGranted(p, r, l.trx)
  <1> DEFINE p == GapLockAdded(q, r, l.trx, l.mode)
  <1>1. l.trx \in Trx /\ l.mode \in LockMode
    BY DEF Request
  <1>2. /\ LockTable(p, w) /\ WaitersOf(p) = WaitersOf(q) /\ \A u : Keeps(q, p, u)
        /\ \A x \in Rec : x # r => p[x] = q[x]
        /\ \A x \in Range(p[r]) : x \in Range(q[r]) \/ (r \in Key => x.gap)
        /\ \E x \in Range(p[r]) : x.trx = l.trx /\ ~x.wait
    BY <1>1, AddGapLock
  <1>3. p = GapAdded(q, r, l)
    BY DEF GapAdded, GapLockAdded
  <1> HIDE DEF p
  <1> QED
    BY <1>2, <1>3 DEF LockTable, HasGranted

(* The queue of heir gets gap locks, one at least of each transaction of s.  *)
Inherited(q, p, w, heir, s, n) ==
  /\ p \in Queues /\ LockTable(p, w) /\ WaitersOf(p) = WaitersOf(q)
  /\ \A u : Keeps(q, p, u)
  /\ \A x \in Rec : x # heir => p[x] = q[x]
  /\ \A x \in Range(p[heir]) : x \in Range(q[heir]) \/ (heir \in Key => x.gap)
  /\ \A i \in 1 .. n : HasGranted(p, heir, s[i].trx)

LEMMA InheritFacts ==
  ASSUME NEW q \in Queues, NEW w, LockTable(q, w), NEW heir \in Rec, NEW s \in Seq(Request)
  PROVE  Inherited(q, AddGapLocks(q, heir, s), w, heir, s, Len(s))
  <1> DEFINE c == Len(s)
  <1>1. c \in Nat /\ \A i \in 1 .. c : s[i] \in Request
    OBVIOUS
  <1>2. PICK f : Inherits(f, q, heir, s, c) /\ AddGapLocks(q, heir, s) = f[c]
    BY InheritSteps
  <1> HIDE DEF c
  <1> DEFINE T == {n \in Nat : n <= c /\ ~ Inherited(q, f[n], w, heir, s, n)}
  <1>3. T = {}
    <2> SUFFICES ASSUME T # {} PROVE FALSE
      OBVIOUS
    <2>1. PICK n \in T : \A k \in T : n <= k
      BY Least
    <2>2. n # 0
      <3>1. f[0] = q
        BY <1>2 DEF Inherits
      <3>2. \A u : Keeps(q, q, u)
        BY DEF Keeps, KeepsAt
      <3>3. Inherited(q, q, w, heir, s, 0)
        BY <3>2 DEF Inherited
      <3> QED
        BY <3>1, <3>3
    <2>3. n \in 1 .. c /\ n - 1 \in Nat /\ n - 1 <= c /\ n - 1 \notin T
      BY <1>1, <2>1, <2>2
    <2> DEFINE p == f[n-1]
               a == f[n]
               l == s[n]
    <2>4. Inherited(q, p, w, heir, s, n - 1)
      BY <2>3
    <2>5. a = GapAdded(p, heir, l) /\ l \in Request
      BY <1>1, <1>2, <2>3 DEF Inherits
    <2> HIDE DEF p, a
    <2>6. p \in Queues /\ LockTable(p, w)
      BY <2>4 DEF Inherited
    <2>7. /\ a \in Queues /\ LockTable(a, w) /\ WaitersOf(a) = WaitersOf(p)
          /\ \A u : Keeps(p, a, u)
          /\ \A x \in Rec : x # heir => a[x] = p[x]
          /\ \A x \in Range(a[heir]) : x \in Range(p[heir]) \/ (heir \in Key => x.gap)
          /\ HasGranted(a, heir, l.trx)
      BY <2>5, <2>6, GapAddedFacts
    <2>8. \A u : Keeps(q, a, u)
      BY <2>4, <2>7, KeepsTransitive DEF Inherited
    <2>9. ASSUME NEW i \in 1 .. n PROVE HasGranted(a, heir, s[i].trx)
      <3>1. CASE i = n
        BY <3>1, <2>7
      <3>2. CASE i # n
        <4>1. i \in 1 .. (n-1)
          BY <2>1, <3>2
        <4>2. HasGranted(p, heir, s[i].trx)
          BY <4>1, <2>4 DEF Inherited
        <4> QED
          BY <4>2, <2>7, KeepsFacts
      <3> QED
        BY <3>1, <3>2
    <2>10. Inherited(q, a, w, heir, s, n)
      BY <2>4, <2>7, <2>8, <2>9 DEF Inherited
    <2> QED
      BY <2>1, <2>10 DEF a
  <1>4. Inherited(q, f[c], w, heir, s, c)
    BY <1>1, <1>3
  <1> QED
    BY <1>2, <1>4 DEF c

(* Whoever has a request on rec has a granted one on heir.                   *)
LEMMA InheritToGapFacts ==
  ASSUME NEW q \in Queues, NEW w, LockTable(q, w), NEW heir \in Rec, NEW rec \in Rec
  PROVE  LET p == InheritToGap(q, heir, rec) IN
         /\ p \in Queues /\ LockTable(p, w) /\ WaitersOf(p) = WaitersOf(q)
         /\ \A u : Keeps(q, p, u)
         /\ \A x \in Rec : x # heir => p[x] = q[x]
         /\ \A x \in Range(p[heir]) : x \in Range(q[heir]) \/ (heir \in Key => x.gap)
         /\ \A u : Has(q, rec, u) => HasGranted(p, heir, u)
  <1> DEFINE p == InheritToGap(q, heir, rec)
             s == q[rec]
  <1>1. s \in Seq(Request)
    BY QueueFacts
  <1>2. p = AddGapLocks(q, heir, s)
    BY DEF InheritToGap
  <1> HIDE DEF p
  <1>3. Inherited(q, p, w, heir, s, Len(s))
    BY <1>1, <1>2, InheritFacts
  <1>4. ASSUME NEW u, Has(q, rec, u) PROVE HasGranted(p, heir, u)
    <2>1. PICK l \in Range(q[rec]) : l.trx = u
      BY <1>4 DEF Has
    <2>2. PICK i \in 1 .. Len(s) : s[i] = l
      BY <2>1, QueueFacts
    <2>3. HasGranted(p, heir, s[i].trx)
      BY <2>2, <1>3 DEF Inherited
    <2> QED
      BY <2>1, <2>2, <2>3
  <1> QED
    BY <1>3, <1>4 DEF Inherited, p

-----------------------------------------------------------------------------
(* Locks that go.                                                            *)

(* The requests on a record go; those who waited for it wait no more.        *)
LEMMA EmptiedFacts ==
  ASSUME NEW q \in Queues, NEW w, LockTable(q, w), NEW k \in Key, NEW v,
         \A x \in Key : x # k => v[x] = w[x]
  PROVE  LET p == [q EXCEPT ![k] = <<>>] IN
         /\ LockTable(p, v) /\ WaitersOf(p) = WaitersOf(q) \ WaitsOn(q, k)
         /\ p[k] = <<>> /\ \A x \in Rec : x # k => p[x] = q[x]
  <1> DEFINE p == [q EXCEPT ![k] = <<>>]
  <1>1. k \in Rec
    BY Sizes
  <1>2. p[k] = <<>> /\ (\A x \in Rec : x # k => p[x] = q[x]) /\ p = [x \in Rec |-> p[x]]
    BY <1>1 DEF Queues
  <1> HIDE DEF p
  <1>3. p \in Queues
    <2>1. \A x \in Rec : p[x] \in Seq(Request)
      <3>1. <<>> \in Seq(Request) /\ \A x \in Rec : q[x] \in Seq(Request)
        BY QueueFacts
      <3> QED
        BY <3>1, <1>2
    <2> QED
      BY <2>1, <1>2 DEF Queues
  <1>4. DOMAIN p[k] = {} /\ Range(p[k]) = {}
    BY <1>2, EmptyFacts
  <1>5. ASSUME NEW u \in Trx PROVE WaitsFor(p, u) \subseteq WaitsFor(q, u)
    <2>1. SUFFICES ASSUME NEW y \in Trx, NEW x \in Rec, NEW i \in DOMAIN p[x], NEW j \in DOMAIN p[x],
                          p[x][i].trx = u, p[x][i].wait, WaitsAt(p, x, i, j), p[x][j].trx = y
                   PROVE  y \in WaitsFor(q, u)
      BY DEF WaitsFor
    <2>2. p[x] = q[x]
      BY <1>2, <1>4
    <2> QED
      BY <2>1, <2>2 DEF WaitsFor, WaitsAt
  <1>6. NoCircle(p)
    BY <1>5, NoNewCircle DEF LockTable
  <1>7. Caused(p)
    <2>1. SUFFICES ASSUME NEW x \in Rec, NEW i \in DOMAIN p[x], p[x][i].wait
                   PROVE  HasToWaitInQueue(p, x, i)
      BY DEF Caused
    <2>2. p[x] = q[x]
      BY <1>2, <1>4
    <2>3. HasToWaitInQueue(q, x, i)
      BY <2>1, <2>2 DEF LockTable, Caused
    <2> QED
      BY <2>2, <2>3 DEF HasToWaitInQueue, WaitsAt
  <1>8. \A x \in Rec : \A i \in DOMAIN p[x] : p[x] = q[x] /\ i \in DOMAIN q[x]
    BY <1>2, <1>4
  <1>9. WaitsOnce(p)
    BY <1>8 DEF LockTable, WaitsOnce
  <1>10. ASSUME NEW x \in Key
         PROVE  Ordered(p[x]) /\ \A t \in Trx : v[x] = t => Guards(p[x], t)
    <2>1. CASE x = k
      BY <2>1, <1>4 DEF Ordered, Guards
    <2>2. CASE x # k
      <3>1. p[x] = q[x] /\ v[x] = w[x]
        BY <2>2, <1>2, Sizes
      <3> QED
        BY <3>1 DEF LockTable
    <2> QED
      BY <2>1, <2>2
  <1>11. WaitersOf(p) = WaitersOf(q) \ WaitsOn(q, k)
    <2>1. ASSUME NEW t \in Trx, NEW x \in Rec, NEW l \in Range(p[x]), l.trx = t, l.wait
          PROVE  t \in WaitersOf(q) \ WaitsOn(q, k)
      <3>1. x # k /\ p[x] = q[x]
        BY <2>1, <1>2, <1>4
      <3>2. t \in WaitersOf(q)
        BY <2>1, <3>1 DEF WaitersOf
      <3>3. ASSUME NEW e \in Range(q[k]), e.trx = t, e.wait PROVE FALSE
        <4>1. PICK i \in DOMAIN q[x] : q[x][i] = l
          BY <3>1 DEF Range
        <4>2. PICK j \in DOMAIN q[k] : q[k][j] = e
          BY <3>3 DEF Range
        <4>4. q[x][i].wait /\ q[k][j].wait /\ q[x][i].trx = q[k][j].trx
          BY <2>1, <3>3, <4>1, <4>2
        <4>5. x = k
          BY <1>1, <4>4 DEF LockTable, WaitsOnce
        <4> QED
          BY <3>1, <4>5
      <3> QED
        BY <3>2, <3>3 DEF WaitsOn
    <2>2. ASSUME NEW t \in WaitersOf(q), t \notin WaitsOn(q, k) PROVE t \in WaitersOf(p)
      <3>1. t \in Trx
        BY DEF WaitersOf
      <3>2. PICK x \in Rec : \E l \in Range(q[x]) : l.trx = t /\ l.wait
        BY DEF WaitersOf
      <3>3. x # k
        BY <2>2, <3>1, <3>2 DEF WaitsOn
      <3>4. p[x] = q[x]
        BY <3>3, <1>2
      <3> QED
        BY <3>1, <3>2, <3>4 DEF WaitersOf
    <2>3. WaitersOf(p) \subseteq WaitersOf(q) \ WaitsOn(q, k)
      BY <2>1 DEF WaitersOf
    <2> QED
      BY <2>2, <2>3
  <1> QED
    BY <1>2, <1>3, <1>6, <1>7, <1>9, <1>10, <1>11 DEF LockTable, p

(* lock_update_delete() of the record k before heir                          *)
LEMMA RemovedFacts ==
  ASSUME NEW q \in Queues, NEW w, LockTable(q, w), NEW k \in Key, NEW heir \in Rec, heir # k,
         NEW v, \A x \in Key : x # k => v[x] = w[x]
  PROVE  LET p == [InheritToGap(q, heir, k) EXCEPT ![k] = <<>>] IN
         /\ LockTable(p, v) /\ WaitersOf(p) = WaitersOf(q) \ WaitsOn(q, k)
         /\ p[k] = <<>> /\ \A x \in Rec : x # k /\ x # heir => p[x] = q[x]
         /\ \A x \in Rec : \A u : x # k => KeepsAt(q, p, x, u)
         /\ \A u : Has(q, k, u) => HasGranted(p, heir, u)
  <1> DEFINE g == InheritToGap(q, heir, k)
             p == [g EXCEPT ![k] = <<>>]
  <1>1. k \in Rec
    BY Sizes
  <1>2. /\ g \in Queues /\ LockTable(g, w) /\ WaitersOf(g) = WaitersOf(q)
        /\ \A u : Keeps(q, g, u)
        /\ \A x \in Rec : x # heir => g[x] = q[x]
        /\ \A u : Has(q, k, u) => HasGranted(g, heir, u)
    BY <1>1, InheritToGapFacts
  <1> HIDE DEF g
  <1>3. /\ LockTable(p, v) /\ WaitersOf(p) = WaitersOf(g) \ WaitsOn(g, k)
        /\ p[k] = <<>> /\ \A x \in Rec : x # k => p[x] = g[x]
    BY <1>2, EmptiedFacts
  <1> HIDE DEF p
  <1>4. WaitsOn(g, k) = WaitsOn(q, k)
    BY <1>1, <1>2 DEF WaitsOn
  <1>5. \A x \in Rec : \A u : x # k => KeepsAt(q, p, x, u)
    <2>1. SUFFICES ASSUME NEW x \in Rec, NEW u, x # k PROVE KeepsAt(q, p, x, u)
      OBVIOUS
    <2>2. KeepsAt(q, g, x, u)
      BY <1>2 DEF Keeps
    <2>3. p[x] = g[x]
      BY <1>3, <2>1
    <2> QED
      BY <2>2, <2>3 DEF KeepsAt
  <1>6. \A u : Has(q, k, u) => HasGranted(p, heir, u)
    BY <1>2, <1>3 DEF HasGranted
  <1>7. \A x \in Rec : x # k /\ x # heir => p[x] = q[x]
    BY <1>2, <1>3
  <1> QED
    BY <1>2, <1>3, <1>4, <1>5, <1>6, <1>7 DEF p, g

(* The writers when t is none any more.                                      *)
Without(w, v, t) == \A k \in Key, u \in Trx : v[k] = u => w[k] = u /\ u # t

(* The end of transaction t.                                                 *)
LEMMA ReleaseFacts ==
  ASSUME NEW q \in Queues, NEW w, LockTable(q, w), NEW t \in Trx, NEW v, Without(w, v, t)
  PROVE  LET p == ReleaseAll(q, t) IN
         /\ LockTable(p, v) /\ WaitersOf(p) \subseteq WaitersOf(q)
         /\ \A u \in Trx : u # t => Keeps(q, p, u)
         /\ \A r \in Rec : q[r] = <<>> => p[r] = <<>>
  <1> DEFINE K == {l \in Request : l.trx # t}
             p == Thinned(q, K)
  <1>1. \A r \in Rec : \A l \in Range(q[r]) : l.trx # t => l \in K
    BY RequestFacts
  <1>2. p = ReleaseAll(q, t)
    BY DEF ReleaseAll, Thinned
  <1> HIDE DEF K
  <1>3. Spares(q, w, v, K)
    BY <1>1, Sizes DEF Spares, Without
  <1>4. /\ LockTable(p, v)
        /\ WaitersOf(p) \subseteq WaitersOf(q)
        /\ \A u : (\A r \in Rec : \A l \in Range(q[r]) : l.trx = u => l \in K) => Keeps(q, p, u)
    BY <1>3, LetGo
  <1>6. \A r \in Rec : q[r] = <<>> => p[r] = <<>>
    BY <1>3, LetGo
  <1> HIDE DEF p
  <1>5. \A u \in Trx : u # t => Keeps(q, p, u)
    BY <1>1, <1>4
  <1> QED
    BY <1>2, <1>4, <1>5, <1>6

(* The end of a wait of transaction t, whose granted locks stay.             *)
LEMMA CancelFacts ==
  ASSUME NEW q \in Queues, NEW w, LockTable(q, w), NEW t \in Trx
  PROVE  LET p == CancelWaiting(q, t) IN
         /\ LockTable(p, w) /\ WaitersOf(p) \subseteq WaitersOf(q)
         /\ \A u \in Trx : u # t => Keeps(q, p, u)
         /\ KeepsGranted(q, p, t)
         /\ \A r \in Rec : q[r] = <<>> => p[r] = <<>>
  <1> DEFINE K == {l \in Request : l.trx # t \/ ~l.wait}
             p == Thinned(q, K)
  <1>1. \A r \in Rec : \A l \in Range(q[r]) : l.trx # t \/ ~l.wait => l \in K
    BY RequestFacts
  <1>2. p = CancelWaiting(q, t)
    BY DEF CancelWaiting, Thinned
  <1> HIDE DEF K
  <1>3. Spares(q, w, w, K)
    BY <1>1, Sizes DEF Spares
  <1>4. /\ LockTable(p, w)
        /\ WaitersOf(p) \subseteq WaitersOf(q)
        /\ \A u : (\A r \in Rec : \A l \in Range(q[r]) : l.trx = u => l \in K) => Keeps(q, p, u)
        /\ \A u : (\A r \in Rec : \A l \in Range(q[r]) : l.trx = u /\ ~l.wait => l \in K)
                     => KeepsGranted(q, p, u)
    BY <1>3, LetGo
  <1>7. \A r \in Rec : q[r] = <<>> => p[r] = <<>>
    BY <1>3, LetGo
  <1> HIDE DEF p
  <1>5. \A u \in Trx : u # t => Keeps(q, p, u)
    BY <1>1, <1>4
  <1>6. KeepsGranted(q, p, t)
    BY <1>1, <1>4
  <1> QED
    BY <1>2, <1>4, <1>5, <1>6, <1>7

-----------------------------------------------------------------------------
(* The records of the page.                                                  *)

(* The record after key k on a page with the keys pg                         *)
After(pg, k) == Min({r \in pg \cup {Supremum} : r > k})

LEMMA AfterFacts ==
  ASSUME NEW pg \in SUBSET Key, NEW k \in 0 .. MaxKey
  PROVE  /\ After(pg, k) \in Rec /\ After(pg, k) \in pg \cup {Supremum} /\ After(pg, k) > k
         /\ \A r \in pg \cup {Supremum} : r > k => After(pg, k) <= r
         /\ \A n \in pg \cup {Supremum} :
              n > k /\ (\A r \in pg \cup {Supremum} : r > k => n <= r) => After(pg, k) = n
  <1> DEFINE S == {r \in pg \cup {Supremum} : r > k}
  <1>1. S \subseteq Nat /\ Supremum \in S /\ S \subseteq Rec
    <2>1. pg \cup {Supremum} \subseteq Rec /\ pg \cup {Supremum} \subseteq Nat
      BY Sizes
    <2>2. Supremum > k
      BY Sizes
    <2> QED
      BY <2>1, <2>2
  <1>2. PICK n \in S : \A m \in S : n <= m
    BY <1>1, Least
  <1>3. After(pg, k) = Min(S)
    BY DEF After
  <1>4. S = {r \in pg \cup {Supremum} : r > k}
    OBVIOUS
  <1> HIDE DEF S
  <1>5. Min(S) \in S /\ \A m \in S : Min(S) <= m
    BY <1>2 DEF Min
  <1>6. \A m \in S : (\A r \in S : m <= r) => Min(S) = m
    <2>1. SUFFICES ASSUME NEW m \in S, \A r \in S : m <= r PROVE Min(S) = m
      OBVIOUS
    <2>2. Min(S) \in Nat /\ m \in Nat /\ Min(S) <= m /\ m <= Min(S)
      BY <1>1, <1>5, <2>1
    <2> QED
      BY <2>2
  <1> QED
    BY <1>1, <1>3, <1>4, <1>5, <1>6

(* Between a key and the record after it there is none.                      *)
LEMMA AfterGap ==
  ASSUME NEW pg \in SUBSET Key, NEW j \in 0 .. MaxKey, NEW k \in 0 .. MaxKey,
         j < k, k < After(pg, j)
  PROVE  k \notin pg /\ After(pg, k) = After(pg, j)
  <1> DEFINE n == After(pg, j)
  <1>1. n \in pg \cup {Supremum} /\ \A r \in pg \cup {Supremum} : r > j => n <= r
    BY AfterFacts
  <1>2. pg \cup {Supremum} \subseteq Nat
    BY Sizes
  <1> HIDE DEF n
  <1>3. k \notin pg /\ \A r \in pg \cup {Supremum} : r > k => n <= r
    BY <1>1, <1>2 DEF n
  <1>4. n > k
    BY <1>1, <1>2 DEF n
  <1>5. After(pg, k) = n
    BY <1>1, <1>3, <1>4, AfterFacts
  <1> QED
    BY <1>3, <1>5 DEF n

LEMMA AfterAdd ==
  ASSUME NEW pg \in SUBSET Key, NEW k \in Key \ pg, NEW j \in 0 .. MaxKey
  PROVE  \/ j < k /\ k < After(pg, j) /\ After(pg \cup {k}, j) = k /\ After(pg, k) = After(pg, j)
         \/ ~ (j < k /\ k < After(pg, j)) /\ After(pg \cup {k}, j) = After(pg, j)
  <1> DEFINE n == After(pg, j)
             p == pg \cup {k}
  <1>1. n \in pg \cup {Supremum} /\ n > j /\ \A r \in pg \cup {Supremum} : r > j => n <= r
    BY AfterFacts
  <1>2. p \cup {Supremum} \subseteq Nat /\ p \in SUBSET Key /\ k \in 0 .. MaxKey
    BY Sizes DEF Key
  <1>3. p \cup {Supremum} = (pg \cup {Supremum}) \cup {k} /\ k # Supremum
    BY Sizes
  <1>4. k < n => After(pg, k) = n \/ ~ (j < k)
    BY <1>2, AfterGap
  <1>5. \A x \in p \cup {Supremum} :
          x > j /\ (\A r \in p \cup {Supremum} : r > j => x <= r) => After(p, j) = x
    BY <1>2, AfterFacts
  <1> HIDE DEF n, p
  <1>6. CASE j < k /\ k < n
    <2>1. \A r \in p \cup {Supremum} : r > j => k <= r
      BY <1>1, <1>2, <1>3, <1>6
    <2>2. After(p, j) = k
      BY <2>1, <1>3, <1>5, <1>6
    <2> QED
      BY <2>2, <1>4, <1>6 DEF n, p
  <1>7. CASE ~ (j < k /\ k < n)
    <2>1. \A r \in p \cup {Supremum} : r > j => n <= r
      BY <1>1, <1>2, <1>3, <1>7
    <2>2. After(p, j) = n
      BY <2>1, <1>1, <1>3, <1>5
    <2> QED
      BY <2>2, <1>7 DEF n, p
  <1> QED
    BY <1>6, <1>7

LEMMA AfterRemove ==
  ASSUME NEW pg \in SUBSET Key, NEW k \in pg, NEW j \in 0 .. MaxKey
  PROVE  After(pg \ {k}, j) = IF After(pg, j) = k THEN After(pg, k) ELSE After(pg, j)
  <1> DEFINE n == After(pg, j)
             p == pg \ {k}
             h == After(pg, k)
  <1>1. n \in pg \cup {Supremum} /\ n > j /\ \A r \in pg \cup {Supremum} : r > j => n <= r
    BY AfterFacts
  <1>2. p \cup {Supremum} \subseteq Nat /\ p \in SUBSET Key /\ k \in 0 .. MaxKey
    BY Sizes DEF Key
  <1>3. p \cup {Supremum} = (pg \cup {Supremum}) \ {k} /\ k # Supremum /\ k \in Nat
    BY Sizes
  <1>4. h \in pg \cup {Supremum} /\ h > k /\ \A r \in pg \cup {Supremum} : r > k => h <= r
    BY <1>2, AfterFacts
  <1>5. \A x \in p \cup {Supremum} :
          x > j /\ (\A r \in p \cup {Supremum} : r > j => x <= r) => After(p, j) = x
    BY <1>2, AfterFacts
  <1> HIDE DEF n, p, h
  <1>6. CASE n = k
    <2>1. h \in p \cup {Supremum} /\ h > j
      BY <1>1, <1>2, <1>3, <1>4, <1>6
    <2>2. \A r \in p \cup {Supremum} : r > j => h <= r
      BY <1>1, <1>2, <1>3, <1>4, <1>6
    <2>3. After(p, j) = h
      BY <2>1, <2>2, <1>5
    <2> QED
      BY <2>3, <1>6 DEF n, p, h
  <1>7. CASE n # k
    <2>1. n \in p \cup {Supremum} /\ \A r \in p \cup {Supremum} : r > j => n <= r
      BY <1>1, <1>3, <1>7
    <2>2. After(p, j) = n
      BY <2>1, <1>1, <1>5
    <2> QED
      BY <2>2, <1>7 DEF n, p
  <1> QED
    BY <1>6, <1>7

LEMMA AfterRemoved ==
  ASSUME NEW pg \in SUBSET Key, NEW k \in pg
  PROVE  After(pg \ {k}, k) = After(pg, k) /\ After(pg, k) # k
  <1>1. k \in 0 .. MaxKey /\ k \in Nat
    BY Sizes DEF Key
  <1>2. After(pg, k) > k /\ After(pg, k) \in Rec
    BY <1>1, AfterFacts
  <1>3. After(pg, k) # k
    BY <1>1, <1>2, Sizes
  <1> QED
    BY <1>1, <1>3, AfterRemove

-----------------------------------------------------------------------------
(* What a step leaves of the right of a transaction u.                       *)

LEMMA TypeFacts ==
  ASSUME TypeOK
  PROVE  /\ page \in SUBSET Key /\ deleted \subseteq page
         /\ writer \in [Key -> Trx \cup {NoTrx}] /\ queue \in Queues
         /\ \A k \in Key : k \notin page => queue[k] = <<>> /\ writer[k] = NoTrx
         /\ \A k : NextRec(k) = After(page, k)
  BY DEF TypeOK, Queues, NextRec, After

LEMMA TrxFacts ==
  ASSUME TypeOK, NEW u \in Trx
  PROVE  /\ op[u] \in Op /\ op[u].key \in 0 .. Supremum
         /\ undo[u] \in Seq(UndoRec) /\ result[u] \in SUBSET Key
         /\ cursor[u] \in [mode : LockMode, from : 0 .. MaxKey, pos : 0 .. Supremum]
         /\ cursor[u].mode \in LockMode /\ cursor[u].from \in 0 .. MaxKey
         /\ cursor[u].pos \in 0 .. Supremum
  BY DEF TypeOK, Op

LEMMA KeyFacts ==
  /\ Key \subseteq 0 .. MaxKey /\ Key \subseteq Nat
  /\ \A k \in Key : k - 1 \in 0 .. MaxKey
  BY Sizes DEF Key

LEMMA UndoStays ==
  ASSUME NEW u \in Trx, UndoRight(u), undo'[u] = undo[u], undo[u] \in Seq(UndoRec),
         \A k \in Key : writer'[k] = u <=> writer[k] = u,
         \A k \in Key : writer[k] = u /\ k \in page => k \in page',
         \A k \in Key : writer[k] = u /\ HasExpl(queue, "S", k, u) => HasExpl(queue', "S", k, u)
  PROVE  UndoRight(u)'
  <1>1. \A i \in DOMAIN undo[u] : undo[u][i].key \in Key
    <2>1. \A i \in DOMAIN undo[u] : undo[u][i] \in UndoRec
      OBVIOUS
    <2> QED
      BY <2>1 DEF UndoRec
  <1>2. \A k \in Key : writer'[k] = u => \E i \in DOMAIN undo'[u] : undo'[u][i].key = k
    BY DEF UndoRight
  <1>3. ASSUME NEW i \in DOMAIN undo[u]
        PROVE  LET v == undo[u][i] IN
               /\ v.key \in page' /\ writer'[v.key] = u
               /\ v.prev = IF \E j \in 1 .. (i-1) : undo[u][j].key = v.key THEN u ELSE NoTrx
               /\ v.type = "insert" => v.prev = NoTrx
               /\ v.type = "upd_del" => HasExpl(queue', "S", v.key, u)
    BY <1>1 DEF UndoRight
  <1> QED
    BY <1>2, <1>3 DEF UndoRight

(* Row k is what it was.                                                     *)
SameRow(k) == writer'[k] = writer[k] /\ (k \in deleted' <=> k \in deleted)

(* u goes on with what it did, or with something that needs no more.         *)
GoesOn(u) ==
  \/ op'[u] = op[u]
  \/ op[u].do \in {"none", "insert"} /\ op'[u].do \in {"none", "insert", "rollback"}

(* Rows change that are not held by u, or become its own.                    *)
LEMMA RowsStay ==
  ASSUME TypeOK, NEW u \in Trx, page' = page, deleted' \subseteq page,
         Keeps(queue, queue', u), cursor'[u] = cursor[u], result'[u] = result[u], GoesOn(u),
         \A k \in Key :
            \/ SameRow(k)
            \/ writer'[k] = u /\ op'[u].do # "remove"
            \/ writer[k] # u /\ ~HasExpl(queue, "S", k, u),
         RemoveRight(u), ScanRight(u), ReadRight(u)
  PROVE  RemoveRight(u)' /\ ScanRight(u)' /\ ReadRight(u)'
  <1>1. /\ page \in SUBSET Key /\ deleted \subseteq page /\ queue \in Queues
        /\ \A k \in Key : k \notin page => queue[k] = <<>> /\ writer[k] = NoTrx
        /\ \A k : NextRec(k) = After(page, k)
    BY TypeFacts
  <1>2. Key \subseteq Rec /\ Key \subseteq 0 .. MaxKey
    BY Sizes, KeyFacts
  <1>3. \A k \in 0 .. MaxKey : NextRec(k) \in Rec /\ NextRec(k)' = NextRec(k)
    <2>1. \A k : NextRec(k)' = NextRec(k)
      BY DEF NextRec
    <2> QED
      BY <2>1, <1>1, AfterFacts
  <1>8. /\ cursor[u].mode \in LockMode /\ cursor[u].pos \in 0 .. Supremum
        /\ op[u].key \in 0 .. Supremum /\ "S" \in LockMode
    BY TrxFacts DEF LockMode
  <1>4. ASSUME NEW k \in Key, NEW m \in LockMode, Holds(m, u, k)
        PROVE  Holds(m, u, k)' /\ (k \in page => HasExpl(queue, "S", k, u))
    <2>1. NextRec(k) \in Rec /\ NextRec(k)' = NextRec(k) /\ k \in Rec
      BY <1>2, <1>3
    <2>2. CASE k \in page
      <3>1. HasExpl(queue, m, k, u)
        BY <1>4, <2>2 DEF Holds
      <3>2. HasExpl(queue', m, k, u)
        BY <3>1, <2>1, KeepsFacts
      <3>3. HasExpl(queue, "S", k, u)
        BY <3>1, <1>1, ExplFacts
      <3> QED
        BY <3>2, <3>3, <2>2 DEF Holds
    <2>3. CASE k \notin page
      <3>1. HasGranted(queue, NextRec(k), u)
        BY <1>4, <2>3 DEF Holds
      <3>2. HasGranted(queue', NextRec(k), u)
        BY <3>1, <2>1, KeepsFacts
      <3> QED
        BY <3>2, <2>1, <2>3 DEF Holds
    <2> QED
      BY <2>2, <2>3
  <1>5. RemoveRight(u)'
    <2>1. SUFFICES ASSUME op'[u].do = "remove"
                   PROVE  /\ op'[u].key \in Key /\ Holds("S", u, op[u].key)'
                          /\ op'[u].key \in page' =>
                               op'[u].key \in deleted' /\ writer'[op'[u].key] = NoTrx
                          /\ op'[u] = op[u]
      BY DEF RemoveRight
    <2>2. op'[u] = op[u]
      BY <2>1 DEF GoesOn
    <2>3. /\ op[u].key \in Key /\ Holds("S", u, op[u].key)
          /\ op[u].key \in page => op[u].key \in deleted /\ writer[op[u].key] = NoTrx
      BY <2>1, <2>2 DEF RemoveRight
    <2>4. Holds("S", u, op[u].key)' /\ (op[u].key \in page => HasExpl(queue, "S", op[u].key, u))
      <3> DEFINE k == op[u].key
      <3>1. k \in Key /\ Holds("S", u, k) /\ k = op'[u].key
        BY <2>2, <2>3
      <3> HIDE DEF k
      <3>2. PICK x \in Key : x = k
        BY <3>1
      <3>3. Holds("S", u, x)' /\ (x \in page => HasExpl(queue, "S", x, u))
        BY <1>4, <1>8, <3>1, <3>2
      <3> QED
        BY <2>2, <3>1, <3>2, <3>3 DEF k
    <2>5. op[u].key \in page => SameRow(op[u].key)
      BY <2>1, <2>3, <2>4
    <2> QED
      BY <2>2, <2>3, <2>4, <2>5 DEF SameRow
  <1>6. ScanRight(u)'
    <2>1. \A k : Passed(u, k)' <=> Passed(u, k)
      BY DEF Passed
    <2>2. ASSUME op'[u].do = "scan"
          PROVE  /\ op'[u] = op[u] /\ cursor[u].pos < op[u].key
                 /\ op[u].key <= NextRec(cursor[u].pos)'
                 /\ Has(queue, NextRec(cursor[u].pos), u)'
                 /\ cursor[u].from \in Key
      <3>1. op'[u] = op[u] /\ op[u].do = "scan"
        BY <2>2 DEF GoesOn
      <3>2. NextRec(cursor[u].pos)' = NextRec(cursor[u].pos)
        BY <1>1 DEF NextRec
      <3>3. NextRec(cursor[u].pos) \in Rec
        <4>1. cursor[u].pos \in 0 .. MaxKey
          BY <3>1, <1>8, Sizes DEF ScanRight
        <4> QED
          BY <4>1, <1>3
      <3>4. Has(queue', NextRec(cursor[u].pos), u)
        BY <3>1, <3>3, KeepsFacts DEF ScanRight
      <3> QED
        BY <3>1, <3>2, <3>4 DEF ScanRight
    <2> QED
      BY <2>1, <2>2 DEF ScanRight
  <1>7. ReadRight(u)'
    <2>1. SUFFICES ASSUME op'[u].do \notin {"rollback", "remove"}, NEW k \in Key, Passed(u, k)'
                   PROVE  \/ writer'[k] = u
                          \/ /\ Holds(cursor[u].mode, u, k)'
                             /\ k \in result[u] <=> k \in page' \ deleted'
      BY DEF ReadRight
    <2>2. op[u].do \notin {"rollback", "remove"} /\ Passed(u, k)
      BY <2>1 DEF GoesOn, Passed
    <2>3. CASE writer[k] = u
      BY <2>3 DEF SameRow
    <2>4. CASE Holds(cursor[u].mode, u, k) /\ (k \in result[u] <=> k \in page \ deleted)
      <3>1. Holds(cursor[u].mode, u, k)' /\ (k \in page => HasExpl(queue, "S", k, u))
        BY <1>4, <1>8, <2>4
      <3>2. CASE k \in page
        BY <3>1, <3>2, <2>4 DEF SameRow
      <3>3. CASE k \notin page
        BY <3>1, <3>3, <2>4
      <3> QED
        BY <3>2, <3>3
    <2> QED
      BY <2>2, <2>3, <2>4 DEF ReadRight
  <1> QED
    BY <1>5, <1>6, <1>7

(* What a transaction has read is not looked at any more when it rolls back. *)
LEMMA RollsBack ==
  ASSUME NEW t \in Trx, op'[t].do \in {"rollback", "remove"},
         cursor'[t] = cursor[t], result'[t] = result[t], ScanRight(t)
  PROVE  /\ ScanRight(t)' /\ ReadRight(t)'
         /\ op'[t].do = "rollback" => RemoveRight(t)'
  <1>1. ScanRight(t)'
    BY DEF ScanRight, Passed
  <1>2. ReadRight(t)'
    BY DEF ReadRight
  <1>3. op'[t].do = "rollback" => RemoveRight(t)'
    BY DEF RemoveRight
  <1> QED
    BY <1>1, <1>2, <1>3

(* A record is added, whose row is u's or whose gap nobody but others holds. *)
LEMMA RowAdded ==
  ASSUME TypeOK, NEW u \in Trx, NEW k \in Key \ page, page' = page \cup {k}, deleted' = deleted,
         \A x \in Key : x # k => writer'[x] = writer[x],
         Keeps(queue, queue', u), Has(queue, NextRec(k), u) => HasGranted(queue', k, u),
         cursor'[u] = cursor[u], result'[u] = result[u], GoesOn(u),
         \/ ~Has(queue, NextRec(k), u)
         \/ writer'[k] = u /\ op'[u].do \notin {"remove", "scan"},
         RemoveRight(u), ScanRight(u), ReadRight(u)
  PROVE  RemoveRight(u)' /\ ScanRight(u)' /\ ReadRight(u)'
  <1>1. /\ page \in SUBSET Key /\ deleted \subseteq page /\ queue \in Queues
        /\ \A x \in Key : x \notin page => queue[x] = <<>> /\ writer[x] = NoTrx
        /\ \A x : NextRec(x) = After(page, x)
    BY TypeFacts
  <1>2. Key \subseteq Rec /\ Key \subseteq 0 .. MaxKey
    BY Sizes, KeyFacts
  <1>3. \A x : NextRec(x)' = After(page \cup {k}, x)
    BY DEF NextRec, After
  <1>4. \A x \in 0 .. MaxKey :
          /\ NextRec(x) \in Rec
          /\ \/ x < k /\ k < NextRec(x) /\ NextRec(x)' = k /\ NextRec(k) = NextRec(x)
             \/ NextRec(x)' = NextRec(x)
    <2>1. \A x \in 0 .. MaxKey : NextRec(x) \in Rec
      BY <1>1, AfterFacts
    <2>2. \A x \in 0 .. MaxKey :
            \/ /\ x < k /\ k < After(page, x) /\ After(page \cup {k}, x) = k
               /\ After(page, k) = After(page, x)
            \/ After(page \cup {k}, x) = After(page, x)
      BY <1>1, AfterAdd
    <2> QED
      BY <2>1, <2>2, <1>1, <1>3
  <1>5. /\ cursor[u].mode \in LockMode /\ cursor[u].pos \in 0 .. Supremum
        /\ op[u].key \in 0 .. Supremum /\ "S" \in LockMode
    BY TrxFacts DEF LockMode
  <1>6. \A x \in Rec : HasGranted(queue, x, u) => HasGranted(queue', x, u) /\ Has(queue, x, u)
    <2>1. \A x \in Rec : HasGranted(queue, x, u) => HasGranted(queue', x, u)
      BY KeepsFacts
    <2> QED
      BY <2>1 DEF HasGranted, Has
  <1>7. ASSUME NEW x \in Key, x # k, NEW m \in LockMode, Holds(m, u, x)
        PROVE  Holds(m, u, x)'
    <2>1. CASE x \in page
      <3>1. HasExpl(queue, m, x, u)
        BY <1>7, <2>1 DEF Holds
      <3>2. HasExpl(queue', m, x, u)
        BY <3>1, <1>2, KeepsFacts
      <3> QED
        BY <3>2, <2>1 DEF Holds
    <2>2. CASE x \notin page
      <3>1. HasGranted(queue, NextRec(x), u) /\ x \in 0 .. MaxKey
        BY <1>2, <1>7, <2>2 DEF Holds
      <3>2. HasGranted(queue', NextRec(x), u) /\ Has(queue, NextRec(x), u)
        BY <3>1, <1>4, <1>6
      <3>3. HasGranted(queue', NextRec(x)', u)
        BY <3>1, <3>2, <1>4
      <3> QED
        BY <3>3, <1>7, <2>2 DEF Holds
    <2> QED
      BY <2>1, <2>2
  <1>8. ASSUME NEW m \in LockMode, Holds(m, u, k) PROVE Has(queue, NextRec(k), u)
    BY <1>2, <1>4, <1>6, <1>8 DEF Holds
  <1>9. RemoveRight(u)'
    <2>1. SUFFICES ASSUME op'[u].do = "remove" PROVE RemoveRight(u)'
      BY DEF RemoveRight
    <2>2. op'[u] = op[u]
      BY <2>1 DEF GoesOn
    <2>3. PICK x \in Key : x = op[u].key
      BY <2>1, <2>2 DEF RemoveRight
    <2>4. Holds("S", u, x) /\ (x \in page => x \in deleted /\ writer[x] = NoTrx)
      BY <2>1, <2>2, <2>3 DEF RemoveRight
    <2>5. x # k
      BY <2>1, <2>4, <1>5, <1>8
    <2>6. Holds("S", u, x)'
      BY <2>4, <2>5, <1>5, <1>7
    <2> QED
      BY <2>2, <2>3, <2>4, <2>5, <2>6 DEF RemoveRight
  <1>10. ScanRight(u)'
    <2>1. \A x : Passed(u, x)' <=> Passed(u, x)
      BY DEF Passed
    <2>2. ASSUME op'[u].do = "scan"
          PROVE  /\ op'[u] = op[u] /\ cursor[u].pos < op[u].key
                 /\ op[u].key <= NextRec(cursor[u].pos)'
                 /\ Has(queue, NextRec(cursor[u].pos), u)'
                 /\ cursor[u].from \in Key
      <3>1. op'[u] = op[u] /\ op[u].do = "scan"
        BY <2>2 DEF GoesOn
      <3> DEFINE c == cursor[u].pos
      <3>2. c \in 0 .. MaxKey
        BY <3>1, <1>5, Sizes DEF ScanRight
      <3>3. NextRec(c) \in Rec /\ Has(queue, NextRec(c), u)
        BY <3>1, <3>2, <1>4 DEF ScanRight
      <3>4. Has(queue', NextRec(c), u)
        BY <3>3, KeepsFacts
      <3>5. After(page \cup {k}, c) = After(page, c)
        <4>1. ~Has(queue, NextRec(k), u)
          BY <2>2
        <4> QED
          BY <4>1, <3>2, <3>3, <1>1, AfterAdd
      <3>6. NextRec(c)' = NextRec(c)
        BY <3>5, <1>1 DEF NextRec, After
      <3> QED
        BY <3>1, <3>4, <3>6 DEF ScanRight
    <2> QED
      BY <2>1, <2>2 DEF ScanRight
  <1>11. ReadRight(u)'
    <2>1. SUFFICES ASSUME op'[u].do \notin {"rollback", "remove"}, NEW x \in Key, Passed(u, x)'
                   PROVE  \/ writer'[x] = u
                          \/ /\ Holds(cursor[u].mode, u, x)'
                             /\ x \in result[u] <=> x \in page' \ deleted'
      BY DEF ReadRight
    <2>2. op[u].do \notin {"rollback", "remove"} /\ Passed(u, x)
      BY <2>1 DEF GoesOn, Passed
    <2>3. CASE writer[x] = u
      <3>1. x # k
        BY <2>3, <1>1, Sizes
      <3> QED
        BY <3>1, <2>3
    <2>4. CASE Holds(cursor[u].mode, u, x) /\ (x \in result[u] <=> x \in page \ deleted)
      <3>1. CASE x = k
        BY <3>1, <2>4, <1>5, <1>8
      <3>2. CASE x # k
        BY <3>2, <2>4, <1>5, <1>7
      <3> QED
        BY <3>1, <3>2
    <2> QED
      BY <2>2, <2>3, <2>4 DEF ReadRight
  <1> QED
    BY <1>9, <1>10, <1>11

(* A record is removed that u does not hold, or that is deleted for good.    *)
LEMMA RowRemoved ==
  ASSUME TypeOK, NEW u \in Trx, NEW k \in page, page' = page \ {k}, deleted' = deleted \ {k},
         \A x \in Key : x # k => writer'[x] = writer[x],
         \A x \in Rec : x # k => KeepsAt(queue, queue', x, u),
         Has(queue, k, u) => HasGranted(queue', NextRec(k), u),
         cursor'[u] = cursor[u], result'[u] = result[u], op'[u] = op[u],
         writer[k] # u,
         ~HasExpl(queue, "S", k, u) \/ (k \in deleted /\ writer[k] = NoTrx),
         RemoveRight(u), ScanRight(u), ReadRight(u)
  PROVE  RemoveRight(u)' /\ ScanRight(u)' /\ ReadRight(u)'
  <1>1. /\ page \in SUBSET Key /\ deleted \subseteq page /\ queue \in Queues
        /\ \A x \in Key : x \notin page => queue[x] = <<>> /\ writer[x] = NoTrx
        /\ \A x : NextRec(x) = After(page, x)
    BY TypeFacts
  <1>2. Key \subseteq Rec /\ Key \subseteq 0 .. MaxKey /\ k \in Key /\ Rec \subseteq Nat
    BY <1>1, Sizes, KeyFacts
  <1>3. \A x : NextRec(x)' = After(page \ {k}, x)
    BY DEF NextRec, After
  <1>4. /\ \A x \in 0 .. MaxKey :
             /\ NextRec(x) \in Rec
             /\ NextRec(x) = k => NextRec(x)' = NextRec(k)
             /\ NextRec(x) # k => NextRec(x)' = NextRec(x)
        /\ NextRec(k)' = NextRec(k) /\ NextRec(k) # k /\ NextRec(k) \in Rec /\ NextRec(k) > k
    <2>1. \A x \in 0 .. MaxKey : NextRec(x) \in Rec /\ NextRec(x) > x
      BY <1>1, AfterFacts
    <2>2. \A x \in 0 .. MaxKey :
            After(page \ {k}, x) = IF After(page, x) = k THEN After(page, k) ELSE After(page, x)
      BY <1>1, AfterRemove
    <2>3. After(page \ {k}, k) = After(page, k) /\ After(page, k) # k
      BY <1>1, AfterRemoved
    <2> QED
      BY <2>1, <2>2, <2>3, <1>1, <1>2, <1>3
  <1>5. /\ cursor[u].mode \in LockMode /\ cursor[u].pos \in 0 .. Supremum
        /\ op[u].key \in 0 .. Supremum /\ "S" \in LockMode
    BY TrxFacts DEF LockMode
  <1>6. \A x \in Rec : x # k /\ HasGranted(queue, x, u) => HasGranted(queue', x, u)
    BY KeepsAtFacts
  <1>7. \A x \in Rec : HasGranted(queue, x, u) => Has(queue, x, u)
    BY DEF HasGranted, Has
  <1>8. ASSUME NEW x \in Key, NEW m \in LockMode, Holds(m, u, x)
        PROVE  Holds(m, u, x)' /\ (x = k => HasExpl(queue, "S", k, u))
    <2>1. CASE x \in page /\ x # k
      <3>1. HasExpl(queue, m, x, u)
        BY <1>8, <2>1 DEF Holds
      <3>2. HasExpl(queue', m, x, u)
        BY <3>1, <2>1, <1>2, KeepsAtFacts
      <3> QED
        BY <3>2, <2>1 DEF Holds
    <2>2. CASE x = k
      <3>1. HasExpl(queue, m, k, u)
        BY <1>8, <2>2 DEF Holds
      <3>2. HasExpl(queue, "S", k, u) /\ HasGranted(queue, k, u)
        BY <3>1, <1>1, <1>2, ExplFacts
      <3>3. HasGranted(queue', NextRec(k)', u)
        BY <3>2, <1>2, <1>4, <1>7
      <3> QED
        BY <3>2, <3>3, <2>2 DEF Holds
    <2>3. CASE x \notin page
      <3>1. HasGranted(queue, NextRec(x), u) /\ x \in 0 .. MaxKey /\ NextRec(x) \in Rec
        BY <1>2, <1>4, <1>8, <2>3 DEF Holds
      <3>2. HasGranted(queue', NextRec(x)', u)
        <4>1. CASE NextRec(x) = k
          BY <3>1, <4>1, <1>4, <1>7
        <4>2. CASE NextRec(x) # k
          BY <3>1, <4>2, <1>4, <1>6
        <4> QED
          BY <4>1, <4>2
      <3> QED
        BY <3>2, <2>3 DEF Holds
    <2> QED
      BY <2>1, <2>2, <2>3
  <1>9. RemoveRight(u)'
    <2>1. SUFFICES ASSUME op[u].do = "remove" PROVE RemoveRight(u)'
      BY DEF RemoveRight
    <2>2. PICK x \in Key : x = op[u].key
      BY <2>1 DEF RemoveRight
    <2>3. Holds("S", u, x) /\ (x \in page => x \in deleted /\ writer[x] = NoTrx)
      BY <2>1, <2>2 DEF RemoveRight
    <2>4. Holds("S", u, x)'
      BY <2>3, <1>5, <1>8
    <2> QED
      BY <2>2, <2>3, <2>4 DEF RemoveRight
  <1>10. ScanRight(u)'
    <2>1. \A x : Passed(u, x)' <=> Passed(u, x)
      BY DEF Passed
    <2>2. ASSUME op[u].do = "scan"
          PROVE  /\ cursor[u].pos < op[u].key
                 /\ op[u].key <= NextRec(cursor[u].pos)'
                 /\ Has(queue, NextRec(cursor[u].pos), u)'
                 /\ cursor[u].from \in Key
      <3> DEFINE c == cursor[u].pos
                 d == After(page \ {k}, c)
      <3>1. c \in 0 .. MaxKey
        BY <2>2, <1>5, Sizes DEF ScanRight
      <3>2. /\ NextRec(c) \in Rec /\ Has(queue, NextRec(c), u)
            /\ c < op[u].key /\ op[u].key <= NextRec(c) /\ cursor[u].from \in Key
        BY <2>2, <3>1, <1>4 DEF ScanRight
      <3>3. NextRec(cursor[u].pos)' = d
        BY DEF NextRec, After
      <3>4. d = IF NextRec(c) = k THEN NextRec(k) ELSE NextRec(c)
        BY <3>1, <1>1, AfterRemove
      <3> HIDE DEF d
      <3>5. op[u].key <= d
        <4>1. NextRec(k) \in Nat /\ NextRec(c) \in Nat /\ k \in Nat
          BY <3>2, <1>2, <1>4
        <4>2. op[u].key \in Nat
          BY <1>5
        <4> QED
          BY <4>1, <4>2, <3>2, <3>4, <1>4
      <3>6. Has(queue', d, u)
        <4>1. CASE NextRec(c) = k
          BY <4>1, <3>2, <3>4 DEF HasGranted, Has
        <4>2. CASE NextRec(c) # k
          BY <4>2, <3>2, <3>4, KeepsAtFacts
        <4> QED
          BY <4>1, <4>2
      <3> QED
        BY <3>2, <3>3, <3>5, <3>6
    <2> QED
      BY <2>1, <2>2 DEF ScanRight
  <1>11. ReadRight(u)'
    <2>1. SUFFICES ASSUME op[u].do \notin {"rollback", "remove"}, NEW x \in Key, Passed(u, x)'
                   PROVE  \/ writer'[x] = u
                          \/ /\ Holds(cursor[u].mode, u, x)'
                             /\ x \in result[u] <=> x \in page' \ deleted'
      BY DEF ReadRight
    <2>2. Passed(u, x)
      BY <2>1 DEF Passed
    <2>3. CASE writer[x] = u
      BY <2>3
    <2>4. CASE Holds(cursor[u].mode, u, x) /\ (x \in result[u] <=> x \in page \ deleted)
      <3>1. Holds(cursor[u].mode, u, x)' /\ (x = k => HasExpl(queue, "S", k, u))
        BY <2>4, <1>5, <1>8
      <3>2. x = k => x \in deleted
        BY <3>1
      <3> QED
        BY <3>1, <3>2, <2>4
    <2> QED
      BY <2>1, <2>2, <2>3, <2>4 DEF ReadRight
  <1> QED
    BY <1>9, <1>10, <1>11

-----------------------------------------------------------------------------
(* Steps that change no row.                                                 *)

LEMMA Known ==
  ASSUME IInv
  PROVE  /\ TypeOK /\ LockTable(queue, writer) /\ waiting = WaitersOf(queue)
         /\ page \in SUBSET Key /\ deleted \subseteq page
         /\ writer \in [Key -> Trx \cup {NoTrx}] /\ queue \in Queues
         /\ op \in [Trx -> Op] /\ undo \in [Trx -> Seq(UndoRec)]
         /\ cursor \in [Trx -> [mode : LockMode, from : 0 .. MaxKey, pos : 0 .. Supremum]]
         /\ result \in [Trx -> SUBSET Key]
         /\ \A k \in Key : k \notin page => queue[k] = <<>> /\ writer[k] = NoTrx
         /\ \A u \in Trx : UndoRight(u) /\ RemoveRight(u) /\ ScanRight(u) /\ ReadRight(u)
  BY DEF IInv, Rights, TypeOK, Queues

LEMMA Stays ==
  ASSUME IInv, NEW u \in Trx, page' = page, deleted' \subseteq page, Keeps(queue, queue', u),
         undo'[u] = undo[u], cursor'[u] = cursor[u], result'[u] = result[u], GoesOn(u),
         \A k \in Key :
            \/ SameRow(k)
            \/ writer[k] # u /\ writer'[k] # u /\ ~HasExpl(queue, "S", k, u)
  PROVE  Rights(u)'
  <1>1. TypeOK /\ UndoRight(u) /\ RemoveRight(u) /\ ScanRight(u) /\ ReadRight(u)
    BY Known
  <1>2. undo[u] \in Seq(UndoRec)
    BY <1>1, TrxFacts
  <1>3. RemoveRight(u)' /\ ScanRight(u)' /\ ReadRight(u)'
    BY <1>1, RowsStay
  <1>4. \A k \in Key : HasExpl(queue, "S", k, u) => HasExpl(queue', "S", k, u)
    BY KeepsFacts, Sizes
  <1>5. UndoRight(u)'
    BY <1>1, <1>2, <1>4, UndoStays DEF SameRow
  <1> QED
    BY <1>3, <1>5 DEF Rights

(* The lock t asks for on a record of the page is not granted.               *)
LEMMA Refused ==
  ASSUME IInv, NEW t \in Trx, NEW r \in page \cup {Supremum}, NEW res, NEW again \in Op,
         Outcome(queue, res, writer, r, t), WaitOrError(t, res, again)
  PROVE  /\ LockTable(queue', writer) /\ waiting' = WaitersOf(queue')
         /\ \A u : Keeps(queue, queue', u)
         /\ \A k \in Key : k \notin page => queue'[k] = <<>>
         /\ page' = page /\ deleted' = deleted /\ writer' = writer /\ undo' = undo
         /\ op' \in [Trx -> Op] /\ \A u \in Trx : u # t => op'[u] = op[u]
         /\ op'[t] = RollBack \/ (op'[t] = again /\ Has(queue', r, t))
  <1>1. /\ waiting = WaitersOf(queue) /\ op \in [Trx -> Op]
        /\ \A k \in Key : k \notin page => queue[k] = <<>>
    BY Known
  <1>2. /\ queue' = res.queue /\ undo' = undo
        /\ page' = page /\ deleted' = deleted /\ writer' = writer
        /\ \/ res.err = "lock_wait" /\ waiting' = waiting \cup {t} /\ op' = [op EXCEPT ![t] = again]
           \/ res.err = "deadlock" /\ waiting' = waiting /\ op' = [op EXCEPT ![t] = RollBack]
    BY DEF WaitOrError, rows
  <1>3. /\ LockTable(res.queue, writer) /\ \A u : Keeps(queue, res.queue, u)
        /\ \A x \in Rec : x # r => res.queue[x] = queue[x]
        /\ res.err = "deadlock" => WaitersOf(res.queue) = WaitersOf(queue)
        /\ res.err = "lock_wait" =>
             WaitersOf(res.queue) = WaitersOf(queue) \cup {t} /\ Has(res.queue, r, t)
    BY DEF Outcome
  <1>4. \A k \in Key : k \notin page => k # r /\ k \in Rec
    BY Sizes
  <1>5. RollBack \in Op
    BY Sizes DEF RollBack, Op
  <1>6. waiting' = WaitersOf(queue')
    BY <1>1, <1>2, <1>3
  <1>7. op' \in [Trx -> Op] /\ (\A u \in Trx : u # t => op'[u] = op[u])
    BY <1>1, <1>2, <1>5
  <1>8. op'[t] = RollBack \/ (op'[t] = again /\ Has(queue', r, t))
    BY <1>1, <1>2, <1>3
  <1>9. \A k \in Key : k \notin page => queue'[k] = <<>>
    BY <1>1, <1>2, <1>3, <1>4
  <1> QED
    BY <1>2, <1>3, <1>6, <1>7, <1>8, <1>9

(* The lock t asks for on a record of the page is granted.                   *)
LEMMA Settled ==
  ASSUME IInv, NEW t \in Trx, NEW r \in page \cup {Supremum}, NEW res,
         Outcome(queue, res, writer, r, t), res.err = "success"
  PROVE  /\ LockTable(res.queue, writer) /\ waiting = WaitersOf(res.queue)
         /\ res.queue \in Queues
         /\ \A u : Keeps(queue, res.queue, u)
         /\ \A k \in Key : k \notin page => res.queue[k] = <<>>
  <1>1. /\ waiting = WaitersOf(queue)
        /\ \A k \in Key : k \notin page => queue[k] = <<>>
    BY Known
  <1>2. /\ LockTable(res.queue, writer) /\ \A u : Keeps(queue, res.queue, u)
        /\ \A x \in Rec : x # r => res.queue[x] = queue[x]
        /\ WaitersOf(res.queue) = WaitersOf(queue)
    BY DEF Outcome
  <1>3. \A k \in Key : k \notin page => k # r /\ k \in Rec
    BY Sizes
  <1>4. res.queue \in Queues
    BY <1>2 DEF LockTable
  <1> QED
    BY <1>1, <1>2, <1>3, <1>4

(* The cursor a scan of t goes on with, or begins with.                      *)
Scans(t, c) ==
  /\ c \in [mode : LockMode, from : Key, pos : 0 .. MaxKey] /\ c.from <= c.pos + 1
  /\ \/ cursor[t] = NoScan /\ op[t].do = "none" /\ c.pos = c.from - 1
     \/ cursor[t] = c /\ op[t].do \in {"none", "scan"}

LEMMA ScanRecIs ==
  ASSUME IInv, NEW t \in Trx, NEW c, Scans(t, c)
  PROVE  ScanRec(t, c) = NextRec(c.pos)
  <1>1. page \in SUBSET Key /\ ScanRight(t) /\ \A k : NextRec(k) = After(page, k)
    BY Known, TypeFacts
  <1>2. c.pos \in 0 .. MaxKey
    BY DEF Scans
  <1>3. CASE op[t].do = "none"
    BY <1>3 DEF ScanRec
  <1>4. CASE op[t].do = "scan"
    <2> DEFINE k == op[t].key
    <2>1. cursor[t] = c /\ c.pos < k /\ k <= After(page, c.pos)
      BY <1>1, <1>4 DEF Scans, ScanRight
    <2>2. k \in 0 .. Supremum /\ Supremum = MaxKey + 1 /\ MaxKey \in Nat
      BY Known, TrxFacts, Sizes
    <2>3. ScanRec(t, c) = IF k \in page \cup {Supremum} THEN k ELSE NextRec(k)
      BY <1>4 DEF ScanRec
    <2> HIDE DEF k
    <2>4. CASE k \in page \cup {Supremum}
      <3>1. After(page, c.pos) <= k
        BY <1>1, <1>2, <2>1, <2>4, AfterFacts
      <3>2. After(page, c.pos) \in Nat
        BY <1>1, <1>2, AfterFacts, Sizes
      <3>3. After(page, c.pos) = k
        BY <2>1, <2>2, <3>1, <3>2
      <3> QED
        BY <3>3, <2>3, <2>4, <1>1
    <2>5. CASE k \notin page \cup {Supremum}
      <3>1. k \in 0 .. MaxKey
        BY <2>2, <2>5
      <3>2. After(page, c.pos) \in page \cup {Supremum} /\ After(page, c.pos) \in Nat
        BY <1>1, <1>2, AfterFacts, Sizes
      <3>3. k < After(page, c.pos)
        BY <2>1, <2>2, <2>5, <3>2
      <3>4. After(page, k) = After(page, c.pos)
        BY <3>1, <3>3, <2>1, <1>1, <1>2, AfterGap
      <3> QED
        BY <3>4, <2>3, <2>5, <1>1
    <2> QED
      BY <2>4, <2>5
  <1> QED
    BY <1>3, <1>4 DEF Scans

(* Up to c.pos, t has the rights it had; between c.pos and the next record   *)
(* no row has been read.                                                     *)
LEMMA ScannedRows ==
  ASSUME IInv, NEW t \in Trx, NEW c, Scans(t, c), NEW k \in Key
  PROVE  /\ c.from <= k /\ k <= c.pos =>
              \/ writer[k] = t
              \/ Holds(c.mode, t, k) /\ (k \in result[t] <=> k \in page \ deleted)
         /\ k \in result[t] => c.from <= k /\ k <= c.pos
  <1>1. ScanRight(t) /\ ReadRight(t) /\ k \in Nat
    BY Known, KeyFacts
  <1>2. c.pos \in Nat /\ c.from \in Nat /\ c.from \in Key
    <2>1. c.pos \in 0 .. MaxKey /\ c.from \in Key
      BY DEF Scans
    <2>2. c.pos \in Nat
      BY <2>1
    <2>3. c.from \in Nat
      BY <2>1, KeyFacts
    <2> QED
      BY <2>1, <2>2, <2>3
  <1>3. CASE cursor[t] = NoScan /\ op[t].do = "none" /\ c.pos = c.from - 1
    <2>1. 0 \notin Key
      BY DEF Key
    <2>2. k \notin result[t]
      BY <2>1, <1>1, <1>3 DEF ScanRight, Passed, NoScan
    <2> QED
      BY <2>2, <1>1, <1>2, <1>3
  <1>4. CASE cursor[t] = c /\ op[t].do \in {"none", "scan"}
    BY <1>1, <1>2, <1>4 DEF ScanRight, ReadRight, Passed
  <1> QED
    BY <1>3, <1>4 DEF Scans

LEMMA ScanReads ==
  ASSUME IInv, NEW t \in Trx, NEW c, Scans(t, c), NEW rec, rec = NextRec(c.pos),
         page' = page, deleted' = deleted, writer' = writer, undo' = undo,
         Keeps(queue, queue', t),
         HasGranted(queue', rec, t), rec \in Key => HasExpl(queue', c.mode, rec, t),
         op'[t] = None, cursor'[t] = [c EXCEPT !.pos = rec],
         result'[t] = result[t] \cup ({rec} \cap (page \ deleted))
  PROVE  Rights(t)'
  <1>1. /\ page \in SUBSET Key /\ deleted \subseteq page /\ queue \in Queues
        /\ \A k : NextRec(k) = After(page, k)
        /\ ScanRight(t) /\ UndoRight(t) /\ undo[t] \in Seq(UndoRec)
    BY Known, TypeFacts, TrxFacts
  <1>2. /\ c \in [mode : LockMode, from : Key, pos : 0 .. MaxKey] /\ c.from <= c.pos + 1
        /\ c.pos \in 0 .. MaxKey /\ c.from \in Key /\ c.mode \in LockMode
    BY DEF Scans
  <1>3. /\ rec \in Rec /\ rec \in page \cup {Supremum} /\ rec > c.pos
        /\ \A r \in page \cup {Supremum} : r > c.pos => rec <= r
    BY <1>1, <1>2, AfterFacts
  <1>4. /\ cursor'[t].mode = c.mode /\ cursor'[t].from = c.from /\ cursor'[t].pos = rec
    BY <1>2
  <1>5. c.from <= rec /\ rec \in Nat /\ c.pos \in Nat /\ c.from \in Nat /\ rec # 0
    <2>1. rec \in Nat /\ c.pos \in Nat /\ c.from \in Nat
      BY <1>2, <1>3, Sizes
    <2> QED
      BY <2>1, <1>2, <1>3
  <1>6. UndoRight(t)'
    <2>1. \A k \in Key : HasExpl(queue, "S", k, t) => HasExpl(queue', "S", k, t)
      BY KeepsFacts, Sizes
    <2> QED
      BY <2>1, <1>1, UndoStays
  <1>7. RemoveRight(t)'
    BY DEF RemoveRight, None
  <1>8. ScanRight(t)'
    <2>1. \A k \in result'[t] : c.from <= k /\ k <= rec
      <3> TAKE k \in result'[t]
      <3>1. CASE k = rec
        BY <3>1, <1>5
      <3>2. CASE k # rec
        <4>1. k \in result[t] /\ k \in Key
          BY <3>2, Known
        <4>2. c.from <= k /\ k <= c.pos
          BY <4>1, ScannedRows
        <4> QED
          BY <4>1, <4>2, <1>3, <1>5, KeyFacts
      <3> QED
        BY <3>1, <3>2
    <2>2. \A k \in result'[t] : Passed(t, k)'
      BY <2>1, <1>2, <1>4 DEF Passed
    <2>3. c.from <= rec + 1
      BY <1>5
    <2> QED
      BY <2>2, <2>3, <1>2, <1>4 DEF ScanRight, None
  <1>9. ReadRight(t)'
    <2>1. SUFFICES ASSUME NEW k \in Key, c.from <= k, k <= rec
                   PROVE  \/ writer[k] = t
                          \/ /\ Holds(c.mode, t, k)'
                             /\ k \in result'[t] <=> k \in page \ deleted
      BY <1>4 DEF ReadRight, Passed
    <2>2. k \in Nat /\ k \in 0 .. MaxKey /\ k \in Rec
      BY KeyFacts, Sizes
    <2>3. CASE k <= c.pos
      <3>1. k # rec /\ (k \in result'[t] <=> k \in result[t])
        BY <2>2, <2>3, <1>3, <1>5
      <3>2. \/ writer[k] = t
            \/ Holds(c.mode, t, k) /\ (k \in result[t] <=> k \in page \ deleted)
        BY <2>1, <2>3, ScannedRows
      <3>3. Holds(c.mode, t, k) => Holds(c.mode, t, k)'
        <4>1. k \in page => (HasExpl(queue, c.mode, k, t) => HasExpl(queue', c.mode, k, t))
          BY <2>2, KeepsFacts
        <4>2. NextRec(k) \in Rec /\ NextRec(k)' = NextRec(k)
          <5>1. NextRec(k)' = NextRec(k)
            BY DEF NextRec
          <5> QED
            BY <5>1, <2>2, <1>1, AfterFacts
        <4>3. HasGranted(queue, NextRec(k), t) => HasGranted(queue', NextRec(k), t)
          BY <4>2, KeepsFacts
        <4> QED
          BY <4>1, <4>2, <4>3 DEF Holds
      <3> QED
        BY <3>1, <3>2, <3>3
    <2>4. CASE c.pos < k /\ k < rec
      <3>1. k \notin page /\ NextRec(k) = rec
        BY <2>2, <2>4, <1>1, <1>2, AfterGap
      <3>2. NextRec(k)' = rec
        <4>1. NextRec(k)' = NextRec(k)
          BY DEF NextRec
        <4> QED
          BY <3>1, <4>1
      <3>3. Holds(c.mode, t, k)'
        BY <3>1, <3>2 DEF Holds
      <3>4. k \notin result'[t]
        <4>1. ~ (k <= c.pos)
          BY <2>2, <2>4, <1>5
        <4>2. k \notin result[t] /\ k # rec
          BY <4>1, <2>2, <2>4, <1>5, ScannedRows
        <4> QED
          BY <4>2
      <3> QED
        BY <3>1, <3>3, <3>4
    <2>5. CASE k = rec
      <3>1. k \in page
        BY <2>5, <1>3, Sizes
      <3>2. Holds(c.mode, t, k)'
        BY <3>1, <2>5 DEF Holds
      <3>3. k \notin result[t]
        <4>1. ~ (k <= c.pos)
          BY <2>5, <1>3, <1>5
        <4> QED
          BY <4>1, ScannedRows
      <3> QED
        BY <3>1, <3>2, <3>3, <2>5
    <2> QED
      BY <2>1, <2>2, <2>3, <2>4, <2>5, <1>5
  <1> QED
    BY <1>6, <1>7, <1>8, <1>9 DEF Rights

LEMMA ScanWaits ==
  ASSUME IInv, NEW t \in Trx, NEW c, Scans(t, c), NEW rec, rec = NextRec(c.pos),
         page' = page, deleted' = deleted, writer' = writer, undo' = undo,
         Keeps(queue, queue', t),
         \/ op'[t] = RollBack
         \/ op'[t] = [do |-> "scan", key |-> rec] /\ Has(queue', rec, t),
         cursor'[t] = c, result' = result
  PROVE  Rights(t)'
  <1>1. /\ page \in SUBSET Key /\ deleted \subseteq page /\ queue \in Queues
        /\ \A k : NextRec(k) = After(page, k)
        /\ ScanRight(t) /\ UndoRight(t) /\ undo[t] \in Seq(UndoRec) /\ result[t] \in SUBSET Key
    BY Known, TypeFacts, TrxFacts
  <1>2. /\ c \in [mode : LockMode, from : Key, pos : 0 .. MaxKey] /\ c.from <= c.pos + 1
        /\ c.pos \in 0 .. MaxKey /\ c.from \in Key /\ c.mode \in LockMode
    BY DEF Scans
  <1>3. /\ rec \in Rec /\ rec > c.pos /\ rec \in Nat /\ c.pos \in Nat
    <2>1. rec \in Rec /\ rec > c.pos
      BY <1>1, <1>2, AfterFacts
    <2> QED
      BY <2>1, <1>2, Sizes
  <1>4. NextRec(c.pos)' = rec
    BY <1>1 DEF NextRec
  <1>5. \A k : NextRec(k)' = NextRec(k)
    BY DEF NextRec
  <1>6. UndoRight(t)'
    <2>1. \A k \in Key : HasExpl(queue, "S", k, t) => HasExpl(queue', "S", k, t)
      BY KeepsFacts, Sizes
    <2> QED
      BY <2>1, <1>1, UndoStays
  <1>7. RemoveRight(t)'
    BY DEF RemoveRight, RollBack
  <1>8. ScanRight(t)'
    <2>1. \A k \in result'[t] : Passed(t, k)'
      BY <1>1, <1>2, ScannedRows DEF Passed
    <2>2. ASSUME op'[t].do = "scan"
          PROVE  /\ cursor'[t].pos < op'[t].key /\ op'[t].key <= NextRec(c.pos)'
                 /\ Has(queue', NextRec(c.pos)', t)
      BY <2>2, <1>3, <1>4 DEF RollBack
    <2>3. NextRec(cursor[t].pos)' = NextRec(c.pos)
      BY DEF NextRec
    <2> QED
      BY <2>1, <2>2, <2>3, <1>2, <1>4 DEF ScanRight
  <1>9. ReadRight(t)'
    <2>1. SUFFICES ASSUME NEW k \in Key, c.from <= k, k <= c.pos
                   PROVE  \/ writer[k] = t
                          \/ /\ Holds(c.mode, t, k)'
                             /\ k \in result[t] <=> k \in page \ deleted
      BY <1>2 DEF ReadRight, Passed
    <2>2. \/ writer[k] = t
          \/ Holds(c.mode, t, k) /\ (k \in result[t] <=> k \in page \ deleted)
      BY <2>1, ScannedRows
    <2>3. Holds(c.mode, t, k) => Holds(c.mode, t, k)'
      <3>1. k \in page => (HasExpl(queue, c.mode, k, t) => HasExpl(queue', c.mode, k, t))
        BY Sizes, KeepsFacts
      <3>2. NextRec(k) \in Rec /\ NextRec(k)' = NextRec(k)
        BY <1>1, <1>5, KeyFacts, AfterFacts
      <3>3. HasGranted(queue, NextRec(k), t) => HasGranted(queue', NextRec(k), t)
        BY <3>2, KeepsFacts
      <3> QED
        BY <3>1, <3>2, <3>3 DEF Holds
    <2> QED
      BY <2>2, <2>3
  <1> QED
    BY <1>6, <1>7, <1>8, <1>9 DEF Rights

LEMMA ScanStep ==
  ASSUME IInv, NEW t \in Trx, NEW c, Scans(t, c), ScanNext(t, c)
  PROVE  IInv'
  <1> DEFINE rec == NextRec(c.pos)
             res == ReadCheckAndLock(queue, c.mode, rec, t)
             again == [do |-> "scan", key |-> rec]
  <1>1. ScanRec(t, c) = rec
    BY ScanRecIs
  <1>2. /\ c \in [mode : LockMode, from : Key, pos : 0 .. MaxKey]
        /\ c.pos \in 0 .. MaxKey /\ c.from \in Key /\ c.mode \in LockMode
    BY DEF Scans
  <1>3. /\ TypeOK /\ LockTable(queue, writer) /\ waiting = WaitersOf(queue)
        /\ page \in SUBSET Key /\ deleted \subseteq page
        /\ writer \in [Key -> Trx \cup {NoTrx}] /\ queue \in Queues
        /\ op \in [Trx -> Op] /\ undo \in [Trx -> Seq(UndoRec)]
        /\ cursor \in [Trx -> [mode : LockMode, from : 0 .. MaxKey, pos : 0 .. Supremum]]
        /\ result \in [Trx -> SUBSET Key]
        /\ \A k \in Key : k \notin page => queue[k] = <<>> /\ writer[k] = NoTrx
    BY Known
  <1>4. rec \in Rec /\ rec \in page \cup {Supremum}
    <2>1. rec = After(page, c.pos)
      BY <1>3, TypeFacts
    <2>2. After(page, c.pos) \in Rec /\ After(page, c.pos) \in page \cup {Supremum}
      BY <1>2, <1>3, AfterFacts
    <2> HIDE DEF rec
    <2> QED
      BY <2>1, <2>2
  <1>5. /\ t \notin waiting
        /\ \/ /\ res.err = "success" /\ queue' = res.queue
              /\ op' = [op EXCEPT ![t] = None]
              /\ cursor' = [cursor EXCEPT ![t] = [c EXCEPT !.pos = rec]]
              /\ result' = [result EXCEPT ![t] = @ \cup ({rec} \cap (page \ deleted))]
              /\ page' = page /\ deleted' = deleted /\ writer' = writer
              /\ waiting' = waiting /\ undo' = undo
           \/ /\ cursor' = [cursor EXCEPT ![t] = c]
              /\ WaitOrError(t, res, again)
              /\ result' = result
    BY <1>1 DEF ScanNext, rows
  <1>6. /\ Outcome(queue, res, writer, rec, t)
        /\ res.err = "success" =>
             HasGranted(res.queue, rec, t) /\ (rec \in Key => HasExpl(res.queue, c.mode, rec, t))
    BY <1>2, <1>3, <1>4, <1>5, ReadCheckFacts
  <1>7. again \in Op /\ None \in Op /\ rec \in 0 .. Supremum
    <2>1. rec \in 0 .. Supremum /\ 0 \in 0 .. Supremum
      BY <1>4, Sizes DEF Rec
    <2> QED
      BY <2>1 DEF Op, None
  <1>8. /\ c \in [mode : LockMode, from : 0 .. MaxKey, pos : 0 .. Supremum]
        /\ [c EXCEPT !.pos = rec] \in [mode : LockMode, from : 0 .. MaxKey, pos : 0 .. Supremum]
    <2>1. c.from \in 0 .. MaxKey /\ c.pos \in 0 .. Supremum
      <3>1. c.from \in 0 .. MaxKey
        BY <1>2, KeyFacts
      <3>2. c.pos \in 0 .. Supremum
        BY <1>2, Sizes
      <3> QED
        BY <3>1, <3>2
    <2> QED
      BY <2>1, <1>2, <1>7
  <1> HIDE DEF rec, res
  <1>9. CASE /\ res.err = "success" /\ queue' = res.queue
             /\ op' = [op EXCEPT ![t] = None]
             /\ cursor' = [cursor EXCEPT ![t] = [c EXCEPT !.pos = rec]]
             /\ result' = [result EXCEPT ![t] = @ \cup ({rec} \cap (page \ deleted))]
             /\ page' = page /\ deleted' = deleted /\ writer' = writer
             /\ waiting' = waiting /\ undo' = undo
    <2>1. /\ LockTable(queue', writer') /\ waiting' = WaitersOf(queue') /\ queue' \in Queues
          /\ \A u : Keeps(queue, queue', u)
          /\ \A k \in Key : k \notin page => queue'[k] = <<>>
      BY <1>4, <1>6, <1>9, Settled
    <2>2. TypeOK'
      <3>1. {rec} \cap (page \ deleted) \in SUBSET Key
        BY <1>3
      <3>2. op' \in [Trx -> Op] /\ result' \in [Trx -> SUBSET Key]
        BY <3>1, <1>3, <1>7, <1>9
      <3>3. cursor' \in [Trx -> [mode : LockMode, from : 0 .. MaxKey, pos : 0 .. Supremum]]
        BY <1>3, <1>8, <1>9
      <3> QED
        BY <2>1, <3>2, <3>3, <1>3, <1>9 DEF TypeOK, Queues
    <2>3. ASSUME NEW u \in Trx PROVE Rights(u)'
      <3>1. CASE u = t
        <4>1. /\ op'[t] = None /\ cursor'[t] = [c EXCEPT !.pos = rec]
              /\ result'[t] = result[t] \cup ({rec} \cap (page \ deleted))
          BY <1>3, <1>9
        <4>2. HasGranted(queue', rec, t) /\ (rec \in Key => HasExpl(queue', c.mode, rec, t))
          BY <1>6, <1>9
        <4>3. rec = NextRec(c.pos)
          BY DEF rec
        <4> QED
          BY <4>1, <4>2, <4>3, <2>1, <3>1, <1>9, ScanReads
      <3>2. CASE u # t
        <4>1. op'[u] = op[u] /\ cursor'[u] = cursor[u] /\ result'[u] = result[u]
          BY <3>2, <1>3, <1>9
        <4>2. \A k \in Key : SameRow(k)
          BY <1>9 DEF SameRow
        <4> QED
          BY <4>1, <4>2, <2>1, <1>3, <1>9, Stays DEF GoesOn
      <3> QED
        BY <3>1, <3>2
    <2> QED
      BY <2>1, <2>2, <2>3 DEF IInv
  <1>10. CASE /\ cursor' = [cursor EXCEPT ![t] = c]
              /\ WaitOrError(t, res, again)
              /\ result' = result
    <2>1. /\ LockTable(queue', writer) /\ waiting' = WaitersOf(queue')
          /\ \A u : Keeps(queue, queue', u)
          /\ \A k \in Key : k \notin page => queue'[k] = <<>>
          /\ page' = page /\ deleted' = deleted /\ writer' = writer /\ undo' = undo
          /\ op' \in [Trx -> Op] /\ \A u \in Trx : u # t => op'[u] = op[u]
          /\ op'[t] = RollBack \/ (op'[t] = again /\ Has(queue', rec, t))
      BY <1>4, <1>6, <1>7, <1>10, Refused
    <2>2. TypeOK'
      <3>1. queue' \in Queues /\ waiting' \in SUBSET Trx
        BY <2>1 DEF LockTable, WaitersOf
      <3>2. cursor' \in [Trx -> [mode : LockMode, from : 0 .. MaxKey, pos : 0 .. Supremum]]
        BY <1>3, <1>8, <1>10
      <3> QED
        BY <2>1, <3>1, <3>2, <1>3, <1>10 DEF TypeOK, Queues
    <2>3. ASSUME NEW u \in Trx PROVE Rights(u)'
      <3>1. CASE u = t
        <4>1. cursor'[t] = c
          BY <1>3, <1>10
        <4>2. rec = NextRec(c.pos)
          BY DEF rec
        <4> QED
          BY <4>1, <4>2, <2>1, <3>1, <1>10, ScanWaits
      <3>2. CASE u # t
        <4>1. op'[u] = op[u] /\ cursor'[u] = cursor[u] /\ result'[u] = result[u]
          BY <3>2, <1>3, <1>10, <2>1
        <4>2. \A k \in Key : SameRow(k)
          BY <2>1 DEF SameRow
        <4> QED
          BY <4>1, <4>2, <2>1, <1>3, Stays DEF GoesOn
      <3> QED
        BY <3>1, <3>2
    <2> QED
      BY <2>1, <2>2, <2>3 DEF IInv
  <1> QED
    BY <1>5, <1>9, <1>10

LEMMA StartScanStep ==
  ASSUME IInv, NEW t \in Trx, NEW k \in From, NEW m \in LockMode, StartScan(t, k, m)
  PROVE  IInv'
  <1> DEFINE c == [mode |-> m, from |-> k, pos |-> k - 1]
  <1>1. k \in Key /\ k - 1 \in 0 .. MaxKey /\ k \in Nat
    BY RecordLockAssumption, KeyFacts DEF Key
  <1>2. ScanNext(t, c) /\ op[t].do = "none" /\ cursor[t] = NoScan
    BY DEF StartScan
  <1>3. Scans(t, c)
    BY <1>1, <1>2 DEF Scans
  <1> QED
    BY <1>2, <1>3, ScanStep

LEMMA ScanMoreStep ==
  ASSUME IInv, NEW t \in Trx, Scan(t)
  PROVE  IInv'
  <1> DEFINE c == cursor[t]
  <1>1. /\ ScanNext(t, c) /\ op[t].do \in {"none", "scan"} /\ c # NoScan /\ c.pos < Supremum
    BY DEF Scan
  <1>2. c.from \in Key /\ c.from <= c.pos + 1
    BY <1>1, Known DEF ScanRight
  <1>3. c \in [mode : LockMode, from : 0 .. MaxKey, pos : 0 .. Supremum]
    BY Known, TrxFacts
  <1>4. c.pos \in 0 .. MaxKey
    BY <1>1, <1>3, Sizes
  <1>5. Scans(t, c)
    BY <1>1, <1>2, <1>3, <1>4 DEF Scans
  <1> QED
    BY <1>1, <1>5, ScanStep

-----------------------------------------------------------------------------
(* Steps that change a row.                                                  *)

(* Only the writer of k changes, to one for whom its requests are right.     *)
Replaces(v, w, q, k) ==
  /\ \A x \in Key : x # k => v[x] = w[x]
  /\ \A t \in Trx : v[k] = t => Guards(q[k], t)

LEMMA NewWriter ==
  ASSUME NEW q, NEW w, NEW v, LockTable(q, w), NEW k \in Key, Replaces(v, w, q, k)
  PROVE  LockTable(q, v)
  <1>1. ASSUME NEW x \in Key
        PROVE  Ordered(q[x]) /\ \A t \in Trx : v[x] = t => Guards(q[x], t)
    <2>1. CASE x = k
      BY <2>1 DEF LockTable, Replaces
    <2>2. CASE x # k
      BY <2>2 DEF LockTable, Replaces
    <2> QED
      BY <2>1, <2>2
  <1> QED
    BY <1>1 DEF LockTable

(* Who has written a record or x-locked it has it alone.                     *)
LEMMA Alone ==
  ASSUME IInv, NEW t \in Trx, NEW k \in Key, writer[k] = t \/ HasExpl(queue, "X", k, t)
  PROVE  /\ Guards(queue[k], t)
         /\ \A u \in Trx : u # t => writer[k] # u /\ ~HasExpl(queue, "S", k, u)
  <1>1. queue \in Queues /\ LockTable(queue, writer) /\ "S" \in LockMode /\ "X" \in LockMode
    BY Known DEF LockMode
  <1>2. Guards(queue[k], t)
    <2>1. CASE writer[k] = t
      BY <2>1, <1>1 DEF LockTable
    <2>2. CASE HasExpl(queue, "X", k, t)
      <3>1. Ordered(queue[k])
        BY <1>1 DEF LockTable
      <3> QED
        BY <3>1, <2>2, <1>1, ExplExcludes
    <2> QED
      BY <2>1, <2>2
  <1>3. ASSUME NEW u \in Trx, u # t PROVE ~HasExpl(queue, "S", k, u)
    BY <1>1, <1>2, <1>3, GuardsExclude
  <1>4. ASSUME NEW u \in Trx, u # t, writer[k] = u PROVE FALSE
    <2>1. Guards(queue[k], u)
      BY <1>1, <1>4 DEF LockTable
    <2>2. ~HasExpl(queue, "X", k, t)
      BY <2>1, <1>1, <1>4, GuardsExclude
    <2> QED
      BY <2>2, <1>4
  <1> QED
    BY <1>2, <1>3, <1>4

LEMMA UndoGrows ==
  ASSUME NEW t \in Trx, UndoRight(t), undo[t] \in Seq(UndoRec), NEW v \in UndoRec,
         undo'[t] = Append(undo[t], v), v.key \in page', page \subseteq page',
         \A x \in Key : x # v.key => writer'[x] = writer[x], writer'[v.key] = t,
         v.prev = writer[v.key], writer[v.key] \in {t, NoTrx},
         v.type = "insert" => v.prev = NoTrx,
         v.type = "upd_del" => HasExpl(queue', "S", v.key, t),
         \A x \in Key : HasExpl(queue, "S", x, t) => HasExpl(queue', "S", x, t)
  PROVE  UndoRight(t)'
  <1> DEFINE s == undo[t]
             a == undo'[t]
             n == Len(s)
  <1>1. /\ n \in Nat /\ DOMAIN s = 1 .. n /\ DOMAIN a = 1 .. (n + 1)
        /\ a[n + 1] = v /\ \A i \in 1 .. n : a[i] = s[i] /\ s[i] \in UndoRec
    OBVIOUS
  <1>2. v.key \in Key /\ \A i \in 1 .. n : s[i].key \in Key
    BY <1>1 DEF UndoRec
  <1>3. \A k \in Key : writer[k] = t => \E i \in 1 .. n : s[i].key = k
    BY <1>1 DEF UndoRight
  <1>4. \A i \in 1 .. n :
          /\ s[i].key \in page /\ writer[s[i].key] = t
          /\ s[i].prev = IF \E j \in 1 .. (i-1) : s[j].key = s[i].key THEN t ELSE NoTrx
          /\ s[i].type = "insert" => s[i].prev = NoTrx
          /\ s[i].type = "upd_del" => HasExpl(queue, "S", s[i].key, t)
    BY <1>1 DEF UndoRight
  <1>5. NoTrx # t
    BY Sizes
  <1> HIDE DEF s, a, n
  <1>6. \A k \in Key : writer'[k] = t => \E i \in 1 .. (n+1) : a[i].key = k
    <2>1. SUFFICES ASSUME NEW k \in Key, writer'[k] = t
                   PROVE  \E i \in 1 .. (n+1) : a[i].key = k
      OBVIOUS
    <2>2. CASE k = v.key
      <3>1. n + 1 \in 1 .. (n + 1)
        BY <1>1
      <3> QED
        BY <3>1, <2>2, <1>1
    <2>3. CASE k # v.key
      <3>1. PICK i \in 1 .. n : s[i].key = k
        BY <2>1, <2>3, <1>3
      <3>2. i \in 1 .. (n + 1)
        BY <1>1
      <3> QED
        BY <3>1, <3>2, <1>1
    <2> QED
      BY <2>2, <2>3
  <1>7. ASSUME NEW i \in 1 .. (n + 1)
        PROVE  /\ a[i].key \in page' /\ writer'[a[i].key] = t
               /\ a[i].prev = IF \E j \in 1 .. (i-1) : a[j].key = a[i].key THEN t ELSE NoTrx
               /\ a[i].type = "insert" => a[i].prev = NoTrx
               /\ a[i].type = "upd_del" => HasExpl(queue', "S", a[i].key, t)
    <2>1. CASE i = n + 1
      <3>1. a[i] = v /\ \A j \in 1 .. (i-1) : a[j] = s[j] /\ j \in 1 .. n
        BY <2>1, <1>1
      <3>2. (\E j \in 1 .. (i-1) : a[j].key = v.key) <=> writer[v.key] = t
        <4>1. 1 .. (i-1) = 1 .. n
          BY <2>1, <1>1
        <4>2. \A j \in 1 .. n : s[j].key = v.key => writer[v.key] = t
          BY <1>4
        <4>3. (\E j \in 1 .. n : s[j].key = v.key) <=> writer[v.key] = t
          BY <4>2, <1>2, <1>3
        <4>4. \A j \in 1 .. n : a[j] = s[j]
          BY <1>1
        <4> QED
          BY <4>1, <4>3, <4>4
      <3> QED
        BY <3>1, <3>2, <1>5
    <2>2. CASE i # n + 1
      <3>1. i \in 1 .. n /\ a[i] = s[i]
        BY <2>2, <1>1
      <3>2. \A j \in 1 .. (i-1) : a[j] = s[j]
        BY <3>1, <1>1
      <3>3. a[i].prev = IF \E j \in 1 .. (i-1) : a[j].key = a[i].key THEN t ELSE NoTrx
        BY <3>1, <3>2, <1>4
      <3>4. s[i].key \in Key /\ writer'[s[i].key] = t
        BY <3>1, <1>2, <1>4
      <3>5. s[i].key \in page'
        BY <3>1, <1>4
      <3>6. s[i].type = "insert" => s[i].prev = NoTrx
        BY <3>1, <1>4
      <3>7. s[i].type = "upd_del" => HasExpl(queue', "S", s[i].key, t)
        <4>1. s[i].type = "upd_del" => HasExpl(queue, "S", s[i].key, t)
          BY <3>1, <1>4
        <4> QED
          BY <3>4, <4>1
      <3> QED
        BY <3>1, <3>3, <3>4, <3>5, <3>6, <3>7
    <2> QED
      BY <2>1, <2>2
  <1>8. \A k \in Key : writer'[k] = t => \E i \in DOMAIN a : a[i].key = k
    BY <1>1, <1>6
  <1>9. \A i \in DOMAIN a :
          /\ a[i].key \in page' /\ writer'[a[i].key] = t
          /\ a[i].prev = IF \E j \in 1 .. (i-1) : a[j].key = a[i].key THEN t ELSE NoTrx
          /\ a[i].type = "insert" => a[i].prev = NoTrx
          /\ a[i].type = "upd_del" => HasExpl(queue', "S", a[i].key, t)
    BY <1>1, <1>7
  <1> QED
    BY <1>8, <1>9 DEF UndoRight, a

LEMMA DeleteMarkStep ==
  ASSUME IInv, NEW t \in Trx, DeleteMark(t)
  PROVE  IInv'
  <1> DEFINE k == cursor[t].pos
             v == [type |-> "del_mark", key |-> k, prev |-> writer[k]]
  <1>1. /\ TypeOK /\ LockTable(queue, writer) /\ waiting = WaitersOf(queue)
        /\ page \in SUBSET Key /\ deleted \subseteq page
        /\ writer \in [Key -> Trx \cup {NoTrx}] /\ queue \in Queues
        /\ op \in [Trx -> Op] /\ undo \in [Trx -> Seq(UndoRec)]
        /\ cursor \in [Trx -> [mode : LockMode, from : 0 .. MaxKey, pos : 0 .. Supremum]]
        /\ result \in [Trx -> SUBSET Key]
        /\ \A x \in Key : x \notin page => queue[x] = <<>> /\ writer[x] = NoTrx
        /\ UndoRight(t) /\ RemoveRight(t) /\ ScanRight(t) /\ ReadRight(t)
    BY Known
  <1>2. /\ op[t].do = "none" /\ cursor[t].mode = "X" /\ k \in result[t] /\ k \notin deleted
        /\ deleted' = deleted \cup {k}
        /\ writer' = [writer EXCEPT ![k] = t]
        /\ undo' = [undo EXCEPT ![t] = Append(@, v)]
        /\ page' = page /\ queue' = queue /\ waiting' = waiting /\ op' = op
        /\ cursor' = cursor /\ result' = result
    BY DEF DeleteMark, Runs, scans
  <1> HIDE DEF k
  <1>3. k \in Key /\ Passed(t, k)
    BY <1>1, <1>2 DEF ScanRight
  <1>4. k \in page /\ (writer[k] = t \/ HasExpl(queue, "X", k, t))
    <2>1. writer[k] = t \/ (Holds("X", t, k) /\ k \in page)
      BY <1>1, <1>2, <1>3 DEF ReadRight
    <2>2. writer[k] = t => k \in page
      BY <1>1, <1>3, Sizes
    <2> QED
      BY <2>1, <2>2 DEF Holds
  <1>5. /\ Guards(queue[k], t)
        /\ \A u \in Trx : u # t => writer[k] # u /\ ~HasExpl(queue, "S", k, u)
    BY <1>3, <1>4, Alone
  <1>6. writer'[k] = t /\ (\A x \in Key : x # k => writer'[x] = writer[x])
    BY <1>1, <1>2, <1>3
  <1>7. writer[k] \in {t, NoTrx}
    BY <1>1, <1>3, <1>5
  <1>8. v \in UndoRec
    BY <1>3, <1>7 DEF UndoRec
  <1>9. \A u : Keeps(queue, queue', u)
    BY <1>2 DEF Keeps, KeepsAt
  <1>10. LockTable(queue', writer') /\ waiting' = WaitersOf(queue')
    <2>1. Replaces(writer', writer, queue, k)
      BY <1>5, <1>6 DEF Replaces
    <2>2. LockTable(queue, writer')
      BY <2>1, <1>1, <1>3, NewWriter
    <2> QED
      BY <2>2, <1>1, <1>2
  <1>11. TypeOK'
    <2>1. writer' \in [Key -> Trx \cup {NoTrx}] /\ undo' \in [Trx -> Seq(UndoRec)]
      BY <1>1, <1>2, <1>8
    <2>2. deleted' \in SUBSET page'
      BY <1>1, <1>2, <1>4
    <2>3. \A x \in Key : x \notin page' => queue'[x] = <<>> /\ writer'[x] = NoTrx
      BY <1>1, <1>2, <1>4, <1>6
    <2> QED
      BY <2>1, <2>2, <2>3, <1>1, <1>2 DEF TypeOK
  <1>12. \A x \in Key : x # k => SameRow(x)
    BY <1>2, <1>6 DEF SameRow
  <1>13. Rights(t)'
    <2>1. RemoveRight(t)' /\ ScanRight(t)' /\ ReadRight(t)'
      <3>1. \A x \in Key : SameRow(x) \/ (writer'[x] = t /\ op'[t].do # "remove")
        BY <1>2, <1>6, <1>12
      <3>2. deleted' \subseteq page /\ GoesOn(t)
        BY <1>1, <1>2, <1>4 DEF GoesOn
      <3> QED
        BY <3>1, <3>2, <1>1, <1>2, <1>9, RowsStay
    <2>2. UndoRight(t)'
      <3>1. undo'[t] = Append(undo[t], v) /\ undo[t] \in Seq(UndoRec)
        BY <1>1, <1>2
      <3>2. v.key = k /\ v.prev = writer[k] /\ v.type = "del_mark"
        OBVIOUS
      <3> HIDE DEF v
      <3> QED
        BY <3>1, <3>2, <1>1, <1>2, <1>4, <1>6, <1>7, <1>8, UndoGrows
    <2> QED
      BY <2>1, <2>2 DEF Rights
  <1>14. ASSUME NEW u \in Trx, u # t PROVE Rights(u)'
    <2>1. undo'[u] = undo[u]
      BY <1>1, <1>2, <1>14
    <2>2. \A x \in Key : \/ SameRow(x)
                         \/ writer[x] # u /\ writer'[x] # u /\ ~HasExpl(queue, "S", x, u)
      BY <1>5, <1>6, <1>12, <1>14
    <2>3. deleted' \subseteq page /\ GoesOn(u)
      BY <1>1, <1>2, <1>4 DEF GoesOn
    <2> QED
      BY <2>1, <2>2, <2>3, <1>2, <1>9, Stays
  <1> QED
    BY <1>10, <1>11, <1>13, <1>14 DEF IInv

-----------------------------------------------------------------------------
(* Inserts.                                                                  *)

LEMMA InsertRefused ==
  ASSUME IInv, NEW t \in Trx, NEW k \in Key, Inserts(t, k), NEW r \in page \cup {Supremum},
         NEW res, Outcome(queue, res, writer, r, t),
         WaitOrError(t, res, [do |-> "insert", key |-> k]), cursor' = cursor, result' = result
  PROVE  IInv'
  <1> DEFINE again == [do |-> "insert", key |-> k]
  <1>1. again \in Op
    <2>1. k \in 0 .. Supremum
      BY Sizes DEF Key
    <2> QED
      BY <2>1 DEF Op
  <1>2. /\ LockTable(queue', writer) /\ waiting' = WaitersOf(queue')
        /\ \A u : Keeps(queue, queue', u)
        /\ \A x \in Key : x \notin page => queue'[x] = <<>>
        /\ page' = page /\ deleted' = deleted /\ writer' = writer /\ undo' = undo
        /\ op' \in [Trx -> Op] /\ \A u \in Trx : u # t => op'[u] = op[u]
        /\ op'[t] = RollBack \/ op'[t] = again
    BY <1>1, Refused
  <1>3. TypeOK'
    <2>1. queue' \in Queues /\ waiting' \in SUBSET Trx
      BY <1>2 DEF LockTable, WaitersOf
    <2> QED
      BY <1>2, <2>1, Known DEF TypeOK, Queues
  <1>4. ASSUME NEW u \in Trx PROVE Rights(u)'
    <2>1. op[t].do \in {"none", "insert"}
      BY DEF Inserts
    <2>2. GoesOn(u)
      BY <1>2, <2>1 DEF GoesOn, RollBack
    <2>3. \A x \in Key : SameRow(x)
      BY <1>2 DEF SameRow
    <2> QED
      BY <2>2, <2>3, <1>2, Known, Stays
  <1> QED
    BY <1>2, <1>3, <1>4 DEF IInv

LEMMA InsertDuplicateStep ==
  ASSUME IInv, NEW t \in Trx, NEW k \in Key, InsertDuplicate(t, k)
  PROVE  IInv'
  <1> DEFINE res == ReadCheckAndLock(queue, "S", k, t)
  <1>1. /\ Inserts(t, k) /\ k \in page /\ t \notin waiting
        /\ \/ /\ res.err = "success" /\ queue' = res.queue
              /\ op' = [op EXCEPT ![t] = None]
              /\ page' = page /\ deleted' = deleted /\ writer' = writer
              /\ waiting' = waiting /\ undo' = undo /\ cursor' = cursor /\ result' = result
           \/ /\ WaitOrError(t, res, [do |-> "insert", key |-> k])
              /\ cursor' = cursor /\ result' = result
    BY DEF InsertDuplicate, DuplicateErrorInClust, Inserts, rows, scans
  <1>2. /\ LockTable(queue, writer) /\ waiting = WaitersOf(queue)
        /\ writer \in [Key -> Trx \cup {NoTrx}] /\ queue \in Queues
        /\ op \in [Trx -> Op] /\ deleted \subseteq page
    BY Known
  <1>3. k \in Rec /\ "S" \in LockMode /\ None \in Op
    BY Sizes DEF LockMode, None, Op
  <1>4. Outcome(queue, res, writer, k, t)
    BY <1>1, <1>2, <1>3, ReadCheckFacts
  <1> HIDE DEF res
  <1>5. CASE /\ res.err = "success" /\ queue' = res.queue
             /\ op' = [op EXCEPT ![t] = None]
             /\ page' = page /\ deleted' = deleted /\ writer' = writer
             /\ waiting' = waiting /\ undo' = undo /\ cursor' = cursor /\ result' = result
    <2>1. /\ LockTable(queue', writer') /\ waiting' = WaitersOf(queue') /\ queue' \in Queues
          /\ \A u : Keeps(queue, queue', u)
          /\ \A x \in Key : x \notin page => queue'[x] = <<>>
      BY <1>1, <1>4, <1>5, Settled
    <2>2. op' \in [Trx -> Op]
      BY <1>2, <1>3, <1>5
    <2>3. TypeOK'
      BY <2>1, <2>2, <1>5, Known DEF TypeOK, Queues
    <2>4. ASSUME NEW u \in Trx PROVE Rights(u)'
      <3>1. op[t].do \in {"none", "insert"}
        BY <1>1 DEF Inserts
      <3>2. GoesOn(u)
        BY <3>1, <1>2, <1>5 DEF GoesOn, None
      <3>3. \A x \in Key : SameRow(x)
        BY <1>5 DEF SameRow
      <3> QED
        BY <3>2, <3>3, <2>1, <1>2, <1>5, Stays
    <2> QED
      BY <2>1, <2>3, <2>4 DEF IInv
  <1>6. CASE /\ WaitOrError(t, res, [do |-> "insert", key |-> k])
             /\ cursor' = cursor /\ result' = result
    BY <1>1, <1>4, <1>6, InsertRefused
  <1> QED
    BY <1>1, <1>5, <1>6

(* Who has shared the record k and may modify it has it alone.               *)
LEMMA FreeAlone ==
  ASSUME NEW q \in Queues, NEW w, LockTable(q, w), NEW k \in Key, NEW t \in Trx,
         Free(q, k, t), HasExpl(q, "S", k, t)
  PROVE  /\ Guards(q[k], t)
         /\ \A u \in Trx : u # t => w[k] # u /\ ~HasExpl(q, "S", k, u)
  <1>1. "S" \in LockMode
    BY DEF LockMode
  <1>2. Guards(q[k], t)
    <2>1. CASE HasExpl(q, "X", k, t)
      BY <2>1, ExplExcludes DEF LockTable
    <2>2. CASE \A x \in Range(q[k]) : x.trx # t => x.gap
      BY <2>2 DEF Guards
    <2> QED
      BY <2>1, <2>2 DEF Free
  <1>3. ASSUME NEW u \in Trx, u # t PROVE ~HasExpl(q, "S", k, u)
    BY <1>1, <1>2, <1>3, GuardsExclude
  <1>4. ASSUME NEW u \in Trx, u # t, w[k] = u PROVE FALSE
    <2>1. Guards(q[k], u)
      BY <1>4 DEF LockTable
    <2> QED
      BY <2>1, <1>1, <1>4, GuardsExclude
  <1> QED
    BY <1>2, <1>3, <1>4

LEMMA InsertByModifyStep ==
  ASSUME IInv, NEW t \in Trx, NEW k \in Key, InsertByModify(t, k)
  PROVE  IInv'
  <1> DEFINE shared == ReadCheckAndLock(queue, "S", k, t)
             res == ModifyCheckAndLock(shared.queue, k, t)
             v == [type |-> "upd_del", key |-> k, prev |-> writer[k]]
  <1>1. /\ Inserts(t, k) /\ k \in deleted /\ t \notin waiting /\ shared.err = "success"
        /\ \/ /\ res.err = "success" /\ queue' = res.queue
              /\ deleted' = deleted \ {k}
              /\ writer' = [writer EXCEPT ![k] = t]
              /\ undo' = [undo EXCEPT ![t] = Append(@, v)]
              /\ op' = [op EXCEPT ![t] = None]
              /\ page' = page /\ waiting' = waiting /\ cursor' = cursor /\ result' = result
           \/ /\ WaitOrError(t, res, [do |-> "insert", key |-> k])
              /\ cursor' = cursor /\ result' = result
    BY DEF InsertByModify, DuplicateErrorInClust, Inserts, scans
  <1>2. /\ TypeOK /\ LockTable(queue, writer) /\ waiting = WaitersOf(queue)
        /\ page \in SUBSET Key /\ deleted \subseteq page
        /\ writer \in [Key -> Trx \cup {NoTrx}] /\ queue \in Queues
        /\ op \in [Trx -> Op] /\ undo \in [Trx -> Seq(UndoRec)]
        /\ cursor \in [Trx -> [mode : LockMode, from : 0 .. MaxKey, pos : 0 .. Supremum]]
        /\ result \in [Trx -> SUBSET Key]
        /\ \A x \in Key : x \notin page => queue[x] = <<>> /\ writer[x] = NoTrx
        /\ UndoRight(t) /\ RemoveRight(t) /\ ScanRight(t) /\ ReadRight(t)
    BY Known
  <1>3. k \in Rec /\ "S" \in LockMode /\ None \in Op
    BY Sizes DEF LockMode, None, Op
  <1>4. Outcome(queue, shared, writer, k, t) /\ HasExpl(shared.queue, "S", k, t)
    BY <1>1, <1>2, <1>3, ReadCheckFacts
  <1> HIDE DEF shared
  <1>5. /\ shared.queue \in Queues /\ LockTable(shared.queue, writer)
        /\ WaitersOf(shared.queue) = WaitersOf(queue)
        /\ \A u : Keeps(queue, shared.queue, u)
        /\ \A x \in Rec : x # k => shared.queue[x] = queue[x]
    BY <1>1, <1>4 DEF Outcome, LockTable
  <1>6. Outcome(shared.queue, res, writer, k, t) /\ (res.err = "success" => Free(res.queue, k, t))
    BY <1>1, <1>2, <1>5, ModifyCheckFacts
  <1> HIDE DEF res
  <1>7. Outcome(queue, res, writer, k, t)
    BY <1>3, <1>5, <1>6, OutcomeAfter
  <1>8. k \in page
    BY <1>1, <1>2
  <1>9. CASE /\ res.err = "success" /\ queue' = res.queue
             /\ deleted' = deleted \ {k}
             /\ writer' = [writer EXCEPT ![k] = t]
             /\ undo' = [undo EXCEPT ![t] = Append(@, v)]
             /\ op' = [op EXCEPT ![t] = None]
             /\ page' = page /\ waiting' = waiting /\ cursor' = cursor /\ result' = result
    <2>1. /\ LockTable(queue', writer) /\ waiting' = WaitersOf(queue') /\ queue' \in Queues
          /\ \A u : Keeps(queue, queue', u)
          /\ \A x \in Key : x \notin page => queue'[x] = <<>>
      BY <1>7, <1>8, <1>9, Settled
    <2>2. HasExpl(queue', "S", k, t)
      <3>1. Keeps(shared.queue, res.queue, t)
        BY <1>6 DEF Outcome
      <3> QED
        BY <3>1, <1>3, <1>4, <1>9, KeepsFacts
    <2>3. Free(queue', k, t)
      BY <1>6, <1>9
    <2>4. /\ Guards(queue'[k], t)
          /\ \A u \in Trx : u # t => writer[k] # u /\ ~HasExpl(queue', "S", k, u)
      BY <2>1, <2>2, <2>3, FreeAlone
    <2>5. \A u \in Trx : u # t => ~HasExpl(queue, "S", k, u)
      BY <2>1, <2>4, <1>3, KeepsFacts
    <2>6. writer'[k] = t /\ (\A x \in Key : x # k => writer'[x] = writer[x])
      BY <1>2, <1>9
    <2>7. writer[k] \in {t, NoTrx}
      BY <1>2, <2>4
    <2>8. v \in UndoRec
      BY <2>7 DEF UndoRec
    <2>9. LockTable(queue', writer')
      <3>1. Replaces(writer', writer, queue', k)
        BY <2>4, <2>6 DEF Replaces
      <3> QED
        BY <3>1, <2>1, NewWriter
    <2>10. TypeOK'
      <3>1. writer' \in [Key -> Trx \cup {NoTrx}] /\ undo' \in [Trx -> Seq(UndoRec)]
        BY <1>2, <1>9, <2>8
      <3>2. deleted' \in SUBSET page' /\ op' \in [Trx -> Op]
        BY <1>2, <1>3, <1>9
      <3>3. \A x \in Key : x \notin page' => queue'[x] = <<>> /\ writer'[x] = NoTrx
        BY <1>2, <1>8, <1>9, <2>1, <2>6
      <3> QED
        BY <3>1, <3>2, <3>3, <1>2, <1>9, <2>1 DEF TypeOK, Queues
    <2>11. \A x \in Key : x # k => SameRow(x)
      BY <1>9, <2>6 DEF SameRow
    <2>12. deleted' \subseteq page /\ op'[t] = None
      BY <1>2, <1>9
    <2>13. op[t].do \in {"none", "insert"}
      BY <1>1 DEF Inserts
    <2>14. \A u \in Trx : GoesOn(u)
      BY <2>12, <2>13, <1>2, <1>9 DEF GoesOn, None
    <2>15. Rights(t)'
      <3>1. RemoveRight(t)' /\ ScanRight(t)' /\ ReadRight(t)'
        <4>1. \A x \in Key : SameRow(x) \/ (writer'[x] = t /\ op'[t].do # "remove")
          BY <2>6, <2>11, <2>12 DEF None
        <4> QED
          BY <4>1, <1>2, <1>9, <2>1, <2>12, <2>14, RowsStay
      <3>2. UndoRight(t)'
        <4>1. undo'[t] = Append(undo[t], v) /\ undo[t] \in Seq(UndoRec)
          BY <1>2, <1>9
        <4>2. v.key = k /\ v.prev = writer[k] /\ v.type = "upd_del"
          OBVIOUS
        <4>3. \A x \in Key : HasExpl(queue, "S", x, t) => HasExpl(queue', "S", x, t)
          BY <2>1, KeepsFacts, Sizes
        <4>4. v.key \in page' /\ page \subseteq page'
          BY <1>8, <1>9, <4>2
        <4> HIDE DEF v
        <4> QED
          BY <4>1, <4>2, <4>3, <4>4, <1>2, <2>2, <2>6, <2>7, <2>8, UndoGrows
      <3> QED
        BY <3>1, <3>2 DEF Rights
    <2>16. ASSUME NEW u \in Trx, u # t PROVE Rights(u)'
      <3>1. undo'[u] = undo[u]
        BY <1>2, <1>9, <2>16
      <3>2. \A x \in Key : \/ SameRow(x)
                           \/ writer[x] # u /\ writer'[x] # u /\ ~HasExpl(queue, "S", x, u)
        BY <2>4, <2>5, <2>6, <2>11, <2>16
      <3> QED
        BY <3>1, <3>2, <1>9, <2>1, <2>12, <2>14, Stays
    <2> QED
      BY <2>1, <2>9, <2>10, <2>15, <2>16 DEF IInv
  <1>10. CASE /\ WaitOrError(t, res, [do |-> "insert", key |-> k])
              /\ cursor' = cursor /\ result' = result
    BY <1>1, <1>7, <1>8, <1>10, InsertRefused
  <1> QED
    BY <1>1, <1>9, <1>10

LEMMA InsertRecordStep ==
  ASSUME IInv, NEW t \in Trx, NEW k \in Key, InsertRecord(t, k)
  PROVE  IInv'
  <1> DEFINE next == NextRec(k)
             res == InsertCheckAndLock(queue, next, t)
             v == [type |-> "insert", key |-> k, prev |-> NoTrx]
  <1>1. /\ Inserts(t, k) /\ k \notin page /\ t \notin waiting
        /\ \/ /\ res.err = "success" /\ queue' = InheritToGap(res.queue, k, next)
              /\ page' = page \cup {k}
              /\ writer' = [writer EXCEPT ![k] = t]
              /\ undo' = [undo EXCEPT ![t] = Append(@, v)]
              /\ op' = [op EXCEPT ![t] = None]
              /\ deleted' = deleted /\ waiting' = waiting /\ cursor' = cursor /\ result' = result
           \/ /\ WaitOrError(t, res, [do |-> "insert", key |-> k])
              /\ cursor' = cursor /\ result' = result
    BY DEF InsertRecord, Inserts, scans
  <1>2. /\ TypeOK /\ LockTable(queue, writer) /\ waiting = WaitersOf(queue)
        /\ page \in SUBSET Key /\ deleted \subseteq page
        /\ writer \in [Key -> Trx \cup {NoTrx}] /\ queue \in Queues
        /\ op \in [Trx -> Op] /\ undo \in [Trx -> Seq(UndoRec)]
        /\ cursor \in [Trx -> [mode : LockMode, from : 0 .. MaxKey, pos : 0 .. Supremum]]
        /\ result \in [Trx -> SUBSET Key]
        /\ \A x \in Key : x \notin page => queue[x] = <<>> /\ writer[x] = NoTrx
        /\ UndoRight(t) /\ RemoveRight(t) /\ ScanRight(t) /\ ReadRight(t)
    BY Known
  <1>3. k \in Rec /\ None \in Op
    BY Sizes DEF None, Op
  <1>4. next \in Rec /\ next \in page \cup {Supremum}
    <2>1. k \in 0 .. MaxKey /\ next = After(page, k)
      BY <1>2, KeyFacts, TypeFacts
    <2>2. After(page, k) \in Rec /\ After(page, k) \in page \cup {Supremum}
      BY <2>1, <1>2, AfterFacts
    <2> HIDE DEF next
    <2> QED
      BY <2>1, <2>2
  <1>5. /\ Outcome(queue, res, writer, next, t)
        /\ res.err = "success" => res.queue = queue /\ \A x \in Range(queue[next]) : x.trx = t
    BY <1>1, <1>2, <1>4, InsertCheckFacts
  <1> HIDE DEF res
  <1>6. CASE /\ res.err = "success" /\ queue' = InheritToGap(res.queue, k, next)
             /\ page' = page \cup {k}
             /\ writer' = [writer EXCEPT ![k] = t]
             /\ undo' = [undo EXCEPT ![t] = Append(@, v)]
             /\ op' = [op EXCEPT ![t] = None]
             /\ deleted' = deleted /\ waiting' = waiting /\ cursor' = cursor /\ result' = result
    <2>1. /\ queue' = InheritToGap(queue, k, next)
          /\ \A u \in Trx : u # t => ~Has(queue, next, u)
      BY <1>5, <1>6 DEF Has
    <2>2. /\ queue' \in Queues /\ LockTable(queue', writer) /\ WaitersOf(queue') = WaitersOf(queue)
          /\ \A u : Keeps(queue, queue', u)
          /\ \A x \in Rec : x # k => queue'[x] = queue[x]
          /\ \A x \in Range(queue'[k]) : x \in Range(queue[k]) \/ (k \in Key => x.gap)
          /\ \A u : Has(queue, next, u) => HasGranted(queue', k, u)
      BY <2>1, <1>2, <1>3, <1>4, InheritToGapFacts
    <2>3. Guards(queue'[k], t)
      <3>1. queue[k] = <<>>
        BY <1>1, <1>2
      <3>2. \A x \in Range(queue'[k]) : x.gap
        BY <3>1, <2>2, EmptyFacts
      <3> QED
        BY <3>2 DEF Guards
    <2>4. writer'[k] = t /\ writer[k] = NoTrx /\ (\A x \in Key : x # k => writer'[x] = writer[x])
      BY <1>1, <1>2, <1>6
    <2>5. LockTable(queue', writer')
      <3>1. Replaces(writer', writer, queue', k)
        BY <2>3, <2>4 DEF Replaces
      <3> QED
        BY <3>1, <2>2, NewWriter
    <2>6. v \in UndoRec
      BY DEF UndoRec
    <2>7. TypeOK'
      <3>1. writer' \in [Key -> Trx \cup {NoTrx}] /\ undo' \in [Trx -> Seq(UndoRec)]
        BY <1>2, <1>6, <2>6
      <3>2. page' \in SUBSET Key /\ deleted' \in SUBSET page' /\ op' \in [Trx -> Op]
        BY <1>2, <1>3, <1>6
      <3>3. \A x \in Key : x \notin page' => queue'[x] = <<>> /\ writer'[x] = NoTrx
        <4>1. \A x \in Key : x \notin page' => x \notin page /\ x # k /\ x \in Rec
          BY <1>6, Sizes
        <4> QED
          BY <4>1, <1>2, <2>2, <2>4
      <3> QED
        BY <3>1, <3>2, <3>3, <1>2, <1>6, <2>2 DEF TypeOK, Queues
    <2>8. op'[t] = None /\ op[t].do \in {"none", "insert"}
      BY <1>1, <1>2, <1>6 DEF Inserts
    <2>9. \A u \in Trx : GoesOn(u)
      BY <2>8, <1>2, <1>6 DEF GoesOn, None
    <2>10. k \in Key \ page
      BY <1>1
    <2>11. \A u \in Trx : \/ ~Has(queue, NextRec(k), u)
                          \/ writer'[k] = u /\ op'[u].do \notin {"remove", "scan"}
      BY <2>1, <2>4, <2>8 DEF None
    <2>12. Rights(t)'
      <3>1. RemoveRight(t)' /\ ScanRight(t)' /\ ReadRight(t)'
        <4>1. /\ TypeOK /\ page' = page \cup {k} /\ deleted' = deleted
              /\ \A x \in Key : x # k => writer'[x] = writer[x]
              /\ cursor'[t] = cursor[t] /\ result'[t] = result[t] /\ GoesOn(t)
          BY <1>2, <1>6, <2>4, <2>9
        <4>2. Keeps(queue, queue', t) /\ (Has(queue, NextRec(k), t) => HasGranted(queue', k, t))
          BY <2>2
        <4>3. RemoveRight(t) /\ ScanRight(t) /\ ReadRight(t)
          BY <1>2
        <4> HIDE DEF next, v
        <4> QED
          BY <2>10, <2>11, <4>1, <4>2, <4>3, RowAdded
      <3>2. UndoRight(t)'
        <4>1. undo'[t] = Append(undo[t], v) /\ undo[t] \in Seq(UndoRec)
          BY <1>2, <1>6
        <4>2. v.key = k /\ v.prev = NoTrx /\ v.type = "insert"
          OBVIOUS
        <4>3. \A x \in Key : HasExpl(queue, "S", x, t) => HasExpl(queue', "S", x, t)
          BY <2>2, KeepsFacts, Sizes
        <4>4. v.key \in page' /\ page \subseteq page'
          BY <1>6, <4>2
        <4> HIDE DEF v
        <4> QED
          BY <4>1, <4>2, <4>3, <4>4, <1>2, <2>4, <2>6, UndoGrows
      <3> QED
        BY <3>1, <3>2 DEF Rights
    <2>13. ASSUME NEW u \in Trx, u # t PROVE Rights(u)'
      <3>1. RemoveRight(u) /\ ScanRight(u) /\ ReadRight(u) /\ UndoRight(u)
        BY Known
      <3>2. RemoveRight(u)' /\ ScanRight(u)' /\ ReadRight(u)'
        <4>1. /\ TypeOK /\ page' = page \cup {k} /\ deleted' = deleted
              /\ \A x \in Key : x # k => writer'[x] = writer[x]
              /\ cursor'[u] = cursor[u] /\ result'[u] = result[u] /\ GoesOn(u)
          BY <1>2, <1>6, <2>4, <2>9
        <4>2. Keeps(queue, queue', u) /\ (Has(queue, NextRec(k), u) => HasGranted(queue', k, u))
          BY <2>2
        <4>3. RemoveRight(u) /\ ScanRight(u) /\ ReadRight(u)
          BY <3>1
        <4> HIDE DEF next, v
        <4> QED
          BY <2>10, <2>11, <4>1, <4>2, <4>3, RowAdded
      <3>3. UndoRight(u)'
        <4>1. undo'[u] = undo[u] /\ undo[u] \in Seq(UndoRec)
          BY <1>2, <1>6, <2>13
        <4>2. \A x \in Key : writer'[x] = u <=> writer[x] = u
          BY <2>4, <2>13, Sizes
        <4>3. \A x \in Key : HasExpl(queue, "S", x, u) => HasExpl(queue', "S", x, u)
          BY <2>2, KeepsFacts, Sizes
        <4> QED
          BY <3>1, <4>1, <4>2, <4>3, <1>6, UndoStays
      <3> QED
        BY <3>2, <3>3 DEF Rights
    <2> QED
      BY <1>2, <1>6, <2>2, <2>5, <2>7, <2>12, <2>13 DEF IInv
  <1>7. CASE /\ WaitOrError(t, res, [do |-> "insert", key |-> k])
             /\ cursor' = cursor /\ result' = result
    BY <1>1, <1>4, <1>5, <1>7, InsertRefused
  <1> QED
    BY <1>1, <1>6, <1>7

-----------------------------------------------------------------------------
(* The end of a transaction and of a wait.                                   *)

LEMMA EndStep ==
  ASSUME IInv, NEW t \in Trx, End(t)
  PROVE  IInv'
  <1>1. /\ TypeOK /\ LockTable(queue, writer) /\ waiting = WaitersOf(queue)
        /\ page \in SUBSET Key /\ deleted \subseteq page
        /\ writer \in [Key -> Trx \cup {NoTrx}] /\ queue \in Queues
        /\ op \in [Trx -> Op] /\ undo \in [Trx -> Seq(UndoRec)]
        /\ cursor \in [Trx -> [mode : LockMode, from : 0 .. MaxKey, pos : 0 .. Supremum]]
        /\ result \in [Trx -> SUBSET Key]
        /\ \A x \in Key : x \notin page => queue[x] = <<>> /\ writer[x] = NoTrx
    BY Known
  <1>2. /\ writer' = [k \in Key |-> IF writer[k] = t THEN NoTrx ELSE writer[k]]
        /\ queue' = ReleaseAll(queue, t) /\ waiting' = waiting \cap WaitersOf(queue')
        /\ op' = [op EXCEPT ![t] = None] /\ undo' = [undo EXCEPT ![t] = <<>>]
        /\ cursor' = [cursor EXCEPT ![t] = NoScan] /\ result' = [result EXCEPT ![t] = {}]
        /\ page' = page /\ deleted' = deleted
    BY DEF End
  <1>3. \A k \in Key, u \in Trx : writer'[k] = u => writer[k] = u /\ u # t
    BY <1>2, Sizes
  <1>4. /\ LockTable(queue', writer') /\ WaitersOf(queue') \subseteq WaitersOf(queue)
        /\ \A u \in Trx : u # t => Keeps(queue, queue', u)
        /\ \A r \in Rec : queue[r] = <<>> => queue'[r] = <<>>
    <2> DEFINE p == ReleaseAll(queue, t)
               v == writer'
    <2>1. Without(writer, v, t)
      BY <1>3 DEF Without
    <2> HIDE DEF v
    <2>2. /\ LockTable(p, v) /\ WaitersOf(p) \subseteq WaitersOf(queue)
          /\ \A u \in Trx : u # t => Keeps(queue, p, u)
          /\ \A r \in Rec : queue[r] = <<>> => p[r] = <<>>
      BY <2>1, <1>1, ReleaseFacts
    <2> QED
      BY <2>2, <1>2 DEF v
  <1>5. waiting' = WaitersOf(queue')
    BY <1>1, <1>2, <1>4
  <1>6. /\ op'[t] = None /\ undo'[t] = <<>> /\ cursor'[t] = NoScan /\ result'[t] = {}
        /\ \A u \in Trx : u # t => /\ op'[u] = op[u] /\ undo'[u] = undo[u]
                                   /\ cursor'[u] = cursor[u] /\ result'[u] = result[u]
    BY <1>1, <1>2
  <1>7. TypeOK'
    <2>1. queue' \in Queues /\ waiting' \in SUBSET Trx
      BY <1>4, <1>5 DEF LockTable, WaitersOf
    <2>2. writer' \in [Key -> Trx \cup {NoTrx}]
      BY <1>1, <1>2
    <2>3. op' \in [Trx -> Op]
      BY <1>1, <1>2, Sizes DEF Op, None
    <2>4. undo' \in [Trx -> Seq(UndoRec)] /\ result' \in [Trx -> SUBSET Key]
      BY <1>1, <1>2
    <2>5. cursor' \in [Trx -> [mode : LockMode, from : 0 .. MaxKey, pos : 0 .. Supremum]]
      <3>1. NoScan \in [mode : LockMode, from : 0 .. MaxKey, pos : 0 .. Supremum]
        BY Sizes DEF NoScan, LockMode
      <3> QED
        BY <3>1, <1>1, <1>2
    <2>6. \A x \in Key : x \notin page' => queue'[x] = <<>> /\ writer'[x] = NoTrx
      <3>1. \A x \in Key : x \notin page => queue'[x] = <<>>
        BY <1>1, <1>4, Sizes
      <3>2. \A x \in Key : x \notin page => writer'[x] = NoTrx
        BY <1>1, <1>2
      <3> QED
        BY <3>1, <3>2, <1>2
    <2> QED
      BY <2>1, <2>2, <2>3, <2>4, <2>5, <2>6, <1>1, <1>2 DEF TypeOK, Queues
  <1>8. Rights(t)'
    <2>1. UndoRight(t)'
      BY <1>3, <1>6 DEF UndoRight
    <2>2. RemoveRight(t)'
      BY <1>6 DEF RemoveRight, None
    <2>3. ScanRight(t)'
      BY <1>6 DEF ScanRight, None
    <2>4. 0 \notin Key
      BY DEF Key
    <2>5. ReadRight(t)'
      BY <1>6, <2>4 DEF ReadRight, Passed, NoScan
    <2> QED
      BY <2>1, <2>2, <2>3, <2>5 DEF Rights
  <1>9. ASSUME NEW u \in Trx, u # t PROVE Rights(u)'
    <2>1. \A x \in Key : \/ SameRow(x)
                         \/ writer[x] # u /\ writer'[x] # u /\ ~HasExpl(queue, "S", x, u)
      <3>1. SUFFICES ASSUME NEW x \in Key
                     PROVE  \/ SameRow(x)
                            \/ /\ writer[x] # u /\ writer'[x] # u
                               /\ ~HasExpl(queue, "S", x, u)
        OBVIOUS
      <3>2. CASE writer[x] = t
        <4>1. writer[x] # u /\ writer'[x] # u
          BY <3>2, <1>3, <1>9
        <4>2. ~HasExpl(queue, "S", x, u)
          BY <3>2, <1>9, Alone
        <4> QED
          BY <4>1, <4>2
      <3>3. CASE writer[x] # t
        BY <3>3, <1>2 DEF SameRow
      <3> QED
        BY <3>2, <3>3
    <2>2. GoesOn(u) /\ deleted' \subseteq page /\ Keeps(queue, queue', u)
      BY <1>1, <1>2, <1>4, <1>6, <1>9 DEF GoesOn
    <2> QED
      BY <2>1, <2>2, <1>2, <1>6, <1>9, Stays
  <1> QED
    BY <1>4, <1>5, <1>7, <1>8, <1>9 DEF IInv

LEMMA StartRollbackStep ==
  ASSUME IInv, NEW t \in Trx, StartRollback(t)
  PROVE  IInv'
  <1>1. /\ TypeOK /\ LockTable(queue, writer) /\ waiting = WaitersOf(queue)
        /\ op \in [Trx -> Op] /\ undo \in [Trx -> Seq(UndoRec)] /\ deleted \subseteq page
        /\ UndoRight(t) /\ ScanRight(t)
    BY Known
  <1>2. /\ op' = [op EXCEPT ![t] = RollBack]
        /\ page' = page /\ deleted' = deleted /\ writer' = writer
        /\ queue' = queue /\ waiting' = waiting /\ undo' = undo
        /\ cursor' = cursor /\ result' = result
    BY DEF StartRollback, rows, scans
  <1>3. op'[t] = RollBack /\ \A u \in Trx : u # t => op'[u] = op[u]
    BY <1>1, <1>2
  <1>4. \A u : Keeps(queue, queue', u)
    BY <1>2 DEF Keeps, KeepsAt
  <1>5. TypeOK'
    <2>1. op' \in [Trx -> Op]
      BY <1>1, <1>2, Sizes DEF Op, RollBack
    <2> QED
      BY <2>1, <1>1, <1>2 DEF TypeOK
  <1>6. Rights(t)'
    <2>1. RemoveRight(t)' /\ ScanRight(t)' /\ ReadRight(t)'
      BY <1>1, <1>2, <1>3, RollsBack DEF RollBack
    <2>2. UndoRight(t)'
      BY <1>1, <1>2, UndoStays
    <2> QED
      BY <2>1, <2>2 DEF Rights
  <1>7. ASSUME NEW u \in Trx, u # t PROVE Rights(u)'
    <2>1. GoesOn(u) /\ \A x \in Key : SameRow(x)
      BY <1>2, <1>3, <1>7 DEF GoesOn, SameRow
    <2> QED
      BY <2>1, <1>1, <1>2, <1>4, Stays
  <1>8. LockTable(queue', writer') /\ waiting' = WaitersOf(queue')
    BY <1>1, <1>2
  <1> QED
    BY <1>5, <1>6, <1>7, <1>8 DEF IInv

LEMMA TimeoutStep ==
  ASSUME IInv, NEW t \in Trx, Timeout(t)
  PROVE  IInv'
  <1>1. /\ TypeOK /\ LockTable(queue, writer) /\ waiting = WaitersOf(queue) /\ queue \in Queues
        /\ op \in [Trx -> Op] /\ undo \in [Trx -> Seq(UndoRec)] /\ deleted \subseteq page
        /\ \A x \in Key : x \notin page => queue[x] = <<>> /\ writer[x] = NoTrx
        /\ UndoRight(t) /\ ScanRight(t)
    BY Known
  <1>2. /\ queue' = CancelWaiting(queue, t) /\ waiting' = waiting \cap WaitersOf(queue')
        /\ op' = [op EXCEPT ![t] = RollBack]
        /\ page' = page /\ deleted' = deleted /\ writer' = writer /\ undo' = undo
        /\ cursor' = cursor /\ result' = result
    BY DEF Timeout, rows, scans
  <1>3. op'[t] = RollBack /\ \A u \in Trx : u # t => op'[u] = op[u]
    BY <1>1, <1>2
  <1>4. /\ LockTable(queue', writer) /\ WaitersOf(queue') \subseteq WaitersOf(queue)
        /\ \A u \in Trx : u # t => Keeps(queue, queue', u)
        /\ KeepsGranted(queue, queue', t)
        /\ \A r \in Rec : queue[r] = <<>> => queue'[r] = <<>>
    BY <1>1, <1>2, CancelFacts
  <1>5. waiting' = WaitersOf(queue') /\ LockTable(queue', writer')
    BY <1>1, <1>2, <1>4
  <1>6. TypeOK'
    <2>1. op' \in [Trx -> Op]
      BY <1>1, <1>2, Sizes DEF Op, RollBack
    <2>2. queue' \in Queues /\ waiting' \in SUBSET Trx
      BY <1>4, <1>5 DEF LockTable, WaitersOf
    <2>3. \A x \in Key : x \notin page => queue'[x] = <<>>
      BY <1>1, <1>4, Sizes
    <2> QED
      BY <2>1, <2>2, <2>3, <1>1, <1>2 DEF TypeOK, Queues
  <1>7. Rights(t)'
    <2>1. RemoveRight(t)' /\ ScanRight(t)' /\ ReadRight(t)'
      BY <1>1, <1>2, <1>3, RollsBack DEF RollBack
    <2>2. \A x \in Key : HasExpl(queue, "S", x, t) => HasExpl(queue', "S", x, t)
      BY <1>4, KeepsGrantedFacts, Sizes
    <2>3. UndoRight(t)'
      BY <2>2, <1>1, <1>2, UndoStays
    <2> QED
      BY <2>1, <2>3 DEF Rights
  <1>8. ASSUME NEW u \in Trx, u # t PROVE Rights(u)'
    <2>1. GoesOn(u) /\ \A x \in Key : SameRow(x)
      BY <1>2, <1>3, <1>8 DEF GoesOn, SameRow
    <2> QED
      BY <2>1, <1>1, <1>2, <1>4, <1>8, Stays
  <1> QED
    BY <1>5, <1>6, <1>7, <1>8 DEF IInv

-----------------------------------------------------------------------------
(* Rollback and purge.                                                       *)

LEMMA FrontFacts ==
  ASSUME NEW S, NEW s \in Seq(S), s # <<>>
  PROVE  /\ Front(s) \in Seq(S) /\ Len(s) \in Nat \ {0} /\ Len(Front(s)) = Len(s) - 1
         /\ DOMAIN s = 1 .. Len(s) /\ DOMAIN Front(s) = 1 .. (Len(s) - 1)
         /\ Last(s) = s[Len(s)] /\ Last(s) \in S
         /\ \A i \in 1 .. (Len(s) - 1) : Front(s)[i] = s[i]
  <1>1. Len(s) \in Nat \ {0} /\ DOMAIN s = 1 .. Len(s)
    OBVIOUS
  <1>2. Last(s) = s[Len(s)] /\ Last(s) \in S
    BY <1>1 DEF Last
  <1> DEFINE f == SubSeq(s, 1, Len(s) - 1)
  <1>3. /\ f \in Seq(S) /\ Len(f) = Len(s) - 1
        /\ \A i \in 1 .. (Len(s) - 1) : f[i] = s[i]
    BY <1>1
  <1> HIDE DEF f
  <1>4. DOMAIN f = 1 .. Len(f)
    BY <1>3
  <1>5. Front(s) = f
    BY DEF Front, f
  <1> QED
    BY <1>1, <1>2, <1>3, <1>4, <1>5

(* The change that is undone next.                                           *)
LEMMA LastUndo ==
  ASSUME IInv, NEW t \in Trx, undo[t] # <<>>
  PROVE  LET v == Last(undo[t]) IN
         /\ v \in UndoRec /\ v.key \in page /\ v.key \in Key /\ writer[v.key] = t
         /\ v.prev \in {t, NoTrx} /\ (v.type = "insert" => v.prev = NoTrx)
         /\ v.type = "upd_del" => HasExpl(queue, "S", v.key, t)
         /\ Front(undo[t]) \in Seq(UndoRec)
  <1>1. undo[t] \in Seq(UndoRec) /\ UndoRight(t) /\ page \in SUBSET Key
    BY Known
  <1> DEFINE s == undo[t]
             n == Len(s)
  <1>2. /\ n \in DOMAIN s /\ Last(s) = s[n] /\ Last(s) \in UndoRec
        /\ Front(s) \in Seq(UndoRec)
    <2>1. n \in Nat \ {0} /\ DOMAIN s = 1 .. n
      BY <1>1, FrontFacts
    <2>2. n \in DOMAIN s
      BY <2>1
    <2> QED
      BY <2>2, <1>1, FrontFacts
  <1>3. LET u == s[n] IN
        /\ u.key \in page /\ writer[u.key] = t
        /\ u.prev = IF \E j \in 1 .. (n-1) : s[j].key = u.key THEN t ELSE NoTrx
        /\ u.type = "insert" => u.prev = NoTrx
        /\ u.type = "upd_del" => HasExpl(queue, "S", u.key, t)
    BY <1>1, <1>2 DEF UndoRight
  <1> HIDE DEF s, n
  <1>4. s[n].prev \in {t, NoTrx}
    BY <1>3
  <1> QED
    BY <1>1, <1>2, <1>3, <1>4 DEF s

(* The records t still has written are on the page, and its locks on them.   *)
StillHas(t) ==
  \A x \in Key : writer'[x] = t =>
     /\ x \in page => x \in page'
     /\ HasExpl(queue, "S", x, t) => HasExpl(queue', "S", x, t)

(* Its last change is undone.                                                *)
TakesBack(t, k) ==
  /\ undo'[t] = Front(undo[t]) /\ k = Last(undo[t]).key
  /\ writer'[k] = Last(undo[t]).prev /\ \A x \in Key : x # k => writer'[x] = writer[x]

LEMMA UndoShrinks ==
  ASSUME NEW t \in Trx, UndoRight(t), undo[t] \in Seq(UndoRec), undo[t] # <<>>,
         NEW k, TakesBack(t, k), StillHas(t)
  PROVE  UndoRight(t)'
  <1> USE DEF TakesBack
  <1> DEFINE s == undo[t]
             a == undo'[t]
             n == Len(s)
  <1>1. /\ n \in Nat \ {0} /\ DOMAIN s = 1 .. n /\ DOMAIN a = 1 .. (n - 1)
        /\ Last(s) = s[n] /\ \A i \in 1 .. (n-1) : a[i] = s[i]
    <2>1. a = Front(s) /\ s \in Seq(UndoRec) /\ s # <<>>
      OBVIOUS
    <2> HIDE DEF s, a
    <2> QED
      BY <2>1, FrontFacts
  <1>2. \A i \in 1 .. n : s[i].key \in Key
    <2>1. \A i \in 1 .. n : s[i] \in UndoRec
      OBVIOUS
    <2> HIDE DEF s, n
    <2> QED
      BY <2>1 DEF UndoRec
  <1>3. \A x \in Key : writer[x] = t => \E i \in 1 .. n : s[i].key = x
    BY <1>1 DEF UndoRight
  <1>4. \A i \in 1 .. n :
          /\ s[i].key \in page /\ writer[s[i].key] = t
          /\ s[i].prev = IF \E j \in 1 .. (i-1) : s[j].key = s[i].key THEN t ELSE NoTrx
          /\ s[i].type = "insert" => s[i].prev = NoTrx
          /\ s[i].type = "upd_del" => HasExpl(queue, "S", s[i].key, t)
    BY <1>1 DEF UndoRight
  <1>5. NoTrx # t
    BY Sizes
  <1>6. n \in 1 .. n /\ s[n].key = k /\ writer'[k] = s[n].prev
    BY <1>1
  <1> HIDE DEF s, a, n
  <1>7. writer'[k] = IF \E j \in 1 .. (n-1) : s[j].key = k THEN t ELSE NoTrx
    BY <1>4, <1>6
  <1>8. \A x \in Key : writer'[x] = t => \E i \in 1 .. (n-1) : a[i].key = x
    <2>1. SUFFICES ASSUME NEW x \in Key, writer'[x] = t
                   PROVE  \E i \in 1 .. (n-1) : a[i].key = x
      OBVIOUS
    <2>2. CASE x = k
      BY <2>1, <2>2, <1>1, <1>5, <1>7
    <2>3. CASE x # k
      <3>1. PICK i \in 1 .. n : s[i].key = x
        BY <2>1, <2>3, <1>3
      <3>2. i # n
        BY <3>1, <2>3, <1>6
      <3>3. i \in 1 .. (n - 1)
        BY <3>2, <1>1
      <3> QED
        BY <3>1, <3>3, <1>1
    <2> QED
      BY <2>2, <2>3
  <1>9. ASSUME NEW i \in 1 .. (n - 1)
        PROVE  /\ a[i].key \in page' /\ writer'[a[i].key] = t
               /\ a[i].prev = IF \E j \in 1 .. (i-1) : a[j].key = a[i].key THEN t ELSE NoTrx
               /\ a[i].type = "insert" => a[i].prev = NoTrx
               /\ a[i].type = "upd_del" => HasExpl(queue', "S", a[i].key, t)
    <2>1. i \in 1 .. n /\ a[i] = s[i] /\ s[i].key \in Key
      BY <1>1, <1>2
    <2>2. \A j \in 1 .. (i-1) : a[j] = s[j]
      BY <1>1
    <2>3. a[i].prev = IF \E j \in 1 .. (i-1) : a[j].key = a[i].key THEN t ELSE NoTrx
      BY <2>1, <2>2, <1>4
    <2>4. writer'[s[i].key] = t
      <3>1. CASE s[i].key = k
        BY <3>1, <1>7
      <3>2. CASE s[i].key # k
        BY <3>2, <2>1, <1>4
      <3> QED
        BY <3>1, <3>2
    <2> QED
      BY <2>1, <2>3, <2>4, <1>4 DEF StillHas
  <1> QED
    BY <1>1, <1>8, <1>9 DEF UndoRight, a

(* What the removal of the record k changes.                                 *)
LEMMA RemoveFacts ==
  ASSUME IInv, NEW k \in page, RemoveRecord(k)
  PROVE  /\ LockTable(queue', writer') /\ waiting' = WaitersOf(queue')
         /\ page' = page \ {k} /\ deleted' = deleted \ {k}
         /\ writer' \in [Key -> Trx \cup {NoTrx}] /\ queue' \in Queues
         /\ writer'[k] = NoTrx /\ \A x \in Key : x # k => writer'[x] = writer[x]
         /\ \A x \in Key : x \notin page' => queue'[x] = <<>> /\ writer'[x] = NoTrx
         /\ \A x \in Rec : \A u : x # k => KeepsAt(queue, queue', x, u)
         /\ \A u : Has(queue, k, u) => HasGranted(queue', NextRec(k), u)
  <1> DEFINE heir == NextRec(k)
             p == [InheritToGap(queue, heir, k) EXCEPT ![k] = <<>>]
             v == writer'
  <1>1. /\ LockTable(queue, writer) /\ waiting = WaitersOf(queue)
        /\ page \in SUBSET Key /\ writer \in [Key -> Trx \cup {NoTrx}] /\ queue \in Queues
        /\ \A x \in Key : x \notin page => queue[x] = <<>> /\ writer[x] = NoTrx
    BY Known
  <1>2. /\ page' = page \ {k} /\ deleted' = deleted \ {k}
        /\ v = [writer EXCEPT ![k] = NoTrx]
        /\ queue' = p /\ waiting' = waiting \ WaitsOn(queue, k)
    BY DEF RemoveRecord, UpdateDelete
  <1>3. k \in Key /\ k \in 0 .. MaxKey
    BY <1>1, KeyFacts
  <1>4. heir \in Rec /\ heir \in page \cup {Supremum} /\ heir # k
    <2>1. heir = After(page, k)
      BY Known, TypeFacts
    <2>2. /\ After(page, k) \in Rec /\ After(page, k) \in page \cup {Supremum}
      BY <1>1, <1>3, AfterFacts
    <2>3. After(page, k) # k
      BY <1>1, AfterRemoved
    <2> HIDE DEF heir
    <2> QED
      BY <2>1, <2>2, <2>3
  <1>5. v \in [Key -> Trx \cup {NoTrx}] /\ v[k] = NoTrx /\ \A x \in Key : x # k => v[x] = writer[x]
    BY <1>1, <1>2, <1>3
  <1> HIDE DEF heir, v
  <1>6. /\ LockTable(p, v) /\ WaitersOf(p) = WaitersOf(queue) \ WaitsOn(queue, k)
        /\ p[k] = <<>> /\ \A x \in Rec : x # k /\ x # heir => p[x] = queue[x]
        /\ \A x \in Rec : \A u : x # k => KeepsAt(queue, p, x, u)
        /\ \A u : Has(queue, k, u) => HasGranted(p, heir, u)
    BY <1>1, <1>3, <1>4, <1>5, RemovedFacts
  <1> HIDE DEF p
  <1>7. \A x \in Key : x \notin page' => queue'[x] = <<>> /\ writer'[x] = NoTrx
    <2>1. SUFFICES ASSUME NEW x \in Key, x \notin page' PROVE p[x] = <<>> /\ v[x] = NoTrx
      BY <1>2 DEF v
    <2>2. CASE x = k
      BY <2>2, <1>5, <1>6
    <2>3. CASE x # k
      <3>1. x \notin page /\ x \in Rec /\ x # Supremum
        BY <2>1, <2>3, <1>2, Sizes
      <3>2. x # heir
        BY <3>1, <1>4
      <3> QED
        BY <3>1, <3>2, <2>3, <1>1, <1>5, <1>6
    <2> QED
      BY <2>2, <2>3
  <1>8. LockTable(queue', writer') /\ waiting' = WaitersOf(queue') /\ queue' \in Queues
    <2>1. p \in Queues
      BY <1>6 DEF LockTable
    <2> QED
      BY <2>1, <1>1, <1>2, <1>6 DEF v
  <1>9. /\ \A x \in Rec : \A u : x # k => KeepsAt(queue, queue', x, u)
        /\ \A u : Has(queue, k, u) => HasGranted(queue', NextRec(k), u)
    BY <1>2, <1>6 DEF heir
  <1> QED
    BY <1>2, <1>5, <1>7, <1>8, <1>9 DEF v

LEMMA RemoveTypes ==
  ASSUME IInv, NEW k \in page, RemoveRecord(k), op' \in [Trx -> Op],
         undo' \in [Trx -> Seq(UndoRec)], cursor' = cursor, result' = result
  PROVE  TypeOK'
  <1>1. /\ page \in SUBSET Key /\ deleted \subseteq page
        /\ cursor \in [Trx -> [mode : LockMode, from : 0 .. MaxKey, pos : 0 .. Supremum]]
        /\ result \in [Trx -> SUBSET Key]
    BY Known
  <1>2. /\ waiting' = WaitersOf(queue')
        /\ page' = page \ {k} /\ deleted' = deleted \ {k}
        /\ writer' \in [Key -> Trx \cup {NoTrx}] /\ queue' \in Queues
        /\ \A x \in Key : x \notin page' => queue'[x] = <<>> /\ writer'[x] = NoTrx
    BY RemoveFacts
  <1>3. waiting' \in SUBSET Trx
    BY <1>2 DEF WaitersOf
  <1> QED
    BY <1>1, <1>2, <1>3 DEF TypeOK, Queues

LEMMA RemovedUndo ==
  ASSUME IInv, NEW k \in page, RemoveRecord(k), NEW u \in Trx, undo'[u] = undo[u], writer[k] # u
  PROVE  UndoRight(u)'
  <1>1. undo[u] \in Seq(UndoRec) /\ UndoRight(u)
    BY Known
  <1>2. /\ page' = page \ {k} /\ writer'[k] = NoTrx
        /\ \A x \in Key : x # k => writer'[x] = writer[x]
        /\ \A x \in Rec : x # k => KeepsAt(queue, queue', x, u)
    BY RemoveFacts
  <1>3. \A x \in Key : writer'[x] = u <=> writer[x] = u
    BY <1>2, Sizes
  <1>4. \A x \in Key : x # k /\ HasExpl(queue, "S", x, u) => HasExpl(queue', "S", x, u)
    BY <1>2, KeepsAtFacts, Sizes
  <1> QED
    BY <1>1, <1>2, <1>3, <1>4, UndoStays

LEMMA RemovedOther ==
  ASSUME IInv, NEW k \in page, RemoveRecord(k), NEW u \in Trx,
         op'[u] = op[u], undo'[u] = undo[u], cursor'[u] = cursor[u], result'[u] = result[u],
         writer[k] # u,
         ~HasExpl(queue, "S", k, u) \/ (k \in deleted /\ writer[k] = NoTrx)
  PROVE  Rights(u)'
  <1>1. TypeOK /\ RemoveRight(u) /\ ScanRight(u) /\ ReadRight(u)
    BY Known
  <1>2. /\ page' = page \ {k} /\ deleted' = deleted \ {k}
        /\ \A x \in Key : x # k => writer'[x] = writer[x]
        /\ \A x \in Rec : x # k => KeepsAt(queue, queue', x, u)
        /\ Has(queue, k, u) => HasGranted(queue', NextRec(k), u)
    BY RemoveFacts
  <1>3. RemoveRight(u)' /\ ScanRight(u)' /\ ReadRight(u)'
    BY <1>1, <1>2, RowRemoved
  <1> QED
    BY <1>3, RemovedUndo DEF Rights

LEMMA PurgeStep ==
  ASSUME IInv, NEW k \in Key, Purge(k)
  PROVE  IInv'
  <1>1. /\ k \in deleted /\ writer[k] = NoTrx /\ RemoveRecord(k)
        /\ op' = op /\ undo' = undo /\ cursor' = cursor /\ result' = result
    BY DEF Purge, scans
  <1>2. k \in page /\ op \in [Trx -> Op] /\ undo \in [Trx -> Seq(UndoRec)]
    BY <1>1, Known
  <1>3. LockTable(queue', writer') /\ waiting' = WaitersOf(queue')
    BY <1>1, <1>2, RemoveFacts
  <1>4. TypeOK'
    BY <1>1, <1>2, RemoveTypes
  <1>5. ASSUME NEW u \in Trx PROVE Rights(u)'
    BY <1>1, <1>2, Sizes, RemovedOther
  <1> QED
    BY <1>3, <1>4, <1>5 DEF IInv

LEMMA UndoInsertStep ==
  ASSUME IInv, NEW t \in Trx, UndoInsert(t)
  PROVE  IInv'
  <1> DEFINE v == Last(undo[t])
             k == v.key
  <1>1. /\ op[t].do = "rollback" /\ undo[t] # <<>> /\ v.type = "insert"
        /\ RemoveRecord(k) /\ undo' = [undo EXCEPT ![t] = Front(@)]
        /\ op' = op /\ cursor' = cursor /\ result' = result
    BY DEF UndoInsert, Runs, UndoLast, scans
  <1>2. /\ op \in [Trx -> Op] /\ undo \in [Trx -> Seq(UndoRec)] /\ UndoRight(t) /\ ScanRight(t)
    BY Known
  <1>3. /\ v \in UndoRec /\ k \in page /\ k \in Key /\ writer[k] = t /\ v.prev = NoTrx
        /\ Front(undo[t]) \in Seq(UndoRec)
    BY <1>1, LastUndo
  <1>4. undo'[t] = Front(undo[t]) /\ \A u \in Trx : u # t => undo'[u] = undo[u]
    BY <1>1, <1>2
  <1>5. undo' \in [Trx -> Seq(UndoRec)]
    BY <1>1, <1>2, <1>3
  <1> HIDE DEF k
  <1>6. /\ LockTable(queue', writer') /\ waiting' = WaitersOf(queue')
        /\ page' = page \ {k} /\ writer'[k] = NoTrx
        /\ \A x \in Key : x # k => writer'[x] = writer[x]
        /\ \A x \in Rec : x # k => KeepsAt(queue, queue', x, t)
    BY <1>1, <1>3, RemoveFacts
  <1>7. TypeOK'
    BY <1>1, <1>2, <1>3, <1>5, RemoveTypes
  <1>8. Rights(t)'
    <2>1. RemoveRight(t)' /\ ScanRight(t)' /\ ReadRight(t)'
      BY <1>1, <1>2, RollsBack
    <2>2. StillHas(t)
      BY <1>6, KeepsAtFacts, Sizes DEF StillHas
    <2>3. undo[t] \in Seq(UndoRec) /\ TakesBack(t, k)
      BY <1>2, <1>3, <1>4, <1>6 DEF TakesBack, k
    <2>4. UndoRight(t)'
      BY <1>1, <1>2, <2>2, <2>3, UndoShrinks
    <2> QED
      BY <2>1, <2>4 DEF Rights
  <1>9. ASSUME NEW u \in Trx, u # t PROVE Rights(u)'
    <2>1. writer[k] # u /\ ~HasExpl(queue, "S", k, u)
      BY <1>3, <1>9, Alone
    <2> QED
      BY <2>1, <1>1, <1>3, <1>4, <1>9, RemovedOther
  <1> QED
    BY <1>6, <1>7, <1>8, <1>9 DEF IInv

(* A change of a row that stays on the page is undone.                       *)
LEMMA RowUndone ==
  ASSUME IInv, NEW t \in Trx, undo[t] # <<>>, NEW v, v = Last(undo[t]),
         page' = page, queue' = queue, waiting' = waiting, cursor' = cursor, result' = result,
         writer' = [writer EXCEPT ![v.key] = v.prev], undo' = [undo EXCEPT ![t] = Front(@)],
         deleted' \subseteq page, \A x \in Key : x # v.key => (x \in deleted' <=> x \in deleted),
         op' \in [Trx -> Op], \A u \in Trx : u # t => op'[u] = op[u],
         op'[t].do \in {"rollback", "remove"}, RemoveRight(t)'
  PROVE  IInv'
  <1> DEFINE k == v.key
  <1>1. /\ LockTable(queue, writer) /\ waiting = WaitersOf(queue)
        /\ writer \in [Key -> Trx \cup {NoTrx}] /\ queue \in Queues
        /\ page \in SUBSET Key /\ undo \in [Trx -> Seq(UndoRec)]
        /\ cursor \in [Trx -> [mode : LockMode, from : 0 .. MaxKey, pos : 0 .. Supremum]]
        /\ result \in [Trx -> SUBSET Key]
        /\ \A x \in Key : x \notin page => queue[x] = <<>> /\ writer[x] = NoTrx
        /\ UndoRight(t) /\ ScanRight(t)
    BY Known
  <1>2. /\ v \in UndoRec /\ k \in page /\ k \in Key /\ writer[k] = t /\ v.prev \in {t, NoTrx}
        /\ Front(undo[t]) \in Seq(UndoRec)
    BY LastUndo
  <1>3. /\ writer' \in [Key -> Trx \cup {NoTrx}] /\ writer'[k] = v.prev
        /\ \A x \in Key : x # k => writer'[x] = writer[x]
    BY <1>1, <1>2
  <1>4. /\ undo' \in [Trx -> Seq(UndoRec)] /\ undo'[t] = Front(undo[t])
        /\ \A u \in Trx : u # t => undo'[u] = undo[u]
    BY <1>1, <1>2
  <1>5. \A u \in Trx : u # t => writer[k] # u /\ writer'[k] # u /\ ~HasExpl(queue, "S", k, u)
    <2>1. \A u \in Trx : u # t => writer[k] # u /\ ~HasExpl(queue, "S", k, u)
      BY <1>2, Alone
    <2> QED
      BY <2>1, <1>2, <1>3, Sizes
  <1>6. LockTable(queue', writer') /\ waiting' = WaitersOf(queue')
    <2>1. Guards(queue[k], t)
      BY <1>2, Alone
    <2> DEFINE w == writer'
    <2>2. Replaces(w, writer, queue, k)
      BY <2>1, <1>3, <1>5 DEF Replaces
    <2> HIDE DEF w, k
    <2>3. LockTable(queue, w)
      BY <2>2, <1>1, <1>2, NewWriter
    <2> QED
      BY <2>3, <1>1 DEF w
  <1>7. TypeOK'
    <2>1. \A x \in Key : x \notin page' => queue'[x] = <<>> /\ writer'[x] = NoTrx
      BY <1>1, <1>2, <1>3
    <2>2. waiting \in SUBSET Trx
      BY <1>1 DEF WaitersOf
    <2> QED
      BY <2>1, <2>2, <1>1, <1>3, <1>4 DEF TypeOK, Queues
  <1>8. Rights(t)'
    <2>1. ScanRight(t)' /\ ReadRight(t)'
      BY <1>1, RollsBack
    <2>2. UndoRight(t)'
      <3>1. undo[t] \in Seq(UndoRec) /\ TakesBack(t, k)
        BY <1>1, <1>3, <1>4 DEF TakesBack
      <3>2. StillHas(t)
        BY DEF StillHas
      <3> HIDE DEF k
      <3> QED
        BY <3>1, <3>2, <1>1, UndoShrinks
    <2> QED
      BY <2>1, <2>2 DEF Rights
  <1>9. ASSUME NEW u \in Trx, u # t PROVE Rights(u)'
    <2>1. \A x \in Key : \/ SameRow(x)
                         \/ writer[x] # u /\ writer'[x] # u /\ ~HasExpl(queue, "S", x, u)
      BY <1>3, <1>5, <1>9 DEF SameRow
    <2>2. GoesOn(u) /\ Keeps(queue, queue', u)
      BY <1>9 DEF GoesOn, Keeps, KeepsAt
    <2> QED
      BY <2>1, <2>2, <1>4, <1>9, Stays
  <1> QED
    BY <1>6, <1>7, <1>8, <1>9 DEF IInv

LEMMA UndoDeleteMarkStep ==
  ASSUME IInv, NEW t \in Trx, UndoDeleteMark(t)
  PROVE  IInv'
  <1> DEFINE v == Last(undo[t])
  <1>1. /\ op[t].do = "rollback" /\ undo[t] # <<>>
        /\ deleted' = deleted \ {v.key} /\ writer' = [writer EXCEPT ![v.key] = v.prev]
        /\ undo' = [undo EXCEPT ![t] = Front(@)]
        /\ page' = page /\ queue' = queue /\ waiting' = waiting /\ op' = op
        /\ cursor' = cursor /\ result' = result
    BY DEF UndoDeleteMark, Runs, UndoLast, scans
  <1>2. op \in [Trx -> Op] /\ deleted \subseteq page
    BY Known
  <1>3. RemoveRight(t)'
    BY <1>1 DEF RemoveRight
  <1>4. /\ deleted' \subseteq page /\ op' \in [Trx -> Op] /\ op'[t].do \in {"rollback", "remove"}
        /\ \A x \in Key : x # v.key => (x \in deleted' <=> x \in deleted)
        /\ \A u \in Trx : u # t => op'[u] = op[u]
    BY <1>1, <1>2
  <1> QED
    BY <1>1, <1>3, <1>4, RowUndone

LEMMA UndoInsertByModifyStep ==
  ASSUME IInv, NEW t \in Trx, UndoInsertByModify(t)
  PROVE  IInv'
  <1> DEFINE v == Last(undo[t])
             next == IF v.prev = NoTrx THEN [do |-> "remove", key |-> v.key] ELSE RollBack
  <1>1. /\ undo[t] # <<>> /\ v.type = "upd_del"
        /\ deleted' = deleted \cup {v.key} /\ writer' = [writer EXCEPT ![v.key] = v.prev]
        /\ undo' = [undo EXCEPT ![t] = Front(@)]
        /\ op' = [op EXCEPT ![t] = next]
        /\ page' = page /\ queue' = queue /\ waiting' = waiting
        /\ cursor' = cursor /\ result' = result
    BY DEF UndoInsertByModify, UndoLast, scans
  <1>2. /\ op \in [Trx -> Op] /\ deleted \subseteq page
        /\ writer \in [Key -> Trx \cup {NoTrx}] /\ queue \in Queues
    BY Known
  <1>3. v.key \in page /\ v.key \in Key /\ HasExpl(queue, "S", v.key, t)
    BY <1>1, LastUndo
  <1>4. next \in Op /\ next.do \in {"rollback", "remove"}
    <2>1. v.key \in 0 .. Supremum /\ 0 \in 0 .. Supremum
      BY <1>3, Sizes DEF Key
    <2> QED
      BY <2>1 DEF Op, RollBack
  <1>5. op'[t] = next /\ op' \in [Trx -> Op] /\ \A u \in Trx : u # t => op'[u] = op[u]
    BY <1>1, <1>2, <1>4
  <1>6. RemoveRight(t)'
    <2>1. CASE v.prev = NoTrx
      <3>1. op'[t].key = v.key
        BY <1>5, <2>1
      <3>2. PICK k \in Key : k = v.key
        BY <1>3
      <3>3. k \in page' /\ HasExpl(queue', "S", k, t) /\ k \in deleted' /\ writer'[k] = NoTrx
        BY <3>2, <2>1, <1>1, <1>2, <1>3
      <3>4. Holds("S", t, k)'
        BY <3>3 DEF Holds
      <3>5. op'[t].key = k
        BY <3>1, <3>2
      <3> QED
        BY <3>3, <3>4, <3>5 DEF RemoveRight
    <2>2. CASE v.prev # NoTrx
      BY <1>5, <2>2 DEF RemoveRight, RollBack
    <2> QED
      BY <2>1, <2>2
  <1>7. /\ deleted' \subseteq page /\ op'[t].do \in {"rollback", "remove"}
        /\ \A x \in Key : x # v.key => (x \in deleted' <=> x \in deleted)
    BY <1>1, <1>2, <1>3, <1>4, <1>5
  <1> HIDE DEF v, next
  <1>8. v = Last(undo[t])
    BY DEF v
  <1> QED
    BY <1>1, <1>5, <1>6, <1>7, <1>8, RowUndone

LEMMA UndoRemoveStep ==
  ASSUME IInv, NEW t \in Trx, UndoRemove(t)
  PROVE  IInv'
  <1> DEFINE k == op[t].key
  <1>1. /\ op[t].do = "remove"
        /\ \/ k \in page /\ RemoveRecord(k)
           \/ /\ page' = page /\ deleted' = deleted /\ writer' = writer
              /\ queue' = queue /\ waiting' = waiting
        /\ op' = [op EXCEPT ![t] = RollBack]
        /\ undo' = undo /\ cursor' = cursor /\ result' = result
    BY DEF UndoRemove, Runs, rows, scans
  <1>2. /\ TypeOK /\ LockTable(queue, writer) /\ waiting = WaitersOf(queue)
        /\ op \in [Trx -> Op] /\ undo \in [Trx -> Seq(UndoRec)] /\ deleted \subseteq page
        /\ UndoRight(t) /\ RemoveRight(t) /\ ScanRight(t)
    BY Known
  <1>3. op'[t] = RollBack /\ \A u \in Trx : u # t => op'[u] = op[u]
    BY <1>1, <1>2
  <1>4. op' \in [Trx -> Op]
    BY <1>1, <1>2, Sizes DEF Op, RollBack
  <1>5. RemoveRight(t)' /\ ScanRight(t)' /\ ReadRight(t)'
    BY <1>1, <1>2, <1>3, RollsBack DEF RollBack
  <1>6. CASE k \in page /\ RemoveRecord(k)
    <2>1. k \in deleted /\ writer[k] = NoTrx
      BY <1>1, <1>2, <1>6 DEF RemoveRight
    <2> HIDE DEF k
    <2>2. LockTable(queue', writer') /\ waiting' = WaitersOf(queue')
      BY <1>6, RemoveFacts
    <2>3. TypeOK'
      BY <1>1, <1>2, <1>4, <1>6, RemoveTypes
    <2>4. UndoRight(t)'
      BY <1>1, <1>6, <2>1, Sizes, RemovedUndo
    <2>5. ASSUME NEW u \in Trx, u # t PROVE Rights(u)'
      BY <1>1, <1>3, <1>6, <2>1, <2>5, Sizes, RemovedOther
    <2> QED
      BY <1>5, <2>2, <2>3, <2>4, <2>5 DEF IInv, Rights
  <1>7. CASE /\ page' = page /\ deleted' = deleted /\ writer' = writer
             /\ queue' = queue /\ waiting' = waiting
    <2>1. TypeOK'
      BY <1>1, <1>2, <1>4, <1>7 DEF TypeOK
    <2>2. UndoRight(t)'
      BY <1>1, <1>2, <1>7, UndoStays
    <2>3. ASSUME NEW u \in Trx, u # t PROVE Rights(u)'
      <3>1. GoesOn(u) /\ Keeps(queue, queue', u) /\ \A x \in Key : SameRow(x)
        BY <1>3, <1>7, <2>3 DEF GoesOn, Keeps, KeepsAt, SameRow
      <3> QED
        BY <3>1, <1>1, <1>2, <1>7, Stays
    <2>4. LockTable(queue', writer') /\ waiting' = WaitersOf(queue')
      BY <1>2, <1>7
    <2> QED
      BY <1>5, <2>1, <2>2, <2>3, <2>4 DEF IInv, Rights
  <1> QED
    BY <1>1, <1>6, <1>7

-----------------------------------------------------------------------------
(* The invariant holds.                                                      *)

LEMMA InitRight ==
  ASSUME Init
  PROVE  IInv
  <1>1. /\ page \in SUBSET Key /\ deleted = {} /\ writer = [k \in Key |-> NoTrx]
        /\ queue = [r \in Rec |-> <<>>] /\ waiting = {} /\ op = [t \in Trx |-> None]
        /\ undo = [t \in Trx |-> <<>>] /\ cursor = [t \in Trx |-> NoScan]
        /\ result = [t \in Trx |-> {}]
    BY DEF Init
  <1>2. /\ queue \in Queues /\ \A r \in Rec : queue[r] = <<>> /\ Range(queue[r]) = {}
    <2>1. <<>> \in Seq(Request) /\ Range(<<>>) = {}
      BY EmptyFacts
    <2> QED
      BY <2>1, <1>1 DEF Queues
  <1>3. DOMAIN <<>> = {}
    OBVIOUS
  <1>4. WaitersOf(queue) = {}
    BY <1>2 DEF WaitersOf
  <1>5. NoCircle(queue)
    <2>1. \A u : WaitsFor(queue, u) = {}
      BY <1>2, <1>3 DEF WaitsFor
    <2>2. ASSUME NEW t \in Trx PROVE t \notin Reached(queue, t)
      <3>1. Reached(queue, t) \subseteq {}
        BY <2>1, ReachedLeast
      <3> QED
        BY <3>1
    <2> QED
      BY <2>2 DEF NoCircle
  <1>6. LockTable(queue, writer)
    <2>1. \A k \in Key, t \in Trx : writer[k] # t
      BY <1>1, Sizes
    <2>2. \A k \in Key : Ordered(queue[k])
      BY <1>2, <1>3, Sizes DEF Ordered
    <2>3. Caused(queue) /\ WaitsOnce(queue)
      BY <1>2, <1>3 DEF Caused, WaitsOnce
    <2> QED
      BY <1>2, <1>5, <2>1, <2>2, <2>3 DEF LockTable
  <1>7. TypeOK
    <2>1. None \in Op /\ NoScan \in [mode : LockMode, from : 0 .. MaxKey, pos : 0 .. Supremum]
      BY Sizes DEF None, Op, NoScan, LockMode
    <2>2. \A k \in Key : queue[k] = <<>> /\ writer[k] = NoTrx
      BY <1>1, <1>2, Sizes
    <2>3. /\ op \in [Trx -> Op] /\ undo \in [Trx -> Seq(UndoRec)] /\ result \in [Trx -> SUBSET Key]
          /\ cursor \in [Trx -> [mode : LockMode, from : 0 .. MaxKey, pos : 0 .. Supremum]]
      BY <1>1, <2>1
    <2>4. writer \in [Key -> Trx \cup {NoTrx}]
      BY <1>1
    <2> QED
      BY <1>1, <1>2, <2>2, <2>3, <2>4 DEF TypeOK, Queues
  <1>8. ASSUME NEW t \in Trx PROVE Rights(t)
    <2>1. op[t] = None /\ undo[t] = <<>> /\ cursor[t] = NoScan /\ result[t] = {}
      BY <1>1
    <2>2. UndoRight(t)
      <3>1. \A k \in Key : writer[k] # t
        BY <1>1, Sizes
      <3> QED
        BY <2>1, <3>1, <1>3 DEF UndoRight
    <2>3. RemoveRight(t) /\ ScanRight(t)
      BY <2>1 DEF RemoveRight, ScanRight, None
    <2>4. 0 \notin Key
      BY DEF Key
    <2>5. ReadRight(t)
      BY <2>1, <2>4 DEF ReadRight, Passed, NoScan
    <2> QED
      BY <2>2, <2>3, <2>5 DEF Rights
  <1> QED
    BY <1>1, <1>4, <1>6, <1>7, <1>8 DEF IInv

LEMMA UndoStep ==
  ASSUME IInv, NEW t \in Trx, Undo(t)
  PROVE  IInv'
  BY UndoInsertStep, UndoDeleteMarkStep, UndoInsertByModifyStep, UndoRemoveStep DEF Undo

LEMMA InsertStep ==
  ASSUME IInv, NEW t \in Trx, NEW k \in Key, Insert(t, k)
  PROVE  IInv'
  BY InsertDuplicateStep, InsertByModifyStep, InsertRecordStep DEF Insert

LEMMA NextRight ==
  ASSUME IInv, [Next]_vars
  PROVE  IInv'
  <1>1. ASSUME NEW t \in Trx, NEW k \in From, NEW m \in LockMode, StartScan(t, k, m) PROVE IInv'
    BY <1>1, StartScanStep
  <1>2. ASSUME NEW t \in Trx, Scan(t) PROVE IInv'
    BY <1>2, ScanMoreStep
  <1>3. ASSUME NEW t \in Trx, DeleteMark(t) PROVE IInv'
    BY <1>3, DeleteMarkStep
  <1>4. ASSUME NEW t \in Trx, NEW k \in Key, Insert(t, k) PROVE IInv'
    BY <1>4, InsertStep
  <1>5. ASSUME NEW t \in Trx, Commit(t) \/ EndRollback(t) PROVE IInv'
    BY <1>5, EndStep DEF Commit, EndRollback
  <1>6. ASSUME NEW t \in Trx, StartRollback(t) PROVE IInv'
    BY <1>6, StartRollbackStep
  <1>7. ASSUME NEW t \in Trx, Timeout(t) PROVE IInv'
    BY <1>7, TimeoutStep
  <1>8. ASSUME NEW t \in Trx, Undo(t) PROVE IInv'
    BY <1>8, UndoStep
  <1>9. ASSUME NEW k \in Key, Purge(k) PROVE IInv'
    BY <1>9, PurgeStep
  <1>10. CASE UNCHANGED vars
    <2>1. /\ page' = page /\ deleted' = deleted /\ writer' = writer /\ queue' = queue
          /\ waiting' = waiting /\ op' = op /\ undo' = undo /\ cursor' = cursor
          /\ result' = result
      BY <1>10 DEF vars
    <2>2. TypeOK' /\ LockTable(queue', writer') /\ waiting' = WaitersOf(queue')
      BY <2>1, Known DEF TypeOK
    <2>3. ASSUME NEW u \in Trx PROVE Rights(u)'
      <3>1. GoesOn(u) /\ Keeps(queue, queue', u) /\ \A x \in Key : SameRow(x)
        BY <2>1 DEF GoesOn, Keeps, KeepsAt, SameRow
      <3> QED
        BY <2>1, <3>1, Known, Stays
    <2> QED
      BY <2>2, <2>3 DEF IInv
  <1> QED
    BY <1>1, <1>2, <1>3, <1>4, <1>5, <1>6, <1>7, <1>8, <1>9, <1>10 DEF Next

-----------------------------------------------------------------------------
(* What the invariant implies.                                               *)

LEMMA ExcludedByInv ==
  ASSUME IInv
  PROVE  LocksExclude
  <1>1. queue \in Queues /\ LockTable(queue, writer)
    BY Known
  <1>2. ASSUME NEW k \in Key, NEW t \in Trx, NEW u \in Trx, t # u,
               NEW l \in Granted(k, t), NEW m \in Granted(k, u)
        PROVE  Compatible(l.mode, m.mode)
    <2>1. /\ k \in Rec /\ Ordered(queue[k]) /\ DOMAIN queue[k] = 1 .. Len(queue[k])
          /\ Len(queue[k]) \in Nat
      BY <1>1, QueueFacts, Sizes DEF LockTable
    <2>2. /\ l \in Range(queue[k]) /\ l.trx = t /\ ~l.wait /\ ~l.gap
          /\ m \in Range(queue[k]) /\ m.trx = u /\ ~m.wait /\ ~m.gap
      BY DEF Granted
    <2>3. PICK i \in 1 .. Len(queue[k]), j \in 1 .. Len(queue[k]) :
            queue[k][i] = l /\ queue[k][j] = m
      <3>1. \A x : x \in Range(queue[k]) <=> \E i \in 1 .. Len(queue[k]) : queue[k][i] = x
        BY <2>1, <1>1, QueueFacts
      <3> QED
        BY <2>2, <3>1
    <2>4. l.mode \in LockMode /\ m.mode \in LockMode
      BY <2>1, <2>2, <1>1, RequestFacts
    <2>5. j < i => Compatible(l.mode, m.mode)
      BY <2>1, <2>2, <2>3, <1>2 DEF Ordered
    <2>6. i < j => Compatible(m.mode, l.mode)
      BY <2>1, <2>2, <2>3, <1>2 DEF Ordered
    <2>7. i < j \/ j < i
      BY <2>1, <2>2, <2>3, <1>2
    <2> QED
      BY <2>4, <2>5, <2>6, <2>7, Conflicts
  <1>3. ASSUME NEW k \in Key, NEW t \in Trx, writer[k] = t
        PROVE  /\ \A u \in Trx \ {t} : Granted(k, u) = {}
               /\ \A l \in Range(queue[k]) :
                      (l.wait /\ ~l.gap /\ l.trx # t) => HasExpl(queue, "X", k, t)
    <2>1. Guards(queue[k], t)
      BY <1>1, <1>3 DEF LockTable
    <2>2. \A u \in Trx \ {t} : Granted(k, u) = {}
      BY <2>1 DEF Guards, Granted
    <2>3. ASSUME NEW l \in Range(queue[k]), ~l.gap, l.trx # t
          PROVE  HasExpl(queue, "X", k, t)
      <3>1. \E x \in Range(queue[k]) : x.trx = t /\ x.mode = "X" /\ ~x.wait /\ ~x.gap
        BY <2>1, <2>3 DEF Guards
      <3>2. "X" \in LockMode
        BY DEF LockMode
      <3> QED
        BY <3>1, <3>2, <1>1, ExplFacts
    <2> QED
      BY <2>2, <2>3
  <1> QED
    BY <1>2, <1>3 DEF LocksExclude

LEMMA RepeatableByInv ==
  ASSUME IInv
  PROVE  RepeatableRead
  <1>1. ASSUME NEW t \in Trx, cursor[t] # NoScan, op[t].do \notin {"rollback", "remove"},
               NEW k \in Key, k \in cursor[t].from .. cursor[t].pos, writer[k] # t
        PROVE  k \in result[t] <=> k \in page \ deleted
    <2>1. ScanRight(t) /\ ReadRight(t)
      BY Known
    <2>2. cursor[t].from \in Key
      BY <2>1, <1>1 DEF ScanRight
    <2>3. cursor[t].from <= k /\ k <= cursor[t].pos
      BY <1>1
    <2>4. Passed(t, k)
      BY <2>2, <2>3 DEF Passed
    <2> QED
      BY <2>1, <2>4, <1>1 DEF ReadRight
  <1> QED
    BY <1>1 DEF RepeatableRead

LEMMA RemovedIsDead ==
  ASSUME IInv, [Next]_vars, NEW k \in page \ page'
  PROVE  k \in deleted \/ (writer[k] # NoTrx /\ op[writer[k]].do = "rollback")
  <1> USE DEF rows, WaitOrError
  <1>1. ASSUME NEW t \in Trx, NEW c, ScanNext(t, c) PROVE FALSE
    BY <1>1 DEF ScanNext
  <1>2. ASSUME NEW t \in Trx, DeleteMark(t) PROVE FALSE
    BY <1>2 DEF DeleteMark
  <1>3. ASSUME NEW t \in Trx, NEW x \in Key, Insert(t, x) PROVE FALSE
    <2>1. CASE InsertDuplicate(t, x)
      BY <2>1 DEF InsertDuplicate
    <2>2. CASE InsertByModify(t, x)
      BY <2>2 DEF InsertByModify
    <2>3. CASE InsertRecord(t, x)
      BY <2>3 DEF InsertRecord
    <2> QED
      BY <1>3, <2>1, <2>2, <2>3 DEF Insert
  <1>4. ASSUME NEW t \in Trx, Commit(t) \/ EndRollback(t) PROVE FALSE
    BY <1>4 DEF Commit, EndRollback, End
  <1>5. ASSUME NEW t \in Trx, StartRollback(t) \/ Timeout(t) PROVE FALSE
    BY <1>5 DEF StartRollback, Timeout
  <1>6. ASSUME NEW t \in Trx, Undo(t)
        PROVE  k \in deleted \/ (writer[k] # NoTrx /\ op[writer[k]].do = "rollback")
    <2>1. CASE UndoInsert(t)
      <3>1. /\ op[t].do = "rollback" /\ undo[t] # <<>>
            /\ page' = page \ {Last(undo[t]).key}
        BY <2>1 DEF UndoInsert, Runs, RemoveRecord
      <3>2. k = Last(undo[t]).key
        BY <3>1
      <3>3. writer[k] = t
        BY <3>1, <3>2, LastUndo
      <3> QED
        BY <3>1, <3>3, Sizes
    <2>2. CASE UndoDeleteMark(t) \/ UndoInsertByModify(t)
      BY <2>2 DEF UndoDeleteMark, UndoInsertByModify
    <2>3. CASE UndoRemove(t)
      <3>1. op[t].do = "remove" /\ page' = page \ {op[t].key}
        BY <2>3 DEF UndoRemove, Runs, RemoveRecord
      <3>2. k = op[t].key /\ RemoveRight(t)
        BY <3>1, Known
      <3> QED
        BY <3>1, <3>2 DEF RemoveRight
    <2> QED
      BY <1>6, <2>1, <2>2, <2>3 DEF Undo
  <1>7. ASSUME NEW x \in Key, Purge(x) PROVE k \in deleted
    BY <1>7 DEF Purge, RemoveRecord
  <1>8. CASE UNCHANGED vars
    BY <1>8 DEF vars
  <1> QED
    BY <1>1, <1>2, <1>3, <1>4, <1>5, <1>6, <1>7, <1>8 DEF Next, StartScan, Scan

-----------------------------------------------------------------------------
(* The invariant holds in every state, for any finite set of transactions    *)
(* and any number of keys: the requests of a record are ordered so that none *)
(* is granted behind a conflicting one, the lock of the writer of a record   *)
(* is explicit as soon as another waits (RULE 1 of lock0lock.c), waits have  *)
(* their cause and close no circle, and every transaction still has the      *)
(* locks that what it has read, and what it has to undo, rest on.            *)
THEOREM Invariant == Spec => []IInv
<1>1. Init => IInv
  BY InitRight
<1>2. IInv /\ [Next]_vars => IInv'
  BY NextRight
<1> QED
  BY <1>1, <1>2, PTL DEF Spec

(* Types; and no request is left on a record that is not on the page, for    *)
(* lock_update_delete() moves or releases each of them when the record goes. *)
THEOREM Types == Spec => []TypeOK
<1>1. IInv => TypeOK
  BY DEF IInv
<1> QED
  BY <1>1, Invariant, PTL

(* RULE 3 and RULE 1 of lock0lock.c: no two transactions have conflicting    *)
(* granted locks on a record, nor does another than its uncommitted writer   *)
(* have one, whatever is released, cancelled, inherited and converted: who   *)
(* waits for a record finds an explicit x-lock of its writer in the queue.   *)
THEOREM LocksAreExclusive == Spec => []LocksExclude
<1>1. IInv => LocksExclude
  BY ExcludedByInv
<1> QED
  BY <1>1, Invariant, PTL

(* No circle of transactions wait for one another.  lock_deadlock_occurs()   *)
(* looks for one only when a request is queued, from the transaction that    *)
(* asks: that is enough, for no later step makes anybody wait for more.      *)
THEOREM NoCircleCloses == Spec => []DeadlockFree
<1>1. IInv => DeadlockFree
  <2> SUFFICES ASSUME IInv, NEW t \in waiting PROVE t \notin Reached(queue, t)
    BY DEF DeadlockFree
  <2>1. t \in Trx /\ NoCircle(queue)
    BY Known DEF WaitersOf, LockTable
  <2> QED
    BY <2>1 DEF NoCircle
<1> QED
  BY <1>1, Invariant, PTL

(* A transaction is in TRX_QUE_LOCK_WAIT if and only if a request of it      *)
(* waits, and each that waits has a conflicting one of another ahead: no     *)
(* release, cancellation or removed record forgets to wake somebody.         *)
THEOREM WaitsHaveCause == Spec => []WaitersHaveCause
<1>1. IInv => WaitersHaveCause
  BY DEF IInv, LockTable, Caused, WaitersHaveCause
<1> QED
  BY <1>1, Invariant, PTL

(* FACT B of lock0lock.c: what a locking read has read it would read again,  *)
(* its own changes aside, for next-key locks keep every other transaction    *)
(* from changing the records it has passed and from inserting between them,  *)
(* also after records were inserted and removed, and locks were inherited.   *)
THEOREM ReadsRepeat == Spec => []RepeatableRead
<1>1. IInv => RepeatableRead
  BY RepeatableByInv
<1> QED
  BY <1>1, Invariant, PTL

(* A record leaves the page only when it is delete-marked, or its insert is  *)
(* rolled back: row_undo_mod_remove_clust_low(), which does not look at the  *)
(* delete mark, removes no row that somebody has inserted in between.        *)
THEOREM OnlyDeadGo == Spec => OnlyDeadRemoved
<1>1. IInv /\ [Next]_vars =>
        [\A k \in page \ page' :
            k \in deleted \/ (writer[k] # NoTrx /\ op[writer[k]].do = "rollback")]_vars
  BY RemovedIsDead
<1> QED
  BY <1>1, Invariant, PTL DEF Spec, OnlyDeadRemoved
=============================================================================
