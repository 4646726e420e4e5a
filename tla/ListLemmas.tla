----------------------------- MODULE ListLemmas -----------------------------
(* Facts about lists, for every list: what SubList returns, and the elements *)
(* of the sequences that actions build.                                      *)
EXTENDS Integers, Lists, Functions, FiniteSetTheorems, WellFoundedInduction, TLAPS

(* Every non-empty set of naturals has a least element.                      *)
LEMMA Least ==
  ASSUME NEW T \in SUBSET Nat, T # {}
  PROVE  \E n \in T : \A m \in T : n <= m
<1>1. \E x \in T : \A y \in T : <<y, x>> \notin OpToRel(<, Nat)
  BY NatLessThanWellFounded, WFMin
<1>2. \A x, y \in Nat : <<y, x>> \notin OpToRel(<, Nat) => x <= y
  BY DEF OpToRel
<1>. QED  BY <1>1, <1>2

(* The function SubList recurses with, as an equation.                       *)
Filters(g, s, K, m) ==
  /\ g[0] = <<>>
  /\ \A n \in 1 .. m :
       g[n] = IF s[n] \in K THEN Append(g[n-1], s[n]) ELSE g[n-1]

LEMMA FilterExists ==
  ASSUME NEW s, Len(s) \in Nat, NEW K
  PROVE  \E g : /\ g = [n \in 0 .. Len(s) |->
                          IF n = 0 THEN <<>>
                          ELSE IF s[n] \in K THEN Append(g[n-1], s[n]) ELSE g[n-1]]
<1>. DEFINE P(m) == \E g : Filters(g, s, K, m)
            T == {m \in Nat : m <= Len(s) /\ ~ P(m)}
<1>1. T = {}
  <2>. SUFFICES ASSUME T # {} PROVE FALSE  OBVIOUS
  <2>1. PICK m \in T : \A k \in T : m <= k  BY Least
  <2>2. m # 0
    <3>1. Filters([n \in {0} |-> <<>>], s, K, 0)  BY DEF Filters
    <3>. QED  BY <3>1
  <2>3. m - 1 \in Nat /\ m - 1 <= Len(s) /\ m - 1 \notin T  BY <2>1, <2>2
  <2>4. PICK g : Filters(g, s, K, m - 1)  BY <2>3
  <2>. DEFINE h == [n \in 0 .. m |-> IF n < m THEN g[n]
                      ELSE IF s[m] \in K THEN Append(g[m-1], s[m]) ELSE g[m-1]]
  <2>5. Filters(h, s, K, m)
    <3>1. h[0] = <<>>  BY <2>1, <2>2, <2>4 DEF Filters
    <3>2. ASSUME NEW n \in 1 .. m
          PROVE  h[n] = IF s[n] \in K THEN Append(h[n-1], s[n]) ELSE h[n-1]
      <4>1. n - 1 \in 0 .. m /\ n - 1 < m /\ h[n-1] = g[n-1]  BY <2>1
      <4>2. CASE n = m  BY <4>1, <4>2, <2>1
      <4>3. CASE n # m
        <5>1. n \in 1 .. (m - 1) /\ n < m /\ n \in 0 .. m  BY <4>3, <2>1
        <5>2. g[n] = IF s[n] \in K THEN Append(g[n-1], s[n]) ELSE g[n-1]
          BY <5>1, <2>4 DEF Filters
        <5>. QED  BY <4>1, <5>1, <5>2
      <4>. QED  BY <4>2, <4>3
    <3>. QED  BY <3>1, <3>2 DEF Filters
  <2>. QED  BY <2>1, <2>5
<1>2. PICK g : Filters(g, s, K, Len(s))  BY <1>1
<1>. DEFINE h == [n \in 0 .. Len(s) |-> g[n]]
<1>3. \A n \in 1 .. Len(s) : h[n] = g[n] /\ h[n-1] = g[n-1]  OBVIOUS
<1>4. h = [n \in 0 .. Len(s) |->
             IF n = 0 THEN <<>>
             ELSE IF s[n] \in K THEN Append(h[n-1], s[n]) ELSE h[n-1]]
  <2>1. ASSUME NEW n \in 0 .. Len(s)
        PROVE  g[n] = IF n = 0 THEN <<>>
                      ELSE IF s[n] \in K THEN Append(h[n-1], s[n]) ELSE h[n-1]
    <3>1. CASE n = 0  BY <3>1, <1>2 DEF Filters
    <3>2. CASE n # 0
      <4>1. n \in 1 .. Len(s)  BY <3>2
      <4>. QED  BY <3>2, <4>1, <1>2, <1>3 DEF Filters
    <3>. QED  BY <3>1, <3>2
  <2>. QED  BY <2>1
<1>. QED  BY <1>4

(* SubList keeps the elements in K, and a head that is in K stays the head.  *)
LEMMA SubListFacts ==
  ASSUME NEW S, NEW s \in Seq(S), NEW K
  PROVE  /\ SubList(s, K) \in Seq(S)
         /\ Range(SubList(s, K)) = Range(s) \cap K
         /\ s # <<>> /\ Head(s) \in K =>
              SubList(s, K) # <<>> /\ Head(SubList(s, K)) = Head(s)
<1>. DEFINE body(g) == [n \in 0 .. Len(s) |->
              IF n = 0 THEN <<>>
              ELSE IF s[n] \in K THEN Append(g[n-1], s[n]) ELSE g[n-1]]
            f == CHOOSE g : g = body(g)
<1>1. Len(s) \in Nat  OBVIOUS
<1>2. f = body(f)
  <2>1. \E g : g = body(g)  BY <1>1, FilterExists
  <2>. QED  BY <2>1
<1>3. SubList(s, K) = f[Len(s)]  BY DEF SubList
<1>. HIDE DEF f
<1>4. f[0] = <<>>  BY <1>1, <1>2
<1>5. ASSUME NEW n \in 1 .. Len(s)
      PROVE  f[n] = IF s[n] \in K THEN Append(f[n-1], s[n]) ELSE f[n-1]
  <2>1. n \in 0 .. Len(s) /\ n # 0  OBVIOUS
  <2>. QED  BY <2>1, <1>2
<1>. DEFINE Good(n) == /\ f[n] \in Seq(S)
                       /\ \A x : (\E j \in 1 .. Len(f[n]) : f[n][j] = x)
                                   <=> x \in K /\ \E i \in 1 .. n : s[i] = x
                       /\ n >= 1 /\ s[1] \in K => Len(f[n]) >= 1 /\ f[n][1] = s[1]
            T == {n \in Nat : n <= Len(s) /\ ~ Good(n)}
<1>6. T = {}
  <2>. SUFFICES ASSUME T # {} PROVE FALSE  OBVIOUS
  <2>1. PICK n \in T : \A k \in T : n <= k  BY Least
  <2>2. n # 0
    <3>1. Good(0)  BY <1>4
    <3>. QED  BY <3>1
  <2>3. n \in 1 .. Len(s) /\ n - 1 \in Nat
    <3>. HIDE DEF Good
    <3>1. n \in Nat /\ n <= Len(s)  OBVIOUS
    <3>. QED  BY <3>1, <2>2, <1>1
  <2>4. Good(n - 1)
    <3>. HIDE DEF Good
    <3>1. n - 1 \notin T  BY <2>1, <2>3
    <3>. QED  BY <3>1, <2>3
  <2>5. s[n] \in S  BY <2>3
  <2>. DEFINE p == f[n-1]
  <2>6. p \in Seq(S) /\ Len(p) \in Nat  BY <2>4
  <2>7. CASE s[n] \in K
    <3>1. f[n] = Append(p, s[n])  BY <2>3, <2>7, <1>5
    <3>2. /\ f[n] \in Seq(S) /\ Len(f[n]) = Len(p) + 1
          /\ f[n][Len(p) + 1] = s[n]
          /\ \A j \in 1 .. Len(p) : f[n][j] = p[j]
      BY <3>1, <2>5, <2>6
    <3>3. \A x : (\E j \in 1 .. Len(f[n]) : f[n][j] = x)
                   <=> (\E j \in 1 .. Len(p) : p[j] = x) \/ x = s[n]
      <4>1. 1 .. Len(f[n]) = (1 .. Len(p)) \cup {Len(p) + 1}  BY <3>2, <2>6
      <4>. QED  BY <4>1, <3>2
    <3>4. \A x : (\E i \in 1 .. n : s[i] = x)
                   <=> (\E i \in 1 .. (n-1) : s[i] = x) \/ x = s[n]
      <4>1. 1 .. n = (1 .. (n-1)) \cup {n}  BY <2>3
      <4>. QED  BY <4>1
    <3>5. s[1] \in K => Len(f[n]) >= 1 /\ f[n][1] = s[1]
      <4>1. CASE n = 1
        <5>1. p = <<>>  BY <4>1, <1>4
        <5>. QED  BY <4>1, <5>1, <3>2
      <4>2. CASE n # 1
        <5>1. n - 1 >= 1  BY <4>2, <2>3
        <5>2. s[1] \in K => Len(p) >= 1 /\ p[1] = s[1]  BY <5>1, <2>4
        <5>. QED  BY <5>2, <3>2, <2>6
      <4>. QED  BY <4>1, <4>2
    <3>6. Good(n)
      <4>1. \A x : (\E j \in 1 .. Len(p) : p[j] = x)
                     <=> x \in K /\ \E i \in 1 .. (n-1) : s[i] = x
        BY <2>4
      <4>2. \A x : (\E j \in 1 .. Len(f[n]) : f[n][j] = x)
                     <=> x \in K /\ \E i \in 1 .. n : s[i] = x
        BY <4>1, <3>3, <3>4, <2>7
      <4>. QED  BY <4>2, <3>2, <3>5
    <3>. QED  BY <3>6, <2>1
  <2>8. CASE s[n] \notin K
    <3>1. f[n] = p  BY <2>3, <2>8, <1>5
    <3>2. \A x : x \in K => ((\E i \in 1 .. n : s[i] = x)
                              <=> (\E i \in 1 .. (n-1) : s[i] = x))
      <4>1. 1 .. n = (1 .. (n-1)) \cup {n}  BY <2>3
      <4>. QED  BY <4>1, <2>8
    <3>3. s[1] \in K => n - 1 >= 1  BY <2>3, <2>8
    <3>4. Good(n)
      <4>1. \A x : (\E j \in 1 .. Len(p) : p[j] = x)
                     <=> x \in K /\ \E i \in 1 .. (n-1) : s[i] = x
        BY <2>4
      <4>2. \A x : (\E j \in 1 .. Len(f[n]) : f[n][j] = x)
                     <=> x \in K /\ \E i \in 1 .. n : s[i] = x
        BY <4>1, <3>1, <3>2
      <4>. QED  BY <4>2, <3>1, <3>3, <2>4, <2>6
    <3>. QED  BY <3>4, <2>1
  <2>. QED  BY <2>7, <2>8
<1>7. Good(Len(s))  BY <1>1, <1>6
<1>. DEFINE r == SubList(s, K)
<1>8. r \in Seq(S) /\ Len(r) \in Nat /\ DOMAIN r = 1 .. Len(r) /\ DOMAIN s = 1 .. Len(s)
  BY <1>7, <1>3
<1>9. Range(r) = Range(s) \cap K
  BY <1>3, <1>7, <1>8 DEF Range
<1>10. ASSUME s # <<>>, Head(s) \in K
       PROVE  r # <<>> /\ Head(r) = Head(s)
  <2>1. Len(s) >= 1 /\ Head(s) = s[1]  BY <1>10
  <2>2. Len(r) >= 1 /\ r[1] = s[1]  BY <2>1, <1>3, <1>7, <1>10
  <2>. QED  BY <2>1, <2>2, <1>8
<1>. QED  BY <1>8, <1>9, <1>10

(* Where in s the elements of SubList(s, K) were: h.                         *)
Places(s, K, p, h) ==
  /\ h \in [1 .. Len(p) -> 1 .. Len(s)]
  /\ \A i, j \in 1 .. Len(p) : i < j => h[i] < h[j]
  /\ \A i \in 1 .. Len(p) : p[i] = s[h[i]] /\ p[i] \in K
  /\ \A i \in 1 .. Len(s) : s[i] \in K => \E j \in 1 .. Len(p) : h[j] = i

LEMMA SubListPlaces ==
  ASSUME NEW S, NEW s \in Seq(S), NEW K
  PROVE  \E h : Places(s, K, SubList(s, K), h)
<1>. DEFINE body(g) == [n \in 0 .. Len(s) |->
              IF n = 0 THEN <<>>
              ELSE IF s[n] \in K THEN Append(g[n-1], s[n]) ELSE g[n-1]]
            f == CHOOSE g : g = body(g)
<1>1. Len(s) \in Nat  OBVIOUS
<1>2. f = body(f)
  <2>1. \E g : g = body(g)  BY <1>1, FilterExists
  <2>. QED  BY <2>1
<1>3. SubList(s, K) = f[Len(s)]  BY DEF SubList
<1>. HIDE DEF f
<1>4. f[0] = <<>>  BY <1>1, <1>2
<1>5. ASSUME NEW n \in 1 .. Len(s)
      PROVE  f[n] = IF s[n] \in K THEN Append(f[n-1], s[n]) ELSE f[n-1]
  <2>1. n \in 0 .. Len(s) /\ n # 0  OBVIOUS
  <2>. QED  BY <2>1, <1>2
<1>. DEFINE To(p, n, h) == /\ h \in [1 .. Len(p) -> 1 .. n]
                           /\ \A i, j \in 1 .. Len(p) : i < j => h[i] < h[j]
                           /\ \A i \in 1 .. Len(p) : p[i] = s[h[i]] /\ p[i] \in K
                           /\ \A i \in 1 .. n : s[i] \in K => \E j \in 1 .. Len(p) : h[j] = i
            Good(n) == f[n] \in Seq(S) /\ \E h : To(f[n], n, h)
            T == {n \in Nat : n <= Len(s) /\ ~ Good(n)}
<1>. HIDE DEF To
<1>6. T = {}
  <2>. SUFFICES ASSUME T # {} PROVE FALSE  OBVIOUS
  <2>1. PICK n \in T : \A k \in T : n <= k  BY Least
  <2>2. n # 0
    <3>1. To(<<>>, 0, [i \in 1 .. 0 |-> 1])  BY DEF To
    <3>2. Good(0)  BY <1>4, <3>1
    <3>. QED  BY <3>2
  <2>3. n \in 1 .. Len(s) /\ n - 1 \in Nat
    <3>. HIDE DEF Good
    <3>1. n \in Nat /\ n <= Len(s)  OBVIOUS
    <3>. QED  BY <3>1, <2>2, <1>1
  <2>4. Good(n - 1)
    <3>. HIDE DEF Good
    <3>1. n - 1 \notin T  BY <2>1, <2>3
    <3>. QED  BY <3>1, <2>3
  <2>5. s[n] \in S  BY <2>3
  <2>. DEFINE p == f[n-1]
  <2>6. p \in Seq(S) /\ Len(p) \in Nat  BY <2>4
  <2>7. PICK h : To(p, n - 1, h)  BY <2>4
  <2>8. ~ Good(n)  OBVIOUS
  <2>9. CASE s[n] \in K
    <3>1. f[n] = Append(p, s[n])  BY <2>3, <2>9, <1>5
    <3>2. /\ f[n] \in Seq(S) /\ Len(f[n]) = Len(p) + 1
          /\ f[n][Len(p) + 1] = s[n]
          /\ \A j \in 1 .. Len(p) : f[n][j] = p[j]
      BY <3>1, <2>5, <2>6
    <3>. DEFINE g == [i \in 1 .. Len(f[n]) |-> IF i <= Len(p) THEN h[i] ELSE n]
    <3>3. \A i \in 1 .. Len(f[n]) : (i <= Len(p) /\ i \in 1 .. Len(p)) \/ i = Len(p) + 1
      BY <3>2, <2>6
    <3>4. \A i \in 1 .. Len(p) : i \in 1 .. Len(f[n]) /\ g[i] = h[i] /\ h[i] \in 1 .. (n-1)
      <4>1. \A i \in 1 .. Len(p) : i \in 1 .. Len(f[n]) /\ i <= Len(p)  BY <3>2, <2>6
      <4>2. \A i \in 1 .. Len(p) : h[i] \in 1 .. (n-1)  BY <2>7 DEF To
      <4>. HIDE DEF p
      <4>. QED  BY <4>1, <4>2
    <3>5. Len(p) + 1 \in 1 .. Len(f[n]) /\ g[Len(p) + 1] = n
      BY <3>2, <2>6
    <3>. HIDE DEF g, p
    <3>6. g \in [1 .. Len(f[n]) -> 1 .. n]
      <4>1. \A i \in 1 .. Len(f[n]) : g[i] \in 1 .. n  BY <3>3, <3>4, <3>5, <2>3
      <4>. QED  BY <4>1 DEF g
    <3>7. \A i, j \in 1 .. Len(f[n]) : i < j => g[i] < g[j]
      <4>. SUFFICES ASSUME NEW i \in 1 .. Len(f[n]), NEW j \in 1 .. Len(f[n]), i < j
                    PROVE  g[i] < g[j]
        OBVIOUS
      <4>1. i \in 1 .. Len(p)  BY <3>2, <3>3, <2>6
      <4>2. CASE j = Len(p) + 1  BY <4>1, <4>2, <3>4, <3>5, <2>3
      <4>3. CASE j \in 1 .. Len(p)  BY <4>1, <4>3, <3>4, <2>7 DEF To
      <4>. QED  BY <4>2, <4>3, <3>3
    <3>8. \A i \in 1 .. Len(f[n]) : f[n][i] = s[g[i]] /\ f[n][i] \in K
      <4>1. \A i \in 1 .. Len(p) : f[n][i] = s[g[i]] /\ f[n][i] \in K
        BY <3>2, <3>4, <2>7 DEF To
      <4>. QED  BY <4>1, <3>2, <3>3, <3>5, <2>9
    <3>9. \A i \in 1 .. n : s[i] \in K => \E j \in 1 .. Len(f[n]) : g[j] = i
      <4>1. \A i \in 1 .. (n-1) : s[i] \in K => \E j \in 1 .. Len(p) : g[j] = i
        BY <3>4, <2>7 DEF To
      <4>2. \A i \in 1 .. n : i \in 1 .. (n-1) \/ i = n  BY <2>3
      <4>. QED  BY <4>1, <4>2, <3>4, <3>5
    <3>10. To(f[n], n, g)  BY <3>6, <3>7, <3>8, <3>9 DEF To
    <3>. QED  BY <3>10, <3>2, <2>8
  <2>10. CASE s[n] \notin K
    <3>1. f[n] = p  BY <2>3, <2>10, <1>5
    <3>. HIDE DEF p
    <3>2. h \in [1 .. Len(p) -> 1 .. n]
      <4>1. h \in [1 .. Len(p) -> 1 .. (n-1)]  BY <2>7 DEF To
      <4>2. \A i \in 1 .. Len(p) : h[i] \in 1 .. n  BY <4>1, <2>3
      <4>. QED  BY <4>1, <4>2
    <3>3. \A i \in 1 .. n : s[i] \in K => \E j \in 1 .. Len(p) : h[j] = i
      <4>1. \A i \in 1 .. n : i \in 1 .. (n-1) \/ i = n  BY <2>3
      <4>. QED  BY <4>1, <2>7, <2>10 DEF To
    <3>4. To(p, n, h)  BY <3>2, <3>3, <2>7 DEF To
    <3>. QED  BY <3>1, <3>4, <2>6, <2>8
  <2>. QED  BY <2>9, <2>10
<1>7. Good(Len(s))  BY <1>1, <1>6
<1>8. PICK h : To(SubList(s, K), Len(s), h)  BY <1>7, <1>3
<1>. QED  BY <1>8 DEF To, Places

-----------------------------------------------------------------------------
(* The first element of a sequence, and its set of elements.                 *)
LEMMA HeadFacts ==
  ASSUME NEW S, NEW s \in Seq(S)
  PROVE  /\ Range(s) \subseteq S
         /\ s = <<>> <=> Range(s) = {}
         /\ s # <<>> => Head(s) \in Range(s)
<1>1. Range(s) \subseteq S /\ (s = <<>> <=> Range(s) = {})
  <2>1. DOMAIN s = 1 .. Len(s) /\ Len(s) \in Nat  OBVIOUS
  <2>2. s # <<>> => s[1] \in Range(s)
    <3>1. s # <<>> => 1 \in DOMAIN s  OBVIOUS
    <3>. QED  BY <3>1 DEF Range
  <2>3. s = <<>> => DOMAIN s = {}  OBVIOUS
  <2>4. \A i \in DOMAIN s : s[i] \in S  OBVIOUS
  <2>. QED  BY <2>2, <2>3, <2>4 DEF Range
<1>2. s # <<>> => Head(s) \in Range(s)  BY DEF Range
<1>. QED  BY <1>1, <1>2

(* Elements of the sequences the actions build.                              *)
LEMMA ConcatFacts ==
  ASSUME NEW S, NEW s \in Seq(S), NEW u \in Seq(S)
  PROVE  s \o u \in Seq(S) /\ Range(s \o u) = Range(s) \cup Range(u)
<1>1. Range(s \o u) = Range(s) \cup Range(u)
  <2>. DEFINE c == s \o u
  <2>1. /\ DOMAIN c = 1 .. (Len(s) + Len(u))
        /\ \A i \in 1 .. Len(s) : c[i] = s[i]
        /\ \A i \in 1 .. Len(u) : c[Len(s) + i] = u[i]
        /\ DOMAIN s = 1 .. Len(s) /\ DOMAIN u = 1 .. Len(u)
        /\ Len(s) \in Nat /\ Len(u) \in Nat
    OBVIOUS
  <2>2. ASSUME NEW i \in DOMAIN c PROVE c[i] \in Range(s) \cup Range(u)
    <3>1. CASE i <= Len(s)  BY <2>1, <3>1 DEF Range
    <3>2. CASE i > Len(s)
      <4>1. i - Len(s) \in 1 .. Len(u) /\ i = Len(s) + (i - Len(s))  BY <2>1, <3>2
      <4>. QED  BY <2>1, <4>1 DEF Range
    <3>. QED  BY <2>1, <3>1, <3>2
  <2>3. \A i \in 1 .. Len(s) : i \in DOMAIN c  BY <2>1
  <2>4. \A i \in 1 .. Len(u) : Len(s) + i \in DOMAIN c  BY <2>1
  <2>5. \A i \in DOMAIN s : s[i] \in Range(c)
    <3>1. \A i \in DOMAIN s : i \in DOMAIN c /\ c[i] = s[i]  BY <2>1, <2>3
    <3>. HIDE DEF c
    <3>. QED  BY <3>1 DEF Range
  <2>6. \A i \in DOMAIN u : u[i] \in Range(c)
    <3>1. \A i \in DOMAIN u : Len(s) + i \in DOMAIN c /\ c[Len(s) + i] = u[i]
      BY <2>1, <2>4
    <3>. HIDE DEF c
    <3>. QED  BY <3>1 DEF Range
  <2>7. Range(c) = Range(s) \cup Range(u)
    <3>. HIDE DEF c
    <3>. QED  BY <2>2, <2>5, <2>6 DEF Range
  <2>. QED  BY <2>7
<1>. QED  BY <1>1

LEMMA AppendFacts ==
  ASSUME NEW S, NEW s \in Seq(S), NEW e \in S
  PROVE  /\ Append(s, e) \in Seq(S)
         /\ Range(Append(s, e)) = Range(s) \cup {e}
         /\ Head(Append(s, e)) = IF s = <<>> THEN e ELSE Head(s)
<1>1. Range(Append(s, e)) = Range(s) \cup {e}
  <2>. DEFINE a == Append(s, e)
  <2>1. /\ DOMAIN a = 1 .. (Len(s) + 1) /\ a[Len(s) + 1] = e
        /\ \A i \in 1 .. Len(s) : a[i] = s[i]
        /\ DOMAIN s = 1 .. Len(s) /\ Len(s) \in Nat
    OBVIOUS
  <2>2. DOMAIN a = DOMAIN s \cup {Len(s) + 1}  BY <2>1
  <2>. QED  BY <2>1, <2>2 DEF Range
<1>. QED  BY <1>1

LEMMA ConsFacts ==
  ASSUME NEW S, NEW s \in Seq(S), NEW e \in S
  PROVE  /\ <<e>> \o s \in Seq(S)
         /\ Range(<<e>> \o s) = Range(s) \cup {e}
<1>1. Range(<<e>> \o s) = Range(s) \cup {e}
  <2>. DEFINE c == <<e>> \o s
  <2>1. /\ DOMAIN c = 1 .. (1 + Len(s)) /\ c[1] = e
        /\ \A i \in 1 .. Len(s) : c[1 + i] = s[i]
        /\ DOMAIN s = 1 .. Len(s) /\ Len(s) \in Nat
    OBVIOUS
  <2>2. ASSUME NEW i \in DOMAIN c PROVE c[i] \in Range(s) \cup {e}
    <3>1. CASE i = 1  BY <2>1, <3>1
    <3>2. CASE i # 1
      <4>1. i - 1 \in 1 .. Len(s) /\ i = 1 + (i - 1)  BY <2>1, <3>2
      <4>. QED  BY <2>1, <4>1 DEF Range
    <3>. QED  BY <3>1, <3>2
  <2>3. \A i \in 1 .. Len(s) : 1 + i \in DOMAIN c  BY <2>1
  <2>4. \A i \in DOMAIN s : s[i] \in Range(c)
    <3>1. \A i \in DOMAIN s : 1 + i \in DOMAIN c /\ c[1 + i] = s[i]  BY <2>1, <2>3
    <3>. HIDE DEF c
    <3>. QED  BY <3>1 DEF Range
  <2>5. e \in Range(c)
    <3>1. 1 \in DOMAIN c /\ c[1] = e  BY <2>1
    <3>. HIDE DEF c
    <3>. QED  BY <3>1 DEF Range
  <2>6. Range(c) = Range(s) \cup {e}
    <3>. HIDE DEF c
    <3>. QED  BY <2>2, <2>4, <2>5 DEF Range
  <2>. QED  BY <2>6
<1>. QED  BY <1>1

LEMMA EmptyFacts ==
  ASSUME NEW S
  PROVE  <<>> \in Seq(S) /\ Range(<<>>) = {}
BY DEF Range
=============================================================================
