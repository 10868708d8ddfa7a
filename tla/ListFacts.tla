------------------------------ MODULE ListFacts -----------------------------
(***************************************************************************)
(* Facts about numbers, orders and lists that proofs of other modules      *)
(* rest on: a set of naturals has a least element, which makes induction   *)
(* possible where the provers cannot instantiate the induction theorems;   *)
(* the ranks in a finite total order are a numbering of it; a sequence of  *)
(* blocks of one or two lines, flattened, has its lines where one expects. *)
(***************************************************************************)
EXTENDS SequencesExt, FiniteSetTheorems, SequenceTheorems, TLAPS

LEMMA LeastNat ==
    ASSUME NEW S \in SUBSET Nat, S # {}
    PROVE  \E n \in S : \A k \in S : n <= k
<1> DEFINE R == {p \in Nat \X Nat : p[1] < p[2]}
<1>1. IsWellFoundedOn(R, Nat)
  BY NatLessThanWellFounded DEF OpToRel
<1>2. \A j, k \in Nat : <<j, k>> \in R <=> j < k
  OBVIOUS
<1> HIDE DEF R
<1>3. PICK n \in S : \A k \in S : ~(<<k, n>> \in R)
  BY <1>1, WFMin
<1>4. ASSUME NEW k \in S PROVE n <= k
  <2>1. k \in Nat /\ n \in Nat /\ ~(k < n)
    BY <1>2, <1>3
  <2> QED
    BY <2>1
<1> QED
  BY <1>4

\* A step repeated from somewhere: the places it passes.
Repeats(f, step, x, S) ==
    /\ f \in [Nat -> S] /\ f[0] = x
    /\ \A k \in Nat : f[k + 1] = step[f[k]]

LEMMA Iterates ==
    ASSUME NEW S, NEW step \in [S -> S], NEW x \in S
    PROVE  \E f : Repeats(f, step, x, S)
<1> DEFINE Upto(n, g) == /\ g \in [Nat -> S] /\ g[0] = x
                         /\ \A k \in Nat : k < n => g[k + 1] = step[g[k]]
<1>1. \A n \in Nat : \E g : Upto(n, g)
  <2> DEFINE T == {n \in Nat : ~\E g : Upto(n, g)}
  <2>1. SUFFICES ASSUME T # {} PROVE FALSE
    OBVIOUS
  <2>2. PICK n \in T : \A k \in T : n <= k
    <3>1. T \in SUBSET Nat
      OBVIOUS
    <3> HIDE DEF T
    <3> QED
      BY <2>1, <3>1, LeastNat
  <2>3. CASE n = 0
    <3> DEFINE g == [k \in Nat |-> x]
    <3>1. Upto(0, g)
      OBVIOUS
    <3> QED
      BY <2>2, <2>3, <3>1
  <2>4. CASE n # 0
    <3>1. n - 1 \in Nat /\ n - 1 \notin T
      BY <2>2, <2>4
    <3>2. PICK g : Upto(n - 1, g)
      BY <3>1
    <3> DEFINE h == [g EXCEPT ![n] = step[g[n - 1]]]
    <3>3. h \in [Nat -> S] /\ h[0] = x
      BY <2>4, <3>1, <3>2
    <3>4. ASSUME NEW k \in Nat, k < n PROVE h[k + 1] = step[h[k]]
      BY <3>1, <3>2, <3>4
    <3>5. Upto(n, h)
      BY <3>3, <3>4
    <3> QED
      BY <2>2, <3>5
  <2> QED
    BY <2>3, <2>4
<1> DEFINE G(n) == CHOOSE g : Upto(n, g)
<1>2. ASSUME NEW n \in Nat PROVE Upto(n, G(n))
  BY <1>1, <1>2
<1>3. ASSUME NEW m \in Nat, NEW n \in Nat, m <= n,
             NEW a, Upto(m, a), NEW b, Upto(n, b)
      PROVE  a[m] = b[m]
  <2> DEFINE D == {k \in 0 .. m : a[k] # b[k]}
  <2>1. SUFFICES ASSUME D # {} PROVE FALSE
    OBVIOUS
  <2>2. PICK k \in D : \A l \in D : k <= l
    <3>1. D \in SUBSET Nat
      OBVIOUS
    <3> HIDE DEF D
    <3> QED
      BY <2>1, <3>1, LeastNat
  <2>3. k # 0
    BY <1>3
  <2>4. k - 1 \in 0 .. m /\ k - 1 \notin D
    BY <2>2, <2>3
  <2>5. a[k] = step[a[k - 1]] /\ b[k] = step[b[k - 1]]
    BY <1>3, <2>2, <2>3, <2>4
  <2> QED
    BY <2>2, <2>4, <2>5
<1> DEFINE f == [n \in Nat |-> G(n)[n]]
<1>4. f \in [Nat -> S] /\ f[0] = x
  BY <1>2
<1>5. ASSUME NEW k \in Nat PROVE f[k + 1] = step[f[k]]
  <2> HIDE DEF G
  <2>1. Upto(k + 1, G(k + 1)) /\ Upto(k, G(k))
    <3>1. k + 1 \in Nat
      OBVIOUS
    <3> HIDE DEF Upto
    <3> QED
      BY <1>2, <3>1
  <2>2. G(k)[k] = G(k + 1)[k]
    <3> HIDE DEF Upto, G
    <3> QED
      BY <1>3, <2>1
  <2>3. G(k + 1)[k + 1] = step[G(k + 1)[k]]
    BY <2>1
  <2> HIDE DEF Upto
  <2> QED
    BY <2>2, <2>3
<1> HIDE DEF f
<1>6. Repeats(f, step, x, S)
  BY <1>4, <1>5 DEF Repeats
<1> QED
  BY <1>6

\* Max and Min of a set of naturals are elements of it, and what they say.
LEMMA MinNat ==
    ASSUME NEW S \in SUBSET Nat, S # {}
    PROVE  Min(S) \in S /\ \A k \in S : Min(S) <= k
BY LeastNat DEF Min

LEMMA MaxUpTo ==
    ASSUME NEW n \in Nat, NEW S \in SUBSET (0 .. n), S # {}
    PROVE  Max(S) \in S /\ \A k \in S : Max(S) >= k
<1> DEFINE T == {j \in 0 .. n : n - j \in S}
<1>1. T # {}
  <2>1. PICK k \in S : TRUE
    OBVIOUS
  <2>2. n - k \in T
    BY <2>1
  <2> QED
    BY <2>2
<1>2. PICK j \in T : \A i \in T : j <= i
  <2>1. T \in SUBSET Nat
    OBVIOUS
  <2> HIDE DEF T
  <2> QED
    BY <1>1, <2>1, LeastNat
<1>3. \A k \in S : n - j >= k
  <2> SUFFICES ASSUME NEW k \in S PROVE n - j >= k
    OBVIOUS
  <2>1. n - k \in T
    OBVIOUS
  <2> QED
    BY <1>2, <2>1
<1>4. n - j \in S
  OBVIOUS
<1> QED
  BY <1>3, <1>4 DEF Max

\* Ranks.
StrictOrder(R, S) ==
    /\ \A x \in S : <<x, x>> \notin R
    /\ \A x, y, z \in S : <<x, y>> \in R /\ <<y, z>> \in R => <<x, z>> \in R
    /\ \A x, y \in S : x = y \/ <<x, y>> \in R \/ <<y, x>> \in R

Rk(R, S, x) == Cardinality({y \in S : <<y, x>> \in R})

LEMMA RankGrows ==
    ASSUME NEW S, IsFiniteSet(S), NEW R, StrictOrder(R, S),
           NEW x \in S, NEW y \in S, <<x, y>> \in R
    PROVE  Rk(R, S, x) < Rk(R, S, y)
<1> DEFINE X == {z \in S : <<z, x>> \in R}
           Y == {z \in S : <<z, y>> \in R}
<1>1. X \subseteq Y /\ x \in Y /\ x \notin X
  BY DEF StrictOrder
<1>2. IsFiniteSet(Y) /\ IsFiniteSet(X)
  BY FS_Subset
<1>3. Cardinality(X) \in Nat /\ Cardinality(Y) \in Nat
  BY <1>2, FS_CardinalityType
<1> HIDE DEF X, Y
<1>4. Cardinality(X) <= Cardinality(Y) /\ Cardinality(X) # Cardinality(Y)
  BY <1>1, <1>2, FS_Subset
<1> QED
  BY <1>3, <1>4 DEF Rk, X, Y

\* Every number below the size of the set is the rank of just one element,
\* and the order of the ranks is the order.
LEMMA Ranks ==
    ASSUME NEW S, IsFiniteSet(S), NEW R, StrictOrder(R, S)
    PROVE  /\ \A x \in S : Rk(R, S, x) \in 0 .. Cardinality(S) - 1
           /\ \A x, y \in S : <<x, y>> \in R <=> Rk(R, S, x) < Rk(R, S, y)
           /\ \A x, y \in S : Rk(R, S, x) = Rk(R, S, y) => x = y
           /\ \A n \in 0 .. Cardinality(S) - 1 : \E x \in S : Rk(R, S, x) = n
<1> DEFINE N == Cardinality(S)
<1>1. N \in Nat
  BY FS_CardinalityType
<1>2. \A x \in S : Rk(R, S, x) \in 0 .. N - 1
  <2> SUFFICES ASSUME NEW x \in S PROVE Rk(R, S, x) \in 0 .. N - 1
    OBVIOUS
  <2> DEFINE X == {y \in S : <<y, x>> \in R}
  <2>1. X \subseteq S /\ x \notin X
    BY DEF StrictOrder
  <2> HIDE DEF X
  <2>2. IsFiniteSet(X) /\ Cardinality(X) <= N /\ Cardinality(X) # N
    BY <2>1, FS_Subset
  <2>3. Cardinality(X) \in Nat
    BY <2>2, FS_CardinalityType
  <2> HIDE DEF N
  <2>4. Cardinality(X) \in 0 .. N - 1
    BY <1>1, <2>2, <2>3
  <2> QED
    BY <2>4 DEF Rk, X
<1>3. \A x, y \in S : <<x, y>> \in R => Rk(R, S, x) < Rk(R, S, y)
  BY RankGrows
<1>4. \A x, y \in S : <<x, y>> \in R <=> Rk(R, S, x) < Rk(R, S, y)
  <2> SUFFICES ASSUME NEW x \in S, NEW y \in S, ~(<<x, y>> \in R),
                      Rk(R, S, x) < Rk(R, S, y)
               PROVE  FALSE
    BY <1>3
  <2>1. x = y \/ <<y, x>> \in R
    BY DEF StrictOrder
  <2>2. CASE x = y
    BY <1>2, <2>2
  <2>3. CASE <<y, x>> \in R
    BY <1>2, <1>3, <2>3
  <2> QED
    BY <2>1, <2>2, <2>3
<1>5. \A x, y \in S : Rk(R, S, x) = Rk(R, S, y) => x = y
  <2> SUFFICES ASSUME NEW x \in S, NEW y \in S, Rk(R, S, x) = Rk(R, S, y)
               PROVE  x = y
    OBVIOUS
  <2>1. ~(<<x, y>> \in R) /\ ~(<<y, x>> \in R)
    BY <1>2, <1>3
  <2> QED
    BY <2>1 DEF StrictOrder
<1>6. ASSUME NEW n \in 0 .. N - 1 PROVE \E x \in S : Rk(R, S, x) = n
  <2> DEFINE f == [x \in S |-> Rk(R, S, x)]
             T == 0 .. N - 1
  <2>1. f \in Injection(S, T)
    BY <1>2, <1>5 DEF Injection, IsInjective
  <2>2. IsFiniteSet(T) /\ Cardinality(T) = N
    <3> HIDE DEF N
    <3> QED
      BY <1>1, FS_Interval
  <2>3. f \in Surjection(S, T)
    <3> HIDE DEF f, T
    <3> QED
      BY <2>1, <2>2, FS_Injection
  <2> QED
    BY <2>3 DEF Surjection
<1> QED
  BY <1>2, <1>4, <1>5, <1>6

\* A sequence of sequences has one flattening: any that is built like it.
LEMMA FlattenIs ==
    ASSUME NEW s, Len(s) \in Nat \ {0}, NEW e,
           \A i \in 1 .. Len(s) :
              e[i] = IF i = 1 THEN s[i] ELSE e[i - 1] \o s[i]
    PROVE  FlattenSeq(s) = e[Len(s)]
<1> DEFINE n == Len(s)
           Step(f, i) == IF i = 1 THEN s[i] ELSE f[i - 1] \o s[i]
           Built(f) == f = [i \in 1 .. n |-> Step(f, i)]
<1>1. ASSUME NEW f, Built(f) PROVE f[n] = e[n]
  <2> DEFINE S == {i \in 1 .. n : f[i] # e[i]}
  <2>1. SUFFICES ASSUME S # {} PROVE FALSE
    OBVIOUS
  <2>2. PICK i \in S : \A j \in S : i <= j
    <3>1. S \in SUBSET Nat
      OBVIOUS
    <3> HIDE DEF S
    <3> QED
      BY <2>1, <3>1, LeastNat
  <2>3. f[i] = Step(f, i) /\ e[i] = Step(e, i)
    BY <1>1
  <2>4. i # 1
    BY <2>3
  <2>5. i - 1 \in 1 .. n /\ i - 1 \notin S
    BY <2>2, <2>4
  <2> QED
    BY <2>3, <2>4, <2>5
<1>2. \E f : Built(f)
  <2> DEFINE g == [i \in 1 .. n |-> e[i]]
  <2>1. ASSUME NEW i \in 1 .. n PROVE g[i] = Step(g, i)
    OBVIOUS
  <2>2. g = [i \in 1 .. n |-> Step(g, i)]
    BY <2>1
  <2> HIDE DEF g, Step
  <2> QED
    BY <2>2
<1>3. FlattenSeq(s) = (CHOOSE f : Built(f))[n]
  BY DEF FlattenSeq
<1> HIDE DEF Built
<1>4. Built(CHOOSE f : Built(f))
  BY <1>2
<1> QED
  BY <1>1, <1>3, <1>4

\* What lies where once two lists are one.
LEMMA Appended ==
    ASSUME NEW L, NEW a \in Seq(L), NEW b \in Seq(L), NEW f \in Seq(L),
           Len(f) = Len(a) + Len(b),
           \A m \in 1 .. Len(a) : f[m] = a[m],
           \A m \in 1 .. Len(b) : f[Len(a) + m] = b[m]
    PROVE  f = a \o b
<1> DEFINE c == a \o b
<1>1. c \in Seq(L) /\ Len(c) = Len(f)
  BY ConcatProperties
<1>2. Len(a) \in Nat /\ Len(b) \in Nat
  BY LenProperties
<1>3. \A m \in 1 .. Len(f) : f[m] = c[m]
  <2> TAKE m \in 1 .. Len(f)
  <2>1. c[m] = IF m <= Len(a) THEN a[m] ELSE b[m - Len(a)]
    BY ConcatProperties
  <2> HIDE DEF c
  <2>2. CASE m <= Len(a)
    BY <1>2, <2>1, <2>2
  <2>3. CASE m > Len(a)
    <3> DEFINE j == m - Len(a)
    <3>1. j \in 1 .. Len(b) /\ m = Len(a) + j
      BY <1>2, <2>3
    <3> HIDE DEF j
    <3>2. f[m] = b[j]
      BY <3>1
    <3> QED
      BY <1>2, <2>1, <2>3, <3>2 DEF j
  <2> QED
    BY <1>2, <2>2, <2>3
<1> HIDE DEF c
<1>4. f = c
  BY <1>1, <1>3, SMTT(20)
<1> QED
  BY <1>4 DEF c

\* Blocks of one line, and blocks of two.
LEMMA SeqMade ==
    ASSUME NEW L, NEW w \in Nat, NEW g, g = [m \in 1 .. w |-> g[m]],
           \A m \in 1 .. w : g[m] \in L
    PROVE  g \in Seq(L) /\ Len(g) = w
OBVIOUS

LEMMA Joins ==
    ASSUME NEW x, NEW y
    PROVE  <<x>> \o <<>> = <<x>> /\ <<x>> \o <<y>> = <<x, y>>
<1>1. <<x>> \o <<>> = <<x>>
  <2>1. <<x>> \in Seq({x})
    OBVIOUS
  <2> QED
    BY <2>1, ConcatEmptySeq
<1>2. <<x>> \o <<y>> = <<x, y>>
  <2> DEFINE L == {x, y}
             a == <<x>>
             b == <<y>>
             f == <<x, y>>
  <2>1. /\ a \in Seq(L) /\ b \in Seq(L) /\ f \in Seq(L)
        /\ Len(a) = 1 /\ Len(b) = 1 /\ Len(f) = 2
        /\ a[1] = x /\ b[1] = y /\ f[1] = x /\ f[2] = y
    OBVIOUS
  <2> HIDE DEF L, a, b, f
  <2>2. /\ Len(f) = Len(a) + Len(b)
        /\ \A m \in 1 .. Len(a) : f[m] = a[m]
        /\ \A m \in 1 .. Len(b) : f[Len(a) + m] = b[m]
    BY <2>1
  <2>3. f = a \o b
    BY <2>1, <2>2, Appended
  <2> QED
    BY <2>3 DEF f, a, b
<1> QED
  BY <1>1, <1>2

LEMMA FlattenSingles ==
    ASSUME NEW L, NEW s \in Seq(Seq(L)), \A k \in DOMAIN s : Len(s[k]) = 1
    PROVE  FlattenSeq(s) = [m \in 1 .. Len(s) |-> s[m][1]]
<1> DEFINE n == Len(s)
           e == [i \in 1 .. n |-> [m \in 1 .. i |-> s[m][1]]]
<1>1. CASE n = 0
  BY <1>1 DEF FlattenSeq
<1>2. CASE n # 0
  <2>1. ASSUME NEW i \in 1 .. n
        PROVE  e[i] = IF i = 1 THEN s[i] ELSE e[i - 1] \o s[i]
    <3>1. s[i] = <<s[i][1]>>
      OBVIOUS
    <3>2. CASE i = 1
      BY <3>1, <3>2
    <3>3. CASE i # 1
      <4>1. e[i - 1] = [m \in 1 .. i - 1 |-> s[m][1]]
        BY <3>3
      <4>2. e[i - 1] \in Seq(L)
        BY <3>3, <4>1
      <4>3. Len(e[i - 1]) = i - 1
        BY <3>3, <4>1
      <4>4. \A m \in 1 .. i - 1 : e[i][m] = e[i - 1][m]
        BY <4>1
      <4>5. \A m \in 1 .. 1 : e[i][i - 1 + m] = s[i][m]
        BY <3>3
      <4>6. e[i] \in Seq(L) /\ Len(e[i]) = i - 1 + 1
        OBVIOUS
      <4>7. s[i] \in Seq(L) /\ Len(s[i]) = 1
        OBVIOUS
      <4>8. e[i] = e[i - 1] \o s[i]
        <5> HIDE DEF e
        <5> QED
          <6>1. Len(e[i]) = Len(e[i - 1]) + Len(s[i])
            BY <4>3, <4>6, <4>7
          <6>2. \A m \in 1 .. Len(e[i - 1]) : e[i][m] = e[i - 1][m]
            BY <4>3, <4>4
          <6>3. \A m \in 1 .. Len(s[i]) : e[i][Len(e[i - 1]) + m] = s[i][m]
            BY <4>3, <4>5, <4>7
          <6> QED
            BY <4>2, <4>6, <4>7, <6>1, <6>2, <6>3, Appended
      <4> HIDE DEF e
      <4> QED
        BY <3>3, <4>8
    <3> QED
      BY <3>2, <3>3
  <2>2. FlattenSeq(s) = e[n]
    <3> HIDE DEF e
    <3> QED
      BY <1>2, <2>1, FlattenIs
  <2> QED
    BY <1>2, <2>2
<1> QED
  BY <1>1, <1>2

Half(m) == (m + 1) \div 2

LEMMA FlattenPairs ==
    ASSUME NEW L, NEW s \in Seq(Seq(L)), \A k \in DOMAIN s : Len(s[k]) = 2
    PROVE  FlattenSeq(s) = [m \in 1 .. 2 * Len(s) |->
                               s[Half(m)][IF m % 2 = 1 THEN 1 ELSE 2]]
<1> DEFINE n == Len(s)
           At(m) == s[Half(m)][IF m % 2 = 1 THEN 1 ELSE 2]
           e == [i \in 1 .. n |-> [m \in 1 .. 2 * i |-> At(m)]]
<1>1. CASE n = 0
  BY <1>1 DEF FlattenSeq
<1>2. CASE n # 0
  <2>1. ASSUME NEW i \in 1 .. n
        PROVE  e[i] = IF i = 1 THEN s[i] ELSE e[i - 1] \o s[i]
    <3>1. s[i] \in Seq(L) /\ Len(s[i]) = 2
      OBVIOUS
    <3>2. At(2 * i - 1) = s[i][1] /\ At(2 * i) = s[i][2]
      BY DEF Half
    <3>3. CASE i = 1
      <4>1. At(1) = s[1][1] /\ At(2) = s[1][2]
        BY <3>2, <3>3
      <4> QED
        BY <3>1, <3>3, <4>1, SMTT(20)
    <3>4. CASE i # 1
      <4>1. e[i - 1] = [m \in 1 .. 2 * (i - 1) |-> At(m)]
        BY <3>4
      <4>2. ASSUME NEW m \in 1 .. 2 * n PROVE At(m) \in L
        BY DEF Half
      <4>3. e[i - 1] \in Seq(L) /\ Len(e[i - 1]) = 2 * (i - 1)
        <5> HIDE DEF At
        <5> QED
          BY <3>4, <4>1, <4>2
      <4>4. \A m \in 1 .. 2 * (i - 1) : e[i][m] = e[i - 1][m]
        BY <4>1
      <4>5. \A m \in 1 .. 2 : e[i][2 * (i - 1) + m] = s[i][m]
        <5> HIDE DEF At
        <5>1. e[i][2 * i - 1] = s[i][1] /\ e[i][2 * i] = s[i][2]
          BY <3>2
        <5>2. 2 * (i - 1) + 1 = 2 * i - 1 /\ 2 * (i - 1) + 2 = 2 * i
          OBVIOUS
        <5>3. ASSUME NEW m \in 1 .. 2 PROVE e[i][2 * (i - 1) + m] = s[i][m]
          <6> HIDE DEF e
          <6>1. m = 1 \/ m = 2
            OBVIOUS
          <6> QED
            BY <5>1, <5>2, <6>1
        <5> QED
          BY <5>3
      <4>6. e[i] \in Seq(L) /\ Len(e[i]) = 2 * (i - 1) + 2
        <5>1. PICK w \in Nat : w = 2 * i
          OBVIOUS
        <5>2. e[i] = [m \in 1 .. w |-> At(m)] /\ 2 * (i - 1) + 2 = w
          BY <5>1
        <5>3. \A m \in 1 .. w : At(m) \in L
          BY <4>2, <5>1
        <5> HIDE DEF At, e
        <5>4. e[i] = [m \in 1 .. w |-> e[i][m]] /\ \A m \in 1 .. w : e[i][m] \in L
          BY <5>2, <5>3
        <5>5. e[i] \in Seq(L) /\ Len(e[i]) = w
          BY <5>4, SeqMade
        <5> QED
          BY <5>2, <5>5
      <4>7. e[i] = e[i - 1] \o s[i]
        <5> HIDE DEF e
        <5> QED
          <6>1. Len(e[i]) = Len(e[i - 1]) + Len(s[i])
            BY <3>1, <4>3, <4>6
          <6>2. \A m \in 1 .. Len(e[i - 1]) : e[i][m] = e[i - 1][m]
            BY <4>3, <4>4
          <6>3. \A m \in 1 .. Len(s[i]) : e[i][Len(e[i - 1]) + m] = s[i][m]
            BY <3>1, <4>3, <4>5
          <6> QED
            BY <3>1, <4>3, <4>6, <6>1, <6>2, <6>3, Appended
      <4> QED
        BY <3>4, <4>7
    <3> QED
      BY <3>3, <3>4
  <2>2. FlattenSeq(s) = e[n]
    <3> HIDE DEF e
    <3> QED
      BY <1>2, <2>1, FlattenIs
  <2> QED
    BY <1>2, <2>2
<1> QED
  BY <1>1, <1>2

\* The same, line by line.
LEMMA SinglesLines ==
    ASSUME NEW L, NEW s \in Seq(Seq(L)), \A k \in DOMAIN s : Len(s[k]) = 1,
           NEW out, out = FlattenSeq(s)
    PROVE  /\ out \in Seq(L) /\ Len(out) = Len(s)
           /\ \A k \in 1 .. Len(s) : out[k] = s[k][1]
<1>1. out = [m \in 1 .. Len(s) |-> s[m][1]]
  BY FlattenSingles
<1>2. \A m \in 1 .. Len(s) : s[m][1] \in L
  OBVIOUS
<1> QED
  BY <1>1, <1>2

LEMMA PairsLines ==
    ASSUME NEW L, NEW s \in Seq(Seq(L)), \A k \in DOMAIN s : Len(s[k]) = 2,
           NEW out, out = FlattenSeq(s)
    PROVE  /\ out \in Seq(L) /\ Len(out) = 2 * Len(s)
           /\ \A k \in 1 .. Len(s) : /\ out[2 * k - 1] = s[k][1]
                                     /\ out[2 * k] = s[k][2]
           /\ \A m \in 1 .. 2 * Len(s) : /\ Half(m) \in 1 .. Len(s)
                                         /\ m \in {2 * Half(m) - 1, 2 * Half(m)}
<1> DEFINE n == Len(s)
           At(m) == s[Half(m)][IF m % 2 = 1 THEN 1 ELSE 2]
<1>1. out = [m \in 1 .. 2 * n |-> At(m)]
  BY FlattenPairs
<1>2. \A m \in 1 .. 2 * n : Half(m) \in 1 .. n
  BY DEF Half
<1>3. \A m \in 1 .. 2 * n : At(m) \in L
  BY <1>2
<1>4. \A k \in 1 .. n : At(2 * k - 1) = s[k][1] /\ At(2 * k) = s[k][2]
  BY DEF Half
<1>5. \A m \in 1 .. 2 * n : m \in {2 * Half(m) - 1, 2 * Half(m)}
  BY DEF Half
<1>6. n \in Nat
  OBVIOUS
<1> HIDE DEF At, n
<1>7. out \in Seq(L) /\ Len(out) = 2 * n
  BY <1>1, <1>3, <1>6
<1>8. \A k \in 1 .. n : out[2 * k - 1] = At(2 * k - 1) /\ out[2 * k] = At(2 * k)
  BY <1>1, <1>6
<1> QED
  BY <1>2, <1>4, <1>5, <1>7, <1>8 DEF n

\* An enumeration of a finite set without repetitions meets all of it.
LEMMA SeqsCover ==
    ASSUME NEW B, IsFiniteSet(B), NEW s \in SetToSeqs(B)
    PROVE  /\ s \in Seq(B)
           /\ \A k, l \in 1 .. Len(s) : s[k] = s[l] => k = l
           /\ \A b \in B : \E k \in 1 .. Len(s) : s[k] = b
<1> DEFINE N == Cardinality(B)
           D == 1 .. N
<1>1. N \in Nat
  BY FS_CardinalityType
<1>2. s \in [D -> B] /\ \A k, l \in D : k # l => s[k] # s[l]
  BY DEF SetToSeqs
<1>3. s \in Injection(D, B)
  BY <1>2 DEF Injection, IsInjective
<1> HIDE DEF N
<1>4. IsFiniteSet(D) /\ Cardinality(D) = N
  BY <1>1, FS_Interval
<1>5. s \in Surjection(D, B)
  <2> HIDE DEF D
  <2> QED
    BY <1>3, <1>4, FS_Injection DEF N
<1>6. s \in Seq(B) /\ Len(s) = N
  BY <1>1, <1>2
<1> QED
  BY <1>1, <1>2, <1>5, <1>6 DEF Surjection

\* A function that gives each rank its element lists the set in its order.
LEMMA RankedInOrder ==
    ASSUME NEW S, IsFiniteSet(S), NEW R, StrictOrder(R, S),
           NEW f \in [1 .. Cardinality(S) -> S],
           \A n \in 1 .. Cardinality(S) : Rk(R, S, f[n]) = n - 1
    PROVE  /\ f \in Seq(S) /\ Len(f) = Cardinality(S)
           /\ \A k \in S : \E n \in 1 .. Len(f) : f[n] = k
           /\ \A m, n \in 1 .. Len(f) : m < n <=> <<f[m], f[n]>> \in R
<1> DEFINE N == Cardinality(S)
<1>1. N \in Nat
  BY FS_CardinalityType
<1>2. f \in Seq(S) /\ Len(f) = N
  <2> HIDE DEF N
  <2>1. f \in [1 .. N -> S]
    BY DEF N
  <2> QED
    BY <1>1, <2>1
<1>3. ASSUME NEW k \in S PROVE \E n \in 1 .. N : f[n] = k
  <2> DEFINE r == Rk(R, S, k)
  <2>1. r \in 0 .. N - 1
    BY Ranks
  <2>2. r + 1 \in 1 .. N /\ r + 1 - 1 = r
    BY <1>1, <2>1
  <2>3. f[r + 1] \in S /\ Rk(R, S, f[r + 1]) = r
    <3> HIDE DEF r
    <3>1. r \in Nat /\ r + 1 \in 1 .. Cardinality(S)
      BY <1>1, <2>1, <2>2
    <3> HIDE DEF N
    <3> QED
      BY <3>1
  <2>4. f[r + 1] = k
    BY <2>3, Ranks
  <2> QED
    BY <2>2, <2>4
<1>4. ASSUME NEW m \in 1 .. N, NEW n \in 1 .. N
      PROVE  m < n <=> <<f[m], f[n]>> \in R
  <2>1. f[m] \in S /\ f[n] \in S /\ Rk(R, S, f[m]) = m - 1 /\ Rk(R, S, f[n]) = n - 1
    OBVIOUS
  <2>2. <<f[m], f[n]>> \in R <=> Rk(R, S, f[m]) < Rk(R, S, f[n])
    BY <2>1, Ranks
  <2>3. <<f[m], f[n]>> \in R <=> m - 1 < n - 1
    BY <2>1, <2>2
  <2> HIDE DEF N
  <2> QED
    BY <1>1, <2>3
<1> QED
  BY <1>2, <1>3, <1>4

-----------------------------------------------------------------------------
(* Removing one element.                                                   *)

LEMMA Removed ==
    ASSUME NEW C, NEW s \in Seq(C), NEW k \in 1 .. Len(s)
    PROVE  /\ RemoveAt(s, k) \in Seq(C) /\ Len(RemoveAt(s, k)) = Len(s) - 1
           /\ \A p \in 1 .. Len(s) - 1 :
                 RemoveAt(s, k)[p] = s[IF p < k THEN p ELSE p + 1]
<1> DEFINE a == SubSeq(s, 1, k - 1)
           b == SubSeq(s, k + 1, Len(s))
<1>1. /\ a \in Seq(C) /\ Len(a) = k - 1 /\ \A p \in 1 .. k - 1 : a[p] = s[p]
  OBVIOUS
<1>2. /\ b \in Seq(C) /\ Len(b) = Len(s) - k
      /\ \A p \in 1 .. Len(s) - k : b[p] = s[k + p]
  OBVIOUS
<1>3. RemoveAt(s, k) = a \o b
  BY DEF RemoveAt
<1>4. Len(s) \in Nat
  OBVIOUS
<1> HIDE DEF a, b
<1>5. /\ a \o b \in Seq(C) /\ Len(a \o b) = Len(a) + Len(b)
      /\ \A p \in 1 .. Len(a) + Len(b) :
            (a \o b)[p] = IF p <= Len(a) THEN a[p] ELSE b[p - Len(a)]
  BY <1>1, <1>2, ConcatProperties
<1>6. Len(a) + Len(b) = Len(s) - 1
  BY <1>1, <1>2, <1>4
<1>7. ASSUME NEW p \in 1 .. Len(s) - 1
      PROVE  (a \o b)[p] = s[IF p < k THEN p ELSE p + 1]
  <2>1. (a \o b)[p] = IF p <= k - 1 THEN a[p] ELSE b[p - (k - 1)]
    BY <1>1, <1>5, <1>6
  <2>2. CASE p < k
    <3>1. p \in 1 .. k - 1
      BY <1>4, <2>2
    <3> QED
      BY <1>1, <2>1, <2>2, <3>1
  <2>3. CASE ~(p < k)
    <3>1. /\ p - (k - 1) \in 1 .. Len(s) - k /\ ~(p <= k - 1)
          /\ k + (p - (k - 1)) = p + 1
      BY <1>4, <2>3
    <3>2. b[p - (k - 1)] = s[k + (p - (k - 1))]
      BY <1>2, <3>1
    <3> QED
      BY <2>1, <2>3, <3>1, <3>2
  <2> QED
    BY <2>2, <2>3
<1> HIDE DEF a, b
<1> QED
  BY <1>3, <1>5, <1>6, <1>7

-----------------------------------------------------------------------------
(* Counting the elements of a set of naturals below a number.              *)

Below(A, n) == Cardinality({k \in 0 .. n - 1 : k \in A})

LEMMA BelowStep ==
    ASSUME NEW A, NEW n \in Nat
    PROVE  /\ Below(A, n) \in Nat
           /\ Below(A, 0) = 0
           /\ Below(A, n + 1) = Below(A, n) + (IF n \in A THEN 1 ELSE 0)
<1> DEFINE B(m) == {k \in 0 .. m - 1 : k \in A}
<1>1. ASSUME NEW m \in Nat PROVE IsFiniteSet(B(m)) /\ Cardinality(B(m)) \in Nat
  <2>1. IsFiniteSet(0 .. m - 1)
    BY FS_Interval
  <2>2. B(m) \subseteq 0 .. m - 1
    OBVIOUS
  <2> HIDE DEF B
  <2> QED
    BY <2>1, <2>2, FS_Subset, FS_CardinalityType
<1>2. B(0) = {}
  OBVIOUS
<1>3. CASE n \in A
  <2>1. B(n + 1) = B(n) \cup {n} /\ n \notin B(n)
    BY <1>3
  <2> HIDE DEF B
  <2>2. Cardinality(B(n + 1)) = Cardinality(B(n)) + 1
    BY <1>1, <2>1, FS_AddElement
  <2>3. Cardinality(B(0)) = 0
    BY <1>2, FS_EmptySet
  <2> QED
    BY <1>1, <1>3, <2>2, <2>3 DEF Below, B
<1>4. CASE n \notin A
  <2>1. B(n + 1) = B(n)
    BY <1>4
  <2> HIDE DEF B
  <2>2. Cardinality(B(n + 1)) = Cardinality(B(n)) + 0
    BY <1>1, <2>1
  <2>3. Cardinality(B(0)) = 0
    BY <1>2, FS_EmptySet
  <2> QED
    BY <1>1, <1>4, <2>2, <2>3 DEF Below, B
<1> QED
  BY <1>3, <1>4

\* What is counted later is counted more.
LEMMA BelowGrows ==
    ASSUME NEW A, NEW m \in Nat, NEW n \in Nat, m <= n
    PROVE  /\ Below(A, m) <= Below(A, n)
           /\ m < n /\ m \in A => Below(A, m) < Below(A, n)
<1> DEFINE T == {k \in Nat : ~(Below(A, m) <= Below(A, m + k))}
<1>1. ASSUME NEW k \in Nat PROVE k \notin T
  <2>1. SUFFICES ASSUME T # {} PROVE FALSE
    BY <2>1
  <2>2. PICK l \in T : \A j \in T : l <= j
    <3>1. T \in SUBSET Nat
      OBVIOUS
    <3> HIDE DEF T
    <3> QED
      BY <2>1, <3>1, LeastNat
  <2>3. l # 0
    BY <2>2, BelowStep
  <2>4. l - 1 \in Nat /\ l - 1 \notin T
    BY <2>2, <2>3
  <2>5. m + l = (m + (l - 1)) + 1 /\ m + (l - 1) \in Nat
    BY <2>4
  <2>6. /\ Below(A, m + l) \in Nat /\ Below(A, m) \in Nat
        /\ Below(A, m + (l - 1)) \in Nat
        /\ Below(A, m + l) >= Below(A, m + (l - 1))
    BY <2>5, BelowStep
  <2> QED
    BY <2>2, <2>4, <2>6
<1>2. \A a \in Nat : a >= m => Below(A, m) <= Below(A, a)
  <2> TAKE a \in Nat
  <2> HAVE a >= m
  <2>1. a - m \in Nat /\ m + (a - m) = a
    OBVIOUS
  <2> QED
    BY <1>1, <2>1
<1>3. ASSUME m < n, m \in A PROVE Below(A, m) < Below(A, n)
  <2> DEFINE U == {k \in Nat : ~(Below(A, m) < Below(A, m + 1 + k))}
  <2>1. SUFFICES ASSUME U # {} PROVE FALSE
    <3>1. n - m - 1 \in Nat /\ m + 1 + (n - m - 1) = n
      BY <1>3
    <3> QED
      BY <2>1, <3>1
  <2>2. PICK l \in U : \A j \in U : l <= j
    <3>1. U \in SUBSET Nat
      OBVIOUS
    <3> HIDE DEF U
    <3> QED
      BY <2>1, <3>1, LeastNat
  <2>3. l # 0
    BY <1>3, <2>2, BelowStep
  <2>4. l - 1 \in Nat /\ l - 1 \notin U
    BY <2>2, <2>3
  <2>5. m + 1 + l = (m + 1 + (l - 1)) + 1 /\ m + 1 + (l - 1) \in Nat
    BY <2>4
  <2>6. /\ Below(A, m + 1 + l) \in Nat /\ Below(A, m) \in Nat
        /\ Below(A, m + 1 + (l - 1)) \in Nat
        /\ Below(A, m + 1 + l) >= Below(A, m + 1 + (l - 1))
    BY <2>5, BelowStep
  <2> QED
    BY <2>2, <2>4, <2>6
<1> QED
  BY <1>2, <1>3

\* The element with a given number of others below it: there is one, and no other.
LEMMA BelowNth ==
    ASSUME NEW A, NEW n \in Nat, NEW k \in 1 .. Below(A, n)
    PROVE  \E i \in 0 .. n - 1 : i \in A /\ Below(A, i) = k - 1
<1> DEFINE T == {m \in Nat : k <= Below(A, m)}
<1>1. PICK m \in T : \A j \in T : m <= j
  <2>1. T \in SUBSET Nat /\ T # {}
    BY BelowStep
  <2> HIDE DEF T
  <2> QED
    BY <2>1, LeastNat
<1>2. m # 0
  BY <1>1, BelowStep
<1>3. m - 1 \in Nat /\ m - 1 \notin T /\ m = (m - 1) + 1
  BY <1>1, <1>2
<1>4. m <= n
  BY <1>1, BelowStep
<1>5. /\ Below(A, m - 1) \in Nat /\ Below(A, m - 1) < k /\ k <= Below(A, m)
      /\ Below(A, m) = Below(A, m - 1) + (IF m - 1 \in A THEN 1 ELSE 0)
  BY <1>1, <1>3, BelowStep
<1>6. m - 1 \in A /\ Below(A, m - 1) = k - 1
  BY <1>5
<1> QED
  BY <1>3, <1>4, <1>6

LEMMA BelowOnce ==
    ASSUME NEW A, NEW i \in Nat, NEW j \in Nat, i \in A, j \in A,
           Below(A, i) = Below(A, j)
    PROVE  i = j
<1>1. CASE i < j
  BY <1>1, BelowGrows, BelowStep
<1>2. CASE j < i
  BY <1>2, BelowGrows, BelowStep
<1> QED
  BY <1>1, <1>2

\* Counting one place further on.
LEMMA BelowShift ==
    ASSUME NEW A, NEW B, \A k \in Nat : k + 1 \in A <=> k \in B, NEW n \in Nat
    PROVE  Below(A, n + 1) = Below(B, n) + (IF 0 \in A THEN 1 ELSE 0)
<1> DEFINE z == IF 0 \in A THEN 1 ELSE 0
           T == {m \in Nat : Below(A, m + 1) # Below(B, m) + z}
<1>1. SUFFICES ASSUME T # {} PROVE FALSE
  OBVIOUS
<1>2. PICK m \in T : \A j \in T : m <= j
  <2>1. T \in SUBSET Nat
    OBVIOUS
  <2> HIDE DEF T
  <2> QED
    BY <1>1, <2>1, LeastNat
<1>3. m # 0
  <2>1. Below(A, 0) = 0 /\ Below(B, 0) = 0 /\ Below(A, 0 + 1) = 0 + z
    BY BelowStep
  <2> QED
    BY <1>2, <2>1
<1>4. m - 1 \in Nat /\ m - 1 \notin T /\ m = (m - 1) + 1
  BY <1>2, <1>3
<1>5. Below(A, m) = Below(B, m - 1) + z
  BY <1>4
<1>6. /\ Below(A, m + 1) = Below(A, m) + (IF m \in A THEN 1 ELSE 0)
      /\ Below(B, m) = Below(B, m - 1) + (IF m - 1 \in B THEN 1 ELSE 0)
      /\ Below(B, m - 1) \in Nat
  BY <1>4, BelowStep
<1>7. m \in A <=> m - 1 \in B
  BY <1>4
<1> HIDE DEF T
<1>8. Below(A, m + 1) = Below(B, m) + z
  BY <1>5, <1>6, <1>7
<1> QED
  BY <1>2, <1>8 DEF T
=============================================================================
