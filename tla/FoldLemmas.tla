----------------------------- MODULE FoldLemmas -----------------------------
(***************************************************************************)
(* Induction, and what loops compute: that a recursive function or a fold  *)
(* satisfies its equation.  The library states induction for predicates,   *)
(* which the provers cannot instantiate; here it is stated for sets, and   *)
(* follows from the fact that every set of numbers has a least element.    *)
(* Sums over finite sets are the functions that MapThenSumSet chooses.     *)
(***************************************************************************)
EXTENDS Integers, SequencesExt, WellFoundedInduction, FiniteSetTheorems, TLAPS

\* A set of natural numbers has a least element.
LEMMA Least ==
    ASSUME NEW T \in SUBSET Nat, T # {}
    PROVE  \E n \in T : \A m \in T : n <= m
<1> DEFINE R == {ss \in Nat \X Nat : ss[1] < ss[2]}
<1>1. IsWellFoundedOn(R, Nat)
  BY NatLessThanWellFounded DEF OpToRel
<1>2. PICK n \in T : \A m \in T : <<m, n>> \notin R
  <2> HIDE DEF R
  <2>1. QED
    BY <1>1, WFMin
<1>3. ASSUME NEW m \in T PROVE n <= m
  <2>1. <<m, n>> \in Nat \X Nat /\ <<m, n>>[1] = m /\ <<m, n>>[2] = n
    OBVIOUS
  <2>2. ~(m < n)
    BY <1>2, <2>1
  <2>3. QED
    BY <2>2
<1>4. QED
  BY <1>3

\* A set of natural numbers below a bound has a greatest element.
LEMMA Greatest ==
    ASSUME NEW T \in SUBSET Nat, T # {}, NEW b \in Nat, \A m \in T : m <= b
    PROVE  \E n \in T : \A m \in T : m <= n
<1> DEFINE U == {b - m : m \in T}
<1>1. U \in SUBSET Nat /\ U # {}
  <2>1. ASSUME NEW m \in T PROVE b - m \in Nat
    OBVIOUS
  <2>2. QED
    BY <2>1
<1>2. PICK u \in U : \A w \in U : u <= w
  <2> HIDE DEF U
  <2>1. QED
    BY <1>1, Least
<1>3. PICK n \in T : u = b - n
  BY <1>2
<1>4. ASSUME NEW m \in T PROVE m <= n
  <2>1. b - m \in U
    OBVIOUS
  <2>2. u <= b - m
    BY <1>2, <2>1
  <2>3. QED
    BY <1>3, <2>2
<1>5. QED
  BY <1>4

\* Induction: what contains 0, and n + 1 with n, contains all numbers.
LEMMA Induction ==
    ASSUME NEW T, 0 \in T, \A n \in Nat : n \in T => n + 1 \in T
    PROVE  \A n \in Nat : n \in T
<1> SUFFICES ASSUME Nat \ T # {} PROVE FALSE
  OBVIOUS
<1>1. PICK n \in Nat \ T : \A m \in Nat \ T : n <= m
  BY Least
<1>2. n # 0 /\ n - 1 \in Nat /\ n - 1 \in T
  BY <1>1
<1>3. QED
  BY <1>1, <1>2

\* Max of the sets of numbers that a fold over a sequence meets.
LEMMA MaxLemma ==
    ASSUME NEW n \in Nat, NEW s \in SUBSET (1..n), s # {}
    PROVE  Max(s) \in s /\ \A m \in s : m <= Max(s)
<1>1. s \in SUBSET Nat /\ \A m \in s : m <= n
  OBVIOUS
<1>2. \E m \in s : \A k \in s : m >= k
  BY <1>1, Greatest
<1>3. QED
  BY <1>2 DEF Max

\* The first n + 1 numbers, one after the other.
LEMMA MaxOfInterval ==
    ASSUME NEW n \in Nat
    PROVE  Max(1 .. n + 1) = n + 1 /\ (1 .. n + 1) \ {n + 1} = 1..n /\ 1..0 = {}
<1>1. n + 1 \in Nat /\ 1 .. n + 1 \in SUBSET (1 .. n + 1) /\ n + 1 \in 1 .. n + 1
  OBVIOUS
<1>2. 1 .. n + 1 # {}
  BY <1>1
<1>3. Max(1 .. n + 1) \in 1 .. n + 1 /\ n + 1 <= Max(1 .. n + 1)
  BY <1>1, <1>2, MaxLemma
<1>4. QED
  BY <1>3

\* g satisfies the equation of a fold over a sequence of n elements:
\* H[<<x, i>>] is what element i makes of x.
IsFold(g, S, base, n, H) ==
    /\ g \in [SUBSET (1..n) -> S]
    /\ \A s \in SUBSET (1..n) :
         g[s] = IF s = {} THEN base ELSE H[<<g[s \ {Max(s)}], Max(s)>>]

\* There is such a function.
LEMMA FoldExists ==
    ASSUME NEW S, NEW base \in S, NEW n \in Nat, NEW H \in [S \X (1..n) -> S]
    PROVE  \E g : IsFold(g, S, base, n, H)
<1> DEFINE Fits(g, k) == /\ g \in [SUBSET (1..k) -> S]
                         /\ \A s \in SUBSET (1..k) :
                              g[s] = IF s = {} THEN base ELSE H[<<g[s \ {Max(s)}], Max(s)>>]
           Some(k) == k <= n => \E g : Fits(g, k)
           T == {k \in Nat : Some(k)}
<1>1. Some(0)
  <2> DEFINE g == [s \in SUBSET (1..0) |-> base]
  <2>1. g \in [SUBSET (1..0) -> S]
    OBVIOUS
  <2>2. ASSUME NEW s \in SUBSET (1..0) PROVE s = {} /\ g[s] = base
    OBVIOUS
  <2> HIDE DEF g
  <2>3. Fits(g, 0)
    BY <2>1, <2>2
  <2> HIDE DEF Fits
  <2>4. QED
    BY <2>3
<1>2. ASSUME NEW k \in Nat, Some(k) PROVE Some(k + 1)
  <2> SUFFICES ASSUME k + 1 <= n PROVE \E g : Fits(g, k + 1)
    OBVIOUS
  <2>1. PICK g : Fits(g, k)
    <3>1. k <= n
      OBVIOUS
    <3> HIDE DEF Fits
    <3>2. QED
      BY <1>2, <3>1
  <2> DEFINE h == [s \in SUBSET (1 .. k + 1) |->
                     IF k + 1 \in s THEN H[<<g[s \ {k + 1}], k + 1>>] ELSE g[s]]
  <2>2. ASSUME NEW s \in SUBSET (1 .. k + 1), k + 1 \in s
        PROVE  /\ s \ {k + 1} \in SUBSET (1..k) /\ Max(s) = k + 1 /\ s # {}
               /\ H[<<g[s \ {k + 1}], k + 1>>] \in S
    <3>1. s \ {k + 1} \in SUBSET (1..k)
      OBVIOUS
    <3>2. Max(s) = k + 1
      <4>1. k + 1 \in Nat /\ s # {}
        BY <2>2
      <4>2. Max(s) \in s /\ k + 1 <= Max(s)
        BY <2>2, <4>1, MaxLemma
      <4>3. Max(s) \in 1 .. k + 1
        BY <4>2
      <4>4. QED
        BY <4>2, <4>3
    <3>3. g[s \ {k + 1}] \in S
      BY <2>1, <3>1
    <3>4. <<g[s \ {k + 1}], k + 1>> \in S \X (1..n)
      BY <3>3
    <3>5. QED
      BY <2>2, <3>1, <3>2, <3>4
  <2>3. ASSUME NEW s \in SUBSET (1 .. k + 1), k + 1 \notin s
        PROVE  s \in SUBSET (1..k) /\ g[s] \in S
    BY <2>1, <2>3
  <2>4. h \in [SUBSET (1 .. k + 1) -> S]
    BY <2>2, <2>3
  <2>5. \A s \in SUBSET (1..k) : h[s] = g[s] /\ s \in SUBSET (1 .. k + 1)
    OBVIOUS
  <2>6. ASSUME NEW s \in SUBSET (1 .. k + 1)
        PROVE  h[s] = IF s = {} THEN base ELSE H[<<h[s \ {Max(s)}], Max(s)>>]
    <3>1. CASE k + 1 \in s
      <4>1. s \ {k + 1} \in SUBSET (1..k) /\ Max(s) = k + 1 /\ s # {}
        BY <2>2, <3>1
      <4>2. h[s] = H[<<g[s \ {k + 1}], k + 1>>] /\ h[s \ {k + 1}] = g[s \ {k + 1}]
        BY <2>5, <3>1, <4>1
      <4> HIDE DEF h
      <4>3. QED
        BY <4>1, <4>2
    <3>2. CASE k + 1 \notin s
      <4>1. s \in SUBSET (1..k) /\ h[s] = g[s]
        BY <2>3, <2>5, <3>2
      <4>2. s \ {Max(s)} \in SUBSET (1..k)
        BY <4>1
      <4>3. h[s \ {Max(s)}] = g[s \ {Max(s)}]
        BY <2>5, <4>2
      <4> HIDE DEF h
      <4>4. QED
        BY <2>1, <4>1, <4>3
    <3>3. QED
      BY <3>1, <3>2
  <2> HIDE DEF h
  <2>7. Fits(h, k + 1)
    BY <2>4, <2>6
  <2> HIDE DEF Fits
  <2>8. QED
    BY <2>7
<1>3. Some(n)
  <2> HIDE DEF Some
  <2>1. 0 \in T /\ \A k \in Nat : k \in T => k + 1 \in T
    BY <1>1, <1>2
  <2>2. \A k \in Nat : k \in T
    <3> HIDE DEF T
    <3>1. QED
      BY <2>1, Induction
  <2>3. QED
    BY <2>2
<1>4. PICK g : Fits(g, n)
  <2> HIDE DEF Fits
  <2>1. QED
    BY <1>3
<1>5. IsFold(g, S, base, n, H)
  BY <1>4 DEF IsFold
<1>6. QED
  BY <1>5

\* a[k] is what the first k elements make of base.
IsRun(a, S, base, n, H) ==
    /\ a \in [0..n -> S]
    /\ a[0] = base
    /\ \A k \in 1..n : a[k] = H[<<a[k - 1], k>>]

\* f of the first k elements comes from f of the ones before.
Unfolds(f, S, base, n, H) ==
    /\ f[{}] = base
    /\ \A k \in 1..n : f[1 .. k - 1] \in S => f[1..k] = H[<<f[1 .. k - 1], k>>]

\* What f has at the end is where a run from base ends.
EndsRun(f, S, base, n, H) == \E a : IsRun(a, S, base, n, H) /\ a[n] = f[1..n]

\* What a fold computes, element by element.
LEMMA FoldRuns ==
    ASSUME NEW S, NEW base \in S, NEW n \in Nat, NEW H \in [S \X (1..n) -> S], NEW f,
           Unfolds(f, S, base, n, H)
    PROVE  EndsRun(f, S, base, n, H)
<1>0. /\ f[{}] = base
      /\ \A k \in 1..n : f[1 .. k - 1] \in S => f[1..k] = H[<<f[1 .. k - 1], k>>]
  BY DEF Unfolds
<1> DEFINE a == [k \in 0..n |-> f[1..k]]
           In(k) == k <= n => f[1..k] \in S
           T == {k \in Nat : In(k)}
<1>1. 1..0 = {}
  OBVIOUS
<1>2. In(0)
  BY <1>0, <1>1
<1>3. ASSUME NEW k \in Nat, In(k) PROVE In(k + 1)
  <2> SUFFICES ASSUME k + 1 <= n PROVE f[1 .. k + 1] \in S
    OBVIOUS
  <2>1. k + 1 \in 1..n /\ (k + 1) - 1 = k /\ k <= n
    OBVIOUS
  <2>2. f[1..k] \in S
    BY <1>3, <2>1
  <2>3. f[1 .. k + 1] = H[<<f[1..k], k + 1>>]
    BY <1>0, <2>1, <2>2
  <2>4. QED
    BY <2>1, <2>2, <2>3
<1>4. \A k \in Nat : In(k)
  <2> HIDE DEF In
  <2>1. 0 \in T /\ \A k \in Nat : k \in T => k + 1 \in T
    BY <1>2, <1>3
  <2>2. \A k \in Nat : k \in T
    <3> HIDE DEF T
    <3>1. QED
      BY <2>1, Induction
  <2>3. QED
    BY <2>2
<1>5. a \in [0..n -> S] /\ a[0] = base /\ a[n] = f[1..n]
  BY <1>0, <1>1, <1>4
<1>6. ASSUME NEW k \in 1..n PROVE a[k] = H[<<a[k - 1], k>>]
  <2>1. k \in 0..n /\ k - 1 \in 0..n /\ k - 1 \in Nat /\ k - 1 <= n
    OBVIOUS
  <2>2. f[1 .. k - 1] \in S
    BY <1>4, <2>1
  <2>3. a[k] = f[1..k] /\ a[k - 1] = f[1 .. k - 1]
    BY <2>1
  <2> HIDE DEF a
  <2>4. QED
    BY <1>0, <2>2, <2>3
<1> HIDE DEF a
<1>7. IsRun(a, S, base, n, H)
  BY <1>5, <1>6 DEF IsRun
<1>8. QED
  BY <1>5, <1>7 DEF EndsRun

\* f satisfies the equation of a loop that applies G until it is Done.
IsLoop(f, D, Done, G) == f = [x \in D |-> IF x \in Done THEN x ELSE f[G[x]]]

\* When each turn of the loop lowers mu, there is such a function.
LEMMA LoopExists ==
    ASSUME NEW D, NEW Done \in SUBSET D, NEW G \in [D -> D], NEW N \in Nat,
           NEW mu \in [D -> 0..N], \A x \in D \ Done : mu[G[x]] < mu[x]
    PROVE  \E f : IsLoop(f, D, Done, G)
<1> DEFINE Low(k) == {x \in D : mu[x] < k}
           Fits(g, k) == g \in [Low(k) -> Done]
                         /\ \A x \in Low(k) : g[x] = IF x \in Done THEN x ELSE g[G[x]]
           Some(k) == \E g : Fits(g, k)
           T == {k \in Nat : Some(k)}
<1>1. Some(0)
  <2> DEFINE g == [x \in {} |-> x]
  <2>1. Low(0) = {}
    OBVIOUS
  <2>2. g \in [Low(0) -> Done] /\ \A x \in Low(0) : g[x] = IF x \in Done THEN x ELSE g[G[x]]
    BY <2>1
  <2> HIDE DEF g
  <2>3. Fits(g, 0)
    BY <2>2
  <2> HIDE DEF Fits
  <2>4. QED
    BY <2>3
<1>2. ASSUME NEW k \in Nat, Some(k) PROVE Some(k + 1)
  <2>1. PICK g : Fits(g, k)
    <3> HIDE DEF Fits
    <3>1. QED
      BY <1>2
  <2> DEFINE h == [x \in Low(k + 1) |-> IF x \in Done THEN x ELSE g[G[x]]]
  <2>2. ASSUME NEW x \in Low(k + 1), x \notin Done PROVE G[x] \in Low(k)
    <3>1. x \in D /\ G[x] \in D /\ mu[x] \in Nat /\ mu[x] < k + 1 /\ mu[G[x]] \in Nat
      OBVIOUS
    <3>2. mu[G[x]] < mu[x]
      BY <2>2, <3>1
    <3>3. QED
      BY <3>1, <3>2
  <2>3. \A x \in Low(k) : x \in Low(k + 1)
    OBVIOUS
  <2> HIDE DEF Low
  <2>4. h \in [Low(k + 1) -> Done]
    BY <2>1, <2>2
  <2>5. ASSUME NEW x \in Low(k + 1)
        PROVE  h[x] = IF x \in Done THEN x ELSE h[G[x]]
    <3>1. CASE x \in Done
      BY <3>1
    <3>2. CASE x \notin Done
      <4>1. G[x] \in Low(k) /\ G[x] \in Low(k + 1)
        BY <2>2, <2>3, <3>2
      <4>2. h[x] = g[G[x]] /\ h[G[x]] = IF G[x] \in Done THEN G[x] ELSE g[G[G[x]]]
        BY <3>2, <4>1
      <4>3. g[G[x]] = IF G[x] \in Done THEN G[x] ELSE g[G[G[x]]]
        BY <2>1, <4>1
      <4> HIDE DEF h
      <4>4. QED
        BY <3>2, <4>2, <4>3
    <3>3. QED
      BY <3>1, <3>2
  <2> HIDE DEF h
  <2>6. Fits(h, k + 1)
    BY <2>4, <2>5
  <2> HIDE DEF Fits
  <2>7. QED
    BY <2>6
<1>3. Some(N + 1)
  <2> HIDE DEF Some
  <2>1. 0 \in T /\ \A k \in Nat : k \in T => k + 1 \in T
    BY <1>1, <1>2
  <2>2. \A k \in Nat : k \in T
    <3> HIDE DEF T
    <3>1. QED
      BY <2>1, Induction
  <2>3. QED
    BY <2>2
<1>4. PICK g : Fits(g, N + 1)
  <2> HIDE DEF Fits
  <2>1. QED
    BY <1>3
<1>5. Low(N + 1) = D
  <2>1. ASSUME NEW x \in D PROVE mu[x] < N + 1
    <3>1. mu[x] \in 0..N
      OBVIOUS
    <3>2. QED
      BY <3>1
  <2>2. QED
    BY <2>1
<1> HIDE DEF Low
<1>6. IsLoop(g, D, Done, G)
  BY <1>4, <1>5 DEF IsLoop
<1>7. QED
  BY <1>6

\* Such a loop ends where it is Done, and in I if it starts in I and each turn
\* keeps I.
LEMMA LoopResult ==
    ASSUME NEW D, NEW Done \in SUBSET D, NEW G \in [D -> D], NEW N \in Nat,
           NEW mu \in [D -> 0..N], \A x \in D \ Done : mu[G[x]] < mu[x],
           NEW I \in SUBSET D, \A x \in I \ Done : G[x] \in I,
           NEW f, IsLoop(f, D, Done, G)
    PROVE  \A x \in I : f[x] \in Done \cap I
<1> DEFINE Ends(k) == \A x \in I : mu[x] < k => f[x] \in Done \cap I
           T == {k \in Nat : Ends(k)}
<1>0. \A x \in D : f[x] = IF x \in Done THEN x ELSE f[G[x]]
  BY DEF IsLoop
<1>1. Ends(0)
  OBVIOUS
<1>2. ASSUME NEW k \in Nat, Ends(k) PROVE Ends(k + 1)
  <2> SUFFICES ASSUME NEW x \in I, mu[x] < k + 1, x \notin Done PROVE f[x] \in Done \cap I
    BY <1>0
  <2>1. x \in D /\ G[x] \in D /\ G[x] \in I /\ mu[x] \in Nat /\ mu[G[x]] \in Nat
    OBVIOUS
  <2>2. mu[G[x]] < mu[x]
    BY <2>1
  <2>3. mu[G[x]] < k
    BY <2>1, <2>2
  <2>4. QED
    BY <1>0, <1>2, <2>1, <2>3
<1>3. Ends(N + 1)
  <2> HIDE DEF Ends
  <2>1. 0 \in T /\ \A k \in Nat : k \in T => k + 1 \in T
    BY <1>1, <1>2
  <2>2. \A k \in Nat : k \in T
    <3> HIDE DEF T
    <3>1. QED
      BY <2>1, Induction
  <2>3. QED
    BY <2>2
<1>4. ASSUME NEW x \in D PROVE mu[x] < N + 1
  <2>1. mu[x] \in 0..N
    OBVIOUS
  <2>2. QED
    BY <2>1
<1>5. QED
  BY <1>3, <1>4

-----------------------------------------------------------------------------
(* Sums over a finite set, as MapThenSumSet forms them.                    *)

AnyOf(s) == CHOOSE x \in s : TRUE

\* f has the sums of h over the subsets of S.
IsSum(f, h, S) ==
    f = [s \in SUBSET S |-> IF s = {} THEN 0 ELSE h[AnyOf(s)] + f[s \ {AnyOf(s)}]]

\* Taking an element out of a set.
LEMMA AnyOfLemma ==
    ASSUME NEW S, IsFiniteSet(S), NEW s \in SUBSET S, s # {}
    PROVE  /\ AnyOf(s) \in s /\ AnyOf(s) \in S /\ s \ {AnyOf(s)} \in SUBSET S
           /\ IsFiniteSet(s) /\ Cardinality(s) \in Nat
           /\ Cardinality(s \ {AnyOf(s)}) \in Nat
           /\ Cardinality(s) = Cardinality(s \ {AnyOf(s)}) + 1
<1>1. AnyOf(s) \in s
  BY DEF AnyOf
<1> DEFINE x == AnyOf(s)
<1> HIDE DEF x
<1>2. IsFiniteSet(s) /\ x \in s
  BY <1>1, FS_Subset DEF x
<1>3. IsFiniteSet(s \ {x}) /\ Cardinality(s \ {x}) = Cardinality(s) - 1
  BY <1>2, FS_RemoveElement
<1>4. Cardinality(s) \in Nat /\ Cardinality(s \ {x}) \in Nat
  BY <1>2, <1>3, FS_CardinalityType
<1>5. QED
  BY <1>2, <1>3, <1>4 DEF x

\* What holds of the empty set, and of a set if it holds without one element,
\* holds of all subsets.
LEMMA SubsetInduction ==
    ASSUME NEW S, IsFiniteSet(S), NEW T, {} \in T,
           \A s \in SUBSET S : s # {} /\ s \ {AnyOf(s)} \in T => s \in T
    PROVE  S \in T
<1> SUFFICES ASSUME S \notin T PROVE FALSE
  OBVIOUS
<1> DEFINE Bad == {s \in SUBSET S : s \notin T}
           K == {Cardinality(s) : s \in Bad}
<1>1. K \in SUBSET Nat /\ K # {}
  <2>1. ASSUME NEW s \in Bad PROVE Cardinality(s) \in Nat
    BY FS_Subset, FS_CardinalityType
  <2>2. S \in Bad
    OBVIOUS
  <2>3. QED
    BY <2>1, <2>2
<1>2. PICK n \in K : \A m \in K : n <= m
  <2> HIDE DEF K
  <2>1. QED
    BY <1>1, Least
<1>3. PICK s \in Bad : n = Cardinality(s)
  BY <1>2
<1>4. s # {} /\ s \in SUBSET S
  BY <1>3
<1>5. /\ s \ {AnyOf(s)} \in SUBSET S /\ Cardinality(s) \in Nat
      /\ Cardinality(s \ {AnyOf(s)}) \in Nat
      /\ Cardinality(s) = Cardinality(s \ {AnyOf(s)}) + 1
  BY <1>4, AnyOfLemma
<1>6. s \ {AnyOf(s)} \in Bad
  BY <1>3, <1>4, <1>5
<1>7. n <= Cardinality(s \ {AnyOf(s)})
  BY <1>2, <1>6
<1>8. QED
  BY <1>3, <1>5, <1>7

\* There are such sums.
LEMMA SumExists ==
    ASSUME NEW S, IsFiniteSet(S), NEW h \in [S -> Nat]
    PROVE  \E f : IsSum(f, h, S)
<1> DEFINE Low(k) == {s \in SUBSET S : Cardinality(s) < k}
           Fits(g, k) == /\ g \in [Low(k) -> Nat]
                         /\ \A s \in Low(k) :
                              g[s] = IF s = {} THEN 0 ELSE h[AnyOf(s)] + g[s \ {AnyOf(s)}]
           Some(k) == \E g : Fits(g, k)
           T == {k \in Nat : Some(k)}
<1>0. ASSUME NEW s \in SUBSET S PROVE Cardinality(s) \in Nat
  BY FS_Subset, FS_CardinalityType
<1>1. Some(0)
  <2> DEFINE g == [s \in {} |-> 0]
  <2>1. Low(0) = {}
    <3>1. ASSUME NEW s \in SUBSET S PROVE ~(Cardinality(s) < 0)
      BY <1>0
    <3>2. QED
      BY <3>1
  <2> HIDE DEF Low
  <2>2. /\ g \in [Low(0) -> Nat]
        /\ \A s \in Low(0) : g[s] = IF s = {} THEN 0 ELSE h[AnyOf(s)] + g[s \ {AnyOf(s)}]
    BY <2>1
  <2> HIDE DEF g
  <2>3. Fits(g, 0)
    BY <2>2
  <2> HIDE DEF Fits
  <2>4. QED
    BY <2>3
<1>2. ASSUME NEW k \in Nat, Some(k) PROVE Some(k + 1)
  <2>1. PICK g : Fits(g, k)
    <3> HIDE DEF Fits
    <3>1. QED
      BY <1>2
  <2> DEFINE e == [s \in Low(k + 1) |->
                     IF s = {} THEN 0 ELSE h[AnyOf(s)] + g[s \ {AnyOf(s)}]]
  <2>2. ASSUME NEW s \in Low(k + 1), s # {}
        PROVE  s \ {AnyOf(s)} \in Low(k) /\ h[AnyOf(s)] \in Nat
    <3>1. /\ AnyOf(s) \in S /\ s \ {AnyOf(s)} \in SUBSET S /\ Cardinality(s) \in Nat
          /\ Cardinality(s \ {AnyOf(s)}) \in Nat
          /\ Cardinality(s) = Cardinality(s \ {AnyOf(s)}) + 1
      BY <2>2, AnyOfLemma
    <3>2. QED
      BY <3>1
  <2>3. \A s \in Low(k) : s \in Low(k + 1)
    BY <1>0
  <2> HIDE DEF Low
  <2>4. e \in [Low(k + 1) -> Nat]
    BY <2>1, <2>2
  <2>5. \A s \in Low(k) : e[s] = g[s]
    BY <2>1, <2>3
  <2>6. ASSUME NEW s \in Low(k + 1)
        PROVE  e[s] = IF s = {} THEN 0 ELSE h[AnyOf(s)] + e[s \ {AnyOf(s)}]
    BY <2>2, <2>5
  <2> HIDE DEF e
  <2>7. Fits(e, k + 1)
    BY <2>4, <2>6
  <2> HIDE DEF Fits
  <2>8. QED
    BY <2>7
<1>3. \A k \in Nat : Some(k)
  <2> HIDE DEF Some
  <2>1. 0 \in T /\ \A k \in Nat : k \in T => k + 1 \in T
    BY <1>1, <1>2
  <2>2. \A k \in Nat : k \in T
    <3> HIDE DEF T
    <3>1. QED
      BY <2>1, Induction
  <2>3. QED
    BY <2>2
<1> DEFINE N == Cardinality(S) + 1
<1>4. N \in Nat /\ Low(N) = SUBSET S
  <2>1. Cardinality(S) \in Nat
    BY FS_CardinalityType
  <2>2. ASSUME NEW s \in SUBSET S PROVE Cardinality(s) < N
    <3>1. Cardinality(s) <= Cardinality(S)
      BY FS_Subset
    <3>2. QED
      BY <1>0, <2>1, <3>1
  <2>3. QED
    BY <2>1, <2>2
<1> HIDE DEF N, Low
<1>5. PICK g : Fits(g, N)
  <2> HIDE DEF Fits
  <2>1. QED
    BY <1>3, <1>4
<1>6. IsSum(g, h, S)
  BY <1>4, <1>5 DEF IsSum
<1>7. QED
  BY <1>6

\* The equation of a sum.
LEMMA SumStep ==
    ASSUME NEW S, NEW h, NEW f, IsSum(f, h, S), NEW s \in SUBSET S
    PROVE  f[s] = IF s = {} THEN 0 ELSE h[AnyOf(s)] + f[s \ {AnyOf(s)}]
BY DEF IsSum

\* A sum of numbers is a number.
LEMMA SumType ==
    ASSUME NEW S, IsFiniteSet(S), NEW h \in [S -> Nat], NEW f, IsSum(f, h, S)
    PROVE  f[S] \in Nat
<1> DEFINE T == {s \in SUBSET S : f[s] \in Nat}
<1>1. {} \in T
  BY SumStep
<1>2. ASSUME NEW s \in SUBSET S, s # {}, s \ {AnyOf(s)} \in T PROVE s \in T
  <2>1. h[AnyOf(s)] \in Nat
    BY <1>2, AnyOfLemma
  <2>2. f[s] = h[AnyOf(s)] + f[s \ {AnyOf(s)}]
    BY <1>2, SumStep
  <2>3. QED
    BY <1>2, <2>1, <2>2
<1>3. S \in T
  <2> HIDE DEF T
  <2>1. QED
    BY <1>1, <1>2, SubsetInduction
<1>4. QED
  BY <1>3

Recurs(f, h, S) ==
    \A s \in SUBSET S : s # {} => f[s] = h[AnyOf(s)] + f[s \ {AnyOf(s)}]

\* The equation of a sum over a set with elements.
LEMMA SumNext ==
    ASSUME NEW S, NEW h, NEW f, IsSum(f, h, S)
    PROVE  Recurs(f, h, S)
<1> SUFFICES ASSUME NEW s \in SUBSET S, s # {}
             PROVE  f[s] = h[AnyOf(s)] + f[s \ {AnyOf(s)}]
  BY DEF Recurs
<1>1. f[s] = IF s = {} THEN 0 ELSE h[AnyOf(s)] + f[s \ {AnyOf(s)}]
  BY SumStep
<1>2. QED
  BY <1>1

\* Sums compare as their terms do.
LEMMA SumCompare ==
    ASSUME NEW S, IsFiniteSet(S), NEW a \in [S -> Nat], NEW b \in [S -> Nat],
           NEW c \in [S -> Nat], NEW d \in [S -> Nat],
           \A x \in S : a[x] + b[x] <= c[x] + d[x],
           NEW A, IsSum(A, a, S), NEW B, IsSum(B, b, S),
           NEW C, IsSum(C, c, S), NEW D, IsSum(D, d, S)
    PROVE  A[S] + B[S] <= C[S] + D[S]
<1> DEFINE T == {s \in SUBSET S : /\ A[s] \in Nat /\ B[s] \in Nat /\ C[s] \in Nat /\ D[s] \in Nat
                                  /\ A[s] + B[s] <= C[s] + D[s]}
<1>1. {} \in T
  <2>1. A[{}] = 0 /\ B[{}] = 0 /\ C[{}] = 0 /\ D[{}] = 0
    BY SumStep
  <2>2. QED
    BY <2>1
<1>2. ASSUME NEW s \in SUBSET S, s # {}, s \ {AnyOf(s)} \in T PROVE s \in T
  <2> DEFINE x == AnyOf(s)
             r == s \ {x}
  <2>0. Recurs(A, a, S) /\ Recurs(B, b, S) /\ Recurs(C, c, S) /\ Recurs(D, d, S)
    BY SumNext
  <2>1. x \in S /\ s # {}
    BY <1>2, AnyOfLemma
  <2>2. A[s] = a[x] + A[r] /\ B[s] = b[x] + B[r] /\ C[s] = c[x] + C[r] /\ D[s] = d[x] + D[r]
    <3> HIDE DEF T
    <3>1. A[s] = a[AnyOf(s)] + A[s \ {AnyOf(s)}]
      BY <2>1, <2>0 DEF Recurs
    <3>2. B[s] = b[AnyOf(s)] + B[s \ {AnyOf(s)}]
      BY <2>1, <2>0 DEF Recurs
    <3>3. C[s] = c[AnyOf(s)] + C[s \ {AnyOf(s)}]
      BY <2>1, <2>0 DEF Recurs
    <3>4. D[s] = d[AnyOf(s)] + D[s \ {AnyOf(s)}]
      BY <2>1, <2>0 DEF Recurs
    <3>5. QED
      BY <3>1, <3>2, <3>3, <3>4
  <2>3. /\ A[r] \in Nat /\ B[r] \in Nat /\ C[r] \in Nat /\ D[r] \in Nat
        /\ A[r] + B[r] <= C[r] + D[r]
    BY <1>2
  <2> HIDE DEF x, r
  <2>4. /\ a[x] \in Nat /\ b[x] \in Nat /\ c[x] \in Nat /\ d[x] \in Nat
        /\ a[x] + b[x] <= c[x] + d[x]
    BY <2>1
  <2>5. QED
    BY <2>2, <2>3, <2>4
<1>3. S \in T
  <2> HIDE DEF T
  <2>1. QED
    BY <1>1, <1>2, SubsetInduction
<1>4. QED
  BY <1>3

\* The sizes of disjoint sets add up to the size of their union.
LEMMA SumOfSizes ==
    ASSUME NEW S, IsFiniteSet(S), NEW U, IsFiniteSet(U), NEW P \in [S -> SUBSET U],
           \A x, y \in S : x # y => P[x] \cap P[y] = {},
           NEW h \in [S -> Nat], \A x \in S : h[x] = Cardinality(P[x]),
           NEW f, IsSum(f, h, S)
    PROVE  f[S] = Cardinality(UNION {P[x] : x \in S})
<1> DEFINE All(s) == UNION {P[x] : x \in s}
           T == {s \in SUBSET S : f[s] = Cardinality(All(s))}
<1>1. {} \in T
  <2>1. All({}) = {} /\ f[{}] = 0
    BY SumStep
  <2>2. QED
    BY <2>1, FS_EmptySet
<1>2. ASSUME NEW s \in SUBSET S, s # {}, s \ {AnyOf(s)} \in T PROVE s \in T
  <2> DEFINE x == AnyOf(s)
             r == s \ {x}
  <2>1. x \in s /\ x \in S /\ r \in SUBSET S
    BY <1>2, AnyOfLemma
  <2>2. f[s] = h[x] + f[r]
    BY <1>2, SumStep
  <2>3. f[r] = Cardinality(All(r))
    BY <1>2
  <2> HIDE DEF x
  <2>4. All(s) = P[x] \cup All(r) /\ P[x] \cap All(r) = {}
    BY <2>1
  <2>5. P[x] \in SUBSET U /\ All(r) \in SUBSET U
    BY <2>1
  <2> HIDE DEF All, r
  <2>6. IsFiniteSet(P[x]) /\ IsFiniteSet(All(r))
    BY <2>5, FS_Subset
  <2>7. Cardinality(All(s)) = Cardinality(P[x]) + Cardinality(All(r)) - Cardinality({})
    BY <2>4, <2>6, FS_Union
  <2>8. /\ Cardinality(P[x]) \in Nat /\ Cardinality(All(r)) \in Nat /\ Cardinality({}) = 0
        /\ h[x] = Cardinality(P[x])
    BY <2>1, <2>6, FS_CardinalityType, FS_EmptySet
  <2>9. QED
    BY <2>2, <2>3, <2>7, <2>8
<1>3. S \in T
  <2> HIDE DEF T
  <2>1. QED
    BY <1>1, <1>2, SubsetInduction
<1>4. QED
  BY <1>3

\* The sum of a constant.
LEMMA SumOfConstant ==
    ASSUME NEW S, IsFiniteSet(S), NEW n \in Nat, NEW h \in [S -> Nat], \A x \in S : h[x] = n,
           NEW f, IsSum(f, h, S)
    PROVE  f[S] = n * Cardinality(S)
<1> DEFINE T == {s \in SUBSET S : f[s] = n * Cardinality(s)}
<1>1. {} \in T
  <2>1. f[{}] = 0 /\ Cardinality({}) = 0
    BY SumStep, FS_EmptySet
  <2>2. QED
    BY <2>1
<1>2. ASSUME NEW s \in SUBSET S, s # {}, s \ {AnyOf(s)} \in T PROVE s \in T
  <2> DEFINE k == Cardinality(s \ {AnyOf(s)})
  <2>1. AnyOf(s) \in S /\ k \in Nat /\ Cardinality(s) = k + 1
    BY <1>2, AnyOfLemma
  <2>2. f[s] = h[AnyOf(s)] + f[s \ {AnyOf(s)}]
    BY <1>2, SumStep
  <2>3. f[s \ {AnyOf(s)}] = n * k
    BY <1>2
  <2>4. h[AnyOf(s)] = n
    BY <2>1
  <2> HIDE DEF k
  <2>5. n * (k + 1) = n * k + n
    BY <2>1
  <2>6. n * k \in Nat
    BY <2>1
  <2>7. QED
    BY <2>1, <2>2, <2>3, <2>4, <2>5, <2>6
<1>3. S \in T
  <2> HIDE DEF T
  <2>1. QED
    BY <1>1, <1>2, SubsetInduction
<1>4. QED
  BY <1>3

\* The sum of the values of a function over a finite set.
LEMMA SumOfFunction ==
    ASSUME NEW S, IsFiniteSet(S), NEW q \in [S -> Nat]
    PROVE  \E f : IsSum(f, q, S) /\ f[S] = MapThenSumSet(LAMBDA g : q[g], S)
<1> DEFINE f == CHOOSE f : IsSum(f, q, S)
<1>1. MapThenSumSet(LAMBDA g : q[g], S) = f[S]
  BY DEF MapThenSumSet, MapThenFoldSet, IsSum, AnyOf
<1>2. IsSum(f, q, S)
  BY SumExists
<1>3. QED
  BY <1>1, <1>2

\* The smaller of two numbers.
LEMMA MinOfTwo ==
    ASSUME NEW a \in Nat, NEW b \in Nat
    PROVE  Min({a, b}) = IF a <= b THEN a ELSE b
<1> DEFINE least == IF a <= b THEN a ELSE b
           P(x) == x \in {a, b} /\ \A y \in {a, b} : x =< y
<1>1. P(least)
  OBVIOUS
<1>2. \A x : P(x) => x = least
  OBVIOUS
<1>3. Min({a, b}) = CHOOSE x \in {a, b} : \A y \in {a, b} : x =< y
  BY DEF Min
<1>4. QED
  BY <1>1, <1>2, <1>3

\* What the quotient is.
LEMMA QuotientIs ==
    ASSUME NEW k \in Nat, NEW n \in Nat, NEW m \in Nat, n > 0, m * n <= k, k < (m + 1) * n
    PROVE  k \div n = m
BY Z3
=============================================================================
