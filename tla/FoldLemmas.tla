------------------------------ MODULE FoldLemmas ------------------------------
(***************************************************************************)
(* Facts about the library's operators that several proofs rest on: least  *)
(* and greatest members, induction up to a number, what a fold over a      *)
(* sequence computes step by step, sums over functions, FlattenSeq.        *)
(***************************************************************************)
EXTENDS Integers, SequencesExt, TLAPS, WellFoundedInduction, SequenceTheorems, FiniteSetTheorems

LEMMA NatOrder == IsWellFoundedOn({ss \in Nat \X Nat : ss[1] < ss[2]}, Nat)
BY NatLessThanWellFounded DEF OpToRel

LEMMA Minimum ==
  ASSUME NEW S, S \subseteq Nat, S # {}
  PROVE  Min(S) \in S /\ \A j \in S : Min(S) <= j
<1>1. \E x \in S : \A y \in S : ~(<<y, x>> \in {ss \in Nat \X Nat : ss[1] < ss[2]})
  BY NatOrder, WFMin, Zenon
<1>2. PICK x \in S : \A y \in S : <<y, x>> \notin {ss \in Nat \X Nat : ss[1] < ss[2]}
  BY <1>1
<1>3. ASSUME NEW y \in S PROVE x <= y
  <2>1. x \in Nat /\ y \in Nat
    OBVIOUS
  <2>2. ~(<<y, x>> \in {ss \in Nat \X Nat : ss[1] < ss[2]})
    BY <1>2
  <2> QED BY <2>1, <2>2
<1> QED BY <1>3 DEF Min

LEMMA Maximum ==
  ASSUME NEW m \in Nat, NEW S, S \subseteq 0..m, S # {}
  PROVE  Max(S) \in S /\ \A j \in S : j <= Max(S)
<1> DEFINE T == {m - i : i \in S}
<1>1. T \subseteq Nat /\ T # {}
  OBVIOUS
<1>2. Min(T) \in T /\ \A u \in T : Min(T) <= u
  <2> HIDE DEF T
  <2> QED BY <1>1, Minimum
<1>3. PICK i \in S : Min(T) = m - i
  BY <1>2
<1>4. ASSUME NEW j \in S PROVE j <= i
  <2>1. m - j \in T
    OBVIOUS
  <2>2. Min(T) <= m - j
    BY <1>2, <2>1
  <2>3. i \in 0..m /\ j \in 0..m
    OBVIOUS
  <2> QED BY <1>3, <2>2, <2>3
<1> QED BY <1>4 DEF Max

\* Induction up to a number, for a set of numbers in the place of a formula.
LEMMA Upwards ==
  ASSUME NEW N \in Nat, NEW T, 0 \in T, \A n \in 0..(N - 1) : n \in T => n + 1 \in T
  PROVE  \A n \in 0..N : n \in T
<1> DEFINE bad == (0..N) \ T
<1>1. ASSUME bad # {} PROVE FALSE
  <2>1. bad \subseteq Nat
    OBVIOUS
  <2>2. Min(bad) \in bad /\ \A j \in bad : Min(bad) <= j
    <3> HIDE DEF bad
    <3> QED BY <1>1, <2>1, Minimum
  <2> DEFINE k == Min(bad)
  <2> HIDE DEF k
  <2>3. k \in 0..N /\ k \notin T /\ \A j \in bad : k <= j
    BY <2>2 DEF k
  <2>4. k # 0 /\ k - 1 \in 0..(N - 1)
    BY <2>3
  <2>5. k - 1 \notin bad
    <3> HIDE DEF bad
    <3> QED BY <2>3, <2>4
  <2>6. k - 1 \in T
    BY <2>4, <2>5
  <2>7. (k - 1) + 1 = k
    BY <2>3
  <2> QED BY <2>3, <2>4, <2>6, <2>7
<1> QED BY <1>1

-----------------------------------------------------------------------------
(***************************************************************************)
(* FoldLeft takes the greatest index of what is left.  A function step     *)
(* stands for the operator that is folded.                                 *)
(***************************************************************************)
StepOn(step, V, N) == step \in [V \X (1..N) -> V]
Runs(g, V, N, base, step) ==
  /\ g \in [SUBSET (1..N) -> V]
  /\ \A s \in SUBSET (1..N) : g[s] = IF s = {} THEN base ELSE step[<<g[s \ {Max(s)}], Max(s)>>]

LEMMA StepsExist ==
  ASSUME NEW N \in Nat, NEW V, NEW base \in V, NEW step, StepOn(step, V, N)
  PROVE  \E g : Runs(g, V, N, base, step)
<1> USE DEF StepOn
<1> DEFINE Is(g, k) == /\ g \in [SUBSET (1..k) -> V]
                       /\ \A s \in SUBSET (1..k) : g[s] = IF s = {} THEN base ELSE step[<<g[s \ {Max(s)}], Max(s)>>]
           T == {k \in 0..N : \E g : Is(g, k)}
<1>1. 0 \in T
  <2> DEFINE g == [s \in SUBSET (1..0) |-> base]
  <2>1. \A s \in SUBSET (1..0) : s = {}
    OBVIOUS
  <2>2. Is(g, 0)
    BY <2>1
  <2>3. 0 \in 0..N
    OBVIOUS
  <2> HIDE DEF Is
  <2> QED BY <2>2, <2>3
<1>2. ASSUME NEW k \in 0..(N - 1), k \in T PROVE k + 1 \in T
  <2>1. PICK g : Is(g, k)
    BY <1>2
  <2> DEFINE m == k + 1
             Rest(s) == s \ {m}
             h == [s \in SUBSET (1..m) |-> IF m \in s THEN step[<<g[Rest(s)], m>>] ELSE g[s]]
  <2>2. m \in 1..N /\ k \in Nat
    OBVIOUS
  <2>3. ASSUME NEW s \in SUBSET (1..m)
        PROVE  Rest(s) \in SUBSET (1..k) /\ (m \notin s => s \in SUBSET (1..k))
    <3>1. \A i \in s : i \in 1..m
      OBVIOUS
    <3> QED BY <2>2, <3>1
  <2>4. ASSUME NEW s \in SUBSET (1..m), s # {}
        PROVE  /\ Max(s) \in s
               /\ m \in s => Max(s) = m
    <3>1. s \subseteq 0..m /\ m \in Nat
      BY <2>2
    <3>2. Max(s) \in s /\ \A j \in s : j <= Max(s)
      BY <2>4, <3>1, Maximum
    <3>3. Max(s) \in 1..m
      BY <3>2
    <3>4. m \in s => m <= Max(s)
      BY <3>2
    <3> HIDE DEF m
    <3> QED BY <2>2, <3>2, <3>3, <3>4
  <2>5. h \in [SUBSET (1..m) -> V]
    <3>1. ASSUME NEW s \in SUBSET (1..m) PROVE h[s] \in V
      <4>1. CASE m \in s
        <5>1. g[Rest(s)] \in V
          BY <2>1, <2>3
        <5>2. <<g[Rest(s)], m>> \in V \X (1..N)
          BY <2>2, <5>1
        <5>3. step[<<g[Rest(s)], m>>] \in V
          BY <5>2
        <5> QED BY <4>1, <5>3
      <4>2. CASE m \notin s
        BY <2>1, <2>3, <4>2
      <4> QED BY <4>1, <4>2
    <3> QED BY <3>1
  <2>6. ASSUME NEW s \in SUBSET (1..m)
        PROVE  h[s] = IF s = {} THEN base ELSE step[<<h[s \ {Max(s)}], Max(s)>>]
    <3>1. CASE s = {}
      BY <2>1, <2>3, <3>1
    <3>2. CASE s # {} /\ m \in s
      <4>1. Max(s) = m
        BY <2>4, <3>2
      <4>2. h[Rest(s)] = g[Rest(s)]
        <5>1. Rest(s) \in SUBSET (1..m) /\ m \notin Rest(s)
          OBVIOUS
        <5> QED BY <5>1
      <4>3. h[s] = step[<<g[Rest(s)], m>>]
        BY <3>2
      <4> HIDE DEF h
      <4> QED BY <3>2, <4>1, <4>2, <4>3
    <3>3. CASE s # {} /\ m \notin s
      <4>1. s \in SUBSET (1..k) /\ s \ {Max(s)} \in SUBSET (1..k)
        BY <2>3, <3>3
      <4>2. g[s] = step[<<g[s \ {Max(s)}], Max(s)>>]
        BY <2>1, <3>3, <4>1
      <4>3. h[s] = g[s] /\ h[s \ {Max(s)}] = g[s \ {Max(s)}]
        <5>1. \A r \in SUBSET (1..m) : m \notin r => h[r] = g[r]
          OBVIOUS
        <5>2. s \ {Max(s)} \in SUBSET (1..m) /\ m \notin s \ {Max(s)}
          BY <3>3
        <5> HIDE DEF h
        <5> QED BY <3>3, <5>1, <5>2
      <4> HIDE DEF h
      <4> QED BY <3>3, <4>2, <4>3
    <3> QED BY <3>1, <3>2, <3>3
  <2>7. Is(h, m)
    <3> HIDE DEF h
    <3> QED BY <2>5, <2>6
  <2>8. m \in 0..N
    BY <2>2
  <2> HIDE DEF h
  <2> QED BY <2>7, <2>8
<1>3. N \in T
  <2> HIDE DEF T
  <2>1. \A n \in 0..N : n \in T
    BY <1>1, <1>2, Upwards
  <2> QED BY <2>1
<1>4. PICK g : Is(g, N)
  BY <1>3
<1>5. Runs(g, V, N, base, step)
  BY <1>4 DEF Runs
<1> HIDE DEF Is
<1> QED BY <1>5

\* A set of first indices without its greatest one.
LEMMA FirstIndices ==
  ASSUME NEW n \in Nat, n # 0
  PROVE  Max(1..n) = n /\ (1..n) \ {n} = 1..(n - 1)
<1> DEFINE S == 1..n
<1>1. n \in S /\ S \subseteq 0..n
  OBVIOUS
<1>2. Max(S) \in S /\ \A j \in S : j <= Max(S)
  <2> HIDE DEF S
  <2> QED BY <1>1, Maximum
<1>3. Max(S) = n
  <2>1. n <= Max(S)
    BY <1>1, <1>2
  <2> QED BY <1>2, <2>1
<1>4. S \ {n} = 1..(n - 1)
  OBVIOUS
<1> HIDE DEF S
<1>5. Max(S) = n /\ S \ {n} = 1..(n - 1)
  BY <1>3, <1>4
<1> QED BY <1>5 DEF S

-----------------------------------------------------------------------------
(***************************************************************************)
(* Sums over the values of a function.                                     *)
(***************************************************************************)
\* A sum over a set takes one member after the other.
Tally(f, sum, s) ==
  IF s = {} THEN 0 ELSE LET x == CHOOSE y \in s : TRUE IN f[x] + sum[s \ {x}]
Sums(f) == CHOOSE sum : sum = [s \in SUBSET DOMAIN f |-> Tally(f, sum, s)]

LEMMA FoldIsSum ==
  ASSUME NEW f
  PROVE  FoldFunction(+, 0, f) = Sums(f)[DOMAIN f]
BY Zenon DEF FoldFunction, FoldFunctionOnSet, MapThenFoldSet, Sums, Tally

\* The sums exist: they are built from the small sets to the large ones.
LEMMA SumsExist ==
  ASSUME NEW f, IsFiniteSet(DOMAIN f)
  PROVE  Sums(f) = [s \in SUBSET DOMAIN f |-> Tally(f, Sums(f), s)]
<1> DEFINE small(k) == {s \in SUBSET DOMAIN f : Cardinality(s) <= k}
           Upto(sum, k) == \A s \in small(k) : sum[s] = Tally(f, sum, s)
           bad == {k \in Nat : \A sum : ~Upto(sum, k)}
           once(sum) == [s \in SUBSET DOMAIN f |-> Tally(f, sum, s)]
<1>1. \A s \in SUBSET DOMAIN f : IsFiniteSet(s) /\ Cardinality(s) \in Nat
  BY FS_Subset, FS_CardinalityType
<1>2. ASSUME NEW s \in SUBSET DOMAIN f, s # {}, NEW x \in s
      PROVE  s \ {x} \in SUBSET DOMAIN f /\ Cardinality(s \ {x}) = Cardinality(s) - 1
  BY <1>1, <1>2, FS_RemoveElement
<1>3. ASSUME bad # {} PROVE FALSE
  <2>1. bad \subseteq Nat
    OBVIOUS
  <2> DEFINE k == Min(bad)
  <2>2. k \in bad /\ \A j \in bad : k <= j
    <3> HIDE DEF bad
    <3> QED BY <1>3, <2>1, Minimum
  <2> HIDE DEF k
  <2>3. k # 0
    <3>1. \A s \in small(0) : s = {}
      BY <1>1, FS_EmptySet
    <3>2. Upto([s \in SUBSET DOMAIN f |-> 0], 0)
      BY <3>1 DEF Tally
    <3> QED BY <2>2, <3>2
  <2>4. k - 1 \in Nat /\ k - 1 \notin bad
    BY <2>1, <2>2, <2>3
  <2>5. PICK sum : Upto(sum, k - 1)
    BY <2>4
  <2>6. ASSUME NEW s \in small(k) PROVE once(sum)[s] = Tally(f, once(sum), s)
    <3>1. CASE s = {}
      BY <3>1 DEF Tally
    <3>2. CASE s # {}
      <4> DEFINE x == CHOOSE y \in s : TRUE
                 r == s \ {x}
      <4>1. x \in s
        BY <3>2
      <4>2. r \in small(k - 1)
        <5> HIDE DEF x
        <5>1. r \in SUBSET DOMAIN f /\ Cardinality(r) = Cardinality(s) - 1
          BY <1>2, <3>2, <4>1
        <5>2. Cardinality(s) \in Nat /\ Cardinality(s) <= k /\ k \in Nat
          BY <1>1, <2>1, <2>2
        <5>3. Cardinality(r) <= k - 1
          BY <5>1, <5>2
        <5> QED BY <5>1, <5>3
      <4>3. sum[r] = Tally(f, sum, r)
        BY <2>5, <4>2
      <4>4. once(sum)[r] = Tally(f, sum, r)
        BY <4>2
      <4>5. once(sum)[s] = f[x] + sum[r] /\ Tally(f, once(sum), s) = f[x] + once(sum)[r]
        BY <3>2 DEF Tally
      <4> QED BY <4>3, <4>4, <4>5
    <3> QED BY <3>1, <3>2
  <2>7. Upto(once(sum), k)
    BY <2>6
  <2> QED BY <2>2, <2>7
<1>4. Cardinality(DOMAIN f) \in Nat /\ \A s \in SUBSET DOMAIN f : s \in small(Cardinality(DOMAIN f))
  BY <1>1, FS_Subset
<1>5. PICK sum : Upto(sum, Cardinality(DOMAIN f))
  BY <1>3, <1>4
<1>6. once(sum) = [s \in SUBSET DOMAIN f |-> Tally(f, once(sum), s)]
  <2>1. \A s \in SUBSET DOMAIN f : once(sum)[s] = sum[s]
    BY <1>4, <1>5
  <2>2. ASSUME NEW s \in SUBSET DOMAIN f PROVE Tally(f, sum, s) = Tally(f, once(sum), s)
    <3> DEFINE x == CHOOSE y \in s : TRUE
    <3>1. CASE s = {}
      BY <3>1 DEF Tally
    <3>2. CASE s # {}
      <4>1. once(sum)[s \ {x}] = sum[s \ {x}]
        BY <2>1
      <4> QED BY <3>2, <4>1 DEF Tally
    <3> QED BY <3>1, <3>2
  <2> QED BY <2>2
<1> QED BY <1>6 DEF Sums

\* More at one place is as much more in the sum.
More(D, f, g, d, n) ==
  f \in [D -> Nat] /\ g \in [D -> Nat] /\ \A x \in D : g[x] = f[x] + (IF x = d THEN n ELSE 0)

LEMMA SumOfMore ==
  ASSUME NEW D, IsFiniteSet(D), NEW f, NEW g, NEW d, NEW n \in Nat, More(D, f, g, d, n)
  PROVE  Sums(f)[D] \in Nat /\ Sums(g)[D] = Sums(f)[D] + (IF d \in D THEN n ELSE 0)
<1>0. /\ f \in [D -> Nat] /\ g \in [D -> Nat]
      /\ \A x \in D : g[x] = f[x] + (IF x = d THEN n ELSE 0)
  BY DEF More
<1> DEFINE a == Sums(f)
           b == Sums(g)
           Good(s) == a[s] \in Nat /\ b[s] = a[s] + (IF d \in s THEN n ELSE 0)
           bad == {Cardinality(s) : s \in {r \in SUBSET D : ~Good(r)}}
<1>1. \A s \in SUBSET D : IsFiniteSet(s) /\ Cardinality(s) \in Nat
  BY FS_Subset, FS_CardinalityType
<1>2. \A s \in SUBSET D : a[s] = Tally(f, a, s) /\ b[s] = Tally(g, b, s)
  <2>1. DOMAIN f = D /\ DOMAIN g = D
    BY <1>0
  <2>2. a = [s \in SUBSET D |-> Tally(f, a, s)] /\ b = [s \in SUBSET D |-> Tally(g, b, s)]
    BY <2>1, SumsExist
  <2> HIDE DEF a, b
  <2> QED BY <2>2
<1> HIDE DEF a, b
<1>3. ASSUME bad # {} PROVE FALSE
  <2>1. bad \subseteq Nat
    BY <1>1
  <2>2. Min(bad) \in bad /\ \A j \in bad : Min(bad) <= j
    <3> HIDE DEF bad
    <3> QED BY <1>3, <2>1, Minimum
  <2>3. PICK s \in SUBSET D : ~Good(s) /\ Cardinality(s) = Min(bad)
    BY <2>2
  <2>4. s # {}
    <3>1. a[{}] = 0 /\ b[{}] = 0
      BY <1>2 DEF Tally
    <3>2. Good({})
      BY <3>1
    <3> HIDE DEF Good
    <3> QED BY <2>3, <3>2
  <2> DEFINE x == CHOOSE y \in s : TRUE
             r == s \ {x}
  <2>5. x \in s /\ x \in D
    BY <2>4
  <2>6. a[s] = f[x] + a[r] /\ b[s] = g[x] + b[r]
    BY <1>2, <2>4 DEF Tally
  <2>7. r \in SUBSET D /\ Cardinality(r) < Cardinality(s)
    <3> HIDE DEF x
    <3>1. IsFiniteSet(s) /\ Cardinality(s) \in Nat
      BY <1>1
    <3>2. Cardinality(s \ {x}) = Cardinality(s) - 1
      BY <2>5, <3>1, FS_RemoveElement
    <3> QED BY <3>1, <3>2
  <2> HIDE DEF x
  <2>8. Good(r)
    <3>1. Cardinality(r) \notin bad
      <4>1. Cardinality(r) \in Nat /\ Cardinality(s) \in Nat
      BY <1>1, <2>7
    <4>2. ~(Min(bad) <= Cardinality(r))
      BY <2>3, <2>7, <4>1
    <4> HIDE DEF bad
    <4> QED BY <2>2, <4>2
    <3> QED BY <2>7, <3>1
  <2>9. d \in s <=> (d \in r \/ d = x)
    BY <2>5
  <2>10. f[x] \in Nat /\ g[x] = f[x] + (IF x = d THEN n ELSE 0) /\ (d = x => d \notin r)
    BY <1>0, <2>5
  <2> HIDE DEF r
  <2>11. Good(s)
    BY <2>6, <2>8, <2>9, <2>10
  <2> QED BY <2>3, <2>11
<1>4. Good(D)
  BY <1>3
<1> QED BY <1>4 DEF a, b

LEMMA SumOfOneMore ==
  ASSUME NEW D, IsFiniteSet(D), NEW f \in [D -> Nat], NEW g \in [D -> Nat], NEW d,
         \A x \in D : g[x] = f[x] + (IF x = d THEN 1 ELSE 0)
  PROVE  Sums(f)[D] \in Nat /\ Sums(g)[D] = Sums(f)[D] + (IF d \in D THEN 1 ELSE 0)
<1>1. More(D, f, g, d, 1)
  BY DEF More
<1>2. 1 \in Nat
  OBVIOUS
<1> QED BY <1>1, <1>2, SumOfMore

LEMMA SumOfNone ==
  ASSUME NEW D, IsFiniteSet(D), NEW f \in [D -> {0}]
  PROVE  Sums(f)[D] = 0
<1> DEFINE a == Sums(f)
           bad == {Cardinality(s) : s \in {r \in SUBSET D : a[r] # 0}}
<1>1. \A s \in SUBSET D : IsFiniteSet(s) /\ Cardinality(s) \in Nat
  BY FS_Subset, FS_CardinalityType
<1>2. \A s \in SUBSET D : a[s] = Tally(f, a, s)
  <2>1. DOMAIN f = D
    OBVIOUS
  <2>2. a = [s \in SUBSET D |-> Tally(f, a, s)]
    BY <2>1, SumsExist
  <2> HIDE DEF a
  <2> QED BY <2>2
<1> HIDE DEF a
<1>3. ASSUME bad # {} PROVE FALSE
  <2>1. bad \subseteq Nat
    BY <1>1
  <2>2. Min(bad) \in bad /\ \A j \in bad : Min(bad) <= j
    <3> HIDE DEF bad
    <3> QED BY <1>3, <2>1, Minimum
  <2>3. PICK s \in SUBSET D : a[s] # 0 /\ Cardinality(s) = Min(bad)
    BY <2>2
  <2> DEFINE x == CHOOSE y \in s : TRUE
             r == s \ {x}
  <2>4. x \in s /\ a[s] = f[x] + a[r]
    <3>1. s # {}
      BY <1>2, <2>3 DEF Tally
    <3> QED BY <1>2, <3>1 DEF Tally
  <2> HIDE DEF x
  <2>5. r \in SUBSET D /\ Cardinality(r) = Cardinality(s) - 1
    BY <1>1, <2>3, <2>4, FS_RemoveElement
  <2>6. a[r] = 0
    <3>1. Cardinality(r) \in Nat /\ Cardinality(s) \in Nat
      BY <1>1, <2>5
    <3>2. ~(Min(bad) <= Cardinality(r))
      BY <2>3, <2>5, <3>1
    <3>3. Cardinality(r) \notin bad
      <4> HIDE DEF bad
      <4> QED BY <2>2, <3>2
    <3> QED BY <2>5, <3>3
  <2> QED BY <2>3, <2>4, <2>6
<1> QED BY <1>3 DEF a

-----------------------------------------------------------------------------
(***************************************************************************)
(* FlattenSeq, by its last sequence.                                       *)
(***************************************************************************)
\* the function behind FlattenSeq
Flattening(ss) == CHOOSE f : f = [i \in 1..Len(ss) |-> IF i = 1 THEN ss[i] ELSE f[i - 1] \o ss[i]]

LEMMA FlatteningExists ==
  ASSUME NEW S, NEW ss \in Seq(Seq(S))
  PROVE  /\ Flattening(ss) \in [1..Len(ss) -> Seq(S)]
         /\ \A i \in 1..Len(ss) : Flattening(ss)[i] = IF i = 1 THEN ss[i] ELSE Flattening(ss)[i - 1] \o ss[i]
         /\ ss # <<>> => FlattenSeq(ss) = Flattening(ss)[Len(ss)]
<1> DEFINE N == Len(ss)
           Is(f, k) == /\ f \in [1..k -> Seq(S)]
                       /\ \A i \in 1..k : f[i] = IF i = 1 THEN ss[i] ELSE f[i - 1] \o ss[i]
           T == {k \in 0..N : \E f : Is(f, k)}
<1>1. N \in Nat /\ \A i \in 1..N : ss[i] \in Seq(S)
  OBVIOUS
<1> HIDE DEF N
<1>2. 0 \in T
  <2> DEFINE f == [i \in 1..0 |-> <<>>]
  <2>1. Is(f, 0)
    OBVIOUS
  <2>2. 0 \in 0..N
    BY <1>1
  <2> HIDE DEF Is
  <2> QED BY <2>1, <2>2
<1>3. ASSUME NEW k \in 0..(N - 1), k \in T PROVE k + 1 \in T
  <2>1. PICK f : Is(f, k)
    BY <1>3
  <2> DEFINE m == k + 1
             g == [i \in 1..m |-> IF i = m THEN IF m = 1 THEN ss[m] ELSE f[k] \o ss[m] ELSE f[i]]
  <2>2. k \in Nat /\ m \in 1..N /\ (m # 1 => k \in 1..k)
    BY <1>1
  <2>3. g[m] = (IF m = 1 THEN ss[m] ELSE f[k] \o ss[m]) /\ g[m] \in Seq(S)
    <3>1. m \in 1..m
      BY <2>2
    <3>2. CASE m = 1
      BY <1>1, <2>2, <3>1, <3>2
    <3>3. CASE m # 1
      <4>1. f[k] \in Seq(S) /\ ss[m] \in Seq(S)
        BY <1>1, <2>1, <2>2, <3>3
      <4>2. f[k] \o ss[m] \in Seq(S)
        BY <4>1
      <4> QED BY <3>1, <3>3, <4>2
    <3> QED BY <3>2, <3>3
  <2>4. \A i \in 1..k : g[i] = f[i] /\ g[i] \in Seq(S) /\ i # m /\ i \in 1..m
    <3>1. \A i \in 1..k : i # m /\ i \in 1..m
      BY <2>2
    <3>2. \A i \in 1..k : g[i] = f[i]
      BY <3>1
    <3>3. \A i \in 1..k : f[i] \in Seq(S)
      BY <2>1
    <3> HIDE DEF g
    <3> QED BY <3>1, <3>2, <3>3
  <2>5. \A i \in 1..m : i = m \/ i \in 1..k
    BY <2>2
  <2>6. g \in [1..m -> Seq(S)]
    <3>1. \A i \in 1..m : g[i] \in Seq(S)
      <4> HIDE DEF g
      <4> QED BY <2>3, <2>4, <2>5
    <3> QED BY <3>1
  <2>7. ASSUME NEW i \in 1..m PROVE g[i] = IF i = 1 THEN ss[i] ELSE g[i - 1] \o ss[i]
    <3> HIDE DEF g
    <3>1. CASE i = m
      <4>1. m # 1 => g[i - 1] = f[k]
        BY <2>2, <2>4, <3>1
      <4> QED BY <2>3, <3>1, <4>1
    <3>2. CASE i # m
      <4>1. i \in 1..k
        BY <2>5, <3>2
      <4>2. i # 1 => i - 1 \in 1..k
        BY <2>2, <4>1
      <4>3. f[i] = IF i = 1 THEN ss[i] ELSE f[i - 1] \o ss[i]
        BY <2>1, <4>1
      <4> QED BY <2>4, <4>1, <4>2, <4>3
    <3> QED BY <3>1, <3>2
  <2>8. Is(g, m)
    <3> HIDE DEF g
    <3> QED BY <2>6, <2>7
  <2>9. m \in 0..N
    BY <1>1, <2>2
  <2> HIDE DEF g, Is
  <2> QED BY <2>8, <2>9
<1>4. N \in T
  <2> HIDE DEF T
  <2>1. \A n \in 0..N : n \in T
    BY <1>1, <1>2, <1>3, Upwards
  <2> QED BY <1>1, <2>1
<1>5. PICK f : Is(f, N)
  BY <1>4
<1>6. f = [i \in 1..N |-> IF i = 1 THEN ss[i] ELSE f[i - 1] \o ss[i]]
  BY <1>5
<1> DEFINE h == Flattening(ss)
<1>7. h = [i \in 1..N |-> IF i = 1 THEN ss[i] ELSE h[i - 1] \o ss[i]]
  BY <1>6, Zenon DEF Flattening, N
<1> HIDE DEF h
<1>8. \A i \in 1..N : h[i] = IF i = 1 THEN ss[i] ELSE h[i - 1] \o ss[i]
  BY <1>7
<1> DEFINE U == {k \in 0..N : k # 0 => h[k] \in Seq(S)}
<1>9. \A k \in 0..N : k \in U
  <2>1. 0 \in U
    BY <1>1
  <2>2. ASSUME NEW k \in 0..(N - 1), k \in U PROVE k + 1 \in U
    <3>1. k + 1 \in 1..N /\ (k + 1) - 1 = k /\ k + 1 \in 0..N
      BY <1>1
    <3>2. h[k + 1] = IF k + 1 = 1 THEN ss[k + 1] ELSE h[k] \o ss[k + 1]
      BY <1>8, <3>1
    <3>3. ss[k + 1] \in Seq(S)
      BY <1>1, <3>1
    <3>4. k + 1 # 1 => h[k] \in Seq(S)
      BY <2>2
    <3>5. h[k + 1] \in Seq(S)
      <4>1. CASE k + 1 = 1
        BY <3>2, <3>3, <4>1
      <4>2. CASE k + 1 # 1
        <5>1. h[k] \o ss[k + 1] \in Seq(S)
          BY <3>3, <3>4, <4>2
        <5> QED BY <3>2, <4>2, <5>1
      <4> QED BY <4>1, <4>2
    <3> QED BY <3>1, <3>5
  <2> HIDE DEF U
  <2> QED BY <1>1, <2>1, <2>2, Upwards
<1>10. h \in [1..N -> Seq(S)]
  <2>1. \A k \in 1..N : h[k] \in Seq(S)
    BY <1>1, <1>9
  <2> QED BY <1>7, <2>1
<1>11. ss # <<>> => FlattenSeq(ss) = h[N]
  <2>1. ss # <<>> => Len(ss) # 0
    OBVIOUS
  <2> QED BY <2>1, Zenon DEF FlattenSeq, Flattening, h, N
<1> QED BY <1>8, <1>10, <1>11 DEF h, N

LEMMA FlattenNothing == FlattenSeq(<<>>) = <<>>
BY DEF FlattenSeq

LEMMA FlattenIsSeq ==
  ASSUME NEW S, NEW ss \in Seq(Seq(S))
  PROVE  FlattenSeq(ss) \in Seq(S)
<1>1. CASE ss = <<>>
  <2>1. <<>> \in Seq(S)
    OBVIOUS
  <2> QED BY <1>1, <2>1, FlattenNothing
<1>2. CASE ss # <<>>
  <2>1. Len(ss) \in 1..Len(ss)
    BY <1>2
  <2> QED BY <1>2, <2>1, FlatteningExists
<1> QED BY <1>1, <1>2

\* One sequence more is flattened behind the others.
LEMMA FlattenAppend ==
  ASSUME NEW S, NEW ss \in Seq(Seq(S)), NEW t \in Seq(S)
  PROVE  FlattenSeq(Append(ss, t)) = FlattenSeq(ss) \o t
<1> DEFINE N == Len(ss)
           tt == Append(ss, t)
           f == Flattening(ss)
           g == Flattening(tt)
<1>1. /\ N \in Nat /\ tt \in Seq(Seq(S)) /\ Len(tt) = N + 1 /\ tt # <<>>
      /\ tt[N + 1] = t /\ \A i \in 1..N : tt[i] = ss[i]
  <2>1. N \in Nat
    OBVIOUS
  <2> QED BY <2>1, AppendProperties
<1>2. /\ f \in [1..N -> Seq(S)]
      /\ \A i \in 1..N : f[i] = IF i = 1 THEN ss[i] ELSE f[i - 1] \o ss[i]
      /\ ss # <<>> => FlattenSeq(ss) = f[N]
  BY FlatteningExists
<1>3. /\ \A i \in 1..(N + 1) : g[i] = IF i = 1 THEN tt[i] ELSE g[i - 1] \o tt[i]
      /\ FlattenSeq(tt) = g[N + 1]
  <2> HIDE DEF tt
  <2> QED BY <1>1, FlatteningExists
<1>4. ss = <<>> <=> N = 0
  OBVIOUS
<1> HIDE DEF N, tt, f, g
<1> DEFINE T == {k \in 0..N : k # 0 => g[k] = f[k]}
<1>5. \A k \in 0..N : k \in T
  <2>1. 0 \in T
    BY <1>1
  <2>2. ASSUME NEW k \in 0..(N - 1), k \in T PROVE k + 1 \in T
    <3>1. k + 1 \in 1..N /\ (k + 1) - 1 = k /\ k + 1 \in 0..N /\ k + 1 \in 1..(N + 1)
      BY <1>1
    <3>2. f[k + 1] = IF k + 1 = 1 THEN ss[k + 1] ELSE f[k] \o ss[k + 1]
      BY <1>2, <3>1
    <3>3. g[k + 1] = IF k + 1 = 1 THEN tt[k + 1] ELSE g[k] \o tt[k + 1]
      BY <1>3, <3>1
    <3>4. tt[k + 1] = ss[k + 1] /\ (k + 1 # 1 => g[k] = f[k])
      BY <1>1, <2>2, <3>1
    <3> QED BY <3>1, <3>2, <3>3, <3>4
  <2> HIDE DEF T
  <2> QED BY <1>1, <2>1, <2>2, Upwards
<1>6. N + 1 \in 1..(N + 1) /\ (N + 1) - 1 = N
  BY <1>1
<1>7. CASE N = 0
  <2>1. g[N + 1] = t
    BY <1>1, <1>3, <1>6, <1>7
  <2>2. FlattenSeq(ss) = <<>>
    BY <1>4, <1>7, FlattenNothing
  <2>3. <<>> \o t = t
    OBVIOUS
  <2> QED BY <1>3, <2>1, <2>2, <2>3 DEF tt
<1>8. CASE N # 0
  <2>1. g[N] = f[N]
    BY <1>1, <1>5, <1>8
  <2>2. N + 1 # 1
    BY <1>1, <1>8
  <2>3. g[N + 1] = g[(N + 1) - 1] \o tt[N + 1]
    BY <1>3, <1>6, <2>2
  <2>4. g[N + 1] = g[N] \o t
    BY <1>1, <1>6, <2>3
  <2> QED BY <1>2, <1>3, <1>4, <1>8, <2>1, <2>4 DEF tt
<1> QED BY <1>7, <1>8

\* One member more in the last sequence is one more behind all.
LEMMA FlattenGrown ==
  ASSUME NEW S, NEW ss \in Seq(Seq(S)), ss # <<>>, NEW c \in S
  PROVE  /\ [ss EXCEPT ![Len(ss)] = Append(@, c)] \in Seq(Seq(S))
         /\ FlattenSeq([ss EXCEPT ![Len(ss)] = Append(@, c)]) = Append(FlattenSeq(ss), c)
<1>1. PICK rest \in Seq(Seq(S)), t \in Seq(S) : ss = Append(rest, t)
  BY SequenceEmptyOrAppend
<1> DEFINE grown == [ss EXCEPT ![Len(ss)] = Append(@, c)]
<1>2. Append(t, c) \in Seq(S)
  OBVIOUS
<1>3. /\ Len(ss) \in Nat /\ Len(ss) = Len(rest) + 1 /\ ss[Len(ss)] = t
      /\ \A i \in 1..Len(rest) : ss[i] = rest[i]
  BY <1>1
<1>4. grown \in Seq(Seq(S)) /\ Len(grown) = Len(ss)
  <2>1. Len(ss) \in 1..Len(ss) /\ Append(ss[Len(ss)], c) \in Seq(S)
    BY <1>2, <1>3
  <2> QED BY <2>1, ExceptSeq
<1>5. \A i \in 1..Len(ss) : grown[i] = IF i = Len(ss) THEN Append(t, c) ELSE ss[i]
  BY <1>3
<1>6. /\ Append(rest, Append(t, c)) \in Seq(Seq(S)) /\ Len(Append(rest, Append(t, c))) = Len(ss)
      /\ \A i \in 1..Len(ss) : Append(rest, Append(t, c))[i] = IF i = Len(ss) THEN Append(t, c) ELSE ss[i]
  BY <1>2, <1>3
<1>7. grown = Append(rest, Append(t, c))
  <2> HIDE DEF grown
  <2> QED BY <1>4, <1>5, <1>6, SeqEqual
<1> HIDE DEF grown
<1>8. FlattenSeq(grown) = FlattenSeq(rest) \o Append(t, c) /\ FlattenSeq(ss) = FlattenSeq(rest) \o t
  <2>1. FlattenSeq(Append(rest, Append(t, c))) = FlattenSeq(rest) \o Append(t, c)
    BY <1>2, FlattenAppend
  <2>2. FlattenSeq(Append(rest, t)) = FlattenSeq(rest) \o t
    BY FlattenAppend
  <2> QED BY <1>1, <1>7, <2>1, <2>2
<1>9. FlattenSeq(rest) \in Seq(S)
  BY FlattenIsSeq
<1>10. FlattenSeq(rest) \o Append(t, c) = Append(FlattenSeq(rest) \o t, c)
  BY <1>9
<1> QED BY <1>4, <1>8, <1>10 DEF grown

-----------------------------------------------------------------------------
(***************************************************************************)
(* The sequence of a finite set, and a sequence without one element.       *)
(***************************************************************************)
LEMMA SequenceOfSet ==
  ASSUME NEW S, IsFiniteSet(S)
  PROVE  /\ SetToSeq(S) \in Seq(S)
         /\ \A k, l \in 1..Len(SetToSeq(S)) : SetToSeq(S)[k] = SetToSeq(S)[l] => k = l
         /\ \A x \in S : \E k \in 1..Len(SetToSeq(S)) : SetToSeq(S)[k] = x
<1> DEFINE n == Cardinality(S)
           f == SetToSeq(S)
<1>1. n \in Nat /\ ExistsBijection(1..n, S)
  BY FS_CardinalityType
<1>2. PICK g : g \in Bijection(1..n, S)
  BY <1>1 DEF ExistsBijection
<1>3. g \in [1..n -> S] /\ IsInjective(g)
  BY <1>2 DEF Bijection, Injection, IsInjective
<1>4. f \in [1..n -> S] /\ IsInjective(f)
  BY <1>3, Zenon DEF SetToSeq
<1> HIDE DEF n, f
<1>5. f \in Seq(S) /\ Len(f) = n
  <2>1. f \in Seq(S)
    BY <1>1, <1>4, SeqDef
  <2>2. DOMAIN f = 1..n
    BY <1>4
  <2> QED BY <1>1, <2>1, <2>2, LenProperties
<1>6. \A k, l \in 1..n : f[k] = f[l] => k = l
  BY <1>4 DEF IsInjective
<1>7. f \in Injection(1..n, S)
  BY <1>4, <1>6 DEF Injection, IsInjective
<1>8. Cardinality(1..n) = n /\ IsFiniteSet(1..n)
  BY <1>1, FS_Interval
<1>9. f \in Surjection(1..n, S)
  BY <1>7, <1>8, FS_Injection DEF n
<1>10. \A x \in S : \E k \in 1..n : f[k] = x
  BY <1>9 DEF Surjection
<1> QED BY <1>5, <1>6, <1>10 DEF f

LEMMA RemovedAt ==
  ASSUME NEW S, NEW s \in Seq(S), NEW k \in 1..Len(s)
  PROVE  /\ RemoveAt(s, k) \in Seq(S) /\ Len(RemoveAt(s, k)) = Len(s) - 1
         /\ \A n \in 1..(Len(s) - 1) : RemoveAt(s, k)[n] = IF n < k THEN s[n] ELSE s[n + 1]
<1> DEFINE a == SubSeq(s, 1, k - 1)
           b == SubSeq(s, k + 1, Len(s))
<1>1. Len(s) \in Nat /\ k \in 1..Len(s)
  BY LenProperties
<1>2. a \in Seq(S) /\ Len(a) = k - 1 /\ \A n \in 1..(k - 1) : a[n] = s[n]
  BY <1>1, SubSeqProperties
<1>3. b \in Seq(S) /\ Len(b) = Len(s) - k /\ \A n \in 1..(Len(s) - k) : b[n] = s[k + n]
  BY <1>1, SubSeqProperties
<1>4. RemoveAt(s, k) = a \o b
  BY DEF RemoveAt
<1> HIDE DEF a, b
<1>5. a \o b \in Seq(S) /\ Len(a \o b) = Len(s) - 1
  <2>1. a \o b \in Seq(S) /\ Len(a \o b) = Len(a) + Len(b)
    BY <1>2, <1>3, ConcatProperties
  <2> QED BY <1>1, <1>2, <1>3, <2>1
<1>6. ASSUME NEW n \in 1..(Len(s) - 1) PROVE (a \o b)[n] = IF n < k THEN s[n] ELSE s[n + 1]
  <2>1. \A m \in 1..(Len(a) + Len(b)) : (a \o b)[m] = IF m <= Len(a) THEN a[m] ELSE b[m - Len(a)]
    BY <1>2, <1>3, ConcatProperties
  <2>2. (a \o b)[n] = IF n <= k - 1 THEN a[n] ELSE b[n - (k - 1)]
    BY <1>1, <1>2, <1>3, <2>1
  <2>3. n < k => n <= k - 1 /\ n \in 1..(k - 1)
    BY <1>1
  <2>4. ~(n < k) => ~(n <= k - 1) /\ n - (k - 1) \in 1..(Len(s) - k) /\ k + (n - (k - 1)) = n + 1
    BY <1>1
  <2> QED BY <1>2, <1>3, <2>2, <2>3, <2>4
<1> QED BY <1>4, <1>5, <1>6
=============================================================================
