---------------------------- MODULE CommandsProofs ----------------------------
(***************************************************************************)
(* Proofs about what the commands do around a trace: the consolidation of  *)
(* drafts, whatever providers propose for whatever sources; the label      *)
(* store, for any number of commands, annotators, features and kills; the  *)
(* batch runner, for any number of units and workers; the asker, for any   *)
(* threads, items, batch sizes and failures of the provider.               *)
(***************************************************************************)
EXTENDS Consolidation, LabelStore, BatchRunner, Asker, FoldLemmas

-----------------------------------------------------------------------------
(***************************************************************************)
(* Consolidation.  Sizes are numbers.                                      *)
(***************************************************************************)
LEMMA TotalIsNat ==
  ASSUME NEW sizes, IsFiniteSet(DOMAIN sizes), sizes \in [DOMAIN sizes -> Nat]
  PROVE  Total(sizes) \in Nat
<1> DEFINE D == DOMAIN sizes
           one(x) == IF x = D THEN 1 ELSE 0
           more == [x \in D |-> sizes[x] + one(x)]
<1>1. Total(sizes) = Sums(sizes)[D]
  BY FoldIsSum DEF Total
<1>2. more \in [D -> Nat] /\ \A x \in D : more[x] = sizes[x] + (IF x = D THEN 1 ELSE 0)
  OBVIOUS
<1>3. IsFiniteSet(D) /\ sizes \in [D -> Nat]
  OBVIOUS
<1> HIDE DEF D, more
<1>4. Sums(sizes)[D] \in Nat
  BY <1>2, <1>3, SumOfOneMore
<1> QED BY <1>1, <1>4

LEMMA SizesAreNumbers ==
  ASSUME NEW group \in Seq(Candidate), NEW short \in BOOLEAN
  PROVE  PayloadSize(group, short) \in Nat
<1> DEFINE own == [n \in DOMAIN group |-> group[n].size]
           cited == Cited(group)
           sources == [s \in cited |-> IF short THEN Compact[s] ELSE Size[s]]
<1>1. /\ DOMAIN group = 1..Len(group) /\ Len(group) \in Nat
      /\ \A n \in 1..Len(group) : group[n] \in Candidate
  OBVIOUS
<1>2. IsFiniteSet(DOMAIN own) /\ own \in [DOMAIN own -> Nat]
  <2>1. IsFiniteSet(DOMAIN group)
    BY <1>1, FS_Interval
  <2>2. \A n \in DOMAIN group : group[n].size \in Nat
    BY <1>1 DEF Candidate
  <2> QED BY <2>1, <2>2
<1>3. Total(own) \in Nat
  <2> HIDE DEF own
  <2> QED BY <1>2, TotalIsNat
<1>4. cited \subseteq DOMAIN Size
  BY <1>1 DEF Cited, Candidate
<1>5. /\ DOMAIN Size = 1..Len(Size) /\ Len(Size) \in Nat /\ DOMAIN Compact = DOMAIN Size
      /\ \A s \in DOMAIN Size : Size[s] \in Nat /\ Compact[s] \in Nat
  BY ConsolidationAssumption
<1>6. IsFiniteSet(DOMAIN sources) /\ sources \in [DOMAIN sources -> Nat]
  <2> HIDE DEF cited
  <2>1. IsFiniteSet(DOMAIN Size)
    BY <1>5, FS_Interval
  <2>2. IsFiniteSet(cited)
    BY <1>4, <2>1, FS_Subset
  <2>3. \A s \in cited : (IF short THEN Compact[s] ELSE Size[s]) \in Nat
    BY <1>4, <1>5
  <2> QED BY <2>2, <2>3
<1>7. Total(sources) \in Nat
  <2> HIDE DEF sources
  <2> QED BY <1>6, TotalIsNat
<1>8. PayloadSize(group, short) = Total(own) + Total(sources)
  BY DEF PayloadSize
<1> HIDE DEF own, sources
<1> QED BY <1>3, <1>7, <1>8

-----------------------------------------------------------------------------
(***************************************************************************)
(* The two folds, step by step.                                            *)
(***************************************************************************)
\* the function behind Unique
Placing(list) ==
  CHOOSE f : f = [s \in SUBSET DOMAIN list |-> IF s = {} THEN <<>> ELSE Placed(f[s \ {Max(s)}], list[Max(s)])]
\* the function behind Grouped
Joining(list) ==
  CHOOSE f : f = [s \in SUBSET DOMAIN list |-> IF s = {} THEN <<>> ELSE Joined(f[s \ {Max(s)}], list[Max(s)])]

LEMMA FoldsAre ==
  ASSUME NEW list
  PROVE  Unique(list) = Placing(list)[DOMAIN list] /\ Grouped(list) = Joining(list)[DOMAIN list]
<1>1. Unique(list) = Placing(list)[DOMAIN list]
  BY Zenon DEF Unique, FoldLeft, MapThenFoldSet, Placing
<1>2. Grouped(list) = Joining(list)[DOMAIN list]
  BY Zenon DEF Grouped, FoldLeft, MapThenFoldSet, Joining
<1> QED BY <1>1, <1>2

DistinctIds(list) == \A m, n \in DOMAIN list : list[m].id = list[n].id => m = n

LEMMA PlacedIsList ==
  ASSUME NEW list \in Seq(Candidate), NEW c \in Candidate
  PROVE  Placed(list, c) \in Seq(Candidate) /\ (DistinctIds(list) => DistinctIds(Placed(list, c)))
<1>1. /\ DOMAIN list = 1..Len(list) /\ Len(list) \in Nat
      /\ \A n \in 1..Len(list) : list[n] \in Candidate
  OBVIOUS
<1>2. CASE \E n \in DOMAIN list : list[n].id = c.id
  <2> DEFINE new == [n \in DOMAIN list |-> IF list[n].id = c.id THEN c ELSE list[n]]
  <2>1. Placed(list, c) = new
    BY <1>2 DEF Placed
  <2>2. new \in Seq(Candidate)
    <3>1. new \in [1..Len(list) -> Candidate]
      BY <1>1
    <3> HIDE DEF new
    <3> QED BY <1>1, <3>1, SeqDef
  <2>3. DOMAIN new = DOMAIN list /\ \A n \in DOMAIN new : new[n].id = list[n].id
    OBVIOUS
  <2>4. DistinctIds(list) => DistinctIds(new)
    <3> HIDE DEF new
    <3> QED BY <2>3 DEF DistinctIds
  <2> HIDE DEF new
  <2> QED BY <2>1, <2>2, <2>4
<1>3. CASE ~\E n \in DOMAIN list : list[n].id = c.id
  <2> DEFINE new == Append(list, c)
  <2>1. Placed(list, c) = new
    BY <1>3 DEF Placed
  <2>2. /\ new \in Seq(Candidate) /\ DOMAIN new = 1..(Len(list) + 1) /\ new[Len(list) + 1] = c
        /\ \A n \in 1..Len(list) : new[n] = list[n]
    BY <1>1, AppendProperties, LenProperties
  <2>3. \A n \in 1..(Len(list) + 1) : n = Len(list) + 1 \/ n \in 1..Len(list)
    BY <1>1
  <2>4. DistinctIds(list) => DistinctIds(new)
    <3> HIDE DEF new
    <3>1. \A n \in DOMAIN list : list[n].id # c.id
      BY <1>3
    <3>2. SUFFICES ASSUME DistinctIds(list), NEW m \in DOMAIN new, NEW n \in DOMAIN new, new[m].id = new[n].id PROVE m = n
      BY DEF DistinctIds
    <3>3. m = Len(list) + 1 \/ (m \in DOMAIN list /\ new[m] = list[m])
      BY <1>1, <2>2, <2>3
    <3>4. n = Len(list) + 1 \/ (n \in DOMAIN list /\ new[n] = list[n])
      BY <1>1, <2>2, <2>3
    <3> QED BY <2>2, <3>1, <3>2, <3>3, <3>4 DEF DistinctIds
  <2> HIDE DEF new
  <2> QED BY <2>1, <2>2, <2>4
<1> QED BY <1>2, <1>3

\* What Unique keeps has different ids.
LEMMA UniqueIsUnique ==
  ASSUME NEW list \in Seq(Candidate)
  PROVE  Unique(list) \in Seq(Candidate) /\ DistinctIds(Unique(list))
<1> DEFINE N == Len(list)
           V == {l \in Seq(Candidate) : DistinctIds(l)}
           step == [p \in V \X (1..N) |-> Placed(p[1], list[p[2]])]
<1>1. N \in Nat /\ DOMAIN list = 1..N /\ \A n \in 1..N : list[n] \in Candidate
  OBVIOUS
<1>2. <<>> \in V
  BY DEF DistinctIds
<1>3. step \in [V \X (1..N) -> V]
  <2>1. ASSUME NEW p \in V \X (1..N) PROVE Placed(p[1], list[p[2]]) \in V
    <3>1. p[1] \in Seq(Candidate) /\ DistinctIds(p[1]) /\ list[p[2]] \in Candidate
      BY <1>1
    <3> QED BY <3>1, PlacedIsList
  <2> HIDE DEF V
  <2> QED BY <2>1
<1> HIDE DEF N
<1>4. PICK g : Runs(g, V, N, <<>>, step)
  <2>1. StepOn(step, V, N)
    BY <1>3 DEF StepOn
  <2> HIDE DEF V, step
  <2> QED BY <1>1, <1>2, <2>1, StepsExist
<1> DEFINE Nx(f, s) == IF s = {} THEN <<>> ELSE Placed(f[s \ {Max(s)}], list[Max(s)])
<1>5. ASSUME NEW s \in SUBSET (1..N) PROVE g[s] = Nx(g, s)
  <2>0. g \in [SUBSET (1..N) -> V] /\ g[s] = IF s = {} THEN <<>> ELSE step[<<g[s \ {Max(s)}], Max(s)>>]
    <3> HIDE DEF V, step
    <3> QED BY <1>4 DEF Runs
  <2>1. CASE s = {}
    BY <2>0, <2>1
  <2>2. CASE s # {}
    <3>1. Max(s) \in 1..N
      <4>1. s \subseteq 0..N
        BY <1>1
      <4>2. Max(s) \in s
        BY <1>1, <2>2, <4>1, Maximum
      <4> QED BY <4>2
    <3>2. g[s \ {Max(s)}] \in V
      <4> HIDE DEF V, step
      <4> QED BY <2>0
    <3>3. <<g[s \ {Max(s)}], Max(s)>> \in V \X (1..N)
      BY <3>1, <3>2
    <3>4. step[<<g[s \ {Max(s)}], Max(s)>>] = Placed(g[s \ {Max(s)}], list[Max(s)])
      <4> HIDE DEF V
      <4> QED BY <3>3
    <3> HIDE DEF step
    <3> QED BY <2>0, <2>2, <3>4
  <2> QED BY <2>1, <2>2
<1> DEFINE h == Placing(list)
<1>6. g = [s \in SUBSET (1..N) |-> Nx(g, s)]
  <2>1. g \in [SUBSET (1..N) -> V]
    <3> HIDE DEF V, step
    <3> QED BY <1>4 DEF Runs
  <2> HIDE DEF Nx, V
  <2> QED BY <1>5, <2>1
<1>7. h = [s \in SUBSET (1..N) |-> Nx(h, s)]
  BY <1>1, <1>6, Zenon DEF Placing
<1>8. \A n \in 0..N : h[1..n] \in V
  <2> DEFINE T == {n \in 0..N : h[1..n] \in V}
  <2>1. 0 \in T
    <3>1. (1..0) = {}
      OBVIOUS
    <3>2. h[{}] = <<>>
      <4> HIDE DEF h
      <4> QED BY <1>7
    <3>3. 0 \in 0..N
      BY <1>1
    <3> HIDE DEF h, V
    <3> QED BY <1>2, <3>1, <3>2, <3>3
  <2>2. ASSUME NEW n \in 0..(N - 1), n \in T PROVE n + 1 \in T
    <3> DEFINE k == n + 1
    <3>1. k \in 1..N /\ k \in Nat /\ k # 0 /\ k - 1 = n /\ k \in 0..N
      BY <1>1
    <3> HIDE DEF k
    <3>2. Max(1..k) = k /\ (1..k) \ {k} = 1..n
      BY <3>1, FirstIndices
    <3>3. 1..k \in SUBSET (1..N) /\ (1..k) # {}
      <4>1. 1 \in 1..k /\ \A i \in 1..k : i \in 1..N
        BY <1>1, <3>1
      <4> QED BY <4>1
    <3>4. h[1..k] = Nx(h, 1..k)
      <4> HIDE DEF h, Nx
      <4> QED BY <1>7, <3>3
    <3>5. h[1..k] = Placed(h[1..n], list[k])
      <4> HIDE DEF h
      <4> QED BY <3>2, <3>3, <3>4
    <3>6. h[1..n] \in Seq(Candidate) /\ DistinctIds(h[1..n]) /\ list[k] \in Candidate
      BY <1>1, <2>2, <3>1
    <3>7. h[1..k] \in V
      <4> HIDE DEF h
      <4> QED BY <3>5, <3>6, PlacedIsList
    <3> HIDE DEF h, V
    <3> QED BY <3>1, <3>7 DEF k
  <2> HIDE DEF T
  <2>3. \A n \in 0..N : n \in T
    BY <1>1, <2>1, <2>2, Upwards
  <2> QED BY <2>3 DEF T
<1>9. h[1..N] \in V
  BY <1>1, <1>8
<1> QED BY <1>1, <1>9, FoldsAre

\* What the groups hold together, and that each of them fits.
AllFit(gs) == \A g \in DOMAIN gs : gs[g] # <<>> /\ FitsPart(gs[g])

LEMMA JoinedSplits ==
  ASSUME NEW gs \in Seq(Seq(Candidate)), NEW c \in Candidate
  PROVE  /\ Joined(gs, c) \in Seq(Seq(Candidate))
         /\ FlattenSeq(Joined(gs, c)) = Append(FlattenSeq(gs), c)
         /\ FitsPart(<<c>>) /\ AllFit(gs) => AllFit(Joined(gs, c))
<1>1. /\ Len(gs) \in Nat /\ DOMAIN gs = 1..Len(gs) /\ \A g \in 1..Len(gs) : gs[g] \in Seq(Candidate)
      /\ <<c>> \in Seq(Candidate)
  OBVIOUS
<1>2. CASE gs # <<>> /\ FitsPart(Append(Last(gs), c))
  <2> DEFINE new == [gs EXCEPT ![Len(gs)] = Append(@, c)]
  <2>1. Joined(gs, c) = new
    BY <1>2 DEF Joined
  <2>2. new \in Seq(Seq(Candidate)) /\ FlattenSeq(new) = Append(FlattenSeq(gs), c)
    BY <1>2, FlattenGrown
  <2>3. DOMAIN new = DOMAIN gs /\ \A g \in DOMAIN gs : new[g] = IF g = Len(gs) THEN Append(Last(gs), c) ELSE gs[g]
    BY DEF Last
  <2>4. Len(gs) \in DOMAIN gs
    BY <1>1, <1>2
  <2>5. Append(Last(gs), c) # <<>>
    <3>1. Last(gs) \in Seq(Candidate)
      BY <1>1, <2>4 DEF Last
    <3> QED BY <3>1, AppendProperties
  <2>6. AllFit(gs) => AllFit(new)
    <3> HIDE DEF new
    <3> QED BY <1>2, <2>3, <2>5 DEF AllFit
  <2> HIDE DEF new
  <2> QED BY <2>1, <2>2, <2>6
<1>3. CASE ~(gs # <<>> /\ FitsPart(Append(Last(gs), c)))
  <2> DEFINE new == Append(gs, <<c>>)
  <2>1. Joined(gs, c) = new
    BY <1>3 DEF Joined
  <2>2. /\ new \in Seq(Seq(Candidate)) /\ DOMAIN new = 1..(Len(gs) + 1) /\ new[Len(gs) + 1] = <<c>>
        /\ \A g \in 1..Len(gs) : new[g] = gs[g]
    BY <1>1, AppendProperties, LenProperties
  <2>3. FlattenSeq(new) = Append(FlattenSeq(gs), c)
    <3>1. FlattenSeq(new) = FlattenSeq(gs) \o <<c>>
      BY <1>1, FlattenAppend
    <3>2. FlattenSeq(gs) \in Seq(Candidate)
      BY FlattenIsSeq
    <3> QED BY <3>1, <3>2, AppendIsConcat
  <2>4. \A g \in 1..(Len(gs) + 1) : g = Len(gs) + 1 \/ g \in 1..Len(gs)
    BY <1>1
  <2>5. FitsPart(<<c>>) /\ AllFit(gs) => AllFit(new)
    <3>1. <<c>> # <<>>
      OBVIOUS
    <3> HIDE DEF new
    <3> QED BY <1>1, <2>2, <2>4, <3>1 DEF AllFit
  <2> HIDE DEF new
  <2> QED BY <2>1, <2>2, <2>3, <2>5
<1> QED BY <1>2, <1>3

\* Grouping loses nothing, keeps the order, and makes groups that fit.
LEMMA GroupedSplits ==
  ASSUME NEW list \in Seq(Candidate), \A n \in DOMAIN list : FitsPart(<<list[n]>>)
  PROVE  Grouped(list) \in Seq(Seq(Candidate)) /\ FlattenSeq(Grouped(list)) = list /\ AllFit(Grouped(list))
<1> DEFINE N == Len(list)
           V == Seq(Seq(Candidate))
           step == [p \in V \X (1..N) |-> Joined(p[1], list[p[2]])]
<1>1. N \in Nat /\ DOMAIN list = 1..N /\ \A n \in 1..N : list[n] \in Candidate
  OBVIOUS
<1>2. <<>> \in V
  OBVIOUS
<1>3. step \in [V \X (1..N) -> V]
  <2>1. ASSUME NEW p \in V \X (1..N) PROVE Joined(p[1], list[p[2]]) \in V
    <3>1. p[1] \in Seq(Seq(Candidate)) /\ list[p[2]] \in Candidate
      BY <1>1
    <3> QED BY <3>1, JoinedSplits
  <2> HIDE DEF V
  <2> QED BY <2>1
<1> HIDE DEF N
<1>4. PICK g : Runs(g, V, N, <<>>, step)
  <2>1. StepOn(step, V, N)
    BY <1>3 DEF StepOn
  <2> HIDE DEF V, step
  <2> QED BY <1>1, <1>2, <2>1, StepsExist
<1> DEFINE Nx(f, s) == IF s = {} THEN <<>> ELSE Joined(f[s \ {Max(s)}], list[Max(s)])
<1>5. g \in [SUBSET (1..N) -> V] /\ \A s \in SUBSET (1..N) : g[s] = Nx(g, s)
  <2>1. /\ g \in [SUBSET (1..N) -> V]
        /\ \A s \in SUBSET (1..N) : g[s] = IF s = {} THEN <<>> ELSE step[<<g[s \ {Max(s)}], Max(s)>>]
    <3> HIDE DEF V, step
    <3> QED BY <1>4 DEF Runs
  <2>2. ASSUME NEW s \in SUBSET (1..N), s # {} PROVE g[s] = Joined(g[s \ {Max(s)}], list[Max(s)])
    <3>1. Max(s) \in 1..N
      <4>1. s \subseteq 0..N
        BY <1>1
      <4>2. Max(s) \in s
        BY <1>1, <2>2, <4>1, Maximum
      <4> QED BY <4>2
    <3>2. g[s \ {Max(s)}] \in V
      <4> HIDE DEF V, step
      <4> QED BY <2>1
    <3>3. <<g[s \ {Max(s)}], Max(s)>> \in V \X (1..N)
      BY <3>1, <3>2
    <3>4. step[<<g[s \ {Max(s)}], Max(s)>>] = Joined(g[s \ {Max(s)}], list[Max(s)])
      <4> HIDE DEF V
      <4> QED BY <3>3
    <3> HIDE DEF step
    <3> QED BY <2>1, <2>2, <3>4
  <2>3. g[{}] = <<>>
    <3> HIDE DEF V, step
    <3> QED BY <2>1
  <2> HIDE DEF V, step
  <2> QED BY <2>1, <2>2, <2>3
<1> DEFINE h == Joining(list)
<1>6. g = [s \in SUBSET (1..N) |-> Nx(g, s)]
  <2> HIDE DEF Nx, V
  <2> QED BY <1>5
<1>7. h = [s \in SUBSET (1..N) |-> Nx(h, s)]
  BY <1>1, <1>6, Zenon DEF Joining
<1> DEFINE Good(n) == h[1..n] \in V /\ FlattenSeq(h[1..n]) = SubSeq(list, 1, n) /\ AllFit(h[1..n])
<1>8. \A n \in 0..N : Good(n)
  <2> DEFINE T == {n \in 0..N : Good(n)}
  <2>1. 0 \in T
    <3>1. (1..0) = {}
      OBVIOUS
    <3>2. h[{}] = <<>>
      <4> HIDE DEF h
      <4> QED BY <1>7
    <3>3. 0 \in 0..N
      BY <1>1
    <3>4. AllFit(<<>>)
      BY DEF AllFit
    <3>5. SubSeq(list, 1, 0) = <<>>
      BY <1>1, SubSeqEmpty
    <3> HIDE DEF h, V
    <3> QED BY <1>2, <3>1, <3>2, <3>3, <3>4, <3>5, FlattenNothing
  <2>2. ASSUME NEW n \in 0..(N - 1), n \in T PROVE n + 1 \in T
    <3> DEFINE k == n + 1
    <3>1. k \in 1..N /\ k \in Nat /\ k # 0 /\ k - 1 = n /\ k \in 0..N
      BY <1>1
    <3> HIDE DEF k
    <3>2. Max(1..k) = k /\ (1..k) \ {k} = 1..n
      BY <3>1, FirstIndices
    <3>3. 1..k \in SUBSET (1..N) /\ (1..k) # {}
      <4>1. 1 \in 1..k /\ \A i \in 1..k : i \in 1..N
        BY <1>1, <3>1
      <4> QED BY <4>1
    <3>4. h[1..k] = Nx(h, 1..k)
      <4> HIDE DEF h, Nx
      <4> QED BY <1>7, <3>3
    <3>5. h[1..k] = Joined(h[1..n], list[k])
      <4> HIDE DEF h
      <4> QED BY <3>2, <3>3, <3>4
    <3>6. h[1..n] \in Seq(Seq(Candidate)) /\ list[k] \in Candidate /\ FitsPart(<<list[k]>>)
      BY <1>1, <2>2, <3>1
    <3>7. FlattenSeq(h[1..n]) = SubSeq(list, 1, n) /\ AllFit(h[1..n])
      BY <2>2
    <3>8. SubSeq(list, 1, k) = Append(SubSeq(list, 1, n), list[k])
      <4>1. 1 \in 1..Len(list) /\ k \in 1..Len(list)
        BY <1>1, <3>1 DEF N
      <4>2. SubSeq(list, 1, k) = SubSeq(list, 1, k - 1) \o <<list[k]>>
        BY <4>1, SubSeqRecursiveSecond
      <4>3. \A i \in 1..n : list[i] \in Candidate
        BY <1>1, <3>1
      <4>4. n \in Int /\ SubSeq(list, 1, n) \in Seq(Candidate)
        BY <1>1, <4>3, SubSeqProperties
      <4> QED BY <3>1, <3>6, <4>2, <4>4, AppendIsConcat
    <3>9. Good(k)
      <4> HIDE DEF h
      <4> QED BY <3>5, <3>6, <3>7, <3>8, JoinedSplits
    <3> HIDE DEF Good
    <3> QED BY <3>1, <3>9 DEF k
  <2> HIDE DEF T
  <2>3. \A n \in 0..N : n \in T
    BY <1>1, <2>1, <2>2, Upwards
  <2> HIDE DEF Good
  <2> QED BY <2>3 DEF T
<1>9. Good(N)
  <2> HIDE DEF Good
  <2> QED BY <1>1, <1>8
<1>10. SubSeq(list, 1, N) = list
  BY SubSeqFull DEF N
<1> QED BY <1>1, <1>9, <1>10, FoldsAre

-----------------------------------------------------------------------------
(***************************************************************************)
(* The loop.                                                               *)
(***************************************************************************)
ConsolidationTypeOK ==
  /\ stand \in {"fit", "test", "ask", "last", "end"} /\ compact \in BOOLEAN
  /\ candidates \in Seq(Candidate) /\ merged \in Seq(Candidate) /\ groups \in Seq(Seq(Candidate))
  /\ sizeBefore \in Nat /\ levels \in Seq(Nat) /\ seen \in Seq(Nat)

\* Each level is smaller, and what does not fit yet is smaller than what the last level had.
Shrinks ==
  /\ \A n \in 1..(Len(seen) - 1) : seen[n + 1] < seen[n]
  /\ Len(seen) <= MaxLevels
  /\ stand # "end" => Len(levels) = Len(seen)
  /\ stand = "fit" => seen = <<>>
  /\ stand = "test" /\ ~Fits(candidates, compact) =>
       Len(seen) < MaxLevels /\ (seen # <<>> => PayloadSize(candidates, compact) < seen[Len(seen)])
  /\ stand = "ask" => seen # <<>> /\ sizeBefore = seen[Len(seen)]

\* Until the first group of a level is asked about, the groups are all the candidates.
GroupsAreAll ==
  stand = "ask" =>
    /\ levels # <<>> /\ Len(groups) <= levels[Len(levels)]
    /\ Len(groups) = levels[Len(levels)] => FlattenSeq(groups) = candidates /\ AllFit(groups)

\* What comes to the last request was made unique and fits.
LastOnes ==
  /\ stand \in {"test", "last"} => DistinctIds(candidates)
  /\ stand = "last" => Fits(candidates, compact)
  /\ stand # "end" => error = NoError
  /\ stand = "end" /\ error = NoError /\ Batched > 1 /\ candidates # <<>> => levels # <<>> /\ levels[Len(levels)] = 1

LoopInv == ConsolidationTypeOK /\ Shrinks /\ GroupsAreAll /\ LastOnes

LEMMA LoopStarts == ConsolidationInit => LoopInv
<1> SUFFICES ASSUME ConsolidationInit PROVE LoopInv
  OBVIOUS
<1>1. /\ candidates \in Drafts /\ compact = FALSE /\ stand = "fit" /\ groups = <<>> /\ merged = <<>>
      /\ sizeBefore = 0 /\ levels = <<>> /\ error = NoError /\ seen = <<>>
  BY DEF ConsolidationInit
<1>2. candidates \in Seq(Candidate)
  BY <1>1, ConsolidationAssumption
<1>3. ConsolidationTypeOK
  <2>1. <<>> \in Seq(Candidate) /\ <<>> \in Seq(Nat) /\ <<>> \in Seq(Seq(Candidate))
    BY EmptySeq
  <2>2. /\ stand \in {"fit", "test", "ask", "last", "end"} /\ compact \in BOOLEAN /\ sizeBefore \in Nat
        /\ merged \in Seq(Candidate) /\ groups \in Seq(Seq(Candidate)) /\ levels \in Seq(Nat) /\ seen \in Seq(Nat)
    BY <1>1, <2>1
  <2> QED BY <1>2, <2>2 DEF ConsolidationTypeOK
<1>4. Len(seen) = 0 /\ Len(levels) = 0 /\ MaxLevels \in Nat
  BY <1>1, ConsolidationAssumption
<1>5. Shrinks
  BY <1>1, <1>4 DEF Shrinks
<1>6. GroupsAreAll /\ LastOnes
  BY <1>1 DEF GroupsAreAll, LastOnes
<1> QED BY <1>3, <1>5, <1>6 DEF LoopInv

LEMMA BeginKeeps == LoopInv /\ Begin => LoopInv'
<1> SUFFICES ASSUME LoopInv, Begin PROVE LoopInv'
  OBVIOUS
<1>1. /\ stand = "fit" /\ levels = <<>> /\ seen = <<>> /\ UNCHANGED <<groups, merged, sizeBefore, levels, seen>>
      /\ error = NoError
  BY DEF Begin, LoopInv, LastOnes
<1>2. ConsolidationTypeOK
  BY DEF LoopInv
<1>3. Len(seen) = 0 /\ Len(levels) = 0 /\ MaxLevels \in Nat \ {0} /\ Batched \in Nat
  BY <1>1, ConsolidationAssumption
<1>4. CASE Batched <= 1 \/ candidates = <<>>
  <2>1. stand' = "end" /\ error' = NoError /\ UNCHANGED <<candidates, compact>>
    BY <1>4 DEF Begin, Stop
  <2>2. ConsolidationTypeOK'
    BY <1>1, <1>2, <2>1 DEF ConsolidationTypeOK
  <2>3. Shrinks'
    BY <1>1, <1>3, <2>1 DEF Shrinks
  <2>4. ~(Batched > 1 /\ candidates' # <<>>)
    BY <1>3, <1>4, <2>1
  <2>5. GroupsAreAll' /\ LastOnes'
    BY <2>1, <2>4 DEF GroupsAreAll, LastOnes
  <2> QED BY <2>2, <2>3, <2>5 DEF LoopInv
<1>5. CASE ~(Batched <= 1 \/ candidates = <<>>)
  <2>1. /\ candidates' = Unique(candidates) /\ compact' = ~Fits(Unique(candidates), FALSE)
        /\ stand' = "test" /\ error' = error
    BY <1>5 DEF Begin
  <2>2. candidates' \in Seq(Candidate) /\ DistinctIds(candidates')
    <3>1. candidates \in Seq(Candidate)
      BY <1>2 DEF ConsolidationTypeOK
    <3> QED BY <2>1, <3>1, UniqueIsUnique
  <2>3. ConsolidationTypeOK'
    BY <1>1, <1>2, <2>1, <2>2 DEF ConsolidationTypeOK
  <2>4. Shrinks'
    <3>1. stand' = "test" /\ seen' = <<>> /\ Len(seen') = 0 /\ Len(levels') = 0 /\ 0 < MaxLevels /\ MaxLevels \in Nat
      BY <1>1, <1>3, <2>1
    <3>2. \A n \in 1..(Len(seen') - 1) : seen'[n + 1] < seen'[n]
      BY <3>1
    <3> QED BY <3>1, <3>2 DEF Shrinks
  <2>5. DistinctIds(candidates)'
    BY <2>2 DEF DistinctIds
  <2>6. GroupsAreAll' /\ LastOnes'
    BY <1>1, <2>1, <2>5 DEF GroupsAreAll, LastOnes
  <2> QED BY <2>3, <2>4, <2>6 DEF LoopInv
<1> QED BY <1>4, <1>5

LEMMA TestKeeps == LoopInv /\ Test => LoopInv'
<1> SUFFICES ASSUME LoopInv, Test PROVE LoopInv'
  OBVIOUS
<1>1. /\ stand = "test" /\ merged' = <<>> /\ candidates' = candidates /\ compact' = compact
      /\ error = NoError /\ DistinctIds(candidates)
  BY DEF Test, LoopInv, LastOnes
<1>2. ConsolidationTypeOK /\ Shrinks
  BY DEF LoopInv
<1>3. /\ candidates \in Seq(Candidate) /\ compact \in BOOLEAN /\ levels \in Seq(Nat) /\ seen \in Seq(Nat)
      /\ groups \in Seq(Seq(Candidate)) /\ sizeBefore \in Nat /\ <<>> \in Seq(Candidate)
  BY <1>2, EmptySeq DEF ConsolidationTypeOK
<1>4. Len(seen) \in Nat /\ Len(levels) = Len(seen) /\ MaxLevels \in Nat
  BY <1>1, <1>2, <1>3, ConsolidationAssumption DEF Shrinks
<1>5. DistinctIds(candidates)'
  BY <1>1
<1>6. CASE Fits(candidates, compact)
  <2>1. stand' = "last" /\ UNCHANGED <<groups, sizeBefore, levels, error, seen>>
    BY <1>6 DEF Test
  <2>2. ConsolidationTypeOK'
    BY <1>1, <1>3, <2>1 DEF ConsolidationTypeOK
  <2>3. Shrinks'
    BY <1>2, <1>4, <2>1 DEF Shrinks
  <2>4. Fits(candidates, compact)'
    BY <1>1, <1>6
  <2>5. GroupsAreAll' /\ LastOnes'
    BY <1>1, <1>5, <2>1, <2>4 DEF GroupsAreAll, LastOnes
  <2> QED BY <2>2, <2>3, <2>5 DEF LoopInv
<1>7. CASE ~Fits(candidates, compact) /\ \E n \in DOMAIN candidates : ~FitsPart(<<candidates[n]>>)
  <2>1. stand' = "end" /\ error' = "envelope" /\ UNCHANGED <<groups, sizeBefore, levels, seen>>
    BY <1>7 DEF Test, Stop
  <2>2. ConsolidationTypeOK'
    BY <1>1, <1>3, <2>1 DEF ConsolidationTypeOK
  <2>3. Shrinks'
    BY <1>2, <1>4, <2>1 DEF Shrinks
  <2>4. error' # NoError
    BY <2>1, Zenon DEF NoError
  <2>5. GroupsAreAll' /\ LastOnes'
    BY <2>1, <2>4 DEF GroupsAreAll, LastOnes
  <2> QED BY <2>2, <2>3, <2>5 DEF LoopInv
<1>8. CASE ~Fits(candidates, compact) /\ ~\E n \in DOMAIN candidates : ~FitsPart(<<candidates[n]>>)
  <2> DEFINE size == PayloadSize(candidates, compact)
  <2>1. /\ groups' = Grouped(candidates) /\ levels' = Append(levels, Len(groups')) /\ sizeBefore' = size
        /\ seen' = Append(seen, size) /\ stand' = "ask" /\ error' = error
    BY <1>8 DEF Test
  <2>2. size \in Nat
    BY <1>3, SizesAreNumbers
  <2>3. Len(seen) < MaxLevels /\ (seen # <<>> => size < seen[Len(seen)])
    BY <1>1, <1>2, <1>8 DEF Shrinks
  <2> HIDE DEF size
  <2>4. groups' \in Seq(Seq(Candidate)) /\ FlattenSeq(groups') = candidates /\ AllFit(groups')
    BY <1>3, <1>8, <2>1, GroupedSplits
  <2>5. Len(groups') \in Nat
    BY <2>4
  <2>6. /\ levels' \in Seq(Nat) /\ Len(levels') = Len(levels) + 1 /\ levels' # <<>>
        /\ levels'[Len(levels')] = Len(groups')
    BY <1>3, <2>1, <2>5, AppendProperties
  <2>7. /\ seen' \in Seq(Nat) /\ Len(seen') = Len(seen) + 1 /\ seen' # <<>> /\ seen'[Len(seen')] = size
        /\ \A n \in 1..Len(seen) : seen'[n] = seen[n]
    <3>1. seen \in Seq(Nat) /\ size \in Nat /\ seen' = Append(seen, size)
      BY <1>3, <2>1, <2>2
    <3>2. seen' # <<>> /\ seen' \in Seq(Nat) /\ Len(seen') = Len(seen) + 1
      BY <3>1, AppendProperties
    <3>4. \A n \in 1..Len(seen) : Append(seen, size)[n] = seen[n]
      BY <3>1, AppendProperties
    <3>3. Append(seen, size)[Len(seen) + 1] = size
      BY <3>1, AppendProperties, Zenon
    <3> QED BY <3>1, <3>2, <3>3, <3>4
  <2>8. ConsolidationTypeOK'
    BY <1>1, <1>3, <2>1, <2>2, <2>4, <2>6, <2>7 DEF ConsolidationTypeOK
  <2>9. \A n \in 1..(Len(seen') - 1) : seen'[n + 1] < seen'[n]
    <3>1. SUFFICES ASSUME NEW n \in 1..(Len(seen') - 1) PROVE seen'[n + 1] < seen'[n]
      OBVIOUS
    <3>2. n \in 1..Len(seen) /\ seen'[n] = seen[n] /\ n \in Nat
      BY <1>4, <2>7
    <3>3. CASE n = Len(seen)
      <4>1. seen # <<>>
        BY <1>3, <3>2
      <4> QED BY <2>3, <2>7, <3>2, <3>3, <4>1
    <3>4. CASE n # Len(seen)
      <4>1. n \in 1..(Len(seen) - 1) /\ n + 1 \in 1..Len(seen)
        BY <1>4, <3>2, <3>4
      <4>2. seen[n + 1] < seen[n] /\ seen'[n + 1] = seen[n + 1]
        BY <1>2, <2>7, <4>1 DEF Shrinks
      <4> QED BY <3>2, <4>2
    <3> QED BY <3>3, <3>4
  <2>10. Shrinks'
    <3>1. Len(seen') <= MaxLevels /\ Len(levels') = Len(seen') /\ sizeBefore' = seen'[Len(seen')]
      BY <1>4, <2>1, <2>3, <2>6, <2>7
    <3> QED BY <2>1, <2>7, <2>9, <3>1 DEF Shrinks
  <2>11. AllFit(groups)'
    BY <1>1, <2>4 DEF AllFit, FitsPart
  <2>12. GroupsAreAll'
    BY <1>1, <2>4, <2>5, <2>6, <2>11 DEF GroupsAreAll
  <2>13. LastOnes'
    BY <1>1, <2>1 DEF LastOnes
  <2> QED BY <2>8, <2>10, <2>12, <2>13 DEF LoopInv
<1> QED BY <1>6, <1>7, <1>8

LEMMA AskKeeps == LoopInv /\ Ask => LoopInv'
<1> SUFFICES ASSUME LoopInv, Ask PROVE LoopInv'
  OBVIOUS
<1>1. /\ stand = "ask" /\ groups # <<>> /\ groups' = Tail(groups)
      /\ UNCHANGED <<stand, candidates, compact, sizeBefore, levels, error, seen>>
  BY DEF Ask
<1>2. ConsolidationTypeOK /\ Shrinks /\ GroupsAreAll /\ LastOnes
  BY DEF LoopInv
<1>3. PICK p \in Proposed(Head(groups)) : merged' = merged \o p
  BY DEF Ask
<1>4. groups \in Seq(Seq(Candidate)) /\ merged \in Seq(Candidate) /\ levels \in Seq(Nat)
  BY <1>2 DEF ConsolidationTypeOK
<1>5. merged' \in Seq(Candidate)
  <2>1. p \in Seq(Candidate)
    BY <1>3, ConsolidationAssumption DEF Proposed
  <2> QED BY <1>3, <1>4, <2>1, ConcatProperties
<1>6. groups' \in Seq(Seq(Candidate)) /\ Len(groups) \in Nat /\ Len(groups') = Len(groups) - 1
  BY <1>1, <1>4, HeadTailProperties
<1>7. ConsolidationTypeOK'
  BY <1>1, <1>2, <1>5, <1>6 DEF ConsolidationTypeOK
<1>8. Shrinks' /\ LastOnes'
  BY <1>1, <1>2 DEF Shrinks, LastOnes
<1>9. GroupsAreAll'
  <2>1. levels # <<>> /\ Len(groups) <= levels[Len(levels)]
    BY <1>1, <1>2 DEF GroupsAreAll
  <2>2. levels[Len(levels)] \in Nat
    BY <1>4, <2>1, ElementOfSeq, LenProperties, EmptySeq
  <2>3. Len(groups') < levels[Len(levels)]
    BY <1>6, <2>1, <2>2
  <2>4. Len(groups') <= levels[Len(levels)] /\ Len(groups') # levels[Len(levels)]
    BY <1>6, <2>2, <2>3
  <2> QED BY <1>1, <2>1, <2>4 DEF GroupsAreAll
<1> QED BY <1>7, <1>8, <1>9 DEF LoopInv

LEMMA LevelKeeps == LoopInv /\ Level => LoopInv'
<1> SUFFICES ASSUME LoopInv, Level PROVE LoopInv'
  OBVIOUS
<1>1. /\ stand = "ask" /\ candidates' = Unique(merged)
      /\ UNCHANGED <<compact, groups, merged, sizeBefore, levels, seen>>
  BY DEF Level
<1>2. ConsolidationTypeOK /\ Shrinks /\ GroupsAreAll /\ LastOnes
  BY DEF LoopInv
<1>3. merged \in Seq(Candidate) /\ compact \in BOOLEAN /\ levels \in Seq(Nat) /\ seen \in Seq(Nat) /\ sizeBefore \in Nat
  BY <1>2 DEF ConsolidationTypeOK
<1>4. candidates' \in Seq(Candidate) /\ DistinctIds(candidates')
  BY <1>1, <1>3, UniqueIsUnique
<1>5. /\ seen # <<>> /\ sizeBefore = seen[Len(seen)] /\ Len(levels) = Len(seen) /\ error = NoError
      /\ Len(seen) \in Nat /\ MaxLevels \in Nat
  BY <1>1, <1>2, <1>3, ConsolidationAssumption DEF Shrinks, LastOnes
<1>6. PayloadSize(candidates', compact) \in Nat
  BY <1>3, <1>4, SizesAreNumbers
<1>7. CASE candidates' = <<>>
  <2>1. stand' = "end"
    BY <1>7 DEF Level, Stop
  <2>2. ConsolidationTypeOK'
    BY <1>1, <1>2, <1>4, <2>1 DEF ConsolidationTypeOK
  <2>3. Shrinks' /\ GroupsAreAll' /\ LastOnes'
    BY <1>1, <1>2, <1>7, <2>1 DEF Shrinks, GroupsAreAll, LastOnes
  <2> QED BY <2>2, <2>3 DEF LoopInv
<1>8. CASE /\ candidates' # <<>> /\ ~Fits(candidates', compact)
           /\ PayloadSize(candidates', compact) >= sizeBefore \/ Len(levels) >= MaxLevels
  <2>1. stand' = "end" /\ error' \in {"no progress", "levels"}
    BY <1>8 DEF Level, Stop
  <2>2. error' # NoError
    BY <2>1, Zenon DEF NoError
  <2>3. ConsolidationTypeOK'
    BY <1>1, <1>2, <1>4, <2>1 DEF ConsolidationTypeOK
  <2>4. Shrinks' /\ GroupsAreAll' /\ LastOnes'
    BY <1>1, <1>2, <2>1, <2>2 DEF Shrinks, GroupsAreAll, LastOnes
  <2> QED BY <2>3, <2>4 DEF LoopInv
<1>9. CASE /\ candidates' # <<>>
           /\ ~(~Fits(candidates', compact)
                  /\ (PayloadSize(candidates', compact) >= sizeBefore \/ Len(levels) >= MaxLevels))
  <2>1. stand' = "test" /\ error' = error
    BY <1>9 DEF Level
  <2>2. ConsolidationTypeOK'
    BY <1>1, <1>2, <1>4, <2>1 DEF ConsolidationTypeOK
  <2>3. ~Fits(candidates', compact) => PayloadSize(candidates', compact) < seen[Len(seen)] /\ Len(seen) < MaxLevels
    BY <1>3, <1>5, <1>6, <1>9
  <2>4. Shrinks'
    BY <1>1, <1>2, <2>1, <2>3 DEF Shrinks
  <2>5. DistinctIds(candidates)'
    BY <1>4
  <2>6. GroupsAreAll' /\ LastOnes'
    BY <1>5, <2>1, <2>5 DEF GroupsAreAll, LastOnes
  <2> QED BY <2>2, <2>4, <2>6 DEF LoopInv
<1> QED BY <1>7, <1>8, <1>9

LEMMA FinalKeeps == LoopInv /\ Final => LoopInv'
<1> SUFFICES ASSUME LoopInv, Final PROVE LoopInv'
  OBVIOUS
<1>1. /\ stand = "last" /\ stand' = "end" /\ levels' = Append(levels, 1)
      /\ UNCHANGED <<compact, groups, merged, sizeBefore, seen>>
  BY DEF Final, Stop
<1>2. ConsolidationTypeOK /\ Shrinks
  BY DEF LoopInv
<1>3. PICK p \in Proposed(candidates) : candidates' = p
  BY DEF Final
<1>4. candidates' \in Seq(Candidate)
  BY <1>3, ConsolidationAssumption DEF Proposed
<1>5. levels' \in Seq(Nat) /\ levels' # <<>> /\ levels'[Len(levels')] = 1
  <2>1. levels \in Seq(Nat) /\ 1 \in Nat
    BY <1>2 DEF ConsolidationTypeOK
  <2> QED BY <1>1, <2>1, AppendProperties
<1>6. ConsolidationTypeOK'
  BY <1>1, <1>2, <1>4, <1>5 DEF ConsolidationTypeOK
<1>7. Shrinks' /\ GroupsAreAll' /\ LastOnes'
  BY <1>1, <1>2, <1>5 DEF Shrinks, GroupsAreAll, LastOnes
<1> QED BY <1>6, <1>7 DEF LoopInv

LEMMA LoopGoesOn == LoopInv /\ [ConsolidationNext]_cvars => LoopInv'
<1> SUFFICES ASSUME LoopInv, [ConsolidationNext]_cvars PROVE LoopInv'
  OBVIOUS
<1>1. CASE UNCHANGED cvars
  <2>1. UNCHANGED <<stand, candidates, compact, groups, merged, sizeBefore, levels, error, seen>>
    BY <1>1 DEF cvars
  <2>2. ConsolidationTypeOK' /\ Shrinks' /\ GroupsAreAll' /\ LastOnes'
    BY <2>1 DEF LoopInv, ConsolidationTypeOK, Shrinks, GroupsAreAll, LastOnes, AllFit, FitsPart
  <2> QED BY <2>2 DEF LoopInv
<1> QED BY <1>1, BeginKeeps, TestKeeps, AskKeeps, LevelKeeps, FinalKeeps DEF ConsolidationNext

LEMMA LoopHolds == ConsolidationSpec => []LoopInv
<1> QED BY LoopStarts, LoopGoesOn, PTL DEF ConsolidationSpec

LEMMA LoopSuffices == LoopInv => ConsolidationEnds
<1> SUFFICES ASSUME LoopInv PROVE ConsolidationEnds
  OBVIOUS
<1>1. ConsolidationTypeOK /\ Shrinks /\ GroupsAreAll /\ LastOnes
  BY DEF LoopInv
<1>2. stand = "ask" /\ Len(groups) = Last(levels) =>
        FlattenSeq(groups) = candidates /\ \A g \in DOMAIN groups : groups[g] # <<>> /\ FitsPart(groups[g])
  BY <1>1 DEF GroupsAreAll, AllFit, Last
<1>3. stand = "last" => IsInjective([n \in DOMAIN candidates |-> candidates[n].id])
  BY <1>1 DEF LastOnes, DistinctIds, IsInjective
<1>4. stand = "last" => Fits(candidates, compact)
  BY <1>1 DEF LastOnes
<1>5. stand = "end" /\ error = NoError /\ Batched > 1 /\ candidates # <<>> => Last(levels) = 1
  BY <1>1 DEF LastOnes, Last
<1>6. (\A n \in 1..(Len(seen) - 1) : seen[n + 1] < seen[n]) /\ Len(seen) <= MaxLevels
  BY <1>1 DEF Shrinks
<1> QED BY <1>2, <1>3, <1>4, <1>5, <1>6 DEF ConsolidationEnds

\* Consolidation keeps its variables' types: what providers propose stays a list of drafts, sizes
\* stay numbers (memory/pipeline.py:186-272).
THEOREM ConsolidationTypes == ConsolidationSpec => []ConsolidationTypeOK
<1>1. LoopInv => ConsolidationTypeOK
  BY DEF LoopInv
<1> QED BY <1>1, LoopHolds, PTL

\* Whatever is proposed, every level is smaller than the one before and there are at most
\* MaxLevels; groups lose nothing; the last request holds what is left (memory/pipeline.py:186-272).
THEOREM ConsolidationComesToAnEnd == ConsolidationSpec => []ConsolidationEnds
<1> QED BY LoopHolds, LoopSuffices, PTL

-----------------------------------------------------------------------------
(***************************************************************************)
(* The label store.  What a row of it is, what stands at a command, and    *)
(* what a report says.                                                     *)
(***************************************************************************)
Things == UNION {Range(Objects[root][Scopes[s]]) : root \in DOMAIN Objects, s \in DOMAIN Scopes}
Features == UNION {Range(Bank[Scopes[s]]) : s \in DOMAIN Scopes}
Row == [item : Things, root : DOMAIN Objects, feature : {f.id : f \in Features}, crit : {f.crit : f \in Features},
        hand : Hands, split : Splits, answer : Answers \cup {None}, sure : Sures \cup {None}]
Line == Row \cup {Bad}
Ends == {<<>>} \cup {<<x>> : x \in Line}
Commanded == [at : {"idle", "append", "write", "emit", "mark"}, batch : Seq(Row), cut : {"line", "in", "nl"}, held : BOOLEAN]
Command == {c \in Commanded : c.at \in {"append", "write"} => c.batch # <<>>}

FileTypeOK == made \in BOOLEAN /\ lines \in Seq(Line) /\ end \in Ends /\ half \in Commands \cup {NoOne}
LabelTypeOK ==
  /\ FileTypeOK /\ burned \in BOOLEAN /\ overlap \in BOOLEAN /\ killed \in Nat
  /\ IsSequence(reports) /\ cmd \in [Commands -> Command]

\* no two commands at once
OneAtATime == ~overlap => \A p, q \in Commands : cmd[p].at # "idle" /\ cmd[q].at # "idle" => p = q

\* what holds of the rows of a file that can be read, and of the others
OneSplit(rows) ==
  \A m, n \in DOMAIN rows : rows[m] # Bad /\ rows[n] # Bad /\ rows[m].root = rows[n].root => rows[m].split = rows[n].split
OneLabel(rows) ==
  \A m, n \in DOMAIN rows : rows[m] # Bad /\ rows[n] # Bad /\ RecordKey(rows[m]) = RecordKey(rows[n]) => m = n
Consistent(rows) == OneSplit(rows) /\ OneLabel(rows)
Whole(rows) == \A n \in DOMAIN rows : rows[n] # Bad
OneSpoiled(rows) == \A m, n \in DOMAIN rows : rows[m] = Bad /\ rows[n] = Bad => m = n
Stored == ~overlap => Consistent(Rows) /\ OneSpoiled(lines)
Unspoiled == ~overlap /\ killed = 0 => Whole(lines) /\ (end # <<>> => \E p \in Commands : cmd[p].at = "write")

\* a batch goes with what is stored: its rows are new and of one split; once that was looked up
\* again, it is the split that is pinned
GoesWith(rows, store) ==
  /\ rows \in Seq(Row) /\ OneLabel(rows)
  /\ \A n \in DOMAIN rows : \A m \in DOMAIN store : store[m] # Bad => RecordKey(rows[n]) # RecordKey(store[m])
  /\ \A m, n \in DOMAIN rows : rows[m].split = rows[n].split
Pinned(rows, store) ==
  \A n \in DOMAIN rows : \A m \in DOMAIN store : store[m] # Bad /\ rows[n].root = store[m].root => rows[n].split = store[m].split

\* what a command has still to write; that it comes behind a line without its end is what a kill
\* left to it, and happens to the first row only; the batch goes with the file
Unwritten(c) == IF c.cut = "nl" THEN Tail(c.batch) ELSE c.batch
Glues == killed # 0 /\ Whole(lines)
AtItsPlace(p) ==
  /\ cmd[p].cut = "line" => end = <<>> \/ (Glues /\ \E row \in Row : end = <<row>>)
  /\ cmd[p].cut = "in" => end = <<Bad>> /\ (half = p \/ Glues)
  /\ cmd[p].cut = "nl" => end = <<Head(cmd[p].batch)>> \/ (Glues /\ end = <<Bad>>)
Stands(p) ==
  /\ cmd[p].at = "append" => cmd[p].cut = "line" /\ GoesWith(cmd[p].batch, Rows)
  /\ cmd[p].at = "write" => AtItsPlace(p) /\ GoesWith(Unwritten(cmd[p]), Rows) /\ Pinned(Unwritten(cmd[p]), Rows)
AllStand == ~overlap => \A p \in Commands : Stands(p)

\* who looked at what is held out
HeldReports == {n \in DOMAIN reports : reports[n].held}
LookedAt ==
  /\ burned => HeldReports # {}
  /\ \A p \in Commands : cmd[p].at = "mark" => HeldReports # {}
LookedOnce ==
  ~overlap /\ killed = 0 =>
    /\ \A m, n \in HeldReports : m = n
    /\ HeldReports # {} => burned \/ \E p \in Commands : cmd[p].at = "mark"
    /\ \A p \in Commands : cmd[p].at = "emit" /\ cmd[p].held => ~burned
Sound(r) ==
  /\ r.agreed <= r.compared /\ 2 * r.compared <= r.n
  /\ r.confident + r.uncertain <= r.compared /\ r.confidentAgreed <= r.agreed
ReportsAreSound == \A n \in DOMAIN reports : \A f \in DOMAIN reports[n].report : Sound(reports[n].report[f])

StoreInv ==
  /\ LabelTypeOK /\ OneAtATime /\ Stored /\ Unspoiled /\ AllStand
  /\ LookedAt /\ LookedOnce /\ ReportsAreSound

LEMMA BadIsNoRow == Bad \notin Row
<1> SUFFICES ASSUME Bad \in Row PROVE FALSE
  OBVIOUS
<1>1. DOMAIN Bad = {"bad"}
  BY DEF Bad
<1>2. "item" \in DOMAIN Bad
  BY DEF Row
<1> QED BY <1>1, <1>2

-----------------------------------------------------------------------------
(***************************************************************************)
(* The rows that `label` drafts are rows of one split.                     *)
(***************************************************************************)
RowOf(split) == {r \in Row : r.split = split}

LEMMA CollectedRows ==
  ASSUME NEW root \in DOMAIN Objects, NEW hand \in Hands, NEW split \in Splits
  PROVE  CollectDrafts(root, hand, split) \in Seq(RowOf(split))
<1> DEFINE R == RowOf(split)
           row(s, o, f) == PendingRecord(root, Objects[root][Scopes[s]][o], Bank[Scopes[s]][f], hand, split)
           drawn(s, o) == [f \in DOMAIN Bank[Scopes[s]] |-> row(s, o, f)]
           objects(s) == [o \in DOMAIN Objects[root][Scopes[s]] |-> drawn(s, o)]
           all == [s \in DOMAIN Scopes |-> FlattenSeq(objects(s))]
<1>1. DOMAIN Scopes = 1..3
  BY DEF Scopes
<1>2. ASSUME NEW s \in DOMAIN Scopes PROVE FlattenSeq(objects(s)) \in Seq(R)
  <2> DEFINE things == Objects[root][Scopes[s]]
             feats == Bank[Scopes[s]]
  <2>1. IsSequence(things) /\ IsSequence(feats)
    BY <1>2, LabelAssumption
  <2>2. DOMAIN things = 1..Len(things) /\ Len(things) \in Nat /\ DOMAIN feats = 1..Len(feats) /\ Len(feats) \in Nat
    <3> HIDE DEF things, feats
    <3> QED BY <2>1 DEF IsSequence
  <2>3. ASSUME NEW o \in DOMAIN things, NEW f \in DOMAIN feats PROVE row(s, o, f) \in R
    <3>1. things[o] \in Things
      <4>1. things[o] \in Range(things)
        BY <2>3 DEF Range
      <4>2. Range(things) \in {Range(Objects[x][Scopes[t]]) : x \in DOMAIN Objects, t \in DOMAIN Scopes}
        BY <1>2
      <4> HIDE DEF things
      <4> QED BY <4>1, <4>2 DEF Things
    <3>2. feats[f] \in Features
      BY <1>2, <2>3 DEF Features, Range
    <3> HIDE DEF things, feats
    <3>3. PendingRecord(root, things[o], feats[f], hand, split) \in R
      BY <3>1, <3>2 DEF PendingRecord, RowOf, Row
    <3> QED BY <3>3 DEF things, feats
  <2>4. ASSUME NEW o \in DOMAIN things PROVE drawn(s, o) \in Seq(R)
    <3>1. drawn(s, o) \in [1..Len(feats) -> R]
      <4> HIDE DEF R, row
      <4> QED BY <2>2, <2>3
    <3> HIDE DEF R, drawn, feats
    <3> QED BY <2>2, <3>1, SeqDef
  <2>5. objects(s) \in Seq(Seq(R))
    <3>1. objects(s) \in [1..Len(things) -> Seq(R)]
      <4> HIDE DEF R, drawn
      <4> QED BY <2>2, <2>4
    <3> HIDE DEF R, objects, things
    <3> QED BY <2>2, <3>1, SeqDef
  <2> HIDE DEF R, objects
  <2> QED BY <2>5, FlattenIsSeq
<1>3. all \in Seq(Seq(R))
  <2> DEFINE k == 3
  <2>1. all \in [1..k -> Seq(R)]
    <3> HIDE DEF R, objects
    <3> QED BY <1>1, <1>2
  <2>2. k \in Nat
    OBVIOUS
  <2> HIDE DEF R, all, k
  <2> QED BY <2>1, <2>2, SeqDef
<1>4. FlattenSeq(all) \in Seq(R)
  <2> HIDE DEF R, all
  <2> QED BY <1>3, FlattenIsSeq
<1> QED BY <1>4, Zenon DEF CollectDrafts

LEMMA DraftsAreRows ==
  ASSUME NEW roots \in Paths, NEW hand \in Hands, NEW split \in Splits
  PROVE  DraftsOf(roots, hand, split) \in Seq(RowOf(split))
<1> DEFINE R == RowOf(split)
           all == [n \in DOMAIN roots |-> CollectDrafts(roots[n], hand, split)]
<1>1. roots \in Seq(DOMAIN Objects)
  BY LabelAssumption
<1>2. DOMAIN roots = 1..Len(roots) /\ Len(roots) \in Nat /\ \A n \in 1..Len(roots) : roots[n] \in DOMAIN Objects
  BY <1>1
<1>3. \A n \in 1..Len(roots) : CollectDrafts(roots[n], hand, split) \in Seq(R)
  BY <1>2, CollectedRows
<1>4. all \in [1..Len(roots) -> Seq(R)]
  <2> HIDE DEF R
  <2> QED BY <1>2, <1>3
<1>5. all \in Seq(Seq(R))
  <2> HIDE DEF R, all
  <2> QED BY <1>2, <1>4, SeqDef
<1>6. FlattenSeq(all) \in Seq(R)
  <2> HIDE DEF R, all
  <2> QED BY <1>5, FlattenIsSeq
<1> QED BY <1>6 DEF DraftsOf

LEMMA AnswersAreRows ==
  ASSUME NEW split \in Splits, NEW row \in RowOf(split), NEW answer \in Answers, NEW sure \in Sures
  PROVE  Answered(row, answer, sure) \in RowOf(split)
BY DEF Answered, RowOf, Row

-----------------------------------------------------------------------------
(***************************************************************************)
(* The batch of `label` goes with the store it was made for.               *)
(***************************************************************************)
\* the function behind BatchOf
Enlisting(list) ==
  CHOOSE f : f = [s \in SUBSET DOMAIN list |-> IF s = {} THEN <<>> ELSE Enlisted(f[s \ {Max(s)}], list[Max(s)])]

\* a batch of rows of one split
GoesAs(rows, split, store) == rows \in Seq(RowOf(split)) /\ GoesWith(rows, store)

LEMMA EnlistedGoes ==
  ASSUME NEW split \in Splits, NEW rows, GoesAs(rows, split, Rows), NEW row \in RowOf(split)
  PROVE  GoesAs(Enlisted(rows, row), split, Rows)
<1>1. /\ rows \in Seq(RowOf(split)) /\ rows \in Seq(Row) /\ DOMAIN rows = 1..Len(rows) /\ Len(rows) \in Nat
      /\ \A n \in DOMAIN rows : rows[n].split = split
  <2>1. rows \in Seq(RowOf(split)) /\ rows \in Seq(Row)
    BY DEF GoesAs, GoesWith
  <2>2. DOMAIN rows = 1..Len(rows) /\ Len(rows) \in Nat /\ \A n \in 1..Len(rows) : rows[n] \in RowOf(split)
    BY <2>1
  <2> QED BY <2>1, <2>2 DEF RowOf
<1>2. row \in Row /\ row.split = split
  BY DEF RowOf
<1>3. CASE RecordKey(row) \in LabelledKeys(Rows) \cup LabelledKeys(rows)
  BY <1>3 DEF Enlisted
<1>4. CASE RecordKey(row) \notin LabelledKeys(Rows) \cup LabelledKeys(rows)
  <2> DEFINE new == Append(rows, row)
             k == Len(rows) + 1
  <2>1. Enlisted(rows, row) = new
    BY <1>4 DEF Enlisted
  <2>2. new \in Seq(RowOf(split))
    BY <1>1, AppendProperties
  <2>3. /\ new \in Seq(Row) /\ Len(new) = k /\ new[k] = row /\ \A n \in 1..Len(rows) : new[n] = rows[n]
    BY <1>1, <1>2, AppendProperties
  <2>4. DOMAIN new = 1..k
    BY <2>3, LenProperties
  <2>5. \A n \in 1..k : n = k \/ n \in 1..Len(rows)
    BY <1>1
  <2> HIDE DEF new, k
  <2>6. \A n \in DOMAIN new : \/ n = k /\ new[n] = row
                              \/ n \in DOMAIN rows /\ new[n] = rows[n]
    BY <1>1, <2>3, <2>4, <2>5
  <2>7. \A n \in DOMAIN rows : RecordKey(rows[n]) # RecordKey(row)
    BY <1>4 DEF LabelledKeys
  <2>8. \A m \in DOMAIN Rows : RecordKey(row) # RecordKey(Rows[m])
    BY <1>4 DEF LabelledKeys
  <2>9. OneLabel(new)
    <3>1. SUFFICES ASSUME NEW m \in DOMAIN new, NEW n \in DOMAIN new, new[m] # Bad, new[n] # Bad,
                          RecordKey(new[m]) = RecordKey(new[n])
                   PROVE  m = n
      BY DEF OneLabel
    <3> QED BY <2>6, <2>7, <3>1 DEF GoesAs, GoesWith, OneLabel
  <2>10. \A n \in DOMAIN new : \A m \in DOMAIN Rows : Rows[m] # Bad => RecordKey(new[n]) # RecordKey(Rows[m])
    BY <2>6, <2>8 DEF GoesAs, GoesWith
  <2>11. \A n \in DOMAIN new : new[n].split = split
    BY <1>1, <1>2, <2>6
  <2> QED BY <2>1, <2>2, <2>3, <2>9, <2>10, <2>11 DEF GoesAs, GoesWith
<1> QED BY <1>3, <1>4

LEMMA EnlistingGoes ==
  ASSUME NEW split \in Splits, NEW list \in Seq(RowOf(split))
  PROVE  GoesAs(FoldLeft(Enlisted, <<>>, list), split, Rows)
<1> DEFINE N == Len(list)
           R == RowOf(split)
           V == {l \in Seq(R) : GoesAs(l, split, Rows)}
           step == [p \in V \X (1..N) |-> Enlisted(p[1], list[p[2]])]
<1>1. N \in Nat /\ DOMAIN list = 1..N /\ \A n \in 1..N : list[n] \in R
  OBVIOUS
<1>2. <<>> \in V
  <2>1. <<>> \in Seq(R) /\ <<>> \in Seq(Row) /\ DOMAIN <<>> = {}
    BY EmptySeq
  <2>2. GoesWith(<<>>, Rows)
    BY <2>1 DEF GoesWith, OneLabel
  <2>3. GoesAs(<<>>, split, Rows)
    BY <2>1, <2>2 DEF GoesAs
  <2> HIDE DEF R
  <2> QED BY <2>1, <2>3
<1>3. step \in [V \X (1..N) -> V]
  <2>1. ASSUME NEW p \in V \X (1..N) PROVE Enlisted(p[1], list[p[2]]) \in V
    <3>1. GoesAs(p[1], split, Rows) /\ list[p[2]] \in R
      BY <1>1
    <3>2. GoesAs(Enlisted(p[1], list[p[2]]), split, Rows)
      BY <3>1, EnlistedGoes
    <3>3. Enlisted(p[1], list[p[2]]) \in Seq(R)
      BY <3>2 DEF GoesAs
    <3> QED BY <3>2, <3>3
  <2> HIDE DEF V
  <2> QED BY <2>1
<1> HIDE DEF N
<1>4. PICK g : Runs(g, V, N, <<>>, step)
  <2>1. StepOn(step, V, N)
    BY <1>3 DEF StepOn
  <2> HIDE DEF V, step
  <2> QED BY <1>1, <1>2, <2>1, StepsExist
<1> DEFINE Nx(f, s) == IF s = {} THEN <<>> ELSE Enlisted(f[s \ {Max(s)}], list[Max(s)])
<1>5. ASSUME NEW s \in SUBSET (1..N) PROVE g[s] = Nx(g, s)
  <2>0. g \in [SUBSET (1..N) -> V] /\ g[s] = IF s = {} THEN <<>> ELSE step[<<g[s \ {Max(s)}], Max(s)>>]
    <3> HIDE DEF V, step
    <3> QED BY <1>4 DEF Runs
  <2>1. CASE s = {}
    BY <2>0, <2>1
  <2>2. CASE s # {}
    <3>1. Max(s) \in 1..N
      <4>1. s \subseteq 0..N
        BY <1>1
      <4>2. Max(s) \in s
        BY <1>1, <2>2, <4>1, Maximum
      <4> QED BY <4>2
    <3>2. g[s \ {Max(s)}] \in V
      <4> HIDE DEF V, step
      <4> QED BY <2>0
    <3>3. <<g[s \ {Max(s)}], Max(s)>> \in V \X (1..N)
      BY <3>1, <3>2
    <3>4. step[<<g[s \ {Max(s)}], Max(s)>>] = Enlisted(g[s \ {Max(s)}], list[Max(s)])
      <4> HIDE DEF V
      <4> QED BY <3>3
    <3> HIDE DEF step
    <3> QED BY <2>0, <2>2, <3>4
  <2> QED BY <2>1, <2>2
<1> DEFINE h == Enlisting(list)
<1>6. g = [s \in SUBSET (1..N) |-> Nx(g, s)]
  <2>1. g \in [SUBSET (1..N) -> V]
    <3> HIDE DEF V, step
    <3> QED BY <1>4 DEF Runs
  <2> HIDE DEF Nx, V
  <2> QED BY <1>5, <2>1
<1>7. h = [s \in SUBSET (1..N) |-> Nx(h, s)]
  BY <1>1, <1>6, Zenon DEF Enlisting
<1>8. \A n \in 0..N : h[1..n] \in V
  <2> DEFINE T == {n \in 0..N : h[1..n] \in V}
  <2>1. 0 \in T
    <3>1. (1..0) = {}
      OBVIOUS
    <3>2. h[{}] = <<>>
      <4> HIDE DEF h
      <4> QED BY <1>7
    <3>3. 0 \in 0..N
      BY <1>1
    <3> HIDE DEF h, V
    <3> QED BY <1>2, <3>1, <3>2, <3>3
  <2>2. ASSUME NEW n \in 0..(N - 1), n \in T PROVE n + 1 \in T
    <3> DEFINE k == n + 1
    <3>1. k \in 1..N /\ k \in Nat /\ k # 0 /\ k - 1 = n /\ k \in 0..N
      BY <1>1
    <3> HIDE DEF k
    <3>2. Max(1..k) = k /\ (1..k) \ {k} = 1..n
      BY <3>1, FirstIndices
    <3>3. 1..k \in SUBSET (1..N) /\ (1..k) # {}
      <4>1. 1 \in 1..k /\ \A i \in 1..k : i \in 1..N
        BY <1>1, <3>1
      <4> QED BY <4>1
    <3>4. h[1..k] = Nx(h, 1..k)
      <4> HIDE DEF h, Nx
      <4> QED BY <1>7, <3>3
    <3>5. h[1..k] = Enlisted(h[1..n], list[k])
      <4> HIDE DEF h
      <4> QED BY <3>2, <3>3, <3>4
    <3>6. GoesAs(h[1..n], split, Rows) /\ list[k] \in R
      BY <1>1, <2>2, <3>1
    <3>7. GoesAs(h[1..k], split, Rows)
      <4> HIDE DEF h
      <4> QED BY <3>5, <3>6, EnlistedGoes
    <3>8. h[1..k] \in V
      <4> HIDE DEF h
      <4> QED BY <3>7 DEF GoesAs
    <3> HIDE DEF h, V
    <3> QED BY <3>1, <3>8 DEF k
  <2> HIDE DEF T
  <2>3. \A n \in 0..N : n \in T
    BY <1>1, <2>1, <2>2, Upwards
  <2> QED BY <2>3 DEF T
<1>9. h[1..N] \in V
  BY <1>1, <1>8
<1>10. FoldLeft(Enlisted, <<>>, list) = h[DOMAIN list]
  BY Zenon DEF FoldLeft, MapThenFoldSet, Enlisting
<1> QED BY <1>1, <1>9, <1>10

LEMMA BatchGoes ==
  ASSUME NEW roots \in Paths, NEW hand \in Hands, NEW split \in Splits, NEW answer \in Answers, NEW sure \in Sures
  PROVE  GoesWith(BatchOf(roots, hand, split, answer, sure), Rows)
<1> DEFINE R == RowOf(split)
           drafts == DraftsOf(roots, hand, split)
           list == [k \in DOMAIN drafts |-> Answered(drafts[k], answer, sure)]
<1>1. drafts \in Seq(R)
  BY DraftsAreRows
<1>2. list \in Seq(R)
  <2> HIDE DEF drafts
  <2>1. DOMAIN drafts = 1..Len(drafts) /\ Len(drafts) \in Nat /\ \A k \in 1..Len(drafts) : drafts[k] \in R
    BY <1>1
  <2>2. \A k \in 1..Len(drafts) : Answered(drafts[k], answer, sure) \in R
    BY <2>1, AnswersAreRows
  <2>3. list \in [1..Len(drafts) -> R]
    <3> HIDE DEF R
    <3> QED BY <2>1, <2>2
  <2> HIDE DEF R, list
  <2> QED BY <2>1, <2>3, SeqDef
<1>3. GoesAs(FoldLeft(Enlisted, <<>>, list), split, Rows)
  <2> HIDE DEF list
  <2> QED BY <1>2, EnlistingGoes
<1>4. BatchOf(roots, hand, split, answer, sure) = FoldLeft(Enlisted, <<>>, list)
  BY Zenon DEF BatchOf
<1> QED BY <1>3, <1>4 DEF GoesAs

-----------------------------------------------------------------------------
(***************************************************************************)
(* A report is sound: a group that is compared holds two rows of its own.  *)
(***************************************************************************)
\* L and R give every member of S a member of D of its own each
OwnPairs(L, R, S, D) ==
  /\ L \in [S -> D] /\ R \in [S -> D]
  /\ \A a, b \in S : (L[a] = L[b] => a = b) /\ (R[a] = R[b] => a = b) /\ L[a] # R[b]

LEMMA TwoForEach ==
  ASSUME NEW S, NEW D, IsFiniteSet(D), NEW L, NEW R, OwnPairs(L, R, S, D)
  PROVE  IsFiniteSet(S) /\ 2 * Cardinality(S) <= Cardinality(D)
<1> DEFINE A == Range(L)
           B == Range(R)
<1>1. IsFiniteSet(S)
  <2>1. L \in Injection(S, D)
    BY DEF OwnPairs, Injection, IsInjective
  <2> QED BY <2>1, FS_Injection
<1>2. ExistsBijection(S, A) /\ ExistsBijection(S, B)
  <2>1. L \in Bijection(S, A)
    BY DEF OwnPairs, Bijection, Injection, Surjection, IsInjective, Range
  <2>2. R \in Bijection(S, B)
    BY DEF OwnPairs, Bijection, Injection, Surjection, IsInjective, Range
  <2> QED BY <2>1, <2>2 DEF ExistsBijection
<1>3. A \cup B \in SUBSET D /\ A \cap B = {}
  BY DEF OwnPairs, Range
<1> HIDE DEF A, B
<1>4. IsFiniteSet(A) /\ IsFiniteSet(B) /\ Cardinality(A) = Cardinality(S) /\ Cardinality(B) = Cardinality(S)
  BY <1>1, <1>2, FS_Bijection
<1>5. Cardinality(A \cup B) = Cardinality(A) + Cardinality(B) - Cardinality({})
  BY <1>3, <1>4, FS_Union
<1>6. Cardinality(A \cup B) <= Cardinality(D)
  BY <1>3, FS_Subset
<1>7. Cardinality(S) \in Nat /\ Cardinality(D) \in Nat /\ Cardinality({}) = 0
  BY <1>1, FS_CardinalityType, FS_EmptySet
<1> QED BY <1>1, <1>4, <1>5, <1>6, <1>7

\* what EvalFeature takes: rows by their numbers
Numbered(rows) ==
  IsFiniteSet(DOMAIN rows) /\ DOMAIN rows \subseteq Nat /\ \A n \in DOMAIN rows : rows[n] \in Row

LEMMA ChosenAreNumbered ==
  ASSUME NEW rows, Numbered(rows), NEW D, D \subseteq DOMAIN rows
  PROVE  Numbered(Restrict(rows, D))
<1>1. DOMAIN Restrict(rows, D) = D /\ \A n \in D : Restrict(rows, D)[n] = rows[n]
  BY DEF Restrict
<1>2. IsFiniteSet(D)
  BY FS_Subset DEF Numbered
<1> QED BY <1>1, <1>2 DEF Numbered

\* the first row of a group by a hand that is in it
LEMMA FirstOfHand ==
  ASSUME NEW rows, Numbered(rows), NEW g \in Groups(rows), NEW h \in HandsOf(rows, g)
  PROVE  LET n == Min({n \in DOMAIN rows : <<rows[n].item, rows[n].crit, rows[n].hand>> = <<g[1], g[2], h>>})
         IN  n \in DOMAIN rows /\ <<rows[n].item, rows[n].crit>> = g /\ rows[n].hand = h
<1> DEFINE P == {n \in DOMAIN rows : <<rows[n].item, rows[n].crit, rows[n].hand>> = <<g[1], g[2], h>>}
<1>1. PICK m \in DOMAIN rows : <<rows[m].item, rows[m].crit>> = g /\ rows[m].hand = h
  BY DEF HandsOf
<1>2. P # {} /\ P \subseteq Nat
  BY <1>1 DEF Numbered
<1>3. Min(P) \in P
  <2> HIDE DEF P
  <2> QED BY <1>2, Minimum
<1>4. g = <<g[1], g[2]>>
  BY <1>1
<1> QED BY <1>3, <1>4

LEMMA HandsAreNumbers ==
  ASSUME NEW rows, Numbered(rows), NEW g
  PROVE  HandsOf(rows, g) \subseteq Nat
BY LabelAssumption DEF HandsOf, Numbered, Row

\* of a group of two hands or more the two that are compared differ
LEMMA TwoHands ==
  ASSUME NEW H, H \subseteq Nat, Cardinality(H) >= 2
  PROVE  Min(H) \in H /\ Min(H \ {Min(H)}) \in H \ {Min(H)}
<1>1. H # {} /\ \A h : H # {h}
  <2>1. Cardinality({}) = 0 /\ \A h : Cardinality({h}) = 1
    BY FS_EmptySet, FS_Singleton
  <2>2. ASSUME H = {} PROVE FALSE
    BY <2>1, <2>2
  <2>3. ASSUME NEW h, H = {h} PROVE FALSE
    <3>1. Cardinality(H) = 1
      BY <2>1, <2>3, Zenon
    <3> QED BY <3>1
  <2> QED BY <2>2, <2>3
<1>2. Min(H) \in H
  BY <1>1, Minimum
<1> DEFINE rest == H \ {Min(H)}
<1>3. rest # {} /\ rest \subseteq Nat
  BY <1>1, <1>2
<1>4. Min(rest) \in rest
  <2> HIDE DEF rest
  <2> QED BY <1>3, Minimum
<1> QED BY <1>2, <1>4

LEMMA FeatureIsSound ==
  ASSUME NEW all, Numbered(all)
  PROVE  Sound(EvalFeature(all))
<1> DEFINE rows == RestrictValues(all, LAMBDA r : r.answer # None)
           double == {g \in Groups(rows) : Cardinality(HandsOf(rows, g)) >= 2}
           left(g) == FirstBy(rows, g, Min(HandsOf(rows, g)))
           right(g) == FirstBy(rows, g, Min(HandsOf(rows, g) \ {Min(HandsOf(rows, g))}))
           agree(g) == left(g).answer = right(g).answer
           known == {g \in double : None \notin {left(g).sure, right(g).sure}}
           confident == {g \in known : left(g).sure = "yes" /\ right(g).sure = "yes"}
           first(g, h) == Min({n \in DOMAIN rows : <<rows[n].item, rows[n].crit, rows[n].hand>> = <<g[1], g[2], h>>})
           L == [g \in double |-> first(g, Min(HandsOf(rows, g)))]
           R == [g \in double |-> first(g, Min(HandsOf(rows, g) \ {Min(HandsOf(rows, g))}))]
           r == EvalFeature(all)
<1>1. Numbered(rows)
  <2> DEFINE D == {n \in DOMAIN all : all[n].answer # None}
  <2>1. rows = Restrict(all, D)
    BY DEF RestrictValues
  <2>2. D \subseteq DOMAIN all
    OBVIOUS
  <2> HIDE DEF D, rows
  <2> QED BY <2>1, <2>2, ChosenAreNumbered
<1>2. /\ r.n = Cardinality(DOMAIN rows) /\ r.compared = Cardinality(double)
      /\ r.agreed = Cardinality({g \in double : agree(g)}) /\ r.confident = Cardinality(confident)
      /\ r.confidentAgreed = Cardinality({g \in confident : agree(g)}) /\ r.uncertain = Cardinality(known \ confident)
  BY Zenon DEF EvalFeature
<1> HIDE DEF rows, r
<1>3. ASSUME NEW g \in double
      PROVE  /\ L[g] \in DOMAIN rows /\ <<rows[L[g]].item, rows[L[g]].crit>> = g
             /\ R[g] \in DOMAIN rows /\ <<rows[R[g]].item, rows[R[g]].crit>> = g
             /\ rows[L[g]].hand = Min(HandsOf(rows, g)) /\ rows[R[g]].hand # Min(HandsOf(rows, g))
  <2> DEFINE H == HandsOf(rows, g)
  <2>1. g \in Groups(rows) /\ Cardinality(H) >= 2 /\ H \subseteq Nat
    BY <1>1, HandsAreNumbers
  <2>2. Min(H) \in H /\ Min(H \ {Min(H)}) \in H \ {Min(H)}
    <3> HIDE DEF H
    <3> QED BY <2>1, TwoHands
  <2>3. L[g] = first(g, Min(H)) /\ R[g] = first(g, Min(H \ {Min(H)}))
    BY Zenon
  <2> DEFINE h == Min(H)
             k == Min(H \ {Min(H)})
  <2>4. h \in H /\ k \in H /\ h # k
    <3> HIDE DEF H
    <3> QED BY <2>2
  <2> HIDE DEF h, k
  <2>5. first(g, h) \in DOMAIN rows /\ <<rows[first(g, h)].item, rows[first(g, h)].crit>> = g /\ rows[first(g, h)].hand = h
    BY <1>1, <2>1, <2>4, FirstOfHand
  <2>6. first(g, k) \in DOMAIN rows /\ <<rows[first(g, k)].item, rows[first(g, k)].crit>> = g /\ rows[first(g, k)].hand = k
    BY <1>1, <2>1, <2>4, FirstOfHand
  <2>7. L[g] = first(g, h) /\ R[g] = first(g, k)
    BY <2>3 DEF h, k
  <2> HIDE DEF first, L, R, double
  <2> QED BY <2>4, <2>5, <2>6, <2>7 DEF h
<1>4. OwnPairs(L, R, double, DOMAIN rows)
  <2>1. L \in [double -> DOMAIN rows] /\ R \in [double -> DOMAIN rows]
    <3>1. \A g \in double : L[g] \in DOMAIN rows /\ R[g] \in DOMAIN rows
      BY <1>3
    <3>2. L = [g \in double |-> L[g]] /\ R = [g \in double |-> R[g]]
      OBVIOUS
    <3> HIDE DEF L, R, double
    <3> QED BY <3>1, <3>2
  <2>2. \A g \in double : /\ <<rows[L[g]].item, rows[L[g]].crit>> = g /\ <<rows[R[g]].item, rows[R[g]].crit>> = g
                          /\ rows[L[g]].hand = Min(HandsOf(rows, g)) /\ rows[R[g]].hand # Min(HandsOf(rows, g))
    BY <1>3
  <2> HIDE DEF L, R, double
  <2>3. ASSUME NEW a \in double, NEW b \in double
        PROVE  (L[a] = L[b] => a = b) /\ (R[a] = R[b] => a = b) /\ L[a] # R[b]
    BY <2>2, <2>3
  <2> QED BY <2>1, <2>3 DEF OwnPairs
<1>5. IsFiniteSet(double) /\ 2 * Cardinality(double) <= Cardinality(DOMAIN rows)
  <2>1. IsFiniteSet(DOMAIN rows)
    BY <1>1 DEF Numbered
  <2> HIDE DEF L, R, double
  <2> QED BY <1>4, <2>1, TwoForEach
<1> DEFINE agreed == {g \in double : agree(g)}
           sureAgreed == {g \in confident : agree(g)}
<1>6. /\ known \in SUBSET double /\ confident \in SUBSET known
      /\ agreed \in SUBSET double /\ sureAgreed \in SUBSET agreed
  <2> HIDE DEF left, right
  <2> QED OBVIOUS
<1> HIDE DEF double, known, confident, agreed, sureAgreed
<1>7. /\ IsFiniteSet(known) /\ Cardinality(known) <= Cardinality(double)
      /\ IsFiniteSet(agreed) /\ Cardinality(agreed) <= Cardinality(double)
  BY <1>5, <1>6, FS_Subset
<1>8. Cardinality(sureAgreed) <= Cardinality(agreed) /\ IsFiniteSet(confident)
  BY <1>6, <1>7, FS_Subset
<1>9. Cardinality(known \ confident) = Cardinality(known) - Cardinality(confident)
  <2>1. known \cap confident = confident
    BY <1>6
  <2> QED BY <1>7, <2>1, FS_Difference
<1>10. Cardinality(known) \in Nat /\ Cardinality(confident) \in Nat /\ Cardinality(double) \in Nat
  BY <1>5, <1>7, <1>8, FS_CardinalityType
<1>11. Cardinality(confident) + Cardinality(known \ confident) <= Cardinality(double)
  BY <1>7, <1>9, <1>10
<1>12. r.agreed = Cardinality(agreed) /\ r.confidentAgreed = Cardinality(sureAgreed)
  BY <1>2, Zenon DEF agreed, sureAgreed
<1>13. r.agreed <= r.compared /\ r.confidentAgreed <= r.agreed
  BY <1>2, <1>7, <1>8, <1>12, Zenon
<1>14. 2 * r.compared <= r.n /\ r.confident + r.uncertain <= r.compared
  BY <1>2, <1>5, <1>11, Zenon
<1> QED BY <1>13, <1>14, Zenon DEF Sound, r

LEMMA StoreIsEvaluated ==
  ASSUME NEW rows \in Seq(Row)
  PROVE  \A f \in DOMAIN EvalStore(rows) : Sound(EvalStore(rows)[f])
<1>1. Numbered(rows)
  <2>1. DOMAIN rows = 1..Len(rows) /\ Len(rows) \in Nat /\ \A n \in 1..Len(rows) : rows[n] \in Row
    OBVIOUS
  <2> QED BY <2>1, FS_Interval DEF Numbered
<1>2. SUFFICES ASSUME NEW f \in DOMAIN EvalStore(rows) PROVE Sound(EvalStore(rows)[f])
  OBVIOUS
<1> DEFINE D == {n \in DOMAIN rows : rows[n].feature = f}
           part == RestrictValues(rows, LAMBDA r : r.feature = f)
<1>3. part = Restrict(rows, D) /\ D \subseteq DOMAIN rows
  BY DEF RestrictValues
<1>4. Numbered(part)
  <2> HIDE DEF part, D
  <2> QED BY <1>1, <1>3, ChosenAreNumbered
<1>5. EvalStore(rows)[f] = EvalFeature(part)
  <2>1. f \in {rows[n].feature : n \in DOMAIN rows}
    BY DEF EvalStore
  <2> QED BY <2>1, Zenon DEF EvalStore
<1> HIDE DEF part
<1> QED BY <1>4, <1>5, FeatureIsSound

-----------------------------------------------------------------------------
(***************************************************************************)
(* A file with one more line: what it keeps, and what goes with it.        *)
(***************************************************************************)
LEMMA LineBehind ==
  ASSUME NEW store \in Seq(Line), NEW x \in Line
  PROVE  /\ store \o <<x>> \in Seq(Line) /\ Len(store) \in Nat /\ DOMAIN store = 1..Len(store)
         /\ DOMAIN (store \o <<x>>) = 1..(Len(store) + 1) /\ (store \o <<x>>)[Len(store) + 1] = x
         /\ Len(store) + 1 \notin DOMAIN store
         /\ \A n \in DOMAIN store : n \in DOMAIN (store \o <<x>>) /\ (store \o <<x>>)[n] = store[n]
         /\ \A n \in DOMAIN (store \o <<x>>) : n \in DOMAIN store \/ n = Len(store) + 1
<1> DEFINE S == Len(store)
           last == <<x>>
           grown == store \o last
<1>1. S \in Nat /\ DOMAIN store = 1..S
  OBVIOUS
<1>2. last \in Seq(Line) /\ Len(last) = 1 /\ last[1] = x
  OBVIOUS
<1> HIDE DEF last, S
<1>3. grown \in Seq(Line) /\ Len(grown) = S + 1 /\ \A n \in 1..(S + 1) : grown[n] = IF n <= S THEN store[n] ELSE last[n - S]
  <2>1. grown \in Seq(Line) /\ Len(grown) = Len(store) + Len(last)
        /\ \A n \in 1..(Len(store) + Len(last)) : grown[n] = IF n <= Len(store) THEN store[n] ELSE last[n - Len(store)]
    BY <1>2, ConcatProperties
  <2> QED BY <1>2, <2>1 DEF S
<1>4. DOMAIN grown = 1..(S + 1)
  BY <1>3, LenProperties
<1> HIDE DEF grown
<1>5. grown[S + 1] = x
  <2>1. S + 1 \in 1..(S + 1) /\ ~(S + 1 <= S) /\ (S + 1) - S = 1
    BY <1>1
  <2> QED BY <1>2, <1>3, <2>1
<1>6. \A n \in 1..S : n \in 1..(S + 1) /\ grown[n] = store[n]
  BY <1>1, <1>3
<1>7. S + 1 \notin 1..S /\ \A n \in 1..(S + 1) : n \in 1..S \/ n = S + 1
  BY <1>1
<1> QED BY <1>1, <1>3, <1>4, <1>5, <1>6, <1>7 DEF grown, last, S

LEMMA BadBehind ==
  ASSUME NEW store \in Seq(Line)
  PROVE  /\ Consistent(store) => Consistent(store \o <<Bad>>)
         /\ \A rows : GoesWith(rows, store) => GoesWith(rows, store \o <<Bad>>)
         /\ \A rows : Pinned(rows, store) => Pinned(rows, store \o <<Bad>>)
<1> DEFINE grown == store \o <<Bad>>
<1>1. \A n \in DOMAIN grown : grown[n] # Bad => n \in DOMAIN store /\ grown[n] = store[n]
  BY LineBehind DEF Line
<1> HIDE DEF grown
<1>2. Consistent(store) => Consistent(grown)
  BY <1>1 DEF Consistent, OneSplit, OneLabel
<1>3. \A rows : GoesWith(rows, store) => GoesWith(rows, grown)
  BY <1>1 DEF GoesWith
<1>4. \A rows : Pinned(rows, store) => Pinned(rows, grown)
  BY <1>1 DEF Pinned
<1> QED BY <1>2, <1>3, <1>4 DEF grown

LEMMA WithoutLast ==
  ASSUME NEW store \in Seq(Line), NEW x \in Line
  PROVE  /\ Consistent(store \o <<x>>) => Consistent(store)
         /\ \A rows : GoesWith(rows, store \o <<x>>) => GoesWith(rows, store)
         /\ \A rows : Pinned(rows, store \o <<x>>) => Pinned(rows, store)
<1> DEFINE grown == store \o <<x>>
<1>1. \A n \in DOMAIN store : n \in DOMAIN grown /\ grown[n] = store[n]
  BY LineBehind
<1> HIDE DEF grown
<1>2. Consistent(grown) => Consistent(store)
  BY <1>1 DEF Consistent, OneSplit, OneLabel
<1>3. \A rows : GoesWith(rows, grown) => GoesWith(rows, store)
  BY <1>1 DEF GoesWith
<1>4. \A rows : Pinned(rows, grown) => Pinned(rows, store)
  BY <1>1 DEF Pinned
<1> QED BY <1>2, <1>3, <1>4 DEF grown

LEMMA RestOf ==
  ASSUME NEW rows \in Seq(Row), rows # <<>>
  PROVE  /\ Tail(rows) \in Seq(Row) /\ Head(rows) \in Row /\ 1 \in DOMAIN rows /\ Head(rows) = rows[1]
         /\ \A n \in DOMAIN Tail(rows) : n \in Int /\ n + 1 \in DOMAIN rows /\ n + 1 # 1 /\ Tail(rows)[n] = rows[n + 1]
<1> DEFINE N == Len(rows)
<1>1. N \in Nat /\ DOMAIN rows = 1..N /\ N # 0
  OBVIOUS
<1>2. Tail(rows) \in Seq(Row) /\ Len(Tail(rows)) = N - 1 /\ \A n \in 1..(N - 1) : Tail(rows)[n] = rows[n + 1]
  BY HeadTailProperties
<1>3. DOMAIN Tail(rows) = 1..(N - 1)
  BY <1>2, LenProperties
<1>4. Head(rows) = rows[1] /\ Head(rows) \in Row
  BY HeadTailProperties
<1> HIDE DEF N
<1>5. \A n \in 1..(N - 1) : n \in Int /\ n + 1 \in 1..N /\ n + 1 # 1
  BY <1>1
<1>6. 1 \in 1..N
  BY <1>1
<1> QED BY <1>1, <1>2, <1>3, <1>4, <1>5, <1>6

LEMMA RestGoes ==
  ASSUME NEW rows \in Seq(Row), rows # <<>>, NEW store
  PROVE  /\ GoesWith(rows, store) => GoesWith(Tail(rows), store)
         /\ Pinned(rows, store) => Pinned(Tail(rows), store)
<1> DEFINE back == Tail(rows)
<1>1. back \in Seq(Row) /\ \A n \in DOMAIN back : n \in Int /\ n + 1 \in DOMAIN rows /\ back[n] = rows[n + 1]
  BY RestOf
<1> HIDE DEF back
<1>2. ASSUME OneLabel(rows) PROVE OneLabel(back)
  <2>1. SUFFICES ASSUME NEW m \in DOMAIN back, NEW n \in DOMAIN back, back[m] # Bad, back[n] # Bad,
                        RecordKey(back[m]) = RecordKey(back[n])
                 PROVE  m = n
    BY DEF OneLabel
  <2>2. m + 1 = n + 1
    BY <1>1, <1>2, <2>1 DEF OneLabel
  <2>3. m \in Int /\ n \in Int
    BY <1>1
  <2> QED BY <2>2, <2>3
<1>3. GoesWith(rows, store) => GoesWith(back, store)
  BY <1>1, <1>2 DEF GoesWith
<1>4. ASSUME Pinned(rows, store) PROVE Pinned(back, store)
  <2>1. SUFFICES ASSUME NEW n \in DOMAIN back, NEW m \in DOMAIN store, store[m] # Bad, back[n].root = store[m].root
                 PROVE  back[n].split = store[m].split
    BY DEF Pinned
  <2>2. n + 1 \in DOMAIN rows /\ back[n] = rows[n + 1]
    BY <1>1
  <2> QED BY <1>4, <2>1, <2>2 DEF Pinned
<1> QED BY <1>3, <1>4 DEF back

\* the first row of a batch that goes with a file may be written, and the others still go with it
LEMMA RowBehind ==
  ASSUME NEW store \in Seq(Line), Consistent(store), NEW rows, rows # <<>>, GoesWith(rows, store), Pinned(rows, store)
  PROVE  /\ Consistent(store \o <<Head(rows)>>)
         /\ GoesWith(Tail(rows), store \o <<Head(rows)>>) /\ Pinned(Tail(rows), store \o <<Head(rows)>>)
<1> DEFINE first == Head(rows)
           back == Tail(rows)
           grown == store \o <<first>>
           k == Len(store) + 1
<1>1. rows \in Seq(Row)
  BY DEF GoesWith
<1>2. /\ 1 \in DOMAIN rows /\ first = rows[1] /\ first \in Row /\ first # Bad
      /\ \A n \in DOMAIN back : n + 1 \in DOMAIN rows /\ n + 1 # 1 /\ back[n] = rows[n + 1]
  BY <1>1, RestOf, BadIsNoRow
<1>3. GoesWith(back, store) /\ Pinned(back, store)
  BY <1>1, RestGoes
<1> HIDE DEF first
<1>4. \A n \in DOMAIN grown : \/ n \in DOMAIN store /\ grown[n] = store[n]
                              \/ n = k /\ grown[n] = first
  <2>1. first \in Line
    BY <1>2 DEF Line
  <2> QED BY <2>1, LineBehind
<1> HIDE DEF grown, back, k
<1>5. OneSplit(grown)
  <2>1. \A m \in DOMAIN store : store[m] # Bad /\ store[m].root = first.root => store[m].split = first.split
    BY <1>2 DEF Pinned
  <2>2. SUFFICES ASSUME NEW m \in DOMAIN grown, NEW n \in DOMAIN grown, grown[m] # Bad, grown[n] # Bad,
                        grown[m].root = grown[n].root
                 PROVE  grown[m].split = grown[n].split
    BY DEF OneSplit
  <2>3. CASE m \in DOMAIN store /\ grown[m] = store[m]
    BY <1>4, <2>1, <2>2, <2>3 DEF Consistent, OneSplit
  <2>4. CASE grown[m] = first
    BY <1>4, <2>1, <2>2, <2>4
  <2> QED BY <1>4, <2>3, <2>4
<1>6. OneLabel(grown)
  <2>1. \A m \in DOMAIN store : store[m] # Bad => RecordKey(store[m]) # RecordKey(first)
    BY <1>2 DEF GoesWith
  <2>2. SUFFICES ASSUME NEW m \in DOMAIN grown, NEW n \in DOMAIN grown, grown[m] # Bad, grown[n] # Bad,
                        RecordKey(grown[m]) = RecordKey(grown[n])
                 PROVE  m = n
    BY DEF OneLabel
  <2>3. CASE m \in DOMAIN store /\ grown[m] = store[m]
    BY <1>4, <2>1, <2>2, <2>3 DEF Consistent, OneLabel
  <2>4. CASE m = k /\ grown[m] = first
    BY <1>4, <2>1, <2>2, <2>4
  <2> QED BY <1>4, <2>3, <2>4
<1>7. GoesWith(back, grown)
  <2>1. \A n \in DOMAIN back : RecordKey(back[n]) # RecordKey(first)
    <3>1. SUFFICES ASSUME NEW n \in DOMAIN back, RecordKey(back[n]) = RecordKey(first) PROVE FALSE
      OBVIOUS
    <3>2. rows[n + 1] # Bad
      BY <1>1, <1>2, BadIsNoRow
    <3>3. n + 1 = 1
      BY <1>2, <3>1, <3>2 DEF GoesWith, OneLabel
    <3> QED BY <1>2, <3>3
  <2>2. \A n \in DOMAIN back : \A m \in DOMAIN grown : grown[m] # Bad => RecordKey(back[n]) # RecordKey(grown[m])
    BY <1>3, <1>4, <2>1 DEF GoesWith
  <2> QED BY <1>3, <2>2 DEF GoesWith
<1>8. Pinned(back, grown)
  <2>1. \A n \in DOMAIN back : back[n].split = first.split
    BY <1>2 DEF GoesWith
  <2> QED BY <1>3, <1>4, <2>1 DEF Pinned
<1> QED BY <1>5, <1>6, <1>7, <1>8 DEF Consistent, grown, back, first

\* what a reader sees is lines, and ends are one line or none
LEMMA RowsAre ==
  ASSUME FileTypeOK
  PROVE  /\ end = <<>> => Rows = lines
         /\ end # <<>> => \E x \in Line : end = <<x>> /\ Rows = lines \o <<x>>
         /\ Rows \in Seq(Line)
<1>1. lines \in Seq(Line) /\ end \in Ends
  BY DEF FileTypeOK
<1>2. end = <<>> => Rows = lines
  BY <1>1 DEF Rows
<1>3. end # <<>> => \E x \in Line : end = <<x>> /\ Rows = lines \o <<x>>
  BY <1>1 DEF Rows, Ends
<1>4. Rows \in Seq(Line)
  <2>1. CASE end = <<>>
    BY <1>1, <1>2, <2>1
  <2>2. CASE end # <<>>
    <3>1. PICK x \in Line : Rows = lines \o <<x>>
      BY <1>3, <2>2
    <3> QED BY <1>1, <3>1, LineBehind
  <2> QED BY <2>1, <2>2
<1> QED BY <1>2, <1>3, <1>4

-----------------------------------------------------------------------------
(***************************************************************************)
(* What one command moves.                                                 *)
(***************************************************************************)
OthersIdle(p) == \A q \in Commands \ {p} : cmd[q].at = "idle"
Moves(p, c) == c \in Command /\ cmd' = [cmd EXCEPT ![p] = c]

LEMMA Moved ==
  ASSUME NEW p \in Commands, NEW c, Moves(p, c), cmd \in [Commands -> Command]
  PROVE  cmd' \in [Commands -> Command] /\ cmd'[p] = c /\ \A q \in Commands \ {p} : cmd'[q] = cmd[q]
BY DEF Moves

LEMMA CommandIs ==
  ASSUME NEW p \in Commands, LabelTypeOK
  PROVE  /\ cmd \in [Commands -> Command] /\ cmd[p] \in Command /\ cmd[p] \in Commanded
         /\ cmd[p].batch \in Seq(Row) /\ cmd[p].cut \in {"line", "in", "nl"} /\ cmd[p].held \in BOOLEAN
         /\ cmd[p].at \in {"append", "write"} => cmd[p].batch # <<>>
         /\ cmd[p] = [at |-> cmd[p].at, batch |-> cmd[p].batch, cut |-> cmd[p].cut, held |-> cmd[p].held]
<1>1. cmd \in [Commands -> Command] /\ cmd[p] \in Command
  BY DEF LabelTypeOK
<1>2. cmd[p] \in Commanded /\ (cmd[p].at \in {"append", "write"} => cmd[p].batch # <<>>)
  BY <1>1 DEF Command
<1> QED BY <1>1, <1>2 DEF Commanded

LEMMA NoCommandIs == NoCommand \in Command /\ NoCommand.at = "idle"
<1>1. <<>> \in Seq(Row)
  BY EmptySeq
<1> QED BY <1>1 DEF NoCommand, Command, Commanded

LEMMA OthersAreIdle ==
  ASSUME OneAtATime, ~overlap, NEW p \in Commands, cmd[p].at # "idle"
  PROVE  OthersIdle(p)
BY DEF OneAtATime, OthersIdle

LEMMA MoveKeeps ==
  ASSUME LabelTypeOK, NEW p \in Commands, NEW c, Moves(p, c),
         FileTypeOK', IsSequence(reports)', burned' \in BOOLEAN, overlap' \in BOOLEAN, killed' \in Nat,
         ~overlap' => ~overlap /\ OthersIdle(p) /\ Stands(p)'
  PROVE  LabelTypeOK' /\ OneAtATime' /\ AllStand'
<1>1. cmd' \in [Commands -> Command] /\ cmd'[p] = c /\ \A q \in Commands \ {p} : cmd'[q] = cmd[q]
  BY Moved DEF LabelTypeOK
<1>2. LabelTypeOK'
  BY <1>1 DEF LabelTypeOK
<1>3. OneAtATime'
  BY <1>1 DEF OneAtATime, OthersIdle
<1>4. ASSUME ~overlap', NEW q \in Commands PROVE Stands(q)'
  <2>1. CASE q = p
    BY <1>4, <2>1
  <2>2. CASE q # p
    <3>1. cmd'[q].at = "idle"
      BY <1>1, <1>4, <2>2 DEF OthersIdle
    <3> QED BY <3>1 DEF Stands
  <2> QED BY <2>1, <2>2
<1>5. AllStand'
  BY <1>4 DEF AllStand
<1> QED BY <1>2, <1>3, <1>5

LEMMA LookKeeps ==
  ASSUME LabelTypeOK, LookedAt, LookedOnce, ReportsAreSound, NEW p \in Commands, NEW c, Moves(p, c),
         UNCHANGED <<reports, burned>>, ~overlap' => ~overlap, killed' = 0 => killed = 0 /\ cmd[p].at # "mark",
         c.at # "mark", c.at = "emit" /\ c.held => ~burned
  PROVE  LookedAt' /\ LookedOnce' /\ ReportsAreSound'
<1>1. cmd'[p] = c /\ \A q \in Commands \ {p} : cmd'[q] = cmd[q]
  BY Moved DEF LabelTypeOK
<1>2. HeldReports' = HeldReports /\ burned' = burned /\ reports' = reports
  BY DEF HeldReports
<1>3. ReportsAreSound'
  BY <1>2 DEF ReportsAreSound
<1>4. LookedAt'
  BY <1>1, <1>2 DEF LookedAt
<1>5. LookedOnce'
  <2>1. SUFFICES ASSUME ~overlap', killed' = 0
                 PROVE  /\ \A m, n \in HeldReports : m = n
                        /\ HeldReports # {} => burned \/ \E q \in Commands : cmd'[q].at = "mark"
                        /\ \A q \in Commands : cmd'[q].at = "emit" /\ cmd'[q].held => ~burned
    BY <1>2 DEF LookedOnce
  <2>2. /\ \A m, n \in HeldReports : m = n
        /\ HeldReports # {} => burned \/ \E q \in Commands : cmd[q].at = "mark"
        /\ \A q \in Commands : cmd[q].at = "emit" /\ cmd[q].held => ~burned
    BY <2>1 DEF LookedOnce
  <2>3. HeldReports # {} => burned \/ \E q \in Commands : cmd'[q].at = "mark"
    BY <1>1, <2>1, <2>2
  <2>4. \A q \in Commands : cmd'[q].at = "emit" /\ cmd'[q].held => ~burned
    BY <1>1, <2>2
  <2> QED BY <2>2, <2>3, <2>4
<1> QED BY <1>3, <1>4, <1>5

\* a step that leaves the file alone
LEMMA FileStays ==
  ASSUME LabelTypeOK, Stored, Unspoiled, NEW p \in Commands, NEW c, Moves(p, c), UNCHANGED <<lines, end>>,
         ~overlap' => ~overlap, killed' = 0 => killed = 0 /\ cmd[p].at # "write"
  PROVE  Stored' /\ Unspoiled' /\ Rows' = Rows
<1>1. \A q \in Commands \ {p} : cmd'[q] = cmd[q]
  BY Moved DEF LabelTypeOK
<1>2. Rows' = Rows /\ lines' = lines /\ end' = end
  BY DEF Rows
<1>3. Stored'
  BY <1>2 DEF Stored
<1>4. Unspoiled'
  <2>1. SUFFICES ASSUME ~overlap', killed' = 0
                 PROVE  Whole(lines) /\ (end # <<>> => \E q \in Commands : cmd'[q].at = "write")
    BY <1>2 DEF Unspoiled
  <2>2. Whole(lines) /\ (end # <<>> => \E q \in Commands : cmd[q].at = "write")
    BY <2>1 DEF Unspoiled
  <2> QED BY <1>1, <2>1, <2>2
<1> QED BY <1>2, <1>3, <1>4

\* a row that no conflict was found for has the split that is pinned
LEMMA NoConflict ==
  ASSUME NEW store \in Seq(Line), Whole(store), OneSplit(store), NEW root, NEW split, ~Conflicts(store, root, split)
  PROVE  \A m \in DOMAIN store : store[m].root = root => store[m].split = split
<1> SUFFICES ASSUME NEW m \in DOMAIN store, store[m].root = root PROVE store[m].split = split
  OBVIOUS
<1> DEFINE of == {n \in DOMAIN store : store[n].root = root}
<1>1. of # {} /\ of \subseteq Nat
  OBVIOUS
<1>2. Min(of) \in of
  <2> HIDE DEF of
  <2> QED BY <1>1, Minimum
<1>3. Min(of) \in DOMAIN store /\ store[Min(of)].root = root
  BY <1>2
<1>4. store[Min(of)].split = store[m].split
  BY <1>3 DEF OneSplit, Whole
<1>5. store[Min(of)].split \in Splits
  <2>1. store[Min(of)] \in Line /\ store[Min(of)] # Bad
    BY <1>3 DEF Whole
  <2>2. store[Min(of)] \in Row
    BY <2>1 DEF Line
  <2> QED BY <2>2 DEF Row
<1>6. PinOf(store, root) = store[Min(of)].split
  BY <1>1 DEF PinOf
<1>7. store[Min(of)].split \in {None, split}
  BY <1>6 DEF Conflicts
<1> QED BY <1>4, <1>5, <1>7, LabelAssumption

-----------------------------------------------------------------------------
(***************************************************************************)
(* Every action keeps the store's invariant.                               *)
(***************************************************************************)
LEMMA ReadableIsWhole ==
  ASSUME FileTypeOK, Readable
  PROVE  Rows \in Seq(Row) /\ Rows \in Seq(Line) /\ Whole(Rows)
<1>1. Rows \in Seq(Line) /\ \A n \in 1..Len(Rows) : Rows[n] # Bad
  BY RowsAre DEF Readable, Contains
<1> DEFINE R == Rows
<1> HIDE DEF R
<1>2. R \in Seq(Line) /\ Len(R) \in Nat /\ DOMAIN R = 1..Len(R) /\ \A n \in 1..Len(R) : R[n] \in Line /\ R[n] # Bad
  BY <1>1 DEF R
<1>3. \A n \in 1..Len(R) : R[n] \in Row
  BY <1>2 DEF Line
<1>4. R \in [1..Len(R) -> Row]
  <2>1. R = [n \in 1..Len(R) |-> R[n]]
    BY <1>2
  <2> QED BY <1>3, <2>1
<1>5. R \in Seq(Row)
  BY <1>2, <1>4, SeqDef
<1> QED BY <1>2, <1>5 DEF R, Whole

LEMMA StartKeeps ==
  ASSUME StoreInv, NEW p \in Commands, NEW c \in Command, StartCommand(p, c),
         c.at \in {"idle", "append", "emit"}, c.at = "append" => c.cut = "line" /\ GoesWith(c.batch, Rows),
         c.at = "emit" /\ c.held => ~burned
  PROVE  StoreInv'
<1>1. /\ cmd[p].at = "idle" /\ cmd' = [cmd EXCEPT ![p] = c]
      /\ overlap' = (overlap \/ \E q \in Commands \ {p} : cmd[q].at # "idle")
      /\ UNCHANGED <<made, lines, end, half, burned, reports, killed>>
  BY DEF StartCommand
<1>2. Moves(p, c)
  BY <1>1 DEF Moves
<1>3. LabelTypeOK /\ Stored /\ Unspoiled /\ AllStand /\ LookedAt /\ LookedOnce /\ ReportsAreSound
  BY DEF StoreInv
<1>4. cmd'[p] = c
  BY <1>2, <1>3, Moved DEF LabelTypeOK
<1>5. ~overlap' => ~overlap /\ OthersIdle(p)
  BY <1>1 DEF OthersIdle
<1>6. overlap' \in BOOLEAN
  BY <1>1, <1>3 DEF LabelTypeOK
<1>7. Stored' /\ Unspoiled' /\ Rows' = Rows
  BY <1>1, <1>2, <1>3, <1>5, FileStays
<1>8. Stands(p)'
  BY <1>1, <1>4, <1>7 DEF Stands
<1>9. FileTypeOK' /\ IsSequence(reports)' /\ burned' \in BOOLEAN /\ killed' \in Nat
  BY <1>1, <1>3 DEF LabelTypeOK, FileTypeOK
<1>10. LabelTypeOK' /\ OneAtATime' /\ AllStand'
  BY <1>2, <1>3, <1>5, <1>6, <1>8, <1>9, MoveKeeps
<1>11. LookedAt' /\ LookedOnce' /\ ReportsAreSound'
  <2>1. UNCHANGED <<reports, burned>> /\ (~overlap' => ~overlap) /\ (killed' = 0 => killed = 0 /\ cmd[p].at # "mark")
        /\ c.at # "mark"
    BY <1>1, <1>5
  <2> QED BY <1>2, <1>3, <2>1, LookKeeps
<1> QED BY <1>7, <1>10, <1>11 DEF StoreInv

LEMMA LabelKeeps ==
  ASSUME StoreInv, NEW p \in Commands, NEW roots \in Paths, NEW hand \in Hands, NEW split \in Splits,
         NEW answer \in Answers, NEW sure \in Sures, Label(p, roots, hand, split, answer, sure)
  PROVE  StoreInv'
<1> DEFINE batch == BatchOf(roots, hand, split, answer, sure)
           refused == ~Readable \/ \E n \in DOMAIN roots : Conflicts(Rows, roots[n], split)
           c == IF refused THEN NoCommand ELSE IF batch = <<>> THEN NoCommand
                ELSE [NoCommand EXCEPT !.at = "append", !.batch = batch]
<1>1. StartCommand(p, c)
  BY DEF Label
<1>2. GoesWith(batch, Rows)
  BY BatchGoes
<1> HIDE DEF batch, refused
<1>3. CASE refused \/ batch = <<>>
  <2>1. c = NoCommand
    BY <1>3
  <2> HIDE DEF c
  <2> QED BY <1>1, <2>1, NoCommandIs, StartKeeps
<1>4. CASE ~refused /\ batch # <<>>
  <2>1. c = [NoCommand EXCEPT !.at = "append", !.batch = batch]
    BY <1>4
  <2>2. c = [at |-> "append", batch |-> batch, cut |-> "line", held |-> FALSE]
    BY <2>1 DEF NoCommand
  <2> HIDE DEF c
  <2>3. batch \in Seq(Row)
    BY <1>2 DEF GoesWith
  <2>4. c \in Command
    BY <1>4, <2>2, <2>3 DEF Command, Commanded
  <2>5. c.at = "append" /\ c.batch = batch /\ c.cut = "line"
    BY <2>2
  <2> QED BY <1>1, <1>2, <2>4, <2>5, StartKeeps
<1> QED BY <1>3, <1>4

LEMMA EvalKeeps ==
  ASSUME StoreInv, NEW p \in Commands, NEW held \in BOOLEAN, Eval(p, held)
  PROVE  StoreInv'
<1> DEFINE refused == (held /\ burned) \/ ~made \/ ~Readable
           c == IF refused THEN NoCommand ELSE [NoCommand EXCEPT !.at = "emit", !.batch = Rows, !.held = held]
<1>1. StartCommand(p, c)
  BY DEF Eval
<1>2. CASE refused
  <2>1. c = NoCommand
    BY <1>2
  <2> HIDE DEF c, refused
  <2> QED BY <1>1, <2>1, NoCommandIs, StartKeeps
<1>3. CASE ~refused
  <2>1. c = [NoCommand EXCEPT !.at = "emit", !.batch = Rows, !.held = held]
    BY <1>3
  <2>2. c = [at |-> "emit", batch |-> Rows, cut |-> "line", held |-> held]
    BY <2>1 DEF NoCommand
  <2>3. Readable /\ (held => ~burned)
    BY <1>3
  <2> HIDE DEF c, refused
  <2>4. Rows \in Seq(Row)
    BY <2>3, ReadableIsWhole DEF StoreInv, LabelTypeOK
  <2>5. c \in Command
    BY <2>2, <2>4 DEF Command, Commanded
  <2>6. c.at = "emit" /\ c.held = held
    BY <2>2
  <2> QED BY <1>1, <2>3, <2>4, <2>5, <2>6, StartKeeps
<1> QED BY <1>2, <1>3

LEMMA RecheckKeeps ==
  ASSUME StoreInv, NEW p \in Commands, Recheck(p)
  PROVE  StoreInv'
<1> DEFINE refused == ~Readable \/ \E n \in DOMAIN cmd[p].batch : Conflicts(Rows, cmd[p].batch[n].root, cmd[p].batch[n].split)
           c == IF refused THEN NoCommand ELSE [cmd[p] EXCEPT !.at = "write"]
<1>1. LabelTypeOK /\ OneAtATime /\ Stored /\ Unspoiled /\ AllStand /\ LookedAt /\ LookedOnce /\ ReportsAreSound
  BY DEF StoreInv
<1>2. /\ cmd \in [Commands -> Command] /\ cmd[p] \in Command /\ cmd[p].batch \in Seq(Row) /\ cmd[p].cut \in {"line", "in", "nl"}
      /\ cmd[p].held \in BOOLEAN
      /\ cmd[p] = [at |-> cmd[p].at, batch |-> cmd[p].batch, cut |-> cmd[p].cut, held |-> cmd[p].held]
      /\ cmd[p].at \in {"append", "write"} => cmd[p].batch # <<>>
  BY <1>1, CommandIs
<1>3. /\ cmd[p].at = "append" /\ cmd' = [cmd EXCEPT ![p] = c] /\ made' = (made \/ ~refused)
      /\ UNCHANGED <<lines, end, half, burned, reports, killed, overlap>>
  BY <1>2 DEF Recheck
<1>4. c \in Command /\ (c.at = "idle" \/ (c.at = "write" /\ ~refused))
      /\ (c.at = "write" => c.batch = cmd[p].batch /\ c.cut = cmd[p].cut)
  <2>1. CASE refused
    BY <2>1, NoCommandIs
  <2>2. CASE ~refused
    <3>1. c = [cmd[p] EXCEPT !.at = "write"]
      BY <2>2
    <3>2. c = [at |-> "write", batch |-> cmd[p].batch, cut |-> cmd[p].cut, held |-> cmd[p].held]
      <4> HIDE DEF c, refused
      <4> QED BY <1>2, <3>1
    <3> HIDE DEF c, refused
    <3> QED BY <1>2, <1>3, <2>2, <3>2 DEF Command, Commanded
  <2> QED BY <2>1, <2>2
<1> HIDE DEF c
<1>5. Moves(p, c)
  BY <1>3, <1>4 DEF Moves
<1>6. cmd'[p] = c
  BY <1>1, <1>5, Moved DEF LabelTypeOK
<1>7. Stored' /\ Unspoiled' /\ Rows' = Rows
  BY <1>1, <1>3, <1>5, FileStays
<1>8. ASSUME ~overlap' PROVE ~overlap /\ OthersIdle(p) /\ Stands(p)'
  <2>1. ~overlap /\ OthersIdle(p)
    BY <1>1, <1>3, <1>8, OthersAreIdle
  <2>2. cmd[p].cut = "line" /\ GoesWith(cmd[p].batch, Rows)
    BY <1>1, <1>3, <2>1 DEF AllStand, Stands
  <2>3. CASE c.at = "idle"
    <3>1. cmd'[p].at = "idle"
      BY <1>6, <2>3
    <3> QED BY <2>1, <3>1 DEF Stands
  <2>4. CASE c.at = "write"
    <3>1. Readable /\ \A n \in DOMAIN cmd[p].batch : ~Conflicts(Rows, cmd[p].batch[n].root, cmd[p].batch[n].split)
      BY <1>4, <2>4
    <3>2. Rows \in Seq(Line) /\ Whole(Rows) /\ OneSplit(Rows)
      BY <1>1, <2>1, <3>1, ReadableIsWhole DEF Stored, Consistent, LabelTypeOK
    <3>3. Pinned(cmd[p].batch, Rows)
      <4>1. \A n \in DOMAIN cmd[p].batch : \A m \in DOMAIN Rows :
              Rows[m].root = cmd[p].batch[n].root => Rows[m].split = cmd[p].batch[n].split
        BY <3>1, <3>2, NoConflict
      <4> QED BY <4>1 DEF Pinned
    <3>4. cmd'[p].batch = cmd[p].batch /\ cmd'[p].cut = "line" /\ cmd'[p].at = "write"
      BY <1>4, <1>6, <2>2, <2>4
    <3>5. end = <<>> \/ (Glues /\ \E row \in Row : end = <<row>>)
      <4>1. SUFFICES ASSUME end # <<>> PROVE Glues /\ \E row \in Row : end = <<row>>
        OBVIOUS
      <4>2. PICK x \in Line : end = <<x>> /\ Rows = lines \o <<x>>
        BY <1>1, <4>1, RowsAre DEF LabelTypeOK
      <4>3. lines \in Seq(Line)
        BY <1>1 DEF LabelTypeOK, FileTypeOK
      <4>4. /\ \A n \in DOMAIN lines : n \in DOMAIN Rows /\ Rows[n] = lines[n]
            /\ Len(lines) + 1 \in DOMAIN Rows /\ Rows[Len(lines) + 1] = x
        <5>1. Len(lines) + 1 \in 1..(Len(lines) + 1)
          BY <4>3
        <5> QED BY <4>2, <4>3, <5>1, LineBehind
      <4>5. Whole(lines) /\ x # Bad
        BY <3>2, <4>4 DEF Whole
      <4>6. killed # 0
        <5>1. \A q \in Commands : cmd[q].at # "write"
          BY <1>3, <2>1 DEF OthersIdle
        <5> QED BY <1>1, <2>1, <4>1, <5>1 DEF Unspoiled
      <4> QED BY <4>2, <4>5, <4>6 DEF Glues, Line
    <3>6. Glues' = Glues /\ end' = end
      BY <1>3 DEF Glues
    <3>7. AtItsPlace(p)'
      BY <3>4, <3>5, <3>6 DEF AtItsPlace
    <3>8. Unwritten(cmd'[p]) = cmd[p].batch
      BY <3>4 DEF Unwritten
    <3>9. GoesWith(Unwritten(cmd'[p]), Rows') /\ Pinned(Unwritten(cmd'[p]), Rows')
      BY <1>7, <2>2, <3>3, <3>8
    <3> QED BY <2>1, <3>4, <3>7, <3>9 DEF Stands
  <2> QED BY <1>4, <2>1, <2>3, <2>4
<1>9. LabelTypeOK' /\ OneAtATime' /\ AllStand'
  <2>1. made' \in BOOLEAN
    <3> HIDE DEF refused
    <3> QED BY <1>3
  <2>2. FileTypeOK'
    BY <1>1, <1>3, <2>1 DEF LabelTypeOK, FileTypeOK
  <2>3. IsSequence(reports)' /\ burned' \in BOOLEAN /\ overlap' \in BOOLEAN /\ killed' \in Nat
    BY <1>1, <1>3 DEF LabelTypeOK
  <2> QED BY <1>1, <1>5, <1>8, <2>2, <2>3, MoveKeeps
<1>10. LookedAt' /\ LookedOnce' /\ ReportsAreSound'
  <2>1. UNCHANGED <<reports, burned>> /\ (~overlap' => ~overlap) /\ (killed' = 0 => killed = 0 /\ cmd[p].at # "mark")
        /\ c.at # "mark" /\ c.at # "emit"
    BY <1>3, <1>4
  <2> QED BY <1>1, <1>5, <2>1, LookKeeps
<1> QED BY <1>7, <1>9, <1>10 DEF StoreInv

LEMMA WriteKeeps ==
  ASSUME StoreInv, NEW p \in Commands, cmd[p].at = "write", NEW c, Moves(p, c), c.at \in {"idle", "write"},
         FileTypeOK', UNCHANGED <<burned, reports, killed, overlap>>,
         ~overlap => Consistent(Rows') /\ OneSpoiled(lines') /\ Stands(p)',
         ~overlap /\ killed = 0 => Whole(lines') /\ (end' # <<>> => c.at = "write")
  PROVE  StoreInv'
<1>1. LabelTypeOK /\ OneAtATime /\ AllStand /\ LookedAt /\ LookedOnce /\ ReportsAreSound
  BY DEF StoreInv
<1>2. burned' = burned /\ reports' = reports /\ killed' = killed /\ overlap' = overlap /\ cmd'[p] = c
  BY <1>1, Moved DEF LabelTypeOK
<1>3. ASSUME ~overlap' PROVE ~overlap /\ OthersIdle(p) /\ Stands(p)'
  <2>1. ~overlap /\ OthersIdle(p)
    BY <1>1, <1>2, <1>3, OthersAreIdle
  <2> QED BY <2>1
<1>4. LabelTypeOK' /\ OneAtATime' /\ AllStand'
  <2>1. IsSequence(reports)' /\ burned' \in BOOLEAN /\ overlap' \in BOOLEAN /\ killed' \in Nat
    BY <1>1, <1>2 DEF LabelTypeOK
  <2> QED BY <1>1, <1>3, <2>1, MoveKeeps
<1>5. LookedAt' /\ LookedOnce' /\ ReportsAreSound'
  <2>1. (~overlap' => ~overlap) /\ (killed' = 0 => killed = 0 /\ cmd[p].at # "mark") /\ c.at # "mark" /\ c.at # "emit"
    BY <1>2
  <2> QED BY <1>1, <2>1, LookKeeps
<1>6. Stored' /\ Unspoiled'
  BY <1>2 DEF Stored, Unspoiled
<1> QED BY <1>4, <1>5, <1>6 DEF StoreInv

\* a piece of a row is written
LEMMA WritesIs ==
  ASSUME LabelTypeOK, NEW p \in Commands, NEW from, NEW to \in {"line", "in", "nl"}, Writes(p, from, to)
  PROVE  /\ Moves(p, [at |-> "write", batch |-> cmd[p].batch, cut |-> to, held |-> cmd[p].held])
         /\ cmd[p].at = "write" /\ cmd[p].cut = from /\ cmd[p].batch \in Seq(Row) /\ cmd[p].batch # <<>>
         /\ cmd'[p].at = "write" /\ cmd'[p].cut = to /\ cmd'[p].batch = cmd[p].batch
         /\ UNCHANGED <<made, lines, burned, reports, killed, overlap>>
<1> DEFINE c == [at |-> "write", batch |-> cmd[p].batch, cut |-> to, held |-> cmd[p].held]
<1>1. /\ cmd \in [Commands -> Command] /\ cmd[p].batch \in Seq(Row) /\ cmd[p].held \in BOOLEAN
      /\ cmd[p] = [at |-> cmd[p].at, batch |-> cmd[p].batch, cut |-> cmd[p].cut, held |-> cmd[p].held]
      /\ cmd[p].at = "write" => cmd[p].batch # <<>>
  BY CommandIs
<1>2. cmd[p].at = "write" /\ cmd[p].cut = from /\ cmd' = [cmd EXCEPT ![p] = [cmd[p] EXCEPT !.cut = to]]
      /\ UNCHANGED <<made, lines, burned, reports, killed, overlap>>
  BY DEF Writes
<1>3. [cmd[p] EXCEPT !.cut = to] = c
  BY <1>1, <1>2
<1>4. c \in Command
  BY <1>1, <1>2 DEF Command, Commanded
<1>5. c.at = "write" /\ c.cut = to /\ c.batch = cmd[p].batch
  OBVIOUS
<1> HIDE DEF c
<1>6. Moves(p, c)
  BY <1>2, <1>3, <1>4 DEF Moves
<1>7. cmd'[p] = c
  BY <1>1, <1>6, Moved
<1> QED BY <1>1, <1>2, <1>5, <1>6, <1>7 DEF c

\* what holds of the file, holds of its lines without the last one
LEMMA LinesFit ==
  ASSUME FileTypeOK
  PROVE  /\ Consistent(Rows) => Consistent(lines)
         /\ \A rows : GoesWith(rows, Rows) => GoesWith(rows, lines)
         /\ \A rows : Pinned(rows, Rows) => Pinned(rows, lines)
<1>1. lines \in Seq(Line)
  BY DEF FileTypeOK
<1>2. CASE end = <<>>
  BY <1>2, RowsAre
<1>3. CASE end # <<>>
  <2>1. PICK x \in Line : Rows = lines \o <<x>>
    BY <1>3, RowsAre
  <2> QED BY <1>1, <2>1, WithoutLast
<1> QED BY <1>2, <1>3

LEMMA AtWrite ==
  ASSUME StoreInv, ~overlap, NEW p \in Commands, cmd[p].at = "write"
  PROVE  /\ AtItsPlace(p) /\ Consistent(Rows) /\ OneSpoiled(lines)
         /\ GoesWith(Unwritten(cmd[p]), Rows) /\ Pinned(Unwritten(cmd[p]), Rows)
         /\ Consistent(lines) /\ GoesWith(Unwritten(cmd[p]), lines) /\ Pinned(Unwritten(cmd[p]), lines)
         /\ killed = 0 => Whole(lines)
<1>1. FileTypeOK
  BY DEF StoreInv, LabelTypeOK
<1>2. AtItsPlace(p) /\ GoesWith(Unwritten(cmd[p]), Rows) /\ Pinned(Unwritten(cmd[p]), Rows)
  BY DEF StoreInv, AllStand, Stands
<1>3. Consistent(Rows) /\ OneSpoiled(lines)
  BY DEF StoreInv, Stored
<1>4. killed = 0 => Whole(lines)
  BY DEF StoreInv, Unspoiled
<1> QED BY <1>1, <1>2, <1>3, <1>4, LinesFit

LEMMA StartRowKeeps ==
  ASSUME StoreInv, NEW p \in Commands, StartRow(p)
  PROVE  StoreInv'
<1> DEFINE c == [at |-> "write", batch |-> cmd[p].batch, cut |-> "in", held |-> cmd[p].held]
<1>1. LabelTypeOK /\ FileTypeOK /\ lines \in Seq(Line)
  BY DEF StoreInv, LabelTypeOK, FileTypeOK
<1>2. Writes(p, "line", "in") /\ end' = <<Bad>> /\ half' = IF end = <<>> THEN p ELSE NoOne
  BY DEF StartRow
<1>3. /\ Moves(p, c)
      /\ cmd[p].at = "write" /\ cmd[p].cut = "line"
      /\ cmd'[p].at = "write" /\ cmd'[p].cut = "in" /\ cmd'[p].batch = cmd[p].batch
      /\ UNCHANGED <<made, lines, burned, reports, killed, overlap>>
  BY <1>1, <1>2, WritesIs
<1>4. c.at = "write"
  OBVIOUS
<1> HIDE DEF c
<1>5. FileTypeOK'
  BY <1>1, <1>2, <1>3 DEF FileTypeOK, Ends, Line
<1>6. Rows' = lines \o <<Bad>>
  BY <1>2, <1>3 DEF Rows
<1>7. ASSUME ~overlap PROVE Consistent(Rows') /\ OneSpoiled(lines') /\ Stands(p)' /\ (killed = 0 => Whole(lines'))
  <2>1. /\ AtItsPlace(p) /\ Consistent(lines) /\ OneSpoiled(lines) /\ (killed = 0 => Whole(lines))
        /\ GoesWith(Unwritten(cmd[p]), lines) /\ Pinned(Unwritten(cmd[p]), lines)
    BY <1>3, <1>7, AtWrite
  <2>2. Unwritten(cmd[p]) = cmd[p].batch /\ Unwritten(cmd'[p]) = cmd[p].batch
    BY <1>3 DEF Unwritten
  <2>3. Consistent(Rows') /\ GoesWith(cmd[p].batch, Rows') /\ Pinned(cmd[p].batch, Rows')
    BY <1>1, <1>6, <2>1, <2>2, BadBehind
  <2>4. half' = p \/ Glues'
    <3>1. CASE end = <<>>
      BY <1>2, <3>1
    <3>2. CASE end # <<>>
      BY <1>3, <2>1, <3>2 DEF AtItsPlace, Glues
    <3> QED BY <3>1, <3>2
  <2>5. AtItsPlace(p)'
    BY <1>2, <1>3, <2>4 DEF AtItsPlace
  <2>6. Stands(p)'
    BY <1>3, <2>2, <2>3, <2>5 DEF Stands
  <2> QED BY <1>3, <2>1, <2>3, <2>6
<1> QED BY <1>3, <1>4, <1>5, <1>7, WriteKeeps

LEMMA RestOfRowKeeps ==
  ASSUME StoreInv, NEW p \in Commands, RestOfRow(p)
  PROVE  StoreInv'
<1> DEFINE c == [at |-> "write", batch |-> cmd[p].batch, cut |-> "nl", held |-> cmd[p].held]
           rows == cmd[p].batch
           x == IF half = p THEN Head(rows) ELSE Bad
<1>1. LabelTypeOK /\ FileTypeOK /\ lines \in Seq(Line)
  BY DEF StoreInv, LabelTypeOK, FileTypeOK
<1>2. Writes(p, "in", "nl") /\ end' = <<x>> /\ half' = NoOne
  BY DEF RestOfRow
<1>3. /\ Moves(p, c)
      /\ cmd[p].at = "write" /\ cmd[p].cut = "in" /\ rows \in Seq(Row) /\ rows # <<>>
      /\ cmd'[p].at = "write" /\ cmd'[p].cut = "nl" /\ cmd'[p].batch = rows
      /\ UNCHANGED <<made, lines, burned, reports, killed, overlap>>
  BY <1>1, <1>2, WritesIs
<1>4. c.at = "write"
  OBVIOUS
<1> HIDE DEF c
<1>5. x \in Line
  <2> HIDE DEF rows
  <2>1. Head(rows) \in Row
    BY <1>3, RestOf
  <2> QED BY <2>1 DEF Line
<1>6. FileTypeOK'
  <2> HIDE DEF x
  <2> QED BY <1>1, <1>2, <1>3, <1>5 DEF FileTypeOK, Ends
<1>7. Rows' = lines \o <<x>>
  BY <1>2, <1>3 DEF Rows
<1>8. ASSUME ~overlap PROVE Consistent(Rows') /\ OneSpoiled(lines') /\ Stands(p)' /\ (killed = 0 => Whole(lines'))
  <2>1. /\ AtItsPlace(p) /\ Consistent(lines) /\ OneSpoiled(lines) /\ (killed = 0 => Whole(lines))
        /\ GoesWith(Unwritten(cmd[p]), lines) /\ Pinned(Unwritten(cmd[p]), lines)
    BY <1>3, <1>8, AtWrite
  <2>2. Unwritten(cmd[p]) = rows /\ Unwritten(cmd'[p]) = Tail(rows)
    BY <1>3 DEF Unwritten
  <2> HIDE DEF rows
  <2>3. CASE half = p
    <3>1. x = Head(rows)
      BY <2>3
    <3>2. Consistent(Rows') /\ GoesWith(Tail(rows), Rows') /\ Pinned(Tail(rows), Rows')
      BY <1>1, <1>3, <1>7, <2>1, <2>2, <3>1, RowBehind
    <3>3. AtItsPlace(p)'
      BY <1>2, <1>3, <3>1 DEF AtItsPlace
    <3>4. Stands(p)'
      BY <1>3, <2>2, <3>2, <3>3 DEF Stands
    <3> QED BY <1>3, <2>1, <3>2, <3>4
  <2>4. CASE half # p
    <3>1. x = Bad
      BY <2>4
    <3>2. GoesWith(Tail(rows), lines) /\ Pinned(Tail(rows), lines)
      BY <1>3, <2>1, <2>2, RestGoes
    <3>3. Consistent(Rows') /\ GoesWith(Tail(rows), Rows') /\ Pinned(Tail(rows), Rows')
      BY <1>1, <1>7, <2>1, <3>1, <3>2, BadBehind
    <3>4. Glues'
      BY <1>3, <2>1, <2>4 DEF AtItsPlace, Glues
    <3>5. AtItsPlace(p)'
      BY <1>2, <1>3, <3>1, <3>4 DEF AtItsPlace
    <3>6. Stands(p)'
      BY <1>3, <2>2, <3>3, <3>5 DEF Stands
    <3> QED BY <1>3, <2>1, <3>3, <3>6
  <2> QED BY <2>3, <2>4
<1> QED BY <1>3, <1>4, <1>6, <1>8, WriteKeeps

LEMMA EndLineKeeps ==
  ASSUME StoreInv, NEW p \in Commands, EndLine(p)
  PROVE  StoreInv'
<1> DEFINE rows == cmd[p].batch
           rest == Tail(rows)
           c == IF rest = <<>> THEN NoCommand ELSE [NoCommand EXCEPT !.at = "write", !.batch = rest]
<1>1. LabelTypeOK /\ FileTypeOK /\ lines \in Seq(Line)
  BY DEF StoreInv, LabelTypeOK, FileTypeOK
<1>2. cmd \in [Commands -> Command] /\ rows \in Seq(Row) /\ (cmd[p].at = "write" => rows # <<>>)
  BY <1>1, CommandIs
<1>3. /\ cmd[p].at = "write" /\ cmd[p].cut = "nl" /\ lines' = lines \o end /\ end' = <<>> /\ half' = NoOne
      /\ cmd' = [cmd EXCEPT ![p] = c] /\ UNCHANGED <<made, burned, reports, killed, overlap>>
  BY DEF EndLine
<1>4. rest \in Seq(Row)
  BY <1>2, <1>3, RestOf
<1> HIDE DEF rows
<1>6. c \in Command /\ (c.at = "idle" \/ (c.at = "write" /\ c.cut = "line" /\ c.batch = rest))
  <2> HIDE DEF rest
  <2>1. CASE rest = <<>>
    BY <2>1, NoCommandIs
  <2>2. CASE rest # <<>>
    <3>1. c = [NoCommand EXCEPT !.at = "write", !.batch = rest]
      BY <2>2
    <3>2. c = [at |-> "write", batch |-> rest, cut |-> "line", held |-> FALSE]
      BY <3>1 DEF NoCommand
    <3> HIDE DEF c
    <3> QED BY <1>4, <2>2, <3>2 DEF Command, Commanded
  <2> QED BY <2>1, <2>2
<1>7. cmd' = [cmd EXCEPT ![p] = c]
  BY <1>3
<1> HIDE DEF c
<1>8. Moves(p, c)
  BY <1>6, <1>7 DEF Moves
<1>9. cmd'[p] = c
  BY <1>2, <1>8, Moved
<1>10. Rows \in Seq(Line) /\ lines' = Rows
  BY <1>1, <1>3, RowsAre DEF Rows
<1>11. FileTypeOK'
  BY <1>1, <1>3, <1>10 DEF FileTypeOK, Ends
<1>12. Rows' = Rows
  <2> DEFINE R == Rows
  <2>1. Rows' = R \o <<>>
    BY <1>3, <1>10 DEF Rows
  <2> HIDE DEF R
  <2>2. R \o <<>> = R
    BY <1>10 DEF R
  <2> QED BY <2>1, <2>2 DEF R
<1>13. ASSUME ~overlap PROVE Consistent(Rows') /\ OneSpoiled(lines') /\ Stands(p)' /\ (killed = 0 => Whole(lines'))
  <2>1. /\ AtItsPlace(p) /\ Consistent(Rows) /\ OneSpoiled(lines) /\ (killed = 0 => Whole(lines))
        /\ GoesWith(Unwritten(cmd[p]), Rows) /\ Pinned(Unwritten(cmd[p]), Rows)
    BY <1>3, <1>13, AtWrite
  <2>2. Unwritten(cmd[p]) = rest
    BY <1>3 DEF Unwritten, rows
  <2>3. Stands(p)'
    <3>1. CASE c.at = "idle"
      BY <1>9, <3>1 DEF Stands
    <3>2. CASE c.at # "idle"
      <4>1. cmd'[p].at = "write" /\ cmd'[p].cut = "line" /\ cmd'[p].batch = rest
        BY <1>6, <1>9, <3>2
      <4>2. Unwritten(cmd'[p]) = rest /\ AtItsPlace(p)'
        BY <1>3, <4>1 DEF Unwritten, AtItsPlace
      <4> QED BY <1>12, <2>1, <2>2, <4>1, <4>2 DEF Stands
    <3> QED BY <3>1, <3>2
  <2> HIDE DEF rest
  <2>4. end = <<Head(rows)>> \/ (Glues /\ end = <<Bad>>)
    BY <1>3, <2>1 DEF AtItsPlace, rows
  <2>5. PICK x \in Line : end = <<x>> /\ Rows = lines \o <<x>>
    <3>1. end # <<>>
      BY <2>4
    <3> QED BY <1>1, <3>1, RowsAre
  <2>6. (x # Bad) \/ Glues
    <3>1. Head(rows) \in Row
      BY <1>2, <1>3, RestOf
    <3>2. Head(rows) # Bad
      BY <3>1, BadIsNoRow
    <3>3. x = Head(rows) \/ Glues
      BY <2>4, <2>5
    <3> QED BY <3>2, <3>3
  <2>7. \A n \in DOMAIN Rows : \/ n \in DOMAIN lines /\ Rows[n] = lines[n]
                               \/ n = Len(lines) + 1 /\ Rows[n] = x
    BY <1>1, <2>5, LineBehind
  <2>8. OneSpoiled(Rows) /\ (killed = 0 => Whole(Rows))
    <3>1. CASE x # Bad
      BY <2>1, <2>7, <3>1 DEF OneSpoiled, Whole
    <3>2. CASE Glues
      BY <2>7, <3>2 DEF OneSpoiled, Whole, Glues
    <3> QED BY <2>6, <3>1, <3>2
  <2> QED BY <1>10, <1>12, <2>1, <2>3, <2>8
<1> QED BY <1>3, <1>6, <1>8, <1>11, <1>13, WriteKeeps

LEMMA KillKeeps ==
  ASSUME StoreInv, NEW p \in Commands, KillCommand(p)
  PROVE  StoreInv'
<1>1. /\ cmd[p].at # "idle" /\ killed' = killed + 1 /\ cmd' = [cmd EXCEPT ![p] = NoCommand]
      /\ half' = (IF half = p THEN NoOne ELSE half) /\ UNCHANGED <<made, lines, end, burned, reports, overlap>>
  BY DEF KillCommand
<1>2. LabelTypeOK /\ OneAtATime /\ Stored /\ Unspoiled /\ AllStand /\ LookedAt /\ LookedOnce /\ ReportsAreSound
  BY DEF StoreInv
<1>3. Moves(p, NoCommand) /\ NoCommand.at = "idle"
  BY <1>1, NoCommandIs DEF Moves
<1>4. cmd'[p].at = "idle"
  BY <1>2, <1>3, Moved DEF LabelTypeOK
<1>5. killed' \in Nat /\ killed' # 0
  BY <1>1, <1>2 DEF LabelTypeOK
<1>6. ASSUME ~overlap' PROVE ~overlap /\ OthersIdle(p) /\ Stands(p)'
  <2>1. ~overlap /\ OthersIdle(p)
    BY <1>1, <1>2, <1>6, OthersAreIdle
  <2>2. Stands(p)'
    BY <1>4 DEF Stands
  <2> QED BY <2>1, <2>2
<1>7. LabelTypeOK' /\ OneAtATime' /\ AllStand'
  <2>1. FileTypeOK' /\ IsSequence(reports)' /\ burned' \in BOOLEAN /\ overlap' \in BOOLEAN
    BY <1>1, <1>2 DEF LabelTypeOK, FileTypeOK
  <2> QED BY <1>2, <1>3, <1>5, <1>6, <2>1, MoveKeeps
<1>8. LookedAt' /\ LookedOnce' /\ ReportsAreSound'
  <2>1. UNCHANGED <<reports, burned>> /\ (~overlap' => ~overlap) /\ NoCommand.at # "mark" /\ NoCommand.at # "emit"
    BY <1>1, <1>3
  <2> QED BY <1>2, <1>3, <1>5, <2>1, LookKeeps
<1>9. Stored' /\ Unspoiled'
  BY <1>1, <1>2, <1>3, <1>5, FileStays
<1> QED BY <1>7, <1>8, <1>9 DEF StoreInv

LEMMA Reported ==
  ASSUME NEW s, IsSequence(s), NEW e
  PROVE  /\ IsSequence(Append(s, e)) /\ Len(s) \in Nat /\ DOMAIN s = 1..Len(s)
         /\ DOMAIN Append(s, e) = 1..(Len(s) + 1) /\ Append(s, e)[Len(s) + 1] = e
         /\ \A n \in 1..Len(s) : Append(s, e)[n] = s[n]
<1> DEFINE S == Range(s) \cup {e}
           t == Append(s, e)
<1>1. s \in Seq(S) /\ e \in S
  <2>1. s \in Seq(Range(s))
    BY DEF IsSequence
  <2> QED BY <2>1
<1> HIDE DEF S
<1>2. Len(s) \in Nat /\ DOMAIN s = 1..Len(s)
  BY <1>1
<1>3. /\ t \in Seq(S) /\ Len(t) = Len(s) + 1 /\ t[Len(s) + 1] = e
      /\ \A n \in 1..Len(s) : t[n] = s[n]
  BY <1>1, AppendProperties
<1>4. DOMAIN t = 1..(Len(s) + 1)
  BY <1>3, LenProperties
<1> HIDE DEF t
<1>5. t \in [1..(Len(s) + 1) -> Range(t)]
  <2>1. t = [n \in 1..(Len(s) + 1) |-> t[n]]
    BY <1>3, <1>4
  <2>2. \A n \in 1..(Len(s) + 1) : t[n] \in Range(t)
    BY <1>4 DEF Range
  <2> QED BY <2>1, <2>2
<1>6. IsSequence(t)
  <2>1. Len(s) + 1 \in Nat
    BY <1>2
  <2> QED BY <1>5, <2>1, SeqDef DEF IsSequence
<1> QED BY <1>2, <1>3, <1>4, <1>6 DEF t

LEMMA EmitKeeps ==
  ASSUME StoreInv, NEW p \in Commands, Emit(p)
  PROVE  StoreInv'
<1> DEFINE r == [held |-> cmd[p].held, report |-> EvalStore(cmd[p].batch)]
           c == IF cmd[p].held THEN [NoCommand EXCEPT !.at = "mark"] ELSE NoCommand
           N == Len(reports)
<1>1. LabelTypeOK /\ OneAtATime /\ Stored /\ Unspoiled /\ AllStand /\ LookedAt /\ LookedOnce /\ ReportsAreSound
  BY DEF StoreInv
<1>2. cmd[p].batch \in Seq(Row) /\ cmd[p].held \in BOOLEAN /\ cmd \in [Commands -> Command]
  BY <1>1, CommandIs
<1>3. /\ cmd[p].at = "emit" /\ reports' = Append(reports, r) /\ cmd' = [cmd EXCEPT ![p] = c]
      /\ UNCHANGED <<made, lines, end, half, burned, killed, overlap>>
  BY <1>2 DEF Emit
<1>4. c \in Command /\ c.at = (IF cmd[p].held THEN "mark" ELSE "idle")
  <2>1. CASE cmd[p].held
    <3>1. c = [at |-> "mark", batch |-> <<>>, cut |-> "line", held |-> FALSE]
      BY <2>1 DEF NoCommand
    <3>2. <<>> \in Seq(Row)
      BY EmptySeq
    <3> HIDE DEF c
    <3> QED BY <2>1, <3>1, <3>2 DEF Command, Commanded
  <2>2. CASE ~cmd[p].held
    BY <2>2, NoCommandIs
  <2> QED BY <2>1, <2>2
<1>5. r.held = cmd[p].held /\ r.report = EvalStore(cmd[p].batch)
  OBVIOUS
<1> HIDE DEF c, r
<1>6. Moves(p, c)
  BY <1>3, <1>4 DEF Moves
<1>7. cmd'[p] = c /\ \A q \in Commands \ {p} : cmd'[q] = cmd[q]
  BY <1>2, <1>6, Moved
<1>8. /\ IsSequence(reports)' /\ N \in Nat /\ DOMAIN reports = 1..N /\ DOMAIN reports' = 1..(N + 1)
      /\ reports'[N + 1] = r /\ \A n \in 1..N : reports'[n] = reports[n]
  BY <1>1, <1>3, Reported DEF LabelTypeOK
<1> HIDE DEF N
<1>9. HeldReports' = IF cmd[p].held THEN HeldReports \cup {N + 1} ELSE HeldReports
  <2>1. \A n \in 1..(N + 1) : n = N + 1 \/ n \in 1..N
    BY <1>8
  <2>2. \A n \in HeldReports' : n \in HeldReports \/ (n = N + 1 /\ cmd[p].held)
    BY <1>5, <1>8, <2>1 DEF HeldReports
  <2>3. \A n \in HeldReports : n \in HeldReports'
    BY <1>8 DEF HeldReports
  <2>4. cmd[p].held => N + 1 \in HeldReports'
    <3>1. N + 1 \in DOMAIN reports'
      BY <1>8
    <3>2. cmd[p].held => reports'[N + 1].held
      BY <1>5, <1>8, Zenon
    <3> QED BY <3>1, <3>2 DEF HeldReports
  <2> QED BY <2>2, <2>3, <2>4
<1>10. ASSUME ~overlap' PROVE ~overlap /\ OthersIdle(p) /\ Stands(p)'
  <2>1. ~overlap /\ OthersIdle(p)
    BY <1>1, <1>3, <1>10, OthersAreIdle
  <2>2. cmd'[p].at \in {"mark", "idle"}
    BY <1>4, <1>7
  <2>3. Stands(p)'
    BY <2>2 DEF Stands
  <2> QED BY <2>1, <2>3
<1>11. LabelTypeOK' /\ OneAtATime' /\ AllStand'
  <2>1. FileTypeOK' /\ burned' \in BOOLEAN /\ overlap' \in BOOLEAN /\ killed' \in Nat
    BY <1>1, <1>3 DEF LabelTypeOK, FileTypeOK
  <2> QED BY <1>1, <1>6, <1>8, <1>10, <2>1, MoveKeeps
<1>12. Stored' /\ Unspoiled'
  BY <1>1, <1>3, <1>6, FileStays
<1>13. ReportsAreSound'
  <2>1. ASSUME NEW n \in DOMAIN reports' PROVE \A f \in DOMAIN reports'[n].report : Sound(reports'[n].report[f])
    <3>1. CASE n \in 1..N
      BY <1>1, <1>8, <3>1 DEF ReportsAreSound
    <3>2. CASE n = N + 1
      <4>1. reports'[n].report = EvalStore(cmd[p].batch)
        BY <1>5, <1>8, <3>2
      <4> QED BY <1>2, <4>1, StoreIsEvaluated
    <3> QED BY <1>8, <3>1, <3>2
  <2> QED BY <2>1 DEF ReportsAreSound
<1>14. LookedAt'
  <2>1. burned' => HeldReports' # {}
    BY <1>1, <1>3, <1>9 DEF LookedAt
  <2>2. ASSUME NEW q \in Commands, cmd'[q].at = "mark" PROVE HeldReports' # {}
    <3>1. CASE q = p
      BY <1>4, <1>7, <1>9, <2>2, <3>1
    <3>2. CASE q # p
      BY <1>1, <1>7, <1>9, <2>2, <3>2 DEF LookedAt
    <3> QED BY <3>1, <3>2
  <2> QED BY <2>1, <2>2 DEF LookedAt
<1>15. LookedOnce'
  <2>1. SUFFICES ASSUME ~overlap', killed' = 0
                 PROVE  /\ \A m, n \in HeldReports' : m = n
                        /\ HeldReports' # {} => burned' \/ \E q \in Commands : cmd'[q].at = "mark"
                        /\ \A q \in Commands : cmd'[q].at = "emit" /\ cmd'[q].held => ~burned'
    BY DEF LookedOnce
  <2>2. /\ \A m, n \in HeldReports : m = n
        /\ HeldReports # {} => burned \/ \E q \in Commands : cmd[q].at = "mark"
        /\ cmd[p].held => ~burned
    BY <1>1, <1>3, <2>1 DEF LookedOnce
  <2>3. \A q \in Commands \ {p} : cmd[q].at = "idle"
    BY <1>10, <2>1 DEF OthersIdle
  <2>4. HeldReports # {} => burned
    BY <1>3, <2>2, <2>3
  <2>5. \A q \in Commands : cmd'[q].at # "emit"
    BY <1>4, <1>7, <2>3
  <2>6. CASE cmd[p].held
    <3>1. HeldReports' = {N + 1}
      BY <1>9, <2>2, <2>4, <2>6
    <3>2. cmd'[p].at = "mark"
      BY <1>4, <1>7, <2>6
    <3> QED BY <2>5, <3>1, <3>2
  <2>7. CASE ~cmd[p].held
    BY <1>3, <1>9, <2>2, <2>4, <2>5, <2>7
  <2> QED BY <2>6, <2>7
<1> QED BY <1>11, <1>12, <1>13, <1>14, <1>15 DEF StoreInv

LEMMA MarkKeeps ==
  ASSUME StoreInv, NEW p \in Commands, Mark(p)
  PROVE  StoreInv'
<1>1. /\ cmd[p].at = "mark" /\ burned' = TRUE /\ cmd' = [cmd EXCEPT ![p] = NoCommand]
      /\ UNCHANGED <<made, lines, end, half, reports, killed, overlap>>
  BY DEF Mark
<1>2. LabelTypeOK /\ OneAtATime /\ Stored /\ Unspoiled /\ AllStand /\ LookedAt /\ LookedOnce /\ ReportsAreSound
  BY DEF StoreInv
<1>3. Moves(p, NoCommand) /\ NoCommand.at = "idle"
  BY <1>1, NoCommandIs DEF Moves
<1>4. cmd'[p].at = "idle" /\ \A q \in Commands \ {p} : cmd'[q] = cmd[q]
  BY <1>2, <1>3, NoCommandIs, Moved DEF LabelTypeOK
<1>5. ASSUME ~overlap' PROVE ~overlap /\ OthersIdle(p) /\ Stands(p)'
  <2>1. ~overlap /\ OthersIdle(p)
    BY <1>1, <1>2, <1>5, OthersAreIdle
  <2>2. Stands(p)'
    BY <1>4 DEF Stands
  <2> QED BY <2>1, <2>2
<1>6. LabelTypeOK' /\ OneAtATime' /\ AllStand'
  <2>1. FileTypeOK' /\ IsSequence(reports)' /\ burned' \in BOOLEAN /\ overlap' \in BOOLEAN /\ killed' \in Nat
    BY <1>1, <1>2 DEF LabelTypeOK, FileTypeOK
  <2> QED BY <1>2, <1>3, <1>5, <2>1, MoveKeeps
<1>7. HeldReports' = HeldReports /\ HeldReports # {}
  <2>1. HeldReports' = HeldReports
    BY <1>1 DEF HeldReports
  <2>2. HeldReports # {}
    BY <1>1, <1>2 DEF LookedAt
  <2> QED BY <2>1, <2>2
<1>8. LookedAt' /\ ReportsAreSound'
  BY <1>1, <1>2, <1>7 DEF LookedAt, ReportsAreSound
<1>9. LookedOnce'
  <2>1. SUFFICES ASSUME ~overlap', killed' = 0
                 PROVE  (\A m, n \in HeldReports' : m = n) /\ \A q \in Commands : cmd'[q].at # "emit"
    BY <1>1 DEF LookedOnce
  <2>2. \A m, n \in HeldReports : m = n
    BY <1>1, <1>2, <2>1 DEF LookedOnce
  <2>3. \A q \in Commands : cmd'[q].at = "idle"
    BY <1>4, <1>5, <2>1 DEF OthersIdle
  <2> QED BY <1>7, <2>2, <2>3
<1>10. Stored' /\ Unspoiled'
  BY <1>1, <1>2, <1>3, FileStays
<1> QED BY <1>6, <1>8, <1>9, <1>10 DEF StoreInv

LEMMA StoreStarts == LabelInit => StoreInv
<1> SUFFICES ASSUME LabelInit PROVE StoreInv
  OBVIOUS
<1>1. /\ made = FALSE /\ lines = <<>> /\ end = <<>> /\ half = NoOne /\ burned = FALSE /\ reports = <<>> /\ killed = 0
      /\ overlap = FALSE /\ cmd = [p \in Commands |-> NoCommand]
  BY DEF LabelInit
<1>2. \A p \in Commands : cmd[p] = NoCommand /\ cmd[p].at = "idle"
  BY <1>1, NoCommandIs
<1>3. DOMAIN reports = {} /\ \A T : <<>> \in Seq(T)
  BY <1>1, EmptySeq
<1>4. FileTypeOK
  BY <1>1, <1>3 DEF FileTypeOK, Ends
<1>5. LabelTypeOK
  <2>1. cmd \in [Commands -> Command]
    BY <1>1, NoCommandIs
  <2> QED BY <1>1, <1>3, <1>4, <2>1 DEF LabelTypeOK, IsSequence
<1>6. OneAtATime /\ AllStand
  BY <1>1, <1>2 DEF OneAtATime, AllStand, Stands
<1>7. Rows = <<>> /\ DOMAIN Rows = {} /\ DOMAIN lines = {}
  BY <1>1, <1>4, RowsAre
<1>8. Stored /\ Unspoiled
  BY <1>1, <1>7 DEF Stored, Unspoiled, Consistent, OneSplit, OneLabel, OneSpoiled, Whole
<1>9. HeldReports = {} /\ ReportsAreSound
  BY <1>3 DEF HeldReports, ReportsAreSound
<1>10. LookedAt /\ LookedOnce
  BY <1>1, <1>2, <1>9 DEF LookedAt, LookedOnce
<1> QED BY <1>5, <1>6, <1>8, <1>9, <1>10 DEF StoreInv

LEMMA StoreGoesOn == StoreInv /\ [LabelNext]_lvars => StoreInv'
<1> SUFFICES ASSUME StoreInv, [LabelNext]_lvars PROVE StoreInv'
  OBVIOUS
<1>1. CASE UNCHANGED lvars
  <2>1. UNCHANGED <<made, lines, end, half, burned, cmd, reports, started, killed, overlap>>
    BY <1>1 DEF lvars
  <2>2. Rows' = Rows /\ Glues' = Glues /\ HeldReports' = HeldReports
    BY <2>1 DEF Rows, Glues, HeldReports
  <2>3. LabelTypeOK' /\ OneAtATime' /\ Stored' /\ Unspoiled'
    BY <2>1, <2>2 DEF StoreInv, LabelTypeOK, FileTypeOK, OneAtATime, Stored, Unspoiled
  <2>4. AllStand'
    <3>1. ASSUME NEW p \in Commands, Stands(p) PROVE Stands(p)'
      <4>1. AtItsPlace(p) => AtItsPlace(p)'
        BY <2>1, <2>2 DEF AtItsPlace
      <4> QED BY <2>1, <2>2, <3>1, <4>1 DEF Stands
    <3> QED BY <2>1, <3>1 DEF StoreInv, AllStand
  <2>5. LookedAt' /\ LookedOnce' /\ ReportsAreSound'
    BY <2>1, <2>2 DEF StoreInv, LookedAt, LookedOnce, ReportsAreSound
  <2> QED BY <2>3, <2>4, <2>5 DEF StoreInv
<1>2. CASE LabelNext
  <2>1. PICK p \in Commands :
          \/ \E roots \in Paths, hand \in Hands, split \in Splits,
                answer \in Answers, sure \in Sures : Label(p, roots, hand, split, answer, sure)
          \/ \E held \in BOOLEAN : Eval(p, held)
          \/ Recheck(p) \/ StartRow(p) \/ RestOfRow(p) \/ EndLine(p) \/ Emit(p) \/ Mark(p) \/ KillCommand(p)
    BY <1>2, Zenon DEF LabelNext
  <2> QED BY <2>1, LabelKeeps, EvalKeeps, RecheckKeeps, StartRowKeeps, RestOfRowKeeps, EndLineKeeps, EmitKeeps, MarkKeeps, KillKeeps
<1> QED BY <1>1, <1>2

LEMMA StoreHolds == LabelSpec => []StoreInv
<1> QED BY StoreStarts, StoreGoesOn, PTL DEF LabelSpec

LEMMA StoreIsPinned == StoreInv => LabelsArePinned
<1> SUFFICES ASSUME StoreInv, ~overlap
             PROVE  /\ \A m, n \in DOMAIN Rows : Rows[m] # Bad /\ Rows[n] # Bad =>
                         /\ Rows[m].root = Rows[n].root => Rows[m].split = Rows[n].split
                         /\ m # n => RecordKey(Rows[m]) # RecordKey(Rows[n])
                    /\ \A m, n \in DOMAIN lines : lines[m] = Bad /\ lines[n] = Bad => m = n
                    /\ killed = 0 => ~Contains(lines, Bad) /\ (end # <<>> => \E p \in Commands : cmd[p].at = "write")
  BY DEF LabelsArePinned
<1>1. OneSplit(Rows) /\ OneLabel(Rows) /\ OneSpoiled(lines)
  BY DEF StoreInv, Stored, Consistent
<1>2. ASSUME killed = 0 PROVE ~Contains(lines, Bad) /\ (end # <<>> => \E p \in Commands : cmd[p].at = "write")
  <2>1. Whole(lines) /\ (end # <<>> => \E p \in Commands : cmd[p].at = "write")
    BY <1>2 DEF StoreInv, Unspoiled
  <2>2. DOMAIN lines = 1..Len(lines)
    BY DEF StoreInv, LabelTypeOK, FileTypeOK
  <2> QED BY <2>1, <2>2 DEF Contains, Whole
<1> QED BY <1>1, <1>2 DEF OneSplit, OneLabel, OneSpoiled

LEMMA HeldOutIsOnce == StoreInv => HeldOutCommandReportsOnce
<1> SUFFICES ASSUME StoreInv PROVE HeldOutCommandReportsOnce
  OBVIOUS
<1>1. LookedAt /\ LookedOnce /\ ReportsAreSound
  BY DEF StoreInv
<1>2. ASSUME ~overlap, killed = 0 PROVE Cardinality(HeldReports) <= 1
  <2>1. \A m, n \in HeldReports : m = n
    BY <1>1, <1>2 DEF LookedOnce
  <2>2. CASE HeldReports = {}
    BY <2>2, FS_EmptySet
  <2>3. CASE HeldReports # {}
    <3>1. PICK n \in HeldReports : TRUE
      BY <2>3
    <3>2. HeldReports = {n}
      BY <2>1, <3>1
    <3>3. Cardinality(HeldReports) = 1
      BY <3>2, FS_Singleton
    <3> QED BY <3>3
  <2> QED BY <2>2, <2>3
<1>3. burned => HeldReports # {}
  BY <1>1 DEF LookedAt
<1>4. \A n \in DOMAIN reports : \A f \in DOMAIN reports[n].report :
        LET r == reports[n].report[f] IN
        /\ r.agreed <= r.compared /\ 2 * r.compared <= r.n
        /\ r.confident + r.uncertain <= r.compared /\ r.confidentAgreed <= r.agreed
  BY <1>1, Zenon DEF ReportsAreSound, Sound
<1>5. {n \in DOMAIN reports : reports[n].held} = HeldReports
  BY Zenon DEF HeldReports
<1> QED BY <1>2, <1>3, <1>4, <1>5, Zenon DEF HeldOutCommandReportsOnce

\* The label store keeps its variables' types, and no two commands are at work unless they
\* overlapped: lines are rows or such that no reader accepts (labels.py:87-123).
THEOREM LabelTypes == LabelSpec => [](LabelTypeOK /\ OneAtATime)
<1>1. StoreInv => LabelTypeOK /\ OneAtATime
  BY DEF StoreInv
<1> QED BY <1>1, StoreHolds, PTL

\* For any commands, annotators, features and traces, and any number of appends cut anywhere: of
\* commands that do not overlap, the rows that can be read give a root one split and an object one
\* label, at most one line before the last is spoiled, and none without a kill; `eval --held-out`
\* reports once unless one was killed (labels.py:87-123, cli.py:650-669).
THEOREM StoreStaysTrustworthy == LabelSpec => []StoreIsTrustworthy
<1>1. StoreInv => StoreIsTrustworthy
  BY StoreIsPinned, HeldOutIsOnce DEF StoreIsTrustworthy
<1> QED BY <1>1, StoreHolds, PTL

-----------------------------------------------------------------------------
(***************************************************************************)
(* The batch runner.  A unit waits in the queue, is held by a worker, is   *)
(* ready to be collected, or fills its place in the result.                *)
(***************************************************************************)
Waits(i) == \E k \in 1..Len(queue) : queue[k] = i
Held(i) == \E w \in Workers : working[w].unit = i
Ready(i) == \E k \in 1..Len(finished) : finished[k].index = i
Filled(i) == outcomes[i] # NoOutcome

QueuedOnce == \A k, l \in 1..Len(queue) : queue[k] = queue[l] => k = l
HeldOnce == \A v, w \in Busy : working[v].unit = working[w].unit => v = w
ReadyOnce == \A k, l \in 1..Len(finished) : finished[k].index = finished[l].index => k = l
AtOnePlace(i) ==
  /\ Waits(i) => ~Held(i) /\ ~Ready(i) /\ ~Filled(i)
  /\ Held(i) => ~Ready(i) /\ ~Filled(i)
  /\ Ready(i) => ~Filled(i)
  /\ Waits(i) \/ Held(i) \/ Ready(i) \/ Filled(i)
InOnePlace == QueuedOnce /\ HeldOnce /\ ReadyOnce /\ \A i \in DOMAIN Units : AtOnePlace(i)

ToldOnce ==
  /\ \A k, l \in 1..Len(told) : told[k] = told[l] => k = l
  /\ \A i \in DOMAIN Units : Filled(i) <=> \E k \in 1..Len(told) : told[k] = i

\* what an outcome says is what the unit did, or that the pool broke
Explained(o) == o = RunUnit(o.index, o.stats) \/ (broken /\ o = Crashed(o.index))
AllExplained ==
  /\ \A k \in 1..Len(finished) : Explained(finished[k])
  /\ \A i \in DOMAIN Units : Filled(i) => outcomes[i].index = i /\ Explained(outcomes[i])

\* what a process asked in units that are over, and what their outcomes say
Spent == [w \in Workers |-> IF w \in Busy THEN working[w].before ELSE asked[w]]
Accounts(r) ==
  /\ \A i \in DOMAIN Units : Filled(i) => r[i] = outcomes[i].stats
  /\ \A k \in 1..Len(finished) : r[finished[k].index] = finished[k].stats
  /\ \A i \in DOMAIN Units : Waits(i) \/ Held(i) => r[i] = 0
Balanced ==
  /\ \A w \in Busy : working[w].before <= asked[w]
  /\ ~broken => \E r \in [DOMAIN Units -> Nat] : Accounts(r) /\ Sums(r)[DOMAIN Units] = Sums(Spent)[Workers]

RunnerInv == RunnerTypeOK /\ InOnePlace /\ ToldOnce /\ AllExplained /\ Balanced

LEMMA UnitsAre ==
  /\ Len(Units) \in Nat /\ DOMAIN Units = 1..Len(Units) /\ IsFiniteSet(DOMAIN Units)
  /\ 0 \notin DOMAIN Units /\ IsFiniteSet(Workers) /\ NoOutcome \notin Outcome
<1>1. Units \in Seq(Range(Units)) /\ IsFiniteSet(Workers) /\ NoOutcome \notin Outcome
  BY RunnerAssumption
<1>2. Len(Units) \in Nat /\ DOMAIN Units = 1..Len(Units)
  BY <1>1, LenProperties
<1>3. IsFiniteSet(1..Len(Units))
  BY <1>2, FS_Interval
<1> QED BY <1>1, <1>2, <1>3

LEMMA OutcomesAre ==
  ASSUME NEW i \in DOMAIN Units, NEW delta \in Nat
  PROVE  /\ RunUnit(i, delta) \in Outcome /\ RunUnit(i, delta).index = i /\ RunUnit(i, delta).stats = delta
         /\ Crashed(i) \in Outcome /\ Crashed(i).index = i /\ Crashed(i).stats = 0
<1> DEFINE wanted == {k \in DOMAIN Units[i].traces : Matches(Units[i].traces[k])}
           bad == {k \in wanted : Units[i].traces[k].fails}
           clean == {k \in wanted : \A b \in bad : k < b}
           n == Cardinality(clean)
           failing == (bad # {})
<1>1. RunUnit(i, delta) = [index |-> i, runs |-> n, error |-> failing, stats |-> delta]
  BY DEF RunUnit
<1>2. n \in Nat
  <2>1. i \in 1..Len(Units)
    BY UnitsAre
  <2>2. Units[i].traces \in Seq(Range(Units[i].traces))
    BY <2>1, RunnerAssumption
  <2>3. DOMAIN Units[i].traces = 1..Len(Units[i].traces) /\ Len(Units[i].traces) \in Nat
    BY <2>2, LenProperties
  <2>4. IsFiniteSet(DOMAIN Units[i].traces)
    BY <2>3, FS_Interval
  <2>5. clean \subseteq DOMAIN Units[i].traces
    OBVIOUS
  <2> HIDE DEF clean
  <2>6. IsFiniteSet(clean)
    BY <2>4, <2>5, FS_Subset
  <2> QED BY <2>6, FS_CardinalityType
<1>3. failing \in BOOLEAN
  OBVIOUS
<1> HIDE DEF n, failing
<1>4. [index |-> i, runs |-> n, error |-> failing, stats |-> delta] \in Outcome
  BY <1>2, <1>3 DEF Outcome
<1>5. Crashed(i) \in Outcome /\ Crashed(i).index = i /\ Crashed(i).stats = 0
  BY DEF Crashed, Outcome
<1> QED BY <1>1, <1>4, <1>5

LEMMA JobsAreMany ==
  ASSUME NEW j \in Jobs
  PROVE  ResolveJobs(j, Len(Units)) \in Nat
<1> DEFINE n == Len(Units)
<1>1. n \in Nat /\ j \in Nat /\ Cpus \in Nat
  BY UnitsAre, RunnerAssumption
<1>2. \A a, b \in Nat : Min({a, b}) \in Nat
  <2> SUFFICES ASSUME NEW a \in Nat, NEW b \in Nat PROVE Min({a, b}) \in Nat
    OBVIOUS
  <2> DEFINE S == {a, b}
  <2>1. S \subseteq Nat /\ S # {}
    OBVIOUS
  <2> HIDE DEF S
  <2>2. Min(S) \in S
    BY <2>1, Minimum
  <2> QED BY <2>1, <2>2 DEF S
<1>3. \A a \in Nat : Max({1, a}) \in Nat
  <2> SUFFICES ASSUME NEW a \in Nat PROVE Max({1, a}) \in Nat
    OBVIOUS
  <2> DEFINE S == {1, a}
  <2>1. S \subseteq 0..(a + 1) /\ S # {} /\ a + 1 \in Nat
    OBVIOUS
  <2> HIDE DEF S
  <2>2. Max(S) \in S
    BY <2>1, Maximum
  <2> QED BY <2>1, <2>2 DEF S
<1> HIDE DEF n
<1>4. Min({j, n}) \in Nat /\ Max({1, Min({Cpus, n})}) \in Nat
  BY <1>1, <1>2, <1>3
<1>5. ResolveJobs(j, n) \in Nat
  BY <1>4 DEF ResolveJobs
<1> QED BY <1>5 DEF n

\* Whoever submits the units, each is submitted once.
LEMMA FirstQueue ==
  ASSUME RunnerInit
  PROVE  queue \in Seq(DOMAIN Units) /\ QueuedOnce /\ \A i \in DOMAIN Units : Waits(i)
<1>1. Len(Units) \in Nat /\ DOMAIN Units = 1..Len(Units)
  BY UnitsAre
<1>2. /\ queue \in [DOMAIN Units -> DOMAIN Units]
      /\ \A m, n \in DOMAIN Units : queue[m] = queue[n] => m = n
      /\ \A i \in DOMAIN Units : \E k \in DOMAIN Units : queue[k] = i
  <2>1. CASE queue = [i \in DOMAIN Units |-> i]
    BY <2>1
  <2>2. CASE queue \in LargestFirst
    <3>1. /\ queue \in [DOMAIN Units -> DOMAIN Units] /\ Range(queue) = DOMAIN Units
          /\ \A m, n \in DOMAIN Units : m < n => Ahead(queue[m], queue[n])
      BY <2>2 DEF LargestFirst
    <3>2. ASSUME NEW i \in DOMAIN Units PROVE ~Ahead(i, i)
      <4>1. Units[i].size \in Nat /\ i \in Nat
        BY <1>1, RunnerAssumption
      <4> QED BY <4>1 DEF Ahead
    <3>3. ASSUME NEW m \in DOMAIN Units, NEW n \in DOMAIN Units, queue[m] = queue[n] PROVE m = n
      <4>1. ~(m < n) /\ ~(n < m)
        BY <3>1, <3>2, <3>3
      <4> QED BY <1>1, <4>1
    <3>4. \A i \in DOMAIN Units : \E k \in DOMAIN Units : queue[k] = i
      BY <3>1 DEF Range
    <3> QED BY <3>1, <3>3, <3>4
  <2>3. queue = [i \in DOMAIN Units |-> i] \/ queue \in LargestFirst
    BY DEF RunnerInit
  <2> QED BY <2>1, <2>2, <2>3
<1>3. queue \in Seq(DOMAIN Units) /\ Len(queue) = Len(Units)
  <2>1. queue \in [1..Len(Units) -> DOMAIN Units]
    BY <1>1, <1>2
  <2>2. queue \in Seq(DOMAIN Units)
    BY <1>1, <2>1, SeqDef
  <2>3. DOMAIN queue = 1..Len(Units)
    BY <2>1
  <2> QED BY <1>1, <2>2, <2>3, LenProperties
<1> QED BY <1>1, <1>2, <1>3 DEF QueuedOnce, Waits

LEMMA RunnerStarts == RunnerInit => RunnerInv
<1> SUFFICES ASSUME RunnerInit PROVE RunnerInv
  OBVIOUS
<1> DEFINE U == DOMAIN Units
<1>1. queue \in Seq(U) /\ QueuedOnce /\ \A i \in U : Waits(i)
  BY FirstQueue
<1>2. /\ working = [w \in Workers |-> Free] /\ asked = [w \in Workers |-> 0]
      /\ finished = <<>> /\ outcomes = [i \in U |-> NoOutcome] /\ told = <<>> /\ broken = FALSE /\ deaths = 0
  BY DEF RunnerInit
<1>3. jobs \in Nat
  <2>1. PICK j \in Jobs : jobs = ResolveJobs(j, Len(Units))
    BY DEF RunnerInit
  <2> QED BY <2>1, JobsAreMany
<1>4. Busy = {} /\ \A w \in Workers : working[w].unit = 0
  BY <1>2 DEF Busy, Free
<1>5. RunnerTypeOK
  <2>1. working \in [Workers -> [unit : U \cup {0}, before : Nat]] /\ asked \in [Workers -> Nat]
    BY <1>2 DEF Free
  <2>2. finished \in Seq(Outcome) /\ told \in Seq(U)
    BY <1>2, EmptySeq
  <2>3. outcomes \in [U -> Outcome \cup {NoOutcome}]
    BY <1>2
  <2>4. broken \in BOOLEAN /\ deaths \in Nat
    BY <1>2
  <2> QED BY <1>1, <1>3, <2>1, <2>2, <2>3, <2>4 DEF RunnerTypeOK
<1>6. \A i \in U : ~Held(i) /\ ~Ready(i) /\ ~Filled(i)
  <2>1. Len(finished) = 0
    BY <1>2
  <2>2. 0 \notin U
    BY UnitsAre
  <2> QED BY <1>2, <1>4, <2>1, <2>2 DEF Held, Ready, Filled
<1>7. InOnePlace
  <2>1. ReadyOnce
    BY <1>2 DEF ReadyOnce
  <2>2. HeldOnce
    BY <1>4 DEF HeldOnce
  <2> QED BY <1>1, <1>6, <2>1, <2>2 DEF InOnePlace, AtOnePlace
<1>8. ToldOnce
  BY <1>2, <1>6 DEF ToldOnce
<1>9. AllExplained
  BY <1>2, <1>6 DEF AllExplained
<1>10. Balanced
  <2> DEFINE r == [i \in U |-> 0]
  <2>1. Accounts(r)
    BY <1>2, <1>6 DEF Accounts
  <2>2. Spent \in [Workers -> {0}]
    BY <1>2, <1>4 DEF Spent
  <2>3. r \in [U -> {0}] /\ r \in [U -> Nat]
    OBVIOUS
  <2> HIDE DEF r
  <2>4. Sums(r)[U] = 0 /\ Sums(Spent)[Workers] = 0
    BY <2>2, <2>3, UnitsAre, SumOfNone
  <2>5. \A w \in Busy : working[w].before <= asked[w]
    BY <1>4
  <2> QED BY <2>1, <2>3, <2>4, <2>5 DEF Balanced
<1> QED BY <1>5, <1>7, <1>8, <1>9, <1>10 DEF RunnerInv

LEMMA RunnerFacts ==
  ASSUME RunnerTypeOK
  PROVE  /\ Len(queue) \in Nat /\ \A k \in 1..Len(queue) : queue[k] \in DOMAIN Units
         /\ Len(finished) \in Nat /\ \A k \in 1..Len(finished) : finished[k] \in Outcome /\ finished[k].index \in DOMAIN Units
         /\ Len(told) \in Nat /\ \A k \in 1..Len(told) : told[k] \in DOMAIN Units
         /\ \A w \in Workers : working[w].before \in Nat /\ asked[w] \in Nat
         /\ \A w \in Busy : working[w].unit \in DOMAIN Units
         /\ \A i \in DOMAIN Units : outcomes[i] # NoOutcome => outcomes[i] \in Outcome
         /\ jobs \in Nat /\ deaths \in Nat /\ broken \in BOOLEAN
<1>1. Len(queue) \in Nat /\ \A k \in 1..Len(queue) : queue[k] \in DOMAIN Units
  BY DEF RunnerTypeOK
<1>2. Len(finished) \in Nat /\ \A k \in 1..Len(finished) : finished[k] \in Outcome
  BY DEF RunnerTypeOK
<1>3. Len(told) \in Nat /\ \A k \in 1..Len(told) : told[k] \in DOMAIN Units
  BY DEF RunnerTypeOK
<1>4. \A o \in Outcome : o.index \in DOMAIN Units
  BY DEF Outcome
<1>5. /\ \A w \in Workers : working[w].before \in Nat /\ asked[w] \in Nat
      /\ \A w \in Busy : working[w].unit \in DOMAIN Units
  BY DEF RunnerTypeOK, Busy
<1> QED BY <1>1, <1>2, <1>3, <1>4, <1>5 DEF RunnerTypeOK

\* What does not move keeps what depends on it.
LEMMA WaitsStay == UNCHANGED queue => (QueuedOnce' <=> QueuedOnce) /\ \A i : Waits(i)' <=> Waits(i)
BY DEF QueuedOnce, Waits
LEMMA ReadyStays == UNCHANGED finished => (ReadyOnce' <=> ReadyOnce) /\ \A i : Ready(i)' <=> Ready(i)
BY DEF ReadyOnce, Ready
LEMMA HeldStay == UNCHANGED working => Busy' = Busy /\ (HeldOnce' <=> HeldOnce) /\ \A i : Held(i)' <=> Held(i)
BY DEF Busy, HeldOnce, Held
LEMMA FilledStay == UNCHANGED <<outcomes, told>> => (ToldOnce' <=> ToldOnce) /\ \A i : Filled(i)' <=> Filled(i)
BY DEF ToldOnce, Filled
LEMMA ExplainedStay == UNCHANGED <<finished, outcomes, broken>> => (AllExplained' <=> AllExplained)
BY DEF AllExplained, Explained, Filled

LEMMA TakeKeeps ==
  ASSUME RunnerInv, NEW w \in Workers, Take(w)
  PROVE  RunnerInv'
<1> DEFINE U == DOMAIN Units
           i == Head(queue)
           job == [unit |-> i, before |-> asked[w]]
<1>1. /\ queue # <<>> /\ w \notin Busy /\ working[w].unit = 0
      /\ working' = [working EXCEPT ![w] = job] /\ queue' = Tail(queue)
      /\ UNCHANGED <<jobs, asked, finished, outcomes, told, broken, deaths>>
  BY DEF Take, Busy
<1>2. RunnerTypeOK /\ InOnePlace /\ ToldOnce /\ AllExplained /\ Balanced
  BY DEF RunnerInv
<1>3. /\ Len(queue) \in Nat \ {0} /\ i = queue[1] /\ i \in U
      /\ queue' \in Seq(U) /\ Len(queue') = Len(queue) - 1
      /\ \A k \in 1..(Len(queue) - 1) : queue'[k] = queue[k + 1]
  <2>1. queue \in Seq(U) /\ queue # <<>>
    BY <1>1, <1>2 DEF RunnerTypeOK
  <2> QED BY <1>1, <2>1, HeadTailProperties
<1>4. job \in [unit : U \cup {0}, before : Nat] /\ job.unit = i /\ job.before = asked[w]
  <2>1. asked[w] \in Nat
    BY <1>2 DEF RunnerTypeOK
  <2> QED BY <1>3, <2>1
<1>5. working \in [Workers -> [unit : U \cup {0}, before : Nat]]
  BY <1>2 DEF RunnerTypeOK
<1> HIDE DEF i, job
<1>6. /\ working'[w] = job /\ \A v \in Workers : v # w => working'[v] = working[v]
      /\ working' \in [Workers -> [unit : U \cup {0}, before : Nat]]
  BY <1>1, <1>4, <1>5
<1>7. RunnerTypeOK'
  BY <1>1, <1>2, <1>3, <1>6 DEF RunnerTypeOK
<1>8. i # 0
  BY <1>3, UnitsAre
<1>9. /\ \A v \in Workers : v \in Busy' <=> v \in Busy \/ v = w
      /\ \A v \in Busy : v # w /\ v \in Workers
  BY <1>1, <1>4, <1>6, <1>8 DEF Busy
<1>10. Waits(i) /\ QueuedOnce' /\ \A j \in U : Waits(j)' <=> Waits(j) /\ j # i
  <2>1. QueuedOnce
    BY <1>2 DEF InOnePlace
  <2>2. Waits(i)
    BY <1>3 DEF Waits
  <2>3. QueuedOnce'
    <3>1. Len(queue) \in Nat /\ Len(queue') = Len(queue) - 1
      BY <1>3
    <3>2. SUFFICES ASSUME NEW k \in 1..(Len(queue) - 1), NEW l \in 1..(Len(queue) - 1), queue'[k] = queue'[l]
                   PROVE  k = l
      BY <3>1 DEF QueuedOnce
    <3>3. k + 1 \in 1..Len(queue) /\ l + 1 \in 1..Len(queue)
      BY <3>1
    <3>4. queue[k + 1] = queue[l + 1]
      BY <1>3, <3>2
    <3>5. k + 1 = l + 1
      BY <2>1, <3>3, <3>4 DEF QueuedOnce
    <3> QED BY <3>5
  <2>4. ASSUME NEW j \in U PROVE Waits(j)' <=> Waits(j) /\ j # i
    <3>1. ASSUME Waits(j)' PROVE Waits(j) /\ j # i
      <4>1. PICK k \in 1..(Len(queue) - 1) : queue'[k] = j
        BY <1>3, <3>1 DEF Waits
      <4>2. k + 1 \in 1..Len(queue) /\ queue[k + 1] = j /\ k + 1 # 1 /\ 1 \in 1..Len(queue)
        BY <1>3, <4>1
      <4>3. queue[1] # queue[k + 1]
        BY <2>1, <4>2 DEF QueuedOnce
      <4> QED BY <1>3, <4>2, <4>3 DEF Waits
    <3>2. ASSUME Waits(j), j # i PROVE Waits(j)'
      <4>1. PICK k \in 1..Len(queue) : queue[k] = j
        BY <3>2 DEF Waits
      <4>2. k # 1
        BY <1>3, <3>2, <4>1
      <4>3. k - 1 \in 1..(Len(queue) - 1) /\ (k - 1) + 1 = k
        BY <1>3, <4>1, <4>2
      <4>4. queue'[k - 1] = j
        BY <1>3, <4>1, <4>3
      <4> QED BY <1>3, <4>3, <4>4 DEF Waits
    <3> QED BY <3>1, <3>2
  <2> QED BY <2>2, <2>3, <2>4
<1>11. \A j \in U : Held(j)' <=> Held(j) \/ j = i
  <2>1. 0 \notin U
    BY UnitsAre
  <2> QED BY <1>1, <1>4, <1>6, <2>1 DEF Held
<1>12. (\A j \in U : (Ready(j)' <=> Ready(j)) /\ (Filled(j)' <=> Filled(j))) /\ ReadyOnce' /\ ToldOnce' /\ AllExplained'
  BY <1>1, <1>2, ReadyStays, FilledStay, ExplainedStay DEF InOnePlace
<1>13. HeldOnce'
  <2>1. HeldOnce /\ AtOnePlace(i)
    BY <1>2, <1>3 DEF InOnePlace
  <2>2. \A v \in Busy : working[v].unit # i
    BY <1>9, <1>10, <2>1 DEF AtOnePlace, Held
  <2>3. Busy' \subseteq Workers
    BY DEF Busy
  <2> QED BY <1>4, <1>6, <1>9, <2>1, <2>2, <2>3 DEF HeldOnce
<1>14. InOnePlace'
  <2>1. ASSUME NEW j \in U PROVE AtOnePlace(j)'
    <3>1. AtOnePlace(j) /\ Waits(i)
      BY <1>2, <1>10 DEF InOnePlace
    <3> QED BY <1>10, <1>11, <1>12, <3>1 DEF AtOnePlace
  <2> QED BY <1>10, <1>12, <1>13, <2>1 DEF InOnePlace
<1>15. Balanced'
  <2>1. Spent' = Spent
    <3>1. \A v \in Workers : (IF v \in Busy' THEN working'[v].before ELSE asked'[v]) = IF v \in Busy THEN working[v].before ELSE asked[v]
      BY <1>1, <1>4, <1>6, <1>9
    <3> QED BY <3>1 DEF Spent
  <2>2. \A v \in Busy' : working'[v].before <= asked'[v]
    <3>1. asked[w] \in Nat
      BY <1>2 DEF RunnerTypeOK
    <3>2. Busy' \subseteq Workers
      BY DEF Busy
    <3> QED BY <1>1, <1>2, <1>4, <1>6, <1>9, <3>1, <3>2 DEF Balanced
  <2>3. ASSUME NEW r, Accounts(r) PROVE Accounts(r)'
    <3>1. \A j \in U : (Waits(j) \/ Held(j))' => Waits(j) \/ Held(j)
      BY <1>10, <1>11
    <3>2. outcomes' = outcomes /\ finished' = finished
      BY <1>1
    <3> QED BY <1>12, <2>3, <3>1, <3>2 DEF Accounts
  <2> QED BY <1>1, <1>2, <2>1, <2>2, <2>3 DEF Balanced
<1> QED BY <1>7, <1>12, <1>14, <1>15 DEF RunnerInv

LEMMA SpentIsTyped ==
  ASSUME RunnerTypeOK
  PROVE  Spent \in [Workers -> Nat]
<1>1. \A w \in Workers : (IF w \in Busy THEN working[w].before ELSE asked[w]) \in Nat
  BY RunnerFacts
<1> QED BY <1>1 DEF Spent

LEMMA AskingKeeps ==
  ASSUME RunnerInv, NEW w \in Workers, AskSystemOne(w)
  PROVE  RunnerInv'
<1>1. /\ w \in Busy /\ asked' = [asked EXCEPT ![w] = @ + 1]
      /\ UNCHANGED <<jobs, queue, working, finished, outcomes, told, broken, deaths>>
  BY DEF AskSystemOne
<1>2. RunnerTypeOK /\ InOnePlace /\ ToldOnce /\ AllExplained /\ Balanced
  BY DEF RunnerInv
<1>3. asked \in [Workers -> Nat] /\ \A v \in Workers : working[v].before \in Nat
  BY <1>2 DEF RunnerTypeOK
<1>4. /\ asked' \in [Workers -> Nat] /\ asked'[w] = asked[w] + 1
      /\ \A v \in Workers : v # w => asked'[v] = asked[v]
  BY <1>1, <1>3
<1>5. RunnerTypeOK'
  BY <1>1, <1>2, <1>4 DEF RunnerTypeOK
<1>6. Busy' = Busy /\ Busy \subseteq Workers
  BY <1>1 DEF Busy
<1>7. \A i : (Waits(i)' <=> Waits(i)) /\ (Held(i)' <=> Held(i)) /\ (Ready(i)' <=> Ready(i)) /\ (Filled(i)' <=> Filled(i))
  BY <1>1, WaitsStay, HeldStay, ReadyStays, FilledStay
<1>8. ToldOnce' /\ AllExplained'
  BY <1>1, <1>2, FilledStay, ExplainedStay
<1>9. InOnePlace'
  <2>1. QueuedOnce' /\ HeldOnce' /\ ReadyOnce'
    BY <1>1, <1>2, WaitsStay, HeldStay, ReadyStays DEF InOnePlace
  <2> QED BY <1>2, <1>7, <2>1 DEF InOnePlace, AtOnePlace
<1>10. Balanced'
  <2>1. Spent' = Spent
    <3>1. \A v \in Workers : (IF v \in Busy' THEN working'[v].before ELSE asked'[v]) = IF v \in Busy THEN working[v].before ELSE asked[v]
      BY <1>1, <1>4, <1>6
    <3> QED BY <3>1 DEF Spent
  <2>2. \A v \in Busy' : working'[v].before <= asked'[v]
    <3>1. \A v \in Busy : working[v].before <= asked[v] /\ asked[v] <= asked'[v] /\ asked[v] \in Nat /\ asked'[v] \in Nat
      BY <1>2, <1>3, <1>4, <1>6 DEF Balanced
    <3> QED BY <1>1, <1>3, <1>6, <3>1
  <2>3. \A r : Accounts(r)' <=> Accounts(r)
    BY <1>1, <1>7 DEF Accounts
  <2> QED BY <1>1, <1>2, <2>1, <2>2, <2>3 DEF Balanced
<1> QED BY <1>5, <1>8, <1>9, <1>10 DEF RunnerInv

LEMMA FinishKeeps ==
  ASSUME RunnerInv, NEW w \in Workers, Finish(w)
  PROVE  RunnerInv'
<1> DEFINE U == DOMAIN Units
           i == working[w].unit
           d == asked[w] - working[w].before
           o == RunUnit(i, d)
<1>1. /\ w \in Busy /\ finished' = Append(finished, o) /\ working' = [working EXCEPT ![w] = Free]
      /\ UNCHANGED <<jobs, queue, asked, outcomes, told, broken, deaths>>
  BY DEF Finish
<1>2. RunnerTypeOK /\ InOnePlace /\ ToldOnce /\ AllExplained /\ Balanced
  BY DEF RunnerInv
<1>3. i \in U /\ i # 0 /\ Held(i)
  BY <1>1, <1>2, RunnerFacts, UnitsAre DEF Held
<1>4. d \in Nat /\ working[w].before \in Nat /\ asked[w] \in Nat /\ asked[w] = working[w].before + d
  <2>1. working[w].before \in Nat /\ asked[w] \in Nat
    BY <1>2 DEF RunnerTypeOK
  <2>2. working[w].before <= asked[w]
    BY <1>1, <1>2 DEF Balanced
  <2> QED BY <2>1, <2>2
<1> HIDE DEF d
<1>5. o \in Outcome /\ o.index = i /\ o.stats = d
  BY <1>3, <1>4, OutcomesAre
<1>6. o = RunUnit(o.index, o.stats)
  BY <1>5
<1> HIDE DEF o
<1>7. /\ Len(finished) \in Nat /\ finished' \in Seq(Outcome) /\ Len(finished') = Len(finished) + 1
      /\ finished'[Len(finished) + 1] = o /\ \A k \in 1..Len(finished) : finished'[k] = finished[k]
  <2>1. finished \in Seq(Outcome)
    BY <1>2 DEF RunnerTypeOK
  <2> QED BY <1>1, <1>5, <2>1, AppendProperties, LenProperties
<1>8. /\ working'[w].unit = 0 /\ \A v \in Workers : v # w => working'[v] = working[v]
      /\ working' \in [Workers -> [unit : U \cup {0}, before : Nat]]
  <2>1. Free \in [unit : U \cup {0}, before : Nat] /\ Free.unit = 0
    BY DEF Free
  <2>2. working \in [Workers -> [unit : U \cup {0}, before : Nat]]
    BY <1>2 DEF RunnerTypeOK
  <2> HIDE DEF i
  <2> QED BY <1>1, <2>1, <2>2
<1>9. RunnerTypeOK'
  BY <1>1, <1>2, <1>7, <1>8 DEF RunnerTypeOK
<1>10. /\ \A v \in Workers : v \in Busy' <=> v \in Busy /\ v # w
       /\ Busy \subseteq Workers /\ Busy' \subseteq Workers
  BY <1>8 DEF Busy
<1>11. HeldOnce /\ QueuedOnce /\ ReadyOnce /\ \A j \in U : AtOnePlace(j)
  BY <1>2 DEF InOnePlace
<1>12. \A j \in U : Held(j)' <=> Held(j) /\ j # i
  <2>1. 0 \notin U
    BY UnitsAre
  <2>2. \A v \in Workers : v # w => working[v].unit # i
    BY <1>1, <1>3, <1>11 DEF HeldOnce, Busy
  <2>3. ASSUME NEW j \in U PROVE Held(j)' <=> Held(j) /\ j # i
    <3>1. ASSUME Held(j)' PROVE Held(j) /\ j # i
      <4>1. PICK v \in Workers : working'[v].unit = j
        BY <3>1 DEF Held
      <4>2. v # w /\ working[v].unit = j
        BY <1>8, <2>1, <2>3, <4>1
      <4> QED BY <2>2, <4>2 DEF Held
    <3>2. ASSUME Held(j), j # i PROVE Held(j)'
      <4>1. PICK v \in Workers : working[v].unit = j
        BY <3>2 DEF Held
      <4>2. v # w
        BY <3>2, <4>1
      <4> QED BY <1>8, <4>1, <4>2 DEF Held
    <3> QED BY <3>1, <3>2
  <2> QED BY <2>3
<1>13. ~Ready(i) /\ ~Filled(i) /\ ~Waits(i)
  BY <1>3, <1>11 DEF AtOnePlace
<1>14. ReadyOnce' /\ \A j \in U : Ready(j)' <=> Ready(j) \/ j = i
  <2>1. \A k \in 1..Len(finished) : finished[k].index # i
    BY <1>13 DEF Ready
  <2>2. \A k \in 1..Len(finished') : k \in 1..Len(finished) \/ k = Len(finished) + 1
    BY <1>7
  <2>3. ReadyOnce'
    BY <1>5, <1>7, <1>11, <2>1, <2>2 DEF ReadyOnce
  <2>4. Len(finished) + 1 \in 1..Len(finished') /\ \A k \in 1..Len(finished) : k \in 1..Len(finished')
    BY <1>7
  <2>5. \A j \in U : Ready(j)' <=> Ready(j) \/ j = i
    BY <1>5, <1>7, <2>2, <2>4 DEF Ready
  <2> QED BY <2>3, <2>5
<1>15. /\ QueuedOnce' /\ ToldOnce'
       /\ \A j \in U : (Waits(j)' <=> Waits(j)) /\ (Filled(j)' <=> Filled(j))
  BY <1>1, <1>2, <1>11, WaitsStay, FilledStay
<1>16. HeldOnce'
  BY <1>8, <1>10, <1>11 DEF HeldOnce
<1>17. InOnePlace'
  <2>1. ASSUME NEW j \in U PROVE AtOnePlace(j)'
    <3>1. AtOnePlace(j) /\ Held(i)
      BY <1>3, <1>11
    <3> QED BY <1>12, <1>14, <1>15, <3>1 DEF AtOnePlace
  <2> QED BY <1>14, <1>15, <1>16, <2>1 DEF InOnePlace
<1>18. AllExplained'
  <2>1. \A p : Explained(p)' <=> Explained(p)
    BY <1>1 DEF Explained
  <2>2. Explained(o)
    BY <1>6 DEF Explained
  <2>3. \A k \in 1..Len(finished') : Explained(finished'[k])
    <3>1. \A k \in 1..Len(finished') : k \in 1..Len(finished) \/ k = Len(finished) + 1
      BY <1>7
    <3> QED BY <1>2, <1>7, <2>2, <3>1 DEF AllExplained
  <2>4. outcomes' = outcomes
    BY <1>1
  <2> QED BY <1>2, <1>15, <2>1, <2>3, <2>4 DEF AllExplained
<1>19. Balanced'
  <2>1. \A v \in Busy' : working'[v].before <= asked'[v]
    BY <1>1, <1>2, <1>8, <1>10 DEF Balanced
  <2>2. ASSUME ~broken PROVE \E r \in [U -> Nat] : Accounts(r)' /\ Sums(r)[U] = Sums(Spent')[Workers]
    <3>1. PICK r \in [U -> Nat] : Accounts(r) /\ Sums(r)[U] = Sums(Spent)[Workers]
      BY <1>2, <2>2 DEF Balanced
    <3>2. PICK s \in [U -> Nat] : s[i] = d /\ \A j \in U : j # i => s[j] = r[j]
      <4> DEFINE t == [r EXCEPT ![i] = d]
      <4>1. t \in [U -> Nat] /\ t[i] = d /\ \A j \in U : j # i => t[j] = r[j]
        BY <1>3, <1>4
      <4> HIDE DEF t
      <4> QED BY <4>1
    <3>3. r[i] = 0
      BY <1>3, <3>1 DEF Accounts
    <3>4. More(U, r, s, i, d)
      <4>1. ASSUME NEW j \in U PROVE s[j] = r[j] + (IF j = i THEN d ELSE 0)
        <5>1. r[j] \in Nat
          OBVIOUS
        <5> QED BY <1>4, <3>2, <3>3, <5>1
      <4> QED BY <3>2, <4>1 DEF More
    <3>5. More(Workers, Spent, Spent', w, d)
      <4>1. Spent \in [Workers -> Nat] /\ Spent' \in [Workers -> Nat]
        <5>1. \A v \in Workers : (IF v \in Busy' THEN working'[v].before ELSE asked'[v]) \in Nat
          BY <1>9 DEF RunnerTypeOK
        <5>2. Spent' \in [Workers -> Nat]
          BY <5>1 DEF Spent
        <5> QED BY <1>2, <5>2, SpentIsTyped
      <4>2. ASSUME NEW v \in Workers PROVE Spent'[v] = Spent[v] + (IF v = w THEN d ELSE 0)
        <5>1. Spent[v] = (IF v \in Busy THEN working[v].before ELSE asked[v]) /\ Spent'[v] = (IF v \in Busy' THEN working'[v].before ELSE asked'[v])
          BY DEF Spent
        <5>2. CASE v = w
          BY <1>1, <1>4, <1>10, <5>1, <5>2
        <5>3. CASE v # w
          <6>1. Spent'[v] = Spent[v] /\ Spent[v] \in Nat
            BY <1>1, <1>8, <1>10, <4>1, <5>1, <5>3
          <6> QED BY <5>3, <6>1
        <5> QED BY <5>2, <5>3
      <4> QED BY <4>1, <4>2 DEF More
    <3>6. Sums(s)[U] = Sums(r)[U] + d
      BY <1>3, <1>4, <3>4, UnitsAre, SumOfMore
    <3>7. Sums(Spent')[Workers] = Sums(Spent)[Workers] + d
      BY <1>4, <3>5, UnitsAre, SumOfMore
    <3>8. Accounts(s)'
      <4>1. ASSUME NEW j \in U, Filled(j)' PROVE s[j] = outcomes'[j].stats
        <5>1. j # i /\ Filled(j)
          BY <1>13, <1>15, <4>1
        <5> QED BY <1>1, <3>1, <3>2, <5>1 DEF Accounts
      <4>2. ASSUME NEW k \in 1..Len(finished') PROVE s[finished'[k].index] = finished'[k].stats
        <5>1. CASE k = Len(finished) + 1
          BY <1>5, <1>7, <3>2, <5>1
        <5>2. CASE k \in 1..Len(finished)
          <6>1. finished[k].index # i /\ finished[k].index \in U
            BY <1>2, <1>13, <5>2, RunnerFacts DEF Ready
          <6> QED BY <1>7, <3>1, <3>2, <5>2, <6>1 DEF Accounts
        <5> QED BY <1>7, <5>1, <5>2
      <4>3. ASSUME NEW j \in U, (Waits(j) \/ Held(j))' PROVE s[j] = 0
        <5>1. (Waits(j) \/ Held(j)) /\ j # i
          BY <1>12, <1>13, <1>15, <4>3
        <5> QED BY <3>1, <3>2, <5>1 DEF Accounts
      <4> QED BY <4>1, <4>2, <4>3 DEF Accounts
    <3> QED BY <3>1, <3>2, <3>6, <3>7, <3>8
  <2> QED BY <1>1, <2>1, <2>2 DEF Balanced
<1> QED BY <1>9, <1>15, <1>17, <1>18, <1>19 DEF RunnerInv

LEMMA CollectKeeps ==
  ASSUME RunnerInv, Collect
  PROVE  RunnerInv'
<1> DEFINE U == DOMAIN Units
<1>1. UNCHANGED <<jobs, queue, working, asked, broken, deaths>>
  BY DEF Collect
<1>2. RunnerTypeOK /\ InOnePlace /\ ToldOnce /\ AllExplained /\ Balanced
  BY DEF RunnerInv
<1>3. PICK k \in 1..Len(finished) :
        /\ outcomes' = [outcomes EXCEPT ![finished[k].index] = finished[k]]
        /\ told' = Append(told, finished[k].index)
        /\ finished' = RemoveAt(finished, k)
  <2>1. DOMAIN finished = 1..Len(finished)
    BY <1>2, LenProperties DEF RunnerTypeOK
  <2> QED BY <2>1 DEF Collect
<1> DEFINE o == finished[k]
           i == finished[k].index
<1>4. /\ o \in Outcome /\ i \in U /\ Ready(i) /\ finished \in Seq(Outcome) /\ Len(finished) \in Nat
      /\ \A n \in 1..Len(finished) : finished[n].index \in U
  BY <1>2, <1>3, RunnerFacts DEF Ready, RunnerTypeOK
<1>5. /\ finished' \in Seq(Outcome) /\ Len(finished') = Len(finished) - 1
      /\ \A n \in 1..(Len(finished) - 1) : finished'[n] = IF n < k THEN finished[n] ELSE finished[n + 1]
  BY <1>3, <1>4, RemovedAt
<1>6. /\ \A n \in 1..Len(finished') : \E m \in 1..Len(finished) : m # k /\ finished'[n] = finished[m]
      /\ \A m \in 1..Len(finished) : m # k => \E n \in 1..Len(finished') : finished'[n] = finished[m]
  <2>1. ASSUME NEW n \in 1..Len(finished') PROVE \E m \in 1..Len(finished) : m # k /\ finished'[n] = finished[m]
    <3>1. CASE n < k
      <4>1. n \in 1..Len(finished) /\ n # k /\ finished'[n] = finished[n]
        BY <1>4, <1>5, <3>1
      <4> QED BY <4>1
    <3>2. CASE ~(n < k)
      <4>1. n + 1 \in 1..Len(finished) /\ n + 1 # k /\ finished'[n] = finished[n + 1]
        BY <1>4, <1>5, <3>2
      <4> QED BY <4>1
    <3> QED BY <3>1, <3>2
  <2>2. ASSUME NEW m \in 1..Len(finished), m # k PROVE \E n \in 1..Len(finished') : finished'[n] = finished[m]
    <3>1. CASE m < k
      <4>1. m \in 1..(Len(finished) - 1) /\ finished'[m] = finished[m]
        BY <1>4, <1>5, <3>1
      <4> QED BY <1>5, <4>1
    <3>2. CASE ~(m < k)
      <4>1. m - 1 \in 1..(Len(finished) - 1) /\ ~(m - 1 < k) /\ (m - 1) + 1 = m
        BY <1>4, <2>2, <3>2
      <4>2. finished'[m - 1] = finished[m]
        BY <1>5, <4>1
      <4> QED BY <1>5, <4>1, <4>2
    <3> QED BY <3>1, <3>2
  <2> QED BY <2>1, <2>2
<1>7. /\ outcomes' \in [U -> Outcome \cup {NoOutcome}] /\ outcomes'[i] = o
      /\ \A j \in U : j # i => outcomes'[j] = outcomes[j]
  <2>1. outcomes \in [U -> Outcome \cup {NoOutcome}]
    BY <1>2 DEF RunnerTypeOK
  <2> QED BY <1>3, <1>4, <2>1
<1>8. /\ told' \in Seq(U) /\ Len(told) \in Nat /\ Len(told') = Len(told) + 1 /\ told'[Len(told) + 1] = i
      /\ \A n \in 1..Len(told) : told'[n] = told[n]
  <2>1. told \in Seq(U)
    BY <1>2 DEF RunnerTypeOK
  <2> QED BY <1>3, <1>4, <2>1, AppendProperties, LenProperties
<1>9. RunnerTypeOK'
  BY <1>1, <1>2, <1>5, <1>7, <1>8 DEF RunnerTypeOK
<1>10. HeldOnce /\ QueuedOnce /\ ReadyOnce /\ \A j \in U : AtOnePlace(j)
  BY <1>2 DEF InOnePlace
<1>11. HeldOnce' /\ QueuedOnce' /\ Busy' = Busy /\ Spent' = Spent
       /\ \A j \in U : (Waits(j)' <=> Waits(j)) /\ (Held(j)' <=> Held(j))
  <2>1. Busy' = Busy
    BY <1>1, HeldStay
  <2>2. Spent' = Spent
    BY <1>1, <2>1 DEF Spent
  <2> QED BY <1>1, <1>10, <2>1, <2>2, WaitsStay, HeldStay
<1>12. /\ ~Filled(i)
       /\ \A j \in U : Filled(j)' <=> Filled(j) \/ j = i
  <2>1. AtOnePlace(i) /\ Ready(i)
    BY <1>4, <1>10
  <2>2. ~Filled(i)
    BY <2>1 DEF AtOnePlace
  <2>3. o # NoOutcome
    BY <1>4, UnitsAre
  <2> QED BY <1>7, <2>2, <2>3 DEF Filled
<1>13. \A j \in U : Ready(j)' <=> Ready(j) /\ j # i
  <2>1. ASSUME NEW j \in U, Ready(j)' PROVE Ready(j) /\ j # i
    <3>1. PICK n \in 1..Len(finished') : finished'[n].index = j
      BY <2>1 DEF Ready
    <3>2. PICK m \in 1..Len(finished) : m # k /\ finished'[n] = finished[m]
      BY <1>6
    <3>3. finished[m].index # i
      BY <1>10, <3>2 DEF ReadyOnce
    <3> QED BY <3>1, <3>2, <3>3 DEF Ready
  <2>2. ASSUME NEW j \in U, Ready(j), j # i PROVE Ready(j)'
    <3>1. PICK m \in 1..Len(finished) : finished[m].index = j
      BY <2>2 DEF Ready
    <3>2. m # k
      BY <2>2, <3>1
    <3>3. PICK n \in 1..Len(finished') : finished'[n] = finished[m]
      BY <1>6, <3>2
    <3> QED BY <3>1, <3>3 DEF Ready
  <2> QED BY <2>1, <2>2
<1>14. ReadyOnce'
  <2> SUFFICES ASSUME NEW n \in 1..Len(finished'), NEW m \in 1..Len(finished'),
                      finished'[n].index = finished'[m].index
               PROVE  n = m
    BY DEF ReadyOnce
  <2>1. n \in Nat /\ m \in Nat /\ n \in 1..(Len(finished) - 1) /\ m \in 1..(Len(finished) - 1)
    BY <1>4, <1>5
  <2> DEFINE from(x) == IF x < k THEN x ELSE x + 1
  <2>2. from(n) \in 1..Len(finished) /\ from(m) \in 1..Len(finished)
    BY <1>4, <2>1
  <2>3. finished'[n] = finished[from(n)] /\ finished'[m] = finished[from(m)]
    BY <1>5, <2>1
  <2>4. from(n) = from(m)
    <3> HIDE DEF from
    <3> QED BY <1>10, <2>2, <2>3 DEF ReadyOnce
  <2> QED BY <1>3, <1>4, <2>1, <2>4
<1>15. InOnePlace'
  <2>1. ASSUME NEW j \in U PROVE AtOnePlace(j)'
    <3>1. AtOnePlace(j) /\ Ready(i)
      BY <1>4, <1>10
    <3> QED BY <1>11, <1>12, <1>13, <3>1 DEF AtOnePlace
  <2> QED BY <1>11, <1>14, <2>1 DEF InOnePlace
<1>16. ToldOnce'
  <2>1. \A n \in 1..Len(told') : n \in 1..Len(told) \/ n = Len(told) + 1
    BY <1>8
  <2>2. \A n \in 1..Len(told) : told[n] # i
    BY <1>2, <1>4, <1>12 DEF ToldOnce
  <2>3. \A n, m \in 1..Len(told') : told'[n] = told'[m] => n = m
    BY <1>2, <1>8, <2>1, <2>2 DEF ToldOnce
  <2>4. Len(told) + 1 \in 1..Len(told') /\ \A n \in 1..Len(told) : n \in 1..Len(told')
    BY <1>8
  <2>5. ASSUME NEW j \in U PROVE (\E n \in 1..Len(told') : told'[n] = j) <=> (\E n \in 1..Len(told) : told[n] = j) \/ j = i
    BY <1>8, <2>1, <2>4
  <2>6. \A j \in U : Filled(j)' <=> \E n \in 1..Len(told') : told'[n] = j
    BY <1>2, <1>12, <2>5 DEF ToldOnce
  <2> QED BY <2>3, <2>6 DEF ToldOnce
<1>17. AllExplained'
  <2>1. \A p : Explained(p)' <=> Explained(p)
    BY <1>1 DEF Explained
  <2>2. \A n \in 1..Len(finished') : Explained(finished'[n])
    BY <1>2, <1>6 DEF AllExplained
  <2>3. Explained(o)
    BY <1>2, <1>3 DEF AllExplained
  <2>4. ASSUME NEW j \in U, Filled(j)' PROVE outcomes'[j].index = j /\ Explained(outcomes'[j])
    <3>1. CASE j = i
      BY <1>7, <2>3, <3>1
    <3>2. CASE j # i
      BY <1>2, <1>7, <1>12, <2>4, <3>2 DEF AllExplained
    <3> QED BY <3>1, <3>2
  <2> QED BY <2>1, <2>2, <2>4 DEF AllExplained
<1>18. Balanced'
  <2>1. \A v \in Busy' : working'[v].before <= asked'[v]
    BY <1>1, <1>2, <1>11 DEF Balanced
  <2>2. ASSUME NEW r, Accounts(r) PROVE Accounts(r)'
    <3>1. r[i] = o.stats
      BY <1>3, <2>2 DEF Accounts
    <3>2. ASSUME NEW j \in U, Filled(j)' PROVE r[j] = outcomes'[j].stats
      <4>1. CASE j = i
        BY <1>7, <3>1, <4>1
      <4>2. CASE j # i
        BY <1>7, <1>12, <2>2, <3>2, <4>2 DEF Accounts
      <4> QED BY <4>1, <4>2
    <3>3. ASSUME NEW n \in 1..Len(finished') PROVE r[finished'[n].index] = finished'[n].stats
      <4>1. PICK m \in 1..Len(finished) : finished'[n] = finished[m]
        BY <1>6
      <4>2. r[finished[m].index] = finished[m].stats
        BY <2>2 DEF Accounts
      <4> QED BY <4>1, <4>2
    <3>4. \A j \in U : (Waits(j) \/ Held(j))' => r[j] = 0
      BY <1>11, <2>2 DEF Accounts
    <3> QED BY <3>2, <3>3, <3>4 DEF Accounts
  <2> QED BY <1>1, <1>2, <1>11, <2>1, <2>2 DEF Balanced
<1> QED BY <1>9, <1>15, <1>16, <1>17, <1>18 DEF RunnerInv

LEMMA DieKeeps ==
  ASSUME RunnerInv, Die
  PROVE  RunnerInv'
<1> DEFINE U == DOMAIN Units
           H == {working[v].unit : v \in Busy}
           held == SetToSeq(H)
           lost == held \o queue
           dead == [k \in DOMAIN lost |-> Crashed(lost[k])]
<1>1. /\ finished' = finished \o dead
      /\ working' = [v \in Workers |-> Free] /\ queue' = <<>> /\ broken' = TRUE /\ deaths' = deaths + 1
      /\ UNCHANGED <<jobs, asked, outcomes, told>>
  BY DEF Die
<1>2. RunnerTypeOK /\ InOnePlace /\ ToldOnce /\ AllExplained /\ Balanced
  BY DEF RunnerInv
<1>3. HeldOnce /\ QueuedOnce /\ ReadyOnce /\ \A j \in U : AtOnePlace(j)
  BY <1>2 DEF InOnePlace
<1>4. H \subseteq U /\ IsFiniteSet(H) /\ \A j \in U : j \in H <=> Held(j)
  <2>1. H \subseteq U
    BY <1>2, RunnerFacts
  <2>2. IsFiniteSet(H)
    <3> HIDE DEF H
    <3> QED BY <2>1, UnitsAre, FS_Subset
  <2>3. 0 \notin U
    BY UnitsAre
  <2> QED BY <2>1, <2>2, <2>3 DEF Held, Busy
<1> HIDE DEF H
<1>5. /\ held \in Seq(H) /\ \A k, l \in 1..Len(held) : held[k] = held[l] => k = l
      /\ \A j \in H : \E k \in 1..Len(held) : held[k] = j
  BY <1>4, SequenceOfSet
<1>6. queue \in Seq(U) /\ held \in Seq(U)
  <2>1. queue \in Seq(U)
    BY <1>2 DEF RunnerTypeOK
  <2>2. held \in Seq(U)
    <3> HIDE DEF held
    <3>1. Len(held) \in Nat /\ held \in [1..Len(held) -> H]
      BY <1>5, LenProperties
    <3>2. held \in [1..Len(held) -> U]
      BY <1>4, <3>1
    <3> QED BY <3>1, <3>2, SeqDef
  <2> QED BY <2>1, <2>2
<1>7. Len(held) \in Nat /\ Len(queue) \in Nat /\ \A k \in 1..Len(held) : held[k] \in H
  BY <1>5, <1>6, LenProperties
<1> HIDE DEF held
<1>8. /\ lost \in Seq(U) /\ Len(lost) = Len(held) + Len(queue)
      /\ \A k \in 1..(Len(held) + Len(queue)) : lost[k] = IF k <= Len(held) THEN held[k] ELSE queue[k - Len(held)]
  BY <1>6, ConcatProperties
<1> DEFINE n == Len(lost)
<1>9. n \in Nat /\ DOMAIN lost = 1..n /\ \A k \in 1..n : lost[k] \in U
  BY <1>7, <1>8, LenProperties
<1>10. \A k \in 1..n : \/ k \in 1..Len(held) /\ lost[k] = held[k]
                       \/ k - Len(held) \in 1..Len(queue) /\ ~(k \in 1..Len(held)) /\ lost[k] = queue[k - Len(held)]
  BY <1>7, <1>8
<1>11. /\ \A k \in 1..Len(held) : k \in 1..n /\ lost[k] = held[k]
       /\ \A k \in 1..Len(queue) : Len(held) + k \in 1..n /\ lost[Len(held) + k] = queue[k]
  <2>1. ASSUME NEW k \in 1..Len(held) PROVE k \in 1..n /\ lost[k] = held[k]
    BY <1>7, <1>8
  <2>2. ASSUME NEW k \in 1..Len(queue) PROVE Len(held) + k \in 1..n /\ lost[Len(held) + k] = queue[k]
    <3>1. Len(held) + k \in 1..n /\ ~(Len(held) + k <= Len(held)) /\ (Len(held) + k) - Len(held) = k
      BY <1>7, <1>8
    <3> HIDE DEF lost
    <3> QED BY <1>8, <3>1
  <2> QED BY <2>1, <2>2
<1> HIDE DEF lost, n
<1>12. \A k, l \in 1..n : lost[k] = lost[l] => k = l
  <2> SUFFICES ASSUME NEW k \in 1..n, NEW l \in 1..n, lost[k] = lost[l] PROVE k = l
    OBVIOUS
  <2>0. k \in Nat /\ l \in Nat
    BY <1>9
  <2>1. ASSUME NEW a \in 1..Len(held), NEW b \in 1..Len(queue) PROVE held[a] # queue[b]
    <3>1. Held(held[a]) /\ held[a] \in U /\ Waits(queue[b])
      BY <1>4, <1>7 DEF Waits
    <3>2. AtOnePlace(held[a])
      BY <1>3, <3>1
    <3> QED BY <3>1, <3>2 DEF AtOnePlace
  <2>2. CASE k \in 1..Len(held)
    <3>1. l \in 1..Len(held)
      BY <1>10, <2>1, <2>2
    <3> QED BY <1>5, <1>11, <2>2, <3>1
  <2>3. CASE k - Len(held) \in 1..Len(queue) /\ ~(k \in 1..Len(held)) /\ lost[k] = queue[k - Len(held)]
    <3>1. l - Len(held) \in 1..Len(queue) /\ lost[l] = queue[l - Len(held)]
      BY <1>10, <2>1, <2>3
    <3>2. k - Len(held) = l - Len(held)
      BY <1>3, <2>3, <3>1 DEF QueuedOnce
    <3> QED BY <1>7, <2>0, <3>2
  <2> QED BY <1>10, <2>2, <2>3
<1>13. \A j \in U : (\E k \in 1..n : lost[k] = j) <=> Held(j) \/ Waits(j)
  <2>1. ASSUME NEW k \in 1..n, NEW j \in U, lost[k] = j PROVE Held(j) \/ Waits(j)
    BY <1>4, <1>7, <1>10, <2>1 DEF Waits
  <2>2. ASSUME NEW j \in U, Held(j) PROVE \E k \in 1..n : lost[k] = j
    BY <1>4, <1>5, <1>11, <2>2
  <2>3. ASSUME NEW j \in U, Waits(j) PROVE \E k \in 1..n : lost[k] = j
    <3>1. PICK k \in 1..Len(queue) : queue[k] = j
      BY <2>3 DEF Waits
    <3>2. Len(held) + k \in 1..n /\ lost[Len(held) + k] = j
      BY <1>11, <3>1
    <3> QED BY <3>2
  <2> QED BY <2>1, <2>2, <2>3
<1>14. /\ dead \in Seq(Outcome) /\ Len(dead) = n
       /\ \A k \in 1..n : dead[k] = Crashed(lost[k]) /\ dead[k].index = lost[k]
  <2>1. \A k \in 1..n : Crashed(lost[k]) \in Outcome /\ Crashed(lost[k]).index = lost[k]
    <3> SUFFICES ASSUME NEW k \in 1..n PROVE Crashed(lost[k]) \in Outcome /\ Crashed(lost[k]).index = lost[k]
      OBVIOUS
    <3>1. lost[k] \in U /\ 0 \in Nat
      BY <1>9
    <3> QED BY <3>1, OutcomesAre
  <2>2. dead \in [1..n -> Outcome]
    BY <1>9, <2>1
  <2>3. dead \in Seq(Outcome)
    <3> HIDE DEF dead
    <3> QED BY <1>9, <2>2, SeqDef
  <2>4. DOMAIN dead = 1..n /\ \A k \in 1..n : dead[k] = Crashed(lost[k])
    BY <1>9
  <2> HIDE DEF dead
  <2>5. Len(dead) = n
    BY <1>9, <2>3, <2>4, LenProperties
  <2> QED BY <2>1, <2>3, <2>4, <2>5
<1> HIDE DEF dead
<1>15. /\ Len(finished) \in Nat /\ finished' \in Seq(Outcome) /\ Len(finished') = Len(finished) + n
       /\ \A k \in 1..(Len(finished) + n) : finished'[k] = IF k <= Len(finished) THEN finished[k] ELSE dead[k - Len(finished)]
  <2>1. finished \in Seq(Outcome)
    BY <1>2 DEF RunnerTypeOK
  <2>2. Len(finished) \in Nat
    BY <2>1, LenProperties
  <2>3. /\ finished \o dead \in Seq(Outcome) /\ Len(finished \o dead) = Len(finished) + Len(dead)
        /\ \A k \in 1..(Len(finished) + Len(dead)) :
             (finished \o dead)[k] = IF k <= Len(finished) THEN finished[k] ELSE dead[k - Len(finished)]
    BY <1>14, <2>1, ConcatProperties
  <2> QED BY <1>1, <1>14, <2>2, <2>3
<1>16. \A k \in 1..Len(finished') :
         \/ k \in 1..Len(finished) /\ finished'[k] = finished[k]
         \/ /\ k - Len(finished) \in 1..n /\ ~(k \in 1..Len(finished))
            /\ finished'[k] = Crashed(lost[k - Len(finished)]) /\ finished'[k].index = lost[k - Len(finished)]
  <2> SUFFICES ASSUME NEW k \in 1..Len(finished'), ~(k \in 1..Len(finished))
               PROVE  /\ k - Len(finished) \in 1..n
                      /\ finished'[k] = Crashed(lost[k - Len(finished)]) /\ finished'[k].index = lost[k - Len(finished)]
    BY <1>9, <1>15
  <2>1. k - Len(finished) \in 1..n /\ ~(k <= Len(finished)) /\ k \in 1..(Len(finished) + n)
    BY <1>9, <1>15
  <2>2. finished'[k] = dead[k - Len(finished)]
    BY <1>15, <2>1
  <2> QED BY <1>14, <2>1, <2>2
<1>17. /\ \A k \in 1..Len(finished) : k \in 1..Len(finished') /\ finished'[k] = finished[k]
       /\ \A k \in 1..n : Len(finished) + k \in 1..Len(finished') /\ finished'[Len(finished) + k].index = lost[k]
  <2>1. ASSUME NEW k \in 1..Len(finished) PROVE k \in 1..Len(finished') /\ finished'[k] = finished[k]
    BY <1>9, <1>15
  <2>2. ASSUME NEW k \in 1..n PROVE Len(finished) + k \in 1..Len(finished') /\ finished'[Len(finished) + k].index = lost[k]
    <3>1. Len(finished) + k \in 1..Len(finished') /\ ~(Len(finished) + k \in 1..Len(finished)) /\ (Len(finished) + k) - Len(finished) = k
      BY <1>9, <1>15
    <3> QED BY <1>16, <3>1
  <2> QED BY <2>1, <2>2
<1>18. Busy' = {} /\ \A v \in Workers : working'[v].unit = 0
  BY <1>1 DEF Busy, Free
<1>19. RunnerTypeOK'
  <2>1. working' \in [Workers -> [unit : U \cup {0}, before : Nat]]
    BY <1>1 DEF Free
  <2>2. queue' \in Seq(U)
    BY <1>1, EmptySeq
  <2>3. deaths' \in Nat
    BY <1>1, <1>2 DEF RunnerTypeOK
  <2> QED BY <1>1, <1>2, <1>15, <2>1, <2>2, <2>3 DEF RunnerTypeOK
<1>20. \A j \in U : ~Waits(j)' /\ ~Held(j)' /\ (Filled(j)' <=> Filled(j)) /\ (Ready(j)' <=> Ready(j) \/ Held(j) \/ Waits(j))
  <2> SUFFICES ASSUME NEW j \in U
               PROVE  ~Waits(j)' /\ ~Held(j)' /\ (Filled(j)' <=> Filled(j)) /\ (Ready(j)' <=> Ready(j) \/ Held(j) \/ Waits(j))
    OBVIOUS
  <2>1. ~Waits(j)'
    <3>1. Len(queue') = 0
      BY <1>1
    <3> QED BY <3>1 DEF Waits
  <2>2. ~Held(j)'
    BY <1>18, UnitsAre DEF Held
  <2>3. Filled(j)' <=> Filled(j)
    BY <1>1 DEF Filled
  <2>4. ASSUME Ready(j)' PROVE Ready(j) \/ Held(j) \/ Waits(j)
    <3>1. PICK k \in 1..Len(finished') : finished'[k].index = j
      BY <2>4 DEF Ready
    <3> QED BY <1>13, <1>16, <3>1 DEF Ready
  <2>5. ASSUME Ready(j) PROVE Ready(j)'
    BY <1>17, <2>5 DEF Ready
  <2>6. ASSUME Held(j) \/ Waits(j) PROVE Ready(j)'
    <3>1. PICK k \in 1..n : lost[k] = j
      BY <1>13, <2>6
    <3>2. Len(finished) + k \in 1..Len(finished') /\ finished'[Len(finished) + k].index = j
      BY <1>17, <3>1
    <3> QED BY <3>2 DEF Ready
  <2> QED BY <2>1, <2>2, <2>3, <2>4, <2>5, <2>6
<1>21. ReadyOnce'
  <2> SUFFICES ASSUME NEW k \in 1..Len(finished'), NEW l \in 1..Len(finished'),
                      finished'[k].index = finished'[l].index
               PROVE  k = l
    BY DEF ReadyOnce
  <2>0. k \in Nat /\ l \in Nat
    BY <1>9, <1>15
  <2>1. ASSUME NEW a \in 1..Len(finished), NEW b \in 1..n PROVE finished[a].index # lost[b]
    <3>1. Ready(lost[b]) => FALSE
      <4>1. lost[b] \in U /\ (Held(lost[b]) \/ Waits(lost[b]))
        BY <1>9, <1>13
      <4>2. AtOnePlace(lost[b])
        BY <1>3, <4>1
      <4> QED BY <4>1, <4>2 DEF AtOnePlace
    <3> QED BY <3>1 DEF Ready
  <2>2. CASE k \in 1..Len(finished)
    <3>1. l \in 1..Len(finished)
      BY <1>16, <1>17, <2>1, <2>2
    <3> QED BY <1>3, <1>17, <2>2, <3>1 DEF ReadyOnce
  <2>3. CASE ~(k \in 1..Len(finished))
    <3>1. k - Len(finished) \in 1..n /\ finished'[k].index = lost[k - Len(finished)]
      BY <1>16, <2>3
    <3>2. ~(l \in 1..Len(finished))
      BY <1>17, <2>1, <3>1
    <3>3. l - Len(finished) \in 1..n /\ finished'[l].index = lost[l - Len(finished)]
      BY <1>16, <3>2
    <3>4. k - Len(finished) = l - Len(finished)
      BY <1>12, <3>1, <3>3
    <3> QED BY <1>15, <2>0, <3>4
  <2> QED BY <2>2, <2>3
<1>22. InOnePlace'
  <2>1. QueuedOnce'
    <3>1. Len(queue') = 0
      BY <1>1
    <3> QED BY <3>1 DEF QueuedOnce
  <2>2. HeldOnce'
    BY <1>18 DEF HeldOnce
  <2>3. ASSUME NEW j \in U PROVE AtOnePlace(j)'
    <3>1. AtOnePlace(j)
      BY <1>3
    <3> QED BY <1>20, <3>1 DEF AtOnePlace
  <2> QED BY <1>21, <2>1, <2>2, <2>3 DEF InOnePlace
<1>23. ToldOnce'
  BY <1>1, <1>2, FilledStay
<1>24. AllExplained'
  <2> DEFINE Right(p) == p = RunUnit(p.index, p.stats) \/ p = Crashed(p.index)
  <2>1. ASSUME NEW k \in 1..Len(finished') PROVE Right(finished'[k])
    <3>1. CASE k \in 1..Len(finished) /\ finished'[k] = finished[k]
      BY <1>2, <3>1 DEF AllExplained, Explained
    <3>2. CASE finished'[k] = Crashed(lost[k - Len(finished)]) /\ finished'[k].index = lost[k - Len(finished)]
      BY <3>2
    <3> QED BY <1>16, <3>1, <3>2
  <2>2. \A j \in U : Filled(j)' => outcomes'[j].index = j /\ Right(outcomes'[j])
    <3>1. \A j \in U : Filled(j) => outcomes[j].index = j /\ Right(outcomes[j])
      BY <1>2 DEF AllExplained, Explained
    <3> HIDE DEF Right
    <3> QED BY <1>1, <1>20, <3>1
  <2> QED BY <1>1, <2>1, <2>2 DEF AllExplained, Explained
<1>25. Balanced'
  BY <1>1, <1>18 DEF Balanced
<1> QED BY <1>19, <1>22, <1>23, <1>24, <1>25 DEF RunnerInv

-----------------------------------------------------------------------------
(***************************************************************************)
(* When every place is filled, what the runner returns is the whole list.  *)
(***************************************************************************)
\* the function behind Returned
Keeping(list) ==
  CHOOSE f : f = [s \in SUBSET DOMAIN list |-> IF s = {} THEN <<>> ELSE Kept(f[s \ {Max(s)}], list[Max(s)])]

LEMMA ReturnedIs == Returned = Keeping(outcomes)[DOMAIN outcomes]
BY Zenon DEF Returned, FoldLeft, MapThenFoldSet, Keeping

LEMMA AllAreKept ==
  ASSUME NEW N \in Nat, NEW list \in [1..N -> Outcome]
  PROVE  Keeping(list)[1..N] = list
<1> DEFINE V == Seq(Outcome)
           step == [p \in V \X (1..N) |-> Kept(p[1], list[p[2]])]
<1>1. DOMAIN list = 1..N /\ \A n \in 1..N : list[n] \in Outcome
  OBVIOUS
<1>2. <<>> \in V
  BY EmptySeq
<1>3. ASSUME NEW kept \in V, NEW n \in 1..N PROVE Kept(kept, list[n]) = Append(kept, list[n]) /\ Append(kept, list[n]) \in V
  <2>1. list[n] \in Outcome /\ list[n] # NoOutcome
    BY <1>1, UnitsAre
  <2> QED BY <2>1, AppendProperties DEF Kept
<1>4. step \in [V \X (1..N) -> V]
  <2>1. ASSUME NEW p \in V \X (1..N) PROVE Kept(p[1], list[p[2]]) \in V
    <3>1. p[1] \in V /\ p[2] \in 1..N
      OBVIOUS
    <3> HIDE DEF V
    <3> QED BY <1>3, <3>1
  <2> HIDE DEF V
  <2> QED BY <2>1
<1>5. PICK g : Runs(g, V, N, <<>>, step)
  <2>1. StepOn(step, V, N)
    BY <1>4 DEF StepOn
  <2> HIDE DEF V, step
  <2> QED BY <1>2, <2>1, StepsExist
<1> DEFINE Nx(f, s) == IF s = {} THEN <<>> ELSE Kept(f[s \ {Max(s)}], list[Max(s)])
<1>6. ASSUME NEW s \in SUBSET (1..N) PROVE g[s] = Nx(g, s)
  <2>0. g \in [SUBSET (1..N) -> V] /\ g[s] = IF s = {} THEN <<>> ELSE step[<<g[s \ {Max(s)}], Max(s)>>]
    <3> HIDE DEF V, step
    <3> QED BY <1>5 DEF Runs
  <2>1. CASE s = {}
    BY <2>0, <2>1
  <2>2. CASE s # {}
    <3>1. Max(s) \in 1..N
      <4>1. s \subseteq 0..N
        OBVIOUS
      <4>2. Max(s) \in s
        BY <2>2, <4>1, Maximum
      <4> QED BY <4>2
    <3>2. g[s \ {Max(s)}] \in V
      <4> HIDE DEF V, step
      <4> QED BY <2>0
    <3>3. <<g[s \ {Max(s)}], Max(s)>> \in V \X (1..N)
      BY <3>1, <3>2
    <3>4. step[<<g[s \ {Max(s)}], Max(s)>>] = Kept(g[s \ {Max(s)}], list[Max(s)])
      <4> HIDE DEF V
      <4> QED BY <3>3
    <3> HIDE DEF step
    <3> QED BY <2>0, <2>2, <3>4
  <2> QED BY <2>1, <2>2
<1> DEFINE h == Keeping(list)
<1>7. g = [s \in SUBSET (1..N) |-> Nx(g, s)]
  <2>1. g \in [SUBSET (1..N) -> V]
    <3> HIDE DEF V, step
    <3> QED BY <1>5 DEF Runs
  <2> HIDE DEF Nx, V
  <2> QED BY <1>6, <2>1
<1>8. h = [s \in SUBSET (1..N) |-> Nx(h, s)]
  BY <1>1, <1>7, Zenon DEF Keeping
<1> DEFINE Copies(q, n) == q \in V /\ Len(q) = n /\ \A k \in 1..n : q[k] = list[k]
<1>9. \A n \in 0..N : Copies(h[1..n], n)
  <2> DEFINE T == {n \in 0..N : Copies(h[1..n], n)}
  <2>1. 0 \in T
    <3>1. (1..0) = {}
      OBVIOUS
    <3>2. h[{}] = <<>>
      <4> HIDE DEF h
      <4> QED BY <1>8
    <3>3. 0 \in 0..N
      OBVIOUS
    <3>4. Copies(<<>>, 0)
      BY <1>2
    <3> HIDE DEF h, V, Copies
    <3> QED BY <3>1, <3>2, <3>3, <3>4
  <2>2. ASSUME NEW n \in 0..(N - 1), n \in T PROVE n + 1 \in T
    <3> DEFINE k == n + 1
    <3>1. k \in 1..N /\ k \in Nat /\ k # 0 /\ k - 1 = n /\ k \in 0..N /\ n \in Nat
      OBVIOUS
    <3> HIDE DEF k
    <3>2. Max(1..k) = k /\ (1..k) \ {k} = 1..n
      BY <3>1, FirstIndices
    <3>3. 1..k \in SUBSET (1..N) /\ (1..k) # {}
      <4>1. 1 \in 1..k /\ \A i \in 1..k : i \in 1..N
        BY <3>1
      <4> QED BY <4>1
    <3>4. h[1..k] = Nx(h, 1..k)
      <4> HIDE DEF h, Nx
      <4> QED BY <1>8, <3>3
    <3>5. h[1..k] = Kept(h[1..n], list[k])
      <4> HIDE DEF h
      <4> QED BY <3>2, <3>3, <3>4
    <3>6. Copies(h[1..n], n)
      <4> HIDE DEF h, Copies
      <4> QED BY <2>2
    <3>7. h[1..k] = Append(h[1..n], list[k])
      <4> HIDE DEF h
      <4> QED BY <1>3, <3>1, <3>5, <3>6
    <3>8. Copies(h[1..k], k)
      <4> DEFINE q == h[1..n]
      <4>1. q \in Seq(Outcome) /\ Len(q) = n /\ (\A j \in 1..n : q[j] = list[j]) /\ list[k] \in Outcome
        <5> HIDE DEF h
        <5> QED BY <1>1, <3>1, <3>6
      <4> HIDE DEF q
      <4>2. /\ Append(q, list[k]) \in Seq(Outcome) /\ Len(Append(q, list[k])) = n + 1 /\ Append(q, list[k])[n + 1] = list[k]
            /\ \A j \in 1..n : Append(q, list[k])[j] = q[j]
        BY <4>1, AppendProperties
      <4>3. n + 1 = k /\ \A j \in 1..k : j = k \/ j \in 1..n
        BY <3>1
      <4>4. Copies(Append(q, list[k]), k)
        BY <4>1, <4>2, <4>3
      <4> HIDE DEF h, Copies
      <4> QED BY <3>7, <4>4 DEF q
    <3> HIDE DEF h, V, Copies
    <3> QED BY <3>1, <3>8 DEF k
  <2> HIDE DEF T
  <2>3. \A n \in 0..N : n \in T
    BY <2>1, <2>2, Upwards
  <2> QED BY <2>3 DEF T
<1>10. Copies(h[1..N], N)
  <2>1. N \in 0..N
    OBVIOUS
  <2> HIDE DEF h, Copies
  <2> QED BY <1>9, <2>1
<1> DEFINE q == h[1..N]
<1>11. q \in Seq(Outcome) /\ Len(q) = N /\ \A k \in 1..N : q[k] = list[k]
  BY <1>10
<1> HIDE DEF q
<1>12. q \in [1..N -> Outcome]
  BY <1>11, LenProperties
<1>13. q = list
  BY <1>11, <1>12
<1> QED BY <1>13 DEF q

LEMMA RunnerGoesOn == RunnerInv /\ [RunnerNext]_rvars => RunnerInv'
<1> SUFFICES ASSUME RunnerInv, [RunnerNext]_rvars PROVE RunnerInv'
  OBVIOUS
<1>1. CASE UNCHANGED rvars
  <2>1. UNCHANGED <<jobs, queue, working, asked, finished, outcomes, told, broken, deaths>>
    BY <1>1 DEF rvars
  <2>2. RunnerTypeOK' /\ ToldOnce' /\ AllExplained'
    BY <2>1, FilledStay, ExplainedStay DEF RunnerInv, RunnerTypeOK
  <2>3. InOnePlace'
    BY <2>1, WaitsStay, HeldStay, ReadyStays, FilledStay DEF RunnerInv, InOnePlace, AtOnePlace
  <2>4. Balanced'
    <3>1. Busy' = Busy /\ \A i : (Waits(i)' <=> Waits(i)) /\ (Held(i)' <=> Held(i)) /\ (Filled(i)' <=> Filled(i))
      BY <2>1, WaitsStay, HeldStay, FilledStay
    <3>2. Spent' = Spent
      BY <2>1, <3>1 DEF Spent
    <3>3. \A r : Accounts(r)' <=> Accounts(r)
      BY <2>1, <3>1 DEF Accounts
    <3> QED BY <2>1, <3>1, <3>2, <3>3 DEF RunnerInv, Balanced
  <2> QED BY <2>2, <2>3, <2>4 DEF RunnerInv
<1>2. CASE Collect
  BY <1>2, CollectKeeps
<1>3. CASE Die
  BY <1>3, DieKeeps
<1>4. CASE \E w \in Workers : Take(w) \/ AskSystemOne(w) \/ Finish(w)
  BY <1>4, TakeKeeps, AskingKeeps, FinishKeeps
<1> QED BY <1>1, <1>2, <1>3, <1>4 DEF RunnerNext

LEMMA RunnerHolds == RunnerSpec => []RunnerInv
BY RunnerStarts, RunnerGoesOn, PTL DEF RunnerSpec

\* When the batch is over, every place is filled and the counters add up.
LEMMA OverIsFull ==
  ASSUME RunnerInv, queue = <<>>, Busy = {}, finished = <<>>
  PROVE  /\ Returned = outcomes /\ outcomes \in [DOMAIN Units -> Outcome]
         /\ \A i \in DOMAIN Units : outcomes[i].index = i
         /\ ~broken => MergedStats = FoldFunction(+, 0, asked)
<1> DEFINE U == DOMAIN Units
<1>1. RunnerTypeOK /\ InOnePlace /\ AllExplained /\ Balanced
  BY DEF RunnerInv
<1>2. Len(queue) = 0 /\ Len(finished) = 0 /\ Len(Units) \in Nat /\ U = 1..Len(Units) /\ 0 \notin U
  BY UnitsAre
<1>3. \A i \in U : Filled(i)
  <2>1. \A i \in U : ~Waits(i) /\ ~Ready(i)
    BY <1>2 DEF Waits, Ready
  <2>2. \A i \in U : ~Held(i)
    BY <1>2 DEF Held, Busy
  <2> QED BY <1>1, <2>1, <2>2 DEF InOnePlace, AtOnePlace
<1>4. outcomes \in [U -> Outcome]
  BY <1>1, <1>3 DEF RunnerTypeOK, Filled
<1>5. Returned = outcomes
  <2>1. outcomes \in [1..Len(Units) -> Outcome] /\ DOMAIN outcomes = 1..Len(Units)
    BY <1>2, <1>4
  <2> QED BY <1>2, <2>1, ReturnedIs, AllAreKept
<1>6. \A i \in U : outcomes[i].index = i
  BY <1>1, <1>3 DEF AllExplained
<1>7. ASSUME ~broken PROVE MergedStats = FoldFunction(+, 0, asked)
  <2>1. PICK r \in [U -> Nat] : Accounts(r) /\ Sums(r)[U] = Sums(Spent)[Workers]
    BY <1>1, <1>7 DEF Balanced
  <2> DEFINE deltas == [n \in DOMAIN Returned |-> Returned[n].stats]
  <2>2. deltas = r
    <3>1. DOMAIN Returned = U /\ \A i \in U : Returned[i].stats = r[i]
      BY <1>3, <1>4, <1>5, <2>1 DEF Accounts
    <3> QED BY <3>1
  <2>3. Spent = asked
    <3>1. asked \in [Workers -> Nat]
      BY <1>1 DEF RunnerTypeOK
    <3> QED BY <3>1 DEF Spent
  <2>4. MergedStats = FoldFunction(+, 0, deltas)
    BY DEF MergedStats
  <2> HIDE DEF deltas
  <2>5. MergedStats = Sums(r)[U]
    <3>1. DOMAIN r = U
      OBVIOUS
    <3> QED BY <2>2, <2>4, <3>1, FoldIsSum
  <2>6. FoldFunction(+, 0, asked) = Sums(asked)[Workers]
    <3>1. DOMAIN asked = Workers
      BY <1>1 DEF RunnerTypeOK
    <3>2. FoldFunction(+, 0, asked) = Sums(asked)[DOMAIN asked]
      BY FoldIsSum
    <3> QED BY <3>1, <3>2
  <2> QED BY <2>1, <2>3, <2>5, <2>6
<1> QED BY <1>4, <1>5, <1>6, <1>7

LEMMA RunnerSuffices == RunnerInv => EveryUnitHasItsOutcome
<1> SUFFICES ASSUME RunnerInv PROVE EveryUnitHasItsOutcome
  OBVIOUS
<1> DEFINE open == queue # <<>> \/ Busy # {} \/ finished # <<>>
<1>1. RunnerTypeOK /\ ToldOnce /\ AllExplained
  BY DEF RunnerInv
<1>2. told \in Seq(DOMAIN Units) /\ DOMAIN told = 1..Len(told)
  BY <1>1, LenProperties DEF RunnerTypeOK
<1>3. IsInjective(told)
  BY <1>1, <1>2 DEF ToldOnce, IsInjective
<1>4. \A i \in DOMAIN Units : outcomes[i] # NoOutcome <=> Contains(told, i)
  BY <1>1 DEF ToldOnce, Filled, Contains
<1>5. ~open => /\ [n \in DOMAIN Returned |-> Returned[n].index] = [i \in DOMAIN Units |-> i]
               /\ ~broken => MergedStats = FoldFunction(+, 0, asked)
  <2> SUFFICES ASSUME ~open
               PROVE  /\ [n \in DOMAIN Returned |-> Returned[n].index] = [i \in DOMAIN Units |-> i]
                      /\ ~broken => MergedStats = FoldFunction(+, 0, asked)
    OBVIOUS
  <2>1. queue = <<>> /\ Busy = {} /\ finished = <<>>
    OBVIOUS
  <2>2. /\ Returned = outcomes /\ outcomes \in [DOMAIN Units -> Outcome]
        /\ \A i \in DOMAIN Units : outcomes[i].index = i
        /\ ~broken => MergedStats = FoldFunction(+, 0, asked)
    BY <2>1, OverIsFull
  <2>3. DOMAIN Returned = DOMAIN Units /\ \A i \in DOMAIN Units : Returned[i].index = i
    BY <2>2
  <2>4. [n \in DOMAIN Returned |-> Returned[n].index] = [i \in DOMAIN Units |-> i]
    BY <2>3
  <2> QED BY <2>2, <2>4
<1>6. \A i \in DOMAIN Units : outcomes[i] # NoOutcome =>
        \/ outcomes[i] = [RunUnit(i, 0) EXCEPT !.stats = outcomes[i].stats]
        \/ broken /\ outcomes[i] = Crashed(i)
  <2> SUFFICES ASSUME NEW i \in DOMAIN Units, outcomes[i] # NoOutcome
               PROVE  \/ outcomes[i] = [RunUnit(i, 0) EXCEPT !.stats = outcomes[i].stats]
                      \/ broken /\ outcomes[i] = Crashed(i)
    OBVIOUS
  <2>1. outcomes[i].index = i /\ Explained(outcomes[i])
    BY <1>1 DEF AllExplained, Filled
  <2>2. \A s : [RunUnit(i, 0) EXCEPT !.stats = s] = RunUnit(i, s)
    <3> DEFINE wanted == {k \in DOMAIN Units[i].traces : Matches(Units[i].traces[k])}
               bad == {k \in wanted : Units[i].traces[k].fails}
               n == Cardinality({k \in wanted : \A b \in bad : k < b})
               failing == (bad # {})
    <3>1. \A s : RunUnit(i, s) = [index |-> i, runs |-> n, error |-> failing, stats |-> s]
      BY DEF RunUnit
    <3> HIDE DEF n, failing
    <3> QED BY <3>1
  <2> QED BY <2>1, <2>2 DEF Explained
<1> QED BY <1>3, <1>4, <1>5, <1>6 DEF EveryUnitHasItsOutcome

-----------------------------------------------------------------------------
\* The types of the runner, for any number of units, workers and deaths.
THEOREM RunnerTypes == RunnerSpec => []RunnerTypeOK
<1>1. RunnerInv => RunnerTypeOK
  BY DEF RunnerInv
<1> QED BY <1>1, RunnerHolds, PTL

\* Every unit gets one outcome, whatever the order in which units finish and whichever worker
\* dies: it is told once, the result is complete and in discovery order, an outcome is what the
\* unit did or the pool broke, and the units' counters add up to those of the processes.
THEOREM OutcomesAreComplete == RunnerSpec => []EveryUnitHasItsOutcome
BY RunnerHolds, RunnerSuffices, PTL

-----------------------------------------------------------------------------
(***************************************************************************)
(* The asker.  What a batch is cut into, and what a group of features is.  *)
(***************************************************************************)
\* all that is in these sequences
All(ss) == UNION {ToSet(ss[k]) : k \in DOMAIN ss}

LEMMA AllOfTail ==
  ASSUME NEW S, NEW ss \in Seq(Seq(S)), ss # <<>>
  PROVE  /\ Head(ss) \in Seq(S) /\ Tail(ss) \in Seq(Seq(S))
         /\ All(ss) = ToSet(Head(ss)) \union All(Tail(ss))
<1>1. /\ Len(ss) \in Nat /\ Len(ss) >= 1 /\ DOMAIN ss = 1..Len(ss) /\ Head(ss) = ss[1] /\ ss[1] \in Seq(S)
  OBVIOUS
<1>2. /\ Tail(ss) \in Seq(Seq(S)) /\ DOMAIN Tail(ss) = 1..(Len(ss) - 1)
      /\ \A k \in 1..(Len(ss) - 1) : Tail(ss)[k] = ss[k + 1]
  <2>1. Tail(ss) \in Seq(Seq(S)) /\ Len(Tail(ss)) = Len(ss) - 1
    OBVIOUS
  <2>2. DOMAIN Tail(ss) = 1..(Len(ss) - 1)
    BY <2>1
  <2> QED BY <2>1, <2>2
<1> DEFINE rest == Tail(ss)
<1> HIDE DEF rest
<1>3. \A k \in 1..Len(ss) : k = 1 \/ (k - 1 \in 1..(Len(ss) - 1) /\ (k - 1) + 1 = k)
  BY <1>1
<1>4. \A k \in 1..(Len(ss) - 1) : k + 1 \in 1..Len(ss)
  BY <1>1
<1>5. ASSUME NEW f \in All(ss) PROVE f \in ToSet(Head(ss)) \union All(Tail(ss))
  <2>1. PICK k \in 1..Len(ss) : f \in ToSet(ss[k])
    BY <1>1, <1>5 DEF All
  <2>2. CASE k = 1
    BY <1>1, <2>1, <2>2
  <2>3. CASE k # 1
    <3>1. k - 1 \in 1..(Len(ss) - 1) /\ Tail(ss)[k - 1] = ss[k]
      BY <1>2, <1>3, <2>3
    <3> QED BY <1>2, <2>1, <3>1 DEF All
  <2> QED BY <2>2, <2>3
<1>6. ASSUME NEW f \in ToSet(Head(ss)) \union All(Tail(ss)) PROVE f \in All(ss)
  <2>1. CASE f \in ToSet(Head(ss))
    BY <1>1, <2>1 DEF All
  <2>2. CASE f \in All(Tail(ss))
    <3>1. PICK k \in 1..(Len(ss) - 1) : f \in ToSet(Tail(ss)[k])
      BY <1>2, <2>2 DEF All
    <3> QED BY <1>1, <1>2, <1>4, <3>1 DEF All
  <2> QED BY <1>6, <2>1, <2>2
<1> QED BY <1>1, <1>2, <1>5, <1>6

LEMMA AllOfBoth ==
  ASSUME NEW S, NEW a \in Seq(Seq(S)), NEW b \in Seq(Seq(S))
  PROVE  a \o b \in Seq(Seq(S)) /\ All(a \o b) = All(a) \union All(b)
<1> DEFINE c == a \o b
<1>1. /\ c \in Seq(Seq(S)) /\ Len(c) = Len(a) + Len(b)
      /\ \A i \in 1..(Len(a) + Len(b)) : c[i] = IF i <= Len(a) THEN a[i] ELSE b[i - Len(a)]
  BY ConcatProperties
<1>2. /\ Len(a) \in Nat /\ Len(b) \in Nat /\ DOMAIN a = 1..Len(a) /\ DOMAIN b = 1..Len(b)
      /\ DOMAIN c = 1..(Len(a) + Len(b))
  <2> HIDE DEF c
  <2> QED BY <1>1
<1> HIDE DEF c
<1>3. \A i \in 1..Len(a) : i \in DOMAIN c /\ c[i] = a[i]
  BY <1>1, <1>2
<1>4. ASSUME NEW i \in 1..Len(b) PROVE Len(a) + i \in DOMAIN c /\ c[Len(a) + i] = b[i]
  <2>1. Len(a) + i \in 1..(Len(a) + Len(b)) /\ ~(Len(a) + i <= Len(a)) /\ (Len(a) + i) - Len(a) = i
    BY <1>2
  <2> QED BY <1>1, <1>2, <2>1
<1>5. \A i \in DOMAIN c : (i \in DOMAIN a /\ c[i] = a[i]) \/ (i - Len(a) \in DOMAIN b /\ c[i] = b[i - Len(a)])
  BY <1>1, <1>2
<1>6. All(c) \subseteq All(a) \union All(b)
  BY <1>5 DEF All
<1>7. All(a) \subseteq All(c)
  BY <1>2, <1>3 DEF All
<1>8. All(b) \subseteq All(c)
  BY <1>2, <1>4 DEF All
<1>9. c \in Seq(Seq(S)) /\ All(c) = All(a) \union All(b)
  BY <1>1, <1>6, <1>7, <1>8
<1> QED BY <1>9 DEF c

LEMMA AllOfTwo ==
  ASSUME NEW S, NEW x \in Seq(S), NEW y \in Seq(S)
  PROVE  <<x, y>> \in Seq(Seq(S)) /\ All(<<x, y>>) = ToSet(x) \union ToSet(y)
<1>1. <<x, y>> \in Seq(Seq(S)) /\ DOMAIN <<x, y>> = {1, 2} /\ <<x, y>>[1] = x /\ <<x, y>>[2] = y
  <2>1. <<x, y>> \in Seq(Seq(S)) /\ Len(<<x, y>>) = 2 /\ <<x, y>>[1] = x /\ <<x, y>>[2] = y
    OBVIOUS
  <2> QED BY <2>1
<1> QED BY <1>1 DEF All

LEMMA AllOfOne ==
  ASSUME NEW S, NEW s \in Seq(S)
  PROVE  <<s>> \in Seq(Seq(S)) /\ All(<<s>>) = ToSet(s)
<1>1. <<s>> \in Seq(Seq(S)) /\ DOMAIN <<s>> = {1} /\ <<s>>[1] = s
  <2>1. <<s>> \in Seq(Seq(S)) /\ Len(<<s>>) = 1 /\ <<s>>[1] = s
    OBVIOUS
  <2> QED BY <2>1
<1> QED BY <1>1 DEF All

LEMMA AllOfNone ==
  ASSUME NEW S
  PROVE  <<>> \in Seq(Seq(S)) /\ All(<<>>) = {}
<1>1. <<>> \in Seq(Seq(S)) /\ DOMAIN <<>> = {}
  <2>1. <<>> \in Seq(Seq(S)) /\ Len(<<>>) = 0
    OBVIOUS
  <2> QED BY <2>1
<1> QED BY <1>1 DEF All

\* A batch that is halved loses nothing.
LEMMA HalvesAreAll ==
  ASSUME NEW S, NEW b \in Seq(S)
  PROVE  Halves(b) \in Seq(Seq(S)) /\ All(Halves(b)) = ToSet(b)
<1> DEFINE mid == Len(b) \div 2
           x == SubSeq(b, 1, mid)
           y == SubSeq(b, mid + 1, Len(b))
<1>1. Len(b) \in Nat /\ mid \in 0..Len(b) /\ DOMAIN b = 1..Len(b)
  OBVIOUS
<1> HIDE DEF mid
<1>2. x \in Seq(S) /\ Len(x) = mid /\ \A k \in 1..mid : x[k] = b[k]
  <2>1. /\ \A i \in 1..mid : i \in 1..Len(b)
        /\ (IF 1 <= mid THEN mid - 1 + 1 ELSE 0) = mid
        /\ \A i \in 1..mid : 1 + i - 1 = i
    BY <1>1
  <2> QED BY <1>1, <2>1, SubSeqProperties
<1>3. y \in Seq(S) /\ Len(y) = Len(b) - mid /\ \A k \in 1..(Len(b) - mid) : y[k] = b[mid + k]
  <2> DEFINE from == mid + 1
  <2>1. from \in 1..(Len(b) + 1) /\ Len(b) - from + 1 = Len(b) - mid
    BY <1>1
  <2>2. \A i \in 1..(Len(b) - mid) : from + i - 1 = mid + i
    BY <1>1
  <2> HIDE DEF from
  <2>3. (IF from <= Len(b) THEN Len(b) - from + 1 ELSE 0) = Len(b) - mid
    <3>1. CASE from <= Len(b)
      BY <2>1, <3>1
    <3>2. CASE ~(from <= Len(b))
      <4>1. from = Len(b) + 1
        BY <1>1, <2>1, <3>2
      <4>2. Len(b) - from + 1 = 0
        BY <1>1, <4>1
      <4> QED BY <2>1, <3>2, <4>2
    <3> QED BY <3>1, <3>2
  <2>4. \A i \in from..Len(b) : b[i] \in S
    BY <1>1, <2>1
  <2>5. y = SubSeq(b, from, Len(b))
    BY DEF from
  <2> HIDE DEF y
  <2>6. y \in Seq(S) /\ Len(y) = Len(b) - mid /\ \A i \in 1..(Len(b) - mid) : y[i] = b[from + i - 1]
    <3>1. from \in Int /\ Len(b) \in Int
      BY <1>1, <2>1
    <3> QED BY <2>1, <2>3, <2>4, <2>5, <3>1, SubSeqProperties
  <2> QED BY <2>2, <2>6
<1>4. DOMAIN x = 1..mid /\ DOMAIN y = 1..(Len(b) - mid)
  <2> HIDE DEF x, y
  <2> QED BY <1>2, <1>3
<1>5. Halves(b) = <<x, y>>
  BY DEF Halves, x, y, mid
<1> HIDE DEF x, y
<1>6. \A k \in 1..(Len(b) - mid) : mid + k \in 1..Len(b)
  BY <1>1
<1>7. \A k \in 1..Len(b) : k \in 1..mid \/ (k - mid \in 1..(Len(b) - mid) /\ mid + (k - mid) = k)
  BY <1>1
<1>8. ToSet(x) \union ToSet(y) = ToSet(b)
  <2>1. ToSet(x) \subseteq ToSet(b)
    BY <1>1, <1>2, <1>4 DEF ToSet
  <2>2. ToSet(y) \subseteq ToSet(b)
    BY <1>1, <1>3, <1>4, <1>6 DEF ToSet
  <2>3. ASSUME NEW f \in ToSet(b) PROVE f \in ToSet(x) \union ToSet(y)
    <3>1. PICK k \in 1..Len(b) : f = b[k]
      BY <1>1 DEF ToSet
    <3>2. CASE k \in 1..mid
      <4>1. f = x[k] /\ k \in DOMAIN x
        BY <1>2, <1>4, <3>1, <3>2
      <4> QED BY <4>1 DEF ToSet
    <3>3. CASE k \notin 1..mid
      <4>1. k - mid \in 1..(Len(b) - mid) /\ mid + (k - mid) = k
        BY <1>7, <3>3
      <4>2. f = y[k - mid] /\ k - mid \in DOMAIN y
        BY <1>3, <1>4, <3>1, <4>1
      <4> QED BY <4>2 DEF ToSet
    <3> QED BY <3>2, <3>3
  <2> QED BY <2>1, <2>2, <2>3
<1> QED BY <1>2, <1>3, <1>5, <1>8, AllOfTwo

\* The place k is in one of the batches of n.
LEMMA InABatch ==
  ASSUME NEW n \in Nat, n > 0, NEW len \in Nat, NEW k \in 1..len
  PROVE  \E j \in 1..((len + n - 1) \div n) : (j - 1) * n + 1 <= k /\ k <= j * n
<1> DEFINE q == (k - 1) \div n
           m == (len + n - 1) \div n
<1>1. q \in Nat /\ q * n <= k - 1 /\ k - 1 < q * n + n
  OBVIOUS
<1>2. m \in Nat /\ m * n <= len + n - 1 /\ len + n - 1 < m * n + n
  OBVIOUS
<1> HIDE DEF q, m
<1>3. q < m
  <2>1. CASE m <= q
    <3>1. m * n <= q * n
      BY <1>1, <1>2, <2>1
    <3>2. m * n \in Nat /\ q * n \in Nat
      BY <1>1, <1>2
    <3> QED BY <1>1, <1>2, <3>1, <3>2
  <2> QED BY <1>1, <1>2, <2>1
<1>4. q + 1 \in 1..m /\ (q + 1) - 1 = q /\ (q + 1) * n = q * n + n
  BY <1>1, <1>2, <1>3
<1>5. q * n \in Nat
  BY <1>1
<1>6. q * n + 1 <= k /\ k <= q * n + n
  BY <1>1, <1>5
<1>7. ((q + 1) - 1) * n + 1 <= k /\ k <= (q + 1) * n
  BY <1>4, <1>6
<1> QED BY <1>4, <1>7 DEF m

\* The batches of a group are all of it.
LEMMA BatchesAreAll ==
  ASSUME NEW S, NEW group \in Seq(S), group # <<>>
  PROVE  Batches(group) \in Seq(Seq(S)) /\ All(Batches(group)) = ToSet(group)
<1> DEFINE n == IF MaxQuestions > 0 THEN MaxQuestions ELSE Len(group)
           N == (Len(group) + n - 1) \div n
           to(k) == Min({k * n, Len(group)})
           b == Batches(group)
<1>1. Len(group) \in Nat /\ Len(group) > 0 /\ DOMAIN group = 1..Len(group) /\ n \in Nat /\ n > 0
  BY AskerAssumption
<1>2. b = [k \in 1..N |-> SubSeq(group, (k - 1) * n + 1, to(k))]
  BY Zenon DEF Batches
<1>3. N \in Nat
  BY <1>1
<1>4. \A k \in 1..Len(group) : \E j \in 1..N : (j - 1) * n + 1 <= k /\ k <= j * n
  BY <1>1, InABatch
<1> HIDE DEF n, N, b
<1>5. ASSUME NEW k \in 1..N
      PROVE  /\ (k - 1) * n \in Nat /\ k * n \in Nat /\ to(k) \in 0..Len(group)
             /\ \A j \in 1..Len(group) : j <= k * n => j <= to(k)
  <2>1. k \in Nat /\ k - 1 \in Nat
    BY <1>3
  <2>2. k * n \in Nat /\ (k - 1) * n \in Nat
    BY <1>1, <2>1
  <2>3. {k * n, Len(group)} \subseteq Nat /\ {k * n, Len(group)} # {}
    BY <1>1, <2>2
  <2>4. to(k) \in {k * n, Len(group)} /\ \A j \in {k * n, Len(group)} : to(k) <= j
    BY <2>3, Minimum
  <2> HIDE DEF to
  <2>5. to(k) \in 0..Len(group)
    BY <1>1, <2>2, <2>4
  <2>6. to(k) = k * n \/ to(k) = Len(group)
    BY <2>4
  <2> QED BY <1>1, <2>2, <2>5, <2>6
<1>6. ASSUME NEW k \in 1..N
      PROVE  /\ b[k] \in Seq(S) /\ ToSet(b[k]) \subseteq ToSet(group)
             /\ \A j \in 1..Len(group) : (k - 1) * n + 1 <= j /\ j <= k * n => group[j] \in ToSet(b[k])
  <2> DEFINE from == (k - 1) * n + 1
             c == SubSeq(group, from, to(k))
  <2>1. b[k] = c
    BY <1>2
  <2>2. from \in Nat /\ from >= 1 /\ to(k) \in 0..Len(group) /\ \A j \in 1..Len(group) : j <= k * n => j <= to(k)
    <3>1. (k - 1) * n \in Nat
      BY <1>5
    <3>2. from \in Nat /\ from >= 1
      BY <3>1
    <3> HIDE DEF from, to
    <3> QED BY <1>5, <3>2
  <2> HIDE DEF from, to
  <2> DEFINE l == IF from <= to(k) THEN to(k) - from + 1 ELSE 0
  <2>3. \A i \in from..to(k) : i \in 1..Len(group)
    BY <1>1, <2>2
  <2>4. c \in Seq(S) /\ Len(c) = l /\ \A i \in 1..l : c[i] = group[from + i - 1]
    BY <1>1, <2>2, <2>3, SubSeqProperties
  <2>5. l \in Nat /\ (\A i \in 1..l : from + i - 1 \in 1..Len(group))
        /\ \A j \in from..to(k) : j - from + 1 \in 1..l /\ from + (j - from + 1) - 1 = j
    BY <1>1, <2>2
  <2> HIDE DEF c, l
  <2>6. DOMAIN c = 1..l
    BY <2>4
  <2>7. ToSet(c) \subseteq ToSet(group)
    BY <1>1, <2>4, <2>5, <2>6 DEF ToSet
  <2>8. ASSUME NEW j \in 1..Len(group), from <= j, j <= k * n PROVE group[j] \in ToSet(c)
    <3>1. j \in from..to(k)
      BY <2>2, <2>8
    <3>2. j - from + 1 \in DOMAIN c /\ c[j - from + 1] = group[j]
      BY <2>4, <2>5, <2>6, <3>1
    <3> QED BY <3>2 DEF ToSet
  <2>9. \A j \in 1..Len(group) : from <= j /\ j <= k * n => group[j] \in ToSet(b[k])
    BY <2>1, <2>8
  <2>10. b[k] \in Seq(S) /\ ToSet(b[k]) \subseteq ToSet(group)
    BY <2>1, <2>4, <2>7
  <2> QED BY <2>9, <2>10 DEF from
<1>7. DOMAIN b = 1..N
  BY <1>2
<1>8. b \in Seq(Seq(S))
  <2>1. b \in [1..N -> Seq(S)]
    BY <1>2, <1>6, <1>7
  <2> QED BY <1>3, <2>1, SeqDef
<1>9. All(b) \subseteq ToSet(group)
  BY <1>6, <1>7 DEF All
<1>10. ASSUME NEW f \in ToSet(group) PROVE f \in All(b)
  <2>1. PICK j \in 1..Len(group) : f = group[j]
    BY <1>1 DEF ToSet
  <2>2. PICK k \in 1..N : (k - 1) * n + 1 <= j /\ j <= k * n
    BY <1>4
  <2>3. f \in ToSet(b[k])
    BY <1>6, <2>1, <2>2
  <2> QED BY <1>7, <2>3 DEF All
<1> QED BY <1>8, <1>9, <1>10 DEF b

LEMMA InOrderIs ==
  ASSUME NEW S, NEW feats, NEW some \in SUBSET S, IsFiniteSet(some), NEW q \in InOrder(feats, some)
  PROVE  q \in Seq(S) /\ ToSet(q) = some
<1>1. Cardinality(some) \in Nat
  BY FS_CardinalityType
<1>2. q \in [1..Cardinality(some) -> some] /\ ToSet(q) = some
  BY DEF InOrder
<1>3. q \in Seq(some)
  BY <1>1, <1>2, SeqDef
<1>4. Seq(some) \subseteq Seq(S)
  OBVIOUS
<1> QED BY <1>2, <1>3, <1>4

\* Groups are not empty and share nothing.
Apart(parts) ==
  /\ \A k \in DOMAIN parts : parts[k] # <<>>
  /\ \A j, k \in DOMAIN parts : j # k => ToSet(parts[j]) \intersect ToSet(parts[k]) = {}

LEMMA GroupsAreApart ==
  ASSUME NEW S, NEW light \in Seq(S), NEW heavy \in Seq(S), ToSet(light) \intersect ToSet(heavy) = {}
  PROVE  /\ PartitionInspect(light, heavy) \in Seq(Seq(S)) /\ Apart(PartitionInspect(light, heavy))
         /\ All(PartitionInspect(light, heavy)) = ToSet(light) \union ToSet(heavy)
<1> DEFINE g == PartitionInspect(light, heavy)
<1>1. ASSUME NEW s \in Seq(S)
      PROVE  /\ <<s>> \in Seq(Seq(S)) /\ <<>> \o <<s>> = <<s>> /\ <<s>> \o <<>> = <<s>>
             /\ DOMAIN <<s>> = {1} /\ <<s>>[1] = s
  <2>1. <<s>> \in Seq(Seq(S)) /\ Len(<<s>>) = 1 /\ <<s>>[1] = s
    OBVIOUS
  <2> QED BY <2>1, ConcatEmptySeq
<1>2. <<>> \in Seq(Seq(S)) /\ <<>> \o <<>> = <<>> /\ DOMAIN <<>> = {} /\ ToSet(<<>>) = {}
  <2>1. <<>> \in Seq(Seq(S)) /\ Len(<<>>) = 0
    OBVIOUS
  <2>2. DOMAIN <<>> = {}
    BY <2>1
  <2>3. ToSet(<<>>) = {}
    BY <2>2 DEF ToSet
  <2> QED BY <2>1, <2>2, <2>3, ConcatEmptySeq
<1>3. ASSUME NEW s \in Seq(S), s # <<>> PROVE Apart(<<s>>)
  BY <1>1, <1>3 DEF Apart
<1>4. CASE light = <<>> /\ heavy = <<>>
  <2>1. g = <<>>
    BY <1>2, <1>4 DEF PartitionInspect
  <2> QED BY <1>2, <1>4, <2>1 DEF Apart, All
<1>5. CASE light = <<>> /\ heavy # <<>>
  <2>1. g = <<heavy>>
    BY <1>1, <1>5 DEF PartitionInspect
  <2>2. All(<<heavy>>) = ToSet(heavy)
    BY AllOfOne
  <2>3. Apart(<<heavy>>)
    BY <1>5, <1>3
  <2> HIDE DEF g
  <2>4. g \in Seq(Seq(S)) /\ Apart(g) /\ All(g) = ToSet(light) \union ToSet(heavy)
    BY <1>1, <1>2, <1>5, <2>1, <2>2, <2>3
  <2> QED BY <2>4 DEF g
<1>6. CASE light # <<>> /\ heavy = <<>>
  <2>1. g = <<light>>
    BY <1>1, <1>6 DEF PartitionInspect
  <2>2. All(<<light>>) = ToSet(light)
    BY AllOfOne
  <2>3. Apart(<<light>>)
    BY <1>6, <1>3
  <2> HIDE DEF g
  <2>4. g \in Seq(Seq(S)) /\ Apart(g) /\ All(g) = ToSet(light) \union ToSet(heavy)
    BY <1>1, <1>2, <1>6, <2>1, <2>2, <2>3
  <2> QED BY <2>4 DEF g
<1>7. CASE light # <<>> /\ heavy # <<>>
  <2>1. g = <<light>> \o <<heavy>>
    BY <1>7 DEF PartitionInspect
  <2>2. <<light>> \in Seq(Seq(S)) /\ <<heavy>> \in Seq(Seq(S)) /\ Len(<<light>>) = 1 /\ Len(<<heavy>>) = 1
    BY <1>1
  <2>3. g \in Seq(Seq(S)) /\ All(g) = ToSet(light) \union ToSet(heavy)
    <3>1. All(<<light>>) = ToSet(light) /\ All(<<heavy>>) = ToSet(heavy)
      BY AllOfOne
    <3>2. <<light>> \o <<heavy>> \in Seq(Seq(S)) /\ All(<<light>> \o <<heavy>>) = All(<<light>>) \union All(<<heavy>>)
      <4> DEFINE a == <<light>>
                 b == <<heavy>>
      <4>1. a \in Seq(Seq(S)) /\ b \in Seq(Seq(S))
        BY <2>2
      <4> HIDE DEF a, b
      <4>2. a \o b \in Seq(Seq(S)) /\ All(a \o b) = All(a) \union All(b)
        BY <4>1, AllOfBoth
      <4> QED BY <4>2 DEF a, b
    <3> HIDE DEF g
    <3> QED BY <2>1, <3>1, <3>2
  <2>4. /\ Len(g) = 2 /\ g[1] = light /\ g[2] = heavy
    <3>1. Len(g) = 2 /\ \A i \in 1..2 : g[i] = IF i <= 1 THEN <<light>>[i] ELSE <<heavy>>[i - 1]
      BY <2>1, <2>2, ConcatProperties
    <3> HIDE DEF g
    <3> QED BY <1>1, <3>1
  <2>5. DOMAIN g = {1, 2}
    <3> HIDE DEF g
    <3> QED BY <2>3, <2>4
  <2>6. Apart(g)
    <3> HIDE DEF g
    <3> QED BY <1>7, <2>4, <2>5 DEF Apart
  <2> QED BY <2>3, <2>6
<1> QED BY <1>4, <1>5, <1>6, <1>7

LEMMA ApartTail ==
  ASSUME NEW S, NEW parts \in Seq(Seq(S)), parts # <<>>, Apart(parts)
  PROVE  /\ Head(parts) # <<>> /\ Apart(Tail(parts))
         /\ ToSet(Head(parts)) \intersect All(Tail(parts)) = {}
<1>1. /\ Len(parts) \in Nat /\ Len(parts) >= 1 /\ DOMAIN parts = 1..Len(parts) /\ Head(parts) = parts[1]
      /\ Tail(parts) \in Seq(Seq(S)) /\ Len(Tail(parts)) = Len(parts) - 1
      /\ \A k \in 1..(Len(parts) - 1) : Tail(parts)[k] = parts[k + 1]
  OBVIOUS
<1> DEFINE rest == Tail(parts)
<1> HIDE DEF rest
<1>2. DOMAIN rest = 1..(Len(parts) - 1)
  BY <1>1 DEF rest
<1>3. \A k \in DOMAIN rest : k + 1 \in DOMAIN parts /\ k + 1 # 1 /\ rest[k] = parts[k + 1]
  BY <1>1, <1>2 DEF rest
<1>4. \A j, k \in DOMAIN rest : j # k => j + 1 # k + 1
  BY <1>1, <1>2
<1>5. 1 \in DOMAIN parts
  BY <1>1
<1>6. Apart(rest)
  BY <1>3, <1>4 DEF Apart
<1>7. ToSet(parts[1]) \intersect All(rest) = {}
  <2>1. \A k \in DOMAIN rest : ToSet(parts[1]) \intersect ToSet(rest[k]) = {}
    BY <1>3, <1>5 DEF Apart
  <2> QED BY <2>1 DEF All
<1> QED BY <1>1, <1>5, <1>6, <1>7 DEF Apart, rest

\* No more is missing of a batch than it asks.
LEMMA NoMoreMissing ==
  ASSUME NEW S, NEW b \in Seq(S), NEW miss \in SUBSET ToSet(b)
  PROVE  Cardinality(miss) \in 0..Len(b)
<1>1. Len(b) \in Nat /\ DOMAIN b = 1..Len(b)
  OBVIOUS
<1>2. IsFiniteSet(1..Len(b)) /\ Cardinality(1..Len(b)) = Len(b)
  BY <1>1, FS_Interval
<1>3. ToSet(b) = {b[k] : k \in 1..Len(b)}
  BY <1>1 DEF ToSet
<1>4. IsFiniteSet(ToSet(b)) /\ Cardinality(ToSet(b)) <= Len(b) /\ Cardinality(ToSet(b)) \in Nat
  <2>1. b \in Surjection(1..Len(b), ToSet(b))
    BY <1>1, <1>3 DEF Surjection
  <2> QED BY <1>2, <2>1, FS_Surjection, FS_CardinalityType
<1>5. Cardinality(miss) <= Cardinality(ToSet(b)) /\ Cardinality(miss) \in Nat
  BY <1>4, FS_Subset, FS_CardinalityType
<1> QED BY <1>1, <1>4, <1>5

-----------------------------------------------------------------------------
(***************************************************************************)
(* Its inductive invariant: what each thread, the counters, and the items  *)
(* that are taken hold.                                                    *)
(***************************************************************************)
Sent == {"fetch", "wire", "record"}
Feats(i) == ToSet(Items[i].feats)
InCache(i, feats) == \A f \in feats : <<Items[i].state, f.id>> \in cache
AskedIds == {f.id : f \in Questions}

\* what was said of an item, and what its other groups are
GroupsHold(th) ==
  /\ th.item \in 1..(next - 1) /\ Apart(th.groups) /\ All(th.groups) \subseteq Feats(th.item)
  /\ Explains(th.item, th.given, Feats(th.item) \ All(th.groups))
\* the batches of a group: done, or on the stack
BatchesHold(th) ==
  /\ th.groups # <<>> /\ th.out \union All(th.stack) = ToSet(Head(th.groups)) /\ InCache(th.item, th.out)
  /\ th.at \in Sent => th.stack # <<>>
\* the counters of a chunk
ChunkHolds(th) ==
  /\ th.before <= hits
  /\ th.at = "fetch" => th.sent = 0
  /\ th.at \in {"wire", "record"} => th.first <= Len(Head(th.stack))
  /\ th.at = "record" =>
       /\ th.sent = 0 => th.outcome \in {"ok", "miss"}
       /\ th.sent = 0 /\ th.outcome = "ok" => hits - th.before >= Len(Head(th.stack))
       /\ th.outcome = "ok" => InCache(th.item, ToSet(Head(th.stack)))
ThreadHolds(th) ==
  /\ th.at # "idle" => GroupsHold(th)
  /\ th.at \in {"batch"} \union Sent => BatchesHold(th)
  /\ th.at \in Sent => ChunkHolds(th)

Taken ==
  \A i \in 1..(next - 1) : failed \/ values[i] # NoAnswers \/ \E t \in Threads : thread[t].at # "idle" /\ thread[t].item = i
Finished == \A i \in DOMAIN Items : values[i] # NoAnswers => Explains(i, values[i], Feats(i))
Counted == stats.asked + stats.hits <= tried /\ (~partial => stats.asked + stats.hits = tried)
AskerInv == AskerTypeOK /\ (\A t \in Threads : ThreadHolds(thread[t])) /\ Taken /\ Finished /\ Counted

LEMMA ItemFacts ==
  ASSUME NEW i \in 1..Len(Items)
  PROVE  /\ i \in DOMAIN Items /\ Items[i].feats \in Seq(Feats(i)) /\ Items[i].feats \in Seq(Questions)
         /\ Feats(i) \subseteq Questions /\ IsFiniteSet(Feats(i))
         /\ \A f, g \in Feats(i) : f.id = g.id => f = g
<1> DEFINE feats == Items[i].feats
<1>1. Len(Items) \in Nat /\ DOMAIN Items = 1..Len(Items)
  BY AskerAssumption
<1>2. feats \in Seq(ToSet(feats)) /\ \A m, n \in DOMAIN feats : feats[m].id = feats[n].id => m = n
  BY <1>1, AskerAssumption
<1>3. ToSet(feats) \subseteq Questions
  BY <1>1 DEF Questions
<1> HIDE DEF feats
<1>4. feats \in Seq(Questions)
  BY <1>2, <1>3
<1>5. \A f, g \in ToSet(feats) : f.id = g.id => f = g
  BY <1>2 DEF ToSet
<1>6. IsFiniteSet(ToSet(feats))
  <2>1. Len(feats) \in Nat /\ DOMAIN feats = 1..Len(feats)
    BY <1>2
  <2>2. feats \in Surjection(1..Len(feats), ToSet(feats))
    BY <1>2, <2>1 DEF Surjection, ToSet
  <2> QED BY <2>1, <2>2, FS_Interval, FS_Surjection
<1> QED BY <1>1, <1>2, <1>3, <1>4, <1>5, <1>6 DEF feats, Feats

\* What was said stays true, whatever is cached after it.
LEMMA StillExplains ==
  ASSUME NEW i, NEW given, NEW feats, cache \subseteq cache', Explains(i, given, feats)
  PROVE  Explains(i, given, feats)'
BY DEF Explains

\* One reason for more of the features explains them, too.
LEMMA ExplainsMore ==
  ASSUME NEW i, NEW given, NEW feats, NEW more, NEW what, Explains(i, given, feats),
         what # "nothing", what = "answered" => InCache(i, more),
         feats \intersect more = {}, \A f, g \in feats \union more : f.id = g.id => f = g
  PROVE  Explains(i, given \union Reason(more, what), feats \union more)
<1> DEFINE all == given \union Reason(more, what)
<1>1. \A v \in Reason(more, what) : v[2] = what /\ \E f \in more : v = <<f.id, what>> /\ v[1] = f.id
  BY DEF Reason
<1>2. \A f \in more : <<f.id, what>> \in Reason(more, what) /\ <<f.id, what>>[1] = f.id
  BY DEF Reason
<1>3. \A v \in given : \E f \in feats : v[1] = f.id
  BY DEF Explains
<1>4. \A f \in feats : \E v \in given : v[1] = f.id
  BY DEF Explains
<1>5. {v[1] : v \in all} = {f.id : f \in feats \union more}
  <2>1. ASSUME NEW v \in all PROVE \E f \in feats \union more : v[1] = f.id
    BY <1>1, <1>3
  <2>2. ASSUME NEW f \in feats \union more PROVE \E v \in all : v[1] = f.id
    BY <1>2, <1>4
  <2> QED BY <2>1, <2>2
<1>6. ASSUME NEW v \in all, NEW w \in all, v[1] = w[1] PROVE v = w
  <2>1. CASE v \in given /\ w \in given
    BY <1>6, <2>1 DEF Explains
  <2>2. CASE v \in Reason(more, what) /\ w \in Reason(more, what)
    BY <1>1, <1>6, <2>2
  <2>3. \A x \in given, y \in Reason(more, what) : x[1] # y[1]
    BY <1>1, <1>3
  <2> QED BY <1>6, <2>1, <2>2, <2>3
<1>7. ASSUME NEW v \in all, v[2] = "answered" PROVE <<Items[i].state, v[1]>> \in cache
  <2>1. CASE v \in given
    BY <1>7, <2>1 DEF Explains
  <2>2. CASE v \in Reason(more, what)
    BY <1>1, <1>7, <2>2 DEF InCache
  <2> QED BY <2>1, <2>2
<1>8. \A v \in all : v[2] # "nothing"
  BY <1>1 DEF Explains
<1> HIDE DEF all
<1>9. Explains(i, all, feats \union more)
  BY <1>5, <1>6, <1>7, <1>8 DEF Explains
<1> QED BY <1>9 DEF all

LEMMA ExplainsNothing ==
  ASSUME NEW i
  PROVE  Explains(i, {}, {})
BY DEF Explains

-----------------------------------------------------------------------------
(***************************************************************************)
(* Each step keeps it.                                                     *)
(***************************************************************************)
Keys == {Items[i].state : i \in DOMAIN Items} \X AskedIds

LEMMA TypeFacts ==
  ASSUME AskerTypeOK
  PROVE  /\ next \in 1..(Len(Items) + 1) /\ Len(Items) \in Nat /\ DOMAIN Items = 1..Len(Items)
         /\ thread \in [Threads -> ThreadState]
         /\ hits \in Nat /\ requests \in Nat /\ tried \in Nat /\ failures \in Nat
         /\ stats \in [asked : Nat, hits : Nat, retries : Nat] /\ cache \subseteq Keys
         /\ values \in [DOMAIN Items -> (SUBSET Told) \union {NoAnswers}] /\ failed \in BOOLEAN /\ partial \in BOOLEAN
<1>1. Len(Items) \in Nat /\ DOMAIN Items = 1..Len(Items)
  BY AskerAssumption
<1> QED BY <1>1 DEF AskerTypeOK, Keys, AskedIds

\* A thread that rests from a step is where it was.
LEMMA StillHolds ==
  ASSUME NEW th \in ThreadState, ThreadHolds(th), cache \subseteq cache',
         hits \in Nat, hits' \in Nat, hits <= hits', next \in Nat, next' \in Nat, next <= next'
  PROVE  ThreadHolds(th)'
<1>1. \A given, feats : Explains(th.item, given, feats) => Explains(th.item, given, feats)'
  BY StillExplains
<1>2. \A feats : InCache(th.item, feats) => InCache(th.item, feats)'
  BY DEF InCache
<1>3. th.before \in Nat
  BY DEF ThreadState
<1>4. GroupsHold(th) => GroupsHold(th)'
  BY <1>1 DEF GroupsHold
<1>5. BatchesHold(th) => BatchesHold(th)'
  BY <1>2 DEF BatchesHold
<1>6. ChunkHolds(th) => ChunkHolds(th)'
  <2>1. \A n \in Int : hits - th.before >= n => hits' - th.before >= n
    BY <1>3
  <2> QED BY <1>2, <1>3, <2>1 DEF ChunkHolds
<1> QED BY <1>4, <1>5, <1>6 DEF ThreadHolds

LEMMA ThreadsHold ==
  ASSUME AskerInv, NEW t \in Threads, NEW x \in ThreadState, thread' = [thread EXCEPT ![t] = x],
         cache \subseteq cache', hits' \in Nat, hits <= hits', next' \in Nat, next <= next', ThreadHolds(x)'
  PROVE  /\ thread' \in [Threads -> ThreadState]
         /\ \A u \in Threads : thread'[u] = IF u = t THEN x ELSE thread[u]
         /\ (\A u \in Threads : ThreadHolds(thread[u]))'
<1>1. thread \in [Threads -> ThreadState] /\ hits \in Nat /\ next \in Nat
  BY TypeFacts DEF AskerInv
<1>2. thread' \in [Threads -> ThreadState] /\ \A u \in Threads : thread'[u] = IF u = t THEN x ELSE thread[u]
  BY <1>1
<1>3. \A th \in ThreadState : ThreadHolds(th) => ThreadHolds(th)'
  BY <1>1, StillHolds
<1>4. ASSUME NEW u \in Threads PROVE ThreadHolds(thread[u])'
  <2>1. CASE u = t
    BY <1>2, <2>1
  <2>2. CASE u # t
    <3>1. thread'[u] = thread[u] /\ thread[u] \in ThreadState /\ ThreadHolds(thread[u])
      BY <1>1, <1>2, <2>2 DEF AskerInv
    <3>2. PICK th \in ThreadState : th = thread[u]
      BY <3>1
    <3>3. ThreadHolds(th) /\ thread'[u] = th
      BY <3>1, <3>2
    <3>4. ThreadHolds(th)'
      BY <1>3, <3>3
    <3> QED BY <3>3, <3>4
  <2> QED BY <2>1, <2>2
<1> QED BY <1>2, <1>4

\* A step of a thread that stays with its item and counts nothing.
LEMMA QuietStep ==
  ASSUME AskerInv, NEW t \in Threads, NEW x \in ThreadState, thread' = [thread EXCEPT ![t] = x],
         x.at # "idle", x.item = thread[t].item, UNCHANGED <<next, values, stats, tried, partial, failed>>,
         cache \subseteq cache', cache' \subseteq Keys, hits' \in Nat, hits <= hits',
         requests' \in Nat, failures' \in Nat, ThreadHolds(x)'
  PROVE  AskerInv'
<1>1. /\ next \in 1..(Len(Items) + 1) /\ Len(Items) \in Nat
      /\ thread \in [Threads -> ThreadState] /\ tried \in Nat
      /\ stats \in [asked : Nat, hits : Nat, retries : Nat]
      /\ values \in [DOMAIN Items -> (SUBSET Told) \union {NoAnswers}] /\ failed \in BOOLEAN /\ partial \in BOOLEAN
  BY TypeFacts DEF AskerInv
<1>2. next' \in Nat /\ next <= next'
  BY <1>1
<1>3. /\ thread' \in [Threads -> ThreadState]
      /\ \A u \in Threads : thread'[u] = IF u = t THEN x ELSE thread[u]
      /\ (\A u \in Threads : ThreadHolds(thread[u]))'
  BY <1>2, ThreadsHold
<1>4. AskerTypeOK'
  BY <1>1, <1>3 DEF AskerTypeOK, Keys, AskedIds
<1>5. Taken'
  <2>1. SUFFICES ASSUME NEW i \in 1..(next - 1), ~failed, values[i] = NoAnswers
                 PROVE  \E u \in Threads : thread'[u].at # "idle" /\ thread'[u].item = i
    BY DEF Taken
  <2>2. PICK u \in Threads : thread[u].at # "idle" /\ thread[u].item = i
    BY <2>1 DEF AskerInv, Taken
  <2> QED BY <1>3, <2>2
<1>6. Finished'
  <2>1. SUFFICES ASSUME NEW i \in DOMAIN Items, values[i] # NoAnswers
                 PROVE  Explains(i, values[i], Feats(i))'
    BY DEF Finished
  <2>2. Explains(i, values[i], Feats(i))
    BY <2>1 DEF AskerInv, Finished
  <2>3. PICK given : given = values[i]
    OBVIOUS
  <2>4. Explains(i, given, Feats(i))' /\ values'[i] = given
    BY <2>2, <2>3, StillExplains
  <2> QED BY <2>4
<1>7. Counted'
  BY DEF AskerInv, Counted
<1> QED BY <1>3, <1>4, <1>5, <1>6, <1>7 DEF AskerInv

LEMMA HereFacts ==
  ASSUME AskerInv, NEW t \in Threads
  PROVE  /\ thread[t] \in ThreadState /\ ThreadHolds(thread[t])
         /\ thread[t].at # "idle" => thread[t].item \in 1..Len(Items)
         /\ next \in 1..(Len(Items) + 1) /\ Len(Items) \in Nat /\ hits \in Nat /\ requests \in Nat /\ failures \in Nat
         /\ cache \subseteq Keys
<1>1. /\ next \in 1..(Len(Items) + 1) /\ Len(Items) \in Nat /\ thread \in [Threads -> ThreadState]
      /\ hits \in Nat /\ requests \in Nat /\ failures \in Nat /\ cache \subseteq Keys
  BY TypeFacts DEF AskerInv
<1>2. thread[t] \in ThreadState /\ ThreadHolds(thread[t])
  BY <1>1 DEF AskerInv
<1>3. thread[t].at # "idle" => thread[t].item \in 1..Len(Items)
  BY <1>1, <1>2 DEF ThreadHolds, GroupsHold
<1> QED BY <1>1, <1>2, <1>3

\* A step of a thread after which all is as it was, but for what the thread is at.
LEMMA LocalStep ==
  ASSUME AskerInv, NEW t \in Threads, NEW x \in ThreadState, thread' = [thread EXCEPT ![t] = x],
         x.at # "idle", x.item = thread[t].item, ThreadHolds(x),
         UNCHANGED <<next, cache, hits, requests, stats, values, failed, tried, partial, failures>>
  PROVE  AskerInv'
<1>1. next \in Nat /\ hits \in Nat /\ requests \in Nat /\ failures \in Nat /\ cache \subseteq Keys
  BY HereFacts
<1>2. ThreadHolds(x)'
  BY <1>1, StillHolds
<1>3. /\ cache \subseteq cache' /\ cache' \subseteq Keys /\ hits' \in Nat /\ hits <= hits'
      /\ requests' \in Nat /\ failures' \in Nat
  BY <1>1
<1> QED BY <1>2, <1>3, QuietStep

\* A group that ends with one reason for all of its features.
LEMMA GroupEnds ==
  ASSUME NEW th \in ThreadState, GroupsHold(th), th.groups # <<>>, th.item \in 1..Len(Items),
         NEW what \in Reasons, what # "nothing", what = "answered" => InCache(th.item, ToSet(Head(th.groups))),
         NEW x, x.at = "group", x.item = th.item, x.groups = Tail(th.groups),
         x.given = th.given \union Reason(ToSet(Head(th.groups)), what)
  PROVE  /\ ThreadHolds(x) /\ x.groups \in Seq(Seq(Questions)) /\ x.given \in SUBSET Told
<1> DEFINE head == ToSet(Head(th.groups))
           feats == Feats(th.item)
           said == feats \ All(th.groups)
<1>1. th.groups \in Seq(Seq(Questions)) /\ th.given \in SUBSET Told
  BY DEF ThreadState
<1>2. /\ Head(th.groups) \in Seq(Questions) /\ Tail(th.groups) \in Seq(Seq(Questions))
      /\ All(th.groups) = head \union All(Tail(th.groups))
  BY <1>1, AllOfTail
<1>3. Apart(Tail(th.groups)) /\ head \intersect All(Tail(th.groups)) = {}
  BY <1>1, ApartTail DEF GroupsHold
<1>4. /\ All(th.groups) \subseteq feats /\ Explains(th.item, th.given, said) /\ th.item \in 1..(next - 1)
  BY DEF GroupsHold
<1>5. feats \subseteq Questions /\ \A f, g \in feats : f.id = g.id => f = g
  BY ItemFacts
<1>6. Explains(th.item, th.given \union Reason(head, what), said \union head)
  <2>1. said \intersect head = {} /\ said \union head \subseteq feats
    BY <1>2, <1>4
  <2> HIDE DEF head, feats, said
  <2>2. what = "answered" => InCache(th.item, head)
    BY DEF head
  <2> QED BY <1>4, <1>5, <2>1, <2>2, ExplainsMore
<1>7. feats \ All(x.groups) = said \union head
  BY <1>2, <1>3, <1>4
<1>8. GroupsHold(x)
  BY <1>2, <1>3, <1>4, <1>6, <1>7 DEF GroupsHold
<1>9. Reason(head, what) \subseteq Told
  BY <1>2, <1>4, <1>5 DEF Reason, Told
<1> QED BY <1>1, <1>2, <1>8, <1>9 DEF ThreadHolds, Sent

LEMMA StartGroupStep ==
  ASSUME AskerInv, NEW t \in Threads, StartGroup(t)
  PROVE  AskerInv'
<1> DEFINE th == thread[t]
           head == Head(th.groups)
<1>1. PICK x : x = [th EXCEPT !.at = "batch", !.stack = Batches(head), !.out = {}]
  OBVIOUS
<1>2. /\ th.at = "group" /\ th.groups # <<>> /\ thread' = [thread EXCEPT ![t] = x]
      /\ UNCHANGED <<next, cache, hits, requests, stats, values, failed, tried, partial, failures>>
  BY <1>1 DEF StartGroup
<1>3. th \in ThreadState /\ GroupsHold(th)
  BY <1>2, HereFacts DEF ThreadHolds
<1>4. th.groups \in Seq(Seq(Questions))
  BY <1>3 DEF ThreadState
<1>5. head \in Seq(Questions) /\ head # <<>>
  BY <1>2, <1>3, <1>4, AllOfTail, ApartTail DEF GroupsHold
<1>6. Batches(head) \in Seq(Seq(Questions)) /\ All(Batches(head)) = ToSet(head)
  <2> HIDE DEF head
  <2> QED BY <1>5, BatchesAreAll
<1>7. /\ x \in ThreadState /\ x.at = "batch" /\ x.item = th.item /\ x.groups = th.groups /\ x.given = th.given
      /\ x.stack = Batches(head) /\ x.out = {}
  <2> HIDE DEF head
  <2> QED BY <1>1, <1>3, <1>6 DEF ThreadState
<1>8. GroupsHold(x)
  BY <1>3, <1>7 DEF GroupsHold
<1>9. BatchesHold(x)
  BY <1>2, <1>6, <1>7 DEF BatchesHold, InCache, Sent
<1>10. ThreadHolds(x)
  BY <1>7, <1>8, <1>9 DEF ThreadHolds, Sent
<1> QED BY <1>2, <1>7, <1>10, LocalStep

LEMMA BeginBatchStep ==
  ASSUME AskerInv, NEW t \in Threads, BeginBatch(t)
  PROVE  AskerInv'
<1> DEFINE th == thread[t]
           batch == Head(th.stack)
           whole == [th EXCEPT !.at = "fetch", !.before = hits, !.sent = 0, !.first = 0]
           halved == [th EXCEPT !.stack = Halves(batch) \o Tail(th.stack)]
           given == GroupIs(t, "state_too_large")
<1>1. /\ th.at = "batch" /\ th.stack # <<>>
      /\ UNCHANGED <<next, cache, hits, requests, stats, values, failed, tried, partial, failures>>
      /\ \E x \in {whole, halved, given} : thread' = [thread EXCEPT ![t] = x]
  <2>1. /\ th.at = "batch" /\ th.stack # <<>>
        /\ UNCHANGED <<next, cache, hits, requests, stats, values, failed, tried, partial, failures>>
    BY DEF BeginBatch
  <2> DEFINE large == Me(t).diagnostic /\ Bytes(Batch(t)) > MaxBytes
  <2>2. thread' = [thread EXCEPT ![t] = IF ~large THEN [@ EXCEPT !.at = "fetch", !.before = hits, !.sent = 0, !.first = 0]
                                        ELSE IF Len(Batch(t)) > 1 THEN halved ELSE given]
    BY DEF BeginBatch, Batch
  <2> HIDE DEF large
  <2>3. CASE ~large
    <3>1. thread' = [thread EXCEPT ![t] = whole]
      BY <2>2, <2>3
    <3> HIDE DEF whole, halved, given
    <3> QED BY <2>1, <3>1
  <2>4. CASE large /\ Len(Batch(t)) > 1
    <3>1. thread' = [thread EXCEPT ![t] = halved]
      BY <2>2, <2>4
    <3> HIDE DEF whole, halved, given
    <3> QED BY <2>1, <3>1
  <2>5. CASE large /\ ~(Len(Batch(t)) > 1)
    <3>1. thread' = [thread EXCEPT ![t] = given]
      BY <2>2, <2>5
    <3> HIDE DEF whole, halved, given
    <3> QED BY <2>1, <3>1
  <2> QED BY <2>1, <2>3, <2>4, <2>5
<1>2. /\ th \in ThreadState /\ GroupsHold(th) /\ BatchesHold(th) /\ th.item \in 1..Len(Items) /\ hits \in Nat
  BY <1>1, HereFacts DEF ThreadHolds
<1>3. PICK x \in {whole, halved, given} : thread' = [thread EXCEPT ![t] = x]
  BY <1>1
<1>4. th.stack \in Seq(Seq(Questions)) /\ th.groups \in Seq(Seq(Questions)) /\ th.groups # <<>>
  BY <1>2 DEF ThreadState, BatchesHold
<1>5. batch \in Seq(Questions) /\ Tail(th.stack) \in Seq(Seq(Questions)) /\ All(th.stack) = ToSet(batch) \union All(Tail(th.stack))
  BY <1>1, <1>4, AllOfTail
<1>6. CASE x = whole
  <2>1. /\ x \in ThreadState /\ x.at = "fetch" /\ x.item = th.item /\ x.groups = th.groups /\ x.given = th.given
        /\ x.stack = th.stack /\ x.out = th.out /\ x.before = hits /\ x.sent = 0
    BY <1>2, <1>6 DEF ThreadState
  <2>2. GroupsHold(x)
    BY <1>2, <2>1 DEF GroupsHold
  <2>3. BatchesHold(x)
    BY <1>1, <1>2, <2>1 DEF BatchesHold
  <2>4. ChunkHolds(x)
    BY <1>2, <2>1 DEF ChunkHolds
  <2>5. ThreadHolds(x)
    BY <2>2, <2>3, <2>4 DEF ThreadHolds
  <2> QED BY <1>1, <1>3, <2>1, <2>5, LocalStep
<1>7. CASE x = halved
  <2>1. Halves(batch) \in Seq(Seq(Questions)) /\ All(Halves(batch)) = ToSet(batch)
    <3> HIDE DEF batch
    <3> QED BY <1>5, HalvesAreAll
  <2> DEFINE more == Halves(batch) \o Tail(th.stack)
  <2>2. more \in Seq(Seq(Questions)) /\ All(more) = All(th.stack)
    <3>1. more \in Seq(Seq(Questions)) /\ All(more) = All(Halves(batch)) \union All(Tail(th.stack))
      <4> HIDE DEF batch
      <4> DEFINE a == Halves(batch)
                 b == Tail(th.stack)
      <4>1. a \in Seq(Seq(Questions)) /\ b \in Seq(Seq(Questions))
        BY <1>5, <2>1
      <4> HIDE DEF a, b
      <4>2. a \o b \in Seq(Seq(Questions)) /\ All(a \o b) = All(a) \union All(b)
        BY <4>1, AllOfBoth
      <4> QED BY <4>2 DEF a, b
    <3> HIDE DEF more, batch
    <3> QED BY <1>5, <2>1, <3>1
  <2>3. /\ x \in ThreadState /\ x.at = "batch" /\ x.item = th.item /\ x.groups = th.groups /\ x.given = th.given
        /\ x.stack = more /\ x.out = th.out
    <3>1. x = [th EXCEPT !.stack = more]
      BY <1>7
    <3> HIDE DEF more
    <3> QED BY <1>1, <1>2, <2>2, <3>1 DEF ThreadState
  <2>4. GroupsHold(x)
    BY <1>2, <2>3 DEF GroupsHold
  <2>5. BatchesHold(x)
    BY <1>2, <2>2, <2>3 DEF BatchesHold, Sent
  <2>6. ThreadHolds(x)
    BY <2>3, <2>4, <2>5 DEF ThreadHolds, Sent
  <2> QED BY <1>1, <1>3, <2>3, <2>6, LocalStep
<1>8. CASE x = given
  <2> DEFINE more == th.given \union Reason(ToSet(Head(th.groups)), "state_too_large")
  <2>1. x = [th EXCEPT !.at = "group", !.groups = Tail(@), !.stack = <<>>, !.given = more]
    BY <1>8 DEF GroupIs
  <2> HIDE DEF more, given
  <2>2. x.at = "group" /\ x.item = th.item /\ x.groups = Tail(th.groups) /\ x.given = more
    BY <1>2, <2>1 DEF ThreadState
  <2>3. ThreadHolds(x) /\ x.groups \in Seq(Seq(Questions)) /\ x.given \in SUBSET Told
    <3>1. "state_too_large" \in Reasons
      BY DEF Reasons
    <3> QED BY <1>2, <1>4, <2>2, <3>1, GroupEnds DEF more
  <2>4. x \in ThreadState
    <3>1. Tail(th.groups) \in Seq(Seq(Questions)) /\ more \in SUBSET Told
      BY <2>2, <2>3
    <3>2. <<>> \in Seq(Seq(Questions))
      BY AllOfNone
    <3> QED BY <1>2, <2>1, <3>1, <3>2 DEF ThreadState
  <2> QED BY <1>1, <1>3, <2>2, <2>3, <2>4, LocalStep
<1> QED BY <1>3, <1>6, <1>7, <1>8

LEMMA FetchStep ==
  ASSUME AskerInv, NEW t \in Threads, Fetch(t)
  PROVE  AskerInv'
<1> DEFINE th == thread[t]
           batch == Head(th.stack)
           miss == Missing(t)
           at == IF miss # {} /\ Live THEN "wire" ELSE "record"
           outcome == IF miss = {} THEN "ok" ELSE "miss"
<1>1. PICK x : x = [th EXCEPT !.at = at, !.first = Cardinality(miss), !.outcome = outcome]
  OBVIOUS
<1>2. /\ th.at = "fetch" /\ hits' = hits + Len(batch) - Cardinality(miss)
      /\ thread' = [thread EXCEPT ![t] = x]
      /\ UNCHANGED <<next, cache, requests, stats, values, failed, tried, partial, failures>>
  BY <1>1 DEF Fetch, Batch
<1>3. /\ th \in ThreadState /\ GroupsHold(th) /\ BatchesHold(th) /\ ChunkHolds(th)
      /\ hits \in Nat /\ requests \in Nat /\ failures \in Nat /\ cache \subseteq Keys
  BY <1>2, HereFacts DEF ThreadHolds, Sent
<1>4. th.stack \in Seq(Seq(Questions)) /\ th.stack # <<>>
  BY <1>2, <1>3 DEF ThreadState, BatchesHold, Sent
<1>5. batch \in Seq(Questions)
  BY <1>4, AllOfTail
<1>6. miss \in SUBSET ToSet(batch) /\ \A f \in ToSet(batch) \ miss : <<Items[th.item].state, f.id>> \in cache
  BY DEF Missing, Batch, Key, Me
<1> HIDE DEF batch, miss
<1>7. Len(batch) \in Nat /\ Cardinality(miss) \in 0..Len(batch)
  BY <1>5, <1>6, NoMoreMissing
<1>8. hits' \in Nat /\ hits <= hits' /\ th.before \in Nat /\ th.before <= hits /\ th.sent = 0
  <2>1. th.before \in Nat
    BY <1>3 DEF ThreadState
  <2>2. th.before <= hits /\ th.sent = 0
    BY <1>2, <1>3 DEF ChunkHolds
  <2> DEFINE c == Cardinality(miss)
  <2>3. hits' = hits + Len(batch) - c /\ c \in 0..Len(batch) /\ Len(batch) \in Nat
    BY <1>2, <1>7 DEF batch
  <2> HIDE DEF c
  <2>4. hits' \in Nat /\ hits <= hits'
    BY <1>3, <2>3
  <2> QED BY <2>1, <2>2, <2>4
<1>9. /\ x \in ThreadState /\ x.at = at /\ x.item = th.item /\ x.groups = th.groups /\ x.given = th.given
      /\ x.stack = th.stack /\ x.out = th.out /\ x.before = th.before /\ x.sent = 0 /\ x.first = Cardinality(miss)
      /\ x.outcome = outcome
  <2>1. at \in {"wire", "record"} /\ outcome \in {"ok", "miss"} /\ Cardinality(miss) \in Nat
    BY <1>7
  <2> HIDE DEF at, outcome
  <2> QED BY <1>1, <1>3, <1>8, <2>1 DEF ThreadState
<1>10. Explains(x.item, x.given, Feats(x.item) \ All(x.groups))'
  <2>1. Explains(x.item, x.given, Feats(x.item) \ All(x.groups))
    BY <1>3, <1>9 DEF GroupsHold
  <2> QED BY <1>2, <2>1, StillExplains
<1>11. GroupsHold(x)'
  BY <1>2, <1>3, <1>9, <1>10 DEF GroupsHold
<1>12. BatchesHold(x)'
  BY <1>2, <1>3, <1>4, <1>9 DEF BatchesHold, InCache
<1>13. ChunkHolds(x)'
  <2>1. x.outcome \in {"ok", "miss"} /\ x.at # "fetch"
    BY <1>9
  <2>2. Head(x.stack) = batch
    BY <1>9 DEF batch
  <2>3. x.before <= hits'
    BY <1>3, <1>8, <1>9
  <2>4. x.first <= Len(Head(x.stack))
    BY <1>7, <1>9, <2>2
  <2>5. ASSUME x.outcome = "ok" PROVE hits' - x.before >= Len(Head(x.stack)) /\ InCache(x.item, ToSet(Head(x.stack)))'
    <3>1. miss = {}
      BY <1>9, <2>5
    <3>2. Cardinality(miss) = 0
      BY <3>1, FS_EmptySet
    <3>3. hits' = hits + Len(batch) - Cardinality(miss)
      BY <1>2 DEF batch
    <3>4. hits' - x.before >= Len(batch)
      <4>1. x.before \in Nat /\ x.before <= hits
        BY <1>8, <1>9
      <4> QED BY <1>3, <1>7, <3>2, <3>3, <4>1
    <3>5. \A f \in ToSet(Head(x.stack)) : <<Items[x.item].state, f.id>> \in cache'
      BY <1>2, <1>6, <1>9, <2>2, <3>1
    <3> QED BY <2>2, <3>4, <3>5 DEF InCache
  <2> QED BY <2>1, <2>3, <2>4, <2>5 DEF ChunkHolds
<1>14. ThreadHolds(x)'
  BY <1>9, <1>11, <1>12, <1>13 DEF ThreadHolds
<1>15. x.at # "idle"
  BY <1>9
<1>16. requests' \in Nat /\ failures' \in Nat /\ cache' \subseteq Keys /\ cache \subseteq cache'
  BY <1>2, <1>3
<1> QED BY <1>2, <1>8, <1>9, <1>14, <1>15, <1>16, QuietStep

LEMMA AttemptStep ==
  ASSUME AskerInv, NEW t \in Threads, NEW outcome \in {"ok", "413", "error", "incomplete", "fatal"}, Attempt(t, outcome)
  PROVE  AskerInv'
<1> DEFINE th == thread[t]
           batch == Head(th.stack)
           last == outcome \in {"ok", "fatal", "incomplete", "413"} \/ th.sent >= MaxRetries
           at == IF last THEN "record" ELSE "wire"
<1>1. PICK x : x = [th EXCEPT !.sent = th.sent + 1, !.outcome = outcome, !.at = at]
  OBVIOUS
<1>2. /\ th.at = "wire" /\ thread' = [thread EXCEPT ![t] = x]
      /\ UNCHANGED <<next, hits, stats, values, failed, tried, partial>>
      /\ failures' \in {failures, failures + 1} /\ requests' = requests + 1
  <2>1. /\ th.at = "wire" /\ requests' = requests + 1
        /\ failures' = IF outcome \in {"ok", "413"} THEN failures ELSE failures + 1
        /\ UNCHANGED <<next, hits, stats, values, failed, tried, partial>>
    BY DEF Attempt
  <2>2. thread' = [thread EXCEPT ![t] = [thread[t] EXCEPT !.sent = thread[t].sent + 1, !.outcome = outcome, !.at = at]]
    BY DEF Attempt
  <2>3. thread' = [thread EXCEPT ![t] = x]
    <3> HIDE DEF at
    <3> QED BY <1>1, <2>2
  <2> QED BY <2>1, <2>3
<1>3. /\ th \in ThreadState /\ GroupsHold(th) /\ BatchesHold(th) /\ ChunkHolds(th) /\ th.item \in 1..Len(Items)
      /\ hits \in Nat /\ requests \in Nat /\ failures \in Nat /\ cache \subseteq Keys /\ Len(Items) \in Nat
  BY <1>2, HereFacts DEF ThreadHolds, Sent
<1>4. th.stack \in Seq(Seq(Questions)) /\ th.stack # <<>>
  BY <1>2, <1>3 DEF ThreadState, BatchesHold, Sent
<1>5. batch \in Seq(Questions)
  BY <1>4, AllOfTail
<1>6. \A f \in ToSet(batch) : Key(t, f) \in Keys /\ Key(t, f) = <<Items[th.item].state, f.id>>
  <2>1. ToSet(batch) \subseteq Questions /\ th.item \in DOMAIN Items
    BY <1>3, <1>5, ItemFacts DEF ToSet
  <2> HIDE DEF batch
  <2> QED BY <2>1 DEF Key, Me, Keys, AskedIds
<1>7. /\ cache \subseteq cache' /\ cache' \subseteq Keys
      /\ outcome = "ok" => \A f \in ToSet(batch) : <<Items[th.item].state, f.id>> \in cache'
  <2>1. Batch(t) = batch
    BY DEF Batch
  <2> HIDE DEF batch
  <2>2. CASE outcome = "ok"
    <3>1. cache' = cache \union {Key(t, f) : f \in ToSet(batch)}
      BY <2>1, <2>2 DEF Attempt
    <3> QED BY <1>3, <1>6, <3>1
  <2>3. CASE outcome = "incomplete"
    <3>1. PICK lost \in Missing(t) : cache' = cache \union {Key(t, f) : f \in ToSet(batch) \ {lost}}
      BY <2>1, <2>3 DEF Attempt
    <3> QED BY <1>3, <1>6, <2>3, <3>1
  <2>4. CASE outcome \notin {"ok", "incomplete"}
    <3>1. cache' = cache
      BY <2>4 DEF Attempt
    <3> QED BY <1>3, <2>4, <3>1
  <2> QED BY <2>2, <2>3, <2>4
<1>8. /\ x \in ThreadState /\ x.at = at /\ x.item = th.item /\ x.groups = th.groups /\ x.given = th.given
      /\ x.stack = th.stack /\ x.out = th.out /\ x.before = th.before /\ x.sent > 0 /\ x.first = th.first
      /\ x.outcome = outcome /\ at \in {"wire", "record"}
  <2>1. at \in {"wire", "record"}
    OBVIOUS
  <2>2. th.sent \in Nat
    BY <1>3 DEF ThreadState
  <2> HIDE DEF at
  <2>3. th.sent + 1 \in Nat /\ th.sent + 1 > 0
    BY <2>2
  <2> DEFINE n == th.sent + 1
  <2>4. x = [th EXCEPT !.sent = n, !.outcome = outcome, !.at = at] /\ n \in Nat
    BY <1>1, <2>3
  <2>5. n > 0
    BY <2>3
  <2> HIDE DEF n
  <2>6. x.sent = n
    BY <1>3, <2>4 DEF ThreadState
  <2> QED BY <1>3, <2>1, <2>4, <2>5, <2>6 DEF ThreadState
<1> HIDE DEF batch, at
<1>9. Explains(x.item, x.given, Feats(x.item) \ All(x.groups))'
  <2>1. Explains(x.item, x.given, Feats(x.item) \ All(x.groups))
    BY <1>3, <1>8 DEF GroupsHold
  <2> QED BY <1>7, <2>1, StillExplains
<1>10. GroupsHold(x)'
  BY <1>2, <1>3, <1>8, <1>9 DEF GroupsHold
<1>11. BatchesHold(x)'
  BY <1>3, <1>4, <1>7, <1>8 DEF BatchesHold, InCache
<1>12. ChunkHolds(x)'
  <2>1. x.before <= hits' /\ x.at # "fetch" /\ x.first <= Len(Head(x.stack)) /\ x.sent # 0
    <3>1. th.before <= hits /\ th.first <= Len(Head(th.stack))
      BY <1>2, <1>3 DEF ChunkHolds
    <3>2. hits' = hits /\ x.sent \in Nat
      BY <1>2, <1>8 DEF ThreadState
    <3>3. x.sent # 0
      BY <1>8, <3>2
    <3> QED BY <1>8, <3>1, <3>2, <3>3
  <2>2. ASSUME x.outcome = "ok" PROVE InCache(x.item, ToSet(Head(x.stack)))'
    BY <1>7, <1>8, <2>2 DEF InCache, batch
  <2> QED BY <2>1, <2>2 DEF ChunkHolds
<1>13. ThreadHolds(x)'
  BY <1>8, <1>10, <1>11, <1>12 DEF ThreadHolds
<1>14. requests' \in Nat /\ failures' \in Nat /\ hits' \in Nat /\ hits <= hits' /\ x.at # "idle"
  BY <1>2, <1>3, <1>8
<1> QED BY <1>2, <1>7, <1>8, <1>13, <1>14, QuietStep

LEMMA RestingIsAState == Resting \in ThreadState /\ Resting.at = "idle"
<1>1. <<>> \in Seq(Seq(Questions)) /\ 0 \in 0..Len(Items)
  <2>1. Len(Items) \in Nat
    BY AskerAssumption
  <2> QED BY <2>1, AllOfNone
<1> QED BY <1>1 DEF Resting, ThreadState

LEMMA TakeItemStep ==
  ASSUME AskerInv, NEW t \in Threads, TakeItem(t)
  PROVE  AskerInv'
<1>1. /\ next \in 1..(Len(Items) + 1) /\ Len(Items) \in Nat /\ DOMAIN Items = 1..Len(Items) /\ hits \in Nat
      /\ thread \in [Threads -> ThreadState] /\ tried \in Nat
      /\ stats \in [asked : Nat, hits : Nat, retries : Nat] /\ cache \subseteq Keys
      /\ values \in [DOMAIN Items -> (SUBSET Told) \union {NoAnswers}] /\ failed \in BOOLEAN /\ partial \in BOOLEAN
  BY TypeFacts DEF AskerInv
<1>2. /\ thread[t].at = "idle" /\ next <= Len(Items) /\ next' = next + 1
      /\ UNCHANGED <<cache, hits, requests, stats, values, failed, tried, partial, failures>>
  BY DEF TakeItem
<1>3. next \in 1..Len(Items) /\ next' \in 1..(Len(Items) + 1) /\ next' \in Nat /\ next <= next' /\ next \in 1..(next' - 1)
  BY <1>1, <1>2
<1>4. PICK i \in 1..Len(Items) : i = next
  BY <1>3
<1> DEFINE feats == Items[i].feats
           hidden == {f \in Feats(i) : f.hidden}
           heavy == {f \in Feats(i) \ hidden : f.heavy}
           others == (Feats(i) \ hidden) \ heavy
<1>5. PICK light \in InOrder(feats, others), rest \in InOrder(feats, heavy) :
        thread' = [thread EXCEPT ![t] = [Resting EXCEPT !.at = "group", !.item = i,
          !.groups = PartitionInspect(light, rest), !.given = Reason(hidden, "insufficient_observability")]]
  BY <1>4 DEF TakeItem, Feats
<1> DEFINE parts == PartitionInspect(light, rest)
           given == Reason(hidden, "insufficient_observability")
<1>6. PICK x : x = [Resting EXCEPT !.at = "group", !.item = i, !.groups = parts, !.given = given]
  OBVIOUS
<1>7. Feats(i) \subseteq Questions /\ IsFiniteSet(Feats(i)) /\ \A f, g \in Feats(i) : f.id = g.id => f = g
  BY ItemFacts
<1> HIDE DEF feats
<1>8. light \in Seq(Questions) /\ ToSet(light) = others /\ rest \in Seq(Questions) /\ ToSet(rest) = heavy
  <2>1. others \in SUBSET Questions /\ heavy \in SUBSET Questions /\ others \in SUBSET Feats(i) /\ heavy \in SUBSET Feats(i)
    BY <1>7
  <2> HIDE DEF others, heavy
  <2>2. IsFiniteSet(others) /\ IsFiniteSet(heavy)
    BY <1>7, <2>1, FS_Subset
  <2> QED BY <2>1, <2>2, InOrderIs
<1>9. parts \in Seq(Seq(Questions)) /\ Apart(parts) /\ All(parts) = others \union heavy
  <2>1. ToSet(light) \intersect ToSet(rest) = {}
    BY <1>8
  <2> HIDE DEF others, heavy
  <2> QED BY <1>8, <2>1, GroupsAreApart
<1>10. Explains(i, given, hidden)
  <2>1. Explains(i, {} \union Reason(hidden, "insufficient_observability"), {} \union hidden)
    <3>1. Explains(i, {}, {}) /\ hidden \subseteq Feats(i)
      BY ExplainsNothing
    <3> HIDE DEF hidden
    <3>2. \A f, g \in {} \union hidden : f.id = g.id => f = g
      BY <1>7, <3>1
    <3> QED BY <3>1, <3>2, ExplainsMore
  <2> QED BY <2>1
<1>11. given \in SUBSET Told
  BY <1>7 DEF Reason, Told, Reasons
<1>12. Feats(i) \ All(parts) = hidden /\ All(parts) \subseteq Feats(i)
  BY <1>9
<1> HIDE DEF parts, given
<1>13. x \in ThreadState /\ x.at = "group" /\ x.item = i /\ x.groups = parts /\ x.given = given
  <2>1. i \in 0..Len(Items) /\ Resting \in ThreadState
    BY <1>1, RestingIsAState
  <2>2. PICK r \in ThreadState : r = Resting
    BY <2>1
  <2>3. x = [r EXCEPT !.at = "group", !.item = i, !.groups = parts, !.given = given]
    BY <1>6, <2>2
  <2> QED BY <1>9, <1>11, <2>1, <2>3 DEF ThreadState
<1>14. ThreadHolds(x)'
  <2>1. Explains(x.item, x.given, Feats(x.item) \ All(x.groups))
    BY <1>10, <1>12, <1>13
  <2>2. Explains(x.item, x.given, Feats(x.item) \ All(x.groups))'
    BY <1>2, <2>1, StillExplains
  <2>3. x.item \in 1..(next' - 1) /\ Apart(x.groups) /\ All(x.groups) \subseteq Feats(x.item)
    BY <1>3, <1>4, <1>9, <1>12, <1>13
  <2>4. GroupsHold(x)'
    BY <2>2, <2>3 DEF GroupsHold
  <2> QED BY <1>13, <2>4 DEF ThreadHolds, Sent
<1>15. thread' = [thread EXCEPT ![t] = x]
  BY <1>5, <1>6 DEF parts, given
<1>16. /\ thread' \in [Threads -> ThreadState]
       /\ \A u \in Threads : thread'[u] = IF u = t THEN x ELSE thread[u]
       /\ (\A u \in Threads : ThreadHolds(thread[u]))'
  <2>1. cache \subseteq cache' /\ hits' \in Nat /\ hits <= hits'
    BY <1>1, <1>2
  <2> QED BY <1>3, <1>13, <1>14, <1>15, <2>1, ThreadsHold
<1>17. AskerTypeOK'
  BY <1>1, <1>2, <1>3, <1>16 DEF AskerInv, AskerTypeOK
<1>18. Taken'
  <2>1. SUFFICES ASSUME NEW j \in 1..next, ~failed, values[j] = NoAnswers
                 PROVE  \E u \in Threads : thread'[u].at # "idle" /\ thread'[u].item = j
    BY <1>1, <1>2 DEF Taken
  <2>2. CASE j = next
    BY <1>4, <1>13, <1>16, <2>2
  <2>3. CASE j # next
    <3>1. j \in 1..(next - 1)
      BY <1>1, <2>3
    <3>2. PICK u \in Threads : thread[u].at # "idle" /\ thread[u].item = j
      BY <2>1, <3>1 DEF AskerInv, Taken
    <3> QED BY <1>2, <1>16, <3>2
  <2> QED BY <2>2, <2>3
<1>19. Finished'
  BY <1>2 DEF AskerInv, Finished, Explains
<1>20. Counted'
  BY <1>2 DEF AskerInv, Counted
<1> QED BY <1>16, <1>17, <1>18, <1>19, <1>20 DEF AskerInv

LEMMA EndGroupStep ==
  ASSUME AskerInv, NEW t \in Threads, EndGroup(t)
  PROVE  AskerInv'
<1> DEFINE th == thread[t]
           head == ToSet(Head(th.groups))
           given == th.given \union Reason(head, "answered")
<1>1. /\ th.at = "batch" /\ th.stack = <<>>
      /\ UNCHANGED <<next, cache, hits, requests, stats, values, failed, tried, partial, failures>>
      /\ thread' = [thread EXCEPT ![t] = [th EXCEPT !.at = "group", !.groups = Tail(th.groups),
           !.given = th.given \union Reason(head \intersect th.out, "answered") \union Reason(head \ th.out, "nothing")]]
  BY DEF EndGroup
<1>2. /\ th \in ThreadState /\ GroupsHold(th) /\ BatchesHold(th) /\ th.item \in 1..Len(Items)
  BY <1>1, HereFacts DEF ThreadHolds
<1>3. th.groups \in Seq(Seq(Questions)) /\ th.groups # <<>> /\ th.out = head /\ InCache(th.item, head)
  BY <1>1, <1>2, AllOfNone DEF ThreadState, BatchesHold
<1>4. th.given \union Reason(head \intersect th.out, "answered") \union Reason(head \ th.out, "nothing") = given
  BY <1>3 DEF Reason
<1>5. PICK x : x = [th EXCEPT !.at = "group", !.groups = Tail(th.groups), !.given = given]
  OBVIOUS
<1>6. thread' = [thread EXCEPT ![t] = x]
  BY <1>1, <1>4, <1>5
<1> HIDE DEF given
<1>7. x.at = "group" /\ x.item = th.item /\ x.groups = Tail(th.groups) /\ x.given = given
  BY <1>2, <1>5 DEF ThreadState
<1>8. ThreadHolds(x) /\ x.groups \in Seq(Seq(Questions)) /\ x.given \in SUBSET Told
  <2>1. "answered" \in Reasons
    BY DEF Reasons
  <2> QED BY <1>2, <1>3, <1>7, <2>1, GroupEnds DEF given
<1>9. x \in ThreadState
  <2>1. Tail(th.groups) \in Seq(Seq(Questions)) /\ given \in SUBSET Told
    BY <1>7, <1>8
  <2> QED BY <1>2, <1>5, <2>1 DEF ThreadState
<1> QED BY <1>1, <1>6, <1>7, <1>8, <1>9, LocalStep

\* Each question of a chunk is counted once, unless the cache alone was asked and had not all.
\* The questions of a chunk that reached the model and those that did not add
\* up to the chunk.
LEMMA ChunkAddsUp ==
  ASSUME NEW a \in Nat, NEW h \in Nat, NEW f \in Nat, NEW size \in Nat, f <= size
  PROVE  /\ a + f \in Nat /\ h + size - f \in Nat
         /\ (a + f) + (h + size - f) = (a + h) + size
OBVIOUS

LEMMA ChunkIsCounted ==
  ASSUME AskerInv, NEW t \in Threads, Record(t)
  PROVE  /\ stats' \in [asked : Nat, hits : Nat, retries : Nat] /\ tried' \in Nat
         /\ partial' \in BOOLEAN /\ failed' \in BOOLEAN /\ Counted'
<1> DEFINE th == thread[t]
           batch == Head(th.stack)
           n == Len(batch)
<1>1. /\ th.at = "record" /\ stats' = ChunkStats(t) /\ tried' = tried + n
      /\ partial' = (partial \/ th.outcome = "miss") /\ failed' = (failed \/ th.outcome \in {"miss", "fatal"})
  BY DEF Record, Batch
<1>2. th \in ThreadState /\ BatchesHold(th) /\ ChunkHolds(th)
  BY <1>1, HereFacts DEF ThreadHolds, Sent
<1>3. /\ hits \in Nat /\ tried \in Nat /\ stats \in [asked : Nat, hits : Nat, retries : Nat]
      /\ failed \in BOOLEAN /\ partial \in BOOLEAN
  BY TypeFacts DEF AskerInv
<1>4. th.stack \in Seq(Seq(Questions)) /\ th.stack # <<>> /\ th.before \in Nat /\ th.sent \in Nat /\ th.first \in Nat
  BY <1>1, <1>2 DEF ThreadState, BatchesHold, Sent
<1>5. n \in Nat
  <2>1. batch \in Seq(Questions)
    BY <1>4, AllOfTail
  <2> QED BY <2>1
<1>6. /\ th.before <= hits /\ th.first <= n
      /\ th.sent = 0 => th.outcome \in {"ok", "miss"}
      /\ th.sent = 0 /\ th.outcome = "ok" => hits - th.before >= n
  BY <1>1, <1>2 DEF ChunkHolds
<1>7. stats.asked + stats.hits <= tried /\ (~partial => stats.asked + stats.hits = tried)
  BY DEF AskerInv, Counted
<1>8. stats.asked \in Nat /\ stats.hits \in Nat /\ stats.retries \in Nat
  BY <1>3
<1>9. tried' \in Nat /\ partial' \in BOOLEAN /\ failed' \in BOOLEAN
  BY <1>1, <1>3, <1>5
<1>10. CASE th.sent = 0
  <2> DEFINE m == Min({hits - th.before, n})
  <2>1. hits - th.before \in Nat
    BY <1>3, <1>4, <1>6
  <2>2. m \in {hits - th.before, n} /\ \A j \in {hits - th.before, n} : m <= j
    BY <1>5, <2>1, Minimum
  <2>3. stats' = [stats EXCEPT !.hits = stats.hits + m]
    <3>1. ChunkStats(t) = [stats EXCEPT !.hits = stats.hits + Min({hits - thread[t].before, Len(Head(thread[t].stack))})]
      BY <1>10 DEF ChunkStats, Batch
    <3> QED BY <1>1, <3>1
  <2> HIDE DEF m, n
  <2>4. m \in Nat /\ m <= n /\ (th.outcome = "ok" => m = n)
    BY <1>5, <1>6, <1>10, <2>1, <2>2
  <2>5. stats'.asked = stats.asked /\ stats'.hits = stats.hits + m /\ stats' \in [asked : Nat, hits : Nat, retries : Nat]
    BY <1>3, <1>8, <2>3, <2>4
  <2>6. ~partial' => ~partial /\ m = n
    BY <1>1, <1>6, <1>10, <2>4
  <2>7. stats'.asked + stats'.hits <= tried'
    BY <1>1, <1>3, <1>5, <1>7, <1>8, <2>4, <2>5
  <2>8. ~partial' => stats'.asked + stats'.hits = tried'
    BY <1>1, <1>3, <1>5, <1>7, <1>8, <2>4, <2>5, <2>6
  <2> QED BY <1>9, <2>5, <2>7, <2>8 DEF Counted
<1>11. CASE th.sent # 0
  <2>1. stats' = [asked |-> stats.asked + th.first, hits |-> stats.hits + n - th.first, retries |-> stats.retries + th.sent - 1]
    BY <1>1, <1>11 DEF ChunkStats, Batch
  <2> HIDE DEF n
  <2>0. /\ stats.asked + th.first \in Nat /\ stats.hits + n - th.first \in Nat
        /\ (stats.asked + th.first) + (stats.hits + n - th.first) = (stats.asked + stats.hits) + n
    <3>1. n \in Nat /\ th.first \in Nat /\ th.first <= n
      BY <1>4, <1>5, <1>6
    <3> HIDE DEF th
    <3> QED BY <1>8, <3>1, ChunkAddsUp
  <2>2. stats.hits + n - th.first \in Nat /\ stats.asked + th.first \in Nat /\ stats.retries + th.sent - 1 \in Nat
    <3>1. stats.hits + n - th.first \in Nat /\ stats.asked + th.first \in Nat
      BY <2>0
    <3>2. th.sent - 1 \in Nat
      BY <1>4, <1>11
    <3>3. stats.retries + th.sent - 1 \in Nat
      BY <1>4, <1>8, <3>2
    <3> QED BY <3>1, <3>3
  <2>3. /\ stats'.asked = stats.asked + th.first /\ stats'.hits = stats.hits + n - th.first
        /\ stats' \in [asked : Nat, hits : Nat, retries : Nat]
    BY <2>1, <2>2
  <2>4. stats'.asked + stats'.hits = (stats.asked + stats.hits) + n
    BY <2>0, <2>3
  <2>5. stats'.asked + stats'.hits <= tried' /\ (~partial => stats'.asked + stats'.hits = tried')
    BY <1>1, <1>3, <1>5, <1>7, <1>8, <2>4
  <2> QED BY <1>1, <1>9, <2>3, <2>5 DEF Counted
<1> QED BY <1>10, <1>11

LEMMA RecordStep ==
  ASSUME AskerInv, NEW t \in Threads, Record(t)
  PROVE  AskerInv'
<1> DEFINE th == thread[t]
           batch == Head(th.stack)
           Right(x) == /\ x \in ThreadState /\ thread' = [thread EXCEPT ![t] = x] /\ ThreadHolds(x)
                       /\ failed' \/ (x.at # "idle" /\ x.item = th.item)
<1>1. /\ th.at = "record" /\ failed' = (failed \/ th.outcome \in {"miss", "fatal"})
      /\ UNCHANGED <<next, cache, hits, requests, values, failures>>
  BY DEF Record
<1>2. thread' = [thread EXCEPT ![t] =
       CASE th.outcome = "ok" -> [th EXCEPT !.at = "batch", !.stack = Tail(th.stack), !.out = th.out \union ToSet(batch)]
         [] th.outcome = "413" /\ Len(batch) > 1 -> [th EXCEPT !.at = "batch", !.stack = Halves(batch) \o Tail(th.stack)]
         [] th.outcome \in {"miss", "fatal"} -> Resting
         [] OTHER -> GroupIs(t, "api_error")]
  BY DEF Record, Batch
<1>3. /\ th \in ThreadState /\ GroupsHold(th) /\ BatchesHold(th) /\ ChunkHolds(th) /\ th.item \in 1..Len(Items)
  BY <1>1, HereFacts DEF ThreadHolds, Sent
<1>4. th.stack \in Seq(Seq(Questions)) /\ th.stack # <<>> /\ th.groups \in Seq(Seq(Questions)) /\ th.groups # <<>>
  BY <1>1, <1>3 DEF ThreadState, BatchesHold, Sent
<1>5. batch \in Seq(Questions) /\ Tail(th.stack) \in Seq(Seq(Questions)) /\ All(th.stack) = ToSet(batch) \union All(Tail(th.stack))
  BY <1>4, AllOfTail
<1>6. /\ stats' \in [asked : Nat, hits : Nat, retries : Nat] /\ tried' \in Nat
       /\ partial' \in BOOLEAN /\ failed' \in BOOLEAN /\ Counted'
  BY ChunkIsCounted
<1>7. SUFFICES \E x : Right(x)
  <2>1. PICK x : Right(x)
    BY <1>7
  <2>2. /\ next \in Nat /\ hits \in Nat /\ cache \subseteq Keys
    BY HereFacts
  <2>3. ThreadHolds(x)'
    BY <1>1, <2>1, <2>2, StillHolds
  <2>4. /\ thread' \in [Threads -> ThreadState]
        /\ \A u \in Threads : thread'[u] = IF u = t THEN x ELSE thread[u]
        /\ (\A u \in Threads : ThreadHolds(thread[u]))'
    <3>1. cache \subseteq cache' /\ hits' \in Nat /\ hits <= hits' /\ next' \in Nat /\ next <= next'
      BY <1>1, <2>2
    <3> QED BY <2>1, <2>3, <3>1, ThreadsHold
  <2>5. AskerTypeOK'
    BY <1>1, <1>6, <2>4 DEF AskerInv, AskerTypeOK
  <2>6. Taken'
    <3>1. SUFFICES ASSUME NEW i \in 1..(next - 1), ~failed', values[i] = NoAnswers
                   PROVE  \E u \in Threads : thread'[u].at # "idle" /\ thread'[u].item = i
      BY <1>1 DEF Taken
    <3>2. ~failed
      BY <1>1, <3>1
    <3>3. PICK u \in Threads : thread[u].at # "idle" /\ thread[u].item = i
      BY <3>1, <3>2 DEF AskerInv, Taken
    <3> QED BY <2>1, <2>4, <3>1, <3>3
  <2>7. Finished'
    BY <1>1 DEF AskerInv, Finished, Explains
  <2> QED BY <1>6, <2>4, <2>5, <2>6, <2>7 DEF AskerInv
<1> HIDE DEF batch
<1>8. CASE th.outcome = "ok"
  <2>1. PICK x : x = [th EXCEPT !.at = "batch", !.stack = Tail(th.stack), !.out = th.out \union ToSet(batch)]
    OBVIOUS
  <2>2. thread' = [thread EXCEPT ![t] = x]
    BY <1>2, <1>8, <2>1
  <2>3. ToSet(batch) \subseteq Questions /\ th.out \subseteq Questions
    <3>1. ToSet(batch) \subseteq Questions
      BY <1>5 DEF ToSet
    <3>2. th.out \subseteq Questions
      BY <1>3 DEF ThreadState
    <3> QED BY <3>1, <3>2
  <2>4. /\ x \in ThreadState /\ x.at = "batch" /\ x.item = th.item /\ x.groups = th.groups /\ x.given = th.given
        /\ x.stack = Tail(th.stack) /\ x.out = th.out \union ToSet(batch)
    BY <1>3, <1>5, <2>1, <2>3 DEF ThreadState
  <2>5. InCache(th.item, ToSet(batch))
    BY <1>1, <1>3, <1>8 DEF ChunkHolds, batch
  <2>6. GroupsHold(x)
    BY <1>3, <2>4 DEF GroupsHold
  <2>7. BatchesHold(x)
    BY <1>3, <1>4, <1>5, <2>4, <2>5 DEF BatchesHold, InCache, Sent
  <2>8. ThreadHolds(x)
    BY <2>4, <2>6, <2>7 DEF ThreadHolds, Sent
  <2> QED BY <2>2, <2>4, <2>8
<1>9. CASE th.outcome = "413" /\ Len(batch) > 1
  <2> DEFINE more == Halves(batch) \o Tail(th.stack)
  <2>1. Halves(batch) \in Seq(Seq(Questions)) /\ All(Halves(batch)) = ToSet(batch)
    BY <1>5, HalvesAreAll
  <2>2. more \in Seq(Seq(Questions)) /\ All(more) = All(th.stack)
    <3> DEFINE a == Halves(batch)
               b == Tail(th.stack)
    <3>1. a \in Seq(Seq(Questions)) /\ b \in Seq(Seq(Questions))
      BY <1>5, <2>1
    <3>2. All(a) \union All(b) = All(th.stack)
      BY <1>5, <2>1
    <3> HIDE DEF a, b
    <3>3. a \o b \in Seq(Seq(Questions)) /\ All(a \o b) = All(a) \union All(b)
      BY <3>1, AllOfBoth
    <3>4. a \o b \in Seq(Seq(Questions)) /\ All(a \o b) = All(th.stack)
      BY <3>2, <3>3
    <3> QED BY <3>4 DEF a, b
  <2>3. PICK x : x = [th EXCEPT !.at = "batch", !.stack = more]
    OBVIOUS
  <2>4. thread' = [thread EXCEPT ![t] = x]
    BY <1>2, <1>9, <2>3
  <2> HIDE DEF more
  <2>5. /\ x \in ThreadState /\ x.at = "batch" /\ x.item = th.item /\ x.groups = th.groups /\ x.given = th.given
        /\ x.stack = more /\ x.out = th.out
    BY <1>3, <2>2, <2>3 DEF ThreadState
  <2>6. GroupsHold(x)
    BY <1>3, <2>5 DEF GroupsHold
  <2>7. BatchesHold(x)
    BY <1>3, <1>4, <2>2, <2>5 DEF BatchesHold, Sent
  <2>8. ThreadHolds(x)
    BY <2>5, <2>6, <2>7 DEF ThreadHolds, Sent
  <2> QED BY <2>4, <2>5, <2>8
<1>10. CASE th.outcome \in {"miss", "fatal"}
  <2>1. thread' = [thread EXCEPT ![t] = Resting] /\ failed'
    BY <1>1, <1>2, <1>10
  <2>2. ThreadHolds(Resting)
    BY RestingIsAState DEF ThreadHolds, Sent
  <2> QED BY <2>1, <2>2, RestingIsAState
<1>11. CASE th.outcome \notin {"ok", "miss", "fatal"} /\ ~(th.outcome = "413" /\ Len(batch) > 1)
  <2> DEFINE more == th.given \union Reason(ToSet(Head(th.groups)), "api_error")
  <2>1. PICK x : x = [th EXCEPT !.at = "group", !.groups = Tail(th.groups), !.stack = <<>>, !.given = more]
    OBVIOUS
  <2>2. thread' = [thread EXCEPT ![t] = x]
    <3>1. thread' = [thread EXCEPT ![t] = GroupIs(t, "api_error")]
      BY <1>2, <1>11
    <3> QED BY <2>1, <3>1 DEF GroupIs
  <2> HIDE DEF more
  <2>3. x.at = "group" /\ x.item = th.item /\ x.groups = Tail(th.groups) /\ x.given = more
    BY <1>3, <2>1 DEF ThreadState
  <2>4. ThreadHolds(x) /\ x.groups \in Seq(Seq(Questions)) /\ x.given \in SUBSET Told
    <3>1. "api_error" \in Reasons
      BY DEF Reasons
    <3> QED BY <1>3, <1>4, <2>3, <3>1, GroupEnds DEF more
  <2>5. x \in ThreadState
    <3>1. Tail(th.groups) \in Seq(Seq(Questions)) /\ more \in SUBSET Told
      BY <2>3, <2>4
    <3>2. <<>> \in Seq(Seq(Questions))
      BY AllOfNone
    <3> QED BY <1>3, <2>1, <3>1, <3>2 DEF ThreadState
  <2> QED BY <2>2, <2>3, <2>4, <2>5
<1> QED BY <1>8, <1>9, <1>10, <1>11

LEMMA EndItemStep ==
  ASSUME AskerInv, NEW t \in Threads, EndItem(t)
  PROVE  AskerInv'
<1> DEFINE th == thread[t]
<1>1. /\ th.at = "group" /\ th.groups = <<>> /\ values' = [values EXCEPT ![th.item] = th.given]
      /\ thread' = [thread EXCEPT ![t] = Resting]
      /\ UNCHANGED <<next, cache, hits, requests, stats, failed, tried, partial, failures>>
  BY DEF EndItem
<1>2. /\ th \in ThreadState /\ GroupsHold(th) /\ th.item \in 1..Len(Items) /\ next \in Nat /\ hits \in Nat
  BY <1>1, HereFacts DEF ThreadHolds
<1>3. DOMAIN Items = 1..Len(Items) /\ values \in [DOMAIN Items -> (SUBSET Told) \union {NoAnswers}]
  BY TypeFacts DEF AskerInv
<1>4. th.given \in SUBSET Told /\ th.given # NoAnswers
  BY <1>2, AskerAssumption DEF ThreadState
<1>5. Explains(th.item, th.given, Feats(th.item))
  <2>1. Feats(th.item) \ All(th.groups) = Feats(th.item)
    BY <1>1, AllOfNone
  <2> QED BY <1>2, <2>1 DEF GroupsHold
<1>6. PICK i \in DOMAIN Items, given \in SUBSET Told : i = th.item /\ given = th.given
  BY <1>2, <1>3, <1>4
<1>7. /\ values' \in [DOMAIN Items -> (SUBSET Told) \union {NoAnswers}]
      /\ \A j \in DOMAIN Items : values'[j] = IF j = i THEN given ELSE values[j]
  BY <1>1, <1>3, <1>6
<1>8. ThreadHolds(Resting)'
  BY RestingIsAState DEF ThreadHolds, Sent
<1>9. PICK x \in ThreadState : x = Resting
  BY RestingIsAState
<1>10. /\ thread' \in [Threads -> ThreadState]
       /\ \A u \in Threads : thread'[u] = IF u = t THEN x ELSE thread[u]
       /\ (\A u \in Threads : ThreadHolds(thread[u]))'
  <2>1. cache \subseteq cache' /\ hits' \in Nat /\ hits <= hits' /\ next' \in Nat /\ next <= next'
    BY <1>1, <1>2
  <2>2. x.at = "idle"
    BY <1>9, RestingIsAState
  <2>3. ThreadHolds(x)'
    BY <2>2 DEF ThreadHolds, Sent
  <2> QED BY <1>1, <1>9, <2>1, <2>3, ThreadsHold
<1>11. AskerTypeOK'
  BY <1>1, <1>7, <1>10 DEF AskerInv, AskerTypeOK
<1>12. Taken'
  <2>1. SUFFICES ASSUME NEW j \in 1..(next - 1), ~failed, values'[j] = NoAnswers
                 PROVE  \E u \in Threads : thread'[u].at # "idle" /\ thread'[u].item = j
    BY <1>1 DEF Taken
  <2>2. j \in DOMAIN Items
    <3>1. next \in 1..(Len(Items) + 1) /\ Len(Items) \in Nat
      BY HereFacts
    <3> QED BY <1>3, <3>1
  <2>3. j # i /\ values[j] = NoAnswers
    BY <1>4, <1>6, <1>7, <2>1, <2>2
  <2>4. PICK u \in Threads : thread[u].at # "idle" /\ thread[u].item = j
    BY <2>1, <2>3 DEF AskerInv, Taken
  <2>5. u # t
    BY <1>6, <2>3, <2>4
  <2> QED BY <1>10, <2>4, <2>5
<1>13. Finished'
  <2>1. SUFFICES ASSUME NEW j \in DOMAIN Items, values'[j] # NoAnswers
                 PROVE  Explains(j, values[j], Feats(j))'
    BY DEF Finished
  <2>2. CASE j = i
    <3>1. Explains(i, given, Feats(i))
      BY <1>5, <1>6
    <3>2. Explains(i, given, Feats(i))'
      BY <1>1, <3>1, StillExplains
    <3> QED BY <1>7, <2>2, <3>2
  <2>3. CASE j # i
    <3>1. PICK v : v = values[j]
      OBVIOUS
    <3>2. values'[j] = v
      BY <1>7, <2>3, <3>1
    <3>3. Explains(j, v, Feats(j))
      BY <2>1, <3>1, <3>2 DEF AskerInv, Finished
    <3>4. Explains(j, v, Feats(j))'
      BY <1>1, <3>3, StillExplains
    <3> QED BY <3>2, <3>4
  <2> QED BY <2>2, <2>3
<1>14. Counted'
  BY <1>1 DEF AskerInv, Counted
<1> QED BY <1>10, <1>11, <1>12, <1>13, <1>14 DEF AskerInv

LEMMA AskerStep == AskerInv /\ [AskerNext]_avars => AskerInv'
<1>1. ASSUME AskerInv, AskerNext PROVE AskerInv'
  <2>1. PICK t \in Threads :
          \/ TakeItem(t) \/ StartGroup(t) \/ BeginBatch(t) \/ Fetch(t) \/ Record(t) \/ EndGroup(t) \/ EndItem(t)
          \/ \E outcome \in {"ok", "413", "error", "incomplete", "fatal"} : Attempt(t, outcome)
    BY <1>1 DEF AskerNext
  <2> QED BY <1>1, <2>1, TakeItemStep, StartGroupStep, BeginBatchStep, FetchStep, RecordStep, EndGroupStep, EndItemStep,
             AttemptStep
<1>2. ASSUME AskerInv, UNCHANGED avars PROVE AskerInv'
  BY <1>2 DEF avars, AskerInv, AskerTypeOK, ThreadHolds, GroupsHold, BatchesHold, ChunkHolds, InCache, Explains, Taken,
              Finished, Counted
<1> QED BY <1>1, <1>2

LEMMA AskerStart == AskerInit => AskerInv
<1> SUFFICES ASSUME AskerInit PROVE AskerInv
  OBVIOUS
<1>1. Len(Items) \in Nat /\ DOMAIN Items = 1..Len(Items)
  BY AskerAssumption
<1>2. /\ next = 1 /\ thread = [t \in Threads |-> Resting] /\ cache = {} /\ hits = 0 /\ requests = 0
      /\ stats = [asked |-> 0, hits |-> 0, retries |-> 0] /\ values = [i \in DOMAIN Items |-> NoAnswers]
      /\ failed = FALSE /\ tried = 0 /\ partial = FALSE /\ failures = 0
  BY DEF AskerInit
<1>3. thread \in [Threads -> ThreadState] /\ \A t \in Threads : thread[t].at = "idle"
  BY <1>2, RestingIsAState
<1>4. AskerTypeOK
  <2>1. next \in 1..(Len(Items) + 1) /\ {hits, requests, tried, failures} \subseteq Nat
    BY <1>1, <1>2
  <2>2. stats \in [asked : Nat, hits : Nat, retries : Nat] /\ failed \in BOOLEAN /\ partial \in BOOLEAN
    <3>1. stats \in [asked : Nat, hits : Nat, retries : Nat]
      BY <1>2
    <3>2. failed \in BOOLEAN /\ partial \in BOOLEAN
      BY <1>2, Zenon
    <3> QED BY <3>1, <3>2
  <2>3. values \in [DOMAIN Items -> (SUBSET Told) \union {NoAnswers}]
    BY <1>2
  <2>4. cache \subseteq {Items[i].state : i \in DOMAIN Items} \X {f.id : f \in Questions}
    BY <1>2
  <2> QED BY <1>3, <2>1, <2>2, <2>3, <2>4 DEF AskerTypeOK
<1>5. \A t \in Threads : ThreadHolds(thread[t])
  BY <1>3 DEF ThreadHolds, Sent
<1>6. Taken /\ Finished /\ Counted
  BY <1>1, <1>2 DEF Taken, Finished, Counted
<1> QED BY <1>4, <1>5, <1>6 DEF AskerInv

LEMMA AskerInvHolds == AskerSpec => []AskerInv
BY AskerStart, AskerStep, PTL DEF AskerSpec

\* What the asker keeps, for each thread and in its counters, is what its types say.
THEOREM AskerTypes == AskerSpec => []AskerTypeOK
<1>1. AskerInv => AskerTypeOK
  BY DEF AskerInv
<1> QED BY <1>1, AskerInvHolds, PTL

\* Every question of an item has one answer or one reason in the end, an answer that is told is in
\* the cache, every question of a chunk is counted once (client.py, pipeline.py), for any threads,
\* items, batch sizes and failures of the provider.
THEOREM QuestionsStayAccounted == AskerSpec => []QuestionsAreAccounted
<1>1. AskerInv => QuestionsAreAccounted
  <2> SUFFICES ASSUME AskerInv PROVE QuestionsAreAccounted
    OBVIOUS
  <2>1. \A i \in DOMAIN Items : values[i] # NoAnswers => Explains(i, values[i], ToSet(Items[i].feats))
    BY DEF AskerInv, Finished, Feats
  <2>2. /\ stats.asked + stats.hits <= tried /\ (~partial => stats.asked + stats.hits = tried)
    BY DEF AskerInv, Counted
  <2>3. ASSUME \A t \in Threads : thread[t].at = "idle", ~failed, next > Len(Items), NEW i \in DOMAIN Items
        PROVE  values[i] # NoAnswers
    <3>1. next \in 1..(Len(Items) + 1) /\ Len(Items) \in Nat /\ DOMAIN Items = 1..Len(Items)
      BY TypeFacts DEF AskerInv
    <3>2. i \in 1..(next - 1)
      BY <2>3, <3>1
    <3> QED BY <2>3, <3>2 DEF AskerInv, Taken
  <2> QED BY <2>1, <2>2, <2>3 DEF QuestionsAreAccounted
<1> QED BY <1>1, AskerInvHolds, PTL
=============================================================================
