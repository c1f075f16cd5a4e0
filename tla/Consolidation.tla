----------------------------- MODULE Consolidation -----------------------------
(***************************************************************************)
(* Consolidating drafts over several batches: _consolidate_candidates of   *)
(* memory/pipeline.py.  A candidate is [id, size, cites]; a source has its *)
(* size in bytes, with its text and without.  What a provider proposes for *)
(* a group is any set of candidates over the group's sources.              *)
(***************************************************************************)
EXTENDS Integers, SequencesExt

CONSTANTS Drafts,          \* the sequences of validated drafts that may come in
          Batched,         \* the number of batches they come from
          Proposals,       \* what a provider may return for a group: sequences of candidates
          Size, Compact,   \* the size of a source, whole and compacted
          Room, PartialRoom,  \* the bytes of a request, the last and a partial one
          MaxLevels,       \* 32 in the code
          Ids              \* what identifies a candidate

Candidate == [id : Ids, size : Nat, cites : SUBSET DOMAIN Size]
ASSUME ConsolidationAssumption ==
  /\ Size \in Seq(Nat) /\ Compact \in Seq(Nat) /\ Len(Compact) = Len(Size)
  /\ Drafts \cup Proposals \subseteq Seq(Candidate)
  /\ Batched \in Nat /\ MaxLevels \in Nat \ {0}

VARIABLES stand,           \* "fit", "test", "ask", "last", "end"
          candidates, compact, groups, merged, sizeBefore, levels, error,
          seen             \* history: the sizes before each level

cvars == <<stand, candidates, compact, groups, merged, sizeBefore, levels, error, seen>>

NoError == ""
ConsolidationInit ==
  /\ candidates \in Drafts /\ compact = FALSE /\ stand = "fit"
  /\ groups = <<>> /\ merged = <<>> /\ sizeBefore = 0 /\ levels = <<>> /\ error = NoError /\ seen = <<>>

\* a dictionary by id: the later of two drafts with one id stands in the place of the first
Placed(list, c) ==
  IF \E n \in DOMAIN list : list[n].id = c.id THEN [n \in DOMAIN list |-> IF list[n].id = c.id THEN c ELSE list[n]]
  ELSE Append(list, c)
Unique(list) == FoldLeft(Placed, <<>>, list)

Cited(group) == UNION {group[n].cites : n \in DOMAIN group}
Total(sizes) == FoldFunction(+, 0, sizes)
PayloadSize(group, short) ==
  Total([n \in DOMAIN group |-> group[n].size]) + Total([s \in Cited(group) |-> IF short THEN Compact[s] ELSE Size[s]])
Fits(group, short) == PayloadSize(group, short) <= Room
FitsPart(group) == PayloadSize(group, compact) <= PartialRoom

\* groups are filled in order, each as far as it goes
Joined(gs, c) ==
  IF gs # <<>> /\ FitsPart(Append(Last(gs), c)) THEN [gs EXCEPT ![Len(gs)] = Append(@, c)] ELSE Append(gs, <<c>>)
Grouped(list) == FoldLeft(Joined, <<>>, list)

Stop(why) == stand' = "end" /\ error' = why

\* one batch is not consolidated; sources lose their texts if all drafts do not fit with them
Begin ==
  /\ stand = "fit" /\ levels = <<>> /\ seen = <<>>
  /\ IF Batched <= 1 \/ candidates = <<>> THEN Stop(NoError) /\ UNCHANGED <<candidates, compact>>
     ELSE /\ candidates' = Unique(candidates) /\ compact' = ~Fits(Unique(candidates), FALSE)
          /\ stand' = "test" /\ UNCHANGED error
  /\ UNCHANGED <<groups, merged, sizeBefore, levels, seen>>

\* the loop's test; a candidate that no request holds ends it
Test ==
  /\ stand = "test"
  /\ IF Fits(candidates, compact) THEN stand' = "last" /\ UNCHANGED <<groups, sizeBefore, levels, error, seen>>
     ELSE IF \E n \in DOMAIN candidates : ~FitsPart(<<candidates[n]>>)
     THEN Stop("envelope") /\ UNCHANGED <<groups, sizeBefore, levels, seen>>
     ELSE /\ groups' = Grouped(candidates) /\ levels' = Append(levels, Len(groups'))
          /\ sizeBefore' = PayloadSize(candidates, compact) /\ seen' = Append(seen, sizeBefore')
          /\ stand' = "ask" /\ UNCHANGED error
  /\ merged' = <<>>
  /\ UNCHANGED <<candidates, compact>>

\* the drafts of a group may cite what the group cites
Proposed(group) == {p \in Proposals : \A n \in DOMAIN p : p[n].cites \subseteq Cited(group)}

Ask ==
  /\ stand = "ask" /\ groups # <<>>
  /\ \E p \in Proposed(Head(groups)) : merged' = merged \o p
  /\ groups' = Tail(groups)
  /\ UNCHANGED <<stand, candidates, compact, sizeBefore, levels, error, seen>>

\* Mutant of Level: there is no test of progress.
LevelAnyway ==
  /\ stand = "ask" /\ groups = <<>>
  /\ candidates' = Unique(merged)
  /\ IF candidates' = <<>> THEN Stop(NoError)
     ELSE IF ~Fits(candidates', compact) /\ Len(levels) >= MaxLevels THEN Stop("levels")
     ELSE stand' = "test" /\ UNCHANGED error
  /\ UNCHANGED <<compact, groups, merged, sizeBefore, levels, seen>>

Level ==
  /\ stand = "ask" /\ groups = <<>>
  /\ candidates' = Unique(merged)
  /\ IF candidates' = <<>> THEN Stop(NoError)
     ELSE IF ~Fits(candidates', compact) /\ PayloadSize(candidates', compact) >= sizeBefore THEN Stop("no progress")
     ELSE IF ~Fits(candidates', compact) /\ Len(levels) >= MaxLevels THEN Stop("levels")
     ELSE stand' = "test" /\ UNCHANGED error
  /\ UNCHANGED <<compact, groups, merged, sizeBefore, levels, seen>>

\* the last request holds all of them
Final ==
  /\ stand = "last"
  /\ \E p \in Proposed(candidates) : candidates' = p
  /\ levels' = Append(levels, 1) /\ Stop(NoError)
  /\ UNCHANGED <<compact, groups, merged, sizeBefore, seen>>

ConsolidationNext == Begin \/ Test \/ Ask \/ Level \/ Final

ConsolidationSpec == ConsolidationInit /\ [][ConsolidationNext]_cvars

-----------------------------------------------------------------------------
\* However large the drafts are that providers return, consolidation ends: each level starts
\* smaller than the one before and there is a last one. Only drafts that have been in one
\* request come out of several batches, and a group lost or split in two would tell
\* (memory/pipeline.py:186-262).
ConsolidationEnds ==
  /\ \A n \in 1..(Len(seen) - 1) : seen[n + 1] < seen[n]
  /\ Len(seen) <= MaxLevels
  /\ stand = "ask" /\ merged = <<>> /\ groups # <<>> /\ Len(groups) = Last(levels) =>
       FlattenSeq(groups) = candidates /\ \A g \in DOMAIN groups : groups[g] # <<>> /\ FitsPart(groups[g])
  /\ stand = "last" => Fits(candidates, compact) /\ IsInjective([n \in DOMAIN candidates |-> candidates[n].id])
  /\ stand = "end" /\ error = NoError /\ Batched > 1 /\ candidates # <<>> => Last(levels) = 1
=============================================================================
