---------------------------- MODULE GuidanceReview ----------------------------
(***************************************************************************)
(* Proposals compared with guidance files that a user names: the snapshot, *)
(* the requests and the verdict of memory/guidance.py.  A file is          *)
(* [name, chars]; a proposal is [id, size]; a judgment is a pair of        *)
(* answers from 0 to 10, [coverage, conflict].                             *)
(***************************************************************************)
EXTENDS Integers, SequencesExt

CONSTANTS MaxFiles, MaxChars, MaxTotal,      \* of a snapshot, of a file, of all files
          ChunkChars, OverlapChars,
          MaxCandidates, MaxPairs, MaxProposal,
          MaxRequest, MaxQuestions, Frame,   \* of a request: bytes, questions, bytes without items
          Coverage, Conflict, Uncertain      \* thresholds

Judged == {"coverage", "conflict"}
RequestBytes(sizes) == Frame + FoldLeft(LAMBDA sum, n : sum + n, 0, sizes) + Cardinality(Judged) * Len(sizes)

\* prepare_guidance: a file that fits with any proposal is one chunk, else chunks overlap
Refused(files) ==
  \/ files = <<>> \/ Len(files) > MaxFiles
  \/ ~IsInjective([n \in DOMAIN files |-> files[n].name])
  \/ \E n \in DOMAIN files : files[n].chars = 0 \/ files[n].chars > MaxChars
  \/ FoldLeft(LAMBDA sum, f : sum + f.chars, 0, files) > MaxTotal
Complete(file) == RequestBytes(<<file.chars + MaxProposal>>) <= MaxRequest
ChunksOf(file) ==
  LET begin[k \in Nat] == IF k = 1 THEN 0 ELSE begin[k - 1] + ChunkChars - OverlapChars
      End(k) == IF Complete(file) THEN file.chars ELSE Min({begin[k] + ChunkChars, file.chars})
      count == Min({k \in 1..file.chars : End(k) = file.chars})
  IN [k \in 1..count |-> [name |-> file.name, first |-> begin[k], last |-> End(k), complete |-> Complete(file)]]
Chunks(files) == FlattenSeq([n \in DOMAIN files |-> ChunksOf(files[n])])

\* _guidance_requests: every proposal with every chunk; a request is a sequence of pairs
PairsOf(proposals, chunks) ==
  FlattenSeq([p \in DOMAIN proposals |-> [c \in DOMAIN chunks |-> [proposal |-> proposals[p], chunk |-> chunks[c]]]])
PairSize(pair) == pair.proposal.size + pair.chunk.last - pair.chunk.first
FitsPairs(pairs) ==
  /\ RequestBytes([n \in DOMAIN pairs |-> PairSize(pairs[n])]) <= MaxRequest
  /\ Cardinality(Judged) * Len(pairs) <= MaxQuestions
GuidanceRequests(proposals, chunks) ==
  FoldLeft(LAMBDA rs, pair : IF rs # <<>> /\ FitsPairs(Append(Last(rs), pair)) THEN [rs EXCEPT ![Len(rs)] = Append(@, pair)]
                             ELSE Append(rs, <<pair>>), <<>>, PairsOf(proposals, chunks))
ReviewFails(proposals, chunks) ==
  \/ Len(proposals) > MaxCandidates \/ Len(proposals) * Len(chunks) > MaxPairs
  \/ ~IsInjective([n \in DOMAIN proposals |-> proposals[n].id])
  \/ \E n \in DOMAIN proposals : proposals[n].size > MaxProposal
  \/ \E pair \in ToSet(PairsOf(proposals, chunks)) : RequestBytes(<<PairSize(pair)>>) > MaxRequest

\* assess_guidance: judged maps each chunk to its judgment of one proposal
StatusOf(chunks, judged) ==
  LET Some(P(_)) == \E c \in chunks : P(judged[c])
      covered == \E c \in chunks : judged[c].coverage >= Coverage /\ c.complete
  IN CASE chunks = {} -> "unchecked"
       [] Some(LAMBDA j : j.conflict >= Conflict) -> "possible_conflict"
       [] covered /\ ~Some(LAMBDA j : j.conflict >= Uncertain) -> "already_covered"
       [] Some(LAMBDA j : Max({j.conflict, j.coverage}) >= Uncertain) -> "needs_review"
       [] OTHER -> "no_match"
=============================================================================
