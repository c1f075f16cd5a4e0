------------------------------- MODULE Evidence -------------------------------
(***************************************************************************)
(* From traces to the evidence of an audit, and from proposals to what is  *)
(* accepted of them: memory/inputs.py; screening, batches, decoding and    *)
(* scope in memory/extraction.py.                                          *)
(*                                                                         *)
(* A trace is [sessions, links, partial], its root first; a session is     *)
(* [key, native, parent, sums, degraded, events], 0 for no parent; an      *)
(* event is [local, kind, text, author, paths, size].  Families answers    *)
(* for each key with the least key of its family and whether it is known.  *)
(***************************************************************************)
EXTENDS Integers, SequencesExt

CONSTANTS None, Threshold,            \* from which answer on a record is retained
          MaxQuestions, MaxRequest,   \* of a screening request: questions, bytes
          Frame, Marker,              \* bytes of a request without items, of a mark of omission
          MaxChars, Room,             \* of a batch, of a request without what repairs may need
          Overhead, PartialText,      \* instructions, and what is added where batches are many
          ContextMax, Meta            \* bytes of an antecedent, of a record without its text

-----------------------------------------------------------------------------
(* _families.                                                              *)

Find(up, k) == LET to[n \in Nat] == IF n = 0 THEN k ELSE up[to[n - 1]] IN to[Cardinality(DOMAIN up)]
Union(up, a, b) == LET ends == {Find(up, a), Find(up, b)} IN [up EXCEPT ![Max(ends)] = Min(ends)]

Join(acc, a, b) == IF b \in DOMAIN acc.up THEN [acc EXCEPT !.up = Union(@, a, b)] ELSE [acc EXCEPT !.unknown = @ \union {a}]
TakeSum(acc, key, sum) ==
  IF sum \in DOMAIN acc.owner THEN [acc EXCEPT !.up = Union(@, key, acc.owner[sum])] ELSE [acc EXCEPT !.owner = (sum :> key) @@ @]
TakeSession(acc, root, s) ==
  LET doubtful == IF s.native /\ ~s.degraded THEN {} ELSE {s.key}
      rooted == [acc EXCEPT !.up = Union(@, root, s.key), !.unknown = @ \union doubtful]
      linked == IF s.parent = 0 THEN rooted ELSE Join(rooted, s.key, s.parent)
  IN FoldLeft(LAMBDA a, sum : TakeSum(a, s.key, sum), linked, SetToSeq(s.sums))
TakeTrace(acc, trace) ==
  LET root == trace.sessions[1].key
      read == FoldLeft(LAMBDA a, s : TakeSession(a, root, s), acc, trace.sessions)
      marked == IF trace.partial THEN [read EXCEPT !.unknown = @ \union {root}] ELSE read
  IN FoldLeft(LAMBDA a, l : IF l.child \in DOMAIN a.up THEN Join(a, l.child, l.parent) ELSE a, marked, trace.links)

Keys(traces) == UNION {{s.key : s \in ToSet(traces[t].sessions)} : t \in DOMAIN traces}
Families(traces) ==
  LET done == FoldLeft(TakeTrace, [up |-> [k \in Keys(traces) |-> k], unknown |-> {}, owner |-> <<>>], traces)
      bad == {Find(done.up, k) : k \in done.unknown}
  IN [k \in Keys(traces) |-> [family |-> Find(done.up, k), known |-> Find(done.up, k) \notin bad]]

-----------------------------------------------------------------------------
(* prepare_inputs: an event that another export of its session tells too   *)
(* is one record.                                                          *)

Role == [user_msg |-> "user", assistant_msg |-> "assistant", thinking |-> "assistant", tool_call |-> "assistant", tool_result |-> "tool"]
RecordKind == [user_msg |-> "message", assistant_msg |-> "message", thinking |-> "reasoning", tool_call |-> "tool_call", tool_result |-> "tool_result"]
Authorship(s, root, e) ==
  IF e.kind # "user_msg" THEN "unknown" ELSE IF e.author = "human" /\ (s.parent # 0 \/ s.key # root) THEN "delegated" ELSE e.author
RecordOf(s, root, family, e, antecedent) ==
  [id |-> <<s.key, e.local, RecordKind[e.kind]>>, session |-> s.key, role |-> Role[e.kind], kind |-> RecordKind[e.kind], text |-> e.text, size |-> e.size,
   author |-> Authorship(s, root, e), paths |-> IF e.kind = "tool_call" THEN e.paths ELSE {},
   antecedent |-> IF e.kind = "user_msg" THEN antecedent ELSE None, family |-> family.family, known |-> family.known]
TakeEvent(acc, s, root, family, e) ==
  LET same == SelectSeq(acc.records, LAMBDA r : r.id = <<s.key, e.local, RecordKind[e.kind]>>)
      new == RecordOf(s, root, family, e, acc.antecedent)
  IN CASE e.kind \notin DOMAIN Role \/ (e.text = "" /\ e.kind # "tool_call") -> acc
       [] same # <<>> /\ same[1].text # e.text -> [acc EXCEPT !.error = TRUE]
       [] same # <<>> -> acc
       [] OTHER -> [acc EXCEPT !.records = Append(@, new),
                               !.antecedent = IF new.role = "assistant" /\ new.kind # "tool_call" THEN new.id ELSE @]
Prepare(traces) ==
  LET families == Families(traces)
      Read(acc, root, s) == FoldLeft(LAMBDA a, e : TakeEvent(a, s, root, families[s.key], e), [acc EXCEPT !.antecedent = None], s.events)
  IN FoldLeft(LAMBDA acc, t : FoldLeft(LAMBDA a, s : Read(a, t.sessions[1].key, s), acc, t.sessions),
              [records |-> <<>>, antecedent |-> None, error |-> FALSE], traces)

\* _analytics: how often, in how many sessions and known families a file was read
FileReads(records, path) ==
  LET reads == {n \in DOMAIN records : path \in records[n].paths} IN
  [count |-> Cardinality(reads), sessions |-> Cardinality({records[n].session : n \in reads}),
   groups |-> Cardinality({records[n].family : n \in {m \in reads : records[m].known}})]

-----------------------------------------------------------------------------
(* Screening. A question is <<id, name>>.                                  *)

Eligible(r) ==
  /\ r.role = "user" => r.author = "human" /\ r.text # "injected"
  /\ r.kind # "tool_call" /\ r.text # ""
Names(r) ==
  <<"navigation", "reusable">> \o (IF r.role = "user" /\ r.kind = "message" THEN <<"correction">> ELSE <<>>)
                               \o (IF r.role = "assistant" THEN <<"discovery">> ELSE <<>>)

\* what the agent said last before a user's message, 0 for nothing
SaidBefore(records, n) ==
  Max({0} \union {m \in 1..(n - 1) : records[m].session = records[n].session /\ records[m].role = "assistant" /\ records[m].kind # "tool_call"})
ContextOf(records, n) == IF records[n].role = "user" THEN SaidBefore(records, n) ELSE 0

\* a text, cut to a fixed size before, loses its middle until its record fits alone; 0 if it never does
ScreenedSize(records, n) ==
  LET c == ContextOf(records, n)
      rest == Frame + Len(Names(records[n])) + IF c = 0 THEN 0 ELSE Min({records[c].size, ContextMax})
      size[k \in Nat] == IF k = 0 THEN records[n].size ELSE 2 * (size[k - 1] \div 4) + Marker
      Shrinks(k) == \A m \in 0..(k - 1) : size[m] >= 4 /\ size[m + 1] < size[m]
      fits == {k \in 0..records[n].size : Shrinks(k) /\ rest + size[k] <= MaxRequest}
  IN IF fits = {} THEN 0 ELSE size[Min(fits)] + rest - Frame - Len(Names(records[n]))

\* a batch is a sequence of positions
QuestionsOf(records, batch) ==
  FlattenSeq([k \in DOMAIN batch |-> [q \in DOMAIN Names(records[batch[k]]) |-> <<records[batch[k]].id, Names(records[batch[k]])[q]>>]])
ScreeningBytes(records, batch) ==
  Frame + Len(QuestionsOf(records, batch)) + FoldLeft(LAMBDA sum, n : sum + ScreenedSize(records, n), 0, batch)
\* _feature_requests
ScreeningFits(records, batch) == ScreeningBytes(records, batch) <= MaxRequest /\ Len(QuestionsOf(records, batch)) <= MaxQuestions
ScreeningBatches(records) ==
  FoldLeft(LAMBDA bs, n : IF bs # <<>> /\ ScreeningFits(records, Append(Last(bs), n)) THEN [bs EXCEPT ![Len(bs)] = Append(@, n)] ELSE Append(bs, <<n>>),
           <<>>, SelectSeq([n \in DOMAIN records |-> n], LAMBDA n : Eligible(records[n])))
\* feature_requests: what a request asks, in pieces
Pieces(questions) ==
  [k \in 1..((Len(questions) + MaxQuestions - 1) \div MaxQuestions) |->
     SubSeq(questions, (k - 1) * MaxQuestions + 1, Min({Len(questions), k * MaxQuestions}))]
FeatureRequests(records) ==
  LET batches == ScreeningBatches(records) IN FlattenSeq([k \in DOMAIN batches |-> Pieces(QuestionsOf(records, batches[k]))])
ScreeningFails(records) == \E n \in DOMAIN records : Eligible(records[n]) /\ ScreenedSize(records, n) = 0

\* Mutant of TakeAnswers: a record is judged by the answers of one piece.
TakeAnswersAlone(acc, piece, answers) ==
  LET told == {q[1] : q \in ToSet(piece)}
  IN [acc EXCEPT !.retained = (@ \ told) \union {id \in told : \E q \in ToSet(piece) : q[1] = id /\ answers[q] >= Threshold}]
\* screen_features: an answer is one of 0 to 10; the retained records
TakeAnswers(acc, piece, answers) ==
  LET values == acc.values \union {<<q, answers[q]>> : q \in ToSet(piece)}
      High(id) == \E v \in values : v[1][1] = id /\ v[2] >= Threshold
      told == {q[1] : q \in ToSet(piece)}
  IN [values |-> values, retained |-> (acc.retained \ told) \union {id \in told : High(id)}]
Retained(records, answers) ==
  FoldLeft(LAMBDA acc, piece : TakeAnswers(acc, piece, answers), [values |-> {}, retained |-> {}], FeatureRequests(records)).retained
    \union {r.id : r \in {s \in ToSet(records) : s.kind = "tool_call" /\ s.paths # {}}}
EvidenceUse(r, retained) ==
  IF r.id \notin retained THEN "excluded" ELSE IF r.kind \in {"tool_call", "tool_result"} THEN "supporting_context" ELSE "candidate_signal"

-----------------------------------------------------------------------------
(* Batches of evidence.                                                    *)

\* bounded_evidence: what is left of a record; it raises if not even the metadata fits
TooBig == MaxChars + Room
Bounded(size, max) == IF size <= max THEN size ELSE IF max <= Meta THEN TooBig ELSE max
Total(items) == FoldLeft(LAMBDA sum, i : sum + i.size + i.context, 0, items)
FitsRequest(items, many) == Overhead + (IF many THEN PartialText ELSE 0) + Total(items) <= Room
FitsBatch(items) == Total(items) <= MaxChars /\ FitsRequest(items, FALSE)

\* the item of a record, before and after it was made to fit alone
FirstItem(records, n) ==
  LET c == ContextOf(records, n)
      context == IF c = 0 THEN 0 ELSE Bounded(records[c].size, ContextMax)
      whole == Bounded(records[n].size, MaxChars - 1)
  IN [id |-> records[n].id, context |-> context,
      size |-> IF whole # TooBig /\ context + whole > MaxChars THEN Bounded(records[n].size, MaxChars - context - 1) ELSE whole]
FittingItem(records, n) ==
  LET first == FirstItem(records, n)
      budget[k \in Nat] == IF k = 0 THEN MaxChars - 1 ELSE budget[k - 1] \div 2
      cut[k \in Nat] == IF k = 0 THEN first ELSE [first EXCEPT !.size = Bounded(records[n].size, budget[k])]
      ends == {k \in 0..MaxChars : TooBig \in {cut[k].size, cut[k].context} \/ FitsBatch(<<cut[k]>>)}
  IN cut[Min(ends)]

\* _evidence_batches
TakeItem(records, batches, n) ==
  IF batches # <<>> /\ FitsBatch(Append(Last(batches), FirstItem(records, n)))
  THEN [batches EXCEPT ![Len(batches)] = Append(@, FirstItem(records, n))] ELSE Append(batches, <<FittingItem(records, n)>>)
FirstBatches(records, retained) ==
  FoldLeft(LAMBDA bs, n : TakeItem(records, bs, n), <<>>, SelectSeq([n \in DOMAIN records |-> n], LAMBDA n : records[n].id \in retained))

\* evidence_batches: where batches are many, instructions are longer
Split(batch, many) ==
  IF FitsRequest(batch, many) THEN <<batch>>
  ELSE FoldLeft(LAMBDA bs, i : IF bs # <<>> /\ FitsRequest(Append(Last(bs), i), many) THEN [bs EXCEPT ![Len(bs)] = Append(@, i)] ELSE Append(bs, <<i>>),
                <<>>, batch)
EvidenceBatches(records, retained) ==
  LET first == FirstBatches(records, retained) IN FlattenSeq([k \in DOMAIN first |-> Split(first[k], Len(first) > 1)])
BatchesFail(records, retained) ==
  LET first == FirstBatches(records, retained) IN
  \E k \in DOMAIN first : \E n \in DOMAIN first[k] : ~FitsRequest(<<first[k][n]>>, Len(first) > 1)

-----------------------------------------------------------------------------
(* Proposals: [category, cites, paths].                                    *)

Said(r) == r.role = "assistant" /\ r.kind \in {"message", "reasoning"}
KnownFamilies(rs) == {r.family : r \in {s \in rs : s.known}}
Corrections(c, cited) == c.category = "user_corrections" => \A r \in cited : r.role = "user" /\ r.kind = "message" /\ Eligible(r)
Recurs(c, cited) ==
  /\ c.category # "user_corrections" => Cardinality(KnownFamilies(cited)) >= 2
  /\ c.category = "repeated_reading" =>
       \E p \in c.paths : Cardinality(KnownFamilies({r \in cited : r.kind \in {"tool_call", "tool_result"} /\ p \in r.paths})) >= 2
  /\ c.category = "repeated_discovery" => Cardinality(KnownFamilies({r \in cited : Said(r)})) >= 2
\* decode_candidates: one that is not right makes the answer useless
Valid(c, records, recurrence) ==
  LET cited == {r \in records : r.id \in ToSet(c.cites)} IN
  /\ c.cites # <<>> /\ IsInjective(c.cites) /\ ToSet(c.cites) \subseteq {r.id : r \in records}
  /\ Corrections(c, cited) /\ (recurrence => Recurs(c, cited))
  /\ c.category = "repeated_discovery" => \E r \in cited : Said(r)
  /\ c.paths \subseteq UNION {r.paths : r \in cited}
Decoded(proposals, records, recurrence) == IsInjective(proposals) /\ \A n \in DOMAIN proposals : Valid(proposals[n], records, recurrence)

\* assess_proposal_scope
ScopeOf(c, records) ==
  LET sessions == {r.session : r \in {s \in ToSet(records) : s.id \in ToSet(c.cites)}} IN
  [status |-> IF c.category = "user_corrections" /\ Cardinality(sessions) = 1 THEN "source_task_only" ELSE "requires_scope_review",
   context |-> {records[ContextOf(records, n)].id :
                  n \in {m \in DOMAIN records : c.category = "user_corrections" /\ records[m].id \in ToSet(c.cites) /\ ContextOf(records, m) # 0}}]
=============================================================================
