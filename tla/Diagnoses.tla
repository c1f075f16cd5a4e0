------------------------------- MODULE Diagnoses -------------------------------
(***************************************************************************)
(* Where money was wasted: diagnostics/waste.py, continuation.py,          *)
(* precedence.py and engine.py, with the windows of semantic/results.py.   *)
(*                                                                         *)
(* An atom is a record of its facts and of the recorded answers: answers   *)
(* maps feature names to tenths, levels or choices, None when unanswered;  *)
(* abstains is the set of features the reader refused.  Its amount is the  *)
(* invoice of its usage, `exact` says whether the price is.  A diagnosis   *)
(* is [id, spans, amount, waste, info, group, supersedes, flags, turn]:    *)
(* spans are names of atoms, turns or events; flags its evidence.          *)
(***************************************************************************)
EXTENDS Integers, SequencesExt

CONSTANTS None, ContextPct, ContextWindow

Where(s, P(_)) == SelectSeq([k \in DOMAIN s |-> k], LAMBDA k : P(s[k]))
Exists(s, P(_)) == \E k \in DOMAIN s : P(s[k])

Diagnosis(id, spans, amount, waste, info, group) ==
  [id |-> id, spans |-> spans, amount |-> amount, waste |-> waste, info |-> info, group |-> group,
   supersedes |-> {}, corroborates |-> {}, flags |-> {}]

\* _noul: the answer, else what the facts say
Answer(ep, feature, default) ==
  IF feature \in DOMAIN ep.answers /\ ep.answers[feature] # None THEN ep.answers[feature] ELSE default
Low(value) == value # None /\ value < 3

-----------------------------------------------------------------------------
(* Windows of atoms (semantic/results.py).                                   *)

\* the facts' novelty goes before the answered one
NoveltyOf(ep) == IF ep.novelFact # None THEN ep.novelFact ELSE Answer(ep, "novel", 10)
ArtifactChanged(ep) == ep.edits

StuckWindow(k, eps) ==
  LET Stuck(ep) == ep.failRepeats > 0 /\ NoveltyOf(ep) < 3 /\ ~ArtifactChanged(ep) IN
  \E i \in 1..(Len(eps) - k + 1) : \A j \in i..(i + k - 1) : Stuck(eps[j])

ThrashingWindow(k, eps) ==
  \E i \in 1..(Len(eps) - k + 1) :
    LET Offset(j) == (j - i) % 2 IN
    /\ \E path \in eps[i].paths : \A j \in i..(i + k - 1) : path \in eps[j].paths
    /\ \A j \in i..(i + k - 1) : IF Offset(j) = 0 THEN eps[j].edits ELSE eps[j].tested \/ eps[j].testFailed
    /\ \E j \in i..(i + k - 1) : Offset(j) = 1 /\ eps[j].testFailed

-----------------------------------------------------------------------------
(* partition_waste: the first rule that holds for an atom names its cause.   *)

Cites(ep) == Answer(ep, "cites", IF ep.citesFact THEN 10 ELSE 0)
Refused(ep, features) == ep.abstains \intersect features # {}

\* the first atom that declares success and cites a verification, 0 for none
CompletedAt(eps) ==
  LET done == {k \in DOMAIN eps : /\ ~Refused(eps[k], {"declares", "cites"})
                                  /\ Answer(eps[k], "declares", eps[k].declaresFact) >= 7 /\ Cites(eps[k]) >= 7}
  IN IF done = {} THEN 0 ELSE Min(done)

PostCompletion(eps, k) ==
  LET done == CompletedAt(eps)
      later == SubSeq(eps, done + 1, Len(eps))
  IN /\ done # 0 /\ k > done
     /\ ~Exists(later, LAMBDA ep : ~Refused(ep, {"cites"}) /\ Cites(ep) >= 7)
     /\ ~Exists(later, LAMBDA ep : ep.trigger = "user_request" \/ ep.outstanding)

Duplicate(ep) ==
  LET novel == Answer(ep, "novel", IF ep.novelFact = None THEN 10 ELSE ep.novelFact)
      repeats == IF ep.repeats > 0 THEN ep.repeats ELSE ep.failRepeats
  IN ~Refused(ep, {"novel"}) /\ (repeats >= 2 \/ ep.rereads >= 1) /\ novel < 3

\* a novelty of nought is read as none given, which stands for 1
Ineffective(eps, noAdapt, k) ==
  LET stuck == StuckWindow(2, eps)
      novel(ep) == Answer(ep, "novel", IF ep.novelFact = None THEN 10 ELSE ep.novelFact)
      matching == {j \in DOMAIN eps : eps[j].failRepeats > 0 /\ novel(eps[j]) \in 1..2}
  IN /\ stuck \/ ThrashingWindow(2, eps) \/ noAdapt
     /\ stuck /\ matching # {} => k \in matching
     /\ ~Refused(eps[k], {"novel"})

Irrelevant(ep) ==
  LET targets == Answer(ep, "targets", None)
      overlap == IF ep.overlap # None THEN ep.overlap ELSE IF Low(targets) THEN 0 ELSE 1
  IN /\ ~Refused(ep, {"targets", "purpose"})
     /\ Answer(ep, "purpose", ep.purposeFact) # "orient"
     /\ Low(targets) /\ overlap = 0

\* demand is a level 0..3; requires the largest of the four requirement features
ExcessReasoning(ep) ==
  LET demand == Answer(ep, "demand", ep.demandFact) IN
  /\ ~Refused(ep, {"demand", "requires"})
  /\ demand # None /\ demand <= 1 /\ Answer(ep, "requires", 0) < 3 /\ ep.highEffort

Coordination(ep) == ep.coordinates /\ ep.reuse # None /\ ep.reuse < 5

Rules(eps, noAdapt, k) ==
  << <<"EXTERNAL_BLOCK", eps[k].impediment>>, <<"POST_COMPLETION_WORK", PostCompletion(eps, k)>>,
     <<"DUPLICATE_WORK", Duplicate(eps[k])>>, <<"INEFFECTIVE_ITERATION", Ineffective(eps, noAdapt, k)>>,
     <<"IRRELEVANT_WORK", Irrelevant(eps[k])>>, <<"EXCESS_REASONING_TIER", ExcessReasoning(eps[k])>>,
     <<"COORDINATION_OVERHEAD", Coordination(eps[k])>> >>

Causes == <<"EXTERNAL_BLOCK", "POST_COMPLETION_WORK", "DUPLICATE_WORK", "INEFFECTIVE_ITERATION",
            "IRRELEVANT_WORK", "EXCESS_REASONING_TIER", "COORDINATION_OVERHEAD">>

\* `claimed`: one primary cause per atom, and none without an exact price
CauseOf(eps, noAdapt, k) ==
  LET rules == Rules(eps, noAdapt, k)
      holds == {r \in DOMAIN rules : rules[r][2]}
  IN IF ~eps[k].exact \/ holds = {} THEN None ELSE rules[Min(holds)][1]

WasteRow(ep, cause) ==
  LET row == Diagnosis(cause, {ep.id}, IF cause = "EXCESS_REASONING_TIER" THEN ep.reasoning ELSE ep.amount,
                       cause \notin {"EXTERNAL_BLOCK", "COORDINATION_OVERHEAD"}, cause = "COORDINATION_OVERHEAD", <<cause, ep.id>>)
  IN IF cause = "DUPLICATE_WORK" /\ ep.compacted
     THEN [row EXCEPT !.flags = {"downgraded"}, !.corroborates = {"COMPACTION_AMNESIA"}] ELSE row

PrimaryRows(eps, noAdapt) ==
  FlattenSeq([c \in DOMAIN Causes |->
    LET hit == SelectSeq([k \in DOMAIN eps |-> k], LAMBDA k : CauseOf(eps, noAdapt, k) = Causes[c])
    IN [n \in DOMAIN hit |-> WasteRow(eps[hit[n]], Causes[c])]])

LowYieldTail(eps) ==
  LET trailing == SubSeq(eps, Max({1, Len(eps) - 1}), Len(eps))
      Progress(ep) == Answer(ep, "outcome", None) \in {"goal_step_completed", "partial_progress"} /\ ep.noProgress # TRUE
      None3(ep) == ep.noProgress = TRUE \/ Answer(ep, "outcome", None) = "no_observable_progress"
  IN /\ ~Exists(trailing, LAMBDA ep : Progress(ep) \/ ep.noProgress = FALSE)
     /\ Exists(trailing, None3)

LateProgress(eps) ==
  Exists(SubSeq(eps, (Len(eps) * 2) \div 3 + 1, Len(eps)),
         LAMBDA ep : Answer(ep, "novel", IF ep.novelFact = None THEN 0 ELSE ep.novelFact) >= 5 \/ Answer(ep, "produces", 0) >= 5)

\* what owns no dollars; findings are the ids of the detectors' findings
Indicators(session, eps, findings) ==
  LET row(id, spans, group) == Diagnosis(id, spans, None, FALSE, TRUE, group)
      trailing == {eps[k].id : k \in {j \in DOMAIN eps : j > Len(eps) - 2}}
      rot == row("CONTEXT_ROT", {session}, <<"context_rot">>)
  IN (IF eps # <<>> /\ LowYieldTail(eps) THEN <<row("LOW_YIELD_TAIL", trailing, <<"low_yield_tail">>)>> ELSE <<>>)
     \o (IF "RUNAWAY_SESSION" \in findings THEN <<row("RUNAWAY_SESSION", {session}, <<"runaway">>)>> ELSE <<>>)
     \o (IF "CONTEXT_ROT" \notin findings THEN <<>>
         ELSE <<[rot EXCEPT !.flags = IF LateProgress(eps) THEN {"suppressed"} ELSE {"upgraded"}]>>)

PartitionWaste(session, eps, findings) ==
  PrimaryRows(eps, "NO_ADAPT_RETRY" \in findings) \o Indicators(session, eps, findings)

-----------------------------------------------------------------------------
(* continuation_diagnoses: what an unrelated task in an old session costs    *)
(* over a fresh one.  A task is [id, turn, edge, artifacts, calls, text,     *)
(* compacted, afterGap, refused, price, exact]; calls are those of its first *)
(* turn and turn may be None.                                                *)

CacheMiss(u) == u.inp + u.read > 0 /\ u.read * 10 < u.inp + u.read
Occupancy(u) == u.inp + u.read
ArtifactReuse(tasks, k) == Cardinality(tasks[k].artifacts \intersect UNION {tasks[j].artifacts : j \in 1..(k - 1)})

\* _fresh_baseline_range: the size of the system prompt is unknown, so it is bounded
FreshBaseline(task, occupancy) ==
  LET request == Max({1, task.text})
      system == Max({0, Min({occupancy, Max({occupancy - request, occupancy \div 5})})})
  IN [low |-> request * task.price.inp, high |-> (request + system) * task.price.inp]

BurdenRange(task) ==
  LET u == task.calls[1]
      InputCost(c) == c.inp * task.price.inp + c.read * task.price.read + c.write * task.price.write
      invoice == FoldLeft(LAMBDA sum, c : sum + InputCost(c), 0, task.calls)
      fresh == FreshBaseline(task, Occupancy(u))
  IN [low |-> Max({0, invoice - fresh.high}), high |-> Max({0, invoice - fresh.low})]

Burdens(tasks, k) ==
  LET task == tasks[k] IN
  /\ task.edge = "unrelated" /\ ArtifactReuse(tasks, k) = 0
  /\ task.calls # <<>> /\ task.exact
  /\ \/ CacheMiss(task.calls[1]) /\ task.afterGap
     \/ Occupancy(task.calls[1]) * 100 > ContextPct * ContextWindow
     \/ task.compacted

ContinuationRow(tasks, k) ==
  LET task == tasks[k]
      spans == {IF task.turn = None THEN task.id ELSE task.turn}
      range == BurdenRange(task)
  IN IF Burdens(tasks, k)
     THEN Diagnosis("CONTINUATION_BURDEN", spans, (range.low + range.high) \div 2, TRUE, FALSE, <<"continuation", task.id>>)
     ELSE Diagnosis("CONTEXT_CARRYOVER", spans, None, FALSE, TRUE, <<"continuation", task.id>>)

Continuations(tasks) ==
  LET asked == SelectSeq([k \in DOMAIN tasks |-> k], LAMBDA k : ~tasks[k].refused)
  IN [n \in DOMAIN asked |-> ContinuationRow(tasks, asked[n])]

-----------------------------------------------------------------------------
(* apply_precedence, one operator per pass over the rows.                    *)

KeptDetectors == {"KITCHEN_SINK", "UNVERIFIED_COMPLETION", "COMPACTION_AMNESIA", "RUNAWAY_SESSION", "CONTEXT_ROT"}
SemanticEdges == {"unrelated", "sibling_same_area", "depends_on", "corrects"}
Ids(rows) == {rows[k].id : k \in DOMAIN rows}
Update(rows, P(_), F(_)) == [k \in DOMAIN rows |-> IF P(rows[k]) THEN F(rows[k]) ELSE rows[k]]

\* _from_finding: a finding is [id, span]
FromFinding(f) == Diagnosis(f.id, {f.span}, None, FALSE, f.id \in KeptDetectors, <<f.id>>)

MergeFindings(rows, findings) ==
  LET Add(acc, f) == IF \/ Exists(acc, LAMBDA d : d.id = f.id /\ d.spans = {f.span})
                        \/ f.id \in Ids(rows) /\ f.id \notin KeptDetectors
                     THEN acc ELSE Append(acc, FromFinding(f))
  IN FoldLeft(Add, rows, findings)

\* a semantic relation between tasks supersedes KITCHEN_SINK
SupersedeKitchenSink(rows, tasks) ==
  LET quiet == Update(rows, LAMBDA d : d.id = "KITCHEN_SINK", LAMBDA d : [d EXCEPT !.info = TRUE, !.waste = FALSE, !.amount = None])
      primary == {k \in DOMAIN rows : quiet[k].waste /\ quiet[k].id \notin {"PHASE_SPEND", "KITCHEN_SINK"}}
  IN IF ~Exists(tasks, LAMBDA t : t.edge \in SemanticEdges) THEN rows
     ELSE IF primary = {} THEN Update(quiet, LAMBDA d : d.id = "KITCHEN_SINK", LAMBDA d : [d EXCEPT !.flags = @ \union {"superseded"}])
     ELSE [quiet EXCEPT ![Min(primary)].supersedes = @ \union {"KITCHEN_SINK"}]

\* a verification that a late atom cites vetoes what follows a completion
TrailingCites(eps) ==
  Exists(SubSeq(eps, (Len(eps) * 2) \div 3 + 1, Len(eps)), LAMBDA ep : Answer(ep, "cites", 0) >= 7 \/ ep.citesFact)
\* Mutant of VetoTrailing: no verification is looked for.
VetoNothing(rows, eps) == rows

VetoTrailing(rows, eps) ==
  IF eps # <<>> /\ TrailingCites(eps) THEN SelectSeq(rows, LAMBDA d : d.id \notin {"POST_COMPLETION_WORK", "LOW_YIELD_TAIL"}) ELSE rows

\* duplicate work after a compaction becomes support for COMPACTION_AMNESIA
Downgraded(d) == d.id = "DUPLICATE_WORK" /\ "downgraded" \in d.flags
DowngradeDuplicates(rows) ==
  LET down == SelectSeq(rows, Downgraded)
      amnesia == [n \in DOMAIN down |-> Diagnosis("COMPACTION_AMNESIA", down[n].spans, None, FALSE, TRUE, down[n].group)]
  IN Update(rows, Downgraded, LAMBDA d : [d EXCEPT !.info = TRUE, !.corroborates = @ \union {"COMPACTION_AMNESIA"}])
     \o (IF "COMPACTION_AMNESIA" \in Ids(rows) THEN <<>> ELSE amnesia)

GroupRunaway(rows) ==
  LET runaway == {k \in DOMAIN rows : rows[k].id = "RUNAWAY_SESSION"}
      grouped == Update(rows, LAMBDA d : d.id \in {"RUNAWAY_SESSION", "LOW_YIELD_TAIL"}, LAMBDA d : [d EXCEPT !.group = <<"runaway">>])
  IN IF {"RUNAWAY_SESSION", "LOW_YIELD_TAIL"} \subseteq Ids(rows)
     THEN [grouped EXCEPT ![Min(runaway)].supersedes = @ \union {"LOW_YIELD_TAIL"}] ELSE rows

DropSuppressed(rows) == SelectSeq(rows, LAMBDA d : ~(d.id = "CONTEXT_ROT" /\ "suppressed" \in d.flags))

\* UNVERIFIED_COMPLETION rests on the recorded claims once any atom has one
JudgeCompletion(rows, eps, semantic) ==
  LET claimed == SelectSeq(eps, LAMBDA ep : Answer(ep, "declares", None) # None)
      composite == /\ Exists(claimed, LAMBDA ep : ep.answers["declares"] >= 7)
                   /\ ~Exists(eps, LAMBDA ep : ep.verified)
  IN IF ~semantic \/ claimed = <<>> THEN rows
     ELSE IF composite THEN Update(rows, LAMBDA d : d.id = "UNVERIFIED_COMPLETION", LAMBDA d : [d EXCEPT !.flags = @ \union {"semantic"}])
     ELSE SelectSeq(rows, LAMBDA d : d.id # "UNVERIFIED_COMPLETION")

\* a burden takes the dollars of the waste whose spans it shares
Overlapped(rows, d) ==
  /\ d.id \notin {"CONTINUATION_BURDEN", "PHASE_SPEND", "EXTERNAL_BLOCK", "CONTEXT_CARRYOVER"} /\ ~d.info /\ d.waste
  /\ Exists(rows, LAMBDA b : b.id = "CONTINUATION_BURDEN" /\ b.spans \intersect d.spans # {})
BurdenOwns(rows) ==
  LET lost == {rows[k].id : k \in {j \in DOMAIN rows : Overlapped(rows, rows[j])}}
      freed == Update(rows, LAMBDA d : Overlapped(rows, d), LAMBDA d : [d EXCEPT !.amount = None, !.waste = FALSE, !.info = TRUE])
  IN Update(freed, LAMBDA d : d.id = "CONTINUATION_BURDEN", LAMBDA d : [d EXCEPT !.supersedes = @ \union lost])

\* one economic amount per group: the first row that is no mere information, else the first with one
OneAmountPerGroup(rows) ==
  LET Paid(g) == {k \in DOMAIN rows : rows[k].group = g /\ rows[k].amount # None}
      Firm(g) == {k \in Paid(g) : ~rows[k].info}
      Primary(g) == IF Firm(g) # {} THEN Min(Firm(g)) ELSE Min(Paid(g))
  IN [k \in DOMAIN rows |-> IF rows[k].amount # None /\ k # Primary(rows[k].group) THEN [rows[k] EXCEPT !.amount = None] ELSE rows[k]]

ApplyPrecedence(rows, tasks, eps, findings, semantic) ==
  LET merged == MergeFindings(rows, findings)
      related == DowngradeDuplicates(VetoTrailing(SupersedeKitchenSink(merged, tasks), eps))
      judged == JudgeCompletion(DropSuppressed(GroupRunaway(related)), eps, semantic)
  IN OneAmountPerGroup(BurdenOwns(judged))

\* diagnose, for one session whose phases cost what `phases` says
Diagnose(session, tasks, eps, findings, phases, semantic) ==
  LET spend == [k \in DOMAIN phases |-> Diagnosis("PHASE_SPEND", {phases[k].span}, phases[k].amount, FALSE, TRUE, <<"phase", phases[k].span>>)]
      found == {findings[k].id : k \in DOMAIN findings}
  IN ApplyPrecedence(spend \o PartitionWaste(session, eps, found) \o Continuations(tasks), tasks, eps, findings, semantic)

\* attach_counterfactual: the middle between the smallest low and the largest high
Counterfactual(tasks) ==
  LET ranges == {BurdenRange(tasks[k]) : k \in {j \in DOMAIN tasks : ~tasks[j].refused /\ Burdens(tasks, j)}}
      low == Min({r.low : r \in ranges}) high == Max({r.high : r \in ranges})
  IN IF ranges = {} THEN None ELSE [low |-> low, high |-> high, amount |-> (low + high) \div 2]
=============================================================================
