------------------------------- MODULE Annotation -------------------------------
(***************************************************************************)
(* What is asked of System One about a trace, and where the answers go:    *)
(* semantic/pipeline.py, from annotate_trace down to Annotator.ask_many    *)
(* (see Asker).  An object carries in `says` what would be answered to     *)
(* each question: a number from 0 to 10, a choice, or None.                *)
(***************************************************************************)
EXTENDS Integers, SequencesExt

CONSTANTS None, Routing,      \* the subtypes of each family of tasks
          ShownAround         \* how many events around a failure are shown, 12 in the code

Positive(values, f) == f \in DOMAIN values /\ values[f] \in 7..10
Given(says, asked) == [f \in asked |-> says[f]]

-----------------------------------------------------------------------------
(* Sessions. A tree is [order, parent, estimated, spawns]: the root first, *)
(* the links, the sessions without a transcript, and for each session the  *)
(* threads that its episodes have spawned.                                 *)

DepthIn(tree, s) ==
  LET at[k \in Nat] == IF k = 0 THEN {tree.order[1]}
                       ELSE {c \in DOMAIN tree.parent \ UNION {at[j] : j \in 0..(k - 1)} : tree.parent[c] \in at[k - 1]}
      depths == {k \in 0..Len(tree.order) : s \in at[k]}
  IN IF depths = {} THEN Len(tree.order) ELSE Min(depths)
\* _sessions_parents_first
SessionsParentsFirst(tree) ==
  FlattenSeq([k \in 1..(Len(tree.order) + 1) |-> SelectSeq(tree.order, LAMBDA s : DepthIn(tree, s) = k - 1)])

EpisodesOf(tree, s) == IF s \in tree.estimated THEN <<>> ELSE tree.spawns[s]
\* attach_delegation: 0 if no episode is known to have spawned it
SpawnedBy(episodes, s) ==
  LET by == {k \in DOMAIN episodes : s \in episodes[k]} IN IF by = {} THEN 0 ELSE Min(by)
\* annotate_trace: which episode of its parent the tasks of each session belong to
Delegations(tree) ==
  FoldLeft(LAMBDA acc, s :
             [known |-> acc.known \union {s},
              of |-> [acc.of EXCEPT ![s] = IF s \in tree.estimated \/ s \notin DOMAIN tree.parent \/ tree.parent[s] \notin acc.known THEN 0
                                           ELSE SpawnedBy(EpisodesOf(tree, tree.parent[s]), s)]],
           [known |-> {}, of |-> [s \in ToSet(tree.order) |-> 0]], SessionsParentsFirst(tree)).of

-----------------------------------------------------------------------------
(* Turns, tasks and episodes.                                              *)

Verifiers == {"corrects", "extends"}
\* _relationship_answers: a turn is compared with all that was asked for before it
RelationshipRounds(turns) ==
  LET candidates == SelectSeq(turns, LAMBDA t : t.kind \in {"user", "delegation"})
      Round(k) ==
        LET says == candidates[k].says
            sure == says["identity"] \notin {None, "other", "unclear"}
        IN [turn |-> candidates[k].id, ledger |-> [j \in 1..(k - 1) |-> candidates[j].id],
            values |-> Given(says, {"identity"} \union (IF sure THEN Verifiers ELSE {}))]
  IN [k \in 1..(Len(candidates) - 1) |-> Round(k + 1)]

\* _task_features: families first, then subtypes of those that are likely
Subtypes == UNION {Routing[f] : f \in DOMAIN Routing}
TaskValues(task) ==
  LET first == Given(task.says, DOMAIN task.says \ Subtypes)
      likely == {f \in DOMAIN Routing \intersect DOMAIN first : first[f] \in 5..10}
  IN Given(task.says, DOMAIN first \union UNION {Routing[f] : f \in likely})

\* apply_phase_labels: an investigation that makes what was asked for is production
PhaseOf(values) ==
  IF values["purpose"] \in {"investigate", "orient"} /\ Positive(values, "produces") THEN "produce" ELSE values["purpose"]
PhaseLabels(episode) ==
  [activity |-> IF episode.says["activity"] = None THEN episode.activity ELSE episode.says["activity"],
   purpose |-> IF PhaseOf(episode.says) = None THEN episode.purpose ELSE PhaseOf(episode.says),
   values |-> [episode.says EXCEPT !["purpose"] = PhaseOf(episode.says)]]

-----------------------------------------------------------------------------
(* Failures: [at, events, signal, command, segments, reliable, child,      *)
(* attempts, guidance, says]; events are "tool" or "text".                 *)

\* _failure_context
Around(r, after) ==
  {n \in IF after THEN (r.at + 1)..(r.at + ShownAround) ELSE (r.at - ShownAround)..(r.at - 1) : n \in DOMAIN r.events /\ r.events[n] = "tool"}

FirstFailure == {"named", "rejected", "documented", "generated", "contract", "edit", "attributed", "child", "persisted"}
GuidanceFailure == {"documented", "followed", "generated"}
\* _failure_feature_eligible
Eligible(f, r) ==
  CASE f = "contract" -> ~r.command /\ r.signal = "contract"
    [] f = "edit" -> ~r.command /\ r.signal = "edit"
    [] f = "attributed" -> r.segments > 1 /\ ~r.reliable
    [] f = "child" -> r.child
    [] f = "persisted" -> r.attempts > 0
    [] OTHER -> TRUE
AskedFirst(r) == {f \in FirstFailure : Eligible(f, r) /\ (r.guidance \/ f \notin GuidanceFailure)}

\* Mutant of FollowUps: what a question depends on need not have been asked.
FollowUpsUnasked(r, values) ==
  (IF r.says["named"] \in 7..10 THEN {"matches"} ELSE {}) \union (IF r.says["documented"] \in 7..10 THEN {"followed"} ELSE {})
    \union (IF Around(r, TRUE) = {} THEN {} ELSE {"repeated", "passed"})
FollowUps(r, values) ==
  (IF Positive(values, "named") THEN {"matches"} ELSE {})
    \union (IF Positive(values, "documented") THEN {"followed"} ELSE {})
    \union (IF Around(r, TRUE) = {} THEN {}
            ELSE {"repeated", "passed"}
                   \union (IF r.signal = "cli" \/ Positive(values, "rejected") THEN {"corrected"} ELSE {})
                   \union (IF r.signal \in {"auth", "iam"} THEN {"stopped"} ELSE {}))
\* _failure_features: answers, what cannot be told, and answers to what follows from them
FailureValues(r) ==
  LET first == Given(r.says, AskedFirst(r)) IN
  [first |-> first, hidden |-> FirstFailure \ AskedFirst(r), more |-> Given(r.says, FollowUps(r, first))]

-----------------------------------------------------------------------------
(* Handovers: [request, reply, files, failures, steers]; a text is its     *)
(* name, "" if it is missing or cannot be read; a steer may be a cipher.   *)

Readable(s) == s \notin {"", "cipher"}
HandoverFeatures == {"request.clear", "request.dependency", "reply.next_step", "reply.coverage", "steer.redirects", "parent.used", "child.claims"}
\* _handover_features
Unavailable(f, row) ==
  \/ f \in {"steer.redirects", "parent.used", "child.claims"}
  \/ f \in {"request.clear", "request.dependency", "reply.coverage"} /\ row.request = ""
  \/ f = "request.dependency" /\ row.files = {}
  \/ f \in {"reply.next_step", "reply.coverage"} /\ row.reply = ""
  \/ f = "reply.next_step" /\ row.failures = {}
HandoverAsked(row) == {f \in HandoverFeatures : ~Unavailable(f, row)}
\* what the contract was before each steer that can be read
SteerRounds(row) ==
  LET readable == SelectSeq([n \in DOMAIN row.steers |-> n], LAMBDA n : Readable(row.steers[n])) IN
  IF row.request = "" THEN <<>>
  ELSE [k \in DOMAIN readable |->
         [steer |-> readable[k], text |-> row.steers[readable[k]],
          before |-> <<row.request>> \o [j \in 1..(k - 1) |-> row.steers[readable[j]]]]]

-----------------------------------------------------------------------------
(* Bounded objects, and what is expected of them.                          *)

Trees ==
  {[what |-> "tree", order |-> <<1, 2, 3, 4>>, parent |-> p, estimated |-> e, spawns |-> [s \in 1..4 |-> sp]] :
     p \in UNION {[D -> 1..4] : D \in {{2, 3, 4}, {3, 4}}}, e \in {{}, {3}}, sp \in {<<>>, <<{2}, {2, 3, 4}>>, <<{3}>>}}
Conversations ==
  {[what |-> "turns", turns |-> [n \in 1..3 |-> [id |-> n, kind |-> k[n], says |-> [identity |-> i[n], corrects |-> 8, extends |-> None]]]] :
     k \in [1..3 -> {"user", "injected"}], i \in [1..3 -> {None, "other", "same"}]}
TaskObjects ==
  {[what |-> "task", says |-> [f |-> x, g |-> y, a |-> 1, b |-> 1, breadth |-> 3]] : x, y \in {None, 4, 5}}
EpisodeObjects ==
  {[what |-> "episode", activity |-> "old", purpose |-> "old", says |-> [purpose |-> p, produces |-> v, activity |-> a]] :
     p \in {None, "investigate", "produce", "verify"}, v \in {None, 6, 7}, a \in {None, "edit"}}
FailureObjects ==
  {[what |-> "failure", at |-> 2, events |-> <<"tool", "tool", e[1], e[2], e[3]>>, signal |-> s, command |-> c, segments |-> 2, reliable |-> c,
    child |-> c, attempts |-> 0, guidance |-> g,
    says |-> [f \in FirstFailure \union {"followed", "matches", "repeated", "passed", "corrected", "stopped"} |->
                IF f = "named" THEN v[1] ELSE IF f = "documented" THEN v[2] ELSE IF f = "rejected" THEN v[3] ELSE 8]] :
     e \in [1..3 -> {"tool", "text"}], s \in {"", "contract", "cli", "auth"}, c \in BOOLEAN, g \in BOOLEAN, v \in [1..3 -> {None, 6, 7}]}
HandoverObjects ==
  {[what |-> "handover", request |-> q, reply |-> r, files |-> f, failures |-> {}, steers |-> s] :
     q, r \in {"", "text"}, f \in {{}, {"file"}}, s \in UNION {[1..n -> {"", "cipher", "more"}] : n \in 0..3}}
AskedAbout == Trees \union Conversations \union TaskObjects \union EpisodeObjects \union FailureObjects \union HandoverObjects

Ancestors(tree, s) ==
  LET up[k \in Nat] == IF k = 0 THEN {s} ELSE up[k - 1] \union {tree.parent[c] : c \in up[k - 1] \intersect DOMAIN tree.parent}
  IN up[Len(tree.order)]

\* Wherever a child stands among the links, its parent is annotated before it, so that what an
\* episode spawned is found; a session on a circle of links is annotated, too, once.
TreeHolds(tree) ==
  LET order == SessionsParentsFirst(tree)
      place == [s \in ToSet(tree.order) |-> IndexFirstSubSeq(<<s>>, order)]
  IN /\ Len(order) = Len(tree.order) /\ ToSet(order) = ToSet(tree.order)
     /\ \A s \in DOMAIN tree.parent : 1 \in Ancestors(tree, s) =>
          LET p == tree.parent[s] IN
          /\ place[p] < place[s]
          /\ Delegations(tree)[s] # 0 <=> s \notin tree.estimated /\ p \notin tree.estimated /\ \E k \in DOMAIN tree.spawns[p] : s \in tree.spawns[p][k]

\* What presumes an answer is asked only after it: about a recipe only if guidance was there,
\* about a recovery only if something was done after the failure; and each question has its place.
FailureHolds(r) ==
  LET v == FailureValues(r) IN
  /\ DOMAIN v.first \union v.hidden = FirstFailure /\ DOMAIN v.first \intersect v.hidden = {}
  /\ "followed" \in DOMAIN v.more => r.guidance /\ v.first["documented"] >= 7
  /\ {"repeated", "passed", "corrected", "stopped"} \intersect DOMAIN v.more # {} => \E n \in DOMAIN r.events : n > r.at /\ n <= r.at + ShownAround /\ r.events[n] = "tool"
  /\ Around(r, TRUE) \intersect Around(r, FALSE) = {} /\ r.at \notin Around(r, TRUE) \union Around(r, FALSE)

\* Each object is asked what can be told of it, and each answer stands for what was shown.
RoundsHold(o) ==
  /\ o.what = "tree" => TreeHolds(o)
  /\ o.what = "failure" => FailureHolds(o)
  /\ o.what = "turns" =>
       \A k \in DOMAIN RelationshipRounds(o.turns) :
         LET round == RelationshipRounds(o.turns)[k] IN
         /\ ToSet(round.ledger) = {t.id : t \in {s \in ToSet(o.turns) : s.id < round.turn /\ s.kind # "injected"}}
         /\ DOMAIN round.values # {"identity"} => round.values["identity"] = "same"
  /\ o.what = "task" => \A s \in Subtypes : s \in DOMAIN TaskValues(o) => \E f \in DOMAIN Routing : s \in Routing[f] /\ o.says[f] \in 5..10
  /\ o.what = "episode" =>
       /\ PhaseLabels(o).purpose = "investigate" => ~Positive(o.says, "produces")
       /\ PhaseLabels(o).values["purpose"] \in {None, PhaseLabels(o).purpose}
  /\ o.what = "handover" =>
       /\ o.request = "" => HandoverAsked(o) \subseteq {"reply.next_step"}
       /\ \A k \in DOMAIN SteerRounds(o) : ToSet(SteerRounds(o)[k].before) \subseteq {"text", "more"}
       /\ \A k \in 1..(Len(SteerRounds(o)) - 1) : SteerRounds(o)[k + 1].before = Append(SteerRounds(o)[k].before, SteerRounds(o)[k].text)
=============================================================================
