---------------------------- MODULE TraceStructure ----------------------------
(***************************************************************************)
(* How a session becomes turns, tasks and episodes: canonical.build_turns, *)
(* structure/tasks.py, ledger.py, episodes.py and facts.py.                *)
(*                                                                         *)
(* A trace is a sequence of events; an event's position is its idx plus 1. *)
(* An event is a record of what the stages tell apart:                     *)
(*   kind  the EventKind                hint  the role hint of a user_msg  *)
(*   text  an instruction, or None      op    the op_kind, or None         *)
(*   path  the artifact, or None        sig   the normalised command       *)
(*   call  the call_id, or None         ok    "yes", "no" or "unknown"     *)
(*   test  is_test_like                 final phase = final_answer         *)
(*   usage it carries usage             imp   its text names an impediment *)
(*   size  its estimated tokens         late  an idle gap precedes it      *)
(* A response id is the position of the event that carries its usage.      *)
(***************************************************************************)
EXTENDS Integers, SequencesExt

CONSTANTS MaxModelCalls,     \* config.structure.episodes.max_model_calls
          StateTokenBudget,  \* config.structure.episodes.state_token_budget
          ReadsBeforeEdit,   \* config.structure.episodes.reads_before_edit_boundary
          AmendmentCap,      \* AMENDMENT_CAP
          None               \* Python's None

ReadOps == {"cmd.read", "cmd.search", "cmd.list"}
PathReads == ReadOps \ {"cmd.list"}
EditOps == {"file.edit", "file.write", "file.delete"}
SpawnOps == {"agent.spawn", "agent.wait"}

EventsInRange(es, first, last) == SubSeq(es, Max({1, first}), Min({Len(es), last}))
Some(es, P(_)) == \E i \in DOMAIN es : P(es[i])
Count(es, P(_)) == Cardinality({i \in DOMAIN es : P(es[i])})
IsCall(e) == e.kind = "tool_call"
IsResult(e) == e.kind = "tool_result"
IsEdit(e) == IsCall(e) /\ e.op \in EditOps
IsFailed(e) == e.ok = "no"
OpKinds(es) == {es[i].op : i \in {j \in DOMAIN es : IsCall(es[j])}} \ {None}

-----------------------------------------------------------------------------
(* Turns.  acc.turns holds the turns so far, the open one last; acc.from is  *)
(* where the open model call starts, 0 for None.                             *)

CloseCall(es, acc, to, billed) ==
  IF acc.turns = <<>> \/ acc.from = 0 THEN [acc EXCEPT !.from = 0]
  ELSE LET call == [first |-> acc.from, last |-> to, turn |-> Len(acc.turns), billed |-> billed,
                    response |-> IF to \in DOMAIN es /\ es[to].usage THEN to ELSE 0]
       IN [turns |-> [acc.turns EXCEPT ![Len(acc.turns)].calls = Append(@, call)], from |-> 0]

OpenTurn(es, acc, i) ==
  LET n == Len(acc.turns)
      closed == CloseCall(es, acc, i - 1, FALSE).turns
      before == IF n = 0 THEN <<>>
                ELSE [closed EXCEPT ![n].last = Max({closed[n].first, i - 1}),
                                    ![n].status = IF closed[n].status = "open" THEN "completed" ELSE closed[n].status]
  IN [turns |-> Append(before, [first |-> i, last |-> i, kind |-> es[i].hint, text |-> es[i].text,
                                status |-> "open", calls |-> <<>>, final |-> FALSE, compactions |-> 0]),
      from |-> i]

\* Mutant of Continue: usage starts the next call at its own event.
ContinueOverlapping(es, acc, i) ==
  LET grown == [acc EXCEPT !.turns[Len(acc.turns)].last = i] IN
  IF es[i].usage THEN [CloseCall(es, grown, i, TRUE) EXCEPT !.from = i] ELSE grown

Continue(es, acc, i) ==
  LET n == Len(acc.turns)
      e == es[i]
      grown == [acc EXCEPT !.turns[n].last = i,
                           !.turns[n].compactions = @ + (IF e.kind = "compaction" THEN 1 ELSE 0),
                           !.turns[n].final = @ \/ e.final,
                           !.turns[n].status = IF e.final THEN "completed" ELSE @]
  IN IF e.usage THEN [CloseCall(es, grown, i, TRUE) EXCEPT !.from = i + 1] ELSE grown

TakeEvent(es, acc, i) ==
  IF es[i].kind = "user_msg"
  THEN IF es[i].hint = "injected" THEN acc ELSE OpenTurn(es, acc, i)
  ELSE IF acc.turns = <<>> THEN acc ELSE Continue(es, acc, i)

\* build_turns
BuildTurns(es) ==
  LET acc == FoldLeftDomain(LAMBDA a, i : TakeEvent(es, a, i), [turns |-> <<>>, from |-> 0], es)
      n == Len(acc.turns)
  IN IF n = 0 THEN <<>>
     ELSE LET ended == IF acc.from \in 1..Len(es) THEN CloseCall(es, acc, Len(es), FALSE).turns ELSE acc.turns
          IN [ended EXCEPT ![n].last = Len(es)]

-----------------------------------------------------------------------------
(* Ledgers and tasks.  A task names its turns by their numbers.              *)

EmptyLedger == [request |-> None, amendments |-> <<>>, artifacts |-> {}, answered |-> FALSE,
                status |-> "open", tests |-> <<>>]

KeepLast(s, n) == SubSeq(s, Max({1, Len(s) - n + 1}), Len(s))

UpdateLedger(es, ledger, turn) ==
  LET evs == EventsInRange(es, turn.first, turn.last)
      outcomes == SelectSeq(evs, LAMBDA e : e.test /\ (IsResult(e) \/ (IsCall(e) /\ e.ok # "unknown")))
  IN [request |-> IF ledger.request = None THEN turn.text ELSE ledger.request,
      amendments |-> IF turn.text = None \/ ledger.request \in {None, turn.text} \/ Contains(ledger.amendments, turn.text)
                     THEN ledger.amendments
                     ELSE KeepLast(Append(ledger.amendments, turn.text), AmendmentCap),
      artifacts |-> ledger.artifacts \union ({evs[i].path : i \in DOMAIN evs} \ {None}),
      answered |-> ledger.answered \/ turn.final \/ Some(evs, LAMBDA e : e.final),
      status |-> CASE turn.status = "completed" -> "answered" [] OTHER -> turn.status,
      tests |-> ledger.tests \o [i \in DOMAIN outcomes |-> [sig |-> outcomes[i].sig, ok |-> outcomes[i].ok]]]

LedgerOf(es, turns, numbers) ==
  FoldLeft(LAMBDA ledger, n : UpdateLedger(es, ledger, turns[n]), EmptyLedger, numbers)

InitiatorOf(turn) ==
  CASE turn.kind = "delegation" -> "parent_agent"
    [] turn.kind = "user"       -> "human"
    [] turn.kind = "injected"   -> "harness"
    [] OTHER                    -> "unknown"

\* map_relationship_edge; an answer that is missing counts as "unclear" or as no
RelationshipEdge(a) ==
  CASE a.identity = "same_deliverable"     -> [edge |-> IF a.corrects THEN "corrects" ELSE "continues", confidence |-> "high"]
    [] a.identity = "distinct_deliverable" ->
         [edge |-> IF a.references THEN "depends_on" ELSE IF a.component THEN "sibling_same_area" ELSE "unrelated",
          confidence |-> "high"]
    [] OTHER                               -> [edge |-> "continues", confidence |-> "low"]

Numbers(s) == [i \in DOMAIN s |-> i]
CandidateTurns(turns) == SelectSeq(Numbers(turns), LAMBDA n : turns[n].kind \in {"user", "delegation"})

\* segment_tasks with semantic_mode "off"
OneTask(es, turns) ==
  LET candidates == CandidateTurns(turns)
      first == IF candidates # <<>> THEN candidates ELSE Numbers(turns)
  IN << [turns |-> Numbers(turns), edge |-> None,
         initiator |-> IF first = <<>> THEN "unknown" ELSE InitiatorOf(turns[first[1]]),
         ledger |-> LedgerOf(es, turns, Numbers(turns))] >>

\* segment_tasks otherwise: a task per candidate; the turns between two candidates
\* belong to the former, those before the first candidate to the first
TaskPerCandidate(es, turns, answers) ==
  LET c == CandidateTurns(turns)
      Owner(n) == Max({1} \union {k \in DOMAIN c : c[k] <= n})
  IN [k \in DOMAIN c |->
        [turns |-> SelectSeq(Numbers(turns), LAMBDA n : Owner(n) = k),
         edge |-> IF k = 1 THEN None ELSE RelationshipEdge(answers[c[k]]),
         initiator |-> InitiatorOf(turns[c[k]]),
         ledger |-> LedgerOf(es, turns, <<c[k]>>)]]

SegmentTasks(es, turns, semantic, answers) ==
  IF semantic = "off" THEN OneTask(es, turns) ELSE TaskPerCandidate(es, turns, answers)

-----------------------------------------------------------------------------
(* Episodes.                                                                 *)

ModelCalls(turns) == FlattenSeq([n \in DOMAIN turns |-> turns[n].calls])
CallEvents(es, call) == EventsInRange(es, call.first, call.last)
CallTokens(es, call) ==
  LET evs == CallEvents(es, call) IN Max({1, FoldLeft(LAMBDA sum, e : sum + e.size, 0, evs)})

IsReadSearchOnly(evs) ==
  /\ OpKinds(evs) # {}
  /\ OpKinds(evs) \subseteq ReadOps
  /\ ~Some(evs, LAMBDA e : e.test)

TriggerOf(turn, firstInTurn, prev) ==
  CASE firstInTurn /\ turn.kind = "delegation"  -> "delegated_request"
    [] firstInTurn /\ turn.kind = "user"        -> "user_request"
    [] firstInTurn /\ turn.kind = "injected"    -> "harness"
    [] firstInTurn                              -> "other"
    [] Some(prev, LAMBDA e : e.imp)             -> "recovery"
    [] Some(prev, IsFailed)                     -> "observed_failure"
    [] "plan.update" \in OpKinds(prev)          -> "plan_step"
    [] prev # <<>>                              -> "prior_result"
    [] OTHER                                    -> "other"

\* an idle gap lies between two calls; both have their times from their events
IdleGapBefore(es, call) == call.first \in DOMAIN es /\ es[call.first].late

\* _termination_after, for the call k of calls
TerminationAfter(es, calls, k, reads, pendingEdit) ==
  LET evs == CallEvents(es, calls[k])
      ops == OpKinds(evs)
      edits == ops \intersect EditOps # {}
  IN CASE k < Len(calls) /\ calls[k + 1].turn # calls[k].turn               -> "user_turn"
       [] Some(evs, LAMBDA e : e.final)                                     -> "final_answer"
       [] Some(evs, LAMBDA e : e.kind = "compaction")                       -> "compaction"
       [] ops \intersect SpawnOps # {}                                      -> "spawn_or_wait"
       [] edits /\ reads >= ReadsBeforeEdit                                 -> "phase_shift_edit"
       [] Some(evs, LAMBDA e : e.test) /\ (pendingEdit \/ edits)            -> "phase_shift_test"
       [] k < Len(calls) /\ IdleGapBefore(es, calls[k + 1])                 -> "idle_gap"
       [] OTHER                                                             -> None

\* _emit
Emit(acc, calls, termination, trigger) ==
  LET from == acc.current[1] to == Last(acc.current) IN
  [acc EXCEPT !.episodes = Append(@, [calls |-> acc.current, turn |-> calls[from].turn,
                                      first |-> calls[from].first, last |-> calls[to].last,
                                      trigger |-> trigger, termination |-> termination, tokens |-> acc.tokens]),
              !.current = <<>>, !.tokens = 0]

\* the cap before a call is added: the group's trigger is computed again, as of a first group
CapBefore(es, turns, calls, acc, k) ==
  IF acc.current # <<>> /\ (\/ Len(acc.current) + 1 > MaxModelCalls
                            \/ acc.tokens + CallTokens(es, calls[k]) > StateTokenBudget)
  THEN [Emit(acc, calls, "cap_split", TriggerOf(turns[calls[acc.current[1]].turn], TRUE, acc.prev))
          EXCEPT !.prev = CallEvents(es, calls[Last(acc.current)])]
  ELSE acc

\* one pass of the loop of segment_episodes
TakeCall(es, turns, calls, before, k) ==
  LET call == calls[k]
      evs == CallEvents(es, call)
      acc == CapBefore(es, turns, calls, before, k)
      firstInTurn == acc.episodes = <<>> \/ Last(acc.episodes).turn # call.turn
      trigger == IF acc.current = <<>> THEN TriggerOf(turns[call.turn], firstInTurn, acc.prev) ELSE acc.trigger
      grown == [acc EXCEPT !.current = Append(@, k), !.tokens = @ + CallTokens(es, call), !.trigger = trigger]
      found == TerminationAfter(es, calls, k, acc.reads, acc.pendingEdit)
      full == \/ Len(grown.current) >= MaxModelCalls
              \/ grown.tokens > StateTokenBudget /\ Len(grown.current) > 1
      termination == CASE found # None    -> found
                       [] k = Len(calls)  -> "end_of_file"
                       [] full            -> "cap_split"
                       [] OTHER           -> None
      counted == [grown EXCEPT
                    !.reads = IF IsReadSearchOnly(evs) THEN @ + 1 ELSE IF Some(evs, IsCall) THEN 0 ELSE @,
                    !.pendingEdit = /\ ~Some(evs, LAMBDA e : e.test)
                                    /\ @ \/ OpKinds(evs) \intersect EditOps # {}]
  IN IF termination = None THEN counted
     ELSE [Emit(counted, calls, termination, trigger) EXCEPT !.prev = evs]

\* segment_episodes
SegmentEpisodes(es, turns) ==
  LET calls == ModelCalls(turns)
      start == [episodes |-> <<>>, current |-> <<>>, tokens |-> 0, reads |-> 0, pendingEdit |-> FALSE,
                prev |-> <<>>, trigger |-> "other"]
  IN FoldLeftDomain(LAMBDA acc, k : TakeCall(es, turns, calls, acc, k), start, calls).episodes

\* _task_for_turn: the first task with the episode's turn, else the first task
TaskOf(tasks, episode) ==
  LET with == {k \in DOMAIN tasks : Contains(tasks[k].turns, episode.turn)} 
  IN IF with = {} THEN Min({1, Len(tasks)}) ELSE Min(with)

\* group_display_runs: neighbours with one key, by their positions
DisplayRuns(keys) ==
  FoldLeftDomain(LAMBDA runs, k : IF k > 1 /\ keys[k - 1] = keys[k] THEN [runs EXCEPT ![Len(runs)] = Append(@, k)]
                                  ELSE Append(runs, <<k>>),
                 <<>>, keys)

\* attach_delegation: the first parent atom that names the child's thread, 0 if none does;
\* spawned[k] are the thread ids that the k-th parent atom started
SpawnedBy(spawned, thread) ==
  LET with == {k \in DOMAIN spawned : thread \in spawned[k]} IN IF with = {} THEN 0 ELSE Min(with)

-----------------------------------------------------------------------------
(* The facts of an atom: evs are its events, history those before it.        *)

Signatures(es, P(_)) == {es[i].sig : i \in {j \in DOMAIN es : P(es[j])}}

FailureSignatureRepeats(evs, history) ==
  LET sigs == Signatures(evs, IsFailed) IN Count(history, LAMBDA e : IsFailed(e) /\ e.sig \in sigs)

RepeatedOps(evs, history) ==
  Cardinality({i \in DOMAIN evs : /\ IsCall(evs[i])
                                  /\ \/ evs[i].sig \in Signatures(history, IsCall)
                                     \/ \E j \in 1..(i - 1) : IsCall(evs[j]) /\ evs[j].sig = evs[i].sig})

\* _paths_reread_unchanged: one pass over history and episode with two sets of paths
PathsRereadUnchanged(evs, history) ==
  LET all == history \o evs
      See(acc, i) ==
        LET e == all[i] IN
        CASE ~IsCall(e) \/ e.path = None -> acc
          [] IsEdit(e)                   -> [acc EXCEPT !.edited = @ \union {e.path}]
          [] e.op \in PathReads          ->
               [read |-> acc.read \union {e.path}, edited |-> acc.edited \ {e.path},
                hits |-> acc.hits + (IF i > Len(history) /\ e.path \in acc.read \ acc.edited THEN 1 ELSE 0)]
          [] OTHER                       -> acc
  IN FoldLeftDomain(See, [read |-> {}, edited |-> {}, hits |-> 0], all).hits

EditsWithoutSubsequentTest(evs) ==
  FoldLeft(LAMBDA pending, e : IF e.test THEN 0 ELSE pending + (IF IsEdit(e) THEN 1 ELSE 0), 0, evs)

Outcomes(evs) == SelectSeq(evs, LAMBDA e : IsResult(e) /\ e.ok # "unknown")

ErrorKinds(evs) ==
  {IF e.test THEN "test_failure" ELSE "other" : e \in {evs[i] : i \in {j \in DOMAIN evs : IsFailed(evs[j])}}}

\* episode_facts
EpisodeFacts(es, episode) ==
  LET evs == EventsInRange(es, episode.first, episode.last)
      history == SubSeq(es, 1, episode.first - 1)
      outcomes == Outcomes(evs)
  IN [failureRepeats |-> FailureSignatureRepeats(evs, history),
      repeats |-> RepeatedOps(evs, history),
      rereads |-> PathsRereadUnchanged(evs, history),
      pathsRead |-> {evs[i].path : i \in {j \in DOMAIN evs : IsCall(evs[j]) /\ evs[j].op \in PathReads}} \ {None},
      edits |-> Count(evs, IsEdit),
      untested |-> EditsWithoutSubsequentTest(evs),
      testsRun |-> Count(outcomes, LAMBDA e : e.test),
      testsFailed |-> Count(outcomes, LAMBDA e : e.test /\ e.ok = "no"),
      outstandingFailure |-> outcomes # <<>> /\ Last(outcomes).ok = "no",
      errorKinds |-> ErrorKinds(evs),
      impediment |-> Some(evs, LAMBDA e : IsFailed(e) /\ e.imp),
      afterCompaction |-> Some(history, LAMBDA e : e.kind = "compaction"),
      verified |-> Some(outcomes, LAMBDA e : e.test /\ e.ok = "yes")]
=============================================================================
