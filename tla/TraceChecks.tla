------------------------------ MODULE TraceChecks ------------------------------
(***************************************************************************)
(* What is expected of the operators on decoded traces, and the events     *)
(* that bounded traces are made of.  A trace is a sequence of events of    *)
(* one vocabulary; a property is an operator on a trace.                   *)
(***************************************************************************)
EXTENDS Integers, SequencesExt

CONSTANT None

Base == [kind |-> "tool_call", hint |-> None, text |-> None, op |-> None, path |-> None, sig |-> None, call |-> None,
         ok |-> "unknown", test |-> FALSE, final |-> FALSE, usage |-> FALSE, imp |-> FALSE, size |-> 1, late |-> FALSE,
         tool |-> "sh", diag |-> None]
With(base, change) == [f \in DOMAIN base |-> IF f \in DOMAIN change THEN change[f] ELSE base[f]]
Of(change) == With(Base, change)
User(hint, text) == Of([kind |-> "user_msg", hint |-> hint, text |-> text])
Positions(s) == [i \in DOMAIN s |-> i]
Where(es, P(_)) == {i \in DOMAIN es : P(es[i])}
Disjoint(sets) == \A i, j \in DOMAIN sets : i # j => sets[i] \intersect sets[j] = {}

-----------------------------------------------------------------------------
(* Turns, model calls, atoms, tasks (TraceStructure).                        *)

S == INSTANCE Digest WITH MaxModelCalls <- 2, StateTokenBudget <- 3, ReadsBeforeEdit <- 1, AmendmentCap <- 1,
                          OpCap <- 2, MessageCap <- 1, PrecedingCap <- 2

StructureEvents ==
  {User("user", "a"), User("delegation", "b"), User("injected", "c"),
   Of([usage |-> TRUE, kind |-> "meta"]),
   Of([op |-> "cmd.read", path |-> "p", sig |-> "cat", size |-> 2]),
   Of([op |-> "file.edit", path |-> "p", sig |-> "ed", late |-> TRUE]),
   Of([kind |-> "tool_result", ok |-> "no", sig |-> "ed", usage |-> TRUE, imp |-> TRUE]),
   Of([kind |-> "assistant_msg", final |-> TRUE, text |-> "d"]),
   Of([kind |-> "compaction"])}

Turns(es) == S!BuildTurns(es)
Covered(r) == r.first..r.last
\* ranges follow each other without a gap, from one position to another
Tile(ranges, from, to) ==
  IF ranges = <<>> THEN from = to + 1
  ELSE /\ ranges[1].first = from /\ Last(ranges).last = to
       /\ \A n \in 1..(Len(ranges) - 1) : ranges[n + 1].first = ranges[n].last + 1

\* Turns cover what comes after the first message that opens one, in order and without
\* overlap, and within a turn the model calls do.
TurnsTile(es) ==
  LET opening == Where(es, LAMBDA e : e.kind = "user_msg" /\ e.hint # "injected")
      T == Turns(es)
  IN IF opening = {} THEN T = <<>>
     ELSE /\ Tile(T, Min(opening), Len(es))
          /\ {T[n].first : n \in DOMAIN T} = opening
          /\ \A n \in DOMAIN T : Tile(T[n].calls, T[n].first, T[n].last)

\* A record of usage inside a turn bills one call, which it ends; a call without is not billed.
UsageBillsOnce(es) ==
  LET calls == S!ModelCalls(Turns(es))
      billed == {k \in DOMAIN calls : calls[k].billed}
      inTurns == {i \in Where(es, LAMBDA e : e.usage) : \E n \in DOMAIN Turns(es) : i \in Covered(Turns(es)[n])}
  IN /\ {calls[k].last : k \in billed} = inTurns
     /\ \A j, k \in billed : j # k => calls[j].last # calls[k].last
     /\ \A k \in billed : Covered(calls[k]) # {}

\* Atoms are made of all calls in their order; one atom stays in one turn and within the
\* caps, unless a single call exceeds them; it is of the user only where a turn begins.
\* Grouped for display they keep their order, and neighbouring groups differ.
AtomsTile(es) ==
  LET T == Turns(es)
      calls == S!ModelCalls(T)
      atoms == S!SegmentEpisodes(es, T)
      runs == S!DisplayRuns([k \in DOMAIN atoms |-> atoms[k].trigger])
      TriggersOf(run) == {atoms[k].trigger : k \in ToSet(run)}
  IN /\ FlattenSeq([k \in DOMAIN atoms |-> atoms[k].calls]) = Positions(calls)
     /\ FlattenSeq(runs) = Positions(atoms)
     /\ \A r \in DOMAIN runs : /\ Cardinality(TriggersOf(runs[r])) = 1
                             /\ r > 1 => TriggersOf(runs[r]) # TriggersOf(runs[r - 1])
     /\ \A k \in DOMAIN atoms :
          LET a == atoms[k] IN
          /\ \A c \in ToSet(a.calls) : calls[c].turn = a.turn
          /\ Len(a.calls) <= 2 /\ (a.tokens > 3 => Len(a.calls) = 1)
          /\ a.trigger \in {"user_request", "delegated_request"} /\ a.termination # "cap_split"
               => \A j \in 1..(k - 1) : atoms[j].turn # a.turn

\* Every turn belongs to exactly one task, whichever way tasks are found; a ledger keeps
\* as many amendments as its cap and never the request itself.
TasksPartition(es) ==
  LET T == Turns(es)
      answers == [n \in DOMAIN T |-> [identity |-> "distinct_deliverable", corrects |-> FALSE, references |-> FALSE, component |-> FALSE]]
      Fine(tasks) ==
        /\ Len(FlattenSeq([k \in DOMAIN tasks |-> tasks[k].turns])) = Len(T)
        /\ UNION {ToSet(tasks[k].turns) : k \in DOMAIN tasks} = DOMAIN T
        /\ \A k \in DOMAIN tasks : /\ Len(tasks[k].ledger.amendments) <= 1
                                   /\ tasks[k].ledger.request \notin ToSet(tasks[k].ledger.amendments)
  IN Fine(S!SegmentTasks(es, T, "off", answers)) /\ Fine(S!SegmentTasks(es, T, "on", answers))

StructureHolds(es) == TurnsTile(es) /\ UsageBillsOnce(es) /\ AtomsTile(es) /\ TasksPartition(es)

-----------------------------------------------------------------------------
(* Facts and digests of atoms (TraceStructure, Digest).                      *)

Request == <<User("user", "a")>>
AtomEvents ==
  {Of([op |-> "cmd.read", path |-> "p", sig |-> "cat"]),
   Of([op |-> "cmd.read", path |-> "q", sig |-> "cat", call |-> "x"]),
   Of([op |-> "file.edit", path |-> "p", sig |-> "ed", call |-> "x"]),
   Of([kind |-> "tool_result", ok |-> "no", sig |-> "ed", call |-> "x", op |-> "file.edit"]),
   Of([kind |-> "tool_result", ok |-> "yes", sig |-> "ed", call |-> "x", op |-> "file.edit", usage |-> TRUE]),
   Of([sig |-> "pytest", op |-> "cmd.run", call |-> "y", test |-> TRUE]),
   Of([kind |-> "tool_result", ok |-> "no", sig |-> "pytest", op |-> "cmd.run", call |-> "y", test |-> TRUE]),
   Of([kind |-> "assistant_msg", text |-> "d", usage |-> TRUE])}

\* Wherever an atom begins, a path counts as read again in vain exactly if it was read
\* before and not edited since, and edits as untested exactly if no test comes with or after them.
FactsAgree(es) ==
  LET Read(i) == es[i].kind = "tool_call" /\ es[i].op = "cmd.read"
      Edit(i) == es[i].kind = "tool_call" /\ es[i].op = "file.edit"
      Again(i) == Read(i) /\ \E j \in 1..(i - 1) : /\ Read(j) /\ es[j].path = es[i].path
                                                   /\ \A m \in j..i : ~(Edit(m) /\ es[m].path = es[i].path)
      Untested(i) == Edit(i) /\ \A m \in i..Len(es) : ~es[m].test
  IN \A k \in 0..Len(es) :
       LET facts == S!EpisodeFacts(es, [first |-> k + 1, last |-> Len(es)])
           later == (k + 1)..Len(es)
       IN /\ facts.rereads = Cardinality({i \in later : Again(i)})
          /\ facts.untested = Cardinality({i \in later : Untested(i)})
          /\ facts.verified => facts.testsRun > facts.testsFailed

\* A digest lists each call of its atom once and in order, with the outcome of its last
\* result, and the result of a listed call not on its own; what does not fit is counted.
DigestListsCalls(es) ==
  LET atoms == S!SegmentEpisodes(es, Turns(es))
      Fine(a) ==
        LET evs == S!EventsInRange(es, a.first, a.last)
            merged == S!MergedOps(evs)
            full == S!FullDigest(es, S!EmptyLedger, a)
            calls == Where(evs, LAMBDA e : e.kind = "tool_call")
            results(i) == {j \in DOMAIN evs : evs[j].kind = "tool_result" /\ evs[j].call = evs[i].call /\ evs[i].call # None}
            Size(d, round) == Len(d.ops) + Len(d.messages) + 1 - round
            sizes == <<Size(full, 0), Size(S!Shortened(full), 1), Size(S!Shortened(full), 2)>>
        IN /\ {i \in ToSet(merged.at) : evs[i].kind = "tool_call"} = calls
           /\ \A k \in 1..(Len(merged.at) - 1) : merged.at[k] < merged.at[k + 1]
           /\ \A k \in DOMAIN merged.at :
                LET i == merged.at[k] IN
                IF i \in calls THEN results(i) # {} => merged.ops[k].ok = evs[Max(results(i))].ok
                ELSE \A j \in 1..(i - 1) : evs[j].call # evs[i].call
           /\ Len(full.ops) + full.omitted = Len(merged.at) /\ Len(full.ops) <= 2
           /\ full.counts.failed <= full.counts.ops
           /\ \A budget \in 0..3 : LET d == S!Shrink(full, budget, sizes) IN
                d.empty \/ Len(d.ops) + d.omitted = full.counts.ops
  IN \A k \in DOMAIN atoms : Fine(atoms[k])

AtomsHold(es) == FactsAgree(es) /\ DigestListsCalls(es)

-----------------------------------------------------------------------------
(* Failures (FailureRecords).                                                *)

F == INSTANCE FailureRecords

FailureEvents ==
  {Of([call |-> "x", sig |-> "make"]), Of([call |-> "y", sig |-> "make"]), Of([call |-> "z", sig |-> "ls"]),
   Of([kind |-> "tool_result", call |-> "x", ok |-> "no", diag |-> "d"]),
   Of([kind |-> "tool_result", call |-> "x", ok |-> "yes"]),
   Of([kind |-> "tool_result", call |-> "y", ok |-> "no", diag |-> "d"]),
   Of([kind |-> "tool_result", call |-> "y", ok |-> "unknown"]),
   Of([kind |-> "tool_result", call |-> "z", ok |-> "no", diag |-> "d"])}

\* Failed results share an incident exactly if command and diagnostic agree and the command
\* did not succeed in between; a failure ends its session only if no call follows it.
IncidentsHold(es) ==
  LET incident == F!Incidents(es)
      failed == F!FailedAt(es)
      Succeeds(i, j) == \E m \in i..j : /\ es[m].kind = "tool_result" /\ es[m].ok = "yes"
                                        /\ F!CommandOf(es, DOMAIN es, m) = F!CommandOf(es, DOMAIN es, i)
      Stops(i) == \A m \in i..Len(es) : es[m].kind # "tool_call"
  IN /\ \A i, j \in failed : i < j =>
          ((incident[i] = incident[j]) <=> (F!SignatureOf(es, i) = F!SignatureOf(es, j) /\ ~Succeeds(i, j)))
     /\ \A i \in failed : /\ incident[i] \in failed
                          /\ (F!Recovery(es, i).outcome = "terminal_stop") <=> Stops(i)
                          /\ F!Recovery(es, i).outcome = "success" => F!Recovery(es, i).attempts > 0 /\ Succeeds(i, Len(es))

-----------------------------------------------------------------------------
(* Delegations (Handovers): an event names its session.                      *)

H == INSTANCE Handovers WITH Root <- "root"

Act(session, change) ==
  [session |-> session,
   event |-> With([act |-> "launch", call |-> None, agent |-> None, says |-> "silent", final |-> FALSE, path |-> None,
                   truncated |-> FALSE], change)]
HandoverEvents ==
  {Act("root", [call |-> "1"]), Act("root", [call |-> "2", agent |-> "a"]),
   Act("root", [act |-> "result", call |-> "1", agent |-> "a", says |-> "background"]),
   Act("root", [act |-> "result", call |-> "1", says |-> "done"]),
   Act("root", [act |-> "result", call |-> "2", says |-> "rejected"]),
   Act("root", [act |-> "wait", call |-> "3", agent |-> "a"]),
   Act("root", [act |-> "result", call |-> "3", says |-> "done", truncated |-> TRUE]),
   Act("root", [act |-> "notify", agent |-> "a", says |-> "done"]),
   Act("root", [act |-> "notify", agent |-> "a", says |-> "failed"]),
   Act("root", [act |-> "write", path |-> "p"]), Act("root", [act |-> "message", final |-> TRUE]),
   Act("a", [act |-> "message", final |-> TRUE]), Act("b", [act |-> "write", path |-> "p"])}

Names == {"root", "a", "b"}
Links == [c \in {"a", "b"} |-> [parent |-> "root", kind |-> "spawn", confidence |-> "high"]]

\* A delegation is completed exactly if a final answer was logged for it; two launches have one
\* child only if both named it, and then one of them tells its transcript; an answer that no
\* launch explains is reported.
HandoversHold(es) ==
  LET At(s) == SelectSeq(Positions(es), LAMBDA i : es[i].session = s)
      sessions == [s \in Names |-> [n \in DOMAIN At(s) |-> es[At(s)[n]].event]]
      clock == [s \in Names |-> At(s)]
      rows == H!BuildHandovers(sessions, <<"root", "a", "b">>, Links, <<"a", "b">>, {})
      answered == {c \in {"a", "b"} : \E n \in DOMAIN sessions[c] : sessions[c][n].act = "message"}
  IN /\ \A k \in DOMAIN rows :
          LET r == rows[k] IN
          /\ (r.status = "completed") <=> (H!Logged(r, "final") # {})
          /\ (r.reply = "missing") <=> (H!Logged(r, "final") = {})
          /\ H!Logged(r, "consumption") # {} => r.status = "completed"
          /\ H!ReturnAfterParentFinal(sessions, clock, r) =>
               LET next == H!ParentNextAction(sessions, clock, r) IN next = 0 \/ ~sessions["root"][next].final
     /\ \A k, l \in DOMAIN rows : k # l /\ rows[k].child = rows[l].child /\ rows[k].child # None =>
          /\ rows[k].agent = rows[k].child /\ rows[l].agent = rows[l].child
          /\ ~(rows[k].transcript /\ rows[l].transcript)
     /\ H!OrphanedReturns(sessions, rows, {}) = {c \in answered : ~\E k \in DOMAIN rows : rows[k].transcript /\ rows[k].child = c}
-----------------------------------------------------------------------------
(* Detectors.                                                                *)

SmallKnobs ==
  [rotRatio |-> 2, rotContext |-> 0, taskIntros |-> 2, correctionWindow |-> 2, corrections |-> 2, thrashEdits |-> 2,
   thrashWindow |-> 3, groundWindow |-> 1, rewriteLines |-> 2, stormWindow |-> 2, stormRepeats |-> 2, retryEps |-> 2,
   retries |-> 2, panicWindow |-> 2, denials |-> 2, rateLimits |-> 2, polishEdits |-> 2, newFiles |-> 1, recall |-> 2,
   amnesiaWindow |-> 2, idleGap |-> 1, maxEvents |-> 3, maxTokens |-> 10, maxMinutes |-> 10, coldReads |-> 1,
   slowEvents |-> 1, longEvents |-> 3, longTokens |-> 10, longMinutes |-> 10, bloatTokens |-> 5, monocultureCalls |-> 2,
   monoculturePct |-> 60, diveEvents |-> 3, idleSmell |-> 2, scanSmell |-> 1, scanReads |-> 1]

D == INSTANCE Detectors WITH Knobs <- SmallKnobs

Seen(change) ==
  With([kind |-> "tool_call", cat |-> "execute", op |-> "cmd.run", tool |-> "sh", path |-> None, arts |-> <<>>, key |-> <<>>,
        call |-> None, ok |-> "unknown", err |-> None, exit |-> 0, phase |-> None, says |-> {}, names |-> {}, usage |-> FALSE,
        inp |-> 0, out |-> 0, ts |-> 0, turn |-> None, lines |-> 0, todos |-> 0, done |-> 0], change)
DetectorEvents ==
  {Seen([kind |-> "meta"]),
   Seen([kind |-> "user_msg", says |-> {"correction"}]),
   Seen([kind |-> "assistant_msg", says |-> {"completion", "claim"}]),
   Seen([kind |-> "compaction"]),
   Seen([cat |-> "read", op |-> "cmd.read", tool |-> "read", path |-> <<"d", "p">>]),
   Seen([cat |-> "write", op |-> "file.edit", tool |-> "edit", path |-> <<"d", "p">>]),
   Seen([call |-> "x", key |-> <<1, 2>>]),
   Seen([kind |-> "tool_result", call |-> "x", ok |-> "no", exit |-> 2]),
   Seen([kind |-> "tool_result", call |-> "x", ok |-> "yes"]),
   Seen([key |-> <<3>>, says |-> {"build_test"}, names |-> {"q"}])}
LongEvents == {Seen([kind |-> "tool_result", ok |-> "no", usage |-> TRUE, inp |-> 1]), Seen([kind |-> "assistant_msg"])}

\* what remains of es without meta events, and where its spans are in es
Kept(es) == SelectSeq(Positions(es), LAMBDA i : es[i].kind # "meta")
Plain(es) == [k \in DOMAIN Kept(es) |-> es[Kept(es)[k]]]
Back(es, spans) == {[x EXCEPT !.first = Kept(es)[@], !.last = Kept(es)[@]] : x \in spans}

\* The rules that are written over logical events, and only those, find the same when the
\* wrapper events of a session are left out (events of no turn's end, time or tokens): the
\* spans are of the same events. RUNAWAY_SESSION tells how many there are; slow_to_action
\* is told at another event where there is no call.
MetaIsIgnored(es) ==
  LET plain == Plain(es) IN
  /\ D!ContextRot(es) = Back(es, D!ContextRot(plain))
  /\ D!CorrectionLoop(es) = Back(es, D!CorrectionLoop(plain))
  /\ D!EditWithoutRead(es, TRUE) = Back(es, D!EditWithoutRead(plain, TRUE))
  /\ D!RetryStorm(es) = Back(es, D!RetryStorm(plain))
  /\ D!NoAdaptRetry(es) = Back(es, D!NoAdaptRetry(plain))
  /\ D!CompactionAmnesia(es) = Back(es, D!CompactionAmnesia(plain))
  /\ D!RunawaySession(es) = D!RunawaySession(plain)
  /\ (D!SlowToAction(es) = {}) = (D!SlowToAction(plain) = {})

\* The windows of edits of one file, and of a revert after a failing test, are of events
\* that wrappers do not count among.
WindowEvents ==
  {Seen([kind |-> "meta"]),
   Seen([cat |-> "write", op |-> "file.edit", tool |-> "edit", path |-> <<"d", "p">>]),
   Seen([kind |-> "tool_result", ok |-> "no", err |-> "build_test_fail"]),
   Seen([key |-> <<4>>, says |-> {"revert"}])}
WindowsIgnoreMeta(es) ==
  /\ D!EditThrash(es) = Back(es, D!EditThrash(Plain(es)))
  /\ D!PanicRevert(es) = Back(es, D!PanicRevert(Plain(es)))

\* A storm is one command, again and again, that failed, without a write in between.
StormsAreStorms(es) ==
  \A x \in D!RetryStorm(es) :
    LET Same(i) == es[i].kind = "tool_call" /\ es[i].key = es[x.first].key IN
    /\ Same(x.first) /\ Same(x.last) /\ x.first < x.last
    /\ \E i \in DOMAIN es : es[i].ok = "no" /\ es[i].call = "x"
    /\ \A i \in x.first..x.last : es[i].kind = "tool_call" => es[i].cat # "write"

\* A change that nothing was run after cannot have been exercised; whatever is found lies in the session.
FindingsAgree(es) ==
  /\ D!UnverifiedCompletion(es) \subseteq D!LooksRightRunsWrong(es)
  /\ LET all == D!SessionDetectors(es) IN
     \A n \in DOMAIN all : \A x \in all[n][2] : x.first \in DOMAIN es \union {1} /\ x.first <= x.last /\ x.last <= Max({1, Len(es)})

DetectorsHold(es) == MetaIsIgnored(es) /\ StormsAreStorms(es) /\ FindingsAgree(es)

\* The window is the first that is dense enough, and a banded distance below its cap the full one.
PrimitivesHold(s) ==
  LET Matches(i, size) == {k \in DOMAIN s : s[k] = 1 /\ k > i - size /\ k <= i}
      FirstDense(size, threshold) ==
        LET dense == {i \in DOMAIN s : s[i] = 1 /\ Cardinality(Matches(i, size)) >= threshold} IN
        IF dense = {} THEN <<>> ELSE <<Min(Matches(Min(dense), size)), Min(dense)>>
      \* edits[i, j] between the first i of a and the first j of b
      Distance(a, b) ==
        LET edits[i \in 0..Len(a), j \in 0..Len(b)] ==
              IF i = 0 THEN j ELSE IF j = 0 THEN i
              ELSE Min({edits[i - 1, j] + 1, edits[i, j - 1] + 1, edits[i - 1, j - 1] + (IF a[i] = b[j] THEN 0 ELSE 1)})
        IN edits[Len(a), Len(b)]
  IN /\ \A size \in 1..4, threshold \in 1..3 :
          D!FirstWindowReaching([i \in DOMAIN s |-> s[i] = 1], size, threshold) = FirstDense(size, threshold)
     /\ \A k \in 0..Len(s), cap \in 1..4 :
          LET a == SubSeq(s, 1, k) b == SubSeq(s, k + 1, Len(s)) IN
          D!EditDistance(a, b, cap) = Min({cap, Distance(a, b)})

-----------------------------------------------------------------------------
(* Money (CostViews).  A trace is a sequence of session heads, turn heads    *)
(* and calls.                                                                *)

SmallPrices == [m |-> [entry |-> [inp |-> 2, out |-> 5, read |-> 1, write |-> 3], status |-> "exact"],
                w |-> [entry |-> [inp |-> 1, out |-> 1, read |-> 1, write |-> 1], status |-> "estimated"]]
C == INSTANCE CostViews WITH Prices <- SmallPrices, Scale <- 60

Usage(i, o, r, w) == [inp |-> i, out |-> o, read |-> r, write |-> w, reason |-> 0]
Item(change) == With([what |-> "call", link |-> None, parent |-> None, model |-> None, response |-> None,
                      usage |-> Usage(1, 2, 3, 0), estimated |-> FALSE, atom |-> TRUE], change)
CostEvents ==
  {Item([what |-> "session", parent |-> 1, link |-> "fork"]), Item([what |-> "session", parent |-> 2, link |-> "spawn", estimated |-> TRUE]),
   Item([what |-> "turn", model |-> "w"]), Item([what |-> "turn", atom |-> FALSE]), Item([what |-> "turn", model |-> "free"]),
   Item([response |-> "r"]), Item([response |-> "q", usage |-> Usage(3, 0, 1, 1)]), Item([usage |-> Usage(0, 1, 1, 2)]),
   Item([usage |-> None])}
CostRequest == <<Item([what |-> "session"]), Item([what |-> "turn"])>>

\* the sessions of such a trace, and an atom for each turn that has one
SessionsOf(es) ==
  LET Add(acc, n) ==
        LET e == es[n]
            k == Len(acc)
            t == Len(acc[k].turns)
        IN CASE e.what = "session" -> Append(acc, [id |-> k + 1, parent |-> e.parent, link |-> e.link, estimated |-> e.estimated,
                                                   model |-> "m", turns |-> <<>>, events |-> <<>>])
             [] e.what = "turn" -> [acc EXCEPT ![k].turns = Append(@, [id |-> <<k, t + 1>>, model |-> e.model, effort |-> None,
                                                                       atom |-> e.atom, calls |-> <<>>])]
             [] t = 0 -> [acc EXCEPT ![k].events = Append(@, [response |-> e.response, usage |-> e.usage, turn |-> None])]
             [] OTHER -> [acc EXCEPT ![k].turns[t].calls = Append(@, [response |-> e.response, usage |-> e.usage])]
  IN FoldLeft(Add, <<>>, Positions(es))
AtomsOf(sessions) ==
  FlattenSeq([k \in DOMAIN sessions |->
    LET with == SelectSeq(sessions[k].turns, LAMBDA t : t.atom) IN
    [n \in DOMAIN with |-> [id |-> with[n].id, session |-> k, turn |-> with[n].id, task |-> 1,
                            responses |-> [c \in DOMAIN with[n].calls |-> with[n].calls[c].response]]]])
Amount(money) == IF money.amount = None THEN 0 ELSE money.amount

\* No call is paid twice or forgotten: the phases of a session add up to its invoice, the
\* sessions to the charges, and what is charged to the origin of cached tokens to the priced charges.
MoneyIsConserved(es) ==
  LET sessions == SessionsOf(es)
      atoms == AtomsOf(sessions)
      charges == C!ResponseCharges(sessions, atoms, <<>>)
      total == C!Total([k \in DOMAIN charges |-> Amount(charges[k].invoice)])
      origin == C!OriginAttributed(charges)
      Phases(s) == LET rows == C!PhaseSpend(s, atoms) IN
        /\ C!Total([k \in DOMAIN rows |-> Amount(rows[k].money)]) = Amount(C!SessionInvoice(s))
        /\ C!Total([k \in DOMAIN rows |-> rows[k].calls]) = Len(C!BilledCalls(s))
      Once(s) == LET calls == C!BilledCalls(s) IN
        \A j, k \in DOMAIN calls : j # k /\ calls[j].response = calls[k].response => calls[j].response = None
  IN /\ \A n \in DOMAIN sessions : Phases(sessions[n]) /\ Once(sessions[n])
     /\ Amount(C!TreeRollup(sessions, FALSE).sum) = total
     /\ origin.money.amount <= 60 * total /\ 60 * total - origin.money.amount <= Len(origin.shares)
     /\ (C!TreeRollup(sessions, FALSE).sum.status = "exact")
          => \A k \in DOMAIN charges : charges[k].invoice.status = "exact"
-----------------------------------------------------------------------------
(* Diagnoses.  A trace is a sequence of atoms and of findings; the atoms     *)
(* after the second belong to the turn of a task that may be unrelated.      *)

G == INSTANCE Diagnoses WITH ContextPct <- 50, ContextWindow <- 10

NoAnswers == [f \in {} |-> 0]
Atom(change) ==
  With([what |-> "atom", id |-> 0, answers |-> NoAnswers, abstains |-> {}, novelFact |-> None, citesFact |-> FALSE, declaresFact |-> 0,
        purposeFact |-> "act", demandFact |-> None, overlap |-> None, reuse |-> None, noProgress |-> None, failRepeats |-> 0,
        repeats |-> 0, rereads |-> 0, edits |-> FALSE, tested |-> FALSE, testFailed |-> FALSE, paths |-> {},
        trigger |-> "prior_result", outstanding |-> FALSE, impediment |-> FALSE, compacted |-> FALSE, highEffort |-> FALSE,
        coordinates |-> FALSE, exact |-> TRUE, amount |-> 2, reasoning |-> 1, verified |-> FALSE], change)
Finding(id) == [what |-> "finding", id |-> id, span |-> "s:1"]
DiagnosisEvents ==
  {Atom([answers |-> [declares |-> 8, cites |-> 8]]),
   Atom([answers |-> [novel |-> 1], rereads |-> 1]), Atom([answers |-> [novel |-> 1], rereads |-> 1, compacted |-> TRUE]),
   Atom([rereads |-> 1, novelFact |-> 1, exact |-> FALSE]), Atom([failRepeats |-> 1, novelFact |-> 2]),
   Atom([impediment |-> TRUE]), Atom([demandFact |-> 0, highEffort |-> TRUE]), Atom([noProgress |-> TRUE]),
   Atom([trigger |-> "user_request"]),
   Finding("RUNAWAY_SESSION"), Finding("UNVERIFIED_COMPLETION"), Finding("CONTEXT_ROT"), Finding("KITCHEN_SINK")}

Task(change) ==
  With([id |-> "t1", turn |-> "u1", edge |-> None, artifacts |-> {"p"}, calls |-> <<Usage(1, 0, 0, 0)>>, text |-> 1,
        compacted |-> FALSE, afterGap |-> FALSE, refused |-> FALSE, price |-> [inp |-> 1, read |-> 1, write |-> 1], exact |-> TRUE], change)
OneTask == <<Task([id |-> "t1"])>>
TwoTasks == OneTask \o <<Task([id |-> "t2", turn |-> "u2", edge |-> "unrelated", artifacts |-> {}, calls |-> <<Usage(8, 0, 0, 0)>>])>>

AtomIds == <<"e1", "e2", "e3", "e4">>
AtomsIn(es) == LET atoms == SelectSeq(es, LAMBDA e : e.what = "atom") IN [k \in DOMAIN atoms |-> [atoms[k] EXCEPT !.id = AtomIds[k]]]
FindingsIn(es) == SelectSeq(es, LAMBDA e : e.what = "finding")
TurnOf(id) == IF id \in {"e1", "e2"} THEN "u1" ELSE "u2"
RowsOf(es, tasks, semantic) ==
  LET eps == AtomsIn(es)
      phases == [k \in DOMAIN eps |-> [span |-> eps[k].id, amount |-> eps[k].amount]]
  IN G!Diagnose("s", tasks, eps, FindingsIn(es), phases, semantic)

Sum(s) == FoldLeft(LAMBDA sum, x : sum + x, 0, s)

\* An atom has one cause at most, and the amounts of all causes are no more than the atoms
\* cost; a group has one amount; after a late verification nothing counts as trailing work.
CausesHold(es, tasks, semantic) ==
  LET eps == AtomsIn(es)
      rows == RowsOf(es, tasks, semantic)
      Paid(d) == d.amount # None
      caused == SelectSeq(rows, LAMBDA d : d.id \in ToSet(G!Causes) /\ Paid(d))
      Late == {k \in DOMAIN eps : k > (Len(eps) * 2) \div 3}
  IN /\ \A j, k \in DOMAIN caused : j # k => caused[j].spans \intersect caused[k].spans = {}
     /\ Sum([k \in DOMAIN caused |-> caused[k].amount]) <= Sum([k \in DOMAIN eps |-> IF eps[k].exact THEN eps[k].amount ELSE 0])
     /\ \A j, k \in DOMAIN rows : j # k /\ rows[j].group = rows[k].group => ~(Paid(rows[j]) /\ Paid(rows[k]))
     /\ (\E k \in Late : eps[k].answers # NoAnswers /\ "cites" \in DOMAIN eps[k].answers)
          => {"POST_COMPLETION_WORK", "LOW_YIELD_TAIL"} \intersect G!Ids(rows) = {}
     /\ \A d \in ToSet(rows) :
          /\ d.id = "POST_COMPLETION_WORK" => \E k \in DOMAIN eps : "declares" \in DOMAIN eps[k].answers /\ \A n \in DOMAIN eps : eps[n].id \in d.spans => k < n
          /\ d.id = "EXTERNAL_BLOCK" => ~d.waste
          /\ "downgraded" \in d.flags => d.info /\ "COMPACTION_AMNESIA" \in G!Ids(rows)
          /\ d.id = "KITCHEN_SINK" => ~Paid(d) /\ ~d.waste
     /\ {"RUNAWAY_SESSION", "LOW_YIELD_TAIL"} \subseteq G!Ids(rows)
          => Cardinality({d.group : d \in {r \in ToSet(rows) : r.id \in {"RUNAWAY_SESSION", "LOW_YIELD_TAIL"}}}) = 1

DiagnosesHold(es) == \A semantic \in BOOLEAN : CausesHold(es, IF semantic THEN TwoTasks ELSE OneTask, semantic)

\* Where a continuation carries a burden, the atoms of its turn waste nothing of their own.
BurdenOwnsTurn(es) ==
  LET rows == RowsOf(es, TwoTasks, FALSE)
      burdened == UNION {d.spans : d \in {r \in ToSet(rows) : r.id = "CONTINUATION_BURDEN"}}
  IN \A d \in ToSet(rows) :
       d.id \in ToSet(G!Causes) \ {"EXTERNAL_BLOCK"} /\ d.waste /\ d.amount # None => \A id \in d.spans : TurnOf(id) \notin burdened

-----------------------------------------------------------------------------
(* Tails.  An item of a trace is a short sequence of events; each event is   *)
(* a minute after the one before.                                            *)

TailThresholds == [kind \in {"model_input", "model_output", "parent_wait", "tool_latency", "output_volume", "retry_attempts",
                             "failure_chain", "poll_amplification", "delegation_fanout", "context_replay", "cache_creation",
                             "delegation_open", "delegation_lifetime", "inspection_rounds", "status_probes", "output_repetition",
                             "delegation_repetition", "verification_repetition", "cache_rebuilds"} |-> 3]
L == INSTANCE Tails WITH Thresholds <- TailThresholds, Retained <- 1, CacheMinWrite <- 1, ReplayCalls <- 2, RepeatedChars <- 1

Event(change) ==
  With([kind |-> "tool_call", asks |-> FALSE, tool |-> "sh", key |-> 1, call |-> None, ok |-> "unknown", cat |-> "execute",
        wait |-> FALSE, poll |-> FALSE, probe |-> FALSE, inspect |-> FALSE, check |-> FALSE, coord |-> None, pending |-> FALSE,
        ts |-> 0, end |-> 0, size |-> None, digest |-> None, group |-> None, usage |-> None, model |-> None], change)
Ran(call, ok) == <<Event(call), Event([kind |-> "tool_result", ok |-> ok, size |-> 2, digest |-> "d"])>>
Metered(read, write) == <<Event([kind |-> "assistant_msg", group |-> 1, model |-> "m", usage |-> [inp |-> 1, out |-> 1, read |-> read, write |-> write]])>>
TailEvents ==
  {<<Event([kind |-> "user_msg", asks |-> TRUE])>>,
   Ran([key |-> 1, check |-> TRUE], "no"), Ran([key |-> 2], "no"), Ran([key |-> 1, check |-> TRUE], "yes"),
   <<Event([key |-> 3, poll |-> TRUE])>>, <<Event([key |-> 4])>>,
   Ran([key |-> 5, inspect |-> TRUE, cat |-> "read"], "yes"), Ran([key |-> 6, wait |-> TRUE, probe |-> TRUE], "yes"),
   Metered(2, 0), Metered(0, 2), <<Event([kind |-> "compaction"])>>}

\* the events of the items: the n-th item names its call and its response n
TailSession(items) ==
  LET Stamp(e, n) == [e EXCEPT !.call = IF e.key # 4 /\ e.kind \in {"tool_call", "tool_result"} THEN n ELSE None,
                               !.group = IF e.group = None THEN None ELSE n]
      flat == FlattenSeq([n \in DOMAIN items |-> [k \in DOMAIN items[n] |-> Stamp(items[n][k], n)]])
  IN [id |-> "s", root |-> TRUE, estimated |-> FALSE, reliable |-> TRUE, model |-> "m",
      events |-> [i \in DOMAIN flat |-> [flat[i] EXCEPT !.ts = i]]]

\* The chains of failures are the longest runs of failed calls within a request; a retry is one
\* command that failed until its last attempt; polls are not interrupted.
SequencesHold(s) ==
  LET es == s.events
      rows == L!SequenceTails(s)
      OfKind(kind) == {rows[n].at : n \in {m \in DOMAIN rows : rows[m].kind = kind}}
      CallsAt(at) == SelectSeq(at, LAMBDA i : es[i].kind = "tool_call")
      Fails(i) == L!PairOf(es, i) # 0 /\ es[L!PairOf(es, i)].ok = "no"
      work == SelectSeq(L!Calls(es), LAMBDA i : ~es[i].poll)
      InOneRequest(at) == \A i \in ToSet(at) : L!ScopeOf(es, i) = L!ScopeOf(es, at[1])
      Run(j, k) == /\ InOneRequest(SubSeq(work, j, k))
                   /\ \A n \in j..k : Fails(work[n])
      Maximal(j, k) == /\ Run(j, k) /\ (j = 1 \/ ~Run(j - 1, k)) /\ (k = Len(work) \/ ~Run(j, k + 1))
      runs == {SubSeq(work, x[1], x[2]) : x \in {y \in (DOMAIN work) \X (DOMAIN work) : y[2] - y[1] >= 2 /\ Maximal(y[1], y[2])}}
  IN /\ {CallsAt(at) : at \in OfKind("failure_chain")} = runs
     /\ \A at \in OfKind("retry_attempts") :
          LET c == CallsAt(at) IN
          /\ InOneRequest(c) /\ Len(c) >= 2
          /\ Cardinality({es[i].key : i \in ToSet(c)}) = 1
          /\ \A n \in 1..(Len(c) - 1) : Fails(c[n])
     /\ \A at \in OfKind("poll_amplification") :
          InOneRequest(at) /\ \A i \in at[1]..Last(at) : es[i].kind = "tool_call" => es[i].poll

\* What exceeds its threshold is kept, and of every cohort the largest; every event of an incident exists, once.
RetentionHolds(s, rows) ==
  LET all == L!AllTails(<<s>>, rows)
      kept == ToSet(L!RetainedTails(all))
  IN /\ \A k \in DOMAIN all : /\ ToSet(all[k].at) \subseteq DOMAIN s.events
                              /\ IsInjective(all[k].at)
                              /\ all[k].over => k \in kept
                              /\ \E j \in kept : all[j].cohort = all[k].cohort /\ all[j].value >= all[k].value

\* Every metered round is in one row of the activity table, and a wait for several children is one wait.
RoundsHold(s) ==
  LET table == L!Activity(s)
      waits == SelectSeq(L!Positions(s.events), LAMBDA i : s.events[i].wait)
      told == [n \in DOMAIN waits |-> L!CacheWait(s, waits[n])]
  IN /\ MapThenSumSet(LAMBDA key : table[key].rounds, DOMAIN table)
          = Cardinality({i \in DOMAIN s.events : s.events[i].usage # None})
     /\ L!CohortOf(told \o told) = L!CohortOf(told)
     /\ L!CohortOf(told).rewrites <= L!CohortOf(told).comparable
     /\ \A n \in DOMAIN told : told[n].comparable => ~\E i \in DOMAIN s.events :
          s.events[i].kind = "compaction" /\ waits[n] < i /\ i < told[n].next

TailsHold(items) ==
  LET s == TailSession(items)
      launch(n) == [parent |-> "s", spawn |-> n, agent |-> n, review |-> TRUE, files |-> {"p"}, finals |-> {n + 1}, rejected |-> FALSE,
                    ts |-> n, lifetime |-> None, status |-> "unknown"]
      waits == SelectSeq(L!Positions(s.events), LAMBDA i : s.events[i].wait)
  IN SequencesHold(s) /\ RetentionHolds(s, [n \in DOMAIN waits |-> launch(waits[n])]) /\ RoundsHold(s)
===============================================================================
