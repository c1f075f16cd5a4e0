------------------------------- MODULE Detectors -------------------------------
(***************************************************************************)
(* The rule detectors: detectors/taxonomy.py, smells.py and tail_rules.py, *)
(* the helpers and the order of registry.py, and the primitives they rest  *)
(* on (window.py, filestate.py, argnorm.py).                               *)
(*                                                                         *)
(* A session is a sequence of events, idx plus 1 the position.  An event:  *)
(*   kind  EventKind        cat   tool category      op, tool  its names   *)
(*   path  a sequence of names, or None        arts  its artifacts         *)
(*   key   normalised arguments, a sequence    call  call id, or None      *)
(*   ok    "yes"/"no"/"unknown"   err  error category   exit  exit code    *)
(*   phase "final_answer", "commentary" or None                            *)
(*   says  what the lexicons and patterns find in its text or command      *)
(*   names paths or modules its text names      usage, inp, out  tokens    *)
(*   ts    minutes, 0 without a time            turn  turn id, or None     *)
(*   lines lines written                        todos, done  a todo list   *)
(* A detector is the set of spans it reports; Knobs are the thresholds.    *)
(***************************************************************************)
EXTENDS Integers, SequencesExt

CONSTANTS Knobs, None

Span(i, j) == [first |-> i, last |-> j]
Report(condition, spans) == IF condition THEN spans ELSE {}
Where(es, P(_)) == {i \in DOMAIN es : P(es[i])}
Around(S) == Span(Min(S), Max(S))

IsMeta(e) == e.kind = "meta"
IsUser(e) == e.kind = "user_msg"
IsAssistant(e) == e.kind = "assistant_msg"
IsCall(e) == e.kind = "tool_call"
ReadCall(e) == IsCall(e) /\ e.cat = "read"
WriteCall(e) == IsCall(e) /\ e.cat = "write"
ExecCall(e) == IsCall(e) /\ e.cat = "execute"
FailedResult(e) == e.kind = "tool_result" /\ e.ok = "no"
GrepLike(e) == IsCall(e) /\ (e.op = "cmd.search" \/ e.tool \in {"grep", "glob", "find", "rg"})
Command(e) == ExecCall(e) /\ e.key # <<>>
Runs(e, what) == Command(e) /\ what \in e.says
IsTurnEnd(e) == IsMeta(e) /\ "task_complete" \in e.says

\* is_edit_tool: an edit in place, neither a full write nor only additions and deletions
EditTool(e) ==
  /\ WriteCall(e)
  /\ e.arts # <<>> => \E k \in DOMAIN e.arts : e.arts[k].op \notin {"add", "delete"}
  /\ \/ e.op = "file.edit"
     \/ e.op \notin {"file.write", "file.delete"} /\ e.tool \in {"edit", "multiedit", "file_change"}

ArtifactPaths(e, ops) == {e.arts[k].path : k \in {j \in DOMAIN e.arts : e.arts[j].op \in ops}}
EditedPaths(e) == IF e.arts # <<>> THEN ArtifactPaths(e, {"update"}) ELSE {e.path} \ {None}
ReadPaths(e) ==
  CASE ~IsCall(e)     -> {}
    [] e.arts # <<>>  -> ArtifactPaths(e, {"read", "search"})
    [] e.cat = "read" -> {e.path} \ {None}
    [] OTHER          -> {}
UnderDir(path, dir) == dir # <<>> /\ IsStrictPrefix(dir, path)

\* Mutant of Logical: meta events count.
LogicalWithMeta(es) == [i \in DOMAIN es |-> i]

\* logical_events and logical_positions: meta events do not count
Logical(es) == SelectSeq([i \in DOMAIN es |-> i], LAMBDA i : ~IsMeta(es[i]))
Pos(es, i) == Cardinality({j \in 1..i : ~IsMeta(es[j])})

\* dictionaries by call id: the last event with the id wins; 0 if there is none
LastWith(es, kind, id) ==
  LET with == {i \in DOMAIN es : es[i].kind = kind /\ es[i].call = id /\ id # None} IN
  IF with = {} THEN 0 ELSE Max(with)
ResultOf(es, i) == LastWith(es, "tool_result", es[i].call)
CallOf(es, i) == LastWith(es, "tool_call", es[i].call)

Killed(e) == e.kind = "tool_result" /\ (e.exit \in {130, 143} \/ e.err = "cancelled" \/ "interrupted" \in e.says)

\* is_benign_failure; c is the position of the call, 0 without one
Benign(es, r, c) ==
  /\ FailedResult(es[r])
  /\ \/ es[r].err = "no_match_probe" \/ Killed(es[r])
     \/ /\ es[r].err # "file_not_found" /\ es[r].exit = 1 /\ c # 0
        /\ \/ Runs(es[c], "signal_free")
           \/ /\ es[c].cat = "read" \/ es[c].op \in {"cmd.read", "cmd.search", "cmd.list"}
              /\ "long" \notin es[r].says

\* terminal_assistant_msgs: a final answer, or the last message without a phase before a turn ends
Terminal(es) ==
  LET See(acc, i) ==
        CASE IsAssistant(es[i]) /\ es[i].phase = "final_answer" -> [found |-> acc.found \union {i}, pending |-> {}]
          [] IsAssistant(es[i]) /\ es[i].phase = None           -> [acc EXCEPT !.pending = {i}]
          [] IsUser(es[i]) \/ IsTurnEnd(es[i])                  -> [found |-> acc.found \union acc.pending, pending |-> {}]
          [] OTHER                                              -> acc
      all == FoldLeftDomain(See, [found |-> {}, pending |-> {}], es)
  IN all.found \union all.pending

-----------------------------------------------------------------------------
(* window.py, filestate.py and argnorm.py.                                   *)

\* first_window_reaching: matches that leave the window are dropped from the front
FirstWindowReaching(flags, size, threshold) ==
  LET Take(acc, i) ==
        LET added == IF flags[i] THEN Append(acc.matched, i) ELSE acc.matched
            live == SelectSeq(added, LAMBDA k : k > i - size)
        IN IF acc.hit # <<>> THEN acc
           ELSE [matched |-> live, hit |-> IF Len(live) >= threshold THEN <<live[1], i>> ELSE <<>>]
  IN FoldLeftDomain(Take, [matched |-> <<>>, hit |-> <<>>], flags).hit

\* build_file_state: what one call does to the paths it names, in order
Touches(e) ==
  CASE ~IsCall(e)     -> <<>>
    [] e.arts # <<>>  -> [k \in DOMAIN e.arts |->
                            [path |-> e.arts[k].path, op |-> CASE e.arts[k].op \in {"read", "search"} -> "read"
                                                               [] e.arts[k].op = "add"                -> "write"
                                                               [] OTHER                               -> "edit"]]
    [] e.path # None /\ e.cat = "read"  -> << [path |-> e.path, op |-> "read"] >>
    [] e.path # None /\ e.cat = "write" -> << [path |-> e.path, op |-> IF "write" \in {e.op, e.tool} THEN "write" ELSE "edit"] >>
    [] OTHER                            -> <<>>

ReadAt(es, path) == {i \in DOMAIN es : \E k \in DOMAIN Touches(es[i]) : Touches(es[i])[k] = [path |-> path, op |-> "read"]}
\* one entry per artifact: a call that names a path twice counts twice
EditedAt(es, path) ==
  FlattenSeq([i \in DOMAIN es |-> LET edits == SelectSeq(Touches(es[i]), LAMBDA t : t.path = path /\ t.op # "read")
                                  IN [k \in DOMAIN edits |-> i]])
PathsOf(es) == UNION {{Touches(es[i])[k].path : k \in DOMAIN Touches(es[i])} : i \in DOMAIN es}
SeenBefore(es, path, i) == (\E r \in ReadAt(es, path) : r < i) \/ (\E k \in DOMAIN EditedAt(es, path) : EditedAt(es, path)[k] < i)

\* edit_distance: only the cells within cap - 1 of the diagonal; <<>> stands for "reached cap"
EditDistance(a, b, cap) ==
  LET k == cap - 1
      Get(row, j) == IF j \in DOMAIN row THEN row[j] ELSE cap
      NextRow(prev, i) ==
        LET cols == Max({0, i - k})..Min({Len(b), i + k})
            cur[j \in cols] ==
              IF j = 0 THEN Min({i, cap})
              ELSE Min({cap, Get(prev, j) + 1, (IF j - 1 \in cols THEN cur[j - 1] ELSE cap) + 1,
                        Get(prev, j - 1) + (IF a[i] = b[j] THEN 0 ELSE 1)})
        IN IF prev = <<>> \/ \A j \in cols : cur[j] >= cap THEN <<>> ELSE cur
  IN IF a = b \/ cap <= 0 THEN 0
     ELSE IF Max({Len(a) - Len(b), Len(b) - Len(a)}) >= cap THEN cap
     ELSE Min({cap, Get(FoldLeftDomain(NextRow, [j \in 0..Min({Len(b), k}) |-> j], a), Len(b))})

-----------------------------------------------------------------------------
(* Failure taxonomies, 1 to 9.                                               *)

ContextRot(es) ==
  LET L == Logical(es)
      n == Len(L)
      third == n \div 3
      Bad(e) == FailedResult(e) \/ (IsUser(e) /\ "correction" \in e.says) \/ WriteCall(e)
      Rate(lo, hi) == Cardinality({k \in (lo + 1)..hi : Bad(es[L[k]])})
      peaks == {es[i].inp : i \in Where(es, LAMBDA e : e.usage /\ ~IsMeta(e))}
      early == Rate(0, third)
      late == Rate(n - third, n)
  IN Report(/\ n >= 9 /\ early >= 1 /\ late >= 2 /\ late >= Knobs.rotRatio * early
            /\ peaks = {} \/ Max(peaks) > Knobs.rotContext,
            {Span(L[n - third + 1], L[n])})

KitchenSink(es) ==
  LET intros == Where(es, LAMBDA e : IsUser(e) /\ "task_intro" \in e.says)
      cleared == \E i \in DOMAIN es : es[i].kind = "compaction" /\ Min(intros) < i /\ i < Max(intros)
  IN Report(Cardinality(intros) >= Knobs.taskIntros /\ ~cleared, {Span(i, i) : i \in intros})

CorrectionLoop(es) ==
  LET L == Logical(es)
      hit == FirstWindowReaching([k \in DOMAIN L |-> IsUser(es[L[k]]) /\ "correction" \in es[L[k]].says],
                                 Knobs.correctionWindow, Knobs.corrections)
  IN Report(hit # <<>>, {Span(L[hit[1]], L[hit[2]])})

EditThrash(es) ==
  LET Dense(path) ==
        LET edits == EditedAt(es, path)
            Hi(k) == edits[k + Knobs.thrashEdits - 1]
        IN {k \in 1..(Len(edits) - Knobs.thrashEdits + 1) :
              /\ Hi(k) - edits[k] <= Knobs.thrashWindow
              /\ \A r \in ReadAt(es, path) : ~(edits[k] < r /\ r < Hi(k))}
      First(path) == Min(Dense(path))
  IN {[path |-> path, first |-> EditedAt(es, path)[First(path)],
       last |-> EditedAt(es, path)[First(path) + Knobs.thrashEdits - 1]] : path \in {p \in PathsOf(es) : Dense(p) # {}}}

\* _edit_grounded: the path itself earlier, or a recent read of it, above it, or naming it
Grounded(es, path, i) ==
  \/ SeenBefore(es, path, i)
  \/ \E j \in 1..(i - 1) :
       /\ ~IsMeta(es[j]) /\ Pos(es, i) - Pos(es, j) <= Knobs.groundWindow
       /\ \/ \E p \in ReadPaths(es[j]) : p = path \/ UnderDir(path, p)
          \/ (ReadCall(es[j]) \/ GrepLike(es[j])) /\ Last(path) \in es[j].names

EditWithoutRead(es, parsed) ==
  LET observes == \/ parsed
                  \/ \E p \in PathsOf(es) : ReadAt(es, p) # {}
                  \/ \E i \in DOMAIN es : ReadCall(es[i]) \/ GrepLike(es[i])
      blind == {<<i, p>> \in (DOMAIN es) \X UNION {EditedPaths(es[j]) : j \in DOMAIN es} :
                  EditTool(es[i]) /\ p \in EditedPaths(es[i]) /\ ~Grounded(es, p, i)}
  IN Report(observes, {[path |-> b[2], first |-> b[1], last |-> b[1]] :
                         b \in {x \in blind : \A y \in blind : y[2] = x[2] => x[1] <= y[1]}})

FullFileRewrite(es) ==
  {Span(i, i) : i \in Where(es, LAMBDA e : WriteCall(e) /\ e.tool = "write" /\ e.path # None /\ e.lines >= Knobs.rewriteLines)
                      \intersect {j \in DOMAIN es : SeenBefore(es, es[j].path, j)}}

Polling(e) == e.cat = "subagent" \/ "polling" \in e.says

\* _dense_failing_run: from each call on, the calls within the window, cut at the first file write
DenseFailingRun(es, calls) ==
  LET From(k) ==
        LET near == SelectSeq(SubSeq(calls, k, Len(calls)), LAMBDA c : Pos(es, c) - Pos(es, calls[k]) <= Knobs.stormWindow)
            written == {m \in 2..Len(near) : \E w \in (near[m - 1] + 1)..(near[m] - 1) : WriteCall(es[w])}
        IN IF written = {} THEN near ELSE SubSeq(near, 1, Min(written) - 1)
      Fails(c) == ResultOf(es, c) # 0 /\ FailedResult(es[ResultOf(es, c)]) /\ ~Benign(es, ResultOf(es, c), c)
      starts == {k \in 1..(Len(calls) - Knobs.stormRepeats + 1) :
                   Len(From(k)) >= Knobs.stormRepeats /\ \E m \in DOMAIN From(k) : Fails(From(k)[m])}
  IN IF starts = {} THEN <<>> ELSE From(Min(starts))

RetryStorm(es) ==
  LET calls == SelectSeq([i \in DOMAIN es |-> i], LAMBDA i : IsCall(es[i]) /\ es[i].key # <<>> /\ ~Polling(es[i]))
      GroupOf(c) == SelectSeq(calls, LAMBDA d : es[d].tool = es[c].tool /\ es[d].key = es[c].key)
      runs == {DenseFailingRun(es, GroupOf(calls[k])) : k \in DOMAIN calls} \ {<<>>}
  IN {Span(r[1], Last(r)) : r \in runs}

NearIdentical(a, b) ==
  LET d == EditDistance(a, b, Knobs.retryEps + 1) IN
  d < Knobs.retryEps /\ d <= Max({1, Min({Len(a), Len(b)}) \div 4})

\* the clusters of failing calls that NO_ADAPT_RETRY walks through
RetryClusters(es) ==
  LET Failed(i) == LET r == ResultOf(es, i) IN r # 0 /\ FailedResult(es[r]) /\ ~Killed(es[r])
      Flush(acc) == [done |-> IF acc.open = <<>> THEN acc.done ELSE Append(acc.done, acc.open), open |-> <<>>]
      Same(acc, i) == LET l == es[Last(acc.open)] IN l.tool = es[i].tool /\ NearIdentical(l.key, es[i].key)
      Take(acc, i) ==
        CASE IsUser(es[i])                              -> Flush(acc)
          [] ~IsCall(es[i])                             -> acc
          [] ~Failed(i)                                 -> Flush(acc)
          [] acc.open # <<>> /\ ~Same(acc, i)           -> [Flush(acc) EXCEPT !.open = <<i>>]
          [] OTHER                                      -> [acc EXCEPT !.open = Append(@, i)]
  IN Flush(FoldLeftDomain(Take, [done |-> <<>>, open |-> <<>>], es)).done

NoAdaptRetry(es) == {Span(c[1], Last(c)) : c \in {x \in ToSet(RetryClusters(es)) : Len(x) >= Knobs.retries}}

AssumingNotObserving(es) ==
  LET claims == Where(es, LAMBDA e : IsAssistant(e) /\ "claim" \in e.says)
      blind == {i \in claims : \A j \in 1..i : ~(ReadCall(es[j]) \/ ExecCall(es[j]) \/ GrepLike(es[j]))}
  IN Report(blind # {}, {Span(Min(blind), Min(blind))})

-----------------------------------------------------------------------------
(* Failure taxonomies, 10 to 19.                                             *)

TestFailed(e) == FailedResult(e) /\ e.err = "build_test_fail"

TestGaming(es) ==
  {Span(i, i) : i \in {j \in DOMAIN es : /\ WriteCall(es[j]) /\ {"test_path", "loosens"} \subseteq es[j].says
                                         /\ \E f \in 1..j : TestFailed(es[f])}}

PanicRevert(es) ==
  LET fail(i) == {f \in 1..i : TestFailed(es[f])}
      panics == {i \in DOMAIN es : Runs(es[i], "revert") /\ fail(i) # {} /\ i - Max(fail(i)) <= Knobs.panicWindow}
  IN Report(panics # {}, {Span(Max(fail(Min(panics))), Min(panics))})

ActingOnQuestion(es) ==
  LET Reply(i) == {j \in DOMAIN es : j > i /\ WriteCall(es[j]) /\ \A k \in (i + 1)..j : ~IsUser(es[k])}
  IN {Span(i, Min(Reply(i))) : i \in {j \in Where(es, LAMBDA e : IsUser(e) /\ "question" \in e.says) : Reply(j) # {}}}

CategoryHits(es, category) == Where(es, LAMBDA e : FailedResult(e) /\ e.err = category)
Each(S) == {Span(i, i) : i \in S}

PermissionFriction(es) ==
  LET hits == CategoryHits(es, "permission")
      CommandOf(r) == IF CallOf(es, r) # 0 /\ Command(es[CallOf(es, r)]) THEN es[CallOf(es, r)].key ELSE <<>>
      Same(r) == {s \in hits : CommandOf(s) = CommandOf(r)}
  IN {Around(Same(r)) : r \in {x \in hits : Cardinality(Same(x)) >= Knobs.denials}}

SandboxEgressFail(es) == Each(CategoryHits(es, "sandbox_egress"))
ToolArgMalformed(es) == Each(CategoryHits(es, "agent_syntax_error"))
McpTransportErr(es) == Each(CategoryHits(es, "mcp_transport"))
RateLimitLoop(es) ==
  LET hits == CategoryHits(es, "rate_limit") IN Report(Cardinality(hits) >= Knobs.rateLimits, {Around(hits)})

\* _last_passing_test_idx, 0 without one: the outcome of the linked result, else of the call itself
LastPassingTest(es) ==
  LET OkOf(i) == IF es[i].call = None THEN es[i].ok ELSE IF ResultOf(es, i) = 0 THEN "unknown" ELSE es[ResultOf(es, i)].ok
  IN Max({0} \union {i \in DOMAIN es : Runs(es[i], "build_test") /\ OkOf(i) = "yes"})

PerfectionismLoop(es) ==
  LET green == LastPassingTest(es)
      edits == {i \in DOMAIN es : i > green /\ WriteCall(es[i])}
  IN Report(green # 0 /\ Cardinality(edits) >= Knobs.polishEdits /\ \A i \in DOMAIN es : i > green => ~IsUser(es[i]), {Around(edits)})

NewFiles(es) ==
  {es[i].path : i \in {j \in DOMAIN es : WriteCall(es[j]) /\ es[j].tool = "write" /\ es[j].path # None
                                         /\ ~SeenBefore(es, es[j].path, j)}}

FirstUser(es) == LET users == Where(es, IsUser) IN IF users = {} THEN 0 ELSE Min(users)
Creep(es) == Where(es, LAMBDA e : IsAssistant(e) /\ "creep" \in e.says)

OverEngineering(es) ==
  LET first == FirstUser(es) IN
  IF first # 0 /\ "fix" \in es[first].says /\ Cardinality(NewFiles(es)) >= Knobs.newFiles THEN {Span(first, first)}
  ELSE Report(Creep(es) # {}, {Span(Min(Creep(es)), Min(Creep(es)))})

-----------------------------------------------------------------------------
(* Failure taxonomies, 20 to 28.                                             *)

GoalDrift(es) ==
  LET first == FirstUser(es)
      asked == es[first].names
      edited == {Last(p) : p \in {q \in PathsOf(es) : EditedAt(es, q) # <<>>}}
  IN Report(first # 0 /\ asked # {} /\ edited # {} /\ Cardinality(asked \intersect edited) * Knobs.recall < Cardinality(asked),
            {Span(first, first)})

\* _last_edit: documents and configuration count for nothing
CodePaths(e) == IF ~WriteCall(e) \/ "docs" \in e.says THEN {}
                ELSE IF e.arts # <<>> THEN ArtifactPaths(e, {"add", "update", "delete", "move"}) ELSE {e.path} \ {None}
LastEdit(es) == Max({0} \union Where(es, LAMBDA e : CodePaths(e) # {}))
CodeEdited(es) == UNION {CodePaths(es[i]) : i \in DOMAIN es}
CompletionAfter(es, after) ==
  \E i \in DOMAIN es : i > after /\ IsAssistant(es[i]) /\ es[i].phase # "commentary" /\ "completion" \in es[i].says
TestsAfter(es, after) == {i \in DOMAIN es : i > after /\ Runs(es[i], "build_test")}
\* _run_exercises: a run that names no file is project-wide
Exercises(e, paths) == e.names = {} \/ e.names \intersect {Last(p) : p \in paths} # {}

ClaimedDone(es) == LastEdit(es) # 0 /\ CompletionAfter(es, LastEdit(es))
LooksRightRunsWrong(es) ==
  Report(ClaimedDone(es) /\ \A i \in TestsAfter(es, LastEdit(es)) : ~Exercises(es[i], CodeEdited(es)), {Span(LastEdit(es), LastEdit(es))})
UnverifiedCompletion(es) ==
  Report(ClaimedDone(es) /\ TestsAfter(es, LastEdit(es)) = {}, {Span(LastEdit(es), LastEdit(es))})

SilentErrorSwallow(es) ==
  LET Stops(j) == \/ IsUser(es[j]) \/ IsTurnEnd(es[j]) \/ IsCall(es[j])
                  \/ IsAssistant(es[j]) /\ ("ack" \in es[j].says \/ j \in Terminal(es))
      Stop(i) == {j \in DOMAIN es : j > i /\ Stops(j) /\ \A k \in (i + 1)..(j - 1) : ~Stops(k)}
      Swallowed(i) == \E j \in Stop(i) : IsAssistant(es[j]) /\ "ack" \notin es[j].says
  IN {Span(i, Max(Stop(i))) : i \in {r \in Where(es, FailedResult) : ~Benign(es, r, CallOf(es, r)) /\ Swallowed(r)}}

LinearScan(es, reads) ==
  LET scans == Where(es, LAMBDA e : ReadCall(e) /\ ~GrepLike(e)) IN
  Report(Where(es, GrepLike) = {} /\ Cardinality(scans) > reads, {Around(scans)})

\* what is read again after the compaction at c, before the next one and in its turn
Reread(es, c) ==
  LET SameTurn(i) == es[i].turn = None \/ es[c].turn = None \/ es[i].turn = es[c].turn
      Ends(i) == es[i].kind = "compaction" \/ IsUser(es[i]) \/ (~IsMeta(es[i]) /\ ~SameTurn(i))
  IN {i \in DOMAIN es : /\ i > c /\ Pos(es, i) - Pos(es, c) <= Knobs.amnesiaWindow
                        /\ \A j \in (c + 1)..i : ~Ends(j)
                        /\ \E p \in ReadPaths(es[i]) : \E r \in ReadAt(es, p) : r < c}

\* the span ends at the last re-read that names a path not named before
CompactionAmnesia(es) ==
  LET Known(c, i) == {p \in ReadPaths(es[i]) : \E r \in ReadAt(es, p) : r < c}
      News(c) == {i \in Reread(es, c) : ~(Known(c, i) \subseteq UNION {Known(c, j) : j \in {k \in Reread(es, c) : k < i}})}
  IN {Span(c, Max(News(c))) : c \in {x \in Where(es, LAMBDA e : e.kind = "compaction") : Reread(es, x) # {}}}

StyleImposition(es) ==
  LET shown == Where(es, LAMBDA e : e.kind = "tool_result" /\ "blank" \notin e.says)
      known == UNION {es[i].names : i \in shown}
      strange == Where(es, LAMBDA e : WriteCall(e) /\ e.names \ known # {})
  IN Report(shown # {} /\ strange # {}, {Span(Min(strange), Min(strange))})

CredentialLeak(es) == Each(Where(es, LAMBDA e : (IsAssistant(e) \/ IsCall(e)) /\ "secret" \in e.says))

TotalTokens(es) == FoldLeft(LAMBDA sum, e : IF e.usage THEN sum + e.inp + e.out ELSE sum, 0, es)
Times(es) == SortSeq(SelectSeq([i \in DOMAIN es |-> es[i].ts], LAMBDA t : t # 0), LAMBDA a, b : a < b)
ActiveMinutes(es) ==
  LET ts == Times(es) IN
  FoldLeftDomain(LAMBDA sum, k : IF k > 1 /\ ts[k] - ts[k - 1] <= Knobs.idleGap THEN sum + ts[k] - ts[k - 1] ELSE sum, 0, ts)

EndsPositive(es) ==
  LET lastUser == Max({0} \union Where(es, IsUser)) IN
  \/ \E i \in DOMAIN es : i > lastUser /\ ((IsAssistant(es[i]) /\ es[i].phase = "final_answer") \/ IsTurnEnd(es[i]))
  \/ /\ lastUser # 0 /\ "positive" \in es[lastUser].says
     /\ \E i \in 1..(lastUser - 1) : IsAssistant(es[i])
  \/ LastPassingTest(es) # 0 /\ \E i \in DOMAIN es : Runs(es[i], "commit")

\* the span counts logical events from the start of the stream
RunawaySession(es) ==
  LET n == Len(Logical(es))
      exceeds == n > Knobs.maxEvents \/ TotalTokens(es) > Knobs.maxTokens
                   \/ (Len(Times(es)) >= 2 /\ ActiveMinutes(es) > Knobs.maxMinutes)
  IN Report(exceeds /\ ~EndsPositive(es), {Span(1, Max({1, n}))})

-----------------------------------------------------------------------------
(* Smells.                                                                   *)

BloatedOpener(es) == LET f == FirstUser(es) IN Report(f # 0 /\ "bloated" \in es[f].says, {Span(f, f)})
ThinPrompt(es) == LET f == FirstUser(es) IN Report(f # 0 /\ "thin" \in es[f].says, {Span(f, f)})

\* distinct paths read before the first edit; a read without a path counts as one of its own
ColdStartReads(es) ==
  LET edits == Where(es, WriteCall)
      reads == {i \in Where(es, ReadCall) : i < Min(edits)}
      distinct == Cardinality(UNION {ReadPaths(es[i]) : i \in reads}) + Cardinality({i \in reads : ReadPaths(es[i]) = {}})
  IN Report(edits # {} /\ reads # {} /\ distinct > Knobs.coldReads, {Around(reads)})

SlowToAction(es) ==
  LET calls == Where(es, IsCall)
      count == IF calls = {} THEN Len(Logical(es)) ELSE Pos(es, Min(calls)) - 1
      anchor == IF calls = {} THEN Max({1, Len(es)}) ELSE Min(calls)
  IN Report(count > Knobs.slowEvents, {Span(anchor, anchor)})

OverlongTrace(es) ==
  LET ts == Times(es) IN
  Report(Len(es) > Knobs.longEvents \/ TotalTokens(es) > Knobs.longTokens
           \/ (Len(ts) >= 2 /\ Last(ts) - ts[1] > Knobs.longMinutes), {Span(1, Max({1, Len(es)}))})

ContextBloatNoClear(es) ==
  LET metered == Where(es, LAMBDA e : e.usage)
      peak == Max({0} \union {es[i].inp : i \in metered})
      at == {i \in metered : es[i].inp = peak}
  IN Report(peak > Knobs.bloatTokens /\ Where(es, LAMBDA e : e.kind = "compaction") = {}, {Span(Min(at), Min(at))})

ToolMonoculture(es) ==
  LET calls == Where(es, LAMBDA e : IsCall(e) /\ e.tool # "exec")
      Of(name) == Cardinality({i \in calls : es[i].tool = name})
  IN Report(/\ Cardinality(calls) >= Knobs.monocultureCalls
            /\ \E i \in calls : Of(es[i].tool) * 100 > Knobs.monoculturePct * Cardinality(calls), {Around(calls)})

BashAsEditor(es) == Each(Where(es, LAMBDA e : Runs(e, "mutates_file")))

NoPlanDive(es) ==
  LET Plans(e) == e.kind = "thinking" \/ (IsCall(e) /\ e.cat = "planning")
      dives == {i \in 1..Min({Len(es), Knobs.diveEvents}) : WriteCall(es[i]) /\ \A j \in 1..(i - 1) : ~Plans(es[j])}
  IN Report(dives # {}, {Span(Min(dives), Min(dives))})

RunawayTodo(es) ==
  LET calls == Where(es, LAMBDA e : IsCall(e) /\ e.tool = "todowrite") IN
  Report(/\ Cardinality(calls) >= 2 /\ \A i \in calls : es[i].done = 0
         /\ \E i \in calls : es[i].todos >= 3
         /\ es[Max(calls)].todos > es[Min(calls)].todos, {Around(calls)})

\* the biggest gap between neighbouring times; the first of equals
IdleGap(es) ==
  LET stamped == SelectSeq([i \in DOMAIN es |-> i], LAMBDA i : es[i].ts # 0)
      Gap(k) == es[stamped[k]].ts - es[stamped[k - 1]].ts
      big == {k \in 2..Len(stamped) : Gap(k) > Knobs.idleSmell /\ \A m \in 2..Len(stamped) : Gap(m) <= Gap(k)}
  IN Report(big # {}, {Span(stamped[Min(big)], stamped[Min(big)])})

-----------------------------------------------------------------------------
(* The run: enabled detectors in registration order for the root and each    *)
(* subagent, none where usage is estimated, then the tail observations.      *)

SessionDetectors(es) ==
  << <<"bloated_opener", BloatedOpener(es)>>, <<"thin_prompt", ThinPrompt(es)>>, <<"cold_start_reads", ColdStartReads(es)>>,
     <<"slow_to_action", SlowToAction(es)>>, <<"overlong_trace", OverlongTrace(es)>>,
     <<"context_bloat_no_clear", ContextBloatNoClear(es)>>, <<"tool_monoculture", ToolMonoculture(es)>>,
     <<"linear_scan_search", LinearScan(es, Knobs.scanSmell)>>, <<"bash_as_editor", BashAsEditor(es)>>,
     <<"no_plan_dive", NoPlanDive(es)>>, <<"runaway_todo", RunawayTodo(es)>>, <<"idle_gap", IdleGap(es)>>,
     <<"CONTEXT_ROT", ContextRot(es)>>, <<"KITCHEN_SINK", KitchenSink(es)>>, <<"CORRECTION_LOOP", CorrectionLoop(es)>>,
     <<"EDIT_THRASH", EditThrash(es)>>, <<"EDIT_WITHOUT_READ", EditWithoutRead(es, FALSE)>>,
     <<"FULL_FILE_REWRITE", FullFileRewrite(es)>>, <<"RETRY_STORM", RetryStorm(es)>>, <<"NO_ADAPT_RETRY", NoAdaptRetry(es)>>,
     <<"ASSUMING_NOT_OBSERVING", AssumingNotObserving(es)>>, <<"TEST_GAMING", TestGaming(es)>>, <<"PANIC_REVERT", PanicRevert(es)>>,
     <<"ACTING_ON_QUESTION", ActingOnQuestion(es)>>, <<"PERMISSION_FRICTION", PermissionFriction(es)>>,
     <<"SANDBOX_EGRESS_FAIL", SandboxEgressFail(es)>>, <<"TOOL_ARG_MALFORMED", ToolArgMalformed(es)>>,
     <<"MCP_TRANSPORT_ERR", McpTransportErr(es)>>, <<"RATE_LIMIT_LOOP", RateLimitLoop(es)>>,
     <<"PERFECTIONISM_LOOP", PerfectionismLoop(es)>>, <<"OVER_ENGINEERING", OverEngineering(es)>>, <<"GOAL_DRIFT", GoalDrift(es)>>,
     <<"LOOKS_RIGHT_RUNS_WRONG", LooksRightRunsWrong(es)>>, <<"UNVERIFIED_COMPLETION", UnverifiedCompletion(es)>>,
     <<"SILENT_ERROR_SWALLOW", SilentErrorSwallow(es)>>, <<"LINEAR_SCAN", LinearScan(es, Knobs.scanReads)>>,
     <<"COMPACTION_AMNESIA", CompactionAmnesia(es)>>, <<"STYLE_IMPOSITION", StyleImposition(es)>>,
     <<"CREDENTIAL_LEAK", CredentialLeak(es)>>, <<"RUNAWAY_SESSION", RunawaySession(es)>> >>

\* run_detectors; overrides maps ids to severities, sessions is a sequence of
\* [events, estimated], incidents are the measured tails, kinds the tail rules in order
RunDetectors(sessions, enabled, overrides, incidents, kinds) ==
  LET Severity(id) == IF id \in DOMAIN overrides THEN overrides[id] ELSE "default"
      OfSession(n) ==
        LET hits == SelectSeq(SessionDetectors(sessions[n].events), LAMBDA d : d[1] \in enabled)
            Rows(d) == SetToSeq({[id |-> d[1], session |-> n, span |-> s, severity |-> Severity(d[1])] : s \in d[2]})
        IN IF sessions[n].estimated THEN <<>> ELSE FlattenSeq([k \in DOMAIN hits |-> Rows(hits[k])])
      OfTail(kind) ==
        LET rows == SelectSeq(incidents, LAMBDA r : r.kind = kind /\ r.exceeds) IN
        [k \in DOMAIN rows |-> [id |-> kind, session |-> rows[k].session, span |-> rows[k].span, severity |-> Severity(kind)]]
      tails == SelectSeq(kinds, LAMBDA k : k \in enabled)
  IN FlattenSeq([n \in DOMAIN sessions |-> OfSession(n)]) \o FlattenSeq([k \in DOMAIN tails |-> OfTail(tails[k])])
=============================================================================
