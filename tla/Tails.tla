--------------------------------- MODULE Tails ---------------------------------
(***************************************************************************)
(* Measured extremes of a trace: diagnostics/tails.py, work.py,            *)
(* repetition.py, cache_rebuilds.py, handover_cache.py and expensive.py.   *)
(*                                                                         *)
(* A session is [id, root, estimated, reliable, model, events]; an event,  *)
(* at position idx plus 1, is a record of                                  *)
(*   kind  EventKind     asks   it is a user's message                     *)
(*   tool  tool name     key    tool and arguments      call   call id     *)
(*   ok    "yes", "no" or "unknown"                     cat    category    *)
(*   wait, poll, probe, inspect, check  what kind of call it is            *)
(*   coord its kind of coordination, or None                               *)
(*   pending  its text says that the work still runs                       *)
(*   ts, end  times, 0 for none         size   characters, None if unknown *)
(*   digest   of the full output, None if unknown                          *)
(*   group    response id or source record, None for neither               *)
(*   usage    [inp, out, read, write], each perhaps None; None without     *)
(*   model    the model its usage names, or None                           *)
(* An incident is [kind, session, at, value, cohort, over]: at is the      *)
(* sequence of its events' positions.                                      *)
(***************************************************************************)
EXTENDS Integers, SequencesExt

CONSTANTS Thresholds,      \* config.tails, by kind
          Retained,        \* config.tails.retained_per_cohort
          CacheMinWrite,   \* config.diagnostics.cache_min_write_tokens
          ReplayCalls,     \* how many metered calls make a replay, 5 in the code
          RepeatedChars,   \* how much repeated output counts, 1000 in the code
          None

Positions(s) == [i \in DOMAIN s |-> i]
IsCall(e) == e.kind = "tool_call"
IsResult(e) == e.kind = "tool_result"
Wrote(e) == IsCall(e) /\ e.cat = "write"
Sum(s) == FoldLeft(LAMBDA sum, x : sum + x, 0, s)
Sorted(S) == SelectSeq([i \in 1..Max(S \union {0}) |-> i], LAMBDA i : i \in S)
Incident(kind, s, at, value, cohort) ==
  [kind |-> kind, session |-> s.id, at |-> at, value |-> value, cohort |-> cohort, over |-> value >= Thresholds[kind]]
Flat(s) == FlattenSeq(s)
Both(pairs) == Flat(pairs)

\* _seconds: a difference that is not negative; there is none without both times
Seconds(from, to) == IF from = 0 \/ to = 0 \/ to < from THEN None ELSE to - from

\* a call and its only result, which comes later; both ids must be unambiguous
With(es, kind, id) == {i \in DOMAIN es : es[i].kind = kind /\ es[i].call = id /\ id # None}
PairOf(es, i) ==
  LET results == With(es, "tool_result", es[i].call) IN
  IF Cardinality(With(es, "tool_call", es[i].call)) # 1 \/ Cardinality(results) # 1 THEN 0
  ELSE IF Max(results) > i THEN Max(results) ELSE 0
Calls(es) == SelectSeq(Positions(es), LAMBDA i : IsCall(es[i]))
Paired(es) == SelectSeq(Calls(es), LAMBDA i : PairOf(es, i) # 0)

\* request_scopes: the last user's message up to here, 0 before the first
ScopeOf(es, i) == Max({0} \union {j \in 1..i : es[j].asks})

-----------------------------------------------------------------------------
(* build_tails, one operator per kind of incident.                           *)

ModelTails(s) ==
  LET metered(field) == SelectSeq(Positions(s.events), LAMBDA i : /\ s.reliable /\ s.events[i].usage # None
                                                                  /\ s.events[i].usage[field] # None)
      rows(kind, field) == [n \in DOMAIN metered(field) |-> LET i == metered(field)[n] IN
                              Incident(kind, s, <<i>>, s.events[i].usage[field], <<kind, s.model>>)]
  IN rows("model_input", "inp") \o rows("model_output", "out")

CallTails(s) ==
  LET es == s.events
      EndOf(i) == CASE es[i].end # 0 -> es[i].end [] es[PairOf(es, i)].end # 0 -> es[PairOf(es, i)].end [] OTHER -> es[PairOf(es, i)].ts
      Elapsed(i) == Seconds(es[i].ts, EndOf(i))
      kind(i) == IF es[i].wait THEN "parent_wait" ELSE "tool_latency"
      timed == SelectSeq(Paired(es), LAMBDA i : Elapsed(i) # None)
      sized == SelectSeq(Paired(es), LAMBDA i : es[PairOf(es, i)].size # None)
  IN [n \in DOMAIN timed |-> LET i == timed[n] IN Incident(kind(i), s, <<i, PairOf(es, i)>>, Elapsed(i), <<kind(i), es[i].tool>>)]
     \o [n \in DOMAIN sized |-> LET i == sized[n] IN
           Incident("output_volume", s, <<i, PairOf(es, i)>>, es[PairOf(es, i)].size, <<"output_volume", es[i].tool>>)]

\* the three accumulators: failing calls by key, the chain of failures, polls by key.
\* done collects what was flushed; a flushed accumulator that is too short leaves nothing.
FlushRetry(es, acc, key) ==
  LET tries == acc.retries[key]
      failed == Cardinality({k \in DOMAIN tries : es[tries[k][2]].ok = "no"})
  IN [acc EXCEPT !.retries[key] = <<>>,
                 !.done = IF Len(tries) < 2 \/ failed < 2 THEN @
                          ELSE Append(@, [kind |-> "retry_attempts", value |-> Len(tries), at |-> Both(tries)])]
FlushRetries(es, acc) == FoldLeft(LAMBDA a, key : FlushRetry(es, a, key), acc, SetToSeq(DOMAIN acc.retries))
FlushChain(acc) ==
  [acc EXCEPT !.chain = <<>>,
              !.done = IF Len(acc.chain) < 3 THEN @
                       ELSE Append(@, [kind |-> "failure_chain", value |-> Len(acc.chain), at |-> Both(acc.chain)])]
FlushPolls(acc) ==
  LET long == {k \in DOMAIN acc.polls : Len(acc.polls[k]) >= 3}
      row(k) == [kind |-> "poll_amplification", value |-> Len(acc.polls[k]), at |-> acc.polls[k]]
  IN [acc EXCEPT !.polls = [k \in DOMAIN @ |-> <<>>], !.done = @ \o SetToSeq({row(k) : k \in long})]

\* Mutant of TakeCall: a call without a result, or with a good one, does not end the chain.
TakeCallKeepsChain(es, acc, i) ==
  LET pair == <<i, PairOf(es, i)>> quiet == FlushPolls(acc) IN
  CASE es[i].poll                 -> [acc EXCEPT !.polls[es[i].key] = Append(@, i)]
    [] PairOf(es, i) = 0          -> FlushRetries(es, quiet)
    [] es[pair[2]].ok = "no"      -> [quiet EXCEPT !.retries[es[i].key] = Append(@, pair), !.chain = Append(@, pair)]
    [] OTHER                      -> quiet

TakeCall(es, acc, i) ==
  LET pair == <<i, PairOf(es, i)>>
      quiet == FlushPolls(acc)
  IN CASE es[i].poll                 -> [acc EXCEPT !.polls[es[i].key] = Append(@, i)]
       [] PairOf(es, i) = 0          -> FlushChain(FlushRetries(es, quiet))
       [] es[pair[2]].ok = "no"      -> [quiet EXCEPT !.retries[es[i].key] = Append(@, pair), !.chain = Append(@, pair)]
       [] quiet.retries[es[i].key] # <<>> ->
            FlushChain(FlushRetry(es, [quiet EXCEPT !.retries[es[i].key] = Append(@, pair)], es[i].key))
       [] OTHER                      -> FlushChain(quiet)

TakeEvent(es, acc, i) ==
  LET fresh == IF es[i].asks THEN FlushPolls(FlushChain(FlushRetries(es, acc))) ELSE acc
  IN IF IsCall(es[i]) THEN TakeCall(es, fresh, i) ELSE fresh

SequenceTails(s) ==
  LET es == s.events
      keys == {es[i].key : i \in {j \in DOMAIN es : IsCall(es[j])}}
      start == [retries |-> [k \in keys |-> <<>>], chain |-> <<>>, polls |-> [k \in keys |-> <<>>], done |-> <<>>]
      last == FlushPolls(FlushChain(FlushRetries(es, FoldLeftDomain(LAMBDA acc, i : TakeEvent(es, acc, i), start, es))))
  IN [n \in DOMAIN last.done |-> Incident(last.done[n].kind, s, last.done[n].at, last.done[n].value, <<last.done[n].kind>>)]

\* what one request of the user spread out; spawned are the positions of launches
RequestTails(s, spawned) ==
  LET es == s.events
      Group(r) == SelectSeq(Positions(es), LAMBDA i : ScopeOf(es, i) = r)
      Metered(r, field) == SelectSeq(Group(r), LAMBDA i : es[i].usage # None /\ es[i].usage[field] \notin {None, 0})
      Replay(kind, r, field) ==
        LET at == Metered(r, field) IN
        IF Len(at) < ReplayCalls \/ ~s.reliable THEN <<>>
        ELSE <<Incident(kind, s, at, Sum([n \in DOMAIN at |-> es[at[n]].usage[field]]), <<kind>>)>>
      Fanout(r) ==
        LET at == SelectSeq(Group(r), LAMBDA i : i \in spawned) IN
        IF Len(at) < 2 THEN <<>> ELSE <<Incident("delegation_fanout", s, at, Len(at), <<"delegation_fanout">>)>>
      requests == SelectSeq(Positions(es), LAMBDA i : es[i].asks)
  IN Flat([n \in DOMAIN requests |-> LET r == requests[n] IN
             Fanout(r) \o Replay("context_replay", r, "read") \o Replay("cache_creation", r, "write")])

\* how long a delegation took, or is open; rows are [parent, spawn, ts, lifetime, status]
DelegationTails(s, rows) ==
  LET latest == Max({0} \union {s.events[i].ts : i \in DOMAIN s.events})
      open(row) == row.lifetime = None /\ row.status \in {"unknown", "running-at-capture", "result-unavailable"}
      value(row) == IF open(row) THEN Seconds(row.ts, latest) ELSE row.lifetime
      told == SelectSeq(rows, LAMBDA row : row.parent = s.id /\ row.spawn \in DOMAIN s.events /\ value(row) # None)
      kind(row) == IF open(row) THEN "delegation_open" ELSE "delegation_lifetime"
  IN [n \in DOMAIN told |-> Incident(kind(told[n]), s, <<told[n].spawn>>, value(told[n]), <<kind(told[n])>>)]

-----------------------------------------------------------------------------
(* Model rounds (work.py): the events of one response or source record.      *)

Spoken(e) == e.kind \in {"assistant_msg", "thinking", "tool_call"} \/ e.usage # None
Groups(es) == {es[i].group : i \in {j \in DOMAIN es : Spoken(es[j])}} \ {None}
GroupAt(es, g) == SelectSeq(Positions(es), LAMBDA i : es[i].group = g /\ Spoken(es[i]))
UsageAt(es, g) == SelectSeq(GroupAt(es, g), LAMBDA i : es[i].usage # None)
\* a round counts only when exactly one usage was recorded for it
Rounds(s) == {g \in Groups(s.events) : s.reliable /\ Len(UsageAt(s.events, g)) = 1}
CallsIn(es, g) == SelectSeq(GroupAt(es, g), LAMBDA i : IsCall(es[i]))
EveryCall(es, at, P(_)) == \A n \in DOMAIN at : P(es[at[n]])

CategoryOf(es, g) ==
  LET at == CallsIn(es, g) IN
  CASE at = <<>>                                                           -> "no_tools"
    [] EveryCall(es, at, LAMBDA e : e.inspect)                             -> "inspection"
    [] EveryCall(es, at, LAMBDA e : e.coord # None)                        -> "coordination"
    [] EveryCall(es, at, LAMBDA e : e.cat \in {"execute", "write"})        -> "execution"
    [] OTHER                                                               -> "mixed"

\* the model of a session whose events name no other
OnlyModel(s) ==
  LET models == ({s.model} \union {s.events[i].model : i \in DOMAIN s.events}) \ {None}
  IN IF Cardinality(models) = 1 THEN CHOOSE m \in models : TRUE ELSE None
ModelOf(s, i) == IF s.events[i].model # None THEN s.events[i].model ELSE OnlyModel(s)

Fields == {"inp", "out", "read", "write"}
Incomplete(u) == \E f \in Fields : u[f] = None
Tokens(u, f) == IF u[f] = None THEN 0 ELSE u[f]

\* the activity table: rounds with one category, model, place and completeness are added up
Activity(s) ==
  LET es == s.events
      key(g) == LET u == UsageAt(es, g)[1]
                    coords == {es[CallsIn(es, g)[n]].coord : n \in DOMAIN CallsIn(es, g)}
                IN [category |-> CategoryOf(es, g), model |-> ModelOf(s, u), root |-> s.root,
                    incomplete |-> Incomplete(es[u].usage),
                    coord |-> IF CategoryOf(es, g) # "coordination" THEN None
                              ELSE IF Cardinality(coords) = 1 THEN CHOOSE c \in coords : TRUE ELSE "mixed"]
      of(k) == {g \in Rounds(s) : key(g) = k}
      usage(k) == [f \in Fields |-> MapThenSumSet(LAMBDA g : Tokens(es[UsageAt(es, g)[1]].usage, f), of(k))]
  IN [k \in {key(g) : g \in Rounds(s)} |->
        [rounds |-> Cardinality(of(k)), usage |-> usage(k), calls |-> MapThenSumSet(LAMBDA g : Len(CallsIn(es, g)), of(k))]]

InspectionRounds(s) ==
  LET es == s.events
      rounds(scope) == {g \in Rounds(s) : CategoryOf(es, g) = "inspection" /\ ScopeOf(es, UsageAt(es, g)[1]) = scope}
      at(scope) == Sorted(UNION {ToSet(CallsIn(es, g)) \union {UsageAt(es, g)[1]} : g \in rounds(scope)})
      many == SelectSeq(<<0>> \o Positions(es), LAMBDA scope : Cardinality(rounds(scope)) >= 3)
  IN [n \in DOMAIN many |-> Incident("inspection_rounds", s, at(many[n]), Cardinality(rounds(many[n])), <<"inspection_rounds">>)]

StatusProbes(s) ==
  LET es == s.events
      probes(scope) == SelectSeq(Paired(es), LAMBDA i : es[i].probe /\ ScopeOf(es, i) = scope)
      at(scope) == Sorted(UNION {{i, PairOf(es, i)} : i \in ToSet(probes(scope))})
      many == SelectSeq(<<0>> \o Positions(es), LAMBDA scope : Len(probes(scope)) >= 3)
  IN [n \in DOMAIN many |-> Incident("status_probes", s, at(many[n]), Len(probes(many[n])), <<"status_probes">>)]

\* the pending answers to one invocation that repeat one of its earlier answers
UnchangedPending(es, scope) ==
  LET answers == {i \in ToSet(Paired(es)) : /\ es[i].probe /\ ScopeOf(es, i) = scope /\ es[PairOf(es, i)].digest # None
                                            /\ es[PairOf(es, i)].pending /\ es[PairOf(es, i)].ok # "no"}
      print(i) == <<es[i].key, es[PairOf(es, i)].digest>>
  IN Cardinality(answers) - Cardinality({print(i) : i \in answers})

OutputRepetition(s) ==
  LET es == s.events
      good == SelectSeq(Paired(es), LAMBDA i : es[i].inspect /\ es[PairOf(es, i)].ok = "yes" /\ es[PairOf(es, i)].digest # None)
      print(i) == <<ScopeOf(es, i), es[i].key, es[PairOf(es, i)].digest>>
      alike(p) == SelectSeq(good, LAMBDA i : print(i) = p)
      sizes(p) == {es[PairOf(es, alike(p)[n])].size : n \in DOMAIN alike(p)}
      extra(p) == (CHOOSE x \in sizes(p) : TRUE) * (Len(alike(p)) - 1)
      hits == {p \in {print(good[n]) : n \in DOMAIN good} :
                 Len(alike(p)) >= 2 /\ Cardinality(sizes(p)) = 1 /\ None \notin sizes(p) /\ extra(p) >= RepeatedChars}
      row(p) == Incident("output_repetition", s, Sorted(UNION {{i, PairOf(es, i)} : i \in ToSet(alike(p))}), extra(p), <<"output_repetition">>)
  IN SetToSeq({row(p) : p \in hits})

-----------------------------------------------------------------------------
(* Repeated work (repetition.py).  A handover here is [parent, spawn,        *)
(* agent, review, files, finals, rejected]; finals are positions in the      *)
(* parent's session.                                                         *)

Launches(s, rows) ==
  LET es == s.events
      clear(row) == /\ row.parent = s.id /\ row.spawn \in DOMAIN es /\ ~row.rejected /\ row.review
                    /\ es[row.spawn].call # None => Cardinality(With(es, "tool_call", es[row.spawn].call)) = 1
                    /\ row.agent # None => Cardinality({k \in DOMAIN rows : rows[k].parent = s.id /\ rows[k].agent = row.agent}) = 1
      returns(row) == {i \in row.finals : /\ i > row.spawn /\ i \in DOMAIN es
                                          /\ es[i].call # None => Cardinality(With(es, "tool_result", es[i].call)) = 1}
      kept == SelectSeq(rows, clear)
  IN [n \in DOMAIN kept |-> [row |-> kept[n], spawn |-> kept[n].spawn, return |-> IF returns(kept[n]) = {} THEN 0 ELSE Min(returns(kept[n]))]]

DelegationRepetition(s, rows) ==
  LET es == s.events
      all == SortSeq(Launches(s, rows), LAMBDA a, b : a.spawn < b.spawn)
      \* the earlier one had returned in the same request, and shares a file
      prior(k) == {j \in DOMAIN all : /\ all[j].spawn < all[j].return /\ all[j].return < all[k].spawn
                                      /\ ScopeOf(es, all[j].spawn) = ScopeOf(es, all[k].spawn)
                                      /\ all[j].row.files \intersect all[k].row.files # {}}
      at(k) == Sorted({all[k].spawn} \union UNION {{all[j].spawn, all[j].return} : j \in prior(k)})
      hits == SelectSeq(Positions(all), LAMBDA k : prior(k) # {})
  IN [n \in DOMAIN hits |-> Incident("delegation_repetition", s, at(hits[n]), Cardinality(prior(hits[n])), <<"delegation_repetition">>)]

VerificationRepetition(s) ==
  LET es == s.events
      good == SelectSeq(Paired(es), LAMBDA i : LET r == PairOf(es, i) IN
                /\ es[i].check /\ es[r].ok = "yes" /\ ~es[r].pending /\ ScopeOf(es, i) = ScopeOf(es, r))
      print(i) == <<ScopeOf(es, i), es[i].key>>
      alike(p) == SelectSeq(good, LAMBDA i : print(i) = p)
      hits == {p \in {print(good[n]) : n \in DOMAIN good} : Len(alike(p)) >= 2}
  IN SetToSeq({Incident("verification_repetition", s, Sorted(UNION {{i, PairOf(es, i)} : i \in ToSet(alike(p))}),
                        Len(alike(p)) - 1, <<"verification_repetition">>) : p \in hits})

-----------------------------------------------------------------------------
(* Cache transitions (handover_cache.py and cache_rebuilds.py).              *)

\* observed_model_calls: first, last and the one usage of each group, in order of the groups
ObservedCalls(s) ==
  LET es == s.events
      one(g) == LET at == GroupAt(es, g) u == UsageAt(es, g) IN
                [first |-> at[1], last |-> Last(at), usage |-> IF Len(u) = 1 THEN es[u[1]].usage ELSE None,
                 model |-> IF Len(u) = 1 THEN ModelOf(s, u[1]) ELSE None]
  IN SortSeq(SetToSeq({one(g) : g \in Groups(es)}), LAMBDA a, b : a.first < b.first)

ContextChanges(es, from, to) == \E i \in from..to : i \in DOMAIN es /\ es[i].kind \in {"compaction", "context_edit"}

\* a full write right after a response that read the cache
CacheRebuilds(s) ==
  LET es == s.events
      calls == ObservedCalls(s)
      rebuilt(k) ==
        LET a == calls[k - 1] b == calls[k] IN
        /\ a.usage # None /\ b.usage # None /\ b.model # None /\ b.model = a.model
        /\ ScopeOf(es, a.first) = ScopeOf(es, b.first) /\ ScopeOf(es, b.first) > 0
        /\ a.usage.read \notin {None, 0} /\ b.usage.read = 0 /\ b.usage.write # None
        /\ b.usage.write > 0 /\ b.usage.write >= CacheMinWrite
        /\ ~ContextChanges(es, a.first + 1, b.last)
      in(scope) == {k \in 2..Len(calls) : rebuilt(k) /\ ScopeOf(es, calls[k].first) = scope}
      at(scope) == Sorted(UNION {{calls[k - 1].first, calls[k].first, calls[k].last} : k \in in(scope)})
      hits == SelectSeq(Positions(es), LAMBDA scope : in(scope) # {})
  IN IF ~s.reliable THEN <<>>
     ELSE [n \in DOMAIN hits |-> Incident("cache_rebuilds", s, at(hits[n]), Cardinality(in(hits[n])), <<"cache_rebuilds">>)]

\* build_cache_waits: the responses before and after the wait at position i
CacheWait(s, i) ==
  LET es == s.events
      results == {j \in With(es, "tool_result", es[i].call) : j > i}
      result == IF Cardinality(results) = 1 /\ Cardinality(With(es, "tool_call", es[i].call)) = 1 THEN Max(results) ELSE 0
      calls == ToSet(ObservedCalls(s))
      before == {c \in calls : c.first <= i}
      after == {c \in calls : result # 0 /\ c.first > result}
      prior == CHOOSE c \in before : \A d \in before : d.last <= c.last
      next == CHOOSE c \in after : \A d \in after : c.first <= d.first
      gap == IF before = {} THEN {} ELSE (prior.last + 1)..(IF after = {} THEN Max({result, i}) ELSE next.first - 1)
      comparable == /\ s.reliable /\ ~s.estimated /\ before # {} /\ after # {}
                    /\ prior.model # None /\ prior.model = next.model
                    /\ prior.usage # None /\ next.usage # None
                    /\ prior.usage.read # None /\ next.usage.read # None /\ next.usage.write # None
                    /\ ~\E j \in gap : es[j].kind \in {"compaction", "context_edit", "user_msg"}
  IN [parent |-> s.id, wait |-> i, seconds |-> IF result = 0 THEN None ELSE Seconds(es[i].ts, es[result].ts),
      next |-> IF after = {} THEN 0 ELSE next.first, comparable |-> comparable,
      rewrite |-> comparable /\ next.usage.read = 0 /\ next.usage.write > 0 /\ next.usage.write >= CacheMinWrite,
      cost |-> IF after = {} \/ next.usage = None THEN None ELSE next.usage.write]

\* cache_wait_cohorts, for one cohort: a wait for several children counts once, and so does a response
CohortOf(waits) ==
  LET first == {k \in DOMAIN waits : \A j \in 1..(k - 1) : <<waits[j].parent, waits[j].wait>> # <<waits[k].parent, waits[k].wait>>}
      paid == {k \in first : waits[k].next # 0 /\ waits[k].cost # None
                             /\ \A j \in first : j < k /\ waits[j].cost # None => <<waits[j].parent, waits[j].next>> # <<waits[k].parent, waits[k].next>>}
  IN [waits |-> Cardinality(first), comparable |-> Cardinality({k \in first : waits[k].comparable}),
      rewrites |-> Cardinality({k \in first : waits[k].rewrite}),
      cost |-> MapThenSumSet(LAMBDA k : waits[k].cost, paid)]

-----------------------------------------------------------------------------
(* Retention: the top of each cohort and everything over its threshold.      *)

SessionTails(s, rows) ==
  IF s.estimated THEN <<>>
  ELSE ModelTails(s) \o CallTails(s) \o SequenceTails(s)
       \o RequestTails(s, {rows[k].spawn : k \in {j \in DOMAIN rows : rows[j].parent = s.id}})
       \o InspectionRounds(s) \o StatusProbes(s) \o OutputRepetition(s)
       \o DelegationRepetition(s, rows) \o VerificationRepetition(s) \o CacheRebuilds(s)

AllTails(sessions, rows) ==
  Flat([n \in DOMAIN sessions |-> SessionTails(sessions[n], rows) \o DelegationTails(sessions[n], rows)])

\* ties go by the id of the row, here by its place among all
RankIn(all, k) ==
  Cardinality({j \in DOMAIN all : all[j].cohort = all[k].cohort
                                  /\ (all[j].value > all[k].value \/ (all[j].value = all[k].value /\ j < k))})
RetainedTails(all) == SelectSeq(Positions(all), LAMBDA k : RankIn(all, k) < Retained \/ all[k].over)

\* _percentile by position: the value at ceil(n * pct / 100) of the sorted values
Percentile(values, pct) == SortSeq(values, <)[(Len(values) * pct + 99) \div 100]

\* expensive_tail: per basis the top five percent by cost, with the ties at the cutoff; a run
\* is [trace, cost, basis]
ExpensiveRuns(runs) ==
  LET first == SelectSeq(Positions(runs), LAMBDA k : \A j \in 1..(k - 1) : runs[j].trace # runs[k].trace)
      priced(basis) == SelectSeq(first, LAMBDA k : runs[k].cost \notin {None, 0} /\ runs[k].basis = basis)
      costs(basis) == SortSeq([n \in DOMAIN priced(basis) |-> runs[priced(basis)[n]].cost], >)
      cutoff(basis) == costs(basis)[(Len(costs(basis)) * 5 + 99) \div 100]
  IN SelectSeq(first, LAMBDA k : runs[k].cost \notin {None, 0} /\ runs[k].cost >= cutoff(runs[k].basis))
=============================================================================
