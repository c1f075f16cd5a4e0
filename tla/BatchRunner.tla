------------------------------ MODULE BatchRunner ------------------------------
(***************************************************************************)
(* runner.py: the pipeline of one trace, and the pool that maps it over    *)
(* work units.  A unit is a sequence of traces, each [date, model, fails]: *)
(* its day (0 for none), its model, and whether its pipeline raises.       *)
(***************************************************************************)
EXTENDS Integers, SequencesExt

CONSTANTS Units,        \* the units in discovery order, [size, traces]
          Workers, Jobs, Cpus,
          Since, Until, Families,   \* the options; 0 and {} for none
          MaxAsked, MaxDeaths,      \* bounds
          NoOutcome                 \* a place of the result that is not filled

VARIABLES jobs, queue,    \* how many workers; what is submitted and not taken
          working,        \* what each worker is at
          asked,          \* its counter, cumulative per process
          finished,       \* outcomes that wait to be collected
          outcomes, told, \* outcomes by index; the calls of on_done
          broken, deaths

rvars == <<jobs, queue, working, asked, finished, outcomes, told, broken, deaths>>
Free == [unit |-> 0, before |-> 0]
Outcome == [index : DOMAIN Units, runs : Nat, error : BOOLEAN, stats : Nat]
ASSUME RunnerAssumption ==
  /\ IsFiniteSet(Workers) /\ Units \in Seq(Range(Units))
  /\ \A i \in 1..Len(Units) : Units[i].size \in Nat /\ Units[i].traces \in Seq(Range(Units[i].traces))
  /\ Jobs \subseteq Nat /\ Cpus \in Nat /\ NoOutcome \notin Outcome

\* resolve_jobs
ResolveJobs(requested, n) ==
  IF n <= 1 THEN 1 ELSE IF requested > 0 THEN Min({requested, n}) ELSE Max({1, Min({Cpus, n})})

\* trace_matches_options
InDateRange(trace) ==
  \/ Since = 0 /\ Until = 0
  \/ trace.date # 0 /\ (Since = 0 \/ trace.date >= Since) /\ (Until = 0 \/ trace.date <= Until)
Matches(trace) == InDateRange(trace) /\ (Families = {} \/ trace.model \in Families)

\* _run_unit: the traces before one that raises keep their results
RunUnit(i, delta) ==
  LET wanted == {k \in DOMAIN Units[i].traces : Matches(Units[i].traces[k])}
      bad == {k \in wanted : Units[i].traces[k].fails}
  IN [index |-> i, runs |-> Cardinality({k \in wanted : \A b \in bad : k < b}), error |-> bad # {}, stats |-> delta]
Crashed(i) == [index |-> i, runs |-> 0, error |-> TRUE, stats |-> 0]

\* sorted with reverse=True keeps the order of equals
Ahead(i, j) == Units[i].size > Units[j].size \/ (Units[i].size = Units[j].size /\ i < j)
LargestFirst ==
  {q \in [DOMAIN Units -> DOMAIN Units] : Range(q) = DOMAIN Units /\ \A m, n \in DOMAIN q : m < n => Ahead(q[m], q[n])}

RunnerInit ==
  /\ jobs \in {ResolveJobs(j, Len(Units)) : j \in Jobs}
  /\ queue \in IF jobs = 1 THEN {[i \in DOMAIN Units |-> i]} ELSE LargestFirst
  /\ working = [w \in Workers |-> Free] /\ asked = [w \in Workers |-> 0]
  /\ finished = <<>> /\ outcomes = [i \in DOMAIN Units |-> NoOutcome] /\ told = <<>>
  /\ broken = FALSE /\ deaths = 0

Busy == {w \in Workers : working[w].unit # 0}
Take(w) ==
  /\ queue # <<>> /\ ~broken /\ w \notin Busy /\ Cardinality(Busy) < jobs
  /\ jobs = 1 => finished = <<>> /\ (asked[w] > 0 \/ \A v \in Workers : asked[v] = 0)
  /\ working' = [working EXCEPT ![w] = [unit |-> Head(queue), before |-> asked[w]]]
  /\ queue' = Tail(queue)
  /\ UNCHANGED <<jobs, asked, finished, outcomes, told, broken, deaths>>

\* System One is asked in the middle of a unit
AskSystemOne(w) ==
  /\ w \in Busy /\ asked[w] < MaxAsked
  /\ asked' = [asked EXCEPT ![w] = @ + 1]
  /\ UNCHANGED <<jobs, queue, working, finished, outcomes, told, broken, deaths>>

\* Mutant of Finish: what the process asked is told, not what the unit did.
FinishWithTotal(w) ==
  /\ w \in Busy
  /\ finished' = Append(finished, RunUnit(working[w].unit, asked[w]))
  /\ working' = [working EXCEPT ![w] = Free]
  /\ UNCHANGED <<jobs, queue, asked, outcomes, told, broken, deaths>>

Finish(w) ==
  /\ w \in Busy
  /\ finished' = Append(finished, RunUnit(working[w].unit, asked[w] - working[w].before))
  /\ working' = [working EXCEPT ![w] = Free]
  /\ UNCHANGED <<jobs, queue, asked, outcomes, told, broken, deaths>>

\* a worker process dies, with or without a unit: every future that is not done gets the error of the broken pool
Die ==
  /\ jobs > 1 /\ deaths < MaxDeaths /\ (Busy # {} \/ queue # <<>>)
  /\ LET lost == SetToSeq({working[v].unit : v \in Busy}) \o queue
     IN finished' = finished \o [k \in DOMAIN lost |-> Crashed(lost[k])]
  /\ working' = [v \in Workers |-> Free] /\ queue' = <<>> /\ broken' = TRUE /\ deaths' = deaths + 1
  /\ UNCHANGED <<jobs, asked, outcomes, told>>

\* as_completed: whichever is done; on_done is called by the parent
Collect ==
  /\ \E k \in DOMAIN finished :
       /\ outcomes' = [outcomes EXCEPT ![finished[k].index] = finished[k]]
       /\ told' = Append(told, finished[k].index)
       /\ finished' = RemoveAt(finished, k)
  /\ UNCHANGED <<jobs, queue, working, asked, broken, deaths>>

RunnerNext == Collect \/ Die \/ \E w \in Workers : Take(w) \/ AskSystemOne(w) \/ Finish(w)

RunnerSpec == RunnerInit /\ [][RunnerNext]_rvars

\* run_paths and _merge_jev_stats, over what run_units returned
Kept(list, o) == IF o = NoOutcome THEN list ELSE Append(list, o)
Returned == FoldLeft(Kept, <<>>, outcomes)
MergedStats == FoldFunction(+, 0, [n \in DOMAIN Returned |-> Returned[n].stats])

-----------------------------------------------------------------------------
\* What the runner keeps is what its types say.
RunnerTypeOK ==
  /\ jobs \in Nat /\ queue \in Seq(DOMAIN Units)
  /\ working \in [Workers -> [unit : DOMAIN Units \cup {0}, before : Nat]] /\ asked \in [Workers -> Nat]
  /\ finished \in Seq(Outcome) /\ outcomes \in [DOMAIN Units -> Outcome \cup {NoOutcome}]
  /\ told \in Seq(DOMAIN Units) /\ broken \in BOOLEAN /\ deaths \in Nat

\* Whatever order units finish in and whichever worker dies, each unit is told once, in the
\* end there is one outcome for each in discovery order, a unit that was done keeps its runs,
\* an error without a cause is not made up, and the counters of the units add up to those of the processes.
EveryUnitHasItsOutcome ==
  LET open == queue # <<>> \/ Busy # {} \/ finished # <<>> IN
  /\ IsInjective(told)
  /\ \A i \in DOMAIN Units : outcomes[i] # NoOutcome <=> Contains(told, i)
  /\ ~open => /\ [n \in DOMAIN Returned |-> Returned[n].index] = [i \in DOMAIN Units |-> i]
              /\ ~broken => MergedStats = FoldFunction(+, 0, asked)
  /\ \A i \in DOMAIN Units : outcomes[i] # NoOutcome =>
       \/ outcomes[i] = [RunUnit(i, 0) EXCEPT !.stats = outcomes[i].stats]
       \/ broken /\ outcomes[i] = Crashed(i)
=============================================================================
