------------------------------- MODULE MCTraces -------------------------------
(***************************************************************************)
(* The decoder of rollouts, and what is computed from a decoded trace.     *)
(* One run checks both: `part` says which.  The decoder reads records and  *)
(* the trace stays empty; in every other part the trace grows by an event  *)
(* of the part's vocabulary, whose operators are evaluated on it.          *)
(***************************************************************************)
EXTENDS CodexDecoder, TLC

CONSTANTS NoValue, Parts

VARIABLES part, trace

T == INSTANCE TraceChecks WITH None <- NoValue
F == INSTANCE SourceChecks
X == INSTANCE EvidenceChecks
N == INSTANCE Annotation WITH None <- NoValue, ShownAround <- 2, Routing <- [f |-> {"a", "b"}, g |-> {"b"}]

Vocabulary == [structure |-> T!StructureEvents, atoms |-> T!AtomEvents, failures |-> T!FailureEvents,
               handovers |-> T!HandoverEvents, detectors |-> T!DetectorEvents, decline |-> T!LongEvents,
               windows |-> T!WindowEvents,
               words |-> 1..3, costs |-> T!CostEvents, diagnoses |-> T!DiagnosisEvents, tails |-> T!TailEvents,
               forest |-> F!ForestFiles, snapshots |-> F!SnapshotFiles, sessions |-> 0..5, notices |-> F!NoticeEvents,
               claude |-> F!ClaudeRecords, pi |-> F!PiRecords, legacy |-> F!LegacyRecords, totals |-> F!TotalRecords,
               exports |-> X!ExportTraces, records |-> X!EvidenceRecords, guidance |-> X!GuidanceFiles]
Bound == [structure |-> 4, atoms |-> 5, failures |-> 5, handovers |-> 4, detectors |-> 4, decline |-> 10, windows |-> 5,
          words |-> 6, costs |-> 6, diagnoses |-> 4, tails |-> 4,
          forest |-> 3, snapshots |-> 4, sessions |-> 4, notices |-> 4, claude |-> 4, pi |-> 3, legacy |-> 5, totals |-> 5,
          exports |-> 3, records |-> 4, guidance |-> 2, rounds |-> 1]
Beginning == [p \in DOMAIN Bound |-> CASE p = "atoms" -> T!Request [] p = "costs" -> T!CostRequest [] OTHER -> <<>>]

MCInit ==
  /\ part \in Parts
  /\ trace = IF part = "codex" THEN <<>> ELSE Beginning[part]
  /\ Init
  /\ part # "codex" => start = 0

Decode == part = "codex" /\ Next /\ UNCHANGED <<part, trace>>

Observe ==
  /\ part # "codex" /\ Len(trace) < Bound[part]
  /\ \E e \in IF part = "rounds" THEN N!AskedAbout ELSE Vocabulary[part] : trace' = Append(trace, e)
  /\ UNCHANGED <<part, vars>>

MCSpec == MCInit /\ [][Decode \/ Observe]_<<vars, part, trace>>

-----------------------------------------------------------------------------
(* Each property is stated of the trace that a step has just grown.        *)

Grown(p) == part = p /\ trace' # trace

\* Turns, model calls, atoms and tasks each divide a trace, and what is counted and told of
\* an atom is what its events say (canonical.py, structure/).
StructureDividesTrace ==
  [][ /\ Grown("structure") => T!StructureHolds(trace')
      /\ Grown("atoms") => T!AtomsHold(trace') ]_trace

\* Incidents end with a success and nowhere else; launches, children and returns are matched
\* without doubles; windows and banded distances are what a plain definition says (primitives/).
\* What presumes an answer is asked of System One after it (semantic/pipeline.py).
RecordsMatchSession ==
  [][ /\ Grown("failures") => T!IncidentsHold(trace')
      /\ Grown("handovers") => T!HandoversHold(trace')
      /\ Grown("words") => T!PrimitivesHold(trace')
      /\ Grown("rounds") => N!RoundsHold(trace'[1]) ]_trace

\* Each file is read once and linked to one parent at most, each reply is billed once, and no
\* message of two records is told twice (sources/). Each record of an audit is told, asked about
\* and handed on once, and counts for one family; each proposal is compared with each piece of
\* guidance once (memory/).
RecordsAreReadOnce ==
  [][ /\ Grown("forest") => F!ForestHolds(trace')
      /\ Grown("snapshots") => F!SnapshotsHold(trace')
      /\ Grown("sessions") => F!SessionsHold(trace')
      /\ Grown("notices") => F!EstimatesHold(trace')
      /\ Grown("claude") => F!ClaudeHolds(trace')
      /\ Grown("pi") => F!PiHolds(trace')
      /\ Grown("legacy") => F!LegacyHolds(trace')
      /\ Grown("totals") => F!TotalsHold(trace')
      /\ Grown("exports") => X!ExportsHold(trace')
      /\ Grown("records") => X!EvidenceHolds(trace')
      /\ Grown("guidance") => X!GuidanceHolds(trace') ]_trace

\* The rules that count logical events find the same with and without events that no model
\* saw; a storm is one command again and again, with a failure and no write in it; and rules
\* about the same thing agree with each other (detectors/taxonomy.py, smells.py).
DetectorsAgree == [][Grown("detectors") \/ Grown("decline") => T!DetectorsHold(trace')]_trace

\* "Detector windows exclude `meta` wrapper events via `logical_events(session)`"
\* (docs/DESIGN.md:86), of EDIT_THRASH and PANIC_REVERT (detectors/taxonomy.py:248, 632).
DetectorWindowsExcludeMeta == [][Grown("windows") => T!WindowsIgnoreMeta(trace')]_trace

\* Money is neither lost nor counted twice between the views (diagnostics/cost_views.py).
MoneyIsConserved == [][Grown("costs") => T!MoneyIsConserved(trace')]_trace

\* Waste has one cause and is no more than what was spent (diagnostics/waste.py, precedence.py).
WasteHasOneCause == [][Grown("diagnoses") => T!DiagnosesHold(trace')]_trace

\* "CONTINUATION_BURDEN owns its turn: drop overlapping agent-waste dollars"
\* (diagnostics/precedence.py:199).
BurdenOwnsItsTurn == [][Grown("diagnoses") => T!BurdenOwnsTurn(trace')]_trace

\* Incidents are what happened, and none that matters is dropped (diagnostics/tails.py, work.py).
TailsAreKept == [][Grown("tails") => T!TailsHold(trace')]_trace
=============================================================================
