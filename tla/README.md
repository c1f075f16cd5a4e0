# Verification of agent-hotwash

agent-hotwash reads the recorded sessions of coding agents, decodes them into
one event model, measures and classifies what happened, optionally asks remote
models about it, and writes reports. This directory holds TLA+ models of the
program in two layers. The first is where correctness depends on *order*:
processes, threads, kills, failures and retries that interleave. The second is
what the program computes from a decoded session, where correctness depends on
every *sequence* of events: these stages are operators, evaluated on every trace
up to a bound and held against what a plain definition says. TLC checks the
models on small instances; TLAPS proves the main invariants for every value of
the constants. `PROJECT.json` maps each definition to the source lines it
stands for.

## 1. The system

Sources are under `src/agent_hotwash/`. "Hard" names what tests hardly reach.

| component | files | state and operations | hard | correct when |
|---|---|---|---|---|
| Audit stages | `memory/pipeline.py`, `persistence.py`, `memory_cli.py` | one directory of artifacts, a manifest with one row per stage, a lock file; `run_audit`, `compare_saved`, `load_saved` | kills between writes, resuming, readers without the lock, failing stages | what can be loaded is one coherent result of the last run |
| Call cache and batches | `memory/extraction.py` | a file per request, a thread pool, per-request locks and errors; `cached_operations`, `ProviderCache.call` | identical requests at once, errors, early close, order | each request is sent once, results come in order, every call is accounted |
| Generation | `memory/synthesis.py` | a cooldown shared by workers; `generate`, `defer`, `wait` | retries, timeouts, a cooldown that moves | bounded attempts, nobody sends inside a cooldown |
| Consolidation | `memory/pipeline.py:185` | drafts merged level by level | termination | ends within 32 levels or with an error |
| Guidance, hooks, inputs | `memory/guidance.py`, `command_hooks.py`, `inputs.py` | pure over evidence | limits | citations resolve, bounds hold |
| Rate limiter | `semantic/ratelimit.py` | a token bucket shared by threads and processes | sleeping outside the lock | never more than burst + rate * time requests |
| System One asker | `semantic/client.py` | counters, a strict cache; `ask` with bisection | 413 in the middle, counters shared by threads | every question answered once or an error |
| Annotator | `semantic/pipeline.py` | grouped questions, relationship ledger | pool order, partial answers | values do not depend on the order |
| Runner | `runner.py` | work units over processes | a worker dies, largest first | one outcome per unit, in discovery order |
| Site | `report/site.py` | a front page and an evidence directory, replaced by renames | errors and kills between renames, two publishers | alone: the old pair or the new pair; overlapping: complete evidence of a publication that succeeded |
| Label store | `labels.py`, `cli.py:578` | an append-only file, a split pinned per root, a burned marker | two annotators, appends cut anywhere | taking turns: one split per root, one label per key, one report to `eval --held-out` |
| Codex forest | `sources/codex_forest.py` | threads and edges; link, break cycles, collect | duplicate ids, cycles, missing parents | a forest that holds every rollout once |
| Decoders | `sources/*.py` | events, turns, model calls, open groups, folded from records | a parent's records in front, compactions written twice, usage that comes late or not at all | nothing is billed twice, a range holds what it names |
| Structure, primitives, detectors, diagnostics | `structure/`, `primitives/`, `detectors/`, `diagnostics/` | pure over one trace | boundaries, partitions | a partition is a partition |
| Analytics, aggregation, reports | `analytics.py`, `aggregate.py`, `report/` | pure | none | layout, sums |

How they meet: `cli.py` starts either the runner (decode, detect, annotate and
report, one process per unit) or a memory audit (`memory_cli.py`). The audit
calls the input preparation, then provider stages through `cached_operations`,
whose workers share the call cache (files), the rate limiter and the cooldown
(memory). The runner's workers share the rate limiter (shared memory) and the
System One cache (files). Everything a run leaves goes through an atomic rename
(`atomic_bytes`, `write_html_site`) or an append (`append_records`).

## 2. Modules

| module | models | how |
|---|---|---|
| `PublishedAudit` | what an audit directory promises to a reader | abstract: withdraw, show, hide |
| `AuditStages` | `pipeline.py` 61-119, 335-713, `persistence.py`, `memory_cli.py` 21-48 | one action per file write or read |
| `MCAuditStages` | instance of it | symmetry over processes |
| `AuditStagesProofs` | theorems: types, locks, publication; the result, the reader, the refinement | |
| `CachedOperations` | `extraction.py` 128-319, 424-517, 856-890 | one action per step of the generator and of a worker |
| `MCCachedOperations` | instance of it | |
| `CachedOperationsProofs` | theorems | |
| `RateLimiter` | `semantic/ratelimit.py` 58-105 | lock, refill, take or sleep; a clock |
| `RateLimiterProofs` | theorems | |
| `Generation` | `synthesis.py` 33-159 | attempts and sleeps of workers; a clock |
| `GenerationProofs` | theorems | |
| `MCWaiting` | extends `RateLimiter` and `Generation` | `part` says which of them moves |
| `SitePublish` | `report/site.py` 84-180 | one action per call to the file system, and its failure |
| `SitePublishProofs` | theorems | |
| `LabelStore` | `labels.py`, `cli.py` 578-687 | one action per read and append of a command |
| `BatchRunner` | `runner.py` | a pool of workers that may die; operators for one unit |
| `Asker` | `semantic/client.py`, `pipeline.py` 60-213, `ratelimit.py` 120-157 | threads over one cache, bisection on a stack |
| `Annotation` | `semantic/pipeline.py` 214-808 | operators: what is asked, round by round |
| `Consolidation` | `memory/pipeline.py` 186-272 | one action per request and level |
| `MCCommands` | extends `SitePublish`, `LabelStore`, `Consolidation`, `BatchRunner` and `Asker` | `part` says which of them moves |
| `CommandsProofs` | theorems about `Consolidation`, `LabelStore`, `BatchRunner` and `Asker` | |
| `FoldLemmas` | facts about the library's operators, for all proof modules | |
| `CodexDecoder` | `sources/codex_native.py` 161-662, `codex_items.py` 214-257, 361-754 | one action per kind of record; the file's end |
| `CodexDecoderProofs` | theorems | |
| `SourceTrees` | `sources/detect.py`, `codex_forest.py`, `pi_native.py` 462-687 | operators: from files to units and trees |
| `Decoders` | `claude_native.py`, `codebench.py`, `pi_native.py`, `codex_legacy.py` | folds over records |
| `TraceStructure` | `canonical.py`, `structure/tasks.py`, `ledger.py`, `episodes.py`, `facts.py` | operators on events: turns, calls, atoms, tasks, facts |
| `Digest` | `structure/digest.py` | operators: the digest of an atom, shrunk to its budget |
| `FailureRecords` | `primitives/failures.py`, `outcome.py` | a fold: incidents, signals, resolution |
| `Handovers` | `primitives/handovers.py` | steps of joins: launches, children, returns |
| `Detectors` | `detectors/taxonomy.py`, `smells.py`, `registry.py`, `primitives/window.py`, `filestate.py`, `argnorm.py` | one operator per rule, a set of spans |
| `CostViews` | `diagnostics/cost_views.py` | sums over calls in integer units |
| `Diagnoses` | `diagnostics/waste.py`, `continuation.py`, `precedence.py`, `engine.py`, `semantic/results.py` | the cause of an atom's waste, passes over findings |
| `Tails` | `diagnostics/tails.py`, `work.py`, `repetition.py`, `cache_rebuilds.py`, `handover_cache.py`, `expensive.py` | folds over events, incidents |
| `Evidence` | `memory/inputs.py`, `extraction.py` 322-421, 533-632, 683-795, 894-1026 | families, records, requests, batches, proposals |
| `GuidanceReview` | `memory/guidance.py` | chunks, pairs, verdict |
| `TraceChecks`, `SourceChecks`, `EvidenceChecks` | what is expected of these operators, and the vocabularies | |
| `MCTraces` | instance of all trace modules | `part` says what grows |

### AuditStages

A file's content is a record tagged by `kind`; `Absent` and `Corrupt` stand for
a missing and an unreadable file. A digest is the content itself (SHA-256 is
taken as collision free). What a provider stage produces carries the identity
of its inputs (`in`) and the run that asked (`run`), because two answers to one
question may differ. `disk` is the directory, `lock` the flock; `man`, `res`,
`old` are the local variables `manifest`, `result` and `old` of `_execute`,
`active` its variable of that name, `value` the local of `stage()`. `pc` follows
the code line by line from one file write to the next: between two writes a
process can be killed, and between any two of its steps another process can
move. `current` and `retired` are history variables for the refinement.

* `Begin` takes the lock (`audit_lock`, non-blocking; a held lock refuses the
  command, which changes nothing), `PrepareInputs` succeeds or leads to
  `_preparation_failed` (four writes), `OpenManifest` reads the old manifest.
* `Announce...`: memory.json, the two reports, the manifest, in this order.
* `BeginStage`, `ResumeStage` / `ExecuteStage`, `CommitStage` are the function
  `stage()`; `Block` is the exception handler of `_execute`.
* `SaveResult` ... `PersistFinal` end the run; `RenderFails` is the inner handler.
* `ReadManifest` ... `Verify` are `load_saved`, `UseLoaded` the checks of
  `compare_saved`.
* `Crash` kills the holder of the lock, `Tamper` damages or deletes a file.

Abstractions: the two command dataset formats are one file `datasets`; versions,
configuration and usage counters are left out; `--semantic cached` and `live`
differ only in which provider calls fail, so both are the command `extract`; a
comparison writes into the directory it reads (with an output directory of its
own it interferes with less); a quarantined copy of a corrupt manifest is not
represented, as nothing reads it; `ListedFilesMatch` reads all listed files in
one step.

### CachedOperations

`main` is where the generator stands, `at[t]` where a worker stands. `pending`,
`queue`, `future` are the deque and the executor's queue and futures; `log[i]`
the call records that a future returns, `ledger` those in `cache.calls`;
`holder` and `refused` are `request_locks` and `request_errors`. A consumer may
resume, close early, or the iterator may raise. A worker takes an item, locks
its request, finds the answer or a reason to fail, asks, and saves; an invalid
answer leads to the repair request. `Again` repeats the batch over the same
files, with or without paid calls. Cache files persist across batches, and one
of them may be corrupt from the start.

Abstractions: what a request says is its identity; requests of screening and
comparison (`SystemOneKeys`) may be sent without paid calls, since the System
One client then answers from a cache of its own; the rate limiter and cooldown
are other components. The path with one worker is a loop without concurrency
and not modelled (hence the assumption that there are at least two threads).

### RateLimiter

`at[t]` follows `acquire`: enter, lock, refill, decide, take or sleep. The bucket
holds integer units (`Cost` of them are a token) instead of a float, so that a
tick is the time in which one unit accrues; rounding of floats is left out.
`elapsed` is the time since `bucket.last`, kept up to `Cap` since a refill never
credits more. Time may pass between any two steps, also inside the lock, and a
sleeper wakes late or in time. `span` and `spent` are history variables: a window
that may be opened whenever nobody is in the critical section, and the tokens
taken in it; `sure` says that a thread slept its time and was not overtaken.
`share` has no caller in the package and is not modelled.

### Generation

`cool` is what remains until `resume_at`, `nap` what remains of a sleep. `Retry`
covers the timeout path and the path of the retryable statuses, which do the same
with another source for the delay; `Finish` covers results and failures that
cannot be retried. `due` is a history variable: the delays that a provider asked
any worker to keep, as far as they have not passed.

### SitePublish

`front` is the number of the publication whose front page is visible, `evid` the
directory at the place of the evidence, `attic` the backup directories nobody
knows the name of any more. `at[p]` follows `write_html_site` from one call to
the file system to the next; a call that can fail has a twin named `...Fails`,
which also stands for the failures that other actors cause (a rename onto
something, a deletion of nothing). `Kill` ends a publisher anywhere and leaves a
deletion half done. The pages are built in one step; a deletion that is not killed
is one step. `met`, `meddled`, `trouble` and `shown` are history variables: two
publications overlapped, the user touched the place during one, a call failed by
itself, and the publications whose front page was put in place. They say under
which circumstances a property is claimed, and of what.

Two properties divide what is claimed. Without an overlap `SiteIsReplacedSafely`
asks for the pair: the front page and the evidence are the old ones or the new
ones. With overlaps `CollisionLeavesEvidence` asks for less, because the code does
not keep pairs together then (section 5): the evidence is never half deleted, and
if nobody was killed it ends complete and of a publication that succeeded, beside
the front page of one that did.

A run of the model shows one more thing: a rollback that is killed while it
deletes may leave the program's own directory without its marker, which every
later publication refuses until the user clears it (`User`).

### LabelStore, BatchRunner, Asker, Annotation, Consolidation

A command of `LabelStore` is `label` or `eval`; it reads the whole file, checks, and
appends its rows. An append is buffered, so that its bytes reach the file in any
portions: a row is written in three pieces (`StartRow`, `RestOfRow`, `EndLine`), and
a kill may leave whole rows of a batch, the beginning of one, or a row without its
line end. `lines` are the lines that have their end, `end` is what stands behind the
last of them: a row there is read like any other, and what is appended next is glued
to it. Commands work on one file without a lock: `overlap` is a history variable that
says so, and what is claimed of a store depends on it. While commands do not overlap,
the rows that can be read give one split per root and one label per key, also after
kills and resumed commands; kills spoil at most one line before the last, and without
a kill none is spoiled. Of the commands `eval --held-out` one reports, unless it is
killed before it marked the store; a plain `eval` is not counted (section 5).

`BatchRunner` starts units largest first, and a dying worker breaks the pool: all
units not finished become errors. A result that cannot be sent back
(`runner.py:316`) is left out: outcomes are plain data. Operators give the outcome of one unit (filters
by date and model, a raising pipeline). `Asker` has threads that take items, look
up each question in a strict cache, pack what is left into chunks and send them;
a refusal with 413 splits the chunk. The hits of one chunk are the difference of
a counter all threads advance, as in the code. `Annotation` says for one object
(an episode, a failure, a continuation, a relation) which questions are asked
about it, in which round, and which answers its values take over; as an operator on one
object it is checked with those on traces (`rounds` of `MCTraces`).
`Consolidation` runs the levels over any proposals of a small set.

### Operators on traces

`MCTraces` grows one sequence, and `part` says what its elements are: events for
the structure, digests, failures, handovers, detectors, costs, diagnoses or tails;
files for the forest and the discovery; records for the decoders; exports,
evidence records and guidance files for the audit; one object with every answer for
the rounds of questions. Each property is stated of the
sequence a step has just grown. `TraceChecks`, `SourceChecks` and `EvidenceChecks`
hold the expectations, each against a plain definition that shares no helper with
the code: turns tile, atoms divide the calls, incidents are what lies between two
successes, a family is a connected component, an amount is conserved.

An event is a record of what the stage tells apart; texts that regular expressions
classify arrive as flags, dollars as integers, probabilities as tenths, sizes as
small numbers. What only words differ in (messages of findings, labels of views,
evidence lists that repeat the span) is left out; what a stage passes to the next
is kept. A vocabulary has the events that the stage's conditions ask for, not
all combinations of fields.

### CodexDecoder

The state is what `_decode_v2` keeps between two records: `events`, `turns`
(`latest` is `turn_order[-1]`), the calls of all turns in one set `calls`, the
open call (`callEvents`, `callStart`), the replay gate (`start`, `secondMeta`,
`untilOwn`), the last compacted record, the open script group, and what the
fallback needs (`counts`, `seenUsage`). One action is one record: `Accept` is the
common head of the loop body with its gate, the rest of the action is the branch
for the record's type. `Finish` is everything behind the loop. Positions are
those of the list plus one.

Which records may follow each other is an assumption about the program that
writes rollouts, taken from the fixtures under `tests/`: a turn begins with
`task_started`, all records of a turn name this turn (or none), the next turn
begins when the last is over (`now`), and the records of a parent stand before
the child's own, except usage records. `thread` is what the record names as its
thread: items and usage records name their own, other records none. `pairs`,
`heard` and `lost` are history variables.

Texts, commands, artifacts, timestamps, models and the sums of usage are left
out: an event is its kind, turn, response, group and whether it carries usage. An
item of a compaction can be far from its record in time whatever their places
are, so that `LoneItem` is always possible. Thinking is an `assistant_msg` here.

What the properties leave out on purpose, seen while modelling and confirmed on
the code: a trailing call whose last event names no turn (`TailTurn`) is dropped,
so that an aborted file that ends with a call on an agent, a message between
agents or a compaction has events after `callStart` that no call holds, although
`docs/DESIGN.md:44` describes the unterminated trailing call; and with the
fallback on token counts the events behind the last count are in no call either.

## 3. Runs

| run | question | bounds |
|---|---|---|
| `audit_recovery` | Does any sequence of commands, kills and damage leave a directory that shows a stale, mixed or contradictory result? Does it implement `PublishedAudit`? | one process, 3 commands of any kind, 1 kill, 1 damaged file, 1 guidance snapshot |
| `audit_concurrent` | Do two processes keep out of each other's way, and does the reader without the lock get one run? | two processes, 3 commands |
| `audit_empty_compare` | Is what a comparison takes over ever empty? (violated) | one process, 2 kinds of command |
| `audit_reuse` | Are unchanged stages always reused? (violated) | one process, 2 kinds of command |
| `cached_operations` | All properties of a batch and of its repetition | two workers, 3 items, 3 requests, 2 batches |
| `waiting` | Is the budget kept, is a computed sleep enough, is somebody served? Are delays kept, attempts used up, calls ended? | three threads, a bucket of two tokens, ticks of half a token, a window of 5 ticks; three workers, two calls each, two retries, delays 0 and 2 |
| `commands` | Are the site, the label store, a batch, questions to System One and consolidation each safe on their own? | site: two publishers, 3 publications, 2 failing calls each, 1 kill; labels: 3 commands of two processes, 2 kills; batch: 3 units, 2 workers, 1 death; asking: 3 items, 2 threads, 2 failures; drafts: up to 3 levels |
| `decoded_traces` | Does the decoder place and bill everything once on every short rollout, and do all trace operators do what a plain definition says on every short trace? | rollouts of 5 records; traces of 2 to 10 elements of 23 vocabularies, every answer to the questions about one object (`Bound` in `MCTraces`) |
| `meta_windows` | Do the windows of detectors leave wrapper events out? (violated) | traces of up to 5 events |
| `burden_owner` | Does a continuation burden own its turn? (violated) | traces of the diagnoses part |
| `codex_replay` | Is every own record read once the own thread was heard? (violated) | rollouts of 5 records |
| `site_others` | Are directories of another origin protected at any time? (violated) | one publisher |

Why the bounds are enough to be interesting: three commands are a run, one that
disturbs what it left, and one that resumes from it; a kill or damage in each of
them is reached. With one process in `audit_recovery`, what happens between a command's
reads and another's lock is left to `audit_concurrent`, and to the theorems, which hold
for any number of processes together with kills and damage. One input selection
suffices because `prepared.json` of
another one is only a further way not to resume, and the theorems do not depend
on it. Three items on two workers make one item wait while two finish in either
order; two first requests and one repair make a request wanted first by one item
and as a repair by another, and shared by two.

Two tokens and three threads make one thread wait behind another's sleep; half a
token per tick makes a sleep shorter than a token's time; a window longer than
the bucket takes to fill makes the refill limit matter. Delays of 0 and 2 ticks let
a shorter delay follow a longer one. Two failing calls reach a failing rollback.

Five records are a turn, something collected, a bill, something after it and one
more record, or a compaction, two items for it and an event between; a turn that
begins inside a call, and two token counts around other events, fit as well.
`_COMPACTION_PAIR_GAP` is 12 in the code and 2 in the runs, so that both sides of
it are reached; the theorems hold for any gap and any length.

A trace is as long as its stage needs to meet itself: four structure events are a
message, a call, its usage and a boundary; six cost events put one response into two
calls and a child; ten are the window of the decline rule; three files are a cycle of
three, or one of two and a file below it; four evidence records exceed a batch and a request; two
guidance files exceed a request together. A vocabulary of eight and a length of four
are 4,681 traces.

The audit runs, the batch run, the commands and the trace runs switch deadlock checking off because
the system stops there: no command, item, publication or record is left.

### What the violated runs show

* `audit_empty_compare`: `--semantic off`, rendering fails, then a comparison.
  The blocked result has an empty candidate list, its synthesis row is "skipped",
  and `compare_saved` lets both pass, although it says it refuses an audit with
  "no completed proposals".
* `audit_reuse`: `extract`, then `off` (or a failed preparation), then
  `extract`: the manifest of the second run no longer knows the completed
  stages, so the third runs them again beside their undamaged artifacts. The
  individual requests are still answered from the call cache.
* `site_others`: the place is checked before the pages are built and used after.
  A directory that appears in between is moved away and deleted.

* `codex_replay`: a second header closes the gate "until this session's own
  thread_id appears", but only `replay_until_own_thread` is reset then;
  `seen_second_meta` stays set and every later record that names no thread is
  skipped. A forked file without an ordinal so loses its turn ends, its
  compactions and its calls on agents.

* `burden_owner`: `precedence.py:199` says a continuation burden owns its turn and
  drops the overlapping waste. The spans it compares are turn ids on one side and
  episode ids on the other, so that nothing is ever dropped.

* `meta_windows`: `docs/DESIGN.md:86` says that detector windows exclude meta events.
  `PANIC_REVERT` (`taxonomy.py:632`) and `EDIT_THRASH` (`taxonomy.py:248`) measure theirs in
  `Event.idx`, the place among all events: a failing test and a revert, or two edits,
  with wrapper events in between are too far apart for the rule, and near without them.
  `DetectorsAgree` asks of eight other rules that they find the same with and without
  such events.

### Fairness

`AuditStages` states safety only: nothing forces a command to be started or a
killed process to continue. `CachedOperations` assumes weak fairness of the
generator's steps and of each worker: the pool's threads run, the consumer
resumes or closes the generator it was given (`cached_operations` is always
consumed by a loop or closed with it), and an asked provider answers or fails
because its client has a timeout. `BatchEnds` holds under it. `RateLimiter` and
`Generation` assume that time passes and that each thread inside `acquire` or
`generate` is scheduled; nobody has to ask or to begin. `SomebodyIsServed` claims
no more than that tokens keep being taken: the lock and the sleeps have no queue,
so one thread can be overtaken for ever. `CallsEnd` relies on each worker making
finitely many calls (`MaxCalls`): with an endless supply of refused calls of the
others a sleeper could be late each time. The commands and the
traces state safety only.

## 4. Proofs

Each proof module extends the model it is about, proves its type invariant first
and uses it for the rest.

`AuditStagesProofs`

* `TypeCorrect`: `[]TypeOK`, which includes what a process must have at hand at
  each place (`PlacesOK`).
* `WritersAreExclusive`: `[]OneWriter`; inductive as it stands, given the types.
* `CompleteMeansSaved`: `[]CompleteStagesAreSaved`; with the next it is what the run
  checks as `ManifestIsTrue` (`ManifestStaysTrue`). Not inductive: a manifest in
  memory reaches the disk later, and a stage overwrites the artifact of a row
  that an earlier run completed. `SavedInv` adds what the holder of the lock
  knows at each place: its own manifest satisfies `SavedIn`; between announcing
  and the stage, the manifest on disk is its own, so that no row but those
  already completed by this run is complete; a value being committed is what was
  saved. Only the lock's holder writes, so `OneWriter` is used in every step.
* `RunningMeansDeclared`: `[]RunningStageIsDeclared`, from the same facts.
* `ResultStaysCoherent` (`[]ResultIsCoherent`), `ResultStaysToldOnce`
  (`[]ResultIsToldOnce`), `FinishedRunsStayShown` (`FinishedRunsAreShown`). None is
  inductive: a result becomes visible when the manifest that lists it is written, long
  after its writer decided what both say. `StoryInv` says what each party knows at
  each of its places: `DiskTells` (the manifest on disk is sound, agrees with the
  result it lists, and its reports are shown), `WriterTells` (the writer's manifest and
  result are drawn from its job, what it lists lies on disk, the stages before the due
  one are settled, nothing after it is listed) and `ReaderKnows` (what a reader has
  read so far is of the run whose manifest it read).
* `LoadIsOneRun`: `[]LoadedIsOneRun`. A reader meets files one after the other, while
  runs follow each other; `RunsInv` says that run numbers tell them apart (a run not yet
  announced is new to the directory, an announced writer's run is the current one).
* `PublishedHolds`: `AuditStages` implements `PublishedAudit` (`PublishedSpec`). Only
  four steps matter to the abstract audit: the announcement withdraws, the manifest
  that lists the result shows, its revision hides, the last manifest shows. Damage to
  a file hides or is not seen; every other step stutters.

`CachedOperationsProofs`

* `BatchTypes`, `AnswersAreKept` (an action property, from `Ask` and `Answer`
  under the lock).
* `RequestsAreShared`: `[]AskedOnce`. The invariant `AskedInv` says that a worker
  past the lock holds it (`HoldsLock`), that it asks only what was not asked
  (`AsksNew`), and that a request asked once is being asked, answered on file,
  or refused (`Settled`).
* `ShutdownIsComplete`: `[]NothingRunsAfterShutdown`. `CalmInv` ties futures to the
  queue and the workers: a queued future is in the queue or about to be
  cancelled, a running one has a worker, a lock has a working holder.
* `BatchesStayInOrder`: `[]BatchKeepsItemOrder`, from `AccountInv`, five parts that need
  each other. `WindowInv`: what stands before the oldest future of the window is
  collected and over, and the pending ones follow without a gap; `PoolInv`: an item
  waits once or is worked on by one worker; `OrderInv`: until the cleanup everything
  collected was handed on; `LogInv`: a request is recorded at most once in all logs
  together (from `AskedInv`), and the request of a worker that asks is not recorded yet;
  `LedgerInv`: the ledger is what the logs of the collected items hold, in their order.
  A worker's step touches only the running item it `Serves`.

`RateLimiterProofs`

* `BucketTypes`, with mutual exclusion (`TypedInv`): who is past the lock holds it.
* `BudgetIsKept`: `[]WithinBudget`. Not inductive: `BudgetInv` adds a potential, the
  credit of the bucket, which is what it holds and what the next refill adds, cut
  off at a full bucket unless somebody stands at it after a refill; tokens spent
  and credit together stay within a full bucket and the time of the window.
* `SleepSuffices`: `[]OneSleepIsEnough`. While a thread sleeps undisturbed, what
  the bucket holds, what accrued and what is left of the sleep add up to a token.

`GenerationProofs`: `GenerationTypes`; `CooldownHolds`, because what is due to a
worker never exceeds the cooldown; `NoAttemptIsLost`, because the requests sent by a
call and its variable `attempt` count the same.

`SitePublishProofs`

* `SiteTypes`; `FrontStaysBacked` and `SiteIsAtomic`, together `SiteStaysSafe`
  (`[]SiteIsReplacedSafely`), from `SiteInv`: publications
  are numbered, so that the visible front page is never of a later one; a publisher
  that is alone knows at each place where the old pair is (`Kept`, `Moved`) and
  that the front page is not its own until the last rename (`Unseen`).
* `LateComersTakeNothing`: `[]CollisionLeavesEvidence`. `CollisionInv` says, for
  publications that nobody meddles with and whose calls do not fail by themselves, that
  everything at the place or still held as a backup is whole (`AllWhole`), also when
  publishers are killed. If none is killed, the place is empty only while some
  publication `Fills` it (`Refilled`: it is about to install, or to bring back what it
  moved away); whole directories are of publications that showed their front page or are
  about to (`Owned`); and as long as none has, nothing was installed (`Begun`).
* `ForeignStays` (`ForeignIsKept`, an action property), from `ForeignInv`: as long as
  nobody meddles, no publication goes on beside something foreign, and none holds it
  as its backup.

`CodexDecoderProofs`

* `DecoderTypes`, `CallsAreDisjoint`, `StampsAreInTheirCalls`, `TurnsCover`, together
  `EventsHaveOnePlace` (`[]EventsArePlacedOnce`), from one invariant, `IInv`. What makes
  it inductive: an open call begins behind all closed ones (`CallsBehind`), token counts
  are remembered in the order of the stream (`CountsGrow`), and no event has a response
  before the first usage record (`UsageStamps`), so that the fallback may replace all
  calls. All records but two kinds only lengthen the stream by events without a response
  (`Grows`): `GrowthPreserves` covers them together, `UsagePreserves` and
  `FinishPreserves` the others.
* `BillsAreInCalls`, `CompactionsAreCounted`, together `TracesAreSingle`
  (`[]BillsAndCompactionsCountOnce`). `BillsInv`: while the file is read, what is billed
  ends a paid call and the other way round (`PaidCalls`); without a usage record no call
  is closed, so that the fallback may bill anew. `CountInv`: a known turn is not before
  the first one, and `untilOwn` waits only behind a second header (`Headed`); records
  paired as one compaction exist, and what waits for its partner has none (`Paired`).
  `UsageEffect` and `FinishEffect` say what the records that treat calls do to events.
* The number of compactions is a sum over turns, a fold of the library (`CountIsSum`). `SumsExist`,
  `SumOfNone` and `SumOfOneMore` of `FoldLemmas` prove, by induction on the number of
  turns, that the recursive function behind the fold exists and that one compaction
  more in one turn is one more in the sum.
* `Minimum` and `Maximum` (in `FoldLemmas`) say that least and greatest positions exist.

`CommandsProofs`

* `ConsolidationTypes`; `ConsolidationComesToAnEnd` (`[]ConsolidationEnds`), whatever the
  sizes, the drafts and what providers propose. `LoopInv` has three parts. `Shrinks`: the
  sizes seen at the loop's test fall strictly, and there are at most `MaxLevels` of them.
  `GroupsAreAll`: right after the split the groups, one after the other, are the
  candidates, and each fits a request; it rests on what the fold of `Joined` keeps.
  `LastOnes`: what is tested has distinct ids (the fold of `Placed`), and an end without
  an error after several batches had one last request.
* `LabelTypes` (`[](LabelTypeOK /\ OneAtATime)`); `StoreStaysTrustworthy`
  (`[]StoreIsTrustworthy`), for any number of commands, annotators, objects, features and
  kills. `StoreInv` adds to the property what a command knows between its reads and its
  append, as long as commands did not overlap: `AllStand` (the file ends where the only
  command stands, inside a row if it does; what it has yet to write `GoesWith` the store,
  which means new keys and one split, after the second look the pinned one), `Stored` (the
  rows that can be read are `Consistent`, and at most one line is spoiled), `Unspoiled`
  (none without a kill), `LookedAt` and `LookedOnce` (who was called with `--held-out`
  finds the store unburned and burns it), `ReportsAreSound` (each compared group has
  two rows of its own).
* `RunnerTypes`; `OutcomesAreComplete` (`[]EveryUnitHasItsOutcome`), for any number of
  units, workers and deaths. `RunnerInv`: a unit is at exactly one of four places, once
  (`InOnePlace`: queued, held by a worker, ready to be collected, filled in); who was told
  is who is filled in (`ToldOnce`); what waits or is filled in is what its unit did or says
  that the pool broke (`AllExplained`); what the outcomes account for is what the
  processes asked in units that are over (`Balanced`, two sums that a worker that finishes
  raises by the same number). `OverIsFull` says what follows at the end.

* `AskerTypes`; `QuestionsStayAccounted` (`[]QuestionsAreAccounted`), for any number of
  threads, items, questions, refusals and failures. `AskerInv` follows an item through
  its thread. `GroupsHold`: the groups not yet asked are apart, and what was given so
  far has one reason for each question of the others. `BatchesHold`: what is answered
  and what is on the stack of batches are together the first group, however often a
  batch was halved, and what is answered is in the cache, which only grows.
  `ChunkHolds`: a chunk answered from the cache saw the shared counter advance by its
  whole length at least, because nobody takes hits back; so the least of that difference
  and its length is its length, whatever other threads added. `Counted`: each chunk
  raises what is asked or found by its length, once. `Taken`: an item that was taken is
  finished, held by a thread, or an exception ended the call. That ids are of one
  question within an item is an assumption on `Items` (a feature bank refuses
  duplicates, `semantic/bank.py:153`).

`FoldLemmas`: least and greatest members (`Minimum`, `Maximum`), induction up to a number
for a set in the place of a formula (`Upwards`), the existence of the recursive function
behind a fold over a sequence and what each of its steps computes (`StepsExist`), sums
over functions (`SumOfNone`, `SumOfMore`), the sequence of a finite set
(`SequenceOfSet`), `FlattenSeq` of a longer sequence
(`FlattenAppend`, `FlattenGrown`). All inductions come from the library's theorem that
`<` on the naturals is well founded, as the least counterexample.

Assumptions: only the named ASSUMEs of the models (distinct markers for "nobody",
types of constants, at least two threads in a batch, a bucket of at least one
token).

Only model-checked: the properties of the trace operators (`TraceChecks`,
`SourceChecks`, `EvidenceChecks`, `RoundsHold` of `Annotation`). Many of those are built
from `SelectSeq` and `SortSeq`, which the prover does not expand, and from folds nested
in folds, whose every value would need an induction of its own. `BatchEnds`,
`SomebodyIsServed` and `CallsEnd` are liveness under fairness and stay with TLC.

## 5. What the code does that may surprise

Seen while modelling; the models do the same and the properties leave it out.

Sources
* `claude_native.py:73-78`: usage is attached when the first record of a response is
  read. If that record holds no block that becomes an event (a redacted thought),
  the usage is lost, although the comment at 127 speaks of the first emitted event.
  The same holds for the streams in `codebench.py`.
* `pi_native.py:495`: "Keep each as a root" holds only if no other file is a root; a
  cycle of files beside a proper root is dropped. Grandchildren are linked to the root.
  The first notice of a child without tokens hides a later one with the same key.
* `codebench.py`: a run's total replaces the placeholder outputs of the root only.
* `_common.py`: a field that is missing once is billed again in full by the next
  cumulated total.
* `codex_legacy.py`: `compacted` and `context_compacted` each give a compaction.
* `codex_native.py:584`: a trailing call whose last event names no turn is dropped
  (`docs/DESIGN.md:44` describes the unterminated trailing call); usage before the
  first turn is not billed.

Structure and primitives
* A user's message directly behind a usage record leaves an empty call with the same
  response.
* The trigger of a split by the cap is computed again as that of a first atom.
* A digest counts injected messages as instructions; messages that the budget
  clears are not counted as omitted; a result without an operation is listed beside
  its call; a result before its call is listed twice.
* Ledgers in semantic mode cover the candidate's turn only.

Detectors and diagnostics
* `waste.py:323`: `float(... or 1)` reads a novelty of 0 as 1.
* `cost_views.py` prices calls without regard to "usage_estimated".
* A suppressed `CONTEXT_ROT` leaves the row of its detector standing.
* The span of `RUNAWAY` counts logical events; an edit of two artifacts with one path
  counts twice.
* `overlong_trace` (`smells.py:233`) and `no_plan_dive` (`smells.py:375`) count all events,
  wrapper events included; the run `meta_windows` is about two more rules.

Audit and labels
* `inputs.py:290`: a correction whose antecedent came from another export of the
  session names none, while `assess_proposal_scope` finds it.
* Agreement compares the first two annotators of an object.
* Questions refused with 413 are counted again in the halves.
* Two publications to one place may end with the front page of one over the evidence
  of the other, so that links lead nowhere: one installs its evidence, the other moves
  it away, installs its own and puts its front page in place, then the first puts its
  front page there (`site.py:161-175`). Neither reports an error.
* A row whose append was killed just before its line end is read like any other, but
  the next append goes on behind it on the same line: both rows are lost to the readers,
  which then refuse the whole store (`labels.py:101-123`).
* `eval --held-out` says "Refuse if the held-out split was previously inspected."
  (`cli.py:654`), but a plain `eval` reports the held-out rows as well, as often as it is
  called, and leaves no mark. What is refused is the second call with the flag.
* Two annotators at once may pin a root to two splits: `append_records` looks the pins
  up and writes without a lock (`labels.py:116-123`).
* A rollback killed while it deletes leaves the program's own directory without its
  marker, which every later publication refuses until the user clears it.

## 6. Plan

Done: the modules of section 2. Left, in order of importance:

1. The choice between the Codex decoders and the second reading of a file;
   `command_hooks.py`; `tail_rules.py`.
2. `aggregate.py`: which runs form a cohort.

## 7. Not modelled

Rendering and layout of reports, floating-point sums (`analytics.py`, `aggregate.py`),
redaction and other regular expressions over text (`redact.py`, `commands.py`,
`errors.py`, `lexicons.py`, `command_hooks.py`), parsing of provider wire formats and
of configuration, and the command line's option handling: they keep no state, and
their difficulty lies in text or arithmetic that a finite model would only restate.
`PROJECT.json` lists each component with its status.
