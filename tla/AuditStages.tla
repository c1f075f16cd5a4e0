---------------------------- MODULE AuditStages ----------------------------
(***************************************************************************)
(* The memory audit of agent-hotwash as a staged, resumable pipeline over  *)
(* one artifact directory (src/agent_hotwash/memory/pipeline.py,           *)
(* persistence.py, memory_cli.py).                                         *)
(*                                                                         *)
(* Several processes share the directory: the directory name depends only  *)
(* on the input selection, so an offline, a cached and a live run, or a    *)
(* comparison with guidance, meet in the same place.  A writer holds a     *)
(* non-blocking flock and publishes each file atomically (temporary file,  *)
(* fsync, rename), so a crash leaves some prefix of its writes.  A reader  *)
(* (load_saved) takes no lock.                                             *)
(*                                                                         *)
(* Data.  A file's content is a record tagged by "kind".  A digest is the  *)
(* content itself: SHA-256 is taken to be collision free.  The output of a *)
(* provider stage carries the identity of its inputs and the run that      *)
(* asked, because two provider answers to one question may differ.         *)
(***************************************************************************)
EXTENDS Naturals, FiniteSets

CONSTANTS
  Procs,       \* processes that run an audit or a comparison
  NoProc,      \* nobody holds the lock
  Sources,     \* what the input selection can contain when it is prepared
  Guidances,   \* selected guidance snapshots that hold at least one chunk
  NoGuidance,  \* no usable guidance selected
  MaxRuns,     \* bound on the commands started on the directory
  MaxCrashes,  \* bound on the processes killed
  MaxTampers,  \* bound on the files damaged or deleted from outside
  Fragile,     \* the files that may be damaged or deleted from outside
  Kinds        \* the commands in use, a subset of {"off", "extract", "compare"}

ASSUME ProcsAssumption == NoProc \notin Procs
ASSUME GuidanceAssumption == NoGuidance \notin Guidances
ASSUME BoundsAssumption == /\ MaxRuns \in Nat
                           /\ MaxCrashes \in Nat
                           /\ MaxTampers \in Nat
ASSUME KindsAssumption == Kinds \subseteq {"off", "extract", "compare"}

STAGES == {"preparation", "screening", "synthesis", "comparison", "rendering"}

\* The artifact a stage saves, and the artifacts a manifest may list.
ArtifactOf == [ preparation |-> "prepared.json", screening  |-> "features.json",
                synthesis   |-> "proposals.json", comparison |-> "comparison.json" ]
Artifacts == {"prepared.json", "features.json", "proposals.json",
              "comparison.json", "guidance.json", "memory.json"}
Reports == {"report.md", "report.html"}
Files == Artifacts \cup Reports \cup {"manifest.json", "datasets"}
ASSUME FragileAssumption == Fragile \subseteq Files \ Reports

(***************************************************************************)
(* Contents.                                                               *)
(***************************************************************************)
Absent  == [kind |-> "absent"]
Corrupt == [kind |-> "corrupt"]
Damaged == {Absent, Corrupt}

Evidence(s)          == [kind |-> "evidence", source |-> s]
GuidanceFile(g)      == [kind |-> "guidance", snapshot |-> g]
Dataset(ev)          == [kind |-> "dataset", of |-> ev]
Output(stage, in, r) == [kind |-> stage, in |-> in, run |-> r]
Running              == [kind |-> "running"]
Report(res)          == [kind |-> "report", of |-> res]

PendingRow == [status |-> "pending", in |-> Absent, out |-> Absent]
SkippedRow == [status |-> "skipped", in |-> Absent, out |-> Absent]

FreshManifest(r) ==
  [ kind      |-> "manifest",
    run       |-> r,
    stages    |-> [s \in STAGES |-> PendingRow],
    artifacts |-> [f \in Artifacts |-> Absent],
    datasets  |-> Absent ]

FreshResult(r, ev) ==
  [ kind |-> "result", run |-> r, evidence |-> ev, status |-> "running",
    failing |-> "none", hooks |-> FALSE, features |-> Absent,
    candidates |-> Absent, assessments |-> Absent ]

\* What _preparation_failed leaves: its result names no run.
FailedResult ==
  [FreshResult(0, Absent) EXCEPT !.status = "blocked", !.failing = "preparation"]
FailedManifest ==
  [FreshManifest(0) EXCEPT !.stages["preparation"].status = "blocked"]

NewJob(kind, r, g) == [kind |-> kind, run |-> r, evidence |-> Absent,
                       guidance |-> g, saved |-> Absent]
NoJob  == NewJob("none", 0, NoGuidance)
NoRead == [manifest |-> Absent, evidence |-> Absent, result |-> Absent]

VARIABLES
  disk,     \* the content of every file of the directory
  lock,     \* the process that holds .audit.lock
  current,  \* history: the run that announced itself last
  retired,  \* history: the runs that announced themselves before it
  runs,     \* how many commands were started: the source of run ids
  crashes,  \* how many processes were killed
  tampers,  \* how many files were damaged from outside
  pc,       \* where each process stands
  job,      \* what it was asked to do
  old,      \* the manifest it found when it opened the directory
  man,      \* its own manifest, in memory
  res,      \* its own result, in memory
  active,   \* the stage a failure is blamed on
  value,    \* the output of the stage being saved
  read      \* what it read back with load_saved

local   == <<job, old, man, res, active, value, read>>
bounds  == <<runs, crashes, tampers>>
history == <<current, retired>>
vars    == <<disk, lock, history, pc, local, bounds>>

Init ==
  /\ disk = [f \in Files |-> Absent]
  /\ lock = NoProc
  /\ current = 0 /\ retired = {}
  /\ runs = 0 /\ crashes = 0 /\ tampers = 0
  /\ pc = [p \in Procs |-> "idle"]
  /\ job = [p \in Procs |-> NoJob]
  /\ old = [p \in Procs |-> Absent]
  /\ man = [p \in Procs |-> Absent]
  /\ res = [p \in Procs |-> Absent]
  /\ active = [p \in Procs |-> "none"]
  /\ value = [p \in Procs |-> Absent]
  /\ read = [p \in Procs |-> NoRead]

-----------------------------------------------------------------------------
(***************************************************************************)
(* Helpers: control, and one atomic file write.                            *)
(***************************************************************************)
At(p, here) == pc[p] = here
Goto(p, there) == pc' = [pc EXCEPT ![p] = there]
Save(f, content) == disk' = [disk EXCEPT ![f] = content]

\* One file write that changes nothing else of p.
SaveStep(p, here, f, content, there) ==
  /\ At(p, here)
  /\ Save(f, content)
  /\ Goto(p, there)
  /\ UNCHANGED <<lock, local, bounds>>

\* History: the run of p is now the one the directory speaks for.
Withdraw(p) == current' = job[p].run /\ retired' = retired \cup {current}

\* A process that returns or dies keeps nothing, and its lock is released.
Exit(p) ==
  /\ Goto(p, "idle")
  /\ lock' = IF lock = p THEN NoProc ELSE lock
  /\ job' = [job EXCEPT ![p] = NoJob]
  /\ old' = [old EXCEPT ![p] = Absent]
  /\ man' = [man EXCEPT ![p] = Absent]
  /\ res' = [res EXCEPT ![p] = Absent]
  /\ active' = [active EXCEPT ![p] = "none"]
  /\ value' = [value EXCEPT ![p] = Absent]
  /\ read' = [read EXCEPT ![p] = NoRead]

HasGuidance(p) == job[p].guidance # NoGuidance
IsCompare(p) == job[p].kind = "compare"

\* What a stage's output depends on: the inputs whose digest is its identity.
Identity(p, stage) ==
  CASE stage = "preparation" -> job[p].evidence
    [] stage = "screening"   -> job[p].evidence
    [] stage = "synthesis"   -> [evidence |-> job[p].evidence,
                                 features |-> res[p].features]
    [] stage = "comparison"  -> [candidates |-> res[p].candidates,
                                 guidance |-> job[p].guidance]

\* Changes of a manifest in memory.
WithRow(m, s, row)   == [m EXCEPT !.stages[s] = row]
WithStatus(m, s, st) == WithRow(m, s, [m.stages[s] EXCEPT !.status = st])
Completed(m, s, out) ==
  WithRow(m, s, [m.stages[s] EXCEPT !.status = "complete", !.out = out])
Declared(m, s, in)   == WithRow(m, s, [status |-> "running", in |-> in, out |-> Absent])
List(m, f, content)  == [m EXCEPT !.artifacts[f] = content]
Skip(m, skipped) ==
  [m EXCEPT !.stages = [s \in STAGES |-> IF s \in skipped THEN SkippedRow ELSE @[s]]]

Blocked(x, s) == [x EXCEPT !.status = "blocked", !.failing = s]

\* The handler of an exception inside the pipeline: the result and the active
\* stage's row are marked, and the run goes on to save its result.
Block(p) ==
  /\ res' = [res EXCEPT ![p] = Blocked(@, active[p])]
  /\ man' = [man EXCEPT ![p] = WithStatus(@, active[p], "blocked")]
  /\ Goto(p, "save-result")

-----------------------------------------------------------------------------
(***************************************************************************)
(* Opening: the lock, the inputs, the previous manifest.                   *)
(***************************************************************************)
Begin(p, kind, guidance) ==
  /\ At(p, "idle")
  /\ runs < MaxRuns
  /\ runs' = runs + 1
  /\ job' = [job EXCEPT ![p] = NewJob(kind, runs + 1, guidance)]
  /\ \/ /\ kind = "compare"
        /\ Goto(p, "read-manifest")
        /\ UNCHANGED lock
     \/ /\ kind # "compare"
        /\ lock = NoProc
        /\ lock' = p
        /\ Goto(p, "prepare")
  /\ UNCHANGED <<disk, history, old, man, res, active, value, read, crashes, tampers>>

\* Mutant of LockForCompare: the comparison does not ask for the lock.
CompareUnlocked(p) ==
  /\ At(p, "lock")
  /\ Goto(p, "prepare")
  /\ UNCHANGED <<disk, lock, history, local, bounds>>

\* compare_saved takes the lock only after it has loaded the saved audit;
\* a lock that is held makes it fail at once.
LockForCompare(p) ==
  /\ At(p, "lock")
  /\ \/ /\ lock = NoProc
        /\ lock' = p
        /\ Goto(p, "prepare")
        /\ UNCHANGED <<disk, history, local, bounds>>
     \/ /\ lock # NoProc
        /\ Exit(p)
        /\ UNCHANGED <<disk, history, bounds>>

\* Traces and guidance are read; either can be refused.
PrepareInputs(p) ==
  /\ At(p, "prepare")
  /\ \/ /\ Goto(p, "open")
        /\ \/ IsCompare(p) /\ UNCHANGED job
           \/ /\ ~IsCompare(p)
              /\ \E s \in Sources : job' = [job EXCEPT ![p].evidence = Evidence(s)]
     \/ /\ Goto(p, "fail-memory")
        /\ UNCHANGED job
  /\ UNCHANGED <<disk, lock, history, old, man, res, active, value, read, bounds>>

\* _execute reads the previous manifest and drafts its own.  A manifest that
\* does not validate is copied aside and the run is refused.
OpenManifest(p) ==
  /\ At(p, "open")
  /\ \/ /\ disk["manifest.json"] = Corrupt
        /\ Goto(p, "fail-memory")
        /\ UNCHANGED <<old, man, res, active>>
     \/ /\ disk["manifest.json"] # Corrupt
        /\ old' = [old EXCEPT ![p] = disk["manifest.json"]]
        /\ man' = [man EXCEPT ![p] = FreshManifest(job[p].run)]
        /\ res' = [res EXCEPT ![p] = FreshResult(job[p].run, job[p].evidence)]
        /\ active' = [active EXCEPT ![p] = "preparation"]
        /\ Goto(p, "announce-memory")
  /\ UNCHANGED <<disk, lock, history, job, value, read, bounds>>

-----------------------------------------------------------------------------
(***************************************************************************)
(* _preparation_failed: four writes, then the exception is raised again.   *)
(***************************************************************************)
FailMemory(p) ==
  /\ SaveStep(p, "fail-memory", "memory.json", FailedResult, "fail-manifest")
  /\ Withdraw(p)

FailManifest(p) ==
  /\ SaveStep(p, "fail-manifest", "manifest.json", FailedManifest, "fail-markdown")
  /\ UNCHANGED history

FailMarkdown(p) ==
  /\ SaveStep(p, "fail-markdown", "report.md", Report(FailedResult), "fail-html")
  /\ UNCHANGED history

FailHtml(p) ==
  /\ At(p, "fail-html")
  /\ Save("report.html", Report(FailedResult))
  /\ Exit(p)
  /\ UNCHANGED <<history, bounds>>

PreparationFailed(p) ==
  FailMemory(p) \/ FailManifest(p) \/ FailMarkdown(p) \/ FailHtml(p)

-----------------------------------------------------------------------------
(***************************************************************************)
(* The current run is announced before it works: memory.json, the reports  *)
(* and last the manifest, so that no earlier success stays loadable.       *)
(***************************************************************************)
\* Mutant of AnnounceMemory: the earlier result stays while the new run works.
AnnounceNothing(p) ==
  /\ At(p, "announce-memory")
  /\ Goto(p, "announce-markdown")
  /\ Withdraw(p)
  /\ UNCHANGED <<disk, lock, local, bounds>>

AnnounceMemory(p) ==
  /\ SaveStep(p, "announce-memory", "memory.json", res[p], "announce-markdown")
  /\ Withdraw(p)

AnnounceMarkdown(p) ==
  /\ SaveStep(p, "announce-markdown", "report.md", Running, "announce-html")
  /\ UNCHANGED history

AnnounceHtml(p) ==
  /\ SaveStep(p, "announce-html", "report.html", Running, "announce-manifest")
  /\ UNCHANGED history

AnnounceManifest(p) ==
  /\ SaveStep(p, "announce-manifest", "manifest.json", man[p], "begin-stage")
  /\ UNCHANGED history

Announce(p) ==
  AnnounceMemory(p) \/ AnnounceMarkdown(p) \/ AnnounceHtml(p) \/ AnnounceManifest(p)

-----------------------------------------------------------------------------
(***************************************************************************)
(* stage(name, inputs, artifact, operation).                               *)
(***************************************************************************)
\* Mutant of BeginStage: the running row is not persisted.
BeginStageInMemory(p) ==
  /\ At(p, "begin-stage")
  /\ man' = [man EXCEPT ![p] = Declared(@, active[p], Identity(p, active[p]))]
  /\ Goto(p, "run-stage")
  /\ UNCHANGED <<disk, lock, history, job, old, res, active, value, read, bounds>>

BeginStage(p) ==
  LET m == Declared(man[p], active[p], Identity(p, active[p]))
  IN  /\ At(p, "begin-stage")
      /\ man' = [man EXCEPT ![p] = m]
      /\ Save("manifest.json", m)
      /\ Goto(p, "run-stage")
      /\ UNCHANGED <<lock, history, job, old, res, active, value, read, bounds>>

\* Mutant of Resumable: the digest of the stage's inputs is not compared.
ResumableByStatus(p, s) ==
  /\ old[p] # Absent
  /\ old[p].stages[s].status = "complete"
  /\ disk[ArtifactOf[s]] # Absent

\* The previous run completed this stage on the same inputs, and its file exists.
Resumable(p, s) ==
  /\ old[p] # Absent
  /\ old[p].stages[s].status = "complete"
  /\ old[p].stages[s].in = Identity(p, s)
  /\ disk[ArtifactOf[s]] # Absent

ResumeStage(p) ==
  LET s == active[p]
  IN  /\ At(p, "run-stage")
      /\ Resumable(p, s)
      /\ \/ /\ disk[ArtifactOf[s]] = old[p].stages[s].out
            /\ value' = [value EXCEPT ![p] = disk[ArtifactOf[s]]]
            /\ Goto(p, "commit-stage")
            /\ UNCHANGED <<man, res>>
         \/ /\ disk[ArtifactOf[s]] # old[p].stages[s].out  \* "Corrupt saved stage"
            /\ Block(p)
            /\ UNCHANGED value
      /\ UNCHANGED <<disk, lock, history, job, old, active, read, bounds>>

\* The operation asks the providers and its answer is saved, or it fails: a cache
\* miss, a provider error, an invalid answer.  Preparation only hands on the evidence.
ExecuteStage(p) ==
  LET s == active[p]
      v == IF s = "preparation" THEN job[p].evidence
           ELSE Output(s, Identity(p, s), job[p].run)
  IN  /\ At(p, "run-stage")
      /\ ~Resumable(p, s)
      /\ \/ /\ Save(ArtifactOf[s], v)
            /\ value' = [value EXCEPT ![p] = v]
            /\ Goto(p, "commit-stage")
            /\ UNCHANGED <<man, res>>
         \/ /\ s # "preparation"
            /\ Block(p)
            /\ UNCHANGED <<disk, value>>
      /\ UNCHANGED <<lock, history, job, old, active, read, bounds>>

\* With the proposals at hand, the run compares them with the guidance, or is complete.
TakeProposals(p, m, proposals) ==
  /\ active' = [active EXCEPT ![p] = "comparison"]
  /\ \/ /\ HasGuidance(p)
        /\ Goto(p, "begin-stage")
        /\ man' = [man EXCEPT ![p] = m]
        /\ res' = [res EXCEPT ![p] = [@ EXCEPT !.candidates = proposals]]
     \/ /\ ~HasGuidance(p)
        /\ Goto(p, "save-result")
        /\ man' = [man EXCEPT ![p] = Skip(m, {"comparison"})]
        /\ res' = [res EXCEPT ![p] =
                     [@ EXCEPT !.candidates = proposals, !.status = "complete"]]

\* The row is completed, the artifact listed, the manifest saved; the pipeline
\* takes the output into its result and moves on.
CommitStage(p) ==
  LET s == active[p]
      m == List(Completed(man[p], s, value[p]), ArtifactOf[s], value[p])
  IN  /\ At(p, "commit-stage")
      /\ Save("manifest.json", m)
      /\ value' = [value EXCEPT ![p] = Absent]
      /\ \/ /\ s = "preparation"
            /\ Goto(p, "export")
            /\ man' = [man EXCEPT ![p] = m]
            /\ UNCHANGED <<res, active>>
         \/ /\ s = "screening"
            /\ Goto(p, "begin-stage")
            /\ man' = [man EXCEPT ![p] = m]
            /\ res' = [res EXCEPT ![p] = [@ EXCEPT !.features = value[p]]]
            /\ active' = [active EXCEPT ![p] = "synthesis"]
         \/ /\ s = "synthesis"
            /\ TakeProposals(p, m, value[p])
         \/ /\ s = "comparison"
            /\ Goto(p, "save-result")
            /\ man' = [man EXCEPT ![p] = m]
            /\ res' = [res EXCEPT ![p] =
                         [@ EXCEPT !.assessments = value[p], !.status = "complete"]]
            /\ UNCHANGED active
      /\ UNCHANGED <<lock, history, job, old, read, bounds>>

Stage(p) == BeginStage(p) \/ ResumeStage(p) \/ ExecuteStage(p) \/ CommitStage(p)

-----------------------------------------------------------------------------
(***************************************************************************)
(* Between the stages: the command datasets, the guidance snapshot, and    *)
(* the proposals a comparison takes over.                                  *)
(***************************************************************************)
\* A failing export is blamed on the preparation stage, already complete.
ExportCommands(p) ==
  /\ At(p, "export")
  /\ \/ /\ Save("datasets", Dataset(job[p].evidence))
        /\ man' = [man EXCEPT ![p] = [@ EXCEPT !.datasets = Dataset(job[p].evidence)]]
        /\ res' = [res EXCEPT ![p] = [@ EXCEPT !.hooks = TRUE]]
        /\ Goto(p, "persist-export")
     \/ /\ Block(p)
        /\ UNCHANGED disk
  /\ UNCHANGED <<lock, history, job, old, active, value, read, bounds>>

PersistExport(p) ==
  /\ SaveStep(p, "persist-export", "manifest.json", man[p], "save-guidance")
  /\ UNCHANGED history

SaveGuidance(p) ==
  LET snapshot == GuidanceFile(job[p].guidance)
      listed   == List(man[p], "guidance.json", snapshot)
  IN  /\ At(p, "save-guidance")
      /\ Save("guidance.json", snapshot)
      /\ \/ /\ job[p].kind = "off"
            /\ man' = [man EXCEPT ![p] =
                         Skip(listed, {"screening", "synthesis", "comparison"})]
            /\ res' = [res EXCEPT ![p] = [@ EXCEPT !.status = "preprocessed"]]
            /\ Goto(p, "save-result")
            /\ UNCHANGED active
         \/ /\ job[p].kind = "extract"
            /\ man' = [man EXCEPT ![p] = listed]
            /\ active' = [active EXCEPT ![p] = "screening"]
            /\ Goto(p, "begin-stage")
            /\ UNCHANGED res
         \/ /\ IsCompare(p)
            /\ man' = [man EXCEPT ![p] = Skip(listed, {"screening"})]
            /\ res' = [res EXCEPT ![p] = [@ EXCEPT !.features = job[p].saved.features]]
            /\ active' = [active EXCEPT ![p] = "synthesis"]
            /\ Goto(p, "save-proposals")
      /\ UNCHANGED <<lock, history, job, old, value, read, bounds>>

\* A comparison writes the saved proposals back without listing them.
SaveProposals(p) ==
  /\ At(p, "save-proposals")
  /\ Save("proposals.json", job[p].saved.candidates)
  /\ TakeProposals(p, Skip(man[p], {"synthesis"}), job[p].saved.candidates)
  /\ UNCHANGED <<lock, history, job, old, value, read, bounds>>

Between(p) ==
  ExportCommands(p) \/ PersistExport(p) \/ SaveGuidance(p) \/ SaveProposals(p)

-----------------------------------------------------------------------------
(***************************************************************************)
(* The result, then the rendering of the reports.                          *)
(***************************************************************************)
SaveResult(p) ==
  /\ At(p, "save-result")
  /\ Save("memory.json", res[p])
  /\ man' = [man EXCEPT ![p] =
               Declared(List(@, "memory.json", res[p]), "rendering", res[p])]
  /\ Goto(p, "persist-result")
  /\ UNCHANGED <<lock, history, job, old, res, active, value, read, bounds>>

PersistResult(p) ==
  /\ SaveStep(p, "persist-result", "manifest.json", man[p], "render-markdown")
  /\ UNCHANGED history

RenderMarkdown(p) ==
  /\ SaveStep(p, "render-markdown", "report.md", Report(res[p]), "render-html")
  /\ UNCHANGED history

RenderHtml(p) ==
  /\ At(p, "render-html")
  /\ Save("report.html", Report(res[p]))
  /\ man' = [man EXCEPT ![p] = Completed(@, "rendering", Report(res[p]))]
  /\ Goto(p, "persist-final")
  /\ UNCHANGED <<lock, history, job, old, res, active, value, read, bounds>>

\* Mutant of RenderFails: the failure is swallowed and the row completed.
RenderFailureSwallowed(p) ==
  /\ pc[p] \in {"render-markdown", "render-html"}
  /\ man' = [man EXCEPT ![p] = WithStatus(@, "rendering", "complete")]
  /\ Goto(p, "persist-final")
  /\ UNCHANGED <<disk, lock, history, job, old, res, active, value, read, bounds>>

\* Mutant of RenderFails: the manifest keeps the digest of the unrevised result.
RenderFailsUnlisted(p) ==
  LET blocked == Blocked(res[p], "rendering")
  IN  /\ pc[p] \in {"render-markdown", "render-html"}
      /\ Save("memory.json", blocked)
      /\ res' = [res EXCEPT ![p] = blocked]
      /\ man' = [man EXCEPT ![p] = WithStatus(@, "rendering", "blocked")]
      /\ Goto(p, "persist-final")
      /\ UNCHANGED <<lock, history, job, old, active, value, read, bounds>>

\* Rendering or either write failed: the result is revised and saved again.
RenderFails(p) ==
  LET blocked == Blocked(res[p], "rendering")
  IN  /\ pc[p] \in {"render-markdown", "render-html"}
      /\ Save("memory.json", blocked)
      /\ res' = [res EXCEPT ![p] = blocked]
      /\ man' = [man EXCEPT ![p] =
                   List(WithStatus(@, "rendering", "blocked"), "memory.json", blocked)]
      /\ Goto(p, "persist-final")
      /\ UNCHANGED <<lock, history, job, old, active, value, read, bounds>>

\* The last manifest; the lock is released.  The analyze command then loads the
\* directory again, a comparison returns its summary.
PersistFinal(p) ==
  /\ At(p, "persist-final")
  /\ Save("manifest.json", man[p])
  /\ \/ /\ IsCompare(p)
        /\ Exit(p)
     \/ /\ ~IsCompare(p)
        /\ lock' = NoProc
        /\ Goto(p, "read-manifest")
        /\ old' = [old EXCEPT ![p] = Absent]
        /\ man' = [man EXCEPT ![p] = Absent]
        /\ active' = [active EXCEPT ![p] = "none"]
        /\ UNCHANGED <<job, res, value, read>>
  /\ UNCHANGED <<history, bounds>>

Publish(p) ==
  \/ SaveResult(p) \/ PersistResult(p) \/ RenderMarkdown(p) \/ RenderHtml(p)
  \/ RenderFails(p) \/ PersistFinal(p)

-----------------------------------------------------------------------------
(***************************************************************************)
(* load_saved: manifest, evidence and result are read one after the other, *)
(* then every listed file is read and compared with its digest.            *)
(***************************************************************************)
ReadManifest(p) ==
  /\ At(p, "read-manifest")
  /\ IF disk["manifest.json"] \in Damaged
     THEN Exit(p)
     ELSE /\ read' = [read EXCEPT ![p].manifest = disk["manifest.json"]]
          /\ Goto(p, "read-evidence")
          /\ UNCHANGED <<lock, history, job, old, man, res, active, value>>
  /\ UNCHANGED <<disk, history, bounds>>

ReadEvidence(p) ==
  /\ At(p, "read-evidence")
  /\ IF disk["prepared.json"] \in Damaged
     THEN Exit(p)
     ELSE /\ read' = [read EXCEPT ![p].evidence = disk["prepared.json"]]
          /\ Goto(p, "read-result")
          /\ UNCHANGED <<lock, history, job, old, man, res, active, value>>
  /\ UNCHANGED <<disk, history, bounds>>

\* Mutant of ReadResult: the digests of the two typed artifacts are not compared.
ReadResultUnlisted(p) ==
  /\ At(p, "read-result")
  /\ IF disk["memory.json"] \in Damaged
     THEN Exit(p)
     ELSE /\ read' = [read EXCEPT ![p].result = disk["memory.json"]]
          /\ Goto(p, "verify")
          /\ UNCHANGED <<lock, history, job, old, man, res, active, value>>
  /\ UNCHANGED <<disk, history, bounds>>

\* The two typed artifacts must be those the manifest lists.
ReadResult(p) ==
  LET listed == read[p].manifest.artifacts
  IN  /\ At(p, "read-result")
      /\ IF \/ disk["memory.json"] \in Damaged
            \/ listed["prepared.json"] # read[p].evidence
            \/ listed["memory.json"] # disk["memory.json"]
         THEN Exit(p)
         ELSE /\ read' = [read EXCEPT ![p].result = disk["memory.json"]]
              /\ Goto(p, "verify")
              /\ UNCHANGED <<lock, history, job, old, man, res, active, value>>
      /\ UNCHANGED <<disk, history, bounds>>

\* Every listed artifact and dataset has its recorded digest.
ListedFilesMatch(m) ==
  /\ \A f \in Artifacts : m.artifacts[f] # Absent => disk[f] = m.artifacts[f]
  /\ m.datasets # Absent => disk["datasets"] = m.datasets

Accepted(m, result) ==
  /\ ListedFilesMatch(m)
  /\ result.hooks => m.datasets # Absent

Verify(p) ==
  /\ At(p, "verify")
  /\ IF Accepted(read[p].manifest, read[p].result)
     THEN Goto(p, "loaded") /\ UNCHANGED <<lock, local>>
     ELSE Exit(p)
  /\ UNCHANGED <<disk, history, bounds>>

\* Mutant of UseLoaded: the loaded result is not handed to the comparison.
UseLoadedEvidence(p) ==
  /\ At(p, "loaded")
  /\ IF IsCompare(p)
     THEN /\ job' = [job EXCEPT ![p].evidence = read[p].evidence]
          /\ read' = [read EXCEPT ![p] = NoRead]
          /\ Goto(p, "lock")
          /\ UNCHANGED <<lock, old, man, res, active, value>>
     ELSE Exit(p)
  /\ UNCHANGED <<disk, history, bounds>>

\* analyze returns what it loaded; a comparison checks it, and the manifest it
\* reads again, before it asks for the lock.
UseLoaded(p) ==
  LET again == disk["manifest.json"]
  IN  /\ At(p, "loaded")
      /\ IF /\ IsCompare(p)
            /\ read[p].result.status \in {"complete", "blocked"}
            /\ again \notin Damaged
            /\ again.stages["synthesis"].status \in {"complete", "skipped"}
         THEN /\ job' = [job EXCEPT ![p] = [@ EXCEPT !.evidence = read[p].evidence,
                                                   !.saved = read[p].result]]
              /\ read' = [read EXCEPT ![p] = NoRead]
              /\ Goto(p, "lock")
              /\ UNCHANGED <<lock, old, man, res, active, value>>
         ELSE Exit(p)
      /\ UNCHANGED <<disk, history, bounds>>

LoadSaved(p) ==
  ReadManifest(p) \/ ReadEvidence(p) \/ ReadResult(p) \/ Verify(p) \/ UseLoaded(p)

-----------------------------------------------------------------------------
(***************************************************************************)
(* The environment: a process is killed (or an unexpected exception leaves *)
(* the pipeline), the kernel drops its lock; a file is damaged or deleted. *)
(* The death of a process that only reads changes nothing.                 *)
(***************************************************************************)
Crash(p) ==
  /\ lock = p
  /\ crashes < MaxCrashes
  /\ crashes' = crashes + 1
  /\ Exit(p)
  /\ UNCHANGED <<disk, history, runs, tampers>>

Tamper(f) ==
  /\ disk[f] \notin Damaged
  /\ tampers < MaxTampers
  /\ tampers' = tampers + 1
  /\ \E harm \in Damaged : Save(f, harm)
  /\ UNCHANGED <<lock, history, pc, local, runs, crashes>>

Start(p) == \E kind \in Kinds, g \in Guidances \cup {NoGuidance} : Begin(p, kind, g)

\* A step of a process that is under way.
Step(p) ==
  \/ LockForCompare(p) \/ PrepareInputs(p) \/ OpenManifest(p) \/ PreparationFailed(p)
  \/ Announce(p) \/ Stage(p) \/ Between(p) \/ Publish(p) \/ LoadSaved(p)

Next ==
  \/ \E p \in Procs : Start(p) \/ Step(p) \/ Crash(p)
  \/ \E f \in Fragile : Tamper(f)

Spec == Init /\ [][Next]_vars

-----------------------------------------------------------------------------
(***************************************************************************)
(* Types.                                                                  *)
(***************************************************************************)
Runs          == 0..MaxRuns
AnyGuidance   == Guidances \cup {NoGuidance}
EvidenceFiles == [kind : {"evidence"}, source : Sources] \cup Damaged
Features      == [kind : {"screening"}, in : EvidenceFiles, run : Runs] \cup Damaged
Proposed      == [evidence : EvidenceFiles, features : Features]
Candidates    == [kind : {"synthesis"}, in : Proposed, run : Runs] \cup Damaged
Compared      == [candidates : Candidates, guidance : AnyGuidance]
Assessments   == [kind : {"comparison"}, in : Compared, run : Runs] \cup Damaged
Statuses      == {"running", "preprocessed", "complete", "blocked"}
Results       == [kind : {"result"}, run : Runs, evidence : EvidenceFiles, status : Statuses,
                  failing : STAGES \cup {"none"}, hooks : BOOLEAN, features : Features,
                  candidates : Candidates, assessments : Assessments]
FinishedResults == {x \in Results : x.run # 0 /\ x.status # "running"}
Rendered      == [kind : {"report"}, of : Results]

Row == [ status : {"pending", "running", "complete", "blocked", "skipped"},
         in     : EvidenceFiles \cup Proposed \cup Compared \cup Results,
         out    : EvidenceFiles \cup Features \cup Candidates \cup Assessments \cup Rendered ]
Listed == EvidenceFiles \cup Features \cup Candidates \cup Assessments \cup Results
            \cup [kind : {"guidance"}, snapshot : AnyGuidance]
Datasets  == [kind : {"dataset"}, of : EvidenceFiles] \cup Damaged
Manifests == [kind : {"manifest"}, run : Runs, stages : [STAGES -> Row],
              artifacts : [Artifacts -> Listed], datasets : Datasets]
Jobs  == [kind : {"none", "off", "extract", "compare"}, run : Runs,
          evidence : EvidenceFiles, guidance : AnyGuidance, saved : Results \cup {Absent}]
Reads == [manifest : Manifests \cup {Absent}, evidence : EvidenceFiles,
          result : Results \cup {Absent}]

ReadingPlaces == {"idle", "lock", "read-manifest", "read-evidence", "read-result",
                  "verify", "loaded"}
StagePlaces   == {"begin-stage", "run-stage", "commit-stage", "export", "persist-export",
                  "save-guidance", "save-proposals", "save-result"}
Working ==
  StagePlaces \cup
  {"announce-memory", "announce-markdown", "announce-html", "announce-manifest",
   "persist-result", "render-markdown", "render-html", "persist-final"}
Writing ==
  Working \cup {"prepare", "open", "fail-memory", "fail-manifest", "fail-markdown", "fail-html"}

DiskOK ==
  /\ DOMAIN disk = Files
  /\ disk["manifest.json"] \in Manifests \cup Damaged
  /\ disk["prepared.json"] \in EvidenceFiles
  /\ disk["features.json"] \in Features
  /\ disk["proposals.json"] \in Candidates
  /\ disk["comparison.json"] \in Assessments
  /\ disk["memory.json"] \in Results \cup Damaged

OutputsOf(s) ==
  CASE s = "preparation" -> EvidenceFiles [] s = "screening" -> Features
    [] s = "synthesis" -> Candidates      [] s = "comparison" -> Assessments

LocalsOK ==
  /\ lock \in Procs \cup {NoProc}
  /\ pc \in [Procs -> ReadingPlaces \cup Writing]
  /\ job \in [Procs -> Jobs]
  /\ old \in [Procs -> Manifests \cup {Absent}]
  /\ man \in [Procs -> Manifests \cup {Absent}]
  /\ res \in [Procs -> Results \cup {Absent}]
  /\ active \in [Procs -> DOMAIN ArtifactOf \cup {"none"}]
  /\ DOMAIN value = Procs
  /\ read \in [Procs -> Reads]

\* What a process holds at each place.
PlacesOK ==
  \A p \in Procs :
    /\ pc[p] \in Working =>
         man[p] \in Manifests /\ res[p] \in Results /\ active[p] # "none"
    /\ IF At(p, "commit-stage") THEN value[p] \in OutputsOf(active[p]) ELSE value[p] = Absent
    /\ \/ IsCompare(p) /\ pc[p] \in Writing \cup {"lock"}
       \/ At(p, "save-proposals")
       => job[p].saved \in Results
    /\ pc[p] \in {"read-evidence", "read-result", "verify", "loaded"} =>
         read[p].manifest \in Manifests
    /\ pc[p] \in {"verify", "loaded"} => read[p].result \in Results

HistoryOK ==
  /\ current \in Runs /\ retired \subseteq Runs
  /\ runs \in Runs /\ crashes \in 0..MaxCrashes /\ tampers \in 0..MaxTampers

\* The files, the locals of every process and the counters hold values of their kind,
\* and each process has at hand what its next step uses.
TypeOK == DiskOK /\ LocalsOK /\ PlacesOK /\ HistoryOK

\* Only the holder of the lock is at a place where files are written: a comparison and
\* an audit, or two audits, never write the directory side by side.
OneWriter == \A p \in Procs : pc[p] \in Writing <=> lock = p

-----------------------------------------------------------------------------
(***************************************************************************)
(* What a reader alone with the directory would accept.                    *)
(***************************************************************************)
OnDisk == disk["manifest.json"]
Loadable ==
  /\ OnDisk \notin Damaged
  /\ disk["prepared.json"] \notin Damaged
  /\ disk["memory.json"] \notin Damaged
  /\ OnDisk.artifacts["prepared.json"] = disk["prepared.json"]
  /\ OnDisk.artifacts["memory.json"] = disk["memory.json"]
  /\ Accepted(OnDisk, disk["memory.json"])
Visible == IF Loadable THEN disk["memory.json"] ELSE Absent

\* The directory keeps the promise of PublishedAudit across crashes, damage and
\* any order of commands: only the run that announced itself last is ever shown,
\* and an earlier success never comes back ("failures cannot retain stale success").
Published == INSTANCE PublishedAudit
               WITH visible <- Visible, None <- Absent, Results <- FinishedResults
PublishedSpec == Published!Spec

\* The artifact of every stage that m calls complete is among the files as m records
\* it, unless it was damaged from outside.
SavedIn(m, files) ==
  \A s \in DOMAIN ArtifactOf :
    m.stages[s].status = "complete" => files[ArtifactOf[s]] \in {m.stages[s].out} \cup Damaged

\* A stage that the manifest on disk calls complete has exactly that output on disk
\* (unless the file was damaged from outside): a crash between saving an artifact and
\* saving the manifest, in any order of runs, never makes a later run resume wrongly.
CompleteStagesAreSaved == OnDisk \notin Damaged => SavedIn(OnDisk, disk)

\* A loadable result was derived, step by step, from the evidence beside it: features
\* from this evidence, proposals from these features, the assessment from these
\* proposals and the guidance snapshot on disk, however many runs contributed.
ResultIsCoherent ==
  LET x == disk["memory.json"]
  IN  Loadable =>
        /\ x.evidence = disk["prepared.json"]
        /\ x.features # Absent => x.features.in = x.evidence
        /\ x.candidates # Absent =>
             x.candidates.in = [evidence |-> x.evidence, features |-> x.features]
        /\ x.assessments # Absent =>
             /\ x.assessments.in.candidates = x.candidates
             /\ disk["guidance.json"] = GuidanceFile(x.assessments.in.guidance)

\* A loadable result and its manifest tell one story: the same run, a blocked result
\* names the blocked stage, a complete one has no stage left open before rendering.
ManifestAgreesWithResult ==
  LET x == disk["memory.json"]
      status(s) == OnDisk.stages[s].status
  IN  Loadable =>
        /\ x.run = OnDisk.run
        /\ x.status = "blocked" => status(x.failing) = "blocked"
        /\ x.status # "blocked" =>
             \A s \in STAGES \ {"rendering"} : status(s) \in {"complete", "skipped"}

\* While a stage is asked, resumed or rejected, the manifest on disk already calls it
\* running under this run: a kill there, or the report of a damaged artifact, leaves no
\* row that a later run would resume or reject again.
RunningStageIsDeclared ==
  \A p \in Procs : At(p, "run-stage") =>
    \/ OnDisk \in Damaged
    \/ OnDisk.run = job[p].run /\ OnDisk.stages[active[p]].status = "running"

\* When the manifest calls rendering complete, both reports show the loadable result.
ReportsShowTheResult ==
  Loadable /\ OnDisk.stages["rendering"].status = "complete" =>
    \A f \in Reports : disk[f] = Report(disk["memory.json"])

\* What the manifest on disk says of a stage, asked or complete, holds of the files.
ManifestIsTrue == CompleteStagesAreSaved /\ RunningStageIsDeclared

\* Manifest, result and reports of a directory tell of one run.
ResultIsToldOnce == ManifestAgreesWithResult /\ ReportsShowTheResult

\* load_saved runs without the lock, beside a writer that may replace every file, and
\* still returns the evidence and the finished result of one run.
LoadedIsOneRun ==
  \A p \in Procs : At(p, "loaded") =>
    /\ read[p].result.run = read[p].manifest.run
    /\ read[p].evidence = read[p].result.evidence
    /\ read[p].result.status # "running"

\* A run that ends with its listed files undamaged can be loaded, with the result it
\* reports, unless it was blocked before its evidence was saved.
FinishedRunsAreShown ==
  [][\A p \in Procs :
       /\ PersistFinal(p)
       /\ man[p].artifacts["prepared.json"] # Absent
       /\ \A f \in Artifacts : man[p].artifacts[f] # Absent => disk[f] \notin Damaged
       /\ disk["datasets"] \notin Damaged
       => Visible' = res[p]]_vars

-----------------------------------------------------------------------------
(***************************************************************************)
(* Claims of the repository that the code does not keep.                   *)
(***************************************************************************)
\* compare_saved refuses an audit with "no completed proposals to compare"
\* (pipeline.py:690): what it takes over holds completed proposals.
OnlyCompletedProposalsAreCompared ==
  \A p \in Procs : At(p, "lock") => job[p].saved.candidates # Absent

\* "Repeating the same input selection reuses unchanged stages"
\* (docs/memory-audit.md:63): a provider stage is not asked while its artifact, saved
\* by an earlier command from the same inputs, lies undamaged in the directory.
UnchangedStagesAreReused ==
  [][\A p \in Procs : ExecuteStage(p) /\ active[p] # "preparation" =>
       \/ disk[ArtifactOf[active[p]]] \in Damaged
       \/ disk[ArtifactOf[active[p]]].in # Identity(p, active[p])]_vars

=============================================================================
