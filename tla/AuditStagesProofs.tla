------------------------- MODULE AuditStagesProofs -------------------------
(***************************************************************************)
(* Proofs about AuditStages for any number of processes, sources, guidance *)
(* snapshots, runs, crashes and damaged files: first the types, the locks  *)
(* and what is published, then what a reader of the directory is shown.    *)
(***************************************************************************)
EXTENDS AuditStages, TLAPS

-----------------------------------------------------------------------------
(***************************************************************************)
(* The operations on manifests and results keep their types.               *)
(***************************************************************************)
LEMMA WithRowType ==
  ASSUME NEW m \in Manifests, NEW s \in STAGES, NEW row \in Row
  PROVE  /\ WithRow(m, s, row) \in Manifests
         /\ WithRow(m, s, row).run = m.run
         /\ WithRow(m, s, row).stages = [m.stages EXCEPT ![s] = row]
BY DEF WithRow, Manifests

LEMMA WithStatusType ==
  ASSUME NEW m \in Manifests, NEW s \in STAGES,
         NEW st \in {"pending", "running", "complete", "blocked", "skipped"}
  PROVE  /\ WithStatus(m, s, st) \in Manifests
         /\ WithStatus(m, s, st).run = m.run
         /\ WithStatus(m, s, st).stages
              = [m.stages EXCEPT ![s] = [m.stages[s] EXCEPT !.status = st]]
<1>1. m.stages[s] \in Row
  BY DEF Manifests
<1>2. [m.stages[s] EXCEPT !.status = st] \in Row
  BY <1>1 DEF Row
<1> QED BY <1>2, WithRowType DEF WithStatus

LEMMA CompletedType ==
  ASSUME NEW m \in Manifests, NEW s \in STAGES,
         NEW out \in EvidenceFiles \cup Features \cup Candidates \cup Assessments \cup Rendered
  PROVE  /\ Completed(m, s, out) \in Manifests
         /\ Completed(m, s, out).run = m.run
         /\ Completed(m, s, out).stages[s].out = out
         /\ \A t \in STAGES \ {s} : Completed(m, s, out).stages[t] = m.stages[t]
<1>1. m.stages[s] \in Row
  BY DEF Manifests
<1>2. [m.stages[s] EXCEPT !.status = "complete", !.out = out] \in Row
  BY <1>1 DEF Row
<1> DEFINE row == [m.stages[s] EXCEPT !.status = "complete", !.out = out]
<1>3. row.out = out
  BY <1>1 DEF Row
<1>4. DOMAIN m.stages = STAGES
  BY DEF Manifests
<1>5. Completed(m, s, out) = WithRow(m, s, row) /\ row \in Row
  BY <1>2 DEF Completed
<1> HIDE DEF row
<1>6. /\ WithRow(m, s, row) \in Manifests /\ WithRow(m, s, row).run = m.run
      /\ WithRow(m, s, row).stages = [m.stages EXCEPT ![s] = row]
  BY <1>5, WithRowType
<1> QED BY <1>3, <1>4, <1>5, <1>6

LEMMA DeclaredType ==
  ASSUME NEW m \in Manifests, NEW s \in STAGES,
         NEW in \in EvidenceFiles \cup Proposed \cup Compared \cup Results
  PROVE  /\ Declared(m, s, in) \in Manifests
         /\ Declared(m, s, in).run = m.run
         /\ Declared(m, s, in).stages
              = [m.stages EXCEPT ![s] = [status |-> "running", in |-> in, out |-> Absent]]
<1>1. [status |-> "running", in |-> in, out |-> Absent] \in Row
  BY DEF Row, EvidenceFiles, Damaged
<1> QED BY <1>1, WithRowType DEF Declared

LEMMA ListType ==
  ASSUME NEW m \in Manifests, NEW f \in Artifacts, NEW c \in Listed
  PROVE  /\ List(m, f, c) \in Manifests
         /\ List(m, f, c).run = m.run
         /\ List(m, f, c).stages = m.stages
BY DEF List, Manifests

LEMMA SkipType ==
  ASSUME NEW m \in Manifests, NEW skipped \in SUBSET STAGES
  PROVE  /\ Skip(m, skipped) \in Manifests
         /\ Skip(m, skipped).run = m.run
         /\ \A s \in STAGES : Skip(m, skipped).stages[s] =
              IF s \in skipped THEN SkippedRow ELSE m.stages[s]
<1>1. SkippedRow \in Row
  BY DEF SkippedRow, Row, EvidenceFiles, Damaged
<1>2. [s \in STAGES |-> IF s \in skipped THEN SkippedRow ELSE m.stages[s]] \in [STAGES -> Row]
  BY <1>1 DEF Manifests
<1> QED BY <1>2 DEF Skip, Manifests

LEMMA FreshManifestType ==
  ASSUME NEW r \in Runs
  PROVE  FreshManifest(r) \in Manifests
<1>1. PendingRow \in Row
  BY DEF PendingRow, Row, EvidenceFiles, Damaged
<1>2. Absent \in Listed /\ Absent \in Datasets
  BY DEF Listed, EvidenceFiles, Damaged, Datasets
<1> QED BY <1>1, <1>2 DEF FreshManifest, Manifests

LEMMA FreshResultType ==
  ASSUME NEW r \in Runs, NEW ev \in EvidenceFiles
  PROVE  FreshResult(r, ev) \in Results
<1>1. Absent \in Features /\ Absent \in Candidates /\ Absent \in Assessments
  BY DEF Features, Candidates, Assessments, Damaged
<1> QED BY <1>1 DEF FreshResult, Results, Statuses

LEMMA FailedType == FailedResult \in Results /\ FailedManifest \in Manifests
<1>1. 0 \in Runs
  BY BoundsAssumption DEF Runs
<1>2. FreshResult(0, Absent) \in Results
  BY <1>1, FreshResultType DEF EvidenceFiles, Damaged
<1>3. FailedResult \in Results
  BY <1>2 DEF FailedResult, Results, Statuses, STAGES
<1>4. FreshManifest(0) \in Manifests
  BY <1>1, FreshManifestType
<1>5. FailedManifest \in Manifests
  BY <1>4 DEF FailedManifest, Manifests, Row, STAGES
<1> QED BY <1>3, <1>5

LEMMA BlockedType ==
  ASSUME NEW x \in Results, NEW s \in STAGES
  PROVE  Blocked(x, s) \in Results
BY DEF Blocked, Results, Statuses

LEMMA ConstantTypes ==
  /\ Absent \in EvidenceFiles \cap Features \cap Candidates \cap Assessments \cap Datasets
  /\ Absent \in Listed
  /\ \A kind \in Kinds \cup {"none"}, r \in Runs, g \in AnyGuidance : NewJob(kind, r, g) \in Jobs
  /\ NoJob \in Jobs
  /\ NoRead \in Reads
  /\ 0 \in Runs
<1>1. 0 \in Runs
  BY BoundsAssumption DEF Runs
<1>2. Absent \in EvidenceFiles \cap Features \cap Candidates \cap Assessments \cap Datasets
  BY DEF EvidenceFiles, Features, Candidates, Assessments, Datasets, Damaged
<1>3. Absent \in Listed
  BY <1>2 DEF Listed
<1>4. ASSUME NEW kind \in Kinds \cup {"none"}, NEW r \in Runs, NEW g \in AnyGuidance
      PROVE  NewJob(kind, r, g) \in Jobs
  <2>1. kind \in {"none", "off", "extract", "compare"}
    BY KindsAssumption
  <2> QED BY <2>1, <1>2 DEF NewJob, Jobs
<1>5. NoJob \in Jobs
  BY <1>1, <1>4 DEF NoJob, AnyGuidance
<1>6. NoRead \in Reads
  BY <1>2 DEF NoRead, Reads
<1> QED BY <1>1, <1>2, <1>3, <1>4, <1>5, <1>6

-----------------------------------------------------------------------------
(***************************************************************************)
(* Type correctness.  A step of one process leaves what the others hold.   *)
(***************************************************************************)
LEMMA InitType == Init => TypeOK
BY ConstantTypes, BoundsAssumption
   DEF Init, TypeOK, DiskOK, LocalsOK, PlacesOK, HistoryOK, Files, Artifacts, Reports,
       ReadingPlaces, Working, Writing, StagePlaces, At, IsCompare, Runs, Damaged, NoJob, NewJob

\* A process that exits keeps its types.
LEMMA ExitType ==
  ASSUME TypeOK, NEW p \in Procs, Exit(p)
  PROVE  LocalsOK' /\ PlacesOK'
<1> USE DEF TypeOK, LocalsOK, Exit, Goto
<1>1. LocalsOK'
  BY ConstantTypes DEF ReadingPlaces
<1>2. PlacesOK'
  BY ConstantTypes
     DEF PlacesOK, At, IsCompare, NoJob, NewJob, Writing, Working, StagePlaces
<1> QED BY <1>1, <1>2

LEMMA BeginType ==
  ASSUME TypeOK, NEW p \in Procs, NEW kind \in Kinds, NEW g \in AnyGuidance, Begin(p, kind, g)
  PROVE  TypeOK'
<1> USE DEF TypeOK, LocalsOK, Begin, Goto, At, bounds
<1>1. runs + 1 \in Runs
  BY BoundsAssumption DEF HistoryOK, Runs
<1>2. NewJob(kind, runs + 1, g) \in Jobs
  BY <1>1, ConstantTypes
<1>3. LocalsOK'
  <2>1. pc' \in [Procs -> ReadingPlaces \cup Writing]
    BY DEF ReadingPlaces, Writing
  <2>2. job' \in [Procs -> Jobs]
    BY <1>2
  <2>3. lock' \in Procs \cup {NoProc}
    OBVIOUS
  <2> QED BY <2>1, <2>2, <2>3
<1>4. PlacesOK'
  BY DEF PlacesOK, IsCompare, NewJob, Writing, Working, StagePlaces
<1>5. DiskOK' /\ HistoryOK'
  BY <1>1 DEF DiskOK, HistoryOK, history
<1> QED BY <1>3, <1>4, <1>5

LEMMA LockForCompareType ==
  ASSUME TypeOK, NEW p \in Procs, LockForCompare(p)
  PROVE  TypeOK'
<1> USE DEF TypeOK, LockForCompare, At
<1>1. DiskOK' /\ HistoryOK'
  BY DEF DiskOK, HistoryOK, history, bounds
<1>2. CASE lock = NoProc
  <2>1. LocalsOK'
    BY <1>2 DEF LocalsOK, Goto, Exit, local, Writing
  <2>2. PlacesOK'
    BY <1>2 DEF PlacesOK, LocalsOK, Goto, local, IsCompare, Writing, Working, StagePlaces
  <2> QED BY <1>1, <2>1, <2>2
<1>3. CASE lock # NoProc
  BY <1>1, <1>3, ExitType
<1> QED BY <1>2, <1>3

LEMMA PrepareInputsType ==
  ASSUME TypeOK, NEW p \in Procs, PrepareInputs(p)
  PROVE  TypeOK'
<1> USE DEF TypeOK, PrepareInputs, At, Goto
<1>1. DiskOK' /\ HistoryOK'
  BY DEF DiskOK, HistoryOK, history, bounds
<1>2. \A s \in Sources : Evidence(s) \in EvidenceFiles
  BY DEF Evidence, EvidenceFiles
<1>3. LocalsOK'
  <2>1. \A s \in Sources : [job[p] EXCEPT !.evidence = Evidence(s)] \in Jobs
    BY <1>2 DEF LocalsOK, Jobs
  <2>2. job' \in [Procs -> Jobs]
    BY <2>1 DEF LocalsOK
  <2>3. pc' \in [Procs -> ReadingPlaces \cup Writing]
    BY DEF LocalsOK, Writing
  <2> QED BY <2>2, <2>3 DEF LocalsOK
<1>4. PlacesOK'
  BY DEF PlacesOK, LocalsOK, Jobs, IsCompare, Writing, Working, StagePlaces
<1> QED BY <1>1, <1>3, <1>4

LEMMA OpenManifestType ==
  ASSUME TypeOK, NEW p \in Procs, OpenManifest(p)
  PROVE  TypeOK'
<1> USE DEF TypeOK, OpenManifest, At, Goto
<1>1. DiskOK' /\ HistoryOK'
  BY DEF DiskOK, HistoryOK, history, bounds
<1>2. job[p].run \in Runs /\ job[p].evidence \in EvidenceFiles
  BY DEF LocalsOK, Jobs
<1>3. FreshManifest(job[p].run) \in Manifests
  BY <1>2, FreshManifestType
<1>4. FreshResult(job[p].run, job[p].evidence) \in Results
  BY <1>2, FreshResultType
<1>5. "preparation" \in DOMAIN ArtifactOf
  BY DEF ArtifactOf
<1>6. disk["manifest.json"] # Corrupt => disk["manifest.json"] \in Manifests \cup {Absent}
  BY DEF DiskOK, Damaged
<1>7. LocalsOK'
  BY <1>3, <1>4, <1>5, <1>6 DEF LocalsOK, Writing, Working
<1>8. PlacesOK'
  BY <1>3, <1>4 DEF PlacesOK, LocalsOK, IsCompare, Writing, Working, StagePlaces
<1> QED BY <1>1, <1>7, <1>8

\* One file write that changes nothing else of the process.
LEMMA SaveStepType ==
  ASSUME TypeOK, NEW p \in Procs, NEW f \in Files, NEW content,
         NEW here \in Writing \ {"commit-stage"}, NEW there \in Writing \ {"commit-stage", "save-proposals"},
         there \in Working => here \in Working,
         SaveStep(p, here, f, content, there)
  PROVE  LocalsOK' /\ PlacesOK'
<1> USE DEF TypeOK, SaveStep, At, Goto, local
<1>1. LocalsOK'
  BY DEF LocalsOK
<1>2. PlacesOK'
  BY DEF PlacesOK, LocalsOK, IsCompare, Writing, Working, StagePlaces
<1> QED BY <1>1, <1>2

LEMMA PreparationFailedType ==
  ASSUME TypeOK, NEW p \in Procs, PreparationFailed(p)
  PROVE  TypeOK'
<1> USE DEF TypeOK
<1>1. CASE FailMemory(p)
  <2>1. LocalsOK' /\ PlacesOK'
    BY <1>1, SaveStepType
       DEF FailMemory, Files, Artifacts, Writing, Working, StagePlaces
  <2>2. DiskOK'
    BY <1>1, FailedType DEF FailMemory, SaveStep, Save, DiskOK, Files, Artifacts
  <2>3. HistoryOK'
    BY <1>1 DEF FailMemory, SaveStep, Withdraw, HistoryOK, bounds, LocalsOK, Jobs
  <2> QED BY <2>1, <2>2, <2>3
<1>2. CASE FailManifest(p)
  <2>1. LocalsOK' /\ PlacesOK'
    BY <1>2, SaveStepType
       DEF FailManifest, Files, Writing, Working, StagePlaces
  <2>2. DiskOK'
    BY <1>2, FailedType DEF FailManifest, SaveStep, Save, DiskOK, Files
  <2>3. HistoryOK'
    BY <1>2 DEF FailManifest, SaveStep, history, HistoryOK, bounds
  <2> QED BY <2>1, <2>2, <2>3
<1>3. CASE FailMarkdown(p)
  <2>1. LocalsOK' /\ PlacesOK'
    BY <1>3, SaveStepType
       DEF FailMarkdown, Files, Reports, Writing, Working, StagePlaces
  <2>2. DiskOK'
    BY <1>3 DEF FailMarkdown, SaveStep, Save, DiskOK, Files, Reports
  <2>3. HistoryOK'
    BY <1>3 DEF FailMarkdown, SaveStep, history, HistoryOK, bounds
  <2> QED BY <2>1, <2>2, <2>3
<1>4. CASE FailHtml(p)
  <2>1. LocalsOK' /\ PlacesOK'
    BY <1>4, ExitType DEF FailHtml
  <2>2. DiskOK'
    BY <1>4 DEF FailHtml, Save, DiskOK, Files, Reports
  <2>3. HistoryOK'
    BY <1>4 DEF FailHtml, history, HistoryOK, bounds
  <2> QED BY <2>1, <2>2, <2>3
<1> QED BY <1>1, <1>2, <1>3, <1>4 DEF PreparationFailed

LEMMA AnnounceType ==
  ASSUME TypeOK, NEW p \in Procs, Announce(p)
  PROVE  TypeOK'
<1> USE DEF TypeOK
<1>1. CASE AnnounceMemory(p)
  <2>1. LocalsOK' /\ PlacesOK'
    BY <1>1, SaveStepType
       DEF AnnounceMemory, Files, Artifacts, Writing, Working, StagePlaces
  <2>2. res[p] \in Results
    BY <1>1 DEF AnnounceMemory, SaveStep, At, PlacesOK, Working
  <2>3. DiskOK'
    BY <1>1, <2>2 DEF AnnounceMemory, SaveStep, Save, DiskOK, Files, Artifacts
  <2>4. HistoryOK'
    BY <1>1 DEF AnnounceMemory, SaveStep, Withdraw, HistoryOK, bounds, LocalsOK, Jobs
  <2> QED BY <2>1, <2>3, <2>4
<1>2. CASE AnnounceMarkdown(p)
  <2>1. LocalsOK' /\ PlacesOK'
    BY <1>2, SaveStepType
       DEF AnnounceMarkdown, Files, Reports, Writing, Working, StagePlaces
  <2>2. DiskOK'
    BY <1>2 DEF AnnounceMarkdown, SaveStep, Save, DiskOK, Files, Reports
  <2>3. HistoryOK'
    BY <1>2 DEF AnnounceMarkdown, SaveStep, history, HistoryOK, bounds
  <2> QED BY <2>1, <2>2, <2>3
<1>3. CASE AnnounceHtml(p)
  <2>1. LocalsOK' /\ PlacesOK'
    BY <1>3, SaveStepType
       DEF AnnounceHtml, Files, Reports, Writing, Working, StagePlaces
  <2>2. DiskOK'
    BY <1>3 DEF AnnounceHtml, SaveStep, Save, DiskOK, Files, Reports
  <2>3. HistoryOK'
    BY <1>3 DEF AnnounceHtml, SaveStep, history, HistoryOK, bounds
  <2> QED BY <2>1, <2>2, <2>3
<1>4. CASE AnnounceManifest(p)
  <2>1. LocalsOK' /\ PlacesOK'
    BY <1>4, SaveStepType
       DEF AnnounceManifest, Files, Writing, Working, StagePlaces
  <2>2. man[p] \in Manifests
    BY <1>4 DEF AnnounceManifest, SaveStep, At, PlacesOK, Working
  <2>3. DiskOK'
    BY <1>4, <2>2 DEF AnnounceManifest, SaveStep, Save, DiskOK, Files
  <2>4. HistoryOK'
    BY <1>4 DEF AnnounceManifest, SaveStep, history, HistoryOK, bounds
  <2> QED BY <2>1, <2>3, <2>4
<1> QED BY <1>1, <1>2, <1>3, <1>4 DEF Announce

LEMMA ArtifactFacts ==
  /\ DOMAIN ArtifactOf = {"preparation", "screening", "synthesis", "comparison"}
  /\ DOMAIN ArtifactOf \subseteq STAGES
  /\ \A s \in DOMAIN ArtifactOf : ArtifactOf[s] \in Artifacts \ {"guidance.json", "memory.json"}
BY DEF ArtifactOf, STAGES, Artifacts

\* The identity of a stage and what the stage puts out.
LEMMA IdentityType ==
  ASSUME TypeOK, NEW p \in Procs, pc[p] \in Working
  PROVE  /\ Identity(p, active[p]) \in EvidenceFiles \cup Proposed \cup Compared
         /\ active[p] = "preparation" => job[p].evidence \in OutputsOf(active[p])
         /\ active[p] # "preparation" =>
              Output(active[p], Identity(p, active[p]), job[p].run) \in OutputsOf(active[p])
<1> USE DEF TypeOK
<1>1. job[p] \in Jobs /\ res[p] \in Results /\ active[p] \in DOMAIN ArtifactOf
  BY DEF LocalsOK, PlacesOK
<1>2. /\ job[p].evidence \in EvidenceFiles /\ job[p].guidance \in AnyGuidance
      /\ job[p].run \in Runs
      /\ res[p].features \in Features /\ res[p].candidates \in Candidates
  BY <1>1 DEF Jobs, Results
<1>3. CASE active[p] = "preparation"
  BY <1>2, <1>3 DEF Identity, OutputsOf
<1>4. CASE active[p] = "screening"
  BY <1>2, <1>4 DEF Identity, Output, OutputsOf, Features
<1>5. CASE active[p] = "synthesis"
  <2>1. Identity(p, active[p]) \in Proposed
    BY <1>2, <1>5 DEF Identity, Proposed
  <2> QED BY <1>2, <1>5, <2>1 DEF Output, OutputsOf, Candidates
<1>6. CASE active[p] = "comparison"
  <2>1. Identity(p, active[p]) \in Compared
    BY <1>2, <1>6 DEF Identity, Compared
  <2> QED BY <1>2, <1>6, <2>1 DEF Output, OutputsOf, Assessments
<1> QED BY <1>1, <1>3, <1>4, <1>5, <1>6, ArtifactFacts

\* Writing one of the files keeps the types of the others.
LEMMA SaveManifestType ==
  ASSUME DiskOK, NEW m \in Manifests, Save("manifest.json", m)
  PROVE  DiskOK'
BY DEF Save, DiskOK, Files

LEMMA SaveOutputType ==
  ASSUME DiskOK, NEW s \in DOMAIN ArtifactOf, NEW v \in OutputsOf(s), Save(ArtifactOf[s], v)
  PROVE  DiskOK'
<1> USE DEF Save, DiskOK, Files, Artifacts, ArtifactOf, OutputsOf
<1>1. CASE s = "preparation"
  BY <1>1
<1>2. CASE s = "screening"
  BY <1>2
<1>3. CASE s = "synthesis"
  BY <1>3
<1>4. CASE s = "comparison"
  BY <1>4
<1> QED BY <1>1, <1>2, <1>3, <1>4

LEMMA SaveResultFileType ==
  ASSUME DiskOK, NEW x \in Results, Save("memory.json", x)
  PROVE  DiskOK'
BY DEF Save, DiskOK, Files, Artifacts

LEMMA SaveOtherType ==
  ASSUME DiskOK, NEW f \in {"guidance.json", "datasets", "report.md", "report.html"}, NEW c, Save(f, c)
  PROVE  DiskOK'
BY DEF Save, DiskOK, Files, Artifacts, Reports

\* Marking the active stage blocked.
LEMMA BlockType ==
  ASSUME TypeOK, NEW p \in Procs, pc[p] \in Working, Block(p), UNCHANGED <<job, old, active, value, read, lock>>,
         pc[p] # "commit-stage"
  PROVE  LocalsOK' /\ PlacesOK'
<1> USE DEF TypeOK
<1>1. man[p] \in Manifests /\ res[p] \in Results /\ active[p] \in STAGES
  BY ArtifactFacts DEF LocalsOK, PlacesOK
<1>2. WithStatus(man[p], active[p], "blocked") \in Manifests
  BY <1>1, WithStatusType
<1>3. Blocked(res[p], active[p]) \in Results
  BY <1>1, BlockedType
<1>4. LocalsOK'
  BY <1>2, <1>3 DEF LocalsOK, Block, Goto, Writing, Working, StagePlaces
<1>5. PlacesOK'
  BY <1>2, <1>3 DEF PlacesOK, LocalsOK, Block, Goto, At, IsCompare, Writing, Working, StagePlaces
<1> QED BY <1>4, <1>5

LEMMA BeginStageType ==
  ASSUME TypeOK, NEW p \in Procs, BeginStage(p)
  PROVE  TypeOK'
<1> DEFINE m == Declared(man[p], active[p], Identity(p, active[p]))
<1> USE DEF TypeOK
<1>1. pc[p] \in Working
  BY DEF BeginStage, At, Working, StagePlaces
<1>2. man[p] \in Manifests /\ active[p] \in STAGES
  BY <1>1, ArtifactFacts DEF LocalsOK, PlacesOK
<1>3. m \in Manifests
  BY <1>1, <1>2, IdentityType, DeclaredType
<1> HIDE DEF m
<1>4. /\ man' = [man EXCEPT ![p] = m] /\ Save("manifest.json", m) /\ Goto(p, "run-stage")
      /\ At(p, "begin-stage")
      /\ UNCHANGED <<lock, history, job, old, res, active, value, read, bounds>>
  BY DEF BeginStage, m
<1>5. DiskOK'
  BY <1>3, <1>4, SaveManifestType
<1>6. LocalsOK'
  BY <1>3, <1>4 DEF LocalsOK, Goto, Writing, Working, StagePlaces
<1>7. PlacesOK'
  BY <1>3, <1>4 DEF PlacesOK, LocalsOK, Goto, At, IsCompare, Writing, Working, StagePlaces
<1>8. HistoryOK'
  BY <1>4 DEF HistoryOK, history, bounds
<1> QED BY <1>5, <1>6, <1>7, <1>8

LEMMA ResumeStageType ==
  ASSUME TypeOK, NEW p \in Procs, ResumeStage(p)
  PROVE  TypeOK'
<1> USE DEF TypeOK
<1>1. pc[p] \in Working /\ pc[p] # "commit-stage" /\ At(p, "run-stage")
  BY DEF ResumeStage, At, Working, StagePlaces
<1>2. DiskOK' /\ HistoryOK'
  BY DEF ResumeStage, DiskOK, HistoryOK, history, bounds
<1>3. active[p] \in DOMAIN ArtifactOf
  BY <1>1 DEF LocalsOK, PlacesOK
<1>4. disk[ArtifactOf[active[p]]] \in OutputsOf(active[p])
  BY <1>3 DEF DiskOK, ArtifactOf, OutputsOf
<1>5. CASE Block(p) /\ UNCHANGED value
  BY <1>1, <1>2, <1>5, BlockType DEF ResumeStage
<1>6. CASE /\ value' = [value EXCEPT ![p] = disk[ArtifactOf[active[p]]]]
           /\ Goto(p, "commit-stage")
           /\ UNCHANGED <<man, res>>
  <2>1. UNCHANGED <<disk, lock, history, job, old, active, read, bounds>>
    BY DEF ResumeStage
  <2>2. LocalsOK'
    BY <1>6, <2>1 DEF LocalsOK, Goto, Writing, Working, StagePlaces
  <2>3. PlacesOK'
    BY <1>1, <1>4, <1>6, <2>1
       DEF PlacesOK, LocalsOK, Goto, At, IsCompare, Writing, Working, StagePlaces
  <2> QED BY <1>2, <2>2, <2>3
<1> QED BY <1>5, <1>6 DEF ResumeStage

LEMMA ExecuteStageType ==
  ASSUME TypeOK, NEW p \in Procs, ExecuteStage(p)
  PROVE  TypeOK'
<1> DEFINE v == IF active[p] = "preparation" THEN job[p].evidence
                ELSE Output(active[p], Identity(p, active[p]), job[p].run)
<1> USE DEF TypeOK
<1>1. pc[p] \in Working /\ pc[p] # "commit-stage" /\ At(p, "run-stage")
  BY DEF ExecuteStage, At, Working, StagePlaces
<1>2. active[p] \in DOMAIN ArtifactOf
  BY <1>1 DEF LocalsOK, PlacesOK
<1>3. v \in OutputsOf(active[p])
  BY <1>1, IdentityType
<1> HIDE DEF v
<1>4. HistoryOK'
  BY DEF ExecuteStage, HistoryOK, history, bounds
<1>5. CASE Block(p) /\ UNCHANGED <<disk, value>>
  <2>1. UNCHANGED <<lock, history, job, old, active, read, bounds>>
    BY DEF ExecuteStage
  <2>2. DiskOK'
    BY <1>5 DEF DiskOK
  <2> QED BY <1>1, <1>4, <1>5, <2>1, <2>2, BlockType
<1>6. CASE /\ Save(ArtifactOf[active[p]], v)
           /\ value' = [value EXCEPT ![p] = v]
           /\ Goto(p, "commit-stage")
           /\ UNCHANGED <<man, res>>
  <2>1. UNCHANGED <<lock, history, job, old, active, read, bounds>>
    BY DEF ExecuteStage
  <2>2. LocalsOK'
    BY <1>6, <2>1 DEF LocalsOK, Goto, Writing, Working, StagePlaces
  <2>3. PlacesOK'
    BY <1>1, <1>3, <1>6, <2>1
       DEF PlacesOK, LocalsOK, Goto, At, IsCompare, Writing, Working, StagePlaces
  <2>4. DiskOK'
    BY <1>2, <1>3, <1>6, SaveOutputType
  <2> QED BY <1>4, <2>2, <2>3, <2>4
<1> QED BY <1>5, <1>6 DEF ExecuteStage, v

\* Whatever a step writes, the process goes on at a place of the same kind.
LEMMA AdvanceType ==
  ASSUME TypeOK, NEW p \in Procs, pc[p] \in Working,
         NEW there \in Working \ {"commit-stage"},
         there = "save-proposals" => job[p].saved \in Results,
         NEW m \in Manifests, NEW x \in Results, NEW a \in DOMAIN ArtifactOf,
         Goto(p, there),
         man' = [man EXCEPT ![p] = m], res' = [res EXCEPT ![p] = x],
         active' = [active EXCEPT ![p] = a],
         \/ value' = [value EXCEPT ![p] = Absent]
         \/ pc[p] # "commit-stage" /\ UNCHANGED value,
         UNCHANGED <<lock, job, old, read>>
  PROVE  LocalsOK' /\ PlacesOK'
<1> USE DEF TypeOK
<1>1. LocalsOK'
  BY DEF LocalsOK, Goto, Writing
<1>2. PlacesOK'
  BY ArtifactFacts
     DEF PlacesOK, LocalsOK, Goto, At, IsCompare, Writing, Working, StagePlaces
<1> QED BY <1>1, <1>2

LEMMA TakeProposalsType ==
  ASSUME TypeOK, NEW p \in Procs, pc[p] \in Working,
         NEW m \in Manifests, NEW proposals \in Candidates,
         TakeProposals(p, m, proposals),
         \/ value' = [value EXCEPT ![p] = Absent]
         \/ pc[p] # "commit-stage" /\ UNCHANGED value,
         UNCHANGED <<lock, job, old, read>>
  PROVE  LocalsOK' /\ PlacesOK'
<1>1. res[p] \in Results
  BY DEF TypeOK, PlacesOK
<1>2. "comparison" \in DOMAIN ArtifactOf
  BY ArtifactFacts
<1>3. {"begin-stage", "save-result"} \subseteq Working \ {"commit-stage"}
  BY DEF Working, StagePlaces
<1>4. CASE HasGuidance(p)
  <2>1. [res[p] EXCEPT !.candidates = proposals] \in Results
    BY <1>1 DEF Results
  <2>2. /\ Goto(p, "begin-stage") /\ man' = [man EXCEPT ![p] = m]
        /\ res' = [res EXCEPT ![p] = [res[p] EXCEPT !.candidates = proposals]]
        /\ active' = [active EXCEPT ![p] = "comparison"]
    BY <1>4 DEF TakeProposals
  <2> QED BY <1>2, <1>3, <2>1, <2>2, AdvanceType
<1>5. CASE ~HasGuidance(p)
  <2>1. [res[p] EXCEPT !.candidates = proposals, !.status = "complete"] \in Results
    BY <1>1 DEF Results, Statuses
  <2>2. /\ Goto(p, "save-result") /\ man' = [man EXCEPT ![p] = Skip(m, {"comparison"})]
        /\ res' = [res EXCEPT ![p] =
                     [res[p] EXCEPT !.candidates = proposals, !.status = "complete"]]
        /\ active' = [active EXCEPT ![p] = "comparison"]
    BY <1>5 DEF TakeProposals
  <2>3. Skip(m, {"comparison"}) \in Manifests
    BY SkipType DEF STAGES
  <2> QED BY <1>2, <1>3, <2>1, <2>2, <2>3, AdvanceType
<1> QED BY <1>4, <1>5

LEMMA CommitStageType ==
  ASSUME TypeOK, NEW p \in Procs, CommitStage(p)
  PROVE  TypeOK'
<1> DEFINE m == List(Completed(man[p], active[p], value[p]), ArtifactOf[active[p]], value[p])
<1>1. pc[p] \in Working /\ At(p, "commit-stage")
  BY DEF CommitStage, At, Working, StagePlaces
<1>2. /\ man[p] \in Manifests /\ res[p] \in Results
      /\ active[p] \in DOMAIN ArtifactOf /\ value[p] \in OutputsOf(active[p])
  BY <1>1 DEF TypeOK, LocalsOK, PlacesOK
<1>3. value[p] \in EvidenceFiles \cup Features \cup Candidates \cup Assessments
  BY <1>2, ArtifactFacts DEF OutputsOf
<1>4. Completed(man[p], active[p], value[p]) \in Manifests
  BY <1>2, <1>3, ArtifactFacts, CompletedType
<1>5. m \in Manifests
  BY <1>2, <1>3, <1>4, ArtifactFacts, ListType DEF Listed
<1> HIDE DEF m
<1>6. /\ Save("manifest.json", m)
      /\ value' = [value EXCEPT ![p] = Absent]
      /\ UNCHANGED <<lock, history, job, old, read, bounds>>
  BY DEF CommitStage, m
<1>7. DiskOK'
  BY <1>5, <1>6, SaveManifestType DEF TypeOK
<1>8. HistoryOK'
  BY <1>6 DEF TypeOK, HistoryOK, history, bounds
<1>9. {"begin-stage", "save-result", "export"} \subseteq Working \ {"commit-stage"}
  BY DEF Working, StagePlaces
<1>10. res = [res EXCEPT ![p] = res[p]] /\ active = [active EXCEPT ![p] = active[p]]
  BY DEF TypeOK, LocalsOK
<1>11. LocalsOK' /\ PlacesOK'
  <2>1. CASE active[p] = "preparation"
    <3>1. Goto(p, "export") /\ man' = [man EXCEPT ![p] = m] /\ UNCHANGED <<res, active>>
      BY <2>1 DEF CommitStage, m
    <3> QED BY <1>1, <1>2, <1>5, <1>6, <1>9, <1>10, <3>1, AdvanceType
  <2>2. CASE active[p] = "screening"
    <3>1. /\ Goto(p, "begin-stage") /\ man' = [man EXCEPT ![p] = m]
          /\ res' = [res EXCEPT ![p] = [res[p] EXCEPT !.features = value[p]]]
          /\ active' = [active EXCEPT ![p] = "synthesis"]
      BY <2>2 DEF CommitStage, m
    <3>2. [res[p] EXCEPT !.features = value[p]] \in Results
      BY <1>2, <2>2 DEF Results, OutputsOf
    <3> QED BY <1>1, <1>5, <1>6, <1>9, <3>1, <3>2, AdvanceType, ArtifactFacts
  <2>3. CASE active[p] = "synthesis"
    <3>1. TakeProposals(p, m, value[p])
      BY <2>3 DEF CommitStage, m
    <3>2. value[p] \in Candidates
      BY <1>2, <2>3 DEF OutputsOf
    <3> QED BY <1>1, <1>5, <1>6, <3>1, <3>2, TakeProposalsType
  <2>4. CASE active[p] = "comparison"
    <3>1. /\ Goto(p, "save-result") /\ man' = [man EXCEPT ![p] = m]
          /\ res' = [res EXCEPT ![p] =
                       [res[p] EXCEPT !.assessments = value[p], !.status = "complete"]]
          /\ UNCHANGED active
      BY <2>4 DEF CommitStage, m
    <3>2. [res[p] EXCEPT !.assessments = value[p], !.status = "complete"] \in Results
      BY <1>2, <2>4 DEF Results, OutputsOf, Statuses
    <3> QED BY <1>1, <1>2, <1>5, <1>6, <1>9, <1>10, <3>1, <3>2, AdvanceType
  <2> QED BY <1>2, <2>1, <2>2, <2>3, <2>4, ArtifactFacts
<1> QED BY <1>7, <1>8, <1>11 DEF TypeOK

\* What a working process has at hand.
LEMMA AtWork ==
  ASSUME TypeOK, NEW p \in Procs, pc[p] \in Working
  PROVE  /\ man[p] \in Manifests /\ res[p] \in Results
         /\ active[p] \in DOMAIN ArtifactOf /\ active[p] \in STAGES
         /\ job[p] \in Jobs
         /\ job[p].evidence \in EvidenceFiles /\ job[p].guidance \in AnyGuidance
         /\ res = [res EXCEPT ![p] = res[p]]
         /\ man = [man EXCEPT ![p] = man[p]]
         /\ active = [active EXCEPT ![p] = active[p]]
BY ArtifactFacts DEF TypeOK, LocalsOK, PlacesOK, Jobs

LEMMA BetweenType ==
  ASSUME TypeOK, NEW p \in Procs, Between(p)
  PROVE  TypeOK'
<1>1. pc[p] \in Working \ {"commit-stage"}
  BY DEF Between, ExportCommands, PersistExport, SaveGuidance, SaveProposals, SaveStep,
         At, Working, StagePlaces
<1>2. /\ man[p] \in Manifests /\ res[p] \in Results
      /\ active[p] \in DOMAIN ArtifactOf /\ job[p] \in Jobs
      /\ job[p].evidence \in EvidenceFiles /\ job[p].guidance \in AnyGuidance
      /\ res = [res EXCEPT ![p] = res[p]]
      /\ man = [man EXCEPT ![p] = man[p]]
      /\ active = [active EXCEPT ![p] = active[p]]
  BY <1>1, AtWork
<1>3. {"persist-export", "save-guidance", "save-result", "begin-stage", "save-proposals"}
        \subseteq Working \ {"commit-stage"}
  BY DEF Working, StagePlaces
<1>4. CASE ExportCommands(p)
  <2>1. HistoryOK'
    BY <1>4 DEF ExportCommands, TypeOK, HistoryOK, history, bounds
  <2>2. CASE Block(p) /\ UNCHANGED disk
    <3>1. UNCHANGED <<lock, history, job, old, active, value, read, bounds>>
      BY <1>4 DEF ExportCommands
    <3>2. DiskOK'
      BY <2>2 DEF TypeOK, DiskOK
    <3>3. LocalsOK' /\ PlacesOK'
      BY <1>1, <2>2, <3>1, BlockType
    <3> QED BY <2>1, <3>2, <3>3 DEF TypeOK
  <2>3. CASE /\ Save("datasets", Dataset(job[p].evidence))
             /\ man' = [man EXCEPT ![p] = [@ EXCEPT !.datasets = Dataset(job[p].evidence)]]
             /\ res' = [res EXCEPT ![p] = [@ EXCEPT !.hooks = TRUE]]
             /\ Goto(p, "persist-export")
    <3>1. UNCHANGED <<lock, history, job, old, active, value, read, bounds>>
      BY <1>4 DEF ExportCommands
    <3>2. DiskOK'
      BY <2>3, SaveOtherType DEF TypeOK
    <3>3. [man[p] EXCEPT !.datasets = Dataset(job[p].evidence)] \in Manifests
      BY <1>2 DEF Manifests, Datasets, Dataset
    <3>4. [res[p] EXCEPT !.hooks = TRUE] \in Results
      BY <1>2 DEF Results
    <3>5. LocalsOK' /\ PlacesOK'
      BY <1>1, <1>2, <1>3, <2>3, <3>1, <3>3, <3>4, AdvanceType
    <3> QED BY <2>1, <3>2, <3>5 DEF TypeOK
  <2> QED BY <1>4, <2>2, <2>3 DEF ExportCommands
<1>5. CASE PersistExport(p)
  <2>1. /\ Save("manifest.json", man[p]) /\ Goto(p, "save-guidance")
        /\ UNCHANGED <<lock, job, old, man, res, active, value, read, history, bounds>>
    BY <1>5 DEF PersistExport, SaveStep, local
  <2>2. DiskOK'
    BY <1>2, <2>1, SaveManifestType DEF TypeOK
  <2>3. HistoryOK'
    BY <2>1 DEF TypeOK, HistoryOK, history, bounds
  <2>4. LocalsOK' /\ PlacesOK'
    BY <1>1, <1>2, <1>3, <2>1, AdvanceType
  <2> QED BY <2>2, <2>3, <2>4 DEF TypeOK
<1>6. CASE SaveGuidance(p)
  <2> DEFINE listed == List(man[p], "guidance.json", GuidanceFile(job[p].guidance))
  <2>1. /\ Save("guidance.json", GuidanceFile(job[p].guidance))
        /\ UNCHANGED <<lock, history, job, old, value, read, bounds>>
    BY <1>6 DEF SaveGuidance
  <2>2. DiskOK'
    BY <2>1, SaveOtherType DEF TypeOK
  <2>3. HistoryOK'
    BY <2>1 DEF TypeOK, HistoryOK, history, bounds
  <2>4. GuidanceFile(job[p].guidance) \in Listed
    BY <1>2 DEF GuidanceFile, Listed
  <2>5. listed \in Manifests
    BY <1>2, <2>4, ListType DEF Artifacts
  <2> HIDE DEF listed
  <2>6. CASE job[p].kind = "off"
    <3>1. /\ man' = [man EXCEPT ![p] = Skip(listed, {"screening", "synthesis", "comparison"})]
          /\ res' = [res EXCEPT ![p] = [res[p] EXCEPT !.status = "preprocessed"]]
          /\ Goto(p, "save-result") /\ UNCHANGED active
      BY <1>6, <2>6 DEF SaveGuidance, IsCompare, listed
    <3>2. Skip(listed, {"screening", "synthesis", "comparison"}) \in Manifests
      BY <2>5, SkipType DEF STAGES
    <3>3. [res[p] EXCEPT !.status = "preprocessed"] \in Results
      BY <1>2 DEF Results, Statuses
    <3>4. LocalsOK' /\ PlacesOK'
      BY <1>1, <1>2, <1>3, <2>1, <3>1, <3>2, <3>3, AdvanceType
    <3> QED BY <2>2, <2>3, <3>4 DEF TypeOK
  <2>7. CASE job[p].kind = "extract"
    <3>1. /\ man' = [man EXCEPT ![p] = listed] /\ UNCHANGED res
          /\ active' = [active EXCEPT ![p] = "screening"] /\ Goto(p, "begin-stage")
      BY <1>6, <2>7 DEF SaveGuidance, IsCompare, listed
    <3>2. LocalsOK' /\ PlacesOK'
      BY <1>1, <1>2, <1>3, <2>1, <2>5, <3>1, AdvanceType, ArtifactFacts
    <3> QED BY <2>2, <2>3, <3>2 DEF TypeOK
  <2>8. CASE IsCompare(p)
    <3>1. /\ man' = [man EXCEPT ![p] = Skip(listed, {"screening"})]
          /\ res' = [res EXCEPT ![p] = [res[p] EXCEPT !.features = job[p].saved.features]]
          /\ active' = [active EXCEPT ![p] = "synthesis"] /\ Goto(p, "save-proposals")
      BY <1>6, <2>8 DEF SaveGuidance, IsCompare, listed
    <3>2. job[p].saved \in Results
      BY <1>1, <2>8 DEF TypeOK, PlacesOK, Writing
    <3>3. [res[p] EXCEPT !.features = job[p].saved.features] \in Results
      BY <1>2, <3>2 DEF Results
    <3>4. Skip(listed, {"screening"}) \in Manifests
      BY <2>5, SkipType DEF STAGES
    <3>5. LocalsOK' /\ PlacesOK'
      BY <1>1, <1>2, <1>3, <2>1, <3>1, <3>2, <3>3, <3>4, AdvanceType, ArtifactFacts
    <3> QED BY <2>2, <2>3, <3>5 DEF TypeOK
  <2> QED BY <1>6, <2>6, <2>7, <2>8 DEF SaveGuidance
<1>7. CASE SaveProposals(p)
  <2>1. /\ Save("proposals.json", job[p].saved.candidates)
        /\ TakeProposals(p, Skip(man[p], {"synthesis"}), job[p].saved.candidates)
        /\ UNCHANGED <<lock, history, job, old, value, read, bounds>>
    BY <1>7 DEF SaveProposals
  <2>2. job[p].saved.candidates \in Candidates
    BY <1>7 DEF TypeOK, PlacesOK, SaveProposals, Results
  <2>3. Skip(man[p], {"synthesis"}) \in Manifests
    BY <1>2, SkipType DEF STAGES
  <2>4. DiskOK'
    BY <2>1, <2>2, SaveOutputType DEF TypeOK, ArtifactOf, OutputsOf
  <2>5. HistoryOK'
    BY <2>1 DEF TypeOK, HistoryOK, history, bounds
  <2>6. LocalsOK' /\ PlacesOK'
    BY <1>1, <2>1, <2>2, <2>3, TakeProposalsType
  <2> QED BY <2>4, <2>5, <2>6 DEF TypeOK
<1> QED BY <1>4, <1>5, <1>6, <1>7 DEF Between

LEMMA PublishType ==
  ASSUME TypeOK, NEW p \in Procs, Publish(p)
  PROVE  TypeOK'
<1>1. pc[p] \in Working \ {"commit-stage"}
  BY DEF Publish, SaveResult, PersistResult, RenderMarkdown, RenderHtml, RenderFails,
         PersistFinal, SaveStep, At, Working, StagePlaces
<1>2. /\ man[p] \in Manifests /\ res[p] \in Results
      /\ active[p] \in DOMAIN ArtifactOf /\ job[p] \in Jobs
      /\ res = [res EXCEPT ![p] = res[p]]
      /\ man = [man EXCEPT ![p] = man[p]]
      /\ active = [active EXCEPT ![p] = active[p]]
  BY <1>1, AtWork
<1>3. {"persist-result", "render-markdown", "render-html", "persist-final"}
        \subseteq Working \ {"commit-stage"}
  BY DEF Working
<1>4. Report(res[p]) \in Rendered
  BY <1>2 DEF Report, Rendered
<1>5. "rendering" \in STAGES /\ "memory.json" \in Artifacts
  BY DEF STAGES, Artifacts
<1>6. CASE SaveResult(p)
  <2> DEFINE m == Declared(List(man[p], "memory.json", res[p]), "rendering", res[p])
  <2>1. /\ Save("memory.json", res[p]) /\ man' = [man EXCEPT ![p] = m]
        /\ Goto(p, "persist-result")
        /\ UNCHANGED <<lock, history, job, old, res, active, value, read, bounds>>
    BY <1>6 DEF SaveResult
  <2>2. List(man[p], "memory.json", res[p]) \in Manifests
    BY <1>2, <1>5, ListType DEF Listed
  <2>3. m \in Manifests
    BY <1>2, <1>5, <2>2, DeclaredType
  <2> HIDE DEF m
  <2>4. DiskOK'
    BY <1>2, <2>1, SaveResultFileType DEF TypeOK
  <2>5. HistoryOK'
    BY <2>1 DEF TypeOK, HistoryOK, history, bounds
  <2>6. LocalsOK' /\ PlacesOK'
    BY <1>1, <1>2, <1>3, <2>1, <2>3, AdvanceType
  <2> QED BY <2>4, <2>5, <2>6 DEF TypeOK
<1>7. CASE PersistResult(p)
  <2>1. /\ Save("manifest.json", man[p]) /\ Goto(p, "render-markdown")
        /\ UNCHANGED <<lock, job, old, man, res, active, value, read, history, bounds>>
    BY <1>7 DEF PersistResult, SaveStep, local
  <2>2. DiskOK'
    BY <1>2, <2>1, SaveManifestType DEF TypeOK
  <2>3. HistoryOK'
    BY <2>1 DEF TypeOK, HistoryOK, history, bounds
  <2>4. LocalsOK' /\ PlacesOK'
    BY <1>1, <1>2, <1>3, <2>1, AdvanceType
  <2> QED BY <2>2, <2>3, <2>4 DEF TypeOK
<1>8. CASE RenderMarkdown(p)
  <2>1. /\ Save("report.md", Report(res[p])) /\ Goto(p, "render-html")
        /\ UNCHANGED <<lock, job, old, man, res, active, value, read, history, bounds>>
    BY <1>8 DEF RenderMarkdown, SaveStep, local
  <2>2. DiskOK'
    BY <2>1, SaveOtherType DEF TypeOK
  <2>3. HistoryOK'
    BY <2>1 DEF TypeOK, HistoryOK, history, bounds
  <2>4. LocalsOK' /\ PlacesOK'
    BY <1>1, <1>2, <1>3, <2>1, AdvanceType
  <2> QED BY <2>2, <2>3, <2>4 DEF TypeOK
<1>9. CASE RenderHtml(p)
  <2>1. /\ Save("report.html", Report(res[p])) /\ Goto(p, "persist-final")
        /\ man' = [man EXCEPT ![p] = Completed(man[p], "rendering", Report(res[p]))]
        /\ UNCHANGED <<lock, history, job, old, res, active, value, read, bounds>>
    BY <1>9 DEF RenderHtml
  <2>2. DiskOK'
    BY <2>1, SaveOtherType DEF TypeOK
  <2>3. HistoryOK'
    BY <2>1 DEF TypeOK, HistoryOK, history, bounds
  <2>4. Completed(man[p], "rendering", Report(res[p])) \in Manifests
    BY <1>2, <1>4, <1>5, CompletedType
  <2>5. LocalsOK' /\ PlacesOK'
    BY <1>1, <1>2, <1>3, <2>1, <2>4, AdvanceType
  <2> QED BY <2>2, <2>3, <2>5 DEF TypeOK
<1>10. CASE RenderFails(p)
  <2> DEFINE x == Blocked(res[p], "rendering")
             m == List(WithStatus(man[p], "rendering", "blocked"), "memory.json", x)
  <2>1. /\ Save("memory.json", x) /\ Goto(p, "persist-final")
        /\ man' = [man EXCEPT ![p] = m] /\ res' = [res EXCEPT ![p] = x]
        /\ UNCHANGED <<lock, history, job, old, active, value, read, bounds>>
    BY <1>10 DEF RenderFails
  <2>2. x \in Results
    BY <1>2, <1>5, BlockedType
  <2>3. WithStatus(man[p], "rendering", "blocked") \in Manifests
    BY <1>2, <1>5, WithStatusType
  <2> HIDE DEF x
  <2>4. m \in Manifests
    BY <1>5, <2>2, <2>3, ListType DEF Listed
  <2> HIDE DEF m
  <2>5. DiskOK'
    BY <2>1, <2>2, SaveResultFileType DEF TypeOK
  <2>6. HistoryOK'
    BY <2>1 DEF TypeOK, HistoryOK, history, bounds
  <2>7. LocalsOK' /\ PlacesOK'
    BY <1>1, <1>2, <1>3, <2>1, <2>2, <2>4, AdvanceType
  <2> QED BY <2>5, <2>6, <2>7 DEF TypeOK
<1>11. CASE PersistFinal(p)
  <2>1. Save("manifest.json", man[p]) /\ UNCHANGED <<history, bounds>>
    BY <1>11 DEF PersistFinal
  <2>2. DiskOK'
    BY <1>2, <2>1, SaveManifestType DEF TypeOK
  <2>3. HistoryOK'
    BY <2>1 DEF TypeOK, HistoryOK, history, bounds
  <2>4. CASE IsCompare(p)
    <3>1. Exit(p)
      BY <1>11, <2>4 DEF PersistFinal
    <3> QED BY <2>2, <2>3, <3>1, ExitType DEF TypeOK
  <2>5. CASE ~IsCompare(p)
    <3>1. /\ lock' = NoProc /\ Goto(p, "read-manifest")
          /\ old' = [old EXCEPT ![p] = Absent] /\ man' = [man EXCEPT ![p] = Absent]
          /\ active' = [active EXCEPT ![p] = "none"]
          /\ UNCHANGED <<job, res, value, read>>
      BY <1>11, <2>5 DEF PersistFinal
    <3>2. LocalsOK'
      BY <3>1 DEF TypeOK, LocalsOK, Goto, ReadingPlaces
    <3>3. PlacesOK'
      BY <1>1, <2>5, <3>1 DEF TypeOK, PlacesOK, LocalsOK, Goto, At, IsCompare, Writing, Working, StagePlaces
    <3> QED BY <2>2, <2>3, <3>2, <3>3 DEF TypeOK
  <2> QED BY <2>4, <2>5
<1> QED BY <1>6, <1>7, <1>8, <1>9, <1>10, <1>11 DEF Publish

LEMMA LoadSavedType ==
  ASSUME TypeOK, NEW p \in Procs, LoadSaved(p)
  PROVE  TypeOK'
<1>1. UNCHANGED <<disk, history, bounds>>
  BY DEF LoadSaved, ReadManifest, ReadEvidence, ReadResult, Verify, UseLoaded
<1>2. DiskOK' /\ HistoryOK'
  BY <1>1 DEF TypeOK, DiskOK, HistoryOK, history, bounds
<1>3. CASE Exit(p)
  BY <1>2, <1>3, ExitType DEF TypeOK
<1>4. ASSUME NEW there \in {"read-evidence", "read-result", "verify", "loaded"},
             NEW reads \in Reads, pc[p] \in ReadingPlaces,
             read' = [read EXCEPT ![p] = reads], Goto(p, there),
             reads.manifest \in Manifests,
             there \in {"verify", "loaded"} => reads.result \in Results,
             UNCHANGED <<lock, job, old, man, res, active, value>>
      PROVE  TypeOK'
  <2>1. LocalsOK'
    BY <1>4 DEF TypeOK, LocalsOK, Goto, ReadingPlaces
  <2>2. PlacesOK'
    BY <1>4 DEF TypeOK, PlacesOK, LocalsOK, Goto, At, IsCompare, ReadingPlaces, Writing, Working, StagePlaces
  <2> QED BY <1>2, <2>1, <2>2 DEF TypeOK
<1>5. read[p] \in Reads
  BY DEF TypeOK, LocalsOK
<1>6. CASE ReadManifest(p)
  <2>1. CASE ~Exit(p)
    <3>1. /\ disk["manifest.json"] \in Manifests
          /\ read' = [read EXCEPT ![p] = [read[p] EXCEPT !.manifest = disk["manifest.json"]]]
          /\ Goto(p, "read-evidence") /\ pc[p] \in ReadingPlaces
          /\ UNCHANGED <<lock, job, old, man, res, active, value>>
      BY <1>6, <2>1 DEF ReadManifest, TypeOK, DiskOK, At, ReadingPlaces, history
    <3>2. [read[p] EXCEPT !.manifest = disk["manifest.json"]] \in Reads
      BY <1>5, <3>1 DEF Reads
    <3> QED BY <1>4, <1>5, <3>1, <3>2 DEF Reads
  <2> QED BY <1>3, <2>1
<1>7. CASE ReadEvidence(p)
  <2>1. CASE ~Exit(p)
    <3>1. /\ disk["prepared.json"] \in EvidenceFiles
          /\ read' = [read EXCEPT ![p] = [read[p] EXCEPT !.evidence = disk["prepared.json"]]]
          /\ Goto(p, "read-result") /\ pc[p] \in ReadingPlaces
          /\ read[p].manifest \in Manifests
          /\ UNCHANGED <<lock, job, old, man, res, active, value>>
      BY <1>7, <2>1 DEF ReadEvidence, TypeOK, DiskOK, PlacesOK, At, ReadingPlaces, history
    <3>2. /\ [read[p] EXCEPT !.evidence = disk["prepared.json"]] \in Reads
          /\ [read[p] EXCEPT !.evidence = disk["prepared.json"]].manifest = read[p].manifest
      BY <1>5, <3>1 DEF Reads
    <3> QED BY <1>4, <3>1, <3>2
  <2> QED BY <1>3, <2>1
<1>8. CASE ReadResult(p)
  <2>1. CASE ~Exit(p)
    <3>1. /\ disk["memory.json"] \in Results
          /\ read' = [read EXCEPT ![p] = [read[p] EXCEPT !.result = disk["memory.json"]]]
          /\ Goto(p, "verify") /\ pc[p] \in ReadingPlaces
          /\ read[p].manifest \in Manifests
          /\ UNCHANGED <<lock, job, old, man, res, active, value>>
      BY <1>8, <2>1 DEF ReadResult, TypeOK, DiskOK, PlacesOK, At, ReadingPlaces, history
    <3>2. /\ [read[p] EXCEPT !.result = disk["memory.json"]] \in Reads
          /\ [read[p] EXCEPT !.result = disk["memory.json"]].manifest = read[p].manifest
          /\ [read[p] EXCEPT !.result = disk["memory.json"]].result = disk["memory.json"]
      BY <1>5, <3>1 DEF Reads
    <3> QED BY <1>4, <3>1, <3>2
  <2> QED BY <1>3, <2>1
<1>9. CASE Verify(p)
  <2>1. CASE ~Exit(p)
    <3>1. /\ Goto(p, "loaded") /\ pc[p] \in ReadingPlaces
          /\ read[p].manifest \in Manifests /\ read[p].result \in Results
          /\ read = [read EXCEPT ![p] = read[p]]
          /\ UNCHANGED <<lock, job, old, man, res, active, value, read>>
      BY <1>9, <2>1 DEF Verify, TypeOK, LocalsOK, PlacesOK, At, ReadingPlaces, local
    <3> QED BY <1>4, <1>5, <3>1
  <2> QED BY <1>3, <2>1
<1>10. CASE UseLoaded(p)
  <2>1. CASE ~Exit(p)
    <3>1. /\ job' = [job EXCEPT ![p] = [job[p] EXCEPT !.evidence = read[p].evidence,
                                                    !.saved = read[p].result]]
          /\ read' = [read EXCEPT ![p] = NoRead]
          /\ Goto(p, "lock") /\ At(p, "loaded")
          /\ UNCHANGED <<lock, old, man, res, active, value>>
      BY <1>10, <2>1 DEF UseLoaded
    <3>2. read[p].evidence \in EvidenceFiles /\ read[p].result \in Results
      BY <1>5, <3>1 DEF Reads, TypeOK, PlacesOK, At
    <3>3. job[p] \in Jobs
      BY DEF TypeOK, LocalsOK
    <3>4. NoRead \in Reads
      BY ConstantTypes
    <3>5. LocalsOK'
      <4>1. [job[p] EXCEPT !.evidence = read[p].evidence, !.saved = read[p].result] \in Jobs
        BY <3>2, <3>3 DEF Jobs
      <4>2. job' \in [Procs -> Jobs]
        BY <3>1, <4>1 DEF TypeOK, LocalsOK
      <4>3. read' \in [Procs -> Reads] /\ pc' \in [Procs -> ReadingPlaces \cup Writing]
        BY <3>1, <3>4 DEF TypeOK, LocalsOK, Goto, ReadingPlaces
      <4> QED BY <3>1, <4>2, <4>3 DEF TypeOK, LocalsOK
    <3>6. PlacesOK'
      BY <3>1, <3>2
         DEF TypeOK, PlacesOK, LocalsOK, Jobs, Goto, At, IsCompare, ReadingPlaces, Writing, Working, StagePlaces
    <3> QED BY <1>2, <3>5, <3>6 DEF TypeOK
  <2> QED BY <1>3, <2>1
<1> QED BY <1>6, <1>7, <1>8, <1>9, <1>10 DEF LoadSaved

LEMMA CrashType ==
  ASSUME TypeOK, NEW p \in Procs, Crash(p)
  PROVE  TypeOK'
<1>1. Exit(p) /\ UNCHANGED <<disk, history, runs, tampers>>
  BY DEF Crash
<1>2. LocalsOK' /\ PlacesOK'
  BY <1>1, ExitType
<1>3. crashes' \in 0..MaxCrashes
  BY BoundsAssumption DEF Crash, TypeOK, HistoryOK
<1> QED BY <1>1, <1>2, <1>3 DEF TypeOK, DiskOK, HistoryOK, history

LEMMA TamperType ==
  ASSUME TypeOK, NEW f \in Fragile, Tamper(f)
  PROVE  TypeOK'
<1>1. UNCHANGED <<lock, history, pc, local, runs, crashes>>
  BY DEF Tamper
<1>2. LocalsOK' /\ PlacesOK'
  BY <1>1 DEF TypeOK, LocalsOK, PlacesOK, local, At, IsCompare
<1>3. tampers' \in 0..MaxTampers
  BY BoundsAssumption DEF Tamper, TypeOK, HistoryOK
<1>4. HistoryOK'
  BY <1>1, <1>3 DEF TypeOK, HistoryOK, history
<1>5. PICK harm \in Damaged : Save(f, harm)
  BY DEF Tamper
<1>6. f \in Files
  BY FragileAssumption
<1>7. harm \in EvidenceFiles \cap Features \cap Candidates \cap Assessments
  BY <1>5 DEF EvidenceFiles, Features, Candidates, Assessments
<1>8. DiskOK'
  BY <1>5, <1>6, <1>7 DEF TypeOK, DiskOK, Save
<1> QED BY <1>2, <1>4, <1>8 DEF TypeOK

LEMMA UnchangedType ==
  ASSUME TypeOK, UNCHANGED vars
  PROVE  TypeOK'
BY DEF vars, history, local, bounds, TypeOK, DiskOK, LocalsOK, PlacesOK, HistoryOK, At, IsCompare

LEMMA NextType == TypeOK /\ [Next]_vars => TypeOK'
<1> SUFFICES ASSUME TypeOK, [Next]_vars
             PROVE  TypeOK'
  OBVIOUS
<1>1. CASE UNCHANGED vars
  BY <1>1, UnchangedType
<1>2. ASSUME NEW p \in Procs, Start(p)
      PROVE  TypeOK'
  BY <1>2, BeginType DEF Start, AnyGuidance
<1>3. ASSUME NEW p \in Procs, Step(p)
      PROVE  TypeOK'
  <2>1. CASE Stage(p)
    BY <2>1, BeginStageType, ResumeStageType, ExecuteStageType, CommitStageType DEF Stage
  <2> QED BY <1>3, <2>1, LockForCompareType, PrepareInputsType, OpenManifestType,
             PreparationFailedType, AnnounceType, BetweenType, PublishType, LoadSavedType
          DEF Step
<1>4. ASSUME NEW p \in Procs, Crash(p)
      PROVE  TypeOK'
  BY <1>4, CrashType
<1>5. ASSUME NEW f \in Fragile, Tamper(f)
      PROVE  TypeOK'
  BY <1>5, TamperType
<1> QED BY <1>1, <1>2, <1>3, <1>4, <1>5 DEF Next

\* The directory, what every process holds at each place of its run and the history
\* keep their types through any order of commands, crashes and damage.
THEOREM TypeCorrect == Spec => []TypeOK
<1>1. Init => TypeOK
  BY InitType
<1>2. TypeOK /\ [Next]_vars => TypeOK'
  BY NextType
<1> QED BY <1>1, <1>2, PTL DEF Spec

-----------------------------------------------------------------------------
(***************************************************************************)
(* Mutual exclusion of writers.                                            *)
(***************************************************************************)
\* A step between writing places that leaves the lock alone.
LEMMA StaysWriting ==
  ASSUME TypeOK, OneWriter, NEW p \in Procs, pc[p] \in Writing,
         NEW there \in Writing, Goto(p, there), UNCHANGED lock
  PROVE  OneWriter'
BY DEF OneWriter, TypeOK, LocalsOK, Goto

\* A step between places where nothing is written.
LEMMA StaysReading ==
  ASSUME TypeOK, OneWriter, NEW p \in Procs, pc[p] \notin Writing,
         NEW there, there \notin Writing, Goto(p, there), UNCHANGED lock
  PROVE  OneWriter'
BY DEF OneWriter, TypeOK, LocalsOK, Goto

\* A process takes the free lock, or gives back what it holds.
LEMMA Acquires ==
  ASSUME TypeOK, OneWriter, NEW p \in Procs, lock = NoProc, lock' = p,
         NEW there \in Writing, Goto(p, there)
  PROVE  OneWriter'
BY ProcsAssumption DEF OneWriter, TypeOK, LocalsOK, Goto

LEMMA Releases ==
  ASSUME TypeOK, OneWriter, NEW p \in Procs, NEW there, there \notin Writing, Goto(p, there),
         lock' = IF lock = p THEN NoProc ELSE lock
  PROVE  OneWriter'
BY ProcsAssumption DEF OneWriter, TypeOK, LocalsOK, Goto

LEMMA ReadingIsNotWriting == \A there \in ReadingPlaces : there \notin Writing
BY DEF ReadingPlaces, Writing, Working, StagePlaces

LEMMA ExitReleases ==
  ASSUME TypeOK, OneWriter, NEW p \in Procs, Exit(p)
  PROVE  OneWriter'
<1>1. Goto(p, "idle") /\ "idle" \notin Writing /\ lock' = IF lock = p THEN NoProc ELSE lock
  BY ReadingIsNotWriting DEF Exit, ReadingPlaces
<1> QED BY <1>1, Releases

\* Which steps stay at writing places, without touching the lock.
LEMMA WritingSteps ==
  ASSUME TypeOK, NEW p \in Procs,
         \/ PrepareInputs(p) \/ OpenManifest(p) \/ PreparationFailed(p)
         \/ Announce(p) \/ Stage(p) \/ Between(p) \/ Publish(p)
  PROVE  /\ pc[p] \in Writing
         /\ \/ UNCHANGED lock /\ \E there \in Writing : Goto(p, there)
            \/ Exit(p)
            \/ lock' = NoProc /\ Goto(p, "read-manifest") /\ PersistFinal(p)
<1> USE DEF At, Writing, Working, StagePlaces
<1>1. CASE PrepareInputs(p) \/ OpenManifest(p)
  BY <1>1 DEF PrepareInputs, OpenManifest
<1>2. CASE PreparationFailed(p)
  BY <1>2 DEF PreparationFailed, FailMemory, FailManifest, FailMarkdown, FailHtml, SaveStep
<1>3. CASE Announce(p)
  BY <1>3 DEF Announce, AnnounceMemory, AnnounceMarkdown, AnnounceHtml, AnnounceManifest, SaveStep
<1>4. CASE Stage(p)
  BY <1>4 DEF Stage, BeginStage, ResumeStage, ExecuteStage, CommitStage, TakeProposals, Block
<1>5. CASE Between(p)
  BY <1>5 DEF Between, ExportCommands, PersistExport, SaveGuidance, SaveProposals,
              TakeProposals, Block, SaveStep
<1>6. CASE Publish(p)
  BY <1>6 DEF Publish, SaveResult, PersistResult, RenderMarkdown, RenderHtml, RenderFails,
              PersistFinal, SaveStep
<1> QED BY <1>1, <1>2, <1>3, <1>4, <1>5, <1>6

LEMMA ReadingSteps ==
  ASSUME TypeOK, NEW p \in Procs, LoadSaved(p)
  PROVE  /\ pc[p] \notin Writing
         /\ \/ UNCHANGED lock /\ \E there \in ReadingPlaces : Goto(p, there)
            \/ Exit(p)
<1>1. pc[p] \in ReadingPlaces
  BY DEF LoadSaved, ReadManifest, ReadEvidence, ReadResult, Verify, UseLoaded, At, ReadingPlaces
<1>2. \/ UNCHANGED lock /\ \E there \in ReadingPlaces : Goto(p, there)
      \/ Exit(p)
  BY DEF LoadSaved, ReadManifest, ReadEvidence, ReadResult, Verify, UseLoaded, ReadingPlaces
<1> QED BY <1>1, <1>2, ReadingIsNotWriting

LEMMA NextOneWriter == TypeOK /\ OneWriter /\ [Next]_vars => OneWriter'
<1> SUFFICES ASSUME TypeOK, OneWriter, [Next]_vars
             PROVE  OneWriter'
  OBVIOUS
<1>1. CASE UNCHANGED vars
  BY <1>1 DEF vars, OneWriter
<1>2. ASSUME NEW p \in Procs, Start(p)
      PROVE  OneWriter'
  <2>1. PICK kind \in Kinds, g \in AnyGuidance : Begin(p, kind, g)
    BY <1>2 DEF Start, AnyGuidance
  <2>2. CASE kind = "compare"
    <3>1. pc[p] \notin Writing /\ Goto(p, "read-manifest") /\ UNCHANGED lock
      BY <2>1, <2>2, ReadingIsNotWriting DEF Begin, At, ReadingPlaces
    <3> QED BY <3>1, StaysReading, ReadingIsNotWriting DEF ReadingPlaces
  <2>3. CASE kind # "compare"
    <3>1. lock = NoProc /\ lock' = p /\ Goto(p, "prepare") /\ "prepare" \in Writing
      BY <2>1, <2>3 DEF Begin, Writing
    <3> QED BY <3>1, Acquires
  <2> QED BY <2>2, <2>3
<1>3. ASSUME NEW p \in Procs, Step(p)
      PROVE  OneWriter'
  <2>1. CASE LockForCompare(p)
    <3>1. CASE lock = NoProc
      BY <2>1, <3>1, Acquires DEF LockForCompare, Writing, Exit
    <3>2. CASE lock # NoProc
      BY <2>1, <3>2, ExitReleases DEF LockForCompare
    <3> QED BY <3>1, <3>2
  <2>2. CASE LoadSaved(p)
    BY <2>2, ReadingSteps, StaysReading, ReadingIsNotWriting, ExitReleases
  <2>3. CASE \/ PrepareInputs(p) \/ OpenManifest(p) \/ PreparationFailed(p)
             \/ Announce(p) \/ Stage(p) \/ Between(p) \/ Publish(p)
    <3>1. pc[p] \in Writing
      BY <2>3, WritingSteps
    <3>2. CASE UNCHANGED lock /\ \E there \in Writing : Goto(p, there)
      BY <3>1, <3>2, StaysWriting
    <3>3. CASE Exit(p)
      BY <3>3, ExitReleases
    <3>4. CASE lock' = NoProc /\ Goto(p, "read-manifest")
      <4>1. lock = p
        BY <3>1 DEF OneWriter
      <4>2. "read-manifest" \notin Writing
        BY ReadingIsNotWriting DEF ReadingPlaces
      <4> QED BY <3>4, <4>1, <4>2, Releases
    <3> QED BY <2>3, <3>2, <3>3, <3>4, WritingSteps
  <2> QED BY <1>3, <2>1, <2>2, <2>3 DEF Step
<1>4. ASSUME NEW p \in Procs, Crash(p)
      PROVE  OneWriter'
  BY <1>4, ExitReleases DEF Crash
<1>5. ASSUME NEW f \in Fragile, Tamper(f)
      PROVE  OneWriter'
  BY <1>5 DEF Tamper, OneWriter
<1> QED BY <1>1, <1>2, <1>3, <1>4, <1>5 DEF Next

\* Two processes are never both at a place where the directory is written, and the lock
\* is held exactly from the first such place to the last, crashes included.
THEOREM WritersAreExclusive == Spec => []OneWriter
<1>1. Init => OneWriter
  BY ProcsAssumption, ReadingIsNotWriting DEF Init, OneWriter, ReadingPlaces
<1>2. TypeOK /\ OneWriter /\ [Next]_vars => OneWriter'
  BY NextOneWriter
<1> QED BY <1>1, <1>2, TypeCorrect, PTL DEF Spec

-----------------------------------------------------------------------------
(***************************************************************************)
(* Saved stages.  CompleteStagesAreSaved is not inductive: a stage's       *)
(* artifact is replaced while some manifest, on disk or in the memory of   *)
(* the writer, might still call the stage complete.  The writer keeps both *)
(* manifests ahead of the artifact it is about to replace.                 *)
(***************************************************************************)
Announcing == {"announce-memory", "announce-markdown", "announce-html", "announce-manifest"}

\* Before the proposals of a comparison are written back.
Early(p) ==
  \/ pc[p] \in {"export", "persist-export", "save-guidance", "save-proposals"}
  \/ pc[p] \in {"begin-stage", "run-stage", "commit-stage"} /\ active[p] = "preparation"

Open(m, s) == m.stages[s].status # "complete"

WriterOK(p) ==
  /\ pc[p] \in Working => SavedIn(man[p], disk) /\ man[p].run = job[p].run
  /\ pc[p] \in Announcing => \A s \in STAGES : man[p].stages[s].status = "pending"
  /\ At(p, "run-stage") =>
       /\ man[p].stages[active[p]].status = "running"
       /\ \/ OnDisk \in Damaged
          \/ OnDisk.run = job[p].run /\ OnDisk.stages[active[p]].status = "running"
  /\ At(p, "commit-stage") => disk[ArtifactOf[active[p]]] \in {value[p]} \cup Damaged
  /\ Early(p) => /\ Open(man[p], "synthesis")
                 /\ OnDisk \in Damaged \/ Open(OnDisk, "synthesis")

SavedInv == CompleteStagesAreSaved /\ \A p \in Procs : WriterOK(p)

\* What becomes of the saved stages when a file is written or a manifest revised.
LEMMA SavedOther ==
  ASSUME NEW m, NEW d, DOMAIN d = Files, NEW f, f \notin {ArtifactOf[s] : s \in DOMAIN ArtifactOf},
         NEW c, SavedIn(m, d)
  PROVE  SavedIn(m, [d EXCEPT ![f] = c])
BY ArtifactFacts DEF SavedIn, Files

LEMMA SavedReplaced ==
  ASSUME NEW m, NEW d, DOMAIN d = Files, NEW s \in DOMAIN ArtifactOf, NEW c, SavedIn(m, d), Open(m, s)
  PROVE  SavedIn(m, [d EXCEPT ![ArtifactOf[s]] = c])
<1>1. \A t \in DOMAIN ArtifactOf : ArtifactOf[t] = ArtifactOf[s] => t = s
  BY DEF ArtifactOf
<1> QED BY <1>1, ArtifactFacts DEF SavedIn, Open, Files

LEMMA SavedDamaged ==
  ASSUME NEW m, NEW d, DOMAIN d = Files, NEW f, NEW c \in Damaged, SavedIn(m, d)
  PROVE  SavedIn(m, [d EXCEPT ![f] = c])
BY ArtifactFacts DEF SavedIn, Files

LEMMA SavedRevised ==
  ASSUME NEW m, NEW n, NEW d, SavedIn(m, d),
         \A s \in DOMAIN ArtifactOf : n.stages[s] = m.stages[s] \/ Open(n, s)
  PROVE  SavedIn(n, d)
BY DEF SavedIn, Open

LEMMA NotAnArtifact ==
  \A f \in {"manifest.json", "memory.json", "guidance.json", "datasets", "report.md", "report.html"} :
    f \notin {ArtifactOf[s] : s \in DOMAIN ArtifactOf}
BY DEF ArtifactOf

\* A process that does not work asks nothing of the files.
LEMMA AtRest ==
  ASSUME NEW p \in Procs, pc[p] \notin Working
  PROVE  WriterOK(p)
BY DEF WriterOK, Working, StagePlaces, Announcing, Early, At

\* A step of the writer cannot disturb another process: no other process works.
LEMMA OthersRest ==
  ASSUME TypeOK, OneWriter, NEW p \in Procs, pc[p] \in Writing, NEW there, Goto(p, there),
         NEW q \in Procs, q # p
  PROVE  WriterOK(q)'
<1>1. pc[q] \notin Writing /\ pc'[q] = pc[q]
  BY DEF OneWriter, Goto, TypeOK, LocalsOK
<1>2. pc'[q] \notin Working
  BY <1>1 DEF Writing
<1> QED BY <1>2 DEF WriterOK, Working, StagePlaces, Announcing, Early, At

\* The writer stops working.
LEMMA WriterRests ==
  ASSUME TypeOK, OneWriter, SavedInv, NEW p \in Procs, pc[p] \in Writing,
         NEW there, there \notin Working, Goto(p, there), CompleteStagesAreSaved'
  PROVE  SavedInv'
<1>1. pc'[p] \notin Working
  BY DEF TypeOK, LocalsOK, Goto
<1>2. WriterOK(p)'
  BY <1>1 DEF WriterOK, Working, StagePlaces, Announcing, Early, At
<1> QED BY <1>2, OthersRest DEF SavedInv

\* The writer works on.
LEMMA WriterWorks ==
  ASSUME TypeOK, OneWriter, SavedInv, NEW p \in Procs, pc[p] \in Writing,
         NEW there, Goto(p, there), CompleteStagesAreSaved', WriterOK(p)'
  PROVE  SavedInv'
BY OthersRest DEF SavedInv

\* Files that no stage saves may be written freely.
LEMMA OtherFileSaved ==
  ASSUME TypeOK, CompleteStagesAreSaved,
         NEW f \in {"memory.json", "guidance.json", "datasets", "report.md", "report.html"},
         NEW c, Save(f, c)
  PROVE  /\ CompleteStagesAreSaved'
         /\ OnDisk' = OnDisk
         /\ \A m : SavedIn(m, disk) => SavedIn(m, disk')
<1>1. DOMAIN disk = Files /\ disk' = [disk EXCEPT ![f] = c]
  BY DEF TypeOK, DiskOK, Save
<1>2. OnDisk' = OnDisk
  BY <1>1 DEF OnDisk, Files
<1>3. \A m : SavedIn(m, disk) => SavedIn(m, disk')
  BY <1>1, SavedOther, NotAnArtifact
<1> QED BY <1>2, <1>3 DEF CompleteStagesAreSaved

LEMMA ManifestSaved ==
  ASSUME TypeOK, NEW n, Save("manifest.json", n), SavedIn(n, disk)
  PROVE  /\ CompleteStagesAreSaved'
         /\ OnDisk' = n
         /\ \A m : SavedIn(m, disk) => SavedIn(m, disk')
<1>1. DOMAIN disk = Files /\ disk' = [disk EXCEPT !["manifest.json"] = n]
  BY DEF TypeOK, DiskOK, Save
<1>2. OnDisk' = n
  BY <1>1 DEF OnDisk, Files
<1>3. \A m : SavedIn(m, disk) => SavedIn(m, disk')
  BY <1>1, SavedOther, NotAnArtifact
<1> QED BY <1>2, <1>3 DEF CompleteStagesAreSaved

LEMMA PrepareInputsSaved ==
  ASSUME TypeOK, OneWriter, SavedInv, NEW p \in Procs, PrepareInputs(p)
  PROVE  SavedInv'
<1>1. pc[p] \in Writing
  BY DEF PrepareInputs, At, Writing
<1>2. CompleteStagesAreSaved'
  BY DEF PrepareInputs, SavedInv, CompleteStagesAreSaved, SavedIn, OnDisk
<1>3. \E there \in {"open", "fail-memory"} : Goto(p, there)
  BY DEF PrepareInputs
<1> QED BY <1>1, <1>2, <1>3, WriterRests DEF Working, StagePlaces

LEMMA OpenManifestSaved ==
  ASSUME TypeOK, OneWriter, SavedInv, NEW p \in Procs, OpenManifest(p)
  PROVE  SavedInv'
<1>1. pc[p] \in Writing
  BY DEF OpenManifest, At, Writing
<1>2. UNCHANGED disk
  BY DEF OpenManifest
<1>3. CompleteStagesAreSaved'
  BY <1>2 DEF SavedInv, CompleteStagesAreSaved, SavedIn, OnDisk
<1>4. CASE Goto(p, "fail-memory")
  BY <1>1, <1>3, <1>4, WriterRests DEF Working, StagePlaces
<1>5. CASE Goto(p, "announce-memory") /\ man' = [man EXCEPT ![p] = FreshManifest(job[p].run)]
  <2>1. UNCHANGED job
    BY DEF OpenManifest
  <2>2. man'[p] = FreshManifest(job[p].run) /\ pc'[p] = "announce-memory"
    BY <1>5 DEF TypeOK, LocalsOK, Goto
  <2>3. \A s \in STAGES : FreshManifest(job[p].run).stages[s].status = "pending"
    BY DEF FreshManifest, PendingRow
  <2>4. SavedIn(FreshManifest(job[p].run), disk')
    BY <2>3, ArtifactFacts DEF SavedIn
  <2>5. FreshManifest(job[p].run).run = job[p].run
    BY DEF FreshManifest
  <2>6. WriterOK(p)'
    BY <2>1, <2>2, <2>3, <2>4, <2>5 DEF WriterOK, Announcing, Early, At
  <2> QED BY <1>1, <1>3, <1>5, <2>6, WriterWorks
<1> QED BY <1>4, <1>5 DEF OpenManifest

LEMMA PreparationFailedSaved ==
  ASSUME TypeOK, OneWriter, SavedInv, NEW p \in Procs, PreparationFailed(p)
  PROVE  SavedInv'
<1>1. pc[p] \in Writing
  BY DEF PreparationFailed, FailMemory, FailManifest, FailMarkdown, FailHtml, SaveStep, At, Writing
<1>2. CompleteStagesAreSaved
  BY DEF SavedInv
<1>3. CASE FailMemory(p)
  BY <1>1, <1>2, <1>3, OtherFileSaved, WriterRests DEF FailMemory, SaveStep, Working, StagePlaces
<1>4. CASE FailManifest(p)
  <2>1. SavedIn(FailedManifest, disk)
    BY ArtifactFacts DEF SavedIn, FailedManifest, FreshManifest, PendingRow
  <2>2. CompleteStagesAreSaved'
    BY <1>4, <2>1, ManifestSaved DEF FailManifest, SaveStep
  <2> QED BY <1>1, <1>4, <2>2, WriterRests DEF FailManifest, SaveStep, Working, StagePlaces
<1>5. CASE FailMarkdown(p)
  BY <1>1, <1>2, <1>5, OtherFileSaved, WriterRests DEF FailMarkdown, SaveStep, Working, StagePlaces
<1>6. CASE FailHtml(p)
  <2>1. Goto(p, "idle")
    BY <1>6 DEF FailHtml, Exit
  <2>2. CompleteStagesAreSaved'
    BY <1>2, <1>6, OtherFileSaved DEF FailHtml
  <2> QED BY <1>1, <2>1, <2>2, WriterRests DEF Working, StagePlaces
<1> QED BY <1>3, <1>4, <1>5, <1>6 DEF PreparationFailed

LEMMA AnnounceSaved ==
  ASSUME TypeOK, OneWriter, SavedInv, NEW p \in Procs, Announce(p)
  PROVE  SavedInv'
<1>1. pc[p] \in Announcing /\ pc[p] \in Working /\ pc[p] \in Writing
  BY DEF Announce, AnnounceMemory, AnnounceMarkdown, AnnounceHtml, AnnounceManifest, SaveStep,
         At, Announcing, Working, Writing
<1>2. UNCHANGED <<man, job, active, value>>
  BY DEF Announce, AnnounceMemory, AnnounceMarkdown, AnnounceHtml, AnnounceManifest, SaveStep, local
<1>3. /\ SavedIn(man[p], disk) /\ man[p].run = job[p].run /\ CompleteStagesAreSaved
      /\ \A s \in STAGES : man[p].stages[s].status = "pending"
  BY <1>1 DEF SavedInv, WriterOK
<1>4. CASE AnnounceManifest(p)
  <2>1. Save("manifest.json", man[p]) /\ Goto(p, "begin-stage")
    BY <1>4 DEF AnnounceManifest, SaveStep
  <2>2. CompleteStagesAreSaved' /\ OnDisk' = man[p] /\ SavedIn(man[p], disk')
    BY <1>3, <2>1, ManifestSaved
  <2>3. pc'[p] = "begin-stage"
    BY <2>1 DEF TypeOK, LocalsOK, Goto
  <2>4. WriterOK(p)'
    BY <1>2, <1>3, <2>2, <2>3 DEF WriterOK, Announcing, Early, At, Open, STAGES
  <2> QED BY <1>1, <2>1, <2>2, <2>4, WriterWorks
<1>5. CASE AnnounceMemory(p) \/ AnnounceMarkdown(p) \/ AnnounceHtml(p)
  <2>1. PICK f \in {"memory.json", "report.md", "report.html"}, there \in Announcing, c \in {res[p], Running} :
          Save(f, c) /\ Goto(p, there)
    BY <1>5 DEF AnnounceMemory, AnnounceMarkdown, AnnounceHtml, SaveStep, Announcing
  <2>2. CompleteStagesAreSaved' /\ SavedIn(man[p], disk')
    BY <1>3, <2>1, OtherFileSaved
  <2>3. pc'[p] \in Announcing
    BY <2>1 DEF TypeOK, LocalsOK, Goto
  <2>4. WriterOK(p)'
    BY <1>2, <1>3, <2>2, <2>3 DEF WriterOK, Announcing, Early, At
  <2> QED BY <1>1, <2>1, <2>2, <2>4, WriterWorks
<1> QED BY <1>4, <1>5 DEF Announce

LEMMA BeginStageSaved ==
  ASSUME TypeOK, OneWriter, SavedInv, NEW p \in Procs, BeginStage(p)
  PROVE  SavedInv'
<1> DEFINE s == active[p]
           m == Declared(man[p], s, Identity(p, s))
<1>1. At(p, "begin-stage") /\ pc[p] \in Working /\ pc[p] \in Writing
  BY DEF BeginStage, At, Working, StagePlaces, Writing
<1>2. man[p] \in Manifests /\ s \in STAGES
  BY <1>1, AtWork
<1>3. SavedIn(man[p], disk) /\ man[p].run = job[p].run
      /\ (Early(p) => Open(man[p], "synthesis"))
  BY <1>1 DEF SavedInv, WriterOK
<1>4. /\ m.run = man[p].run
      /\ m.stages = [man[p].stages EXCEPT ![s] = [status |-> "running", in |-> Identity(p, s), out |-> Absent]]
  BY <1>1, <1>2, IdentityType, DeclaredType
<1>5. DOMAIN man[p].stages = STAGES
  BY <1>2 DEF Manifests
<1>6. m.stages[s].status = "running" /\ \A t \in STAGES : t # s => m.stages[t] = man[p].stages[t]
  BY <1>2, <1>4, <1>5
<1>7. /\ man' = [man EXCEPT ![p] = m] /\ Save("manifest.json", m) /\ Goto(p, "run-stage")
      /\ UNCHANGED <<job, active, value>>
  BY DEF BeginStage
<1> HIDE DEF m
<1>8. SavedIn(m, disk)
  BY <1>3, <1>6, ArtifactFacts, SavedRevised DEF Open
<1>9. CompleteStagesAreSaved' /\ OnDisk' = m /\ SavedIn(m, disk')
  BY <1>7, <1>8, ManifestSaved
<1>10. pc'[p] = "run-stage" /\ man'[p] = m /\ job'[p] = job[p] /\ active'[p] = s
  BY <1>7 DEF TypeOK, LocalsOK, Goto
<1>11. s = "preparation" => Open(m, "synthesis")
  BY <1>1, <1>3, <1>6 DEF Early, At, Open, STAGES
<1>12. WriterOK(p)'
  BY <1>3, <1>4, <1>6, <1>9, <1>10, <1>11 DEF WriterOK, Announcing, Early, At
<1> QED BY <1>1, <1>7, <1>9, <1>12, WriterWorks

\* Marking the active stage blocked.
LEMMA BlockSaved ==
  ASSUME TypeOK, OneWriter, SavedInv, NEW p \in Procs, pc[p] \in Working, Block(p),
         UNCHANGED <<disk, job, active>>
  PROVE  SavedInv'
<1> DEFINE s == active[p]
           m == WithStatus(man[p], s, "blocked")
<1>1. man[p] \in Manifests /\ s \in STAGES /\ pc[p] \in Writing
  BY AtWork DEF Writing
<1>2. SavedIn(man[p], disk) /\ man[p].run = job[p].run /\ CompleteStagesAreSaved
  BY DEF SavedInv, WriterOK
<1>3. /\ m.run = man[p].run
      /\ m.stages = [man[p].stages EXCEPT ![s] = [man[p].stages[s] EXCEPT !.status = "blocked"]]
  BY <1>1, WithStatusType
<1>4. DOMAIN man[p].stages = STAGES /\ man[p].stages[s] \in Row
  BY <1>1 DEF Manifests
<1>5. m.stages[s].status = "blocked" /\ \A t \in STAGES : t # s => m.stages[t] = man[p].stages[t]
  BY <1>1, <1>3, <1>4 DEF Row
<1>6. man' = [man EXCEPT ![p] = m] /\ Goto(p, "save-result")
  BY DEF Block
<1> HIDE DEF m
<1>7. SavedIn(m, disk)
  BY <1>2, <1>5, ArtifactFacts, SavedRevised DEF Open
<1>8. pc'[p] = "save-result" /\ man'[p] = m /\ job'[p] = job[p]
  BY <1>6 DEF TypeOK, LocalsOK, Goto
<1>9. WriterOK(p)'
  BY <1>2, <1>3, <1>7, <1>8 DEF WriterOK, Announcing, Early, At
<1>10. CompleteStagesAreSaved'
  BY <1>2 DEF CompleteStagesAreSaved, SavedIn, OnDisk
<1> QED BY <1>1, <1>6, <1>9, <1>10, WriterWorks

LEMMA ResumeStageSaved ==
  ASSUME TypeOK, OneWriter, SavedInv, NEW p \in Procs, ResumeStage(p)
  PROVE  SavedInv'
<1>1. At(p, "run-stage") /\ pc[p] \in Working /\ pc[p] \in Writing
  BY DEF ResumeStage, At, Working, StagePlaces, Writing
<1>2. UNCHANGED <<disk, job, active>>
  BY DEF ResumeStage
<1>3. CASE Block(p)
  BY <1>1, <1>2, <1>3, BlockSaved
<1>4. CASE /\ value' = [value EXCEPT ![p] = disk[ArtifactOf[active[p]]]]
           /\ Goto(p, "commit-stage") /\ UNCHANGED man
  <2>1. WriterOK(p) /\ CompleteStagesAreSaved
    BY DEF SavedInv
  <2>2. CompleteStagesAreSaved'
    BY <1>2, <2>1 DEF CompleteStagesAreSaved, SavedIn, OnDisk
  <2>3. pc'[p] = "commit-stage" /\ value'[p] = disk[ArtifactOf[active[p]]]
    BY <1>4 DEF TypeOK, LocalsOK, Goto
  <2>4. OnDisk' = OnDisk /\ SavedIn(man[p], disk)' /\ man'[p].run = job'[p].run
    BY <1>1, <1>2, <1>4, <2>1 DEF OnDisk, WriterOK, SavedIn
  <2>5. Early(p)' => Early(p)
    BY <1>1, <1>2, <2>3 DEF Early, At
  <2>6. WriterOK(p)'
    BY <1>2, <1>4, <2>1, <2>3, <2>4, <2>5 DEF WriterOK, Announcing, At
  <2> QED BY <1>1, <1>4, <2>2, <2>6, WriterWorks
<1> QED BY <1>3, <1>4 DEF ResumeStage

LEMMA ExecuteStageSaved ==
  ASSUME TypeOK, OneWriter, SavedInv, NEW p \in Procs, ExecuteStage(p)
  PROVE  SavedInv'
<1> DEFINE s == active[p]
           v == IF s = "preparation" THEN job[p].evidence
                ELSE Output(s, Identity(p, s), job[p].run)
<1>1. At(p, "run-stage") /\ pc[p] \in Working /\ pc[p] \in Writing
  BY DEF ExecuteStage, At, Working, StagePlaces, Writing
<1>2. UNCHANGED <<job, active>>
  BY DEF ExecuteStage
<1>3. CASE Block(p) /\ UNCHANGED disk
  BY <1>1, <1>2, <1>3, BlockSaved
<1>4. CASE /\ Save(ArtifactOf[s], v) /\ value' = [value EXCEPT ![p] = v]
           /\ Goto(p, "commit-stage") /\ UNCHANGED man
  <2> HIDE DEF v
  <2>1. WriterOK(p) /\ CompleteStagesAreSaved /\ s \in DOMAIN ArtifactOf /\ DOMAIN disk = Files
    BY <1>1, AtWork DEF SavedInv, TypeOK, DiskOK
  <2>2. Open(man[p], s) /\ (OnDisk \in Damaged \/ Open(OnDisk, s))
    BY <1>1, <2>1 DEF WriterOK, Open
  <2>3. /\ disk' = [disk EXCEPT ![ArtifactOf[s]] = v]
        /\ ArtifactOf[s] \in Files /\ ArtifactOf[s] # "manifest.json"
    BY <1>4, <2>1, ArtifactFacts DEF Save, Files, Artifacts
  <2>4. OnDisk' = OnDisk /\ disk'[ArtifactOf[s]] = v
    BY <2>1, <2>3 DEF OnDisk
  <2>5. SavedIn(man[p], disk')
    BY <1>1, <2>1, <2>2, <2>3, SavedReplaced DEF WriterOK
  <2>6. CompleteStagesAreSaved'
    BY <2>1, <2>2, <2>3, <2>4, SavedReplaced DEF CompleteStagesAreSaved
  <2>7. pc'[p] = "commit-stage" /\ value'[p] = v
    BY <1>4 DEF TypeOK, LocalsOK, Goto
  <2>8. Early(p)' => Early(p)
    BY <1>1, <1>2, <2>7 DEF Early, At
  <2>9. man'[p] = man[p] /\ job'[p] = job[p] /\ active'[p] = s
    BY <1>2, <1>4
  <2>10. WriterOK(p)'
    BY <1>1, <2>1, <2>4, <2>5, <2>7, <2>8, <2>9 DEF WriterOK, Announcing, At
  <2> QED BY <1>1, <1>4, <2>6, <2>10, WriterWorks
<1> QED BY <1>3, <1>4 DEF ExecuteStage

\* A step whose new manifest is saved where nothing early is left to do.
LEMMA LateSaved ==
  ASSUME TypeOK, OneWriter, SavedInv, NEW p \in Procs, pc[p] \in Writing,
         NEW there, Goto(p, there), NEW m, man' = [man EXCEPT ![p] = m],
         UNCHANGED job, m.run = job[p].run,
         CompleteStagesAreSaved', SavedIn(m, disk'),
         \/ there \in {"save-result", "persist-result", "render-markdown", "render-html",
                        "persist-final"}
         \/ there = "begin-stage" /\ active'[p] # "preparation"
  PROVE  SavedInv'
<1>1. pc'[p] = there /\ man'[p] = m
  BY DEF TypeOK, LocalsOK, Goto
<1>2. WriterOK(p)'
  BY <1>1 DEF WriterOK, Announcing, Early, At
<1> QED BY <1>2, WriterWorks

LEMMA TakeProposalsSaved ==
  ASSUME TypeOK, OneWriter, SavedInv, NEW p \in Procs, pc[p] \in Working,
         NEW m \in Manifests, NEW proposals, TakeProposals(p, m, proposals),
         UNCHANGED job, m.run = job[p].run,
         CompleteStagesAreSaved', SavedIn(m, disk')
  PROVE  SavedInv'
<1>1. pc[p] \in Writing /\ active'[p] = "comparison"
  BY DEF TakeProposals, Writing, TypeOK, LocalsOK
<1>2. CASE HasGuidance(p)
  BY <1>1, <1>2, LateSaved DEF TakeProposals
<1>3. CASE ~HasGuidance(p)
  <2> DEFINE n == Skip(m, {"comparison"})
  <2>1. man' = [man EXCEPT ![p] = n] /\ Goto(p, "save-result")
    BY <1>3 DEF TakeProposals
  <2>2. /\ n.run = m.run
        /\ \A s \in STAGES : n.stages[s] = IF s \in {"comparison"} THEN SkippedRow ELSE m.stages[s]
    BY SkipType DEF STAGES
  <2>3. \A s \in DOMAIN ArtifactOf : n.stages[s] = m.stages[s] \/ Open(n, s)
    BY <2>2, ArtifactFacts DEF Open, SkippedRow
  <2> HIDE DEF n
  <2>4. SavedIn(n, disk')
    BY <2>3, SavedRevised
  <2> QED BY <1>1, <2>1, <2>2, <2>4, LateSaved
<1> QED BY <1>2, <1>3

LEMMA CommitStageSaved ==
  ASSUME TypeOK, OneWriter, SavedInv, NEW p \in Procs, CommitStage(p)
  PROVE  SavedInv'
<1> DEFINE s == active[p]
           c == Completed(man[p], s, value[p])
           m == List(c, ArtifactOf[s], value[p])
<1>1. At(p, "commit-stage") /\ pc[p] \in Working /\ pc[p] \in Writing
  BY DEF CommitStage, At, Working, StagePlaces, Writing
<1>2. /\ man[p] \in Manifests /\ s \in DOMAIN ArtifactOf /\ s \in STAGES
      /\ man[p].stages[s] \in Row /\ DOMAIN man[p].stages = STAGES
  <2>1. man[p] \in Manifests /\ s \in DOMAIN ArtifactOf /\ s \in STAGES
    BY <1>1, AtWork
  <2> QED BY <2>1 DEF Manifests
<1>3. value[p] \in EvidenceFiles \cup Features \cup Candidates \cup Assessments
  <2>1. value[p] \in OutputsOf(s)
    BY <1>1 DEF TypeOK, PlacesOK
  <2> QED BY <1>2, <2>1, ArtifactFacts DEF OutputsOf
<1>4. WriterOK(p) /\ SavedIn(man[p], disk) /\ man[p].run = job[p].run
  BY <1>1 DEF SavedInv, WriterOK
<1>5. /\ c \in Manifests /\ c.run = man[p].run
      /\ c.stages[s].out = value[p]
      /\ \A t \in STAGES \ {s} : c.stages[t] = man[p].stages[t]
  BY <1>2, <1>3, CompletedType
<1> HIDE DEF c
<1>6. m \in Manifests /\ m.run = c.run /\ m.stages = c.stages
  <2>1. value[p] \in Listed
    BY <1>3 DEF Listed
  <2>2. ArtifactOf[s] \in Artifacts
    BY <1>2, ArtifactFacts
  <2> QED BY <1>5, <2>1, <2>2, ListType
<1> HIDE DEF m
<1>7. m.stages[s].out = value[p] /\ \A t \in STAGES : t # s => m.stages[t] = man[p].stages[t]
  BY <1>2, <1>5, <1>6 DEF Row
<1>8. SavedIn(m, disk)
  <2>1. disk[ArtifactOf[s]] \in {value[p]} \cup Damaged
    BY <1>1, <1>4 DEF WriterOK
  <2> QED BY <1>4, <1>7, <2>1, ArtifactFacts DEF SavedIn
<1>9. Save("manifest.json", m) /\ UNCHANGED job
  BY DEF CommitStage, c, m
<1>10. CompleteStagesAreSaved' /\ OnDisk' = m /\ SavedIn(m, disk')
  BY <1>8, <1>9, ManifestSaved
<1>11. CASE s = "preparation"
  <2>1. Goto(p, "export") /\ man' = [man EXCEPT ![p] = m] /\ UNCHANGED active
    BY <1>11 DEF CommitStage, c, m
  <2>2. pc'[p] = "export" /\ man'[p] = m
    BY <2>1 DEF TypeOK, LocalsOK, Goto
  <2>3. Open(m, "synthesis")
    BY <1>1, <1>4, <1>7, <1>11 DEF WriterOK, Early, At, Open, STAGES
  <2>4. WriterOK(p)'
    BY <1>4, <1>5, <1>6, <1>9, <1>10, <2>2, <2>3 DEF WriterOK, Announcing, Early, At
  <2> QED BY <1>1, <1>10, <2>1, <2>4, WriterWorks
<1>12. CASE s = "screening"
  <2>1. /\ Goto(p, "begin-stage") /\ man' = [man EXCEPT ![p] = m]
        /\ active' = [active EXCEPT ![p] = "synthesis"]
    BY <1>12 DEF CommitStage, c, m
  <2>2. active'[p] = "synthesis"
    BY <2>1 DEF TypeOK, LocalsOK
  <2> QED BY <1>1, <1>4, <1>5, <1>6, <1>9, <1>10, <2>1, <2>2, LateSaved
<1>13. CASE s = "synthesis"
  <2>1. TakeProposals(p, m, value[p])
    BY <1>13 DEF CommitStage, c, m
  <2> QED BY <1>1, <1>4, <1>5, <1>6, <1>9, <1>10, <2>1, TakeProposalsSaved
<1>14. CASE s = "comparison"
  <2>1. Goto(p, "save-result") /\ man' = [man EXCEPT ![p] = m]
    BY <1>14 DEF CommitStage, c, m
  <2>2. m.run = job[p].run
    BY <1>4, <1>5, <1>6
  <2>3. pc'[p] = "save-result" /\ man'[p] = m
    BY <2>1 DEF TypeOK, LocalsOK, Goto
  <2>4. WriterOK(p)'
    BY <1>9, <1>10, <2>2, <2>3 DEF WriterOK, Announcing, Early, At
  <2> QED BY <1>1, <1>10, <2>1, <2>4, WriterWorks
<1> QED BY <1>2, <1>11, <1>12, <1>13, <1>14, ArtifactFacts

LEMMA BetweenSaved ==
  ASSUME TypeOK, OneWriter, SavedInv, NEW p \in Procs, Between(p)
  PROVE  SavedInv'
<1>1. pc[p] \in Working /\ pc[p] \in Writing /\ Early(p)
  BY DEF Between, ExportCommands, PersistExport, SaveGuidance, SaveProposals, SaveStep,
         At, Working, StagePlaces, Writing, Early
<1>2. man[p] \in Manifests
  BY <1>1, AtWork
<1>3. /\ SavedIn(man[p], disk) /\ man[p].run = job[p].run /\ CompleteStagesAreSaved
      /\ Open(man[p], "synthesis") /\ (OnDisk \in Damaged \/ Open(OnDisk, "synthesis"))
  BY <1>1 DEF SavedInv, WriterOK
<1>4. UNCHANGED job
  BY DEF Between, ExportCommands, PersistExport, SaveGuidance, SaveProposals, SaveStep, local
<1>5. CASE ExportCommands(p)
  <2>1. CASE Block(p) /\ UNCHANGED disk
    BY <1>1, <1>5, <2>1, BlockSaved DEF ExportCommands
  <2>2. CASE /\ Save("datasets", Dataset(job[p].evidence))
             /\ man' = [man EXCEPT ![p] = [@ EXCEPT !.datasets = Dataset(job[p].evidence)]]
             /\ Goto(p, "persist-export")
    <3> DEFINE m == [man[p] EXCEPT !.datasets = Dataset(job[p].evidence)]
    <3>1. m.stages = man[p].stages /\ m.run = man[p].run
      BY <1>2 DEF Manifests
    <3>2. pc'[p] = "persist-export" /\ man'[p] = m
      BY <2>2 DEF TypeOK, LocalsOK, Goto
    <3> HIDE DEF m
    <3>3. /\ CompleteStagesAreSaved' /\ OnDisk' = OnDisk
          /\ SavedIn(man[p], disk) => SavedIn(man[p], disk')
      BY <1>3, <2>2, OtherFileSaved
    <3>4. SavedIn(m, disk')
      BY <1>3, <3>1, <3>3 DEF SavedIn
    <3>5. WriterOK(p)'
      BY <1>3, <1>4, <3>1, <3>2, <3>3, <3>4 DEF WriterOK, Announcing, At, Open
    <3> QED BY <1>1, <2>2, <3>3, <3>5, WriterWorks
  <2> QED BY <1>5, <2>1, <2>2 DEF ExportCommands
<1>6. CASE PersistExport(p)
  <2>1. Save("manifest.json", man[p]) /\ Goto(p, "save-guidance") /\ UNCHANGED man
    BY <1>6 DEF PersistExport, SaveStep, local
  <2>2. CompleteStagesAreSaved' /\ OnDisk' = man[p] /\ SavedIn(man[p], disk')
    BY <1>3, <2>1, ManifestSaved
  <2>3. pc'[p] = "save-guidance" /\ man'[p] = man[p]
    BY <2>1 DEF TypeOK, LocalsOK, Goto
  <2>4. WriterOK(p)'
    BY <1>3, <1>4, <2>2, <2>3 DEF WriterOK, Announcing, At
  <2> QED BY <1>1, <2>1, <2>2, <2>4, WriterWorks
<1>7. CASE SaveGuidance(p)
  <2> DEFINE listed == List(man[p], "guidance.json", GuidanceFile(job[p].guidance))
  <2>1. GuidanceFile(job[p].guidance) \in Listed
    BY <1>1, AtWork DEF GuidanceFile, Listed
  <2>2. listed \in Manifests /\ listed.run = man[p].run /\ listed.stages = man[p].stages
    BY <1>2, <2>1, ListType DEF Artifacts
  <2>3. Save("guidance.json", GuidanceFile(job[p].guidance))
    BY <1>7 DEF SaveGuidance
  <2>4. /\ CompleteStagesAreSaved' /\ OnDisk' = OnDisk
        /\ SavedIn(man[p], disk) => SavedIn(man[p], disk')
    BY <1>3, <2>3, OtherFileSaved
  <2>5. SavedIn(listed, disk')
    BY <1>3, <2>2, <2>4 DEF SavedIn
  <2> HIDE DEF listed
  <2>6. ASSUME NEW skipped \in SUBSET STAGES
        PROVE  /\ Skip(listed, skipped).run = job[p].run
               /\ SavedIn(Skip(listed, skipped), disk')
               /\ "synthesis" \notin skipped => Open(Skip(listed, skipped), "synthesis")
    <3>1. /\ Skip(listed, skipped).run = listed.run
          /\ \A s \in STAGES : Skip(listed, skipped).stages[s] =
               IF s \in skipped THEN SkippedRow ELSE listed.stages[s]
      BY <2>2, SkipType
    <3>2. \A s \in DOMAIN ArtifactOf :
            Skip(listed, skipped).stages[s] = listed.stages[s] \/ Open(Skip(listed, skipped), s)
      BY <3>1, ArtifactFacts DEF Open, SkippedRow
    <3>3. SavedIn(Skip(listed, skipped), disk')
      BY <2>5, <3>2, SavedRevised
    <3> QED BY <1>3, <2>2, <3>1, <3>3 DEF Open, STAGES
  <2>7. CASE job[p].kind = "off"
    <3> DEFINE skipped == {"screening", "synthesis", "comparison"}
    <3>1. man' = [man EXCEPT ![p] = Skip(listed, skipped)] /\ Goto(p, "save-result")
      BY <1>7, <2>7 DEF SaveGuidance, IsCompare, listed
    <3>2. skipped \in SUBSET STAGES
      BY DEF STAGES
    <3> HIDE DEF skipped
    <3>3. Skip(listed, skipped).run = job[p].run /\ SavedIn(Skip(listed, skipped), disk')
      BY <2>6, <3>2
    <3>4. pc'[p] = "save-result" /\ man'[p] = Skip(listed, skipped)
      BY <3>1 DEF TypeOK, LocalsOK, Goto
    <3>5. WriterOK(p)'
      BY <1>4, <3>3, <3>4 DEF WriterOK, Announcing, Early, At
    <3> QED BY <1>1, <2>4, <3>1, <3>5, WriterWorks
  <2>8. CASE job[p].kind = "extract"
    <3>1. /\ man' = [man EXCEPT ![p] = listed] /\ Goto(p, "begin-stage")
          /\ active' = [active EXCEPT ![p] = "screening"]
      BY <1>7, <2>8 DEF SaveGuidance, IsCompare, listed
    <3>2. active'[p] = "screening"
      BY <3>1 DEF TypeOK, LocalsOK
    <3> QED BY <1>1, <1>3, <1>4, <2>2, <2>4, <2>5, <3>1, <3>2, LateSaved
  <2>9. CASE IsCompare(p)
    <3> DEFINE m == Skip(listed, {"screening"})
    <3>1. man' = [man EXCEPT ![p] = m] /\ Goto(p, "save-proposals")
      BY <1>7, <2>9 DEF SaveGuidance, IsCompare, listed
    <3>2. m.run = job[p].run /\ SavedIn(m, disk') /\ Open(m, "synthesis")
      BY <2>6 DEF STAGES
    <3>3. pc'[p] = "save-proposals" /\ man'[p] = m
      BY <3>1 DEF TypeOK, LocalsOK, Goto
    <3> HIDE DEF m
    <3>4. WriterOK(p)'
      BY <1>3, <1>4, <2>4, <3>2, <3>3 DEF WriterOK, Announcing, At
    <3> QED BY <1>1, <2>4, <3>1, <3>4, WriterWorks
  <2> QED BY <1>7, <2>7, <2>8, <2>9 DEF SaveGuidance
<1>8. CASE SaveProposals(p)
  <2> DEFINE m == Skip(man[p], {"synthesis"})
             c == job[p].saved.candidates
  <2>1. Save("proposals.json", c) /\ TakeProposals(p, m, c)
    BY <1>8 DEF SaveProposals
  <2>2. /\ m \in Manifests /\ m.run = man[p].run
        /\ \A s \in STAGES : m.stages[s] = IF s \in {"synthesis"} THEN SkippedRow ELSE man[p].stages[s]
    BY <1>2, SkipType DEF STAGES
  <2> HIDE DEF m, c
  <2>3. \A s \in DOMAIN ArtifactOf : m.stages[s] = man[p].stages[s] \/ Open(m, s)
    BY <2>2, ArtifactFacts DEF Open, SkippedRow
  <2>4. SavedIn(m, disk) /\ Open(m, "synthesis")
    BY <1>3, <2>2, <2>3, SavedRevised DEF Open, SkippedRow, STAGES
  <2>5. /\ disk' = [disk EXCEPT ![ArtifactOf["synthesis"]] = c] /\ "synthesis" \in DOMAIN ArtifactOf
        /\ DOMAIN disk = Files
    BY <2>1 DEF Save, ArtifactOf, TypeOK, DiskOK
  <2>6. OnDisk' = OnDisk
    BY <2>5 DEF OnDisk, ArtifactOf, Files
  <2>7. SavedIn(m, disk')
    BY <2>4, <2>5, SavedReplaced
  <2>8. CompleteStagesAreSaved'
    BY <1>3, <2>5, <2>6, SavedReplaced DEF CompleteStagesAreSaved
  <2> QED BY <1>1, <1>3, <1>4, <2>1, <2>2, <2>7, <2>8, TakeProposalsSaved
<1> QED BY <1>5, <1>6, <1>7, <1>8 DEF Between

LEMMA PublishSaved ==
  ASSUME TypeOK, OneWriter, SavedInv, NEW p \in Procs, Publish(p)
  PROVE  SavedInv'
<1>1. pc[p] \in Working /\ pc[p] \in Writing
  BY DEF Publish, SaveResult, PersistResult, RenderMarkdown, RenderHtml, RenderFails,
         PersistFinal, SaveStep, At, Working, StagePlaces, Writing
<1>2. man[p] \in Manifests /\ res[p] \in Results
  BY <1>1, AtWork
<1>3. SavedIn(man[p], disk) /\ man[p].run = job[p].run /\ CompleteStagesAreSaved
  BY <1>1 DEF SavedInv, WriterOK
<1>4. "rendering" \in STAGES /\ "memory.json" \in Artifacts /\ "rendering" \notin DOMAIN ArtifactOf
  BY DEF STAGES, Artifacts, ArtifactOf
\* Only the row of rendering changes in the writer's manifest.
<1>5. ASSUME NEW f \in {"memory.json", "report.md", "report.html"}, NEW c, Save(f, c),
             NEW m, man' = [man EXCEPT ![p] = m], UNCHANGED job, m.run = man[p].run,
             \A s \in DOMAIN ArtifactOf : m.stages[s] = man[p].stages[s],
             NEW there \in {"persist-result", "render-html", "persist-final"}, Goto(p, there)
      PROVE  SavedInv'
  <2>1. SavedIn(m, disk)
    BY <1>3, <1>5 DEF SavedIn
  <2>2. /\ CompleteStagesAreSaved'
        /\ SavedIn(m, disk) => SavedIn(m, disk')
    BY <1>3, <1>5, OtherFileSaved
  <2>3. pc'[p] = there /\ man'[p] = m
    BY <1>5 DEF TypeOK, LocalsOK, Goto
  <2>4. WriterOK(p)'
    BY <1>3, <1>5, <2>1, <2>2, <2>3 DEF WriterOK, Announcing, Early, At
  <2> QED BY <1>1, <1>5, <2>2, <2>4, WriterWorks
<1>6. CASE SaveResult(p)
  <2> DEFINE x == List(man[p], "memory.json", res[p])
             m == Declared(x, "rendering", res[p])
  <2>1. x \in Manifests /\ x.run = man[p].run /\ x.stages = man[p].stages
    BY <1>2, <1>4, ListType DEF Listed
  <2> HIDE DEF x
  <2>2. /\ m.run = x.run
        /\ m.stages = [x.stages EXCEPT !["rendering"] = [status |-> "running", in |-> res[p], out |-> Absent]]
    BY <1>2, <1>4, <2>1, DeclaredType
  <2>3. \A s \in DOMAIN ArtifactOf : m.stages[s] = man[p].stages[s]
    BY <1>4, <2>1, <2>2, ArtifactFacts DEF Manifests
  <2>4. man' = [man EXCEPT ![p] = m] /\ Save("memory.json", res[p]) /\ Goto(p, "persist-result") /\ UNCHANGED job
    BY <1>6 DEF SaveResult, x
  <2> HIDE DEF m
  <2> QED BY <1>5, <2>1, <2>2, <2>3, <2>4
<1>7. CASE PersistResult(p)
  <2>1. Save("manifest.json", man[p]) /\ Goto(p, "render-markdown") /\ UNCHANGED <<man, job>>
    BY <1>7 DEF PersistResult, SaveStep, local
  <2>2. CompleteStagesAreSaved' /\ SavedIn(man[p], disk')
    BY <1>3, <2>1, ManifestSaved
  <2>3. pc'[p] = "render-markdown" /\ man'[p] = man[p]
    BY <2>1 DEF TypeOK, LocalsOK, Goto
  <2>4. WriterOK(p)'
    BY <1>3, <2>1, <2>2, <2>3 DEF WriterOK, Announcing, Early, At
  <2> QED BY <1>1, <2>1, <2>2, <2>4, WriterWorks
<1>8. CASE RenderMarkdown(p)
  <2>1. Save("report.md", Report(res[p])) /\ Goto(p, "render-html") /\ UNCHANGED <<man, job>>
    BY <1>8 DEF RenderMarkdown, SaveStep, local
  <2>2. man' = [man EXCEPT ![p] = man[p]]
    BY <2>1 DEF TypeOK, LocalsOK
  <2> QED BY <1>5, <2>1, <2>2
<1>9. CASE RenderHtml(p)
  <2> DEFINE m == Completed(man[p], "rendering", Report(res[p]))
  <2>1. /\ m.run = man[p].run
        /\ \A s \in STAGES \ {"rendering"} : m.stages[s] = man[p].stages[s]
    BY <1>2, <1>4, CompletedType DEF Report, Rendered
  <2>2. man' = [man EXCEPT ![p] = m] /\ Save("report.html", Report(res[p])) /\ Goto(p, "persist-final") /\ UNCHANGED job
    BY <1>9 DEF RenderHtml
  <2>3. \A s \in DOMAIN ArtifactOf : m.stages[s] = man[p].stages[s]
    BY <1>4, <2>1, ArtifactFacts
  <2> HIDE DEF m
  <2> QED BY <1>5, <2>1, <2>2, <2>3
<1>10. CASE RenderFails(p)
  <2> DEFINE b == Blocked(res[p], "rendering")
             x == WithStatus(man[p], "rendering", "blocked")
             m == List(x, "memory.json", b)
  <2>1. b \in Results
    BY <1>2, <1>4, BlockedType
  <2>2. /\ x \in Manifests /\ x.run = man[p].run
        /\ x.stages = [man[p].stages EXCEPT !["rendering"] = [man[p].stages["rendering"] EXCEPT !.status = "blocked"]]
    BY <1>2, <1>4, WithStatusType
  <2> HIDE DEF b, x
  <2>3. m.run = x.run /\ m.stages = x.stages
    BY <1>4, <2>1, <2>2, ListType DEF Listed
  <2>4. \A s \in DOMAIN ArtifactOf : m.stages[s] = man[p].stages[s]
    BY <1>2, <1>4, <2>2, <2>3, ArtifactFacts DEF Manifests
  <2>5. man' = [man EXCEPT ![p] = m] /\ Save("memory.json", b) /\ Goto(p, "persist-final") /\ UNCHANGED job
    BY <1>10 DEF RenderFails, b, x
  <2> HIDE DEF m
  <2> QED BY <1>5, <2>2, <2>3, <2>4, <2>5
<1>11. CASE PersistFinal(p)
  <2>1. Save("manifest.json", man[p]) /\ \E there \in {"idle", "read-manifest"} : Goto(p, there)
    BY <1>11 DEF PersistFinal, Exit
  <2>2. CompleteStagesAreSaved'
    BY <1>3, <2>1, ManifestSaved
  <2> QED BY <1>1, <2>1, <2>2, WriterRests DEF Working, StagePlaces
<1> QED BY <1>6, <1>7, <1>8, <1>9, <1>10, <1>11 DEF Publish

\* Steps of a process that does not write the directory.
LEMMA ReaderSaved ==
  ASSUME TypeOK, SavedInv, NEW p \in Procs, NEW there, there \notin Working, Goto(p, there),
         \A q \in Procs \ {p} : /\ man'[q] = man[q] /\ job'[q] = job[q]
                                /\ active'[q] = active[q] /\ value'[q] = value[q],
         UNCHANGED disk
  PROVE  SavedInv'
<1>1. CompleteStagesAreSaved'
  BY DEF SavedInv, CompleteStagesAreSaved, SavedIn, OnDisk
<1>2. ASSUME NEW q \in Procs
      PROVE  WriterOK(q)'
  <2>1. CASE q = p
    <3>1. pc'[q] \notin Working
      BY <2>1 DEF TypeOK, LocalsOK, Goto
    <3> QED BY <3>1 DEF WriterOK, Working, StagePlaces, Announcing, Early, At
  <2>2. CASE q # p
    <3>1. pc'[q] = pc[q]
      BY <2>2 DEF TypeOK, LocalsOK, Goto
    <3>2. WriterOK(q)
      BY DEF SavedInv
    <3> QED BY <2>2, <3>1, <3>2 DEF WriterOK, SavedIn, OnDisk, Early, At
  <2> QED BY <2>1, <2>2
<1> QED BY <1>1, <1>2 DEF SavedInv

LEMMA ExitSaved ==
  ASSUME TypeOK, SavedInv, NEW p \in Procs, Exit(p), UNCHANGED disk
  PROVE  SavedInv'
<1>1. \A q \in Procs \ {p} : /\ man'[q] = man[q] /\ job'[q] = job[q]
                             /\ active'[q] = active[q] /\ value'[q] = value[q]
  BY DEF Exit, TypeOK, LocalsOK
<1> QED BY <1>1, ReaderSaved DEF Exit, Working, StagePlaces

LEMMA LoadSavedSaved ==
  ASSUME TypeOK, SavedInv, NEW p \in Procs, LoadSaved(p)
  PROVE  SavedInv'
<1>1. UNCHANGED disk
  BY DEF LoadSaved, ReadManifest, ReadEvidence, ReadResult, Verify, UseLoaded
<1>2. CASE Exit(p)
  BY <1>1, <1>2, ExitSaved
<1>3. CASE ~Exit(p)
  <2>1. /\ \E there \in ReadingPlaces : Goto(p, there)
        /\ UNCHANGED <<man, active, value>>
        /\ \A q \in Procs \ {p} : job'[q] = job[q]
    BY <1>3 DEF LoadSaved, ReadManifest, ReadEvidence, ReadResult, Verify, UseLoaded,
                ReadingPlaces, local, TypeOK, LocalsOK
  <2>2. \A there \in ReadingPlaces : there \notin Working
    BY DEF ReadingPlaces, Working, StagePlaces
  <2> QED BY <1>1, <2>1, <2>2, ReaderSaved
<1> QED BY <1>2, <1>3

LEMMA TamperSaved ==
  ASSUME TypeOK, SavedInv, NEW f \in Fragile, Tamper(f)
  PROVE  SavedInv'
<1>1. PICK harm \in Damaged : disk' = [disk EXCEPT ![f] = harm]
  BY DEF Tamper, Save
<1>2. DOMAIN disk = Files /\ f \in Files
  BY FragileAssumption DEF TypeOK, DiskOK
<1>3. \A m : SavedIn(m, disk) => SavedIn(m, disk')
  BY <1>1, <1>2, SavedDamaged
<1>4. OnDisk' = OnDisk \/ OnDisk' \in Damaged
  BY <1>1, <1>2 DEF OnDisk, Files
<1>5. CompleteStagesAreSaved'
  BY <1>3, <1>4 DEF SavedInv, CompleteStagesAreSaved
<1>6. UNCHANGED <<pc, man, job, active, value>>
  BY DEF Tamper, local
<1>7. \A s \in DOMAIN ArtifactOf : disk'[ArtifactOf[s]] \in {disk[ArtifactOf[s]]} \cup Damaged
  BY <1>1, <1>2, ArtifactFacts DEF Files
<1>8. ASSUME NEW p \in Procs
      PROVE  WriterOK(p)'
  <2>1. WriterOK(p)
    BY DEF SavedInv
  <2>2. pc[p] \in Working => SavedIn(man[p], disk')
    BY <1>3, <2>1 DEF WriterOK
  <2>3. At(p, "commit-stage") => disk'[ArtifactOf[active[p]]] \in {value[p]} \cup Damaged
    <3>1. SUFFICES ASSUME At(p, "commit-stage")
                   PROVE  disk'[ArtifactOf[active[p]]] \in {value[p]} \cup Damaged
      OBVIOUS
    <3>2. active[p] \in DOMAIN ArtifactOf
      BY <3>1, AtWork DEF At, Working, StagePlaces
    <3>3. disk[ArtifactOf[active[p]]] \in {value[p]} \cup Damaged
      BY <2>1, <3>1 DEF WriterOK
    <3> QED BY <1>7, <3>2, <3>3
  <2> QED BY <1>4, <1>6, <2>1, <2>2, <2>3 DEF WriterOK, Early, At
<1> QED BY <1>5, <1>8 DEF SavedInv

LEMMA NextSaved == TypeOK /\ OneWriter /\ SavedInv /\ [Next]_vars => SavedInv'
<1> SUFFICES ASSUME TypeOK, OneWriter, SavedInv, [Next]_vars
             PROVE  SavedInv'
  OBVIOUS
<1>1. CASE UNCHANGED vars
  BY <1>1 DEF vars, local, SavedInv, CompleteStagesAreSaved, SavedIn, OnDisk, WriterOK, Early, At
<1>2. ASSUME NEW p \in Procs, Start(p)
      PROVE  SavedInv'
  <2>1. /\ UNCHANGED <<disk, man, active, value>>
        /\ \E there \in {"read-manifest", "prepare"} : Goto(p, there)
        /\ \A q \in Procs \ {p} : job'[q] = job[q]
    BY <1>2 DEF Start, Begin, TypeOK, LocalsOK
  <2> QED BY <2>1, ReaderSaved DEF Working, StagePlaces
<1>3. ASSUME NEW p \in Procs, Step(p)
      PROVE  SavedInv'
  <2>1. CASE LockForCompare(p)
    <3>1. CASE Exit(p)
      BY <2>1, <3>1, ExitSaved DEF LockForCompare
    <3>2. CASE Goto(p, "prepare") /\ UNCHANGED <<disk, local>>
      BY <3>2, ReaderSaved DEF local, Working, StagePlaces
    <3> QED BY <2>1, <3>1, <3>2 DEF LockForCompare
  <2>2. CASE Stage(p)
    BY <2>2, BeginStageSaved, ResumeStageSaved, ExecuteStageSaved, CommitStageSaved DEF Stage
  <2> QED BY <1>3, <2>1, <2>2, PrepareInputsSaved, OpenManifestSaved, PreparationFailedSaved,
             AnnounceSaved, BetweenSaved, PublishSaved, LoadSavedSaved
          DEF Step
<1>4. ASSUME NEW p \in Procs, Crash(p)
      PROVE  SavedInv'
  BY <1>4, ExitSaved DEF Crash
<1>5. ASSUME NEW f \in Fragile, Tamper(f)
      PROVE  SavedInv'
  BY <1>5, TamperSaved
<1> QED BY <1>1, <1>2, <1>3, <1>4, <1>5 DEF Next

LEMMA InitSaved == Init => SavedInv
BY DEF Init, SavedInv, CompleteStagesAreSaved, OnDisk, Damaged, Files, WriterOK, Working,
       StagePlaces, Announcing, Early, At

LEMMA SavedAlways == Spec => []SavedInv
<1>1. Init => SavedInv
  BY InitSaved
<1>2. TypeOK /\ OneWriter /\ SavedInv /\ [Next]_vars => SavedInv'
  BY NextSaved
<1> QED BY <1>1, <1>2, TypeCorrect, WritersAreExclusive, PTL DEF Spec

\* However runs, crashes and damage follow each other, what the manifest on disk calls
\* complete is what lies on disk: a later run that resumes on it resumes rightly.
THEOREM CompleteMeansSaved == Spec => []CompleteStagesAreSaved
<1>1. SavedInv => CompleteStagesAreSaved
  BY DEF SavedInv
<1> QED BY <1>1, SavedAlways, PTL

\* While a stage is asked, the manifest on disk calls it running under the asking run:
\* a kill there leaves no row behind that a later run would resume on.
THEOREM RunningMeansDeclared == Spec => []RunningStageIsDeclared
<1>1. SavedInv => RunningStageIsDeclared
  BY DEF SavedInv, WriterOK, RunningStageIsDeclared
<1> QED BY <1>1, SavedAlways, PTL

\* Both together: the manifest on disk is true of what is asked and of what is saved.
THEOREM ManifestStaysTrue == Spec => []ManifestIsTrue
<1>1. CompleteStagesAreSaved /\ RunningStageIsDeclared => ManifestIsTrue
  BY DEF ManifestIsTrue
<1> QED BY <1>1, CompleteMeansSaved, RunningMeansDeclared, PTL

-----------------------------------------------------------------------------
(***************************************************************************)
(* What a reader of the audit directory is shown: a loadable result is     *)
(* coherent and told once, load_saved returns one run, and AuditStages     *)
(* implements PublishedAudit.                                              *)
(*                                                                         *)
(* None of these is inductive.  A result becomes visible when the manifest *)
(* that lists it is written, long after the writer decided what both say,  *)
(* and a reader meets them one after the other.  The invariant StoryInv    *)
(* therefore says of every manifest, on disk, in a writer's memory or in a *)
(* reader's, that it agrees with the result that it lists, and of a writer *)
(* what it has decided at each place.                                      *)
(***************************************************************************)

-----------------------------------------------------------------------------
(***************************************************************************)
(* Manifests and results by themselves.                                    *)
(***************************************************************************)
\* v is what stage s makes of inputs with identity id.
MadeFrom(s, v, id) ==
  v \notin Damaged /\ IF s = "preparation" THEN v = id ELSE v.in = id

\* The parts of a result were derived from each other.
Derived(x) ==
  /\ x.features # Absent => MadeFrom("screening", x.features, x.evidence)
  /\ x.candidates # Absent =>
       MadeFrom("synthesis", x.candidates, [evidence |-> x.evidence, features |-> x.features])
  /\ x.assessments # Absent =>
       x.assessments \notin Damaged /\ x.assessments.in.candidates = x.candidates

\* A manifest and a result tell one story.
Settled(m, s) == m.stages[s].status \in {"complete", "skipped"}
Agrees(m, x) ==
  /\ x \in FinishedResults /\ x.run = m.run /\ Derived(x)
  /\ m.artifacts["prepared.json"] \in {Absent, x.evidence}
  /\ x.assessments # Absent =>
       m.artifacts["guidance.json"] = GuidanceFile(x.assessments.in.guidance)
  /\ x.hooks => m.datasets # Absent
  /\ IF x.status = "blocked" THEN x.failing \in STAGES /\ m.stages[x.failing].status = "blocked"
     ELSE \A s \in DOMAIN ArtifactOf : Settled(m, s)

RowsOK(m) ==
  \A s \in DOMAIN ArtifactOf :
    m.stages[s].status = "complete" => MadeFrom(s, m.stages[s].out, m.stages[s].in)

Sound(m) ==
  /\ RowsOK(m)
  /\ \A f \in Artifacts : m.artifacts[f] # Corrupt
  /\ m.datasets # Corrupt

ManifestOK(m) ==
  /\ Sound(m)
  /\ m.artifacts["memory.json"] # Absent => Agrees(m, m.artifacts["memory.json"])

-----------------------------------------------------------------------------
(***************************************************************************)
(* The directory.                                                          *)
(***************************************************************************)
\* The result on disk is the one that the manifest on disk lists.
Told ==
  /\ OnDisk \notin Damaged
  /\ disk["memory.json"] \notin Damaged
  /\ OnDisk.artifacts["memory.json"] = disk["memory.json"]

DiskTells ==
  /\ OnDisk \notin Damaged => ManifestOK(OnDisk)
  /\ Told /\ OnDisk.stages["rendering"].status = "complete" =>
       \A f \in Reports : disk[f] = Report(disk["memory.json"])

\* The manifest on disk lists no result.
Untold == OnDisk \in Damaged \/ OnDisk.artifacts["memory.json"] = Absent

\* c is what lies in file f of directory d, unless it was damaged.
Lies(d, f, c) == d[f] \in {c} \cup Damaged

-----------------------------------------------------------------------------
(***************************************************************************)
(* A writer.                                                               *)
(***************************************************************************)
Number == [preparation |-> 1, screening |-> 2, synthesis |-> 3, comparison |-> 4]

\* The stage that p has not committed yet.
Due(p) == IF pc[p] \in {"export", "persist-export", "save-guidance"} THEN "screening" ELSE active[p]

Rendering == {"persist-result", "render-markdown", "render-html", "persist-final"}
Drafting == Working \ (Rendering \cup {"save-result"})

\* A manifest and a result in memory belong to the job.
Drawn(m, x, j) ==
  /\ Derived(x)
  /\ x.run = j.run /\ m.run = j.run /\ x.evidence = j.evidence
  /\ m.artifacts["prepared.json"] \in {Absent, j.evidence}
  /\ x.assessments # Absent => x.assessments.in.guidance = j.guidance
  /\ x.hooks => m.datasets # Absent

\* What a manifest lists lies in d.
Lying(m, d) ==
  /\ \A f \in Artifacts : m.artifacts[f] # Absent => Lies(d, f, m.artifacts[f])
  /\ m.datasets # Absent => Lies(d, "datasets", m.datasets)

\* Stages before the due one are settled; of the due one and those after, nothing is
\* listed or taken into the result.
Ahead(m, x, due) ==
  /\ x.status = "running" /\ x.failing = "none" /\ m.artifacts["memory.json"] = Absent
  /\ \A s \in DOMAIN ArtifactOf :
       IF Number[s] < Number[due] THEN Settled(m, s) ELSE m.artifacts[ArtifactOf[s]] = Absent
  /\ Number[due] <= 2 => x.features = Absent
  /\ Number[due] <= 3 => x.candidates = Absent
  /\ x.assessments = Absent

Guided(p) == man[p].artifacts["guidance.json"] = GuidanceFile(job[p].guidance)

WriterTells(p) ==
  /\ pc[p] \in Working =>
       /\ ManifestOK(man[p]) /\ Drawn(man[p], res[p], job[p]) /\ Lying(man[p], disk)
       /\ old[p] # Absent => RowsOK(old[p])
  /\ pc[p] \in Drafting =>
       /\ Ahead(man[p], res[p], Due(p))
       /\ active[p] # "preparation" => Guided(p)
  /\ pc[p] \in Announcing => active[p] = "preparation"
  /\ pc[p] \in Announcing \ {"announce-memory"} => Lies(disk, "memory.json", res[p])
  /\ pc[p] \in StagePlaces \cup {"persist-result"} => Untold
  /\ pc[p] \in {"run-stage", "commit-stage"} =>
       man[p].stages[active[p]].in = Identity(p, active[p])
  /\ At(p, "commit-stage") => MadeFrom(active[p], value[p], Identity(p, active[p]))
  /\ At(p, "save-proposals") =>
       IsCompare(p) /\ active[p] = "synthesis" /\ res[p].features = job[p].saved.features
  /\ At(p, "save-result") =>
       /\ man[p].artifacts["memory.json"] = Absent
       /\ Agrees(man[p], res[p]) /\ res[p].failing # "rendering"
  /\ pc[p] \in Rendering => man[p].artifacts["memory.json"] = res[p]
  /\ pc[p] \in Rendering \ {"persist-final"} =>
       res[p].failing # "rendering" /\ man[p].stages["rendering"].status = "running"
  /\ pc[p] \in {"render-markdown", "render-html"} => Lies(disk, "manifest.json", man[p])
  /\ At(p, "render-html") => disk["report.md"] = Report(res[p])
  /\ At(p, "persist-final") =>
       /\ man[p].stages["rendering"].status = "complete" =>
            \A f \in Reports : disk[f] = Report(res[p])
       /\ Told => /\ OnDisk.artifacts = man[p].artifacts /\ OnDisk.datasets = man[p].datasets
                  /\ OnDisk.stages["rendering"].status # "complete"
  /\ pc[p] \in {"fail-markdown", "fail-html"} => Untold

-----------------------------------------------------------------------------
(***************************************************************************)
(* A reader, and what a comparison took over.                              *)
(***************************************************************************)
ReaderKnows(p) ==
  /\ pc[p] \in {"read-evidence", "read-result", "verify", "loaded"} => ManifestOK(read[p].manifest)
  /\ pc[p] \in {"read-result", "verify", "loaded"} => read[p].evidence \notin Damaged
  /\ pc[p] \in {"verify", "loaded"} =>
       /\ read[p].manifest.artifacts["prepared.json"] = read[p].evidence
       /\ read[p].manifest.artifacts["memory.json"] = read[p].result
  /\ pc[p] \in Writing \cup {"lock"} /\ IsCompare(p) =>
       /\ Derived(job[p].saved)
       /\ job[p].saved.evidence = job[p].evidence
  /\ \/ pc[p] \in Working \cup {"open"}
     \/ pc[p] \in Writing \cup {"lock"} /\ IsCompare(p)
     => job[p].evidence \notin Damaged

StoryInv == DiskTells /\ \A p \in Procs : WriterTells(p) /\ ReaderKnows(p)

-----------------------------------------------------------------------------
(***************************************************************************)
(* Runs.  A run that has not announced itself is new to the directory.     *)
(***************************************************************************)
NotAnnounced(p) ==
  \/ pc[p] \in {"prepare", "open", "fail-memory", "announce-memory"}
  \/ IsCompare(p) /\ pc[p] \in ReadingPlaces \ {"idle"}

RunsInv ==
  /\ current \in 0..runs /\ retired \subseteq 0..runs
  /\ \A p \in Procs : pc[p] # "idle" => job[p].run \in 1..runs
  /\ \A p \in Procs : At(p, "lock") => IsCompare(p)
  /\ \A p, q \in Procs : pc[p] # "idle" /\ pc[q] # "idle" /\ p # q => job[p].run # job[q].run
  /\ \A p \in Procs : NotAnnounced(p) => job[p].run \notin retired \cup {current}
  /\ \A p \in Procs : pc[p] \in Writing /\ ~NotAnnounced(p) => current = job[p].run

-----------------------------------------------------------------------------
(***************************************************************************)
(* What the operations on a manifest leave alone.                          *)
(***************************************************************************)
\* m and n differ in their rows only.
SameFiles(m, n) == n.run = m.run /\ n.artifacts = m.artifacts /\ n.datasets = m.datasets

LEMMA WithRowFacts ==
  ASSUME NEW m \in Manifests, NEW s \in STAGES, NEW row \in Row
  PROVE  /\ WithRow(m, s, row) \in Manifests /\ SameFiles(m, WithRow(m, s, row))
         /\ WithRow(m, s, row).stages[s] = row
         /\ \A t \in STAGES \ {s} : WithRow(m, s, row).stages[t] = m.stages[t]
<1>1. DOMAIN m.stages = STAGES
  BY DEF Manifests
<1>2. WithRow(m, s, row).artifacts = m.artifacts /\ WithRow(m, s, row).datasets = m.datasets
  BY DEF WithRow, Manifests
<1>3. /\ WithRow(m, s, row) \in Manifests /\ WithRow(m, s, row).run = m.run
      /\ WithRow(m, s, row).stages = [m.stages EXCEPT ![s] = row]
  BY WithRowType
<1> QED BY <1>1, <1>2, <1>3 DEF SameFiles

LEMMA DeclaredFacts ==
  ASSUME NEW m \in Manifests, NEW s \in STAGES,
         NEW in \in EvidenceFiles \cup Proposed \cup Compared \cup Results
  PROVE  /\ Declared(m, s, in) \in Manifests /\ SameFiles(m, Declared(m, s, in))
         /\ Declared(m, s, in).stages[s].status = "running"
         /\ Declared(m, s, in).stages[s].in = in
         /\ \A t \in STAGES \ {s} : Declared(m, s, in).stages[t] = m.stages[t]
<1> DEFINE row == [status |-> "running", in |-> in, out |-> Absent]
<1>1. row \in Row /\ row.status = "running" /\ row.in = in
  BY DEF Row, EvidenceFiles, Damaged
<1>2. Declared(m, s, in) = WithRow(m, s, row)
  BY DEF Declared
<1> HIDE DEF row
<1> QED BY <1>1, <1>2, WithRowFacts

LEMMA WithStatusFacts ==
  ASSUME NEW m \in Manifests, NEW s \in STAGES, NEW st \in {"running", "complete", "blocked"}
  PROVE  /\ WithStatus(m, s, st) \in Manifests /\ SameFiles(m, WithStatus(m, s, st))
         /\ WithStatus(m, s, st).stages[s].status = st
         /\ \A t \in STAGES \ {s} : WithStatus(m, s, st).stages[t] = m.stages[t]
<1> DEFINE row == [m.stages[s] EXCEPT !.status = st]
<1>1. m.stages[s] \in Row
  BY DEF Manifests
<1>2. row \in Row /\ row.status = st
  BY <1>1 DEF Row
<1>3. WithStatus(m, s, st) = WithRow(m, s, row)
  BY DEF WithStatus
<1> HIDE DEF row
<1> QED BY <1>2, <1>3, WithRowFacts

LEMMA CompletedFacts ==
  ASSUME NEW m \in Manifests, NEW s \in STAGES,
         NEW out \in EvidenceFiles \cup Features \cup Candidates \cup Assessments \cup Rendered
  PROVE  /\ Completed(m, s, out) \in Manifests /\ SameFiles(m, Completed(m, s, out))
         /\ Completed(m, s, out).stages[s].status = "complete"
         /\ Completed(m, s, out).stages[s].in = m.stages[s].in
         /\ Completed(m, s, out).stages[s].out = out
         /\ \A t \in STAGES \ {s} : Completed(m, s, out).stages[t] = m.stages[t]
<1> DEFINE row == [m.stages[s] EXCEPT !.status = "complete", !.out = out]
<1>1. m.stages[s] \in Row
  BY DEF Manifests
<1>2. row \in Row /\ row.status = "complete" /\ row.in = m.stages[s].in /\ row.out = out
  BY <1>1 DEF Row
<1>3. Completed(m, s, out) = WithRow(m, s, row)
  BY DEF Completed
<1> HIDE DEF row
<1> QED BY <1>2, <1>3, WithRowFacts

LEMMA SkipFacts ==
  ASSUME NEW m \in Manifests, NEW skipped \in SUBSET STAGES
  PROVE  /\ Skip(m, skipped) \in Manifests /\ SameFiles(m, Skip(m, skipped))
         /\ \A s \in skipped : Skip(m, skipped).stages[s].status = "skipped"
         /\ \A s \in STAGES \ skipped : Skip(m, skipped).stages[s] = m.stages[s]
<1>1. Skip(m, skipped).artifacts = m.artifacts /\ Skip(m, skipped).datasets = m.datasets
  BY DEF Skip, Manifests
<1> QED BY <1>1, SkipType DEF SameFiles, SkippedRow

LEMMA ListFacts ==
  ASSUME NEW m \in Manifests, NEW f \in Artifacts, NEW c \in Listed
  PROVE  /\ List(m, f, c) \in Manifests /\ List(m, f, c).run = m.run
         /\ List(m, f, c).stages = m.stages /\ List(m, f, c).datasets = m.datasets
         /\ List(m, f, c).artifacts[f] = c
         /\ \A g \in Artifacts \ {f} : List(m, f, c).artifacts[g] = m.artifacts[g]
BY ListType DEF List, Manifests

\* Nothing that is written is mistaken for a missing or a damaged file.
LEMMA Whole ==
  /\ \A s : Evidence(s) \notin Damaged
  /\ \A g : GuidanceFile(g) \notin Damaged
  /\ \A ev : Dataset(ev) \notin Damaged
  /\ \A in, r : \A s \in STAGES : Output(s, in, r) \notin Damaged
  /\ \A x \in Results : x \notin Damaged
  /\ \A m \in Manifests : m \notin Damaged
  /\ FailedResult \notin Damaged /\ FailedManifest \notin Damaged
<1>1. \A s : Evidence(s) \notin Damaged
  BY DEF Evidence, Damaged, Absent, Corrupt
<1>2. \A g : GuidanceFile(g) \notin Damaged
  BY DEF GuidanceFile, Damaged, Absent, Corrupt
<1>3. \A ev : Dataset(ev) \notin Damaged
  BY DEF Dataset, Damaged, Absent, Corrupt
<1>4. \A in, r : \A s \in STAGES : Output(s, in, r) \notin Damaged
  BY DEF Output, STAGES, Damaged, Absent, Corrupt
<1>5. \A x \in Results : x \notin Damaged
  BY DEF Results, Damaged, Absent, Corrupt
<1>6. \A m \in Manifests : m \notin Damaged
  BY DEF Manifests, Damaged, Absent, Corrupt
<1> QED BY <1>1, <1>2, <1>3, <1>4, <1>5, <1>6, FailedType

-----------------------------------------------------------------------------
(***************************************************************************)
(* How the parts of the invariant take a revised manifest or result.       *)
(***************************************************************************)
LEMMA RowsRevised ==
  ASSUME NEW m, NEW n, RowsOK(m),
         \A s \in DOMAIN ArtifactOf :
           \/ n.stages[s] = m.stages[s]
           \/ n.stages[s].status # "complete"
           \/ MadeFrom(s, n.stages[s].out, n.stages[s].in)
  PROVE  RowsOK(n)
BY DEF RowsOK

LEMMA SoundRevised ==
  ASSUME NEW m, NEW n, Sound(m), RowsOK(n), SameFiles(m, n)
  PROVE  Sound(n)
BY DEF Sound, SameFiles

LEMMA DrawnRevised ==
  ASSUME NEW m, NEW n, NEW x, NEW j, Drawn(m, x, j), SameFiles(m, n)
  PROVE  Drawn(n, x, j)
BY DEF Drawn, SameFiles

LEMMA LyingRevised ==
  ASSUME NEW m, NEW n, NEW d, Lying(m, d), SameFiles(m, n)
  PROVE  Lying(n, d)
BY DEF Lying, SameFiles

\* A file is listed that lies in the directory.
LEMMA LyingListed ==
  ASSUME NEW m, NEW n, NEW d, NEW f \in Artifacts, Lying(m, d), Lies(d, f, n.artifacts[f]),
         \A g \in Artifacts \ {f} : n.artifacts[g] = m.artifacts[g], n.datasets = m.datasets
  PROVE  Lying(n, d)
BY DEF Lying

\* A file is written that is not listed.
LEMMA LyingWritten ==
  ASSUME NEW m, NEW d, DOMAIN d = Files, NEW f, NEW c, Lying(m, d),
         f \in Artifacts => m.artifacts[f] = Absent,
         f # "datasets"
  PROVE  Lying(m, [d EXCEPT ![f] = c])
BY DEF Lying, Lies, Files

\* A file is written and listed.
LEMMA LyingWrittenListed ==
  ASSUME NEW m, NEW n, NEW d, DOMAIN d = Files, NEW f \in Artifacts, Lying(m, d),
         \A g \in Artifacts \ {f} : n.artifacts[g] = m.artifacts[g], n.datasets = m.datasets
  PROVE  Lying(n, [d EXCEPT ![f] = n.artifacts[f]])
BY DEF Lying, Lies, Files, Artifacts

LEMMA LyingDamaged ==
  ASSUME NEW m, NEW d, DOMAIN d = Files, NEW f, NEW c \in Damaged, Lying(m, d)
  PROVE  Lying(m, [d EXCEPT ![f] = c])
BY DEF Lying, Lies, Files, Artifacts

LEMMA AheadRevised ==
  ASSUME NEW m, NEW n, NEW x, NEW due, Ahead(m, x, due), SameFiles(m, n),
         \A s \in DOMAIN ArtifactOf :
           Number[s] < Number[due] => n.stages[s] = m.stages[s] \/ Settled(n, s)
  PROVE  Ahead(n, x, due)
BY DEF Ahead, SameFiles, Settled

\* A manifest that lists no result is good when it is sound.
LEMMA SoundUnlisted ==
  ASSUME NEW m, Sound(m), m.artifacts["memory.json"] = Absent
  PROVE  ManifestOK(m)
BY DEF ManifestOK

\* The fresh manifest and result of a run that opens the directory.
LEMMA FreshTells ==
  ASSUME NEW p \in Procs, NEW d,
         NEW m, NEW x, m = FreshManifest(job[p].run), x = FreshResult(job[p].run, job[p].evidence)
  PROVE  /\ Sound(m) /\ Drawn(m, x, job[p]) /\ Lying(m, d) /\ Ahead(m, x, "preparation")
         /\ m.artifacts["memory.json"] = Absent
<1>1. /\ \A s \in DOMAIN ArtifactOf : m.stages[s].status = "pending"
      /\ \A f \in Artifacts : m.artifacts[f] = Absent
      /\ m.datasets = Absent /\ m.run = job[p].run
  BY ArtifactFacts DEF FreshManifest, PendingRow
<1>2. /\ x.run = job[p].run /\ x.evidence = job[p].evidence
      /\ x.status = "running" /\ x.failing = "none"
      /\ x.hooks = FALSE /\ x.features = Absent /\ x.candidates = Absent /\ x.assessments = Absent
  BY DEF FreshResult
<1>3. Absent # Corrupt
  BY DEF Absent, Corrupt
<1>4. {"prepared.json", "memory.json"} \subseteq Artifacts
  BY DEF Artifacts
<1>5. Sound(m)
  BY <1>1, <1>3 DEF Sound, RowsOK
<1>6. Drawn(m, x, job[p])
  BY <1>1, <1>2, <1>4 DEF Drawn, Derived
<1>7. Lying(m, d)
  BY <1>1 DEF Lying
<1>8. Ahead(m, x, "preparation")
  BY <1>1, <1>2, <1>4, ArtifactFacts DEF Ahead, Number
<1> QED BY <1>1, <1>4, <1>5, <1>6, <1>7, <1>8

LEMMA FailedTells == ManifestOK(FailedManifest) /\ FailedManifest.artifacts["memory.json"] = Absent
<1>1. /\ \A s \in DOMAIN ArtifactOf : FailedManifest.stages[s].status # "complete"
      /\ \A f \in Artifacts : FailedManifest.artifacts[f] = Absent
      /\ FailedManifest.datasets = Absent
  BY ArtifactFacts DEF FailedManifest, FreshManifest, PendingRow
<1>2. Absent # Corrupt /\ "memory.json" \in Artifacts
  BY DEF Absent, Corrupt, Artifacts
<1> QED BY <1>1, <1>2 DEF ManifestOK, Sound, RowsOK

-----------------------------------------------------------------------------
(***************************************************************************)
(* Runs.                                                                   *)
(***************************************************************************)
\* A process moves on within its run.
LEMMA RunGoesOn ==
  ASSUME TypeOK, RunsInv, NEW p \in Procs, NEW there, Goto(p, there),
         pc[p] # "idle", there \notin {"idle", "lock"} \/ (there = "lock" /\ IsCompare(p)),
         UNCHANGED <<runs, history>>,
         \A q \in Procs : job'[q].run = job[q].run /\ job'[q].kind = job[q].kind,
         there \in {"prepare", "open", "fail-memory", "announce-memory"} \/
           (there \in ReadingPlaces /\ IsCompare(p)) => NotAnnounced(p),
         there \in Writing => NotAnnounced(p)' \/ (pc[p] \in Writing /\ ~NotAnnounced(p))
  PROVE  RunsInv'
<1>1. /\ pc'[p] = there
      /\ \A q \in Procs \ {p} : pc'[q] = pc[q]
  BY DEF TypeOK, LocalsOK, Goto
<1>2. \A q \in Procs : IsCompare(q)' = IsCompare(q)
  BY DEF IsCompare
<1>3. \A q \in Procs : NotAnnounced(q)' => NotAnnounced(q)
  BY <1>1, <1>2 DEF NotAnnounced
<1>4. \A q \in Procs \ {p} : NotAnnounced(q)' <=> NotAnnounced(q)
  BY <1>1, <1>2 DEF NotAnnounced
<1>5. \A q \in Procs : pc'[q] # "idle" => pc[q] # "idle"
  BY <1>1
<1>6. current' = current /\ retired' = retired /\ runs' = runs
  BY DEF history
<1>7. \A q \in Procs : At(q, "lock")' => IsCompare(q)'
  BY <1>1, <1>2 DEF RunsInv, At
<1>8. \A q \in Procs : pc'[q] \in Writing /\ ~NotAnnounced(q)' => current' = job'[q].run
  BY <1>1, <1>4, <1>6 DEF RunsInv
<1> QED BY <1>3, <1>5, <1>6, <1>7, <1>8 DEF RunsInv

\* A process ends its run.
LEMMA RunEnds ==
  ASSUME TypeOK, RunsInv, NEW p \in Procs, Exit(p), UNCHANGED <<runs, history>>
  PROVE  RunsInv'
<1>1. /\ pc'[p] = "idle" /\ job'[p] = NoJob
      /\ \A q \in Procs \ {p} : pc'[q] = pc[q] /\ job'[q] = job[q]
  BY DEF TypeOK, LocalsOK, Goto, Exit
<1>2. ~NotAnnounced(p)' /\ pc'[p] \notin Writing
  BY <1>1, ReadingIsNotWriting DEF NotAnnounced, ReadingPlaces
<1>3. \A q \in Procs \ {p} : NotAnnounced(q)' <=> NotAnnounced(q)
  BY <1>1 DEF NotAnnounced, IsCompare
<1>4. current' = current /\ retired' = retired /\ runs' = runs
  BY DEF history
<1>5. \A q \in Procs : At(q, "lock")' => IsCompare(q)'
  BY <1>1 DEF RunsInv, At, IsCompare
<1> QED BY <1>1, <1>2, <1>3, <1>4, <1>5 DEF RunsInv

\* A run begins, with a number of its own.
LEMMA RunBegins ==
  ASSUME TypeOK, RunsInv, NEW p \in Procs, Start(p)
  PROVE  RunsInv'
<1>1. PICK kind \in Kinds, g \in AnyGuidance : Begin(p, kind, g)
  BY DEF Start, AnyGuidance
<1>2. /\ runs' = runs + 1 /\ current' = current /\ retired' = retired
      /\ \A q \in Procs \ {p} : pc'[q] = pc[q] /\ job'[q] = job[q]
      /\ job'[p].run = runs + 1 /\ job'[p].kind = kind
      /\ pc'[p] = "prepare" \/ (pc'[p] = "read-manifest" /\ kind = "compare")
  BY <1>1 DEF Begin, NewJob, Goto, history, TypeOK, LocalsOK
<1>3. runs \in Nat
  BY BoundsAssumption DEF TypeOK, HistoryOK, Runs
<1>4. NotAnnounced(p)'
  BY <1>2 DEF NotAnnounced, IsCompare, ReadingPlaces
<1>5. \A q \in Procs \ {p} : NotAnnounced(q)' <=> NotAnnounced(q)
  BY <1>2 DEF NotAnnounced, IsCompare
<1>6. 0..runs \subseteq 0..runs' /\ 1..runs \subseteq 1..runs' /\ runs' \in 1..runs' /\ runs' \notin 0..runs
  BY <1>2, <1>3
<1>7. current' \in 0..runs' /\ retired' \subseteq 0..runs'
  BY <1>2, <1>6 DEF RunsInv
<1>8. \A q \in Procs : pc'[q] # "idle" => job'[q].run \in 1..runs'
  BY <1>2, <1>6 DEF RunsInv
<1>9. \A q, r \in Procs : pc'[q] # "idle" /\ pc'[r] # "idle" /\ q # r => job'[q].run # job'[r].run
  BY <1>2, <1>3 DEF RunsInv
<1>10. \A q \in Procs : NotAnnounced(q)' => job'[q].run \notin retired' \cup {current'}
  BY <1>2, <1>5, <1>6 DEF RunsInv
<1>11. \A q \in Procs : pc'[q] \in Writing /\ ~NotAnnounced(q)' => current' = job'[q].run
  BY <1>2, <1>4, <1>5 DEF RunsInv
<1>12. \A q \in Procs : At(q, "lock")' => IsCompare(q)'
  BY <1>2 DEF RunsInv, At, IsCompare
<1> QED BY <1>7, <1>8, <1>9, <1>10, <1>11, <1>12 DEF RunsInv

\* A run announces itself, or the failure of its preparation.
LEMMA RunAnnounces ==
  ASSUME TypeOK, OneWriter, RunsInv, NEW p \in Procs, FailMemory(p) \/ AnnounceMemory(p)
  PROVE  RunsInv'
<1>1. /\ pc[p] \in {"fail-memory", "announce-memory"}
      /\ pc'[p] \in {"fail-manifest", "announce-markdown"}
      /\ job' = job /\ runs' = runs
      /\ \A q \in Procs \ {p} : pc'[q] = pc[q]
      /\ current' = job[p].run /\ retired' = retired \cup {current}
  BY DEF FailMemory, AnnounceMemory, SaveStep, At, Goto, Withdraw, local, bounds, TypeOK, LocalsOK
<1>2. pc[p] \in Writing /\ pc[p] # "idle" /\ NotAnnounced(p)
  BY <1>1 DEF Writing, Working, NotAnnounced
<1>3. ~NotAnnounced(p)' /\ pc'[p] \notin {"idle", "lock"}
  BY <1>1 DEF NotAnnounced, ReadingPlaces
<1>4. \A q \in Procs \ {p} : NotAnnounced(q)' <=> NotAnnounced(q)
  BY <1>1 DEF NotAnnounced, IsCompare
<1>5. \A q \in Procs \ {p} : pc'[q] \notin Writing
  BY <1>1, <1>2 DEF OneWriter
<1>6. runs \in Nat /\ 1..runs \subseteq 0..runs
  BY BoundsAssumption DEF TypeOK, HistoryOK, Runs
<1>7. current' \in 0..runs' /\ retired' \subseteq 0..runs'
  BY <1>1, <1>2, <1>6 DEF RunsInv
<1>8. \A q \in Procs : NotAnnounced(q)' => pc[q] # "idle" /\ q # p /\ NotAnnounced(q)
  BY <1>3, <1>4 DEF NotAnnounced
<1>9. \A q \in Procs : NotAnnounced(q)' => job'[q].run \notin retired' \cup {current'}
  BY <1>1, <1>2, <1>8 DEF RunsInv
<1>10. \A q \in Procs : pc'[q] # "idle" => pc[q] # "idle"
  BY <1>1, <1>2
<1>11. \A q \in Procs : At(q, "lock")' => IsCompare(q)'
  BY <1>1, <1>3 DEF RunsInv, At, IsCompare
<1> QED BY <1>1, <1>5, <1>7, <1>9, <1>10, <1>11 DEF RunsInv

\* The steps of a run that has announced itself, as far as runs are concerned.
LEMMA AnnouncedSteps ==
  ASSUME TypeOK, NEW p \in Procs,
         \/ FailManifest(p) \/ FailMarkdown(p) \/ AnnounceMarkdown(p) \/ AnnounceHtml(p)
         \/ AnnounceManifest(p) \/ Stage(p) \/ Between(p) \/ (Publish(p) /\ ~PersistFinal(p))
  PROVE  /\ pc[p] \in Writing \ {"prepare", "open", "fail-memory", "announce-memory"}
         /\ \E there \in Writing \ {"prepare", "open", "fail-memory", "announce-memory"} : Goto(p, there)
         /\ UNCHANGED <<job, runs, history>>
<1> USE DEF At, Writing, Working, StagePlaces, local, bounds
<1>1. CASE FailManifest(p) \/ FailMarkdown(p)
  BY <1>1 DEF FailManifest, FailMarkdown, SaveStep
<1>2. CASE AnnounceMarkdown(p) \/ AnnounceHtml(p) \/ AnnounceManifest(p)
  BY <1>2 DEF AnnounceMarkdown, AnnounceHtml, AnnounceManifest, SaveStep
<1>3. CASE Stage(p)
  BY <1>3 DEF Stage, BeginStage, ResumeStage, ExecuteStage, CommitStage, TakeProposals, Block
<1>4. CASE Between(p)
  BY <1>4 DEF Between, ExportCommands, PersistExport, SaveGuidance, SaveProposals,
              TakeProposals, Block, SaveStep
<1>5. CASE Publish(p) /\ ~PersistFinal(p)
  BY <1>5 DEF Publish, SaveResult, PersistResult, RenderMarkdown, RenderHtml, RenderFails, SaveStep
<1> QED BY <1>1, <1>2, <1>3, <1>4, <1>5

LEMMA NextRuns == TypeOK /\ OneWriter /\ RunsInv /\ [Next]_vars => RunsInv'
<1> SUFFICES ASSUME TypeOK, OneWriter, RunsInv, [Next]_vars
             PROVE  RunsInv'
  OBVIOUS
<1>1. CASE UNCHANGED vars
  BY <1>1 DEF vars, history, local, bounds, RunsInv, NotAnnounced, IsCompare, At
<1>2. ASSUME NEW p \in Procs, Start(p)
      PROVE  RunsInv'
  BY <1>2, RunBegins
<1>3. ASSUME NEW p \in Procs, Step(p)
      PROVE  RunsInv'
  <2>1. CASE Exit(p) /\ UNCHANGED <<runs, history>>
    BY <2>1, RunEnds
  <2>2. CASE FailMemory(p) \/ AnnounceMemory(p)
    BY <2>2, RunAnnounces
  <2>3. CASE \/ FailManifest(p) \/ FailMarkdown(p) \/ AnnounceMarkdown(p) \/ AnnounceHtml(p)
             \/ AnnounceManifest(p) \/ Stage(p) \/ Between(p) \/ (Publish(p) /\ ~PersistFinal(p))
    <3>1. PICK there \in Writing \ {"prepare", "open", "fail-memory", "announce-memory"} : Goto(p, there)
      BY <2>3, AnnouncedSteps
    <3>2. /\ pc[p] \in Writing \ {"prepare", "open", "fail-memory", "announce-memory"}
          /\ UNCHANGED <<job, runs, history>>
      BY <2>3, AnnouncedSteps
    <3>3. pc[p] \notin ReadingPlaces /\ there \notin ReadingPlaces
      BY <3>1, <3>2, ReadingIsNotWriting
    <3>4. ~NotAnnounced(p)
      BY <3>2, <3>3 DEF NotAnnounced
    <3>5. there \notin {"idle", "lock"} /\ pc[p] # "idle"
      BY <3>3 DEF ReadingPlaces
    <3> QED BY <3>1, <3>2, <3>3, <3>4, <3>5, RunGoesOn
  <2>4. CASE LockForCompare(p) /\ ~Exit(p)
    <3>1. At(p, "lock") /\ Goto(p, "prepare") /\ UNCHANGED <<job, runs, history>>
      BY <2>4 DEF LockForCompare, local, bounds
    <3>2. NotAnnounced(p)
      BY <3>1 DEF RunsInv, NotAnnounced, At, ReadingPlaces
    <3>3. NotAnnounced(p)'
      BY <3>1 DEF NotAnnounced, Goto, TypeOK, LocalsOK
    <3> QED BY <3>1, <3>2, <3>3, RunGoesOn DEF At
  <2>5. CASE PrepareInputs(p) \/ OpenManifest(p)
    <3>1. /\ pc[p] \in {"prepare", "open"} /\ UNCHANGED <<runs, history>>
          /\ \A q \in Procs : job'[q].run = job[q].run /\ job'[q].kind = job[q].kind
      <4>1. pc[p] \in {"prepare", "open"} /\ UNCHANGED <<runs, history>>
        BY <2>5 DEF PrepareInputs, OpenManifest, At, bounds
      <4>2. job' = job \/ \E s \in Sources : job' = [job EXCEPT ![p].evidence = Evidence(s)]
        BY <2>5 DEF PrepareInputs, OpenManifest
      <4>3. job[p] \in Jobs /\ job \in [Procs -> Jobs]
        BY DEF TypeOK, LocalsOK
      <4>4. \A s \in Sources : [job[p] EXCEPT !.evidence = Evidence(s)].run = job[p].run
                            /\ [job[p] EXCEPT !.evidence = Evidence(s)].kind = job[p].kind
        BY <4>3 DEF Jobs
      <4> QED BY <4>1, <4>2, <4>3, <4>4
    <3>2. PICK there \in {"open", "fail-memory", "announce-memory"} : Goto(p, there)
      BY <2>5 DEF PrepareInputs, OpenManifest
    <3>3. NotAnnounced(p) /\ NotAnnounced(p)'
      BY <3>1, <3>2 DEF NotAnnounced, Goto, TypeOK, LocalsOK
    <3> QED BY <3>1, <3>2, <3>3, RunGoesOn
  <2>6. CASE PersistFinal(p) /\ ~Exit(p)
    <3>1. /\ At(p, "persist-final") /\ ~IsCompare(p) /\ Goto(p, "read-manifest")
          /\ UNCHANGED <<job, runs, history>>
      BY <2>6 DEF PersistFinal, bounds
    <3>2. "read-manifest" \notin Writing
      BY ReadingIsNotWriting DEF ReadingPlaces
    <3> QED BY <3>1, <3>2, RunGoesOn DEF At
  <2>7. CASE LoadSaved(p) /\ ~Exit(p)
    <3>1. /\ pc[p] \in ReadingPlaces \ {"idle"} /\ UNCHANGED <<runs, history>>
          /\ \A q \in Procs : job'[q].run = job[q].run /\ job'[q].kind = job[q].kind
      <4> DEFINE j == [job[p] EXCEPT !.evidence = read[p].evidence, !.saved = read[p].result]
      <4>1. pc[p] \in ReadingPlaces \ {"idle"} /\ UNCHANGED <<runs, history>>
        BY <2>7 DEF LoadSaved, ReadManifest, ReadEvidence, ReadResult, Verify, UseLoaded,
                    At, bounds, ReadingPlaces
      <4>2. job' = job \/ job' = [job EXCEPT ![p] = j]
        BY <2>7 DEF LoadSaved, ReadManifest, ReadEvidence, ReadResult, Verify, UseLoaded, local
      <4>3. job[p] \in Jobs /\ job \in [Procs -> Jobs]
        BY DEF TypeOK, LocalsOK
      <4>4. j.run = job[p].run /\ j.kind = job[p].kind
        BY <4>3 DEF Jobs
      <4> HIDE DEF j
      <4> QED BY <4>1, <4>2, <4>3, <4>4
    <3>2. PICK there \in ReadingPlaces \ {"idle"} : Goto(p, there) /\ (there = "lock" => IsCompare(p))
      BY <2>7 DEF LoadSaved, ReadManifest, ReadEvidence, ReadResult, Verify, UseLoaded, ReadingPlaces
    <3>3. IsCompare(p) => NotAnnounced(p)
      BY <3>1 DEF NotAnnounced
    <3>4. there \notin Writing /\ there \notin {"prepare", "open", "fail-memory", "announce-memory"}
      BY <3>2, ReadingIsNotWriting DEF ReadingPlaces
    <3> QED BY <3>1, <3>2, <3>3, <3>4, RunGoesOn
  <2>8. LoadSaved(p) \/ LockForCompare(p) \/ PersistFinal(p) \/ FailHtml(p) => UNCHANGED <<runs, history>>
    BY DEF LoadSaved, ReadManifest, ReadEvidence, ReadResult, Verify, UseLoaded, LockForCompare,
           PersistFinal, FailHtml, bounds
  <2>9. FailHtml(p) => Exit(p)
    BY DEF FailHtml
  <2> QED BY <1>3, <2>1, <2>2, <2>3, <2>4, <2>5, <2>6, <2>7, <2>8, <2>9
          DEF Step, PreparationFailed, Announce
<1>4. ASSUME NEW p \in Procs, Crash(p)
      PROVE  RunsInv'
  BY <1>4, RunEnds DEF Crash
<1>5. ASSUME NEW f \in Fragile, Tamper(f)
      PROVE  RunsInv'
  BY <1>5 DEF Tamper, local, history, RunsInv, NotAnnounced, IsCompare, At
<1> QED BY <1>1, <1>2, <1>3, <1>4, <1>5 DEF Next

LEMMA RunsAlways == Spec => []RunsInv
<1>1. Init => RunsInv
  BY DEF Init, RunsInv, NotAnnounced, IsCompare, NoJob, NewJob, At, ReadingPlaces, Writing, Working,
         StagePlaces
<1>2. TypeOK /\ OneWriter /\ RunsInv /\ [Next]_vars => RunsInv'
  BY NextRuns
<1> QED BY <1>1, <1>2, TypeCorrect, WritersAreExclusive, PTL DEF Spec

-----------------------------------------------------------------------------
(***************************************************************************)
(* What one file write does to the directory.                              *)
(***************************************************************************)
LEMMA OtherWritten ==
  ASSUME TypeOK, DiskTells, NEW f \in Files \ (Reports \cup {"manifest.json", "memory.json"}),
         NEW c, Save(f, c)
  PROVE  /\ DiskTells' /\ OnDisk' = OnDisk
         /\ Untold' <=> Untold
<1>1. /\ disk'["manifest.json"] = disk["manifest.json"] /\ disk'["memory.json"] = disk["memory.json"]
      /\ \A r \in Reports : disk'[r] = disk[r]
  BY DEF Save, TypeOK, DiskOK, Files, Reports
<1> QED BY <1>1 DEF DiskTells, Told, Untold, OnDisk

LEMMA ReportWritten ==
  ASSUME TypeOK, DiskTells, NEW f \in Reports, NEW c, Save(f, c),
         ~Told \/ OnDisk.stages["rendering"].status # "complete"
  PROVE  /\ DiskTells' /\ OnDisk' = OnDisk /\ disk'["memory.json"] = disk["memory.json"]
         /\ Untold' <=> Untold
         /\ disk'[f] = c /\ \A r \in Reports \ {f} : disk'[r] = disk[r]
<1>1. /\ disk'["manifest.json"] = disk["manifest.json"] /\ disk'["memory.json"] = disk["memory.json"]
      /\ disk'[f] = c /\ \A r \in Reports \ {f} : disk'[r] = disk[r]
  BY DEF Save, TypeOK, DiskOK, Files, Reports
<1> QED BY <1>1 DEF DiskTells, Told, Untold, OnDisk

LEMMA MemoryWritten ==
  ASSUME TypeOK, DiskTells, NEW c, Save("memory.json", c),
         \/ OnDisk \in Damaged
         \/ OnDisk.artifacts["memory.json"] # c
         \/ OnDisk.stages["rendering"].status # "complete"
  PROVE  /\ DiskTells' /\ OnDisk' = OnDisk /\ disk'["memory.json"] = c
         /\ Untold' <=> Untold
         /\ \A r \in Reports : disk'[r] = disk[r]
<1>1. /\ disk'["manifest.json"] = disk["manifest.json"] /\ disk'["memory.json"] = c
      /\ \A r \in Reports : disk'[r] = disk[r]
  BY DEF Save, TypeOK, DiskOK, Files, Reports, Artifacts
<1> QED BY <1>1 DEF DiskTells, Told, Untold, OnDisk

LEMMA ManifestWritten ==
  ASSUME TypeOK, NEW m, ManifestOK(m), Save("manifest.json", m),
         \/ m.artifacts["memory.json"] = Absent
         \/ m.stages["rendering"].status # "complete"
         \/ \A f \in Reports : disk[f] = Report(m.artifacts["memory.json"])
  PROVE  /\ DiskTells' /\ OnDisk' = m
         /\ m.artifacts["memory.json"] = Absent => Untold'
         /\ \A f \in Files \ {"manifest.json"} : disk'[f] = disk[f]
<1>1. /\ disk'["manifest.json"] = m
      /\ \A f \in Files \ {"manifest.json"} : disk'[f] = disk[f]
  BY DEF Save, TypeOK, DiskOK, Files
<1>2. Reports \cup {"memory.json"} \subseteq Files \ {"manifest.json"}
  BY DEF Files, Reports, Artifacts
<1>3. OnDisk' = m
  BY <1>1 DEF OnDisk
<1>4. m.artifacts["memory.json"] = Absent => Untold'
  BY <1>3 DEF Untold
<1>5. ASSUME Told', m.stages["rendering"].status = "complete"
      PROVE  \A f \in Reports : disk'[f] = Report(disk'["memory.json"])
  <2>1. m.artifacts["memory.json"] = disk'["memory.json"] /\ m.artifacts["memory.json"] # Absent
    BY <1>3, <1>5 DEF Told, Damaged
  <2> QED BY <1>1, <1>2, <1>5, <2>1
<1> QED BY <1>1, <1>3, <1>4, <1>5 DEF DiskTells

\* No manifest on disk lists a result that is not finished.
LEMMA Unlisted ==
  ASSUME DiskTells, OnDisk \notin Damaged, NEW x, x # Absent, x \notin FinishedResults
  PROVE  OnDisk.artifacts["memory.json"] # x
BY DEF DiskTells, ManifestOK, Agrees

-----------------------------------------------------------------------------
(***************************************************************************)
(* Who is disturbed by a step.                                             *)
(***************************************************************************)
LEMMA OthersTell ==
  ASSUME TypeOK, OneWriter, StoryInv, NEW p \in Procs, pc[p] \in Writing, NEW there, Goto(p, there),
         NEW q \in Procs, q # p, job'[q] = job[q], read'[q] = read[q]
  PROVE  WriterTells(q)' /\ ReaderKnows(q)'
<1>1. pc[q] \notin Writing /\ pc'[q] = pc[q]
  BY DEF OneWriter, Goto, TypeOK, LocalsOK
<1>2. WriterTells(q)'
  BY <1>1 DEF WriterTells, Writing, Working, StagePlaces, Drafting, Rendering, Announcing, At
<1>3. ReaderKnows(q)
  BY DEF StoryInv
<1>4. ReaderKnows(q)'
  BY <1>1, <1>3 DEF ReaderKnows, IsCompare
<1> QED BY <1>2, <1>4

\* A writer goes on writing.
LEMMA WriterStays ==
  ASSUME TypeOK, OneWriter, StoryInv, NEW p \in Procs, pc[p] \in Writing,
         NEW there \in Writing, Goto(p, there),
         there \in Working \cup {"open"} => pc[p] \in Working \cup {"open"},
         UNCHANGED <<job, read>>, DiskTells', WriterTells(p)'
  PROVE  StoryInv'
<1>1. pc'[p] = there
  BY DEF Goto, TypeOK, LocalsOK
<1>2. ReaderKnows(p)
  BY DEF StoryInv
<1>3. there \notin ReadingPlaces
  BY ReadingIsNotWriting
<1>4. ReaderKnows(p)'
  BY <1>1, <1>2, <1>3 DEF ReaderKnows, IsCompare, ReadingPlaces
<1> QED BY <1>4, OthersTell DEF StoryInv

\* A writer stops writing.
LEMMA WriterLeaves ==
  ASSUME TypeOK, OneWriter, StoryInv, NEW p \in Procs, pc[p] \in Writing,
         NEW there \in {"idle", "read-manifest"}, Goto(p, there),
         \A q \in Procs \ {p} : job'[q] = job[q] /\ read'[q] = read[q], DiskTells'
  PROVE  StoryInv'
<1>1. pc'[p] = there /\ there \notin Writing \cup {"lock"}
  BY ReadingIsNotWriting DEF Goto, TypeOK, LocalsOK, ReadingPlaces
<1>2. WriterTells(p)'
  BY <1>1 DEF WriterTells, Writing, Working, StagePlaces, Drafting, Rendering, Announcing, At
<1>3. ReaderKnows(p)'
  BY <1>1 DEF ReaderKnows, Writing
<1> QED BY <1>2, <1>3, OthersTell DEF StoryInv

\* A process moves while nothing is written, and does not work.
LEMMA OnlyReads ==
  ASSUME TypeOK, StoryInv, NEW p \in Procs, NEW there, there \notin Writing \ {"prepare", "open", "fail-memory"},
         Goto(p, there), UNCHANGED disk, ReaderKnows(p)',
         \A q \in Procs \ {p} : /\ job'[q] = job[q] /\ read'[q] = read[q] /\ old'[q] = old[q]
                                /\ man'[q] = man[q] /\ res'[q] = res[q]
                                /\ active'[q] = active[q] /\ value'[q] = value[q]
  PROVE  StoryInv'
<1>1. DiskTells'
  BY DEF StoryInv, DiskTells, Told, OnDisk
<1>2. WriterTells(p)'
  <2>1. pc'[p] = there
    BY DEF Goto, TypeOK, LocalsOK
  <2> QED BY <2>1 DEF WriterTells, Writing, Working, StagePlaces, Drafting, Rendering, Announcing, At
<1>3. ASSUME NEW q \in Procs \ {p}
      PROVE  WriterTells(q)' /\ ReaderKnows(q)'
  <2>1. pc'[q] = pc[q]
    BY DEF Goto, TypeOK, LocalsOK
  <2>2. WriterTells(q) /\ ReaderKnows(q)
    BY DEF StoryInv
  <2>3. ReaderKnows(q)'
    BY <2>1, <2>2 DEF ReaderKnows, IsCompare
  <2>4. /\ Untold' = Untold /\ Told' = Told /\ OnDisk' = OnDisk
        /\ Identity(q, active[q])' = Identity(q, active[q])
        /\ Due(q)' = Due(q) /\ Guided(q)' = Guided(q) /\ IsCompare(q)' = IsCompare(q)
    BY <2>1 DEF Untold, Told, OnDisk, Identity, Due, Guided, IsCompare
  <2>5. WriterTells(q)'
    BY <2>1, <2>2, <2>4 DEF WriterTells, At
  <2> QED BY <2>3, <2>5
<1> QED BY <1>1, <1>2, <1>3 DEF StoryInv

LEMMA ExitTells ==
  ASSUME TypeOK, StoryInv, NEW p \in Procs, Exit(p), UNCHANGED disk
  PROVE  StoryInv'
<1>1. /\ pc'[p] = "idle"
      /\ \A q \in Procs \ {p} : /\ job'[q] = job[q] /\ read'[q] = read[q] /\ old'[q] = old[q]
                                /\ man'[q] = man[q] /\ res'[q] = res[q]
                                /\ active'[q] = active[q] /\ value'[q] = value[q]
  BY DEF Exit, Goto, TypeOK, LocalsOK
<1>2. "idle" \notin Writing \cup {"lock"}
  BY ReadingIsNotWriting DEF ReadingPlaces
<1>3. ReaderKnows(p)'
  BY <1>1, <1>2 DEF ReaderKnows, Writing
<1> QED BY <1>1, <1>2, <1>3, OnlyReads DEF Exit

-----------------------------------------------------------------------------
(***************************************************************************)
(* What a writer must show for the place that it goes to.                  *)
(***************************************************************************)
LEMMA Drafts ==
  ASSUME TypeOK, NEW p \in Procs, NEW there \in Drafting \ Announcing, Goto(p, there),
         NEW m, NEW x, NEW a, man'[p] = m, res'[p] = x, active'[p] = a, UNCHANGED <<job, old>>,
         old[p] # Absent => RowsOK(old[p]),
         Sound(m), Drawn(m, x, job[p]), Lying(m, disk'),
         Ahead(m, x, IF there \in {"export", "persist-export", "save-guidance"} THEN "screening" ELSE a),
         a # "preparation" => m.artifacts["guidance.json"] = GuidanceFile(job[p].guidance),
         Untold',
         there \in {"run-stage", "commit-stage"} => m.stages[a].in = Identity(p, active[p])',
         there = "commit-stage" => MadeFrom(a, value'[p], Identity(p, active[p])'),
         there = "save-proposals" =>
           IsCompare(p) /\ a = "synthesis" /\ x.features = job[p].saved.features
  PROVE  WriterTells(p)'
<1>1. pc'[p] = there
  BY DEF Goto, TypeOK, LocalsOK
<1>2. ManifestOK(m)
  BY SoundUnlisted DEF Ahead
<1>3. Due(p)' = IF there \in {"export", "persist-export", "save-guidance"} THEN "screening" ELSE a
  BY <1>1 DEF Due
<1>4. Guided(p)' <=> m.artifacts["guidance.json"] = GuidanceFile(job[p].guidance)
  BY DEF Guided
<1>5. there \notin Rendering \cup {"save-result", "fail-manifest", "fail-markdown", "fail-html"}
  BY DEF Drafting, Working, StagePlaces, Rendering
<1> QED BY <1>1, <1>2, <1>3, <1>4, <1>5
        DEF WriterTells, Drafting, Rendering, At, IsCompare

LEMMA Concludes ==
  ASSUME TypeOK, NEW p \in Procs, Goto(p, "save-result"),
         NEW m, NEW x, man'[p] = m, res'[p] = x, UNCHANGED <<job, old>>,
         old[p] # Absent => RowsOK(old[p]),
         Sound(m), m.artifacts["memory.json"] = Absent, Drawn(m, x, job[p]), Lying(m, disk'),
         Agrees(m, x), x.failing # "rendering", Untold'
  PROVE  WriterTells(p)'
<1>1. pc'[p] = "save-result"
  BY DEF Goto, TypeOK, LocalsOK
<1>2. ManifestOK(m)
  BY SoundUnlisted
<1>3. "save-result" \notin Drafting \cup Announcing \cup Rendering
  BY DEF Drafting, Announcing, Rendering
<1> QED BY <1>1, <1>2, <1>3 DEF WriterTells, At, StagePlaces

\* What a draft and its manifest become when the run is finished or blocked.
LEMMA Finishes ==
  ASSUME NEW m, NEW x \in Results, NEW j, Drawn(m, x, j), j.run # 0,
         x.assessments # Absent => m.artifacts["guidance.json"] = GuidanceFile(j.guidance),
         x.status \in {"complete", "preprocessed"}, \A s \in DOMAIN ArtifactOf : Settled(m, s)
  PROVE  Agrees(m, x)
BY DEF Agrees, Drawn, FinishedResults

LEMMA Fails ==
  ASSUME NEW m, NEW x \in Results, NEW j, Drawn(m, x, j), j.run # 0,
         x.assessments = Absent,
         x.status = "blocked", x.failing \in STAGES, m.stages[x.failing].status = "blocked"
  PROVE  Agrees(m, x)
BY DEF Agrees, Drawn, FinishedResults

-----------------------------------------------------------------------------
(***************************************************************************)
(* The steps, one lemma for each group.                                    *)
(***************************************************************************)
LEMMA RunNumber ==
  ASSUME TypeOK, RunsInv, NEW p \in Procs, pc[p] # "idle"
  PROVE  job[p].run # 0
<1>1. job[p].run \in 1..runs /\ runs \in Nat
  BY BoundsAssumption DEF RunsInv, TypeOK, HistoryOK, Runs
<1> QED BY <1>1

LEMMA StartTells ==
  ASSUME TypeOK, StoryInv, NEW p \in Procs, Start(p)
  PROVE  StoryInv'
<1>1. PICK kind \in Kinds, g \in AnyGuidance : Begin(p, kind, g)
  BY DEF Start, AnyGuidance
<1>2. PICK there \in {"read-manifest", "prepare"} :
        Goto(p, there) /\ (there = "prepare" => kind # "compare")
  BY <1>1 DEF Begin
<1>3. UNCHANGED <<disk, old, man, res, active, value, read>>
  BY <1>1 DEF Begin
<1>4. job' = [job EXCEPT ![p] = NewJob(kind, runs + 1, g)]
  BY <1>1 DEF Begin
<1>5. pc'[p] = there /\ job'[p].kind = kind /\ \A q \in Procs \ {p} : job'[q] = job[q]
  BY <1>2, <1>4 DEF Goto, NewJob, TypeOK, LocalsOK
<1>6. "read-manifest" \notin Writing \cup {"lock"}
  BY ReadingIsNotWriting DEF ReadingPlaces
<1>7. ReaderKnows(p)'
  BY <1>2, <1>5, <1>6 DEF ReaderKnows, IsCompare, Writing, Working, StagePlaces
<1> QED BY <1>2, <1>3, <1>5, <1>6, <1>7, OnlyReads

LEMMA LockForCompareTells ==
  ASSUME TypeOK, RunsInv, StoryInv, NEW p \in Procs, LockForCompare(p)
  PROVE  StoryInv'
<1>1. UNCHANGED disk
  BY DEF LockForCompare
<1>2. CASE Exit(p)
  BY <1>1, <1>2, ExitTells
<1>3. CASE Goto(p, "prepare") /\ UNCHANGED local
  <2>1. pc'[p] = "prepare" /\ pc[p] = "lock" /\ IsCompare(p)
    BY <1>3 DEF LockForCompare, RunsInv, At, Goto, TypeOK, LocalsOK
  <2>2. ReaderKnows(p)
    BY DEF StoryInv
  <2>3. UNCHANGED <<job, old, man, res, active, value, read>>
    BY <1>3 DEF local
  <2>4. ReaderKnows(p)'
    BY <2>1, <2>2, <2>3 DEF ReaderKnows, IsCompare, Writing, Working, StagePlaces
  <2> QED BY <1>1, <1>3, <2>3, <2>4, OnlyReads
<1> QED BY <1>2, <1>3 DEF LockForCompare

LEMMA PrepareInputsTells ==
  ASSUME TypeOK, StoryInv, NEW p \in Procs, PrepareInputs(p)
  PROVE  StoryInv'
<1>1. /\ pc[p] = "prepare" /\ UNCHANGED <<disk, old, man, res, active, value, read>>
      /\ \E there \in {"open", "fail-memory"} : Goto(p, there)
  BY DEF PrepareInputs, At
<1>2. ReaderKnows(p) /\ "prepare" \in Writing
  BY DEF StoryInv, Writing
<1>3. pc'[p] \in {"open", "fail-memory"} /\ job \in [Procs -> Jobs] /\ job[p] \in Jobs
  BY <1>1 DEF Goto, TypeOK, LocalsOK
<1>4. CASE UNCHANGED job /\ (Goto(p, "fail-memory") \/ IsCompare(p))
  <2>1. pc'[p] = "fail-memory" \/ IsCompare(p)
    BY <1>4 DEF Goto, TypeOK, LocalsOK
  <2>2. ReaderKnows(p)'
    BY <1>1, <1>2, <1>3, <1>4, <2>1 DEF ReaderKnows, IsCompare, Writing, Working, StagePlaces
  <2> QED BY <1>1, <1>4, <2>2, OnlyReads
<1>5. CASE ~IsCompare(p) /\ \E s \in Sources : job' = [job EXCEPT ![p].evidence = Evidence(s)]
  <2>1. PICK s \in Sources : job' = [job EXCEPT ![p].evidence = Evidence(s)]
    BY <1>5
  <2>2. job'[p].evidence = Evidence(s) /\ job'[p].kind = job[p].kind
    BY <1>3, <2>1 DEF Jobs
  <2>3. ~IsCompare(p)' /\ job'[p].evidence \notin Damaged
    BY <1>5, <2>2, Whole DEF IsCompare
  <2>4. ReaderKnows(p)'
    BY <1>3, <2>3 DEF ReaderKnows
  <2>5. \A q \in Procs \ {p} : job'[q] = job[q]
    BY <1>3, <2>1
  <2> QED BY <1>1, <2>4, <2>5, OnlyReads
<1> QED BY <1>1, <1>4, <1>5 DEF PrepareInputs

LEMMA OpenManifestTells ==
  ASSUME TypeOK, OneWriter, StoryInv, NEW p \in Procs, OpenManifest(p)
  PROVE  StoryInv'
<1>1. pc[p] = "open" /\ pc[p] \in Writing /\ UNCHANGED <<disk, job, value, read>>
  BY DEF OpenManifest, At, Writing
<1>2. ReaderKnows(p) /\ DiskTells
  BY DEF StoryInv
<1>3. CASE Goto(p, "fail-memory") /\ UNCHANGED <<old, man, res, active>>
  <2>1. pc'[p] = "fail-memory"
    BY <1>3 DEF Goto, TypeOK, LocalsOK
  <2>2. ReaderKnows(p)'
    BY <1>1, <1>2, <2>1 DEF ReaderKnows, IsCompare, Writing, Working, StagePlaces
  <2> QED BY <1>1, <1>3, <2>2, OnlyReads
<1>4. CASE /\ disk["manifest.json"] # Corrupt
           /\ old' = [old EXCEPT ![p] = disk["manifest.json"]]
           /\ man' = [man EXCEPT ![p] = FreshManifest(job[p].run)]
           /\ res' = [res EXCEPT ![p] = FreshResult(job[p].run, job[p].evidence)]
           /\ active' = [active EXCEPT ![p] = "preparation"]
           /\ Goto(p, "announce-memory")
  <2> DEFINE m == FreshManifest(job[p].run)
             x == FreshResult(job[p].run, job[p].evidence)
  <2>1. /\ man'[p] = m /\ res'[p] = x /\ active'[p] = "preparation" /\ old'[p] = OnDisk
        /\ pc'[p] = "announce-memory"
    BY <1>4 DEF Goto, TypeOK, LocalsOK, OnDisk
  <2>2. /\ Sound(m) /\ Drawn(m, x, job[p]) /\ Lying(m, disk) /\ Ahead(m, x, "preparation")
        /\ m.artifacts["memory.json"] = Absent
    BY FreshTells
  <2> HIDE DEF m, x
  <2>3. OnDisk # Absent => RowsOK(OnDisk)
    BY <1>2, <1>4 DEF DiskTells, ManifestOK, Sound, OnDisk, Damaged
  <2>4. ManifestOK(m) /\ Due(p)' = "preparation"
    BY <2>1, <2>2, SoundUnlisted DEF Due
  <2>5. WriterTells(p)'
    BY <1>1, <2>1, <2>2, <2>3, <2>4
       DEF WriterTells, Announcing, Rendering, StagePlaces, At
  <2>6. DiskTells'
    BY <1>1, <1>2 DEF DiskTells, Told, OnDisk
  <2>7. "announce-memory" \in Writing
    BY DEF Writing, Working
  <2> QED BY <1>1, <1>4, <2>5, <2>6, <2>7, WriterStays
<1> QED BY <1>3, <1>4 DEF OpenManifest

LEMMA PreparationFailedTells ==
  ASSUME TypeOK, OneWriter, StoryInv, NEW p \in Procs, PreparationFailed(p)
  PROVE  StoryInv'
<1>1. pc[p] \in Writing /\ DiskTells /\ WriterTells(p)
  BY DEF PreparationFailed, FailMemory, FailManifest, FailMarkdown, FailHtml, SaveStep, At, Writing,
         StoryInv
<1>2. {"fail-manifest", "fail-markdown", "fail-html"} \subseteq Writing \ (Working \cup {"open"})
  BY DEF Writing, Working, StagePlaces
<1>3. Untold => ~Told
  BY DEF Untold, Told, Damaged
<1>4. CASE FailMemory(p)
  <2>1. Save("memory.json", FailedResult) /\ Goto(p, "fail-manifest") /\ UNCHANGED <<job, read>>
    BY <1>4 DEF FailMemory, SaveStep, local
  <2>2. FailedResult \notin FinishedResults /\ FailedResult # Absent
    BY Whole DEF FailedResult, FreshResult, FinishedResults, Damaged
  <2>3. DiskTells'
    BY <1>1, <2>1, <2>2, Unlisted, MemoryWritten
  <2>4. pc'[p] = "fail-manifest"
    BY <2>1 DEF Goto, TypeOK, LocalsOK
  <2>5. WriterTells(p)'
    BY <2>4 DEF WriterTells, Working, StagePlaces, Drafting, Rendering, Announcing, At
  <2> QED BY <1>1, <1>2, <2>1, <2>3, <2>5, WriterStays
<1>5. CASE FailManifest(p)
  <2>1. Save("manifest.json", FailedManifest) /\ Goto(p, "fail-markdown") /\ UNCHANGED <<job, read>>
    BY <1>5 DEF FailManifest, SaveStep, local
  <2>2. DiskTells' /\ Untold'
    BY <2>1, FailedTells, ManifestWritten
  <2>3. pc'[p] = "fail-markdown"
    BY <2>1 DEF Goto, TypeOK, LocalsOK
  <2>4. WriterTells(p)'
    BY <2>2, <2>3 DEF WriterTells, Working, StagePlaces, Drafting, Rendering, Announcing, At
  <2> QED BY <1>1, <1>2, <2>1, <2>2, <2>4, WriterStays
<1>6. CASE FailMarkdown(p)
  <2>1. Save("report.md", Report(FailedResult)) /\ Goto(p, "fail-html") /\ UNCHANGED <<job, read>>
        /\ Untold
    BY <1>1, <1>6 DEF FailMarkdown, SaveStep, local, WriterTells, At
  <2>2. DiskTells' /\ Untold'
    BY <1>1, <1>3, <2>1, ReportWritten DEF Reports
  <2>3. pc'[p] = "fail-html"
    BY <2>1 DEF Goto, TypeOK, LocalsOK
  <2>4. WriterTells(p)'
    BY <2>2, <2>3 DEF WriterTells, Working, StagePlaces, Drafting, Rendering, Announcing, At
  <2> QED BY <1>1, <1>2, <2>1, <2>2, <2>4, WriterStays
<1>7. CASE FailHtml(p)
  <2>1. Save("report.html", Report(FailedResult)) /\ Exit(p) /\ Untold
    BY <1>1, <1>7 DEF FailHtml, WriterTells, At
  <2>2. DiskTells'
    BY <1>1, <1>3, <2>1, ReportWritten DEF Reports
  <2>3. Goto(p, "idle") /\ \A q \in Procs \ {p} : job'[q] = job[q] /\ read'[q] = read[q]
    BY <2>1 DEF Exit, TypeOK, LocalsOK
  <2> QED BY <1>1, <2>2, <2>3, WriterLeaves
<1> QED BY <1>4, <1>5, <1>6, <1>7 DEF PreparationFailed

LEMMA AnnounceTells ==
  ASSUME TypeOK, OneWriter, StoryInv, NEW p \in Procs, Announce(p)
  PROVE  StoryInv'
<1>1. pc[p] \in Announcing
  BY DEF Announce, AnnounceMemory, AnnounceMarkdown, AnnounceHtml, AnnounceManifest, SaveStep,
         At, Announcing
<1>2. pc[p] \in Drafting /\ pc[p] \in Working /\ pc[p] \in Writing
  BY <1>1 DEF Announcing, Drafting, Rendering, Working, StagePlaces, Writing
<1>3. UNCHANGED <<job, read, man, res, active, old, value>>
  BY DEF Announce, AnnounceMemory, AnnounceMarkdown, AnnounceHtml, AnnounceManifest, SaveStep, local
<1>4. /\ DiskTells /\ WriterTells(p)
      /\ ManifestOK(man[p]) /\ Drawn(man[p], res[p], job[p]) /\ Lying(man[p], disk)
      /\ old[p] # Absent => RowsOK(old[p])
      /\ Ahead(man[p], res[p], Due(p)) /\ active[p] = "preparation"
  BY <1>1, <1>2 DEF StoryInv, WriterTells
<1>5. Due(p) = "preparation"
  BY <1>1, <1>4 DEF Due, Announcing
<1>6. /\ res[p] \notin FinishedResults /\ res[p] \notin Damaged
      /\ man[p].artifacts["memory.json"] = Absent /\ Sound(man[p])
  BY <1>2, <1>4, AtWork, Whole DEF Ahead, FinishedResults, ManifestOK
<1>7. DOMAIN disk = Files
  BY DEF TypeOK, DiskOK
<1>8. ~Told \/ ~Lies(disk, "memory.json", res[p])
  BY <1>4, <1>6, Unlisted DEF Told, Lies, Damaged
\* The next file of the announcement.
<1>9. ASSUME NEW there \in Announcing \ {"announce-memory"}, Goto(p, there), DiskTells',
             NEW f \in {"memory.json", "report.md", "report.html"}, NEW c, Save(f, c),
             Lies(disk', "memory.json", res[p])
      PROVE  StoryInv'
  <2>1. pc'[p] = there /\ there \in Writing
    BY <1>9 DEF Goto, TypeOK, LocalsOK, Announcing, Writing, Working
  <2>2. Lying(man[p], disk')
    BY <1>4, <1>6, <1>7, <1>9, LyingWritten DEF Save, Artifacts
  <2>3. Due(p)' = "preparation"
    BY <1>3, <1>4, <2>1 DEF Due, Announcing
  <2>4. there \notin StagePlaces \cup Rendering \cup {"fail-manifest", "fail-markdown", "fail-html"}
    BY DEF Announcing, StagePlaces, Rendering
  <2>5. WriterTells(p)'
    BY <1>3, <1>4, <1>5, <1>9, <2>1, <2>2, <2>3, <2>4
       DEF WriterTells, At, StagePlaces, Rendering
  <2> QED BY <1>2, <1>3, <1>9, <2>1, <2>5, WriterStays
<1>10. CASE AnnounceMemory(p)
  <2>1. Save("memory.json", res[p]) /\ Goto(p, "announce-markdown")
    BY <1>10 DEF AnnounceMemory, SaveStep
  <2>2. DiskTells' /\ disk'["memory.json"] = res[p]
    BY <1>4, <1>6, <2>1, Unlisted, MemoryWritten DEF Damaged
  <2> QED BY <1>9, <2>1, <2>2 DEF Announcing, Lies
<1>11. CASE AnnounceMarkdown(p) \/ AnnounceHtml(p)
  <2>1. PICK f \in Reports, there \in {"announce-html", "announce-manifest"} :
          Save(f, Running) /\ Goto(p, there)
    BY <1>11 DEF AnnounceMarkdown, AnnounceHtml, SaveStep, Reports
  <2>2. Lies(disk, "memory.json", res[p])
    BY <1>4, <1>11 DEF WriterTells, Announcing, AnnounceMarkdown, AnnounceHtml, SaveStep, At
  <2>3. DiskTells' /\ disk'["memory.json"] = disk["memory.json"]
    BY <1>4, <1>8, <2>1, <2>2, ReportWritten
  <2> QED BY <1>9, <2>1, <2>2, <2>3 DEF Announcing, Lies, Reports
<1>12. CASE AnnounceManifest(p)
  <2>1. Save("manifest.json", man[p]) /\ Goto(p, "begin-stage")
    BY <1>12 DEF AnnounceManifest, SaveStep
  <2>2. DiskTells' /\ Untold'
    BY <1>4, <1>6, <2>1, ManifestWritten
  <2>3. Lying(man[p], disk')
    BY <1>4, <1>7, <2>1, LyingWritten DEF Save, Artifacts
  <2>4. "begin-stage" \in Drafting \ Announcing /\ "begin-stage" \in Writing
    BY DEF Drafting, Announcing, Working, StagePlaces, Rendering, Writing
  <2>5. WriterTells(p)'
    BY <1>3, <1>4, <1>5, <1>6, <2>1, <2>2, <2>3, <2>4, Drafts
  <2> QED BY <1>2, <1>3, <2>1, <2>2, <2>4, <2>5, WriterStays
<1> QED BY <1>10, <1>11, <1>12 DEF Announce

\* What a writer between its announcement and its result knows.
LEMMA AtDraft ==
  ASSUME TypeOK, RunsInv, StoryInv, NEW p \in Procs, pc[p] \in Drafting \ Announcing
  PROVE  /\ pc[p] \in Working /\ pc[p] \in Writing /\ job[p].run # 0
         /\ man[p] \in Manifests /\ res[p] \in Results /\ active[p] \in DOMAIN ArtifactOf
         /\ DiskTells /\ Untold /\ DOMAIN disk = Files
         /\ Sound(man[p]) /\ Drawn(man[p], res[p], job[p]) /\ Lying(man[p], disk)
         /\ old[p] # Absent => RowsOK(old[p])
         /\ Ahead(man[p], res[p], Due(p)) /\ man[p].artifacts["memory.json"] = Absent
         /\ active[p] # "preparation" =>
              man[p].artifacts["guidance.json"] = GuidanceFile(job[p].guidance)
         /\ job[p].evidence \notin Damaged
<1>1. pc[p] \in Working /\ pc[p] \in Writing /\ pc[p] \in StagePlaces /\ pc[p] # "idle"
  BY DEF Drafting, Announcing, Rendering, Working, StagePlaces, Writing
<1>2. WriterTells(p) /\ ReaderKnows(p) /\ DiskTells
  BY DEF StoryInv
<1>3. /\ ManifestOK(man[p]) /\ Drawn(man[p], res[p], job[p]) /\ Lying(man[p], disk)
      /\ old[p] # Absent => RowsOK(old[p])
      /\ Ahead(man[p], res[p], Due(p)) /\ Untold
      /\ active[p] # "preparation" => Guided(p)
  BY <1>1, <1>2 DEF WriterTells
<1>4. Sound(man[p]) /\ man[p].artifacts["memory.json"] = Absent
  BY <1>3 DEF ManifestOK, Ahead
<1>5. job[p].evidence \notin Damaged
  BY <1>1, <1>2 DEF ReaderKnows
<1>6. DOMAIN disk = Files
  BY DEF TypeOK, DiskOK
<1> QED BY <1>1, <1>2, <1>3, <1>4, <1>5, <1>6, AtWork, RunNumber DEF Guided

LEMMA IdentityKept ==
  ASSUME NEW p \in Procs, job'[p] = job[p], res'[p] = res[p], active'[p] = active[p]
  PROVE  Identity(p, active[p])' = Identity(p, active[p])
BY DEF Identity

\* A result takes over what a stage put out; nothing else of it changes.
LEMMA BlockedFacts ==
  ASSUME NEW x \in Results, NEW s \in STAGES
  PROVE  /\ Blocked(x, s) \in Results
         /\ Blocked(x, s).status = "blocked" /\ Blocked(x, s).failing = s
         /\ Blocked(x, s).assessments = x.assessments
         /\ \A m, j : Drawn(m, x, j) => Drawn(m, Blocked(x, s), j)
<1> DEFINE y == Blocked(x, s)
<1>1. /\ y.run = x.run /\ y.evidence = x.evidence /\ y.hooks = x.hooks
      /\ y.features = x.features /\ y.candidates = x.candidates /\ y.assessments = x.assessments
      /\ y.status = "blocked" /\ y.failing = s
  BY DEF Blocked, Results
<1>2. y \in Results
  BY BlockedType
<1> QED BY <1>1, <1>2 DEF Drawn, Derived

LEMMA FeaturesTaken ==
  ASSUME NEW x \in Results, NEW v \in Features, NEW y, y = [x EXCEPT !.features = v],
         NEW m, NEW j, Drawn(m, x, j), x.candidates = Absent, x.assessments = Absent,
         v # Absent => MadeFrom("screening", v, x.evidence)
  PROVE  /\ y \in Results /\ Drawn(m, y, j)
         /\ y.features = v /\ y.status = x.status /\ y.failing = x.failing
         /\ y.candidates = Absent /\ y.assessments = Absent
<1>1. /\ y.run = x.run /\ y.evidence = x.evidence /\ y.hooks = x.hooks
      /\ y.status = x.status /\ y.failing = x.failing
      /\ y.features = v /\ y.candidates = x.candidates /\ y.assessments = x.assessments
  BY DEF Results
<1>2. y \in Results
  BY DEF Results
<1> QED BY <1>1, <1>2 DEF Drawn, Derived

\* What TakeProposals and CommitStage make of a result.
WithCandidates(x, v, st) == [x EXCEPT !.candidates = v, !.status = st]
WithAssessments(x, v) == [x EXCEPT !.assessments = v, !.status = "complete"]

LEMMA CandidatesTaken ==
  ASSUME NEW x \in Results, NEW v \in Candidates, NEW st \in Statuses,
         NEW y, y = WithCandidates(x, v, st), NEW m, NEW j, Drawn(m, x, j), x.assessments = Absent,
         v # Absent => MadeFrom("synthesis", v, [evidence |-> x.evidence, features |-> x.features])
  PROVE  /\ y \in Results /\ Drawn(m, y, j) /\ y.status = st /\ y.assessments = Absent
         /\ y.failing = x.failing
<1>1. /\ y.run = x.run /\ y.evidence = x.evidence /\ y.hooks = x.hooks /\ y.status = st
      /\ y.features = x.features /\ y.candidates = v /\ y.assessments = x.assessments
      /\ y.failing = x.failing
  BY DEF Results, WithCandidates
<1>2. y \in Results
  BY DEF Results, WithCandidates
<1> QED BY <1>1, <1>2 DEF Drawn, Derived

LEMMA AssessmentsTaken ==
  ASSUME NEW x \in Results, NEW v \in Assessments, NEW y, y = WithAssessments(x, v), NEW m, NEW j, Drawn(m, x, j),
         MadeFrom("comparison", v, [candidates |-> x.candidates, guidance |-> j.guidance])
  PROVE  y \in Results /\ Drawn(m, y, j) /\ y.status = "complete" /\ y.failing = x.failing
<1>1. /\ y.run = x.run /\ y.evidence = x.evidence /\ y.hooks = x.hooks /\ y.status = "complete"
      /\ y.features = x.features /\ y.candidates = x.candidates /\ y.assessments = v
      /\ y.failing = x.failing
  BY DEF Results, WithAssessments
<1>2. y \in Results
  BY DEF Results, Statuses, WithAssessments
<1>3. v \notin Damaged /\ v.in.candidates = x.candidates /\ v.in.guidance = j.guidance
  BY DEF MadeFrom
<1> QED BY <1>1, <1>2, <1>3 DEF Drawn, Derived

LEMMA BlockTells ==
  ASSUME TypeOK, OneWriter, RunsInv, StoryInv, NEW p \in Procs, pc[p] \in Drafting \ Announcing,
         Block(p), UNCHANGED <<disk, job, old, active, value, read>>
  PROVE  StoryInv'
<1> DEFINE s == active[p]
           x == Blocked(res[p], s)
           m == WithStatus(man[p], s, "blocked")
<1>1. /\ pc[p] \in Working /\ pc[p] \in Writing /\ job[p].run # 0
      /\ man[p] \in Manifests /\ res[p] \in Results /\ s \in DOMAIN ArtifactOf
      /\ DiskTells /\ Untold
      /\ Sound(man[p]) /\ Drawn(man[p], res[p], job[p]) /\ Lying(man[p], disk)
      /\ old[p] # Absent => RowsOK(old[p])
      /\ Ahead(man[p], res[p], Due(p)) /\ man[p].artifacts["memory.json"] = Absent
  BY AtDraft
<1>2. s \in STAGES /\ s # "rendering"
  BY <1>1, ArtifactFacts
<1>3. /\ m \in Manifests /\ SameFiles(man[p], m)
      /\ m.stages[s].status = "blocked"
      /\ \A t \in STAGES \ {s} : m.stages[t] = man[p].stages[t]
  BY <1>1, <1>2, WithStatusFacts
<1>4. /\ x \in Results /\ x.status = "blocked" /\ x.failing = s
      /\ x.assessments = Absent /\ Drawn(man[p], x, job[p])
  BY <1>1, <1>2, BlockedFacts DEF Ahead
<1>5. man'[p] = m /\ res'[p] = x /\ Goto(p, "save-result")
  BY DEF Block, TypeOK, LocalsOK
<1> HIDE DEF m, x
<1>6. RowsOK(m)
  BY <1>1, <1>3, ArtifactFacts, RowsRevised DEF Sound
<1>7. Sound(m) /\ Drawn(m, x, job[p]) /\ Lying(m, disk) /\ m.artifacts["memory.json"] = Absent
  BY <1>1, <1>3, <1>4, <1>6, SoundRevised, DrawnRevised, LyingRevised DEF SameFiles
<1>8. Agrees(m, x)
  BY <1>1, <1>2, <1>3, <1>4, <1>7, Fails
<1>9. DiskTells' /\ Untold'
  BY <1>1 DEF DiskTells, Told, Untold, OnDisk
<1>10. WriterTells(p)'
  BY <1>1, <1>2, <1>4, <1>5, <1>7, <1>8, <1>9, Concludes
<1>11. "save-result" \in Writing
  BY DEF Writing, Working, StagePlaces
<1> QED BY <1>1, <1>5, <1>9, <1>10, <1>11, WriterStays

LEMMA BeginStageTells ==
  ASSUME TypeOK, OneWriter, RunsInv, StoryInv, NEW p \in Procs, BeginStage(p)
  PROVE  StoryInv'
<1> DEFINE s == active[p]
           m == Declared(man[p], s, Identity(p, s))
<1>1. pc[p] = "begin-stage" /\ pc[p] \in Drafting \ Announcing
  BY DEF BeginStage, At, Drafting, Announcing, Rendering, Working, StagePlaces
<1>2. /\ pc[p] \in Working /\ pc[p] \in Writing /\ DOMAIN disk = Files
      /\ man[p] \in Manifests /\ s \in DOMAIN ArtifactOf
      /\ Sound(man[p]) /\ Drawn(man[p], res[p], job[p]) /\ Lying(man[p], disk)
      /\ old[p] # Absent => RowsOK(old[p])
      /\ Ahead(man[p], res[p], Due(p)) /\ man[p].artifacts["memory.json"] = Absent
      /\ active[p] # "preparation" =>
           man[p].artifacts["guidance.json"] = GuidanceFile(job[p].guidance)
  BY <1>1, AtDraft
<1>3. s \in STAGES /\ Due(p) = s
  BY <1>1, <1>2, ArtifactFacts DEF Due
<1>4. /\ m \in Manifests /\ SameFiles(man[p], m)
      /\ m.stages[s].status = "running" /\ m.stages[s].in = Identity(p, s)
      /\ \A t \in STAGES \ {s} : m.stages[t] = man[p].stages[t]
  BY <1>2, <1>3, IdentityType, DeclaredFacts
<1>5. /\ man'[p] = m /\ res'[p] = res[p] /\ active'[p] = s
      /\ Save("manifest.json", m) /\ Goto(p, "run-stage")
      /\ UNCHANGED <<job, old, read>>
  BY DEF BeginStage, TypeOK, LocalsOK
<1> HIDE DEF m
<1>6. RowsOK(m)
  BY <1>2, <1>4, ArtifactFacts, RowsRevised DEF Sound
<1>7. Sound(m) /\ Drawn(m, res[p], job[p]) /\ Lying(m, disk)
  BY <1>2, <1>4, <1>6, SoundRevised, DrawnRevised, LyingRevised
<1>8. \A t \in DOMAIN ArtifactOf : Number[t] < Number[s] => t # s
  BY DEF Number, ArtifactOf
<1>9. Ahead(m, res[p], s) /\ m.artifacts["memory.json"] = Absent
  BY <1>2, <1>3, <1>4, <1>8, ArtifactFacts, AheadRevised DEF SameFiles
<1>10. DiskTells' /\ Untold'
  BY <1>5, <1>7, <1>9, SoundUnlisted, ManifestWritten
<1>11. Lying(m, disk')
  BY <1>2, <1>5, <1>7, LyingWritten DEF Save, Artifacts
<1>12. Identity(p, active[p])' = Identity(p, s)
  BY <1>5, IdentityKept
<1>13. "run-stage" \in Drafting \ Announcing /\ "run-stage" \in Writing
  BY DEF Drafting, Announcing, Rendering, Working, StagePlaces, Writing
<1>14. WriterTells(p)'
  BY <1>2, <1>4, <1>5, <1>7, <1>9, <1>10, <1>11, <1>12, <1>13, Drafts DEF SameFiles
<1> QED BY <1>2, <1>5, <1>10, <1>13, <1>14, WriterStays

\* A stage's output is at hand and on disk.
LEMMA OutputTells ==
  ASSUME TypeOK, OneWriter, RunsInv, StoryInv, NEW p \in Procs, At(p, "run-stage"),
         NEW v, value'[p] = v, MadeFrom(active[p], v, Identity(p, active[p])),
         Goto(p, "commit-stage"), UNCHANGED <<man, res, job, old, active, read>>,
         DiskTells', Untold', Lying(man[p], disk')
  PROVE  StoryInv'
<1>1. pc[p] = "run-stage" /\ pc[p] \in Drafting \ Announcing
  BY DEF At, Drafting, Announcing, Rendering, Working, StagePlaces
<1>2. /\ pc[p] \in Working /\ pc[p] \in Writing
      /\ Sound(man[p]) /\ Drawn(man[p], res[p], job[p])
      /\ old[p] # Absent => RowsOK(old[p])
      /\ Ahead(man[p], res[p], Due(p))
      /\ active[p] # "preparation" =>
           man[p].artifacts["guidance.json"] = GuidanceFile(job[p].guidance)
  BY <1>1, AtDraft
<1>3. Due(p) = active[p] /\ man[p].stages[active[p]].in = Identity(p, active[p])
  BY <1>1 DEF Due, StoryInv, WriterTells
<1>4. Identity(p, active[p])' = Identity(p, active[p])
  BY IdentityKept
<1>5. "commit-stage" \in Drafting \ Announcing /\ "commit-stage" \in Writing
  BY DEF Drafting, Announcing, Rendering, Working, StagePlaces, Writing
<1>6. WriterTells(p)'
  BY <1>2, <1>3, <1>4, <1>5, Drafts
<1> QED BY <1>2, <1>5, <1>6, WriterStays

LEMMA ResumeStageTells ==
  ASSUME TypeOK, OneWriter, RunsInv, StoryInv, NEW p \in Procs, ResumeStage(p)
  PROVE  StoryInv'
<1> DEFINE s == active[p]
<1>1. /\ At(p, "run-stage") /\ pc[p] \in Drafting \ Announcing
      /\ UNCHANGED <<disk, job, old, active, read>>
  BY DEF ResumeStage, At, Drafting, Announcing, Rendering, Working, StagePlaces
<1>2. CASE Block(p) /\ UNCHANGED value
  BY <1>1, <1>2, BlockTells
<1>3. CASE /\ disk[ArtifactOf[s]] = old[p].stages[s].out
           /\ value' = [value EXCEPT ![p] = disk[ArtifactOf[s]]]
           /\ Goto(p, "commit-stage")
           /\ UNCHANGED <<man, res>>
  <2>1. /\ DiskTells /\ Untold /\ Lying(man[p], disk)
        /\ s \in DOMAIN ArtifactOf
        /\ old[p] # Absent => RowsOK(old[p])
    BY <1>1, AtDraft
  <2>2. MadeFrom(s, old[p].stages[s].out, Identity(p, s))
    BY <2>1 DEF ResumeStage, Resumable, RowsOK
  <2>3. value'[p] = old[p].stages[s].out
    BY <1>3 DEF TypeOK, LocalsOK
  <2>4. DiskTells' /\ Untold' /\ Lying(man[p], disk')
    BY <1>1, <2>1 DEF DiskTells, Told, Untold, OnDisk
  <2> QED BY <1>1, <1>3, <2>2, <2>3, <2>4, OutputTells
<1> QED BY <1>2, <1>3 DEF ResumeStage

LEMMA ExecuteStageTells ==
  ASSUME TypeOK, OneWriter, RunsInv, StoryInv, NEW p \in Procs, ExecuteStage(p)
  PROVE  StoryInv'
<1> DEFINE s == active[p]
           v == IF s = "preparation" THEN job[p].evidence
                ELSE Output(s, Identity(p, s), job[p].run)
<1>1. /\ At(p, "run-stage") /\ pc[p] \in Drafting \ Announcing
      /\ UNCHANGED <<job, old, active, read>>
  BY DEF ExecuteStage, At, Drafting, Announcing, Rendering, Working, StagePlaces
<1>2. CASE Block(p) /\ UNCHANGED <<disk, value>>
  BY <1>1, <1>2, BlockTells
<1>3. CASE /\ Save(ArtifactOf[s], v)
           /\ value' = [value EXCEPT ![p] = v]
           /\ Goto(p, "commit-stage")
           /\ UNCHANGED <<man, res>>
  <2>1. /\ DiskTells /\ Untold /\ Lying(man[p], disk) /\ DOMAIN disk = Files
        /\ s \in DOMAIN ArtifactOf /\ Ahead(man[p], res[p], Due(p))
        /\ job[p].evidence \notin Damaged
    BY <1>1, AtDraft
  <2>2. MadeFrom(s, v, Identity(p, s))
    <3>1. CASE s = "preparation"
      BY <2>1, <3>1 DEF MadeFrom, Identity
    <3>2. CASE s # "preparation"
      <4>1. Output(s, Identity(p, s), job[p].run).in = Identity(p, s)
        BY DEF Output
      <4> QED BY <2>1, <3>2, <4>1, ArtifactFacts, Whole DEF MadeFrom
    <3> QED BY <3>1, <3>2
  <2> HIDE DEF v
  <2>3. value'[p] = v
    BY <1>3 DEF TypeOK, LocalsOK
  <2>4. Due(p) = s
    BY <1>1 DEF Due, At
  <2>5. man[p].artifacts[ArtifactOf[s]] = Absent
    BY <2>1, <2>4 DEF Ahead, Number, ArtifactOf
  <2>6. ArtifactOf[s] \in Files \ (Reports \cup {"manifest.json", "memory.json", "datasets"})
    BY <2>1, ArtifactFacts DEF Files, Artifacts, Reports
  <2>7. DiskTells' /\ Untold'
    BY <1>3, <2>1, <2>6, OtherWritten
  <2>8. Lying(man[p], disk')
    BY <1>3, <2>1, <2>5, <2>6, LyingWritten DEF Save
  <2> QED BY <1>1, <1>3, <2>2, <2>3, <2>7, <2>8, OutputTells
<1> QED BY <1>2, <1>3 DEF ExecuteStage

\* With the proposals at hand the run goes on to compare them, or is complete.
LEMMA TakeProposalsTells ==
  ASSUME TypeOK, RunsInv, NEW p \in Procs, pc[p] \in Drafting \ Announcing,
         NEW m \in Manifests, NEW v \in Candidates, TakeProposals(p, m, v),
         UNCHANGED <<job, old>>,
         res[p] \in Results, res[p].status = "running", res[p].assessments = Absent,
         v # Absent => MadeFrom("synthesis", v, [evidence |-> res[p].evidence, features |-> res[p].features]),
         old[p] # Absent => RowsOK(old[p]),
         Sound(m), Drawn(m, res[p], job[p]), Lying(m, disk'), Untold',
         m.artifacts["memory.json"] = Absent, m.artifacts["comparison.json"] = Absent,
         m.artifacts["guidance.json"] = GuidanceFile(job[p].guidance),
         \A s \in DOMAIN ArtifactOf \ {"comparison"} : Settled(m, s),
         job[p].run # 0, res[p].failing = "none"
  PROVE  WriterTells(p)' /\ \E there \in {"begin-stage", "save-result"} : Goto(p, there)
<1>1. active'[p] = "comparison"
  BY DEF TakeProposals, TypeOK, LocalsOK
<1>2. CASE HasGuidance(p)
  <2> DEFINE y == [res[p] EXCEPT !.candidates = v]
  <2>1. Goto(p, "begin-stage") /\ man'[p] = m /\ res'[p] = y
    BY <1>2 DEF TakeProposals, TypeOK, LocalsOK
  <2> HIDE DEF y
  <2>2. y = WithCandidates(res[p], v, "running") /\ "running" \in Statuses
    BY DEF y, Results, Statuses, WithCandidates
  <2>3. Drawn(m, y, job[p]) /\ y.status = "running" /\ y.assessments = Absent /\ y.failing = "none"
    BY <2>2, CandidatesTaken
  <2>4. Ahead(m, y, "comparison")
    BY <2>3, ArtifactFacts DEF Ahead, Number, ArtifactOf
  <2>5. "begin-stage" \in Drafting \ Announcing
    BY DEF Drafting, Announcing, Rendering, Working, StagePlaces
  <2>6. WriterTells(p)'
    BY <1>1, <2>1, <2>3, <2>4, <2>5, Drafts
  <2> QED BY <2>1, <2>6
<1>3. CASE ~HasGuidance(p)
  <2> DEFINE y == [res[p] EXCEPT !.candidates = v, !.status = "complete"]
             n == Skip(m, {"comparison"})
  <2>1. Goto(p, "save-result") /\ man'[p] = n /\ res'[p] = y
    BY <1>3 DEF TakeProposals, TypeOK, LocalsOK
  <2>2. /\ SameFiles(m, n)
        /\ n.stages["comparison"].status = "skipped"
        /\ \A s \in STAGES \ {"comparison"} : n.stages[s] = m.stages[s]
    BY SkipFacts DEF STAGES
  <2> HIDE DEF y, n
  <2>3. y = WithCandidates(res[p], v, "complete") /\ "complete" \in Statuses
    BY DEF y, Statuses, WithCandidates
  <2>5. /\ y \in Results /\ Drawn(m, y, job[p]) /\ y.status = "complete" /\ y.assessments = Absent
        /\ y.failing = res[p].failing
    BY <2>3, CandidatesTaken
  <2>6. \A s \in DOMAIN ArtifactOf : n.stages[s] = m.stages[s] \/ n.stages[s].status = "skipped"
    BY <2>2, ArtifactFacts
  <2>7. RowsOK(n)
    BY <2>6, RowsRevised DEF Sound
  <2>8. Sound(n) /\ Drawn(n, y, job[p]) /\ Lying(n, disk') /\ n.artifacts["memory.json"] = Absent
    BY <2>2, <2>5, <2>7, SoundRevised, DrawnRevised, LyingRevised DEF SameFiles
  <2>9. \A s \in DOMAIN ArtifactOf : Settled(n, s)
    BY <2>2, ArtifactFacts DEF Settled
  <2>10. Agrees(n, y)
    BY <2>5, <2>8, <2>9, Finishes
  <2>11. WriterTells(p)'
    BY <2>1, <2>5, <2>8, <2>10, Concludes
  <2> QED BY <2>1, <2>11
<1> QED BY <1>2, <1>3

LEMMA CommitStageTells ==
  ASSUME TypeOK, OneWriter, SavedInv, RunsInv, StoryInv, NEW p \in Procs, CommitStage(p)
  PROVE  StoryInv'
<1> DEFINE s == active[p]
           v == value[p]
           c == Completed(man[p], s, v)
           m == List(c, ArtifactOf[s], v)
<1>1. At(p, "commit-stage") /\ pc[p] \in Drafting \ Announcing
  BY DEF CommitStage, At, Drafting, Announcing, Rendering, Working, StagePlaces
<1>2. /\ pc[p] \in Working /\ pc[p] \in Writing /\ job[p].run # 0
      /\ man[p] \in Manifests /\ res[p] \in Results /\ s \in DOMAIN ArtifactOf
      /\ DOMAIN disk = Files
      /\ Sound(man[p]) /\ Drawn(man[p], res[p], job[p]) /\ Lying(man[p], disk)
      /\ old[p] # Absent => RowsOK(old[p])
      /\ Ahead(man[p], res[p], Due(p)) /\ man[p].artifacts["memory.json"] = Absent
      /\ s # "preparation" =>
           man[p].artifacts["guidance.json"] = GuidanceFile(job[p].guidance)
  BY <1>1, AtDraft
<1>3. /\ v \in OutputsOf(s) /\ Due(p) = s /\ s \in STAGES
      /\ ArtifactOf[s] \in Artifacts \ {"guidance.json", "memory.json"}
  BY <1>1, <1>2, ArtifactFacts DEF TypeOK, PlacesOK, Due, At
<1>4. v \in EvidenceFiles \cup Features \cup Candidates \cup Assessments
  BY <1>2, <1>3, ArtifactFacts DEF OutputsOf
<1>5. /\ MadeFrom(s, v, Identity(p, s)) /\ man[p].stages[s].in = Identity(p, s)
      /\ Lies(disk, ArtifactOf[s], v)
  BY <1>1 DEF StoryInv, WriterTells, SavedInv, WriterOK, Lies, At
<1>6. v \notin Damaged
  BY <1>5 DEF MadeFrom
<1>7. /\ c \in Manifests /\ SameFiles(man[p], c)
      /\ c.stages[s].status = "complete" /\ c.stages[s].in = Identity(p, s) /\ c.stages[s].out = v
      /\ \A t \in STAGES \ {s} : c.stages[t] = man[p].stages[t]
  BY <1>2, <1>3, <1>4, <1>5, CompletedFacts
<1> HIDE DEF c
<1>8. /\ m \in Manifests /\ m.run = c.run /\ m.stages = c.stages /\ m.datasets = c.datasets
      /\ m.artifacts[ArtifactOf[s]] = v
      /\ \A g \in Artifacts \ {ArtifactOf[s]} : m.artifacts[g] = c.artifacts[g]
  BY <1>3, <1>4, <1>7, ListFacts DEF Listed
<1>9. /\ Save("manifest.json", m) /\ UNCHANGED <<job, old, read>>
  BY DEF CommitStage, m, c
<1>10. RowsOK(m)
  BY <1>2, <1>5, <1>7, <1>8, ArtifactFacts, RowsRevised DEF Sound
<1>11. Sound(m)
  BY <1>2, <1>6, <1>7, <1>8, <1>10 DEF Sound, SameFiles, Damaged
<1>12. m.artifacts["memory.json"] = Absent
  BY <1>2, <1>3, <1>7, <1>8 DEF SameFiles, Artifacts
<1>13. Drawn(m, res[p], job[p])
  <2>1. m.artifacts["prepared.json"] \in {Absent, job[p].evidence}
    <3>1. CASE s = "preparation"
      BY <1>5, <1>8, <3>1 DEF MadeFrom, Identity, ArtifactOf
    <3>2. CASE s # "preparation"
      <4>1. ArtifactOf[s] # "prepared.json" /\ "prepared.json" \in Artifacts
        BY <1>2, <3>2 DEF ArtifactOf, Artifacts
      <4> QED BY <1>2, <1>7, <1>8, <4>1 DEF SameFiles, Drawn
    <3> QED BY <3>1, <3>2
  <2> QED BY <1>2, <1>7, <1>8, <2>1 DEF Drawn, SameFiles
<1>14. Lying(m, disk)
  BY <1>2, <1>3, <1>5, <1>7, <1>8, LyingListed DEF SameFiles
<1>15. Lying(m, disk')
  BY <1>2, <1>9, <1>14, LyingWritten DEF Save, Artifacts
<1>16. DiskTells' /\ Untold'
  BY <1>9, <1>11, <1>12, SoundUnlisted, ManifestWritten
<1>17. "guidance.json" \in Artifacts /\ m.artifacts["guidance.json"] = man[p].artifacts["guidance.json"]
  BY <1>3, <1>7, <1>8 DEF SameFiles, Artifacts
<1>18. /\ \A t \in DOMAIN ArtifactOf : Number[t] <= Number[s] => Settled(m, t)
       /\ \A t \in DOMAIN ArtifactOf : Number[t] > Number[s] => m.artifacts[ArtifactOf[t]] = Absent
  <2>1. /\ \A t \in DOMAIN ArtifactOf : Number[t] <= Number[s] => t = s \/ Number[t] < Number[s]
        /\ \A t \in DOMAIN ArtifactOf : Number[t] > Number[s] =>
             ArtifactOf[t] # ArtifactOf[s] /\ ~(Number[t] < Number[s])
    BY <1>2 DEF Number, ArtifactOf
  <2> QED BY <1>2, <1>3, <1>7, <1>8, <2>1, ArtifactFacts DEF Ahead, Settled, SameFiles
<1> HIDE DEF m
<1>19. {"export", "begin-stage"} \subseteq Drafting \ Announcing /\ {"export", "begin-stage", "save-result"} \subseteq Writing
  BY DEF Drafting, Announcing, Rendering, Working, StagePlaces, Writing
<1>20. CASE s = "preparation"
  <2>1. Goto(p, "export") /\ man'[p] = m /\ res'[p] = res[p] /\ active'[p] = s
    BY <1>20 DEF CommitStage, m, c, TypeOK, LocalsOK
  <2>2. Ahead(m, res[p], "screening")
    BY <1>2, <1>3, <1>12, <1>18, <1>20, ArtifactFacts DEF Ahead, Number
  <2>3. WriterTells(p)'
    BY <1>2, <1>9, <1>11, <1>13, <1>15, <1>16, <1>19, <1>20, <2>1, <2>2, Drafts
  <2> QED BY <1>2, <1>9, <1>16, <1>19, <2>1, <2>3, WriterStays
<1>21. CASE s = "screening"
  <2> DEFINE y == [res[p] EXCEPT !.features = v]
  <2>1. Goto(p, "begin-stage") /\ man'[p] = m /\ res'[p] = y /\ active'[p] = "synthesis"
    BY <1>21 DEF CommitStage, m, c, TypeOK, LocalsOK
  <2>2. /\ v \in Features /\ res[p].candidates = Absent /\ res[p].assessments = Absent
        /\ res[p].status = "running" /\ res[p].failing = "none"
        /\ MadeFrom("screening", v, res[p].evidence)
    BY <1>2, <1>3, <1>5, <1>21 DEF OutputsOf, Ahead, Number, Identity, Drawn
  <2>3. /\ Drawn(m, y, job[p]) /\ y.status = "running" /\ y.failing = "none" /\ y.candidates = Absent /\ y.assessments = Absent
    BY <1>2, <1>13, <2>2, FeaturesTaken
  <2> HIDE DEF y
  <2>4. Ahead(m, y, "synthesis")
    BY <1>12, <1>18, <1>21, <2>3, ArtifactFacts DEF Ahead, Number
  <2>5. WriterTells(p)'
    BY <1>2, <1>9, <1>11, <1>15, <1>16, <1>17, <1>19, <1>21, <2>1, <2>3, <2>4, Drafts
  <2> QED BY <1>2, <1>9, <1>16, <1>19, <2>1, <2>5, WriterStays
<1>22. CASE s = "synthesis"
  <2>1. TakeProposals(p, m, v)
    BY <1>22 DEF CommitStage, m, c
  <2>2. /\ v \in Candidates /\ res[p].assessments = Absent /\ res[p].status = "running"
        /\ MadeFrom("synthesis", v, [evidence |-> res[p].evidence, features |-> res[p].features])
    BY <1>2, <1>3, <1>5, <1>22 DEF OutputsOf, Ahead, Identity, Drawn
  <2>3. /\ m.artifacts["comparison.json"] = Absent
        /\ \A t \in DOMAIN ArtifactOf \ {"comparison"} : Settled(m, t)
    BY <1>18, <1>22, ArtifactFacts DEF Number, ArtifactOf
  <2>4. res[p].failing = "none"
    BY <1>2 DEF Ahead
  <2>5. WriterTells(p)' /\ \E there \in {"begin-stage", "save-result"} : Goto(p, there)
    BY <1>1, <1>2, <1>8, <1>9, <1>11, <1>12, <1>13, <1>15, <1>16, <1>17, <1>22, <2>1, <2>2, <2>3, <2>4,
       TakeProposalsTells
  <2> QED BY <1>2, <1>9, <1>16, <1>19, <2>5, WriterStays
<1>23. CASE s = "comparison"
  <2> DEFINE y == [res[p] EXCEPT !.assessments = v, !.status = "complete"]
  <2>1. Goto(p, "save-result") /\ man'[p] = m /\ res'[p] = y
    BY <1>23 DEF CommitStage, m, c, TypeOK, LocalsOK
  <2>2. /\ v \in Assessments
        /\ MadeFrom("comparison", v, [candidates |-> res[p].candidates, guidance |-> job[p].guidance])
    BY <1>3, <1>5, <1>23 DEF OutputsOf, Identity
  <2> HIDE DEF y
  <2>3. y \in Results /\ Drawn(m, y, job[p]) /\ y.status = "complete" /\ y.failing = res[p].failing
    <3>1. y = WithAssessments(res[p], v)
      BY DEF y, WithAssessments
    <3> HIDE DEF v
    <3> QED BY <1>2, <1>13, <2>2, <3>1, AssessmentsTaken
  <2>4. \A t \in DOMAIN ArtifactOf : Settled(m, t)
    BY <1>18, <1>23, ArtifactFacts DEF Number
  <2>5. Agrees(m, y)
    BY <1>2, <1>17, <1>23, <2>3, <2>4, Finishes
  <2>6. res[p].failing = "none"
    BY <1>2 DEF Ahead
  <2>7. WriterTells(p)'
    BY <1>2, <1>9, <1>11, <1>12, <1>15, <1>16, <2>1, <2>3, <2>5, <2>6, Concludes
  <2> QED BY <1>2, <1>9, <1>16, <1>19, <2>1, <2>7, WriterStays
<1> QED BY <1>2, <1>20, <1>21, <1>22, <1>23, ArtifactFacts

\* The command datasets, written and listed.
LEMMA ExportCommandsTells ==
  ASSUME TypeOK, OneWriter, RunsInv, StoryInv, NEW p \in Procs, ExportCommands(p)
  PROVE  StoryInv'
<1> DEFINE c == Dataset(job[p].evidence)
           m == [man[p] EXCEPT !.datasets = c]
           x == [res[p] EXCEPT !.hooks = TRUE]
<1>1. pc[p] = "export" /\ pc[p] \in Drafting \ Announcing /\ UNCHANGED <<job, old, active, value, read>>
  BY DEF ExportCommands, At, Drafting, Announcing, Rendering, Working, StagePlaces
<1>2. CASE Block(p) /\ UNCHANGED disk
  BY <1>1, <1>2, BlockTells
<1>3. CASE /\ Save("datasets", c)
           /\ man' = [man EXCEPT ![p] = [@ EXCEPT !.datasets = c]]
           /\ res' = [res EXCEPT ![p] = [@ EXCEPT !.hooks = TRUE]]
           /\ Goto(p, "persist-export")
  <2>1. /\ pc[p] \in Writing /\ DOMAIN disk = Files /\ DiskTells /\ Untold
        /\ man[p] \in Manifests /\ res[p] \in Results
        /\ Sound(man[p]) /\ Drawn(man[p], res[p], job[p]) /\ Lying(man[p], disk)
        /\ old[p] # Absent => RowsOK(old[p])
        /\ Ahead(man[p], res[p], "screening")
        /\ active[p] # "preparation" =>
             man[p].artifacts["guidance.json"] = GuidanceFile(job[p].guidance)
    BY <1>1, AtDraft DEF Due
  <2>2. man'[p] = m /\ res'[p] = x /\ active'[p] = active[p]
    BY <1>1, <1>3 DEF TypeOK, LocalsOK
  <2>3. /\ m.run = man[p].run /\ m.stages = man[p].stages /\ m.artifacts = man[p].artifacts
        /\ m.datasets = c
    BY <2>1 DEF Manifests
  <2>4. /\ x.run = res[p].run /\ x.evidence = res[p].evidence /\ x.status = res[p].status
        /\ x.failing = res[p].failing /\ x.features = res[p].features
        /\ x.candidates = res[p].candidates /\ x.assessments = res[p].assessments
    BY <2>1 DEF Results
  <2>5. c # Absent /\ c # Corrupt
    BY Whole DEF Damaged
  <2>6. \A f \in Artifacts : f # "datasets"
    BY DEF Artifacts
  <2>7. disk' = [disk EXCEPT !["datasets"] = c] /\ "datasets" \in Files
    BY <1>3 DEF Save, Files
  <2> HIDE DEF c, m, x
  <2>8. Sound(m)
    BY <2>1, <2>3, <2>5 DEF Sound, RowsOK
  <2>9. Drawn(m, x, job[p])
    BY <2>1, <2>3, <2>4, <2>5 DEF Drawn, Derived
  <2>10. Lying(m, disk')
    BY <2>1, <2>3, <2>6, <2>7 DEF Lying, Lies
  <2>11. Ahead(m, x, "screening")
    BY <2>1, <2>3, <2>4 DEF Ahead, Settled
  <2>12. DiskTells' /\ Untold'
    BY <1>3, <2>1, OtherWritten DEF Files, Reports, c
  <2>13. "persist-export" \in Drafting \ Announcing /\ "persist-export" \in Writing
    BY DEF Drafting, Announcing, Rendering, Working, StagePlaces, Writing
  <2>14. WriterTells(p)'
    BY <1>1, <1>3, <2>1, <2>2, <2>3, <2>8, <2>9, <2>10, <2>11, <2>12, <2>13, Drafts
  <2>15. pc[p] \in Working
    BY <1>1 DEF Drafting
  <2> QED BY <1>1, <1>3, <2>1, <2>12, <2>13, <2>14, <2>15, WriterStays
<1> QED BY <1>2, <1>3 DEF ExportCommands

LEMMA PersistExportTells ==
  ASSUME TypeOK, OneWriter, RunsInv, StoryInv, NEW p \in Procs, PersistExport(p)
  PROVE  StoryInv'
<1>1. /\ pc[p] = "persist-export" /\ pc[p] \in Drafting \ Announcing /\ pc[p] \in Working
      /\ UNCHANGED <<job, old, man, res, active, value, read>>
      /\ Save("manifest.json", man[p]) /\ Goto(p, "save-guidance")
  BY DEF PersistExport, SaveStep, At, Drafting, Announcing, Rendering, Working, StagePlaces, local
<1>2. /\ pc[p] \in Writing /\ DOMAIN disk = Files
      /\ Sound(man[p]) /\ Drawn(man[p], res[p], job[p]) /\ Lying(man[p], disk)
      /\ old[p] # Absent => RowsOK(old[p])
      /\ Ahead(man[p], res[p], "screening") /\ man[p].artifacts["memory.json"] = Absent
      /\ active[p] # "preparation" =>
           man[p].artifacts["guidance.json"] = GuidanceFile(job[p].guidance)
  BY <1>1, AtDraft DEF Due
<1>3. DiskTells' /\ Untold'
  BY <1>1, <1>2, SoundUnlisted, ManifestWritten
<1>4. Lying(man[p], disk')
  BY <1>1, <1>2, LyingWritten DEF Save, Artifacts
<1>5. "save-guidance" \in Drafting \ Announcing /\ "save-guidance" \in Writing
  BY DEF Drafting, Announcing, Rendering, Working, StagePlaces, Writing
<1>6. WriterTells(p)'
  BY <1>1, <1>2, <1>3, <1>4, <1>5, Drafts
<1> QED BY <1>1, <1>2, <1>3, <1>5, <1>6, WriterStays

LEMMA PreprocessedFacts ==
  ASSUME NEW x \in Results, NEW y, y = [x EXCEPT !.status = "preprocessed"],
         NEW m, NEW j, Drawn(m, x, j)
  PROVE  /\ y \in Results /\ Drawn(m, y, j)
         /\ y.status = "preprocessed" /\ y.failing = x.failing /\ y.assessments = x.assessments
<1>1. /\ y.run = x.run /\ y.evidence = x.evidence /\ y.hooks = x.hooks
      /\ y.features = x.features /\ y.candidates = x.candidates /\ y.assessments = x.assessments
      /\ y.failing = x.failing /\ y.status = "preprocessed"
  BY DEF Results
<1>2. y \in Results
  BY DEF Results, Statuses
<1> QED BY <1>1, <1>2 DEF Drawn, Derived

LEMMA SaveGuidanceTells ==
  ASSUME TypeOK, OneWriter, RunsInv, StoryInv, NEW p \in Procs, SaveGuidance(p)
  PROVE  StoryInv'
<1> DEFINE snapshot == GuidanceFile(job[p].guidance)
           listed == List(man[p], "guidance.json", snapshot)
<1>1. /\ pc[p] = "save-guidance" /\ pc[p] \in Drafting \ Announcing /\ pc[p] \in Working
      /\ UNCHANGED <<job, old, value, read>> /\ Save("guidance.json", snapshot)
  BY DEF SaveGuidance, At, Drafting, Announcing, Rendering, Working, StagePlaces
<1>2. /\ pc[p] \in Writing /\ DOMAIN disk = Files /\ DiskTells /\ Untold /\ job[p].run # 0
      /\ man[p] \in Manifests /\ res[p] \in Results
      /\ Sound(man[p]) /\ Drawn(man[p], res[p], job[p]) /\ Lying(man[p], disk)
      /\ old[p] # Absent => RowsOK(old[p])
      /\ Ahead(man[p], res[p], "screening") /\ man[p].artifacts["memory.json"] = Absent
  BY <1>1, AtDraft DEF Due
<1>3. snapshot \in Listed /\ snapshot # Corrupt
  <2>1. job[p].guidance \in AnyGuidance
    BY DEF TypeOK, LocalsOK, Jobs
  <2> QED BY <2>1, Whole DEF Listed, GuidanceFile, Damaged
<1> HIDE DEF snapshot
<1>4. /\ listed \in Manifests /\ listed.run = man[p].run
      /\ listed.stages = man[p].stages /\ listed.datasets = man[p].datasets
      /\ listed.artifacts["guidance.json"] = snapshot
      /\ \A g \in Artifacts \ {"guidance.json"} : listed.artifacts[g] = man[p].artifacts[g]
  BY <1>2, <1>3, ListFacts DEF Artifacts
<1> HIDE DEF listed
<1>5. {"prepared.json", "features.json", "proposals.json", "comparison.json", "memory.json"}
        \subseteq Artifacts \ {"guidance.json"}
  BY DEF Artifacts
<1>6. Sound(listed)
  BY <1>2, <1>3, <1>4 DEF Sound, RowsOK
<1>7. Drawn(listed, res[p], job[p])
  BY <1>2, <1>4, <1>5 DEF Drawn
<1>8. Lying(listed, disk')
  <2>1. disk' = [disk EXCEPT !["guidance.json"] = listed.artifacts["guidance.json"]]
    BY <1>1, <1>4 DEF Save
  <2>2. "guidance.json" \in Artifacts
    BY DEF Artifacts
  <2> QED BY <1>2, <1>4, <2>1, <2>2, LyingWrittenListed
<1>9. Ahead(listed, res[p], "screening") /\ listed.artifacts["memory.json"] = Absent
  BY <1>2, <1>4, <1>5 DEF Ahead, Settled, ArtifactOf
<1>10. DiskTells' /\ Untold'
  BY <1>1, <1>2, OtherWritten DEF Files, Artifacts, Reports
<1>11. /\ {"begin-stage", "save-proposals"} \subseteq Drafting \ Announcing
       /\ {"begin-stage", "save-proposals", "save-result"} \subseteq Writing
  BY DEF Drafting, Announcing, Rendering, Working, StagePlaces, Writing
<1>12. CASE job[p].kind = "off" /\ Goto(p, "save-result")
            /\ man' = [man EXCEPT ![p] = Skip(listed, {"screening", "synthesis", "comparison"})]
            /\ res' = [res EXCEPT ![p] = [@ EXCEPT !.status = "preprocessed"]]
  <2> DEFINE n == Skip(listed, {"screening", "synthesis", "comparison"})
             x == [res[p] EXCEPT !.status = "preprocessed"]
  <2>1. man'[p] = n /\ res'[p] = x
    BY <1>12 DEF TypeOK, LocalsOK
  <2>2. /\ SameFiles(listed, n)
        /\ \A s \in {"screening", "synthesis", "comparison"} : n.stages[s].status = "skipped"
        /\ n.stages["preparation"] = listed.stages["preparation"]
    BY <1>4, SkipFacts DEF STAGES
  <2> HIDE DEF n, x
  <2>3. /\ x \in Results /\ Drawn(listed, x, job[p]) /\ x.status = "preprocessed"
        /\ x.failing = "none" /\ x.assessments = Absent
    BY <1>2, <1>7, PreprocessedFacts DEF x, Ahead
  <2>4. \A s \in DOMAIN ArtifactOf : n.stages[s] = listed.stages[s] \/ n.stages[s].status = "skipped"
    BY <2>2, ArtifactFacts
  <2>5. RowsOK(n)
    BY <1>6, <2>4, RowsRevised DEF Sound
  <2>6. Sound(n) /\ Drawn(n, x, job[p]) /\ Lying(n, disk') /\ n.artifacts["memory.json"] = Absent
    BY <1>6, <1>8, <1>9, <2>2, <2>3, <2>5, SoundRevised, DrawnRevised, LyingRevised DEF SameFiles
  <2>7. \A s \in DOMAIN ArtifactOf : Settled(n, s)
    BY <1>9, <2>2, ArtifactFacts DEF Settled, Ahead, Number
  <2>8. Agrees(n, x)
    BY <1>2, <2>3, <2>6, <2>7, Finishes
  <2>9. WriterTells(p)'
    BY <1>1, <1>2, <1>10, <1>12, <2>1, <2>3, <2>6, <2>8, Concludes
  <2> QED BY <1>1, <1>2, <1>10, <1>11, <1>12, <2>9, WriterStays
<1>13. CASE job[p].kind = "extract" /\ Goto(p, "begin-stage") /\ UNCHANGED res
            /\ man' = [man EXCEPT ![p] = listed] /\ active' = [active EXCEPT ![p] = "screening"]
  <2>1. man'[p] = listed /\ res'[p] = res[p] /\ active'[p] = "screening"
    BY <1>13 DEF TypeOK, LocalsOK
  <2>2. WriterTells(p)'
    BY <1>1, <1>2, <1>4, <1>6, <1>7, <1>8, <1>9, <1>10, <1>11, <1>13, <2>1, Drafts DEF snapshot
  <2> QED BY <1>1, <1>2, <1>10, <1>11, <1>13, <2>2, WriterStays
<1>14. CASE IsCompare(p) /\ Goto(p, "save-proposals")
            /\ man' = [man EXCEPT ![p] = Skip(listed, {"screening"})]
            /\ res' = [res EXCEPT ![p] = [@ EXCEPT !.features = job[p].saved.features]]
            /\ active' = [active EXCEPT ![p] = "synthesis"]
  <2> DEFINE n == Skip(listed, {"screening"})
             v == job[p].saved.features
             x == [res[p] EXCEPT !.features = v]
  <2>1. man'[p] = n /\ res'[p] = x /\ active'[p] = "synthesis"
    BY <1>14 DEF TypeOK, LocalsOK
  <2>2. /\ SameFiles(listed, n)
        /\ n.stages["screening"].status = "skipped"
        /\ \A s \in STAGES \ {"screening"} : n.stages[s] = listed.stages[s]
    BY <1>4, SkipFacts DEF STAGES
  <2>3. Derived(job[p].saved) /\ job[p].saved.evidence = job[p].evidence
    BY <1>2, <1>14 DEF StoryInv, ReaderKnows
  <2>4. job[p].saved \in Results
    BY <1>2, <1>14 DEF TypeOK, PlacesOK
  <2>5. /\ v \in Features /\ res[p].candidates = Absent /\ res[p].assessments = Absent
        /\ res[p].status = "running" /\ res[p].failing = "none"
        /\ v # Absent => MadeFrom("screening", v, res[p].evidence)
    BY <1>2, <2>3, <2>4 DEF Results, Ahead, Number, Derived, Drawn
  <2>6. /\ Drawn(listed, x, job[p]) /\ x.features = v /\ x.status = "running"
        /\ x.failing = "none" /\ x.candidates = Absent /\ x.assessments = Absent
    BY <1>2, <1>7, <2>5, FeaturesTaken
  <2> HIDE DEF n, x, v
  <2>7. \A s \in DOMAIN ArtifactOf : n.stages[s] = listed.stages[s] \/ n.stages[s].status = "skipped"
    BY <2>2, ArtifactFacts
  <2>8. RowsOK(n)
    BY <1>6, <2>7, RowsRevised DEF Sound
  <2>9. Sound(n) /\ Drawn(n, x, job[p]) /\ Lying(n, disk') /\ n.artifacts["guidance.json"] = snapshot
    BY <1>4, <1>6, <1>8, <2>2, <2>6, <2>8, SoundRevised, DrawnRevised, LyingRevised DEF SameFiles
  <2>10. Ahead(n, x, "synthesis")
    BY <1>9, <2>2, <2>6, ArtifactFacts DEF Ahead, Number, Settled, SameFiles
  <2>11. WriterTells(p)'
    BY <1>1, <1>2, <1>10, <1>11, <1>14, <2>1, <2>6, <2>9, <2>10, Drafts DEF snapshot, v
  <2> QED BY <1>1, <1>2, <1>10, <1>11, <1>14, <2>11, WriterStays
<1> QED BY <1>1, <1>12, <1>13, <1>14 DEF SaveGuidance, snapshot, listed

LEMMA SaveProposalsTells ==
  ASSUME TypeOK, OneWriter, RunsInv, StoryInv, NEW p \in Procs, SaveProposals(p)
  PROVE  StoryInv'
<1> DEFINE v == job[p].saved.candidates
           m == Skip(man[p], {"synthesis"})
<1>1. /\ At(p, "save-proposals") /\ pc[p] \in Drafting \ Announcing /\ pc[p] \in Working
      /\ UNCHANGED <<job, old, value, read>> /\ Save("proposals.json", v) /\ TakeProposals(p, m, v)
  BY DEF SaveProposals, At, Drafting, Announcing, Rendering, Working, StagePlaces
<1>2. IsCompare(p) /\ active[p] = "synthesis" /\ res[p].features = job[p].saved.features
  BY <1>1 DEF StoryInv, WriterTells
<1>3. Due(p) = "synthesis"
  BY <1>1, <1>2 DEF Due, At
<1>4. /\ pc[p] \in Writing /\ DOMAIN disk = Files /\ DiskTells /\ Untold /\ job[p].run # 0
      /\ man[p] \in Manifests /\ res[p] \in Results
      /\ Sound(man[p]) /\ Drawn(man[p], res[p], job[p]) /\ Lying(man[p], disk)
      /\ old[p] # Absent => RowsOK(old[p])
      /\ Ahead(man[p], res[p], "synthesis") /\ man[p].artifacts["memory.json"] = Absent
      /\ man[p].artifacts["guidance.json"] = GuidanceFile(job[p].guidance)
  BY <1>1, <1>2, <1>3, AtDraft
<1>5. Derived(job[p].saved) /\ job[p].saved.evidence = job[p].evidence /\ job[p].saved \in Results
  BY <1>2, <1>4 DEF StoryInv, ReaderKnows, TypeOK, PlacesOK
<1>6. /\ v \in Candidates
      /\ v # Absent =>
           MadeFrom("synthesis", v, [evidence |-> res[p].evidence, features |-> res[p].features])
  BY <1>2, <1>4, <1>5 DEF Derived, Drawn, Results
<1>7. /\ m \in Manifests /\ SameFiles(man[p], m)
      /\ m.stages["synthesis"].status = "skipped"
      /\ \A s \in STAGES \ {"synthesis"} : m.stages[s] = man[p].stages[s]
  BY <1>4, SkipFacts DEF STAGES
<1> HIDE DEF v, m
<1>8. \A s \in DOMAIN ArtifactOf : m.stages[s] = man[p].stages[s] \/ m.stages[s].status = "skipped"
  BY <1>7, ArtifactFacts
<1>9. RowsOK(m)
  BY <1>4, <1>8, RowsRevised DEF Sound
<1>10. Sound(m) /\ Drawn(m, res[p], job[p]) /\ Lying(m, disk)
  BY <1>4, <1>7, <1>9, SoundRevised, DrawnRevised, LyingRevised
<1>11. m.artifacts = man[p].artifacts
  BY <1>7 DEF SameFiles
<1>12. m.artifacts["proposals.json"] = Absent /\ m.artifacts["comparison.json"] = Absent
  BY <1>4, <1>11 DEF Ahead, Number, ArtifactOf
<1>13. Lying(m, disk')
  BY <1>1, <1>4, <1>10, <1>12, LyingWritten DEF Save
<1>14. DiskTells' /\ Untold'
  BY <1>1, <1>4, OtherWritten DEF Files, Artifacts, Reports
<1>15. \A s \in DOMAIN ArtifactOf \ {"comparison"} : Settled(m, s)
  BY <1>4, <1>7, ArtifactFacts DEF Settled, Ahead, Number
<1>16. res[p].status = "running" /\ res[p].failing = "none" /\ res[p].assessments = Absent
  BY <1>4 DEF Ahead
<1>17. WriterTells(p)' /\ \E there \in {"begin-stage", "save-result"} : Goto(p, there)
  BY <1>1, <1>4, <1>6, <1>7, <1>10, <1>11, <1>12, <1>13, <1>14, <1>15, <1>16, TakeProposalsTells
<1>18. {"begin-stage", "save-result"} \subseteq Writing
  BY DEF Writing, Working, StagePlaces
<1> QED BY <1>1, <1>4, <1>14, <1>17, <1>18, WriterStays

-----------------------------------------------------------------------------
(***************************************************************************)
(* The result and its rendering.                                           *)
(***************************************************************************)
\* The rendering row and the listed result do not touch what a manifest agrees to.
LEMMA AgreesRevised ==
  ASSUME NEW m, NEW n, NEW x, Agrees(m, x), x.failing # "rendering",
         n.run = m.run, n.datasets = m.datasets,
         \A g \in Artifacts \ {"memory.json"} : n.artifacts[g] = m.artifacts[g],
         \A t \in STAGES \ {"rendering"} : n.stages[t] = m.stages[t]
  PROVE  Agrees(n, x)
<1>1. {"prepared.json", "guidance.json"} \subseteq Artifacts \ {"memory.json"}
  BY DEF Artifacts
<1>2. \A s \in DOMAIN ArtifactOf : s \in STAGES \ {"rendering"}
  BY ArtifactFacts
<1> QED BY <1>1, <1>2 DEF Agrees, Settled

LEMMA Renders ==
  ASSUME TypeOK, NEW p \in Procs, NEW there \in Rendering, Goto(p, there),
         NEW m, NEW x, man'[p] = m, res'[p] = x, UNCHANGED <<job, old>>,
         old[p] # Absent => RowsOK(old[p]),
         Sound(m), Agrees(m, x), m.artifacts["memory.json"] = x,
         Drawn(m, x, job[p]), Lying(m, disk'),
         there # "persist-final" =>
           x.failing # "rendering" /\ m.stages["rendering"].status = "running",
         there = "persist-result" => Untold',
         there \in {"render-markdown", "render-html"} => Lies(disk', "manifest.json", m),
         there = "render-html" => disk'["report.md"] = Report(x),
         there = "persist-final" =>
           /\ m.stages["rendering"].status = "complete" => \A f \in Reports : disk'[f] = Report(x)
           /\ Told' => /\ OnDisk'.artifacts = m.artifacts /\ OnDisk'.datasets = m.datasets
                       /\ OnDisk'.stages["rendering"].status # "complete"
  PROVE  WriterTells(p)'
<1>1. pc'[p] = there
  BY DEF Goto, TypeOK, LocalsOK
<1>2. ManifestOK(m)
  BY DEF ManifestOK
<1>3. there \notin Drafting \cup Announcing \cup StagePlaces
                      \cup {"fail-markdown", "fail-html"}
  BY DEF Drafting, Announcing, Rendering, StagePlaces
<1>4. there \notin {"run-stage", "commit-stage", "save-proposals", "save-result"}
  BY DEF Rendering
<1>5. there \in Working => /\ ManifestOK(man'[p]) /\ Drawn(man'[p], res'[p], job'[p])
                           /\ Lying(man'[p], disk') /\ (old'[p] # Absent => RowsOK(old'[p]))
  BY <1>2
<1> QED BY <1>1, <1>3, <1>4, <1>5 DEF WriterTells, At

\* What a writer that renders knows.
LEMMA AtRender ==
  ASSUME TypeOK, StoryInv, NEW p \in Procs, pc[p] \in Rendering
  PROVE  /\ pc[p] \in Working /\ pc[p] \in Writing
         /\ man[p] \in Manifests /\ res[p] \in Results
         /\ DiskTells /\ WriterTells(p) /\ DOMAIN disk = Files
         /\ Sound(man[p]) /\ Agrees(man[p], res[p]) /\ man[p].artifacts["memory.json"] = res[p]
         /\ Drawn(man[p], res[p], job[p]) /\ Lying(man[p], disk)
         /\ old[p] # Absent => RowsOK(old[p])
<1>1. pc[p] \in Working /\ pc[p] \in Writing
  BY DEF Rendering, Working, StagePlaces, Writing
<1>2. WriterTells(p) /\ DiskTells
  BY DEF StoryInv
<1>3. man[p] \in Manifests /\ res[p] \in Results /\ res[p] # Absent
  BY <1>1, AtWork, Whole DEF Damaged
<1>4. /\ ManifestOK(man[p]) /\ Drawn(man[p], res[p], job[p]) /\ Lying(man[p], disk)
      /\ old[p] # Absent => RowsOK(old[p])
      /\ man[p].artifacts["memory.json"] = res[p]
  BY <1>1, <1>2 DEF WriterTells
<1>5. DOMAIN disk = Files
  BY DEF TypeOK, DiskOK
<1>6. Sound(man[p]) /\ Agrees(man[p], res[p])
  BY <1>3, <1>4 DEF ManifestOK
<1> QED BY <1>1, <1>2, <1>3, <1>4, <1>5, <1>6

LEMMA SaveResultTells ==
  ASSUME TypeOK, OneWriter, RunsInv, StoryInv, NEW p \in Procs, SaveResult(p)
  PROVE  StoryInv'
<1> DEFINE x == res[p]
           l == List(man[p], "memory.json", x)
           n == Declared(l, "rendering", x)
<1>1. /\ At(p, "save-result") /\ pc[p] \in Working /\ pc[p] \in Writing /\ pc[p] \in StagePlaces
      /\ UNCHANGED <<job, old, res, active, value, read>>
      /\ Save("memory.json", x) /\ Goto(p, "persist-result")
  BY DEF SaveResult, At, Working, StagePlaces, Writing
<1>2. /\ DiskTells /\ Untold /\ ManifestOK(man[p]) /\ Drawn(man[p], x, job[p]) /\ Lying(man[p], disk)
      /\ old[p] # Absent => RowsOK(old[p])
      /\ man[p].artifacts["memory.json"] = Absent
      /\ Agrees(man[p], x) /\ x.failing # "rendering"
  BY <1>1 DEF StoryInv, WriterTells
<1>3. /\ man[p] \in Manifests /\ x \in Results /\ x \notin Damaged /\ DOMAIN disk = Files
      /\ "memory.json" \in Artifacts /\ "rendering" \in STAGES /\ x \in Listed
  BY <1>1, AtWork, Whole DEF TypeOK, DiskOK, Artifacts, STAGES, Listed
<1> HIDE DEF x
<1>4. /\ l \in Manifests /\ l.run = man[p].run
      /\ l.stages = man[p].stages /\ l.datasets = man[p].datasets
      /\ l.artifacts["memory.json"] = x
      /\ \A g \in Artifacts \ {"memory.json"} : l.artifacts[g] = man[p].artifacts[g]
  BY <1>3, ListFacts
<1> HIDE DEF l
<1>5. /\ n \in Manifests /\ SameFiles(l, n)
      /\ n.stages["rendering"].status = "running"
      /\ \A t \in STAGES \ {"rendering"} : n.stages[t] = l.stages[t]
  BY <1>3, <1>4, DeclaredFacts
<1>6. man'[p] = n /\ res'[p] = x
  BY DEF SaveResult, TypeOK, LocalsOK, x, l
<1> HIDE DEF n
<1>7. /\ n.run = man[p].run /\ n.datasets = man[p].datasets /\ n.artifacts["memory.json"] = x
      /\ \A g \in Artifacts \ {"memory.json"} : n.artifacts[g] = man[p].artifacts[g]
      /\ \A t \in STAGES \ {"rendering"} : n.stages[t] = man[p].stages[t]
  BY <1>4, <1>5 DEF SameFiles
<1>8. RowsOK(n)
  BY <1>2, <1>7, ArtifactFacts, RowsRevised DEF ManifestOK, Sound
<1>9. Sound(n)
  BY <1>2, <1>3, <1>7, <1>8 DEF ManifestOK, Sound, Damaged
<1>10. Agrees(n, x)
  BY <1>2, <1>7, AgreesRevised
<1>11. Drawn(n, x, job[p])
  BY <1>2, <1>7 DEF Drawn, Artifacts
<1>12. Lying(n, disk')
  <2>1. disk' = [disk EXCEPT !["memory.json"] = n.artifacts["memory.json"]]
    BY <1>1, <1>7 DEF Save
  <2> QED BY <1>2, <1>3, <1>7, <2>1, LyingWrittenListed
<1>13. DiskTells' /\ Untold'
  <2>1. OnDisk \in Damaged \/ OnDisk.artifacts["memory.json"] # x
    BY <1>2, <1>3 DEF Untold, Damaged
  <2> QED BY <1>1, <1>2, <2>1, MemoryWritten
<1>14. "persist-result" \in Rendering /\ "persist-result" \in Writing
  BY DEF Rendering, Writing, Working
<1>15. WriterTells(p)'
  BY <1>1, <1>2, <1>5, <1>6, <1>7, <1>9, <1>10, <1>11, <1>12, <1>13, <1>14, Renders
<1> QED BY <1>1, <1>13, <1>14, <1>15, WriterStays

LEMMA PersistResultTells ==
  ASSUME TypeOK, OneWriter, StoryInv, NEW p \in Procs, PersistResult(p)
  PROVE  StoryInv'
<1>1. /\ At(p, "persist-result") /\ pc[p] \in Rendering \ {"persist-final"}
      /\ UNCHANGED <<job, old, man, res, active, value, read>>
      /\ Save("manifest.json", man[p]) /\ Goto(p, "render-markdown")
  BY DEF PersistResult, SaveStep, At, Rendering, local
<1>2. /\ pc[p] \in Working /\ pc[p] \in Writing /\ DOMAIN disk = Files
      /\ Sound(man[p]) /\ Agrees(man[p], res[p]) /\ man[p].artifacts["memory.json"] = res[p]
      /\ Drawn(man[p], res[p], job[p]) /\ Lying(man[p], disk)
      /\ old[p] # Absent => RowsOK(old[p])
      /\ WriterTells(p)
  BY <1>1, AtRender
<1>3. res[p].failing # "rendering" /\ man[p].stages["rendering"].status = "running"
  BY <1>1, <1>2 DEF WriterTells
<1>4. ManifestOK(man[p])
  BY <1>2 DEF ManifestOK
<1>5. DiskTells' /\ OnDisk' = man[p]
  BY <1>1, <1>3, <1>4, ManifestWritten
<1>6. Lying(man[p], disk')
  BY <1>1, <1>2, LyingWritten DEF Save, Artifacts
<1>7. "render-markdown" \in Rendering /\ "render-markdown" \in Writing
  BY DEF Rendering, Writing, Working
<1>8. Lies(disk', "manifest.json", man[p])
  BY <1>5 DEF OnDisk, Lies
<1>9. WriterTells(p)'
  BY <1>1, <1>2, <1>3, <1>6, <1>7, <1>8, Renders
<1> QED BY <1>1, <1>2, <1>5, <1>7, <1>9, WriterStays

\* Until rendering is declared complete, the reports are written one after the other.
LEMMA RenderTells ==
  ASSUME TypeOK, OneWriter, StoryInv, NEW p \in Procs, RenderMarkdown(p) \/ RenderHtml(p)
  PROVE  StoryInv'
<1>1. /\ pc[p] \in {"render-markdown", "render-html"} /\ pc[p] \in Rendering \ {"persist-final"}
      /\ UNCHANGED <<job, old, res, active, value, read>>
  BY DEF RenderMarkdown, RenderHtml, SaveStep, At, Rendering, local
<1>2. /\ pc[p] \in Working /\ pc[p] \in Writing /\ DOMAIN disk = Files
      /\ man[p] \in Manifests /\ res[p] \in Results /\ DiskTells
      /\ Sound(man[p]) /\ Agrees(man[p], res[p]) /\ man[p].artifacts["memory.json"] = res[p]
      /\ Drawn(man[p], res[p], job[p]) /\ Lying(man[p], disk)
      /\ old[p] # Absent => RowsOK(old[p])
      /\ WriterTells(p)
  BY <1>1, AtRender
<1>3. /\ res[p].failing # "rendering" /\ man[p].stages["rendering"].status = "running"
      /\ Lies(disk, "manifest.json", man[p])
  BY <1>1, <1>2 DEF WriterTells
<1>4. ~Told \/ OnDisk.stages["rendering"].status # "complete"
  BY <1>3 DEF Told, Lies, OnDisk
<1>5. Reports = {"report.md", "report.html"} /\ \A f \in Reports : f \notin Artifacts \cup {"datasets", "manifest.json"}
  BY DEF Reports, Artifacts
<1>6. CASE RenderMarkdown(p)
  <2>1. /\ Save("report.md", Report(res[p])) /\ Goto(p, "render-html") /\ man' = man
    BY <1>6 DEF RenderMarkdown, SaveStep, local
  <2>2. /\ DiskTells' /\ OnDisk' = OnDisk /\ disk'["report.md"] = Report(res[p])
    BY <1>2, <1>4, <1>5, <2>1, ReportWritten
  <2>3. Lying(man[p], disk')
    BY <1>2, <1>5, <2>1, LyingWritten DEF Save
  <2>4. Lies(disk', "manifest.json", man[p])
    BY <1>3, <2>2 DEF OnDisk, Lies
  <2>5. "render-html" \in Rendering /\ "render-html" \in Writing
    BY DEF Rendering, Writing, Working
  <2>6. WriterTells(p)'
    BY <1>1, <1>2, <1>3, <2>1, <2>2, <2>3, <2>4, <2>5, Renders
  <2> QED BY <1>1, <1>2, <2>1, <2>2, <2>5, <2>6, WriterStays
<1>7. CASE RenderHtml(p)
  <2> DEFINE c == Report(res[p])
             n == Completed(man[p], "rendering", c)
  <2>1. /\ Save("report.html", c) /\ Goto(p, "persist-final") /\ man'[p] = n
    BY <1>7 DEF RenderHtml, TypeOK, LocalsOK
  <2>2. c \in Rendered /\ "rendering" \in STAGES
    BY <1>2 DEF Report, Rendered, STAGES
  <2>3. disk["report.md"] = c
    BY <1>2, <1>7 DEF RenderHtml, WriterTells
  <2> HIDE DEF c
  <2>4. /\ SameFiles(man[p], n)
        /\ \A t \in STAGES \ {"rendering"} : n.stages[t] = man[p].stages[t]
    BY <1>2, <2>2, CompletedFacts
  <2> HIDE DEF n
  <2>5. /\ DiskTells' /\ OnDisk' = OnDisk /\ \A f \in Reports : disk'[f] = c
    BY <1>2, <1>4, <1>5, <2>1, <2>3, ReportWritten
  <2>6. RowsOK(n)
    BY <1>2, <2>4, ArtifactFacts, RowsRevised DEF Sound
  <2>7. Sound(n) /\ Drawn(n, res[p], job[p]) /\ Lying(n, disk)
    BY <1>2, <2>4, <2>6, SoundRevised, DrawnRevised, LyingRevised
  <2>8. Lying(n, disk')
    BY <1>2, <1>5, <2>1, <2>7, LyingWritten DEF Save
  <2>9. Agrees(n, res[p]) /\ n.artifacts["memory.json"] = res[p]
    BY <1>2, <1>3, <2>4, AgreesRevised DEF SameFiles
  <2>10. Told' => /\ OnDisk'.artifacts = n.artifacts /\ OnDisk'.datasets = n.datasets
                  /\ OnDisk'.stages["rendering"].status # "complete"
    BY <1>3, <2>4, <2>5 DEF Told, Lies, OnDisk, SameFiles
  <2>11. "persist-final" \in Rendering /\ "persist-final" \in Writing
    BY DEF Rendering, Writing, Working
  <2>12. WriterTells(p)'
    BY <1>1, <1>2, <2>1, <2>5, <2>7, <2>8, <2>9, <2>10, <2>11, Renders DEF c
  <2> QED BY <1>1, <1>2, <2>1, <2>5, <2>11, <2>12, WriterStays
<1> QED BY <1>6, <1>7

LEMMA RenderFailsTells ==
  ASSUME TypeOK, OneWriter, StoryInv, NEW p \in Procs, RenderFails(p)
  PROVE  StoryInv'
<1> DEFINE x == Blocked(res[p], "rendering")
           w == WithStatus(man[p], "rendering", "blocked")
           n == List(w, "memory.json", x)
<1>1. /\ pc[p] \in {"render-markdown", "render-html"} /\ pc[p] \in Rendering \ {"persist-final"}
      /\ UNCHANGED <<job, old, active, value, read>>
      /\ Save("memory.json", x) /\ Goto(p, "persist-final")
  BY DEF RenderFails, Rendering
<1>2. /\ pc[p] \in Working /\ pc[p] \in Writing /\ DOMAIN disk = Files
      /\ man[p] \in Manifests /\ res[p] \in Results /\ DiskTells
      /\ Sound(man[p]) /\ Agrees(man[p], res[p]) /\ man[p].artifacts["memory.json"] = res[p]
      /\ Drawn(man[p], res[p], job[p]) /\ Lying(man[p], disk)
      /\ old[p] # Absent => RowsOK(old[p])
      /\ WriterTells(p)
  BY <1>1, AtRender
<1>3. res[p].failing # "rendering" /\ Lies(disk, "manifest.json", man[p])
  BY <1>1, <1>2 DEF WriterTells
<1>4. "rendering" \in STAGES /\ "memory.json" \in Artifacts
  BY DEF STAGES, Artifacts
<1>5. /\ x \in Results /\ x.status = "blocked" /\ x.failing = "rendering"
      /\ x.assessments = res[p].assessments /\ Drawn(man[p], x, job[p])
  BY <1>2, <1>4, BlockedFacts
<1>6. /\ w \in Manifests /\ SameFiles(man[p], w)
      /\ w.stages["rendering"].status = "blocked"
      /\ \A t \in STAGES \ {"rendering"} : w.stages[t] = man[p].stages[t]
  BY <1>2, <1>4, WithStatusFacts
<1> HIDE DEF x, w
<1>7. x \in Listed /\ x \notin Damaged
  BY <1>5, Whole DEF Listed
<1>8. /\ n \in Manifests /\ n.run = w.run
      /\ n.stages = w.stages /\ n.datasets = w.datasets
      /\ n.artifacts["memory.json"] = x
      /\ \A g \in Artifacts \ {"memory.json"} : n.artifacts[g] = w.artifacts[g]
  BY <1>4, <1>6, <1>7, ListFacts
<1>9. man'[p] = n /\ res'[p] = x
  BY DEF RenderFails, TypeOK, LocalsOK, x, w
<1> HIDE DEF n
<1>10. RowsOK(n)
  BY <1>2, <1>6, <1>8, ArtifactFacts, RowsRevised DEF Sound
<1>11. Sound(n)
  BY <1>2, <1>6, <1>7, <1>8, <1>10 DEF Sound, SameFiles, Damaged
<1>12. Drawn(n, x, job[p])
  BY <1>5, <1>6, <1>8 DEF Drawn, SameFiles, Artifacts
<1>13. Agrees(n, x)
  <2>1. "guidance.json" \in Artifacts \ {"memory.json"} /\ "prepared.json" \in Artifacts \ {"memory.json"}
    BY DEF Artifacts
  <2>2. res[p].run # 0 /\ x.run = res[p].run
    BY <1>2, <1>5 DEF Agrees, FinishedResults, Drawn
  <2>3. x \in FinishedResults
    BY <1>5, <2>2 DEF FinishedResults
  <2>4. x.assessments # Absent => n.artifacts["guidance.json"] = GuidanceFile(x.assessments.in.guidance)
    BY <1>2, <1>5, <1>6, <1>8, <2>1 DEF Agrees, SameFiles
  <2> QED BY <1>4, <1>5, <1>6, <1>8, <1>12, <2>3, <2>4 DEF Agrees, Drawn
<1>14. Lying(n, disk')
  <2>1. disk' = [disk EXCEPT !["memory.json"] = n.artifacts["memory.json"]]
    BY <1>1, <1>8 DEF Save
  <2> QED BY <1>2, <1>4, <1>6, <1>8, <2>1, LyingWrittenListed DEF SameFiles
<1>15. OnDisk \in Damaged \/ OnDisk.artifacts["memory.json"] # x
  BY <1>2, <1>3, <1>5 DEF Lies, OnDisk
<1>16. DiskTells' /\ OnDisk' = OnDisk /\ disk'["memory.json"] = x
  BY <1>1, <1>2, <1>15, MemoryWritten
<1>17. ~Told'
  BY <1>15, <1>16 DEF Told
<1>18. "persist-final" \in Rendering /\ "persist-final" \in Writing
  BY DEF Rendering, Writing, Working
<1>19. n.stages["rendering"].status # "complete"
  BY <1>6, <1>8
<1>20. WriterTells(p)'
  BY <1>1, <1>2, <1>8, <1>9, <1>11, <1>12, <1>13, <1>14, <1>17, <1>18, <1>19, Renders
<1> QED BY <1>1, <1>2, <1>16, <1>18, <1>20, WriterStays

LEMMA PersistFinalTells ==
  ASSUME TypeOK, OneWriter, StoryInv, NEW p \in Procs, PersistFinal(p)
  PROVE  StoryInv'
<1>1. At(p, "persist-final") /\ pc[p] \in Rendering /\ Save("manifest.json", man[p])
  BY DEF PersistFinal, At, Rendering
<1>2. /\ pc[p] \in Writing /\ WriterTells(p)
      /\ Sound(man[p]) /\ Agrees(man[p], res[p]) /\ man[p].artifacts["memory.json"] = res[p]
  BY <1>1, AtRender
<1>3. man[p].stages["rendering"].status = "complete" => \A f \in Reports : disk[f] = Report(res[p])
  BY <1>1, <1>2 DEF WriterTells
<1>4. ManifestOK(man[p])
  BY <1>2 DEF ManifestOK
<1>5. DiskTells'
  BY <1>1, <1>2, <1>3, <1>4, ManifestWritten
<1>6. /\ \E there \in {"idle", "read-manifest"} : Goto(p, there)
      /\ \A q \in Procs \ {p} : job'[q] = job[q] /\ read'[q] = read[q]
  BY DEF PersistFinal, Exit, TypeOK, LocalsOK
<1> QED BY <1>2, <1>5, <1>6, WriterLeaves

-----------------------------------------------------------------------------
(***************************************************************************)
(* A reader, and the environment.                                          *)
(***************************************************************************)
LEMMA LoadSavedTells ==
  ASSUME TypeOK, StoryInv, NEW p \in Procs, LoadSaved(p)
  PROVE  StoryInv'
<1>1. UNCHANGED disk
  BY DEF LoadSaved, ReadManifest, ReadEvidence, ReadResult, Verify, UseLoaded
<1>2. CASE Exit(p)
  BY <1>1, <1>2, ExitTells
<1>3. read \in [Procs -> Reads] /\ job \in [Procs -> Jobs] /\ read[p] \in Reads /\ job[p] \in Jobs
  BY DEF TypeOK, LocalsOK
<1>4. ReaderKnows(p) /\ DiskTells
  BY DEF StoryInv
\* The next file, once it is known what has been read of it.
<1>5. ASSUME NEW there \in {"read-evidence", "read-result", "verify", "loaded"}, Goto(p, there),
             NEW r, read' = [read EXCEPT ![p] = r], UNCHANGED <<job, old, man, res, active, value>>,
             ManifestOK(r.manifest),
             there \in {"read-result", "verify", "loaded"} => r.evidence \notin Damaged,
             there \in {"verify", "loaded"} =>
               /\ r.manifest.artifacts["prepared.json"] = r.evidence
               /\ r.manifest.artifacts["memory.json"] = r.result
      PROVE  StoryInv'
  <2>1. pc'[p] = there /\ read'[p] = r /\ \A q \in Procs \ {p} : read'[q] = read[q]
    BY <1>3, <1>5 DEF Goto, TypeOK, LocalsOK
  <2>2. there \notin Writing \cup {"lock"}
    BY ReadingIsNotWriting DEF ReadingPlaces
  <2>3. ReaderKnows(p)'
    BY <1>5, <2>1, <2>2 DEF ReaderKnows, Writing
  <2> QED BY <1>1, <1>5, <2>1, <2>2, <2>3, OnlyReads
<1>6. CASE ReadManifest(p) /\ ~Exit(p)
  <2> DEFINE r == [read[p] EXCEPT !.manifest = OnDisk]
  <2>1. /\ OnDisk \notin Damaged /\ Goto(p, "read-evidence")
        /\ read' = [read EXCEPT ![p] = r] /\ UNCHANGED <<job, old, man, res, active, value>>
    BY <1>6 DEF ReadManifest, OnDisk
  <2>2. r.manifest = OnDisk
    BY <1>3 DEF Reads
  <2>3. ManifestOK(r.manifest)
    BY <1>4, <2>1, <2>2 DEF DiskTells
  <2> HIDE DEF r
  <2> QED BY <1>5, <2>1, <2>3
<1>7. CASE ReadEvidence(p) /\ ~Exit(p)
  <2> DEFINE r == [read[p] EXCEPT !.evidence = disk["prepared.json"]]
  <2>1. /\ disk["prepared.json"] \notin Damaged /\ Goto(p, "read-result") /\ At(p, "read-evidence")
        /\ read' = [read EXCEPT ![p] = r] /\ UNCHANGED <<job, old, man, res, active, value>>
    BY <1>7 DEF ReadEvidence
  <2>2. r.manifest = read[p].manifest /\ r.evidence = disk["prepared.json"]
    BY <1>3 DEF Reads
  <2>3. ManifestOK(r.manifest) /\ r.evidence \notin Damaged
    BY <1>4, <2>1, <2>2 DEF ReaderKnows, At
  <2> HIDE DEF r
  <2> QED BY <1>5, <2>1, <2>3
<1>8. CASE ReadResult(p) /\ ~Exit(p)
  <2> DEFINE r == [read[p] EXCEPT !.result = disk["memory.json"]]
  <2>1. /\ read[p].manifest.artifacts["prepared.json"] = read[p].evidence
        /\ read[p].manifest.artifacts["memory.json"] = disk["memory.json"]
        /\ Goto(p, "verify") /\ At(p, "read-result")
        /\ read' = [read EXCEPT ![p] = r] /\ UNCHANGED <<job, old, man, res, active, value>>
    BY <1>8 DEF ReadResult
  <2>2. r.manifest = read[p].manifest /\ r.evidence = read[p].evidence /\ r.result = disk["memory.json"]
    BY <1>3 DEF Reads
  <2>3. ManifestOK(r.manifest) /\ r.evidence \notin Damaged
    BY <1>4, <2>1, <2>2 DEF ReaderKnows, At
  <2> HIDE DEF r
  <2> QED BY <1>5, <2>1, <2>2, <2>3
<1>9. CASE Verify(p) /\ ~Exit(p)
  <2>1. Goto(p, "loaded") /\ At(p, "verify") /\ UNCHANGED <<job, old, man, res, active, value, read>>
    BY <1>9 DEF Verify, local
  <2>2. /\ ManifestOK(read[p].manifest) /\ read[p].evidence \notin Damaged
        /\ read[p].manifest.artifacts["prepared.json"] = read[p].evidence
        /\ read[p].manifest.artifacts["memory.json"] = read[p].result
    BY <1>4, <2>1 DEF ReaderKnows, At
  <2>3. read' = [read EXCEPT ![p] = read[p]]
    BY <1>3, <2>1
  <2> QED BY <1>5, <2>1, <2>2, <2>3
<1>10. CASE UseLoaded(p) /\ ~Exit(p)
  <2> DEFINE j == [job[p] EXCEPT !.evidence = read[p].evidence, !.saved = read[p].result]
  <2>1. /\ At(p, "loaded") /\ Goto(p, "lock") /\ job' = [job EXCEPT ![p] = j]
        /\ read' = [read EXCEPT ![p] = NoRead] /\ UNCHANGED <<old, man, res, active, value>>
    BY <1>10 DEF UseLoaded
  <2>2. /\ ManifestOK(read[p].manifest) /\ read[p].evidence \notin Damaged
        /\ read[p].manifest.artifacts["prepared.json"] = read[p].evidence
        /\ read[p].manifest.artifacts["memory.json"] = read[p].result
    BY <1>4, <2>1 DEF ReaderKnows, At
  <2>3. read[p].result # Absent
    BY <2>1, Whole DEF TypeOK, PlacesOK, At, Damaged
  <2>4. Agrees(read[p].manifest, read[p].result)
    BY <2>2, <2>3 DEF ManifestOK
  <2>5. Derived(read[p].result) /\ read[p].evidence = read[p].result.evidence
    BY <2>2, <2>4 DEF Agrees, Damaged
  <2>6. j.evidence = read[p].evidence /\ j.saved = read[p].result
    BY <1>3 DEF Jobs
  <2> HIDE DEF j
  <2>7. /\ pc'[p] = "lock" /\ job'[p] = j
        /\ \A q \in Procs \ {p} : job'[q] = job[q] /\ read'[q] = read[q]
    BY <1>3, <2>1 DEF Goto, TypeOK, LocalsOK
  <2>8. "lock" \notin Writing
    BY ReadingIsNotWriting DEF ReadingPlaces
  <2>9. ReaderKnows(p)'
    BY <2>2, <2>5, <2>6, <2>7, <2>8 DEF ReaderKnows, Writing
  <2> QED BY <1>1, <2>1, <2>7, <2>8, <2>9, OnlyReads
<1> QED BY <1>2, <1>6, <1>7, <1>8, <1>9, <1>10 DEF LoadSaved

LEMMA TamperTells ==
  ASSUME TypeOK, StoryInv, NEW f \in Fragile, Tamper(f)
  PROVE  StoryInv'
<1>1. PICK harm \in Damaged : Save(f, harm)
  BY DEF Tamper
<1>2. f \in Files \ Reports /\ DOMAIN disk = Files /\ disk' = [disk EXCEPT ![f] = harm]
  BY <1>1, FragileAssumption DEF Save, TypeOK, DiskOK
<1>3. \A g \in Files : disk'[g] = disk[g] \/ disk'[g] \in Damaged
  BY <1>1, <1>2
<1>4. {"manifest.json", "memory.json"} \cup Reports \subseteq Files /\ \A g \in Reports : disk'[g] = disk[g]
  BY <1>2 DEF Files, Artifacts
<1>5. /\ OnDisk' = OnDisk \/ OnDisk' \in Damaged
      /\ Told' => Told /\ OnDisk' = OnDisk /\ disk'["memory.json"] = disk["memory.json"]
      /\ Untold => Untold'
  BY <1>3, <1>4 DEF OnDisk, Told, Untold
<1>6. DiskTells'
  BY <1>4, <1>5 DEF StoryInv, DiskTells
<1>7. UNCHANGED <<pc, job, old, man, res, active, value, read>>
  BY DEF Tamper, local
<1>8. ASSUME NEW p \in Procs
      PROVE  WriterTells(p)' /\ ReaderKnows(p)'
  <2>1. WriterTells(p) /\ ReaderKnows(p)
    BY DEF StoryInv
  <2>2. ReaderKnows(p)'
    BY <1>7, <2>1 DEF ReaderKnows, IsCompare
  <2>3. \A m : Lying(m, disk) => Lying(m, disk')
    BY <1>1, <1>2, LyingDamaged
  <2>4. \A c : /\ Lies(disk, "memory.json", c) => Lies(disk', "memory.json", c)
               /\ Lies(disk, "manifest.json", c) => Lies(disk', "manifest.json", c)
    BY <1>3, <1>4 DEF Lies
  <2>5. /\ Identity(p, active[p])' = Identity(p, active[p])
        /\ Due(p)' = Due(p) /\ Guided(p)' = Guided(p) /\ IsCompare(p)' = IsCompare(p)
        /\ disk'["report.md"] = disk["report.md"]
    BY <1>4, <1>7 DEF Identity, Due, Guided, IsCompare, Reports
  <2>6. WriterTells(p)'
    BY <1>4, <1>5, <1>7, <2>1, <2>3, <2>4, <2>5 DEF WriterTells, At
  <2> QED BY <2>2, <2>6
<1> QED BY <1>6, <1>8 DEF StoryInv

LEMMA NextStory ==
  TypeOK /\ OneWriter /\ SavedInv /\ RunsInv /\ StoryInv /\ [Next]_vars => StoryInv'
<1> SUFFICES ASSUME TypeOK, OneWriter, SavedInv, RunsInv, StoryInv, [Next]_vars
             PROVE  StoryInv'
  OBVIOUS
<1>1. CASE UNCHANGED vars
  <2>1. UNCHANGED <<disk, pc, job, old, man, res, active, value, read>>
    BY <1>1 DEF vars, local
  <2>2. DiskTells' = DiskTells
    BY <2>1 DEF DiskTells, Told, OnDisk
  <2>3. \A p \in Procs : ReaderKnows(p)' = ReaderKnows(p)
    BY <2>1 DEF ReaderKnows, IsCompare
  <2>4. \A p \in Procs : WriterTells(p)' = WriterTells(p)
    BY <2>1 DEF WriterTells, Untold, Told, OnDisk, Due, Identity, Guided, IsCompare, At
  <2> QED BY <2>2, <2>3, <2>4 DEF StoryInv
<1>2. ASSUME NEW p \in Procs, Start(p)
      PROVE  StoryInv'
  BY <1>2, StartTells
<1>3. ASSUME NEW p \in Procs, Step(p)
      PROVE  StoryInv'
  <2>1. CASE Stage(p)
    BY <2>1, BeginStageTells, ResumeStageTells, ExecuteStageTells, CommitStageTells DEF Stage
  <2>2. CASE Between(p)
    BY <2>2, ExportCommandsTells, PersistExportTells, SaveGuidanceTells, SaveProposalsTells DEF Between
  <2>3. CASE Publish(p)
    BY <2>3, SaveResultTells, PersistResultTells, RenderTells, RenderFailsTells, PersistFinalTells
       DEF Publish
  <2> QED BY <1>3, <2>1, <2>2, <2>3, LockForCompareTells, PrepareInputsTells, OpenManifestTells,
             PreparationFailedTells, AnnounceTells, LoadSavedTells DEF Step
<1>4. ASSUME NEW p \in Procs, Crash(p)
      PROVE  StoryInv'
  BY <1>4, ExitTells DEF Crash
<1>5. ASSUME NEW f \in Fragile, Tamper(f)
      PROVE  StoryInv'
  BY <1>5, TamperTells
<1> QED BY <1>1, <1>2, <1>3, <1>4, <1>5 DEF Next

LEMMA StoryAlways == Spec => []StoryInv
<1>1. Init => StoryInv
  BY DEF Init, StoryInv, DiskTells, Told, OnDisk, Files, WriterTells, ReaderKnows, At, Working,
         StagePlaces, Drafting, Announcing, Rendering, Writing, Damaged
<1>2. TypeOK /\ OneWriter /\ SavedInv /\ RunsInv /\ StoryInv /\ [Next]_vars => StoryInv'
  BY NextStory
<1> QED BY <1>1, <1>2, TypeCorrect, WritersAreExclusive, SavedAlways, RunsAlways, PTL DEF Spec

-----------------------------------------------------------------------------
(***************************************************************************)
(* What the invariant says of a loadable and of a loaded result.           *)
(***************************************************************************)
LEMMA LoadableTells ==
  ASSUME TypeOK, StoryInv, Loadable
  PROVE  /\ Told /\ disk["memory.json"] \in Results
         /\ Agrees(OnDisk, disk["memory.json"])
         /\ disk["memory.json"].evidence = disk["prepared.json"]
<1>1. Told /\ OnDisk \notin Damaged /\ disk["memory.json"] \notin Damaged
  BY DEF Loadable, Told
<1>2. ManifestOK(OnDisk)
  BY <1>1 DEF StoryInv, DiskTells
<1>3. OnDisk.artifacts["memory.json"] = disk["memory.json"] /\ disk["memory.json"] # Absent
  BY <1>1 DEF Told, Damaged
<1>4. Agrees(OnDisk, disk["memory.json"])
  BY <1>2, <1>3 DEF ManifestOK
<1>5. disk["memory.json"].evidence = disk["prepared.json"]
  BY <1>4 DEF Agrees, Loadable, Damaged
<1>6. disk["memory.json"] \in Results
  BY <1>1 DEF TypeOK, DiskOK
<1> QED BY <1>1, <1>4, <1>5, <1>6

\* However many runs, crashes and files damaged from outside it took, a result that can
\* be loaded was derived from the evidence beside it: a resumed stage, a comparison that
\* takes proposals over, and a partial failure never mix what belongs to different inputs.
THEOREM ResultStaysCoherent == Spec => []ResultIsCoherent
<1>1. TypeOK /\ StoryInv => ResultIsCoherent
  <2> SUFFICES ASSUME TypeOK, StoryInv, Loadable
               PROVE  LET x == disk["memory.json"]
                      IN  /\ x.evidence = disk["prepared.json"]
                          /\ x.features # Absent => x.features.in = x.evidence
                          /\ x.candidates # Absent =>
                               x.candidates.in = [evidence |-> x.evidence, features |-> x.features]
                          /\ x.assessments # Absent =>
                               /\ x.assessments.in.candidates = x.candidates
                               /\ disk["guidance.json"] = GuidanceFile(x.assessments.in.guidance)
    BY DEF ResultIsCoherent
  <2> DEFINE x == disk["memory.json"]
  <2>1. Agrees(OnDisk, x) /\ x.evidence = disk["prepared.json"]
    BY LoadableTells
  <2>2. ListedFilesMatch(OnDisk)
    BY DEF Loadable, Accepted
  <2> HIDE DEF x
  <2>3. x.features # Absent => x.features.in = x.evidence
    BY <2>1 DEF Agrees, Derived, MadeFrom
  <2>4. x.candidates # Absent =>
          x.candidates.in = [evidence |-> x.evidence, features |-> x.features]
    BY <2>1 DEF Agrees, Derived, MadeFrom
  <2>5. ASSUME x.assessments # Absent
        PROVE  /\ x.assessments.in.candidates = x.candidates
               /\ disk["guidance.json"] = GuidanceFile(x.assessments.in.guidance)
    <3>1. /\ x.assessments.in.candidates = x.candidates
          /\ OnDisk.artifacts["guidance.json"] = GuidanceFile(x.assessments.in.guidance)
      BY <2>1, <2>5 DEF Agrees, Derived
    <3>2. OnDisk.artifacts["guidance.json"] # Absent /\ "guidance.json" \in Artifacts
      BY <3>1, Whole DEF Damaged, Artifacts
    <3> QED BY <2>2, <3>1, <3>2 DEF ListedFilesMatch
  <2> QED BY <2>1, <2>3, <2>4, <2>5 DEF x
<1> QED BY <1>1, TypeCorrect, StoryAlways, PTL

\* Manifest, result and reports of a directory that can be loaded tell of one run: a kill
\* between two of the files that a run publishes never shows two of them at odds.
THEOREM ResultStaysToldOnce == Spec => []ResultIsToldOnce
<1>1. TypeOK /\ StoryInv => ManifestAgreesWithResult
  <2> SUFFICES ASSUME TypeOK, StoryInv, Loadable
               PROVE  /\ disk["memory.json"].run = OnDisk.run
                      /\ disk["memory.json"].status = "blocked" =>
                           OnDisk.stages[disk["memory.json"].failing].status = "blocked"
                      /\ disk["memory.json"].status # "blocked" =>
                           \A s \in STAGES \ {"rendering"} :
                             OnDisk.stages[s].status \in {"complete", "skipped"}
    BY DEF ManifestAgreesWithResult
  <2>1. Agrees(OnDisk, disk["memory.json"])
    BY LoadableTells
  <2>2. STAGES \ {"rendering"} = DOMAIN ArtifactOf
    BY ArtifactFacts DEF STAGES
  <2> QED BY <2>1, <2>2 DEF Agrees, Settled
<1>2. TypeOK /\ StoryInv => ReportsShowTheResult
  BY LoadableTells DEF ReportsShowTheResult, StoryInv, DiskTells
<1>3. TypeOK /\ StoryInv => ResultIsToldOnce
  BY <1>1, <1>2 DEF ResultIsToldOnce
<1> QED BY <1>3, TypeCorrect, StoryAlways, PTL

\* load_saved takes no lock; read beside a writer that replaces every file, what it
\* returns is still the evidence and the finished result of one run.
THEOREM LoadIsOneRun == Spec => []LoadedIsOneRun
<1>1. TypeOK /\ StoryInv => LoadedIsOneRun
  <2> SUFFICES ASSUME TypeOK, StoryInv, NEW p \in Procs, At(p, "loaded")
               PROVE  /\ read[p].result.run = read[p].manifest.run
                      /\ read[p].evidence = read[p].result.evidence
                      /\ read[p].result.status # "running"
    BY DEF LoadedIsOneRun
  <2>1. /\ ManifestOK(read[p].manifest) /\ read[p].evidence \notin Damaged
        /\ read[p].manifest.artifacts["prepared.json"] = read[p].evidence
        /\ read[p].manifest.artifacts["memory.json"] = read[p].result
    BY DEF StoryInv, ReaderKnows, At
  <2>2. read[p].result # Absent
    BY Whole DEF TypeOK, PlacesOK, At, Damaged
  <2>3. Agrees(read[p].manifest, read[p].result)
    BY <2>1, <2>2 DEF ManifestOK
  <2> QED BY <2>1, <2>3 DEF Agrees, FinishedResults, Damaged
<1> QED BY <1>1, TypeCorrect, StoryAlways, PTL

\* A run that ends with its listed files undamaged can be loaded with the result that it
\* reports: the last manifest lists exactly what the run left in the directory.
THEOREM FinishedRunsStayShown == Spec => FinishedRunsAreShown
<1>1. TypeOK /\ StoryInv /\ [Next]_vars =>
        [\A p \in Procs :
           /\ PersistFinal(p)
           /\ man[p].artifacts["prepared.json"] # Absent
           /\ \A f \in Artifacts : man[p].artifacts[f] # Absent => disk[f] \notin Damaged
           /\ disk["datasets"] \notin Damaged
           => Visible' = res[p]]_vars
  <2> SUFFICES ASSUME TypeOK, StoryInv, NEW p \in Procs, PersistFinal(p),
                      man[p].artifacts["prepared.json"] # Absent,
                      \A f \in Artifacts : man[p].artifacts[f] # Absent => disk[f] \notin Damaged,
                      disk["datasets"] \notin Damaged
               PROVE  Visible' = res[p]
    OBVIOUS
  <2>1. At(p, "persist-final") /\ pc[p] \in Rendering /\ Save("manifest.json", man[p])
    BY DEF PersistFinal, At, Rendering
  <2>2. /\ man[p] \in Manifests /\ res[p] \in Results /\ DOMAIN disk = Files
        /\ Agrees(man[p], res[p]) /\ man[p].artifacts["memory.json"] = res[p]
        /\ Lying(man[p], disk)
    BY <2>1, AtRender
  <2>3. man[p] \notin Damaged /\ res[p] \notin Damaged
    BY <2>2, Whole
  <2>4. /\ disk'["manifest.json"] = man[p]
        /\ \A f \in Artifacts \cup {"datasets"} : disk'[f] = disk[f]
    BY <2>1, <2>2 DEF Save, Files, Artifacts
  <2>5. /\ \A f \in Artifacts : man[p].artifacts[f] # Absent => disk[f] = man[p].artifacts[f]
        /\ man[p].datasets # Absent => disk["datasets"] = man[p].datasets
    BY <2>2 DEF Lying, Lies
  <2>6. res[p].hooks => man[p].datasets # Absent
    BY <2>2 DEF Agrees
  <2>7. "prepared.json" \in Artifacts /\ "memory.json" \in Artifacts /\ res[p] # Absent
    BY <2>3 DEF Artifacts, Damaged
  <2>8. disk'["memory.json"] = res[p]
    BY <2>2, <2>4, <2>5, <2>7
  <2>9. Loadable'
    BY <2>2, <2>3, <2>4, <2>5, <2>6, <2>7, <2>8 DEF Loadable, OnDisk, Accepted, ListedFilesMatch
  <2> QED BY <2>8, <2>9 DEF Visible
<1> QED BY <1>1, TypeCorrect, StoryAlways, PTL DEF Spec, FinishedRunsAreShown

-----------------------------------------------------------------------------
(***************************************************************************)
(* AuditStages implements PublishedAudit.                                  *)
(***************************************************************************)
\* Who looks at the directory does not look at the reports.
LEMMA SameToReaders ==
  ASSUME \A f \in Files \ Reports : disk'[f] = disk[f]
  PROVE  Visible' = Visible
<1>1. /\ \A f \in Artifacts : disk'[f] = disk[f]
      /\ disk'["datasets"] = disk["datasets"] /\ disk'["manifest.json"] = disk["manifest.json"]
      /\ disk'["prepared.json"] = disk["prepared.json"] /\ disk'["memory.json"] = disk["memory.json"]
  BY DEF Files, Reports, Artifacts
<1>2. OnDisk' = OnDisk /\ Loadable' = Loadable
  BY <1>1 DEF OnDisk, Loadable, Accepted, ListedFilesMatch
<1> QED BY <1>1, <1>2 DEF Visible

LEMMA NothingShown ==
  ASSUME Untold' \/ ~Told'
  PROVE  Visible' = Absent
BY DEF Visible, Loadable, Told, Untold, Damaged

\* A run shows its own result, where nothing was shown.
LEMMA OwnResultShown ==
  ASSUME TypeOK, RunsInv, StoryInv, NEW p \in Procs, pc[p] \in Rendering, UNCHANGED history,
         Save("manifest.json", man[p])
  PROVE  [Published!Next]_Published!vars
<1>1. /\ Agrees(man[p], res[p]) /\ man[p].artifacts["memory.json"] = res[p]
      /\ Drawn(man[p], res[p], job[p]) /\ DOMAIN disk = Files /\ pc[p] \in Writing
  BY AtRender
<1>2. current = job[p].run
  <2>1. pc[p] \notin ReadingPlaces /\ ~NotAnnounced(p)
    BY <1>1, ReadingIsNotWriting DEF NotAnnounced, Rendering
  <2> QED BY <1>1, <2>1 DEF RunsInv
<1>3. disk'["memory.json"] = disk["memory.json"] /\ OnDisk' = man[p]
  BY <1>1 DEF Save, Files, Artifacts, OnDisk
<1>4. Visible' = Absent \/ (Visible' = disk["memory.json"] /\ disk["memory.json"] = res[p])
  BY <1>1, <1>3 DEF Visible, Loadable
<1>5. Visible \in {Absent, disk["memory.json"]}
  BY DEF Visible
<1>6. res[p] \in FinishedResults /\ res[p].run = current
  BY <1>1, <1>2 DEF Agrees, Drawn
<1>7. current' = current /\ retired' = retired
  BY DEF history
<1> QED BY <1>4, <1>5, <1>6, <1>7
        DEF Published!Next, Published!Show, Published!Hide, Published!vars

\* A run announces itself, or its failure: what was shown is withdrawn for good.
LEMMA RunWithdraws ==
  ASSUME TypeOK, RunsInv, StoryInv, NEW p \in Procs, FailMemory(p) \/ AnnounceMemory(p)
  PROVE  Published!Next
<1>1. PICK x : /\ x = IF FailMemory(p) THEN FailedResult ELSE res[p]
               /\ Save("memory.json", x)
  BY DEF FailMemory, AnnounceMemory, SaveStep
<1>2. /\ pc[p] \in {"fail-memory", "announce-memory"} /\ Withdraw(p)
      /\ ~FailMemory(p) => pc[p] = "announce-memory"
  BY DEF FailMemory, AnnounceMemory, SaveStep, At
<1>3. x # Absent /\ x \notin FinishedResults
  <2>1. FailedResult \notin FinishedResults /\ FailedResult # Absent
    BY Whole DEF FailedResult, FreshResult, FinishedResults, Damaged
  <2>2. CASE pc[p] = "announce-memory"
    <3>1. pc[p] \in Drafting /\ pc[p] \in Working
      BY <2>2 DEF Drafting, Working, Rendering, StagePlaces
    <3>2. res[p].status = "running" /\ res[p] # Absent
      BY <3>1, AtWork, Whole DEF StoryInv, WriterTells, Ahead, Damaged
    <3> QED BY <1>1, <2>1, <3>2 DEF FinishedResults
  <2> QED BY <1>1, <1>2, <2>1, <2>2
<1>4. OnDisk' = OnDisk /\ disk'["memory.json"] = x
  BY <1>1 DEF Save, TypeOK, DiskOK, Files, Artifacts, OnDisk
<1>5. ~Told'
  BY <1>3, <1>4, Unlisted DEF Told, StoryInv
<1>6. Visible' = Absent
  BY <1>5, NothingShown
<1>7. job[p].run \in Nat \ (retired \cup {0, current})
  <2>1. NotAnnounced(p) /\ pc[p] # "idle" /\ runs \in Nat
    BY <1>2, BoundsAssumption DEF NotAnnounced, TypeOK, HistoryOK, Runs
  <2> QED BY <2>1 DEF RunsInv
<1> QED BY <1>2, <1>6, <1>7 DEF Withdraw, Published!Next, Published!Withdraw

\* A damaged file can only take a result away.
LEMMA DamageHides ==
  ASSUME TypeOK, StoryInv, NEW f \in Fragile, Tamper(f)
  PROVE  Visible' \in {Visible, Absent}
<1>1. PICK harm \in Damaged : Save(f, harm)
  BY DEF Tamper
<1>2. f \in Files /\ \A g \in Files \ {f} : disk'[g] = disk[g]
  BY <1>1, FragileAssumption DEF Save, TypeOK, DiskOK
<1>3. disk'[f] \in Damaged
  BY <1>1, <1>2 DEF Save, TypeOK, DiskOK
<1>4. SUFFICES ASSUME Loadable'
               PROVE  Visible' = Visible
  BY DEF Visible
<1>5. Artifacts \cup {"manifest.json", "datasets", "prepared.json", "memory.json"} \subseteq Files
  BY DEF Files, Artifacts
<1>6. f \notin {"manifest.json", "prepared.json", "memory.json"}
  BY <1>3, <1>4 DEF Loadable, OnDisk
<1>7. /\ OnDisk' = OnDisk /\ disk'["prepared.json"] = disk["prepared.json"]
      /\ disk'["memory.json"] = disk["memory.json"]
  BY <1>2, <1>5, <1>6 DEF OnDisk
<1>8. OnDisk \notin Damaged
  BY <1>4, <1>7 DEF Loadable
<1>9. Sound(OnDisk)
  BY <1>8 DEF StoryInv, DiskTells, ManifestOK
<1>10. \A g \in Artifacts : OnDisk.artifacts[g] # Absent => g # f
  BY <1>3, <1>4, <1>7, <1>9 DEF Loadable, Accepted, ListedFilesMatch, Sound, Damaged
<1>11. OnDisk.datasets # Absent => f # "datasets"
  BY <1>3, <1>4, <1>7, <1>9 DEF Loadable, Accepted, ListedFilesMatch, Sound, Damaged
<1>12. Loadable
  BY <1>2, <1>4, <1>5, <1>7, <1>10, <1>11 DEF Loadable, Accepted, ListedFilesMatch
<1> QED BY <1>4, <1>7, <1>12 DEF Visible

\* Only four steps matter to a reader: the announcement, the manifest that lists the
\* result, its revision, and the last manifest.
LEMMA StepPublished ==
  ASSUME TypeOK, OneWriter, SavedInv, RunsInv, StoryInv, StoryInv', NEW p \in Procs, Step(p)
  PROVE  [Published!Next]_Published!vars
<1> USE DEF At
\* Nothing is shown at a place where the manifest on disk lists no result.
<1>1. ASSUME NEW there \in StagePlaces \cup {"persist-result", "fail-markdown", "fail-html"},
             Goto(p, there), UNCHANGED history
      PROVE  [Published!Next]_Published!vars
  <2>1. pc'[p] = there
    BY <1>1 DEF Goto, TypeOK, LocalsOK
  <2>2. Untold'
    BY <1>1, <2>1 DEF StoryInv, WriterTells
  <2> QED BY <1>1, <2>2, NothingShown DEF Published!Next, Published!Hide, history
<1>2. ASSUME \A f \in Files \ Reports : disk'[f] = disk[f], UNCHANGED history
      PROVE  [Published!Next]_Published!vars
  BY <1>2, SameToReaders DEF Published!vars, history
<1>3. CASE LockForCompare(p) \/ PrepareInputs(p) \/ OpenManifest(p) \/ LoadSaved(p)
  BY <1>2, <1>3 DEF LockForCompare, PrepareInputs, OpenManifest, LoadSaved, ReadManifest,
                    ReadEvidence, ReadResult, Verify, UseLoaded
<1>4. CASE \/ FailMarkdown(p) \/ FailHtml(p) \/ AnnounceMarkdown(p) \/ AnnounceHtml(p)
           \/ RenderMarkdown(p) \/ RenderHtml(p)
  <2>1. UNCHANGED history /\ \E f \in Reports, c \in {Running, Report(FailedResult), Report(res[p])} :
          Save(f, c)
    BY <1>4 DEF FailMarkdown, FailHtml, AnnounceMarkdown, AnnounceHtml, RenderMarkdown, RenderHtml,
                SaveStep, Reports
  <2>2. \A f \in Files \ Reports : disk'[f] = disk[f]
    BY <2>1 DEF Save, TypeOK, DiskOK
  <2> QED BY <1>2, <2>1, <2>2
<1>5. CASE FailManifest(p) \/ AnnounceManifest(p)
  <2>1. UNCHANGED history /\ \E there \in {"fail-markdown", "begin-stage"} : Goto(p, there)
    BY <1>5 DEF FailManifest, AnnounceManifest, SaveStep
  <2> QED BY <1>1, <2>1 DEF StagePlaces
<1>6. CASE FailMemory(p) \/ AnnounceMemory(p)
  BY <1>6, RunWithdraws
<1>7. CASE Stage(p) \/ Between(p) \/ SaveResult(p)
  <2>1. UNCHANGED history
    BY <1>7 DEF Stage, BeginStage, ResumeStage, ExecuteStage, CommitStage, Between, ExportCommands,
                PersistExport, SaveGuidance, SaveProposals, SaveResult, SaveStep
  <2>2. \E there \in StagePlaces \cup {"persist-result"} : Goto(p, there)
    BY <1>7 DEF Stage, BeginStage, ResumeStage, ExecuteStage, CommitStage, Between, ExportCommands,
                PersistExport, SaveGuidance, SaveProposals, SaveResult, SaveStep, TakeProposals, Block,
                StagePlaces
  <2> QED BY <1>1, <2>1, <2>2
<1>8. CASE PersistResult(p) \/ PersistFinal(p)
  <2>1. pc[p] \in Rendering /\ UNCHANGED history /\ Save("manifest.json", man[p])
    BY <1>8 DEF PersistResult, PersistFinal, SaveStep, Rendering
  <2> QED BY <2>1, OwnResultShown
<1>9. CASE RenderFails(p)
  <2> DEFINE x == Blocked(res[p], "rendering")
  <2>1. /\ pc[p] \in {"render-markdown", "render-html"} /\ pc[p] \in Rendering \ {"persist-final"}
        /\ UNCHANGED history /\ Save("memory.json", x)
    BY <1>9 DEF RenderFails, Rendering
  <2>2. /\ res[p] \in Results /\ man[p].artifacts["memory.json"] = res[p] /\ WriterTells(p)
        /\ DOMAIN disk = Files
    BY <2>1, AtRender
  <2>3. res[p].failing # "rendering" /\ Lies(disk, "manifest.json", man[p])
    BY <2>1, <2>2 DEF WriterTells
  <2>4. x.failing = "rendering"
    BY <2>2, BlockedFacts DEF STAGES
  <2> HIDE DEF x
  <2>5. OnDisk' = OnDisk /\ disk'["memory.json"] = x
    BY <2>1, <2>2 DEF Save, Files, Artifacts, OnDisk
  <2>6. ~Told'
    BY <2>2, <2>3, <2>4, <2>5 DEF Told, Lies, OnDisk
  <2> QED BY <2>1, <2>6, NothingShown DEF Published!Next, Published!Hide, history
<1> QED BY <1>3, <1>4, <1>5, <1>6, <1>7, <1>8, <1>9 DEF Step, PreparationFailed, Announce, Publish

\* Each step of the audit is a step of the promise or changes nothing of it: a run
\* withdraws what was shown when it announces itself, shows its own result when it saves
\* the manifest, and no other step, crash or damage brings a result to light.
THEOREM PublishedHolds == Spec => PublishedSpec
<1>1. Init => Published!Init
  BY DEF Init, Published!Init, Visible, Loadable, OnDisk, Files, Damaged
<1>2. /\ TypeOK /\ OneWriter /\ SavedInv /\ RunsInv /\ StoryInv /\ [Next]_vars /\ StoryInv'
      => [Published!Next]_Published!vars
  <2> SUFFICES ASSUME TypeOK, OneWriter, SavedInv, RunsInv, StoryInv, [Next]_vars, StoryInv'
               PROVE  [Published!Next]_Published!vars
    OBVIOUS
  <2>1. ASSUME UNCHANGED <<disk, history>>
        PROVE  [Published!Next]_Published!vars
    BY <2>1, SameToReaders DEF Published!vars, history
  <2>2. CASE UNCHANGED vars
    BY <2>1, <2>2 DEF vars
  <2>3. ASSUME NEW p \in Procs, Start(p) \/ Crash(p)
        PROVE  [Published!Next]_Published!vars
    BY <2>1, <2>3 DEF Start, Begin, Crash
  <2>4. ASSUME NEW p \in Procs, Step(p)
        PROVE  [Published!Next]_Published!vars
    BY <2>4, StepPublished
  <2>5. ASSUME NEW f \in Fragile, Tamper(f)
        PROVE  [Published!Next]_Published!vars
    BY <2>5, DamageHides DEF Published!Next, Published!Hide, Published!vars, Tamper, history
  <2> QED BY <2>2, <2>3, <2>4, <2>5 DEF Next
<1> QED BY <1>1, <1>2, TypeCorrect, WritersAreExclusive, SavedAlways, RunsAlways, StoryAlways, PTL
        DEF Spec, PublishedSpec, Published!Spec
=============================================================================
