------------------------------- MODULE LabelStore -------------------------------
(***************************************************************************)
(* The label store: labels.py and the commands `label` and `eval` of       *)
(* cli.py.  Commands of several annotators share one file of lines, which  *)
(* they read whole and append to, without a lock.  A line is a record      *)
(*   [item, root, feature, crit, hand, split, answer, sure]                *)
(* (crit: feature_version and criteria_hash; sure: the confidence lies     *)
(* outside 0.3 to 0.7)                                                     *)
(* or Bad, one that no reader accepts.  `lines` are the lines that were    *)
(* ended, `end` is what stands behind the last line end, if anything: a    *)
(* row that a reader takes as it is, or Bad, the beginning of a row or     *)
(* several glued together.  `half` is the command that may still complete  *)
(* the beginning of a row.  An append is buffered, and may be cut anywhere:*)
(* at a line end, inside a row, and between a row and its line end.        *)
(***************************************************************************)
EXTENDS Integers, SequencesExt

CONSTANTS Commands,      \* processes
          Objects,       \* Objects[root][scope]: the objects of a trace, in order
          Bank,          \* Bank[scope]: the features asked of an object
          Paths,         \* the sequences of roots that a path holds
          Hands,         \* annotators, numbers
          Splits, Answers, Sures, None,
          MaxCommands, MaxLabelKills   \* bounds

Scopes == <<"task", "episode", "turn">>
IsSequence(s) == s \in Seq(Range(s))

VARIABLES made, lines, end, half, \* the store: whether the file exists, and what is in it
          burned,              \* its marker
          cmd,                 \* what each command is at
          reports,             \* the evaluations that came out
          started, killed, overlap

Bad == [bad |-> TRUE]
NoOne == "NoOne"
ASSUME LabelAssumption ==
  /\ NoOne \notin Commands /\ None \notin Splits /\ Hands \subseteq Nat
  /\ Paths \subseteq Seq(DOMAIN Objects)
  /\ \A s \in DOMAIN Scopes : IsSequence(Bank[Scopes[s]]) /\ \A root \in DOMAIN Objects : IsSequence(Objects[root][Scopes[s]])
lvars == <<made, lines, end, half, burned, cmd, reports, started, killed, overlap>>
NoCommand == [at |-> "idle", batch |-> <<>>, cut |-> "line", held |-> FALSE]
LabelInit ==
  /\ made = FALSE /\ lines = <<>> /\ end = <<>> /\ half = NoOne /\ burned = FALSE /\ reports = <<>>
  /\ cmd = [p \in Commands |-> NoCommand] /\ started = 0 /\ killed = 0 /\ overlap = FALSE

\* load_records: the last line counts without its line end, and one bad line refuses the whole
Rows == lines \o end
Readable == ~Contains(Rows, Bad)

RecordKey(r) == <<r.item, r.feature, r.crit, r.hand>>
LabelledKeys(rows) == {RecordKey(rows[n]) : n \in DOMAIN rows}

\* pinned_splits and check_split_pinned: the first row of a root says its split
PinOf(rows, root) ==
  LET of == {n \in DOMAIN rows : rows[n].root = root} IN IF of = {} THEN None ELSE rows[Min(of)].split
Conflicts(rows, root, split) == PinOf(rows, root) \notin {None, split}

\* collect_drafts: one row per object and feature, tasks before episodes before turns
PendingRecord(root, item, feature, hand, split) ==
  [item |-> item, root |-> root, feature |-> feature.id, crit |-> feature.crit, hand |-> hand, split |-> split,
   answer |-> None, sure |-> None]
CollectDrafts(root, hand, split) ==
  FlattenSeq([s \in DOMAIN Scopes |->
    FlattenSeq([o \in DOMAIN Objects[root][Scopes[s]] |->
      [f \in DOMAIN Bank[Scopes[s]] |-> PendingRecord(root, Objects[root][Scopes[s]][o], Bank[Scopes[s]][f], hand, split)]])])

Answered(draft, answer, sure) == [draft EXCEPT !.answer = answer, !.sure = IF answer = None THEN None ELSE sure]
DraftsOf(roots, hand, split) == FlattenSeq([n \in DOMAIN roots |-> CollectDrafts(roots[n], hand, split)])

\* Mutant of BatchOf: what the store holds already is labelled again.
BatchOfAll(roots, hand, split, answer, sure) ==
  LET drafts == DraftsOf(roots, hand, split) IN [k \in DOMAIN drafts |-> Answered(drafts[k], answer, sure)]

\* the batch of `label`: what is neither in the store nor in this batch, answered
Enlisted(batch, row) == IF RecordKey(row) \in LabelledKeys(Rows) \cup LabelledKeys(batch) THEN batch ELSE Append(batch, row)
BatchOf(roots, hand, split, answer, sure) ==
  LET drafts == DraftsOf(roots, hand, split)
  IN FoldLeft(Enlisted, <<>>, [k \in DOMAIN drafts |-> Answered(drafts[k], answer, sure)])

StartCommand(p, then) ==
  /\ cmd[p].at = "idle" /\ started < MaxCommands /\ started' = started + 1
  /\ overlap' = (overlap \/ \E q \in Commands \ {p} : cmd[q].at # "idle")
  /\ cmd' = [cmd EXCEPT ![p] = then]
  /\ UNCHANGED <<made, lines, end, half, burned, reports, killed>>

\* label_cmd up to append_records; a conflict or an unreadable store ends the command
Label(p, roots, hand, split, answer, sure) ==
  LET refused == ~Readable \/ \E n \in DOMAIN roots : Conflicts(Rows, roots[n], split)
      batch == BatchOf(roots, hand, split, answer, sure)
  IN StartCommand(p, IF refused THEN NoCommand ELSE IF batch = <<>> THEN NoCommand ELSE [NoCommand EXCEPT !.at = "append", !.batch = batch])

\* append_records: the pins are looked up again before the file is opened and anything written
Recheck(p) ==
  LET refused == ~Readable \/ \E n \in DOMAIN cmd[p].batch : Conflicts(Rows, cmd[p].batch[n].root, cmd[p].batch[n].split) IN
  /\ cmd[p].at = "append"
  /\ cmd' = [cmd EXCEPT ![p] = IF refused THEN NoCommand ELSE [@ EXCEPT !.at = "write"]]
  /\ made' = (made \/ ~refused)
  /\ UNCHANGED <<lines, end, half, burned, reports, started, killed, overlap>>

\* Every row is written in three pieces, so that a flush or a kill may come at any place.
Writes(p, from, to) ==
  /\ cmd[p].at = "write" /\ cmd[p].cut = from
  /\ cmd' = [cmd EXCEPT ![p].cut = to]
  /\ UNCHANGED <<made, lines, burned, reports, started, killed, overlap>>

\* a row begins, on a line of its own unless one was left without its end
StartRow(p) ==
  /\ Writes(p, "line", "in")
  /\ end' = <<Bad>> /\ half' = IF end = <<>> THEN p ELSE NoOne

\* the rest of the row: it is whole if nothing came in between
RestOfRow(p) ==
  /\ Writes(p, "in", "nl")
  /\ end' = <<IF half = p THEN Head(cmd[p].batch) ELSE Bad>> /\ half' = NoOne

\* the line end; without anything before it, it is a blank line, which readers skip
EndLine(p) ==
  LET rest == Tail(cmd[p].batch) IN
  /\ cmd[p].at = "write" /\ cmd[p].cut = "nl"
  /\ lines' = lines \o end /\ end' = <<>> /\ half' = NoOne
  /\ cmd' = [cmd EXCEPT ![p] = IF rest = <<>> THEN NoCommand ELSE [NoCommand EXCEPT !.at = "write", !.batch = rest]]
  /\ UNCHANGED <<made, burned, reports, started, killed, overlap>>

-----------------------------------------------------------------------------
(* eval_store, for the rows of one feature.                                  *)

Groups(rows) == {<<rows[n].item, rows[n].crit>> : n \in DOMAIN rows}
FirstBy(rows, g, h) == rows[Min({n \in DOMAIN rows : <<rows[n].item, rows[n].crit, rows[n].hand>> = <<g[1], g[2], h>>})]
HandsOf(rows, g) == {rows[n].hand : n \in {m \in DOMAIN rows : <<rows[m].item, rows[m].crit>> = g}}

EvalFeature(all) ==
  LET rows == RestrictValues(all, LAMBDA r : r.answer # None)
      double == {g \in Groups(rows) : Cardinality(HandsOf(rows, g)) >= 2}
      \* of three annotators only the first two by name are compared
      left(g) == FirstBy(rows, g, Min(HandsOf(rows, g)))
      right(g) == FirstBy(rows, g, Min(HandsOf(rows, g) \ {Min(HandsOf(rows, g))}))
      agree(g) == left(g).answer = right(g).answer
      known == {g \in double : None \notin {left(g).sure, right(g).sure}}
      confident == {g \in known : left(g).sure = "yes" /\ right(g).sure = "yes"}
  IN [n |-> Cardinality(DOMAIN rows), skipped |-> Cardinality(DOMAIN all \ DOMAIN rows),
      positive |-> Cardinality({n \in DOMAIN rows : rows[n].answer = "yes"}),
      compared |-> Cardinality(double), agreed |-> Cardinality({g \in double : agree(g)}),
      confident |-> Cardinality(confident), confidentAgreed |-> Cardinality({g \in confident : agree(g)}),
      uncertain |-> Cardinality(known \ confident)]

EvalStore(rows) ==
  [f \in {rows[n].feature : n \in DOMAIN rows} |-> EvalFeature(RestrictValues(rows, LAMBDA r : r.feature = f))]

\* eval_cmd: the marker is looked up first and set last
Eval(p, held) ==
  LET refused == (held /\ burned) \/ ~made \/ ~Readable IN
  StartCommand(p, IF refused THEN NoCommand ELSE [NoCommand EXCEPT !.at = "emit", !.batch = Rows, !.held = held])

Emit(p) ==
  /\ cmd[p].at = "emit"
  /\ reports' = Append(reports, [held |-> cmd[p].held, report |-> EvalStore(cmd[p].batch)])
  /\ cmd' = [cmd EXCEPT ![p] = IF @.held THEN [NoCommand EXCEPT !.at = "mark"] ELSE NoCommand]
  /\ UNCHANGED <<made, lines, end, half, burned, started, killed, overlap>>

Mark(p) ==
  /\ cmd[p].at = "mark"
  /\ burned' = TRUE /\ cmd' = [cmd EXCEPT ![p] = NoCommand]
  /\ UNCHANGED <<made, lines, end, half, reports, started, killed, overlap>>

KillCommand(p) ==
  /\ cmd[p].at # "idle" /\ killed < MaxLabelKills /\ killed' = killed + 1
  /\ cmd' = [cmd EXCEPT ![p] = NoCommand] /\ half' = IF half = p THEN NoOne ELSE half
  /\ UNCHANGED <<made, lines, end, burned, reports, started, overlap>>

LabelNext ==
  \E p \in Commands :
    \/ \E roots \in Paths, hand \in Hands, split \in Splits,
          answer \in Answers, sure \in Sures : Label(p, roots, hand, split, answer, sure)
    \/ \E held \in BOOLEAN : Eval(p, held)
    \/ Recheck(p) \/ StartRow(p) \/ RestOfRow(p) \/ EndLine(p) \/ Emit(p) \/ Mark(p) \/ KillCommand(p)

LabelSpec == LabelInit /\ [][LabelNext]_lvars

-----------------------------------------------------------------------------
\* As long as no two commands overlap, the rows that can be read give a root one split and an
\* object one label of an annotator under one criterion, also where commands were killed and run
\* again.  Kills may make the file one that is refused, but spoil at most one line before the
\* last one; without a kill no line is spoiled, and the last one has its end unless a row is
\* being written (labels.py:87-123).
LabelsArePinned ==
  ~overlap =>
    /\ \A m, n \in DOMAIN Rows : Rows[m] # Bad /\ Rows[n] # Bad =>
         /\ Rows[m].root = Rows[n].root => Rows[m].split = Rows[n].split
         /\ m # n => RecordKey(Rows[m]) # RecordKey(Rows[n])
    /\ \A m, n \in DOMAIN lines : lines[m] = Bad /\ lines[n] = Bad => m = n
    /\ killed = 0 => ~Contains(lines, Bad) /\ (end # <<>> => \E p \in Commands : cmd[p].at = "write")

\* Of the evaluations called with the flag --held-out one comes out, unless they overlap or one is
\* killed before it marked the store; the mark is never set before one came out.  A compared pair
\* is of two annotators, and no count exceeds what it is a part of (cli.py:650-669).
HeldOutCommandReportsOnce ==
  LET held == {n \in DOMAIN reports : reports[n].held} IN
  /\ ~overlap /\ killed = 0 => Cardinality(held) <= 1
  /\ burned => held # {}
  /\ \A n \in DOMAIN reports : \A f \in DOMAIN reports[n].report :
       LET r == reports[n].report[f] IN
       /\ r.agreed <= r.compared /\ 2 * r.compared <= r.n
       /\ r.confident + r.uncertain <= r.compared /\ r.confidentAgreed <= r.agreed

\* The store can be trusted by those who take turns: one split per root, one label per key, at most
\* one line lost to kills, one report to those who ask with --held-out (labels.py:87-123,
\* cli.py:650-669).  What a plain `eval` shows is not counted: it reads the held-out rows too.
StoreIsTrustworthy == LabelsArePinned /\ HeldOutCommandReportsOnce
=============================================================================
