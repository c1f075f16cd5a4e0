---------------------------- MODULE SitePublish ----------------------------
(***************************************************************************)
(* Publishing the HTML report (src/agent_hotwash/report/site.py): a front  *)
(* page and the directory of evidence it links to are replaced by three    *)
(* renames, undone when a call fails.                                      *)
(*                                                                         *)
(* A directory is what it holds: the pages of one publication (a number),  *)
(* all of them or not, with the marker file that makes it the program's    *)
(* own or without.  The names of stage, backup and temporary front page    *)
(* are unique: what a publication leaves there nobody finds again.  Any    *)
(* call to the file system may fail, the publisher may be killed between   *)
(* any two of them and in the middle of a deletion.                        *)
(***************************************************************************)
EXTENDS Naturals

CONSTANTS
  Publishers,       \* the processes that publish to one place
  MaxPublications,  \* bound on the publications started
  MaxFaults,        \* bound on the failing calls of one publication
  MaxKills          \* bound on the publishers killed

ASSUME BoundsAssumption == {MaxPublications, MaxFaults, MaxKills} \subseteq Nat

Nothing  == [of |-> 0, is |-> "absent"]
Foreign  == [of |-> 0, is |-> "foreign"]  \* not written by this program
Pages(v) == [of |-> v, is |-> "whole"]
\* What remains of a directory whose deletion stopped, the marker gone or not.
Remains(d) == {[of |-> d.of, is |-> "broken"], [of |-> d.of, is |-> "bare"]}
Unknown == [front |-> 0, evid |-> Nothing]
Directories == {Nothing, Foreign} \cup [of : Nat, is : {"whole", "broken", "bare"}]

VARIABLES
  front,   \* the publication whose front page is at the target, 0 if none
  evid,    \* the directory at the place of the evidence
  attic,   \* backups whose name nobody knows any more
  count,   \* the publications started
  kills,   \* the publishers killed
  at,      \* where each publisher stands in write_html_site
  mine,    \* the number of its publication
  stage,   \* its stage directory exists
  tmp,     \* its temporary front page exists
  backup,  \* its backup directory; old_moved says that there is one
  new,     \* its variable new_installed
  faults,  \* the calls that failed it
  before,  \* history: front page and evidence when it started
  met,     \* history: two publications overlapped
  meddled, \* history: the user used the place during a publication
  trouble, \* history: a call failed by itself
  shown    \* history: the publications whose front page was put in place

local  == <<at, mine, stage, tmp, backup, new, faults, before>>
public == <<front, evid, attic>>
story  == <<met, meddled, trouble, shown>>
vars   == <<public, count, kills, local, story>>

Init ==
  /\ front = 0 /\ evid \in {Nothing, Foreign} /\ attic = {}
  /\ count = 0 /\ kills = 0
  /\ at = [p \in Publishers |-> "idle"]
  /\ mine = [p \in Publishers |-> 0]
  /\ stage = [p \in Publishers |-> FALSE]
  /\ tmp = [p \in Publishers |-> FALSE]
  /\ backup = [p \in Publishers |-> Nothing]
  /\ new = [p \in Publishers |-> FALSE]
  /\ faults = [p \in Publishers |-> 0]
  /\ before = [p \in Publishers |-> Unknown]
  /\ met = FALSE /\ meddled = FALSE /\ trouble = FALSE /\ shown = {}

-----------------------------------------------------------------------------
Exists(d) == d.is # "absent"
Marked(d) == d.is \in {"whole", "broken"}
Step(p, here, there) == at[p] = here /\ at' = [at EXCEPT ![p] = there]
Before == [front |-> front, evid |-> evid]
Idle == \A p \in Publishers : at[p] = "idle"

\* A call of p raises: into the except clause, or out of it.
Raise(p, here, there) ==
  /\ Step(p, here, there)
  /\ UNCHANGED <<count, kills, mine, stage, tmp, backup, new, before, met, meddled, shown>>

\* ... for a reason of the file system's own.
Fault(p) ==
  /\ faults[p] < MaxFaults
  /\ faults' = [faults EXCEPT ![p] = @ + 1]
  /\ trouble' = TRUE

NoFault == UNCHANGED <<faults, trouble>>

\* Mutant of MayReplace: whatever is there is replaced.
ReplaceAnything == TRUE

\* A place in use by something else is refused before anything is written.
MayReplace == Exists(evid) => Marked(evid)

Start(p) ==
  /\ count < MaxPublications
  /\ MayReplace
  /\ Step(p, "idle", "build")
  /\ count' = count + 1
  /\ mine' = [mine EXCEPT ![p] = count + 1]
  /\ stage' = [stage EXCEPT ![p] = TRUE]
  /\ before' = [before EXCEPT ![p] = Before]
  /\ met' = (met \/ ~Idle)
  /\ UNCHANGED <<public, kills, tmp, backup, new, faults, meddled, trouble, shown>>

\* All pages, the front page and the marker, beside the place they are for.
Build(p) ==
  /\ Step(p, "build", "look")
  /\ tmp' = [tmp EXCEPT ![p] = TRUE]
  /\ UNCHANGED <<public, count, kills, mine, stage, backup, new, faults, before, story>>

BuildFails(p) == Raise(p, "build", "undo") /\ Fault(p) /\ UNCHANGED public

Look(p) ==
  /\ Step(p, "look", IF Exists(evid) THEN "move" ELSE "install")
  /\ UNCHANGED <<public, count, kills, mine, stage, tmp, backup, new, faults, before, story>>

Move(p) ==
  /\ Exists(evid)
  /\ Step(p, "move", "install")
  /\ backup' = [backup EXCEPT ![p] = evid]
  /\ evid' = Nothing
  /\ UNCHANGED <<front, attic, count, kills, mine, stage, tmp, new, faults, before, story>>

MoveFails(p) ==
  /\ Raise(p, "move", "undo")
  /\ Fault(p) \/ (~Exists(evid) /\ NoFault)
  /\ UNCHANGED public

\* A directory is not renamed over one that is not empty.
Install(p) ==
  /\ ~Exists(evid)
  /\ Step(p, "install", "replace")
  /\ evid' = Pages(mine[p])
  /\ stage' = [stage EXCEPT ![p] = FALSE]
  /\ new' = [new EXCEPT ![p] = TRUE]
  /\ UNCHANGED <<front, attic, count, kills, mine, tmp, backup, faults, before, story>>

InstallFails(p) ==
  /\ Raise(p, "install", "undo")
  /\ Fault(p) \/ (Exists(evid) /\ NoFault)
  /\ UNCHANGED public

Replace(p) ==
  /\ Step(p, "replace", "sweep")
  /\ front' = mine[p]
  /\ tmp' = [tmp EXCEPT ![p] = FALSE]
  /\ shown' = shown \cup {mine[p]}
  /\ UNCHANGED <<evid, attic, count, kills, mine, stage, backup, new, faults, before, met, meddled, trouble>>

ReplaceFails(p) == Raise(p, "replace", "undo") /\ Fault(p) /\ UNCHANGED public

\* Mutant of RemoveNew: the evidence is removed whoever installed it.
RemoveAnything(p) ==
  /\ Exists(evid)
  /\ Step(p, "undo", "restore")
  /\ evid' = Nothing
  /\ new' = [new EXCEPT ![p] = FALSE]
  /\ UNCHANGED <<front, attic, count, kills, mine, stage, tmp, backup, faults, before, story>>

\* The except clause, first part: what was installed is removed.
RemoveNew(p) ==
  /\ new[p] => Exists(evid)
  /\ Step(p, "undo", "restore")
  /\ evid' = IF new[p] THEN Nothing ELSE evid
  /\ new' = [new EXCEPT ![p] = FALSE]
  /\ UNCHANGED <<front, attic, count, kills, mine, stage, tmp, backup, faults, before, story>>

RemoveFails(p) ==
  /\ new[p]
  /\ Raise(p, "undo", "clean")
  /\ \/ ~Exists(evid) /\ UNCHANGED evid /\ NoFault
     \/ Exists(evid) /\ Fault(p) /\ evid' \in {evid} \cup Remains(evid)
  /\ UNCHANGED <<front, attic>>

\* Mutant of Restore: what was moved away is not brought back.
RestoreNothing(p) ==
  /\ Step(p, "restore", "clean")
  /\ UNCHANGED <<public, count, kills, mine, stage, tmp, backup, new, faults, before, story>>

\* ... second part: what was moved away is brought back.
Restore(p) ==
  /\ Exists(backup[p]) => ~Exists(evid)
  /\ Step(p, "restore", "clean")
  /\ evid' = IF Exists(backup[p]) THEN backup[p] ELSE evid
  /\ backup' = [backup EXCEPT ![p] = Nothing]
  /\ UNCHANGED <<front, attic, count, kills, mine, stage, tmp, new, faults, before, story>>

RestoreFails(p) ==
  /\ Exists(backup[p])
  /\ Raise(p, "restore", "clean")
  /\ Fault(p) \/ (Exists(evid) /\ NoFault)
  /\ UNCHANGED public

\* The else clause: the old evidence is deleted, errors ignored.
Sweep(p) ==
  /\ Step(p, "sweep", "clean")
  /\ \/ backup' = [backup EXCEPT ![p] = Nothing] /\ NoFault
     \/ /\ Exists(backup[p]) /\ Fault(p)
        /\ \E d \in {backup[p]} \cup Remains(backup[p]) : backup' = [backup EXCEPT ![p] = d]
  /\ UNCHANGED <<public, count, kills, mine, stage, tmp, new, before, met, meddled, shown>>

\* The local variables are gone.
Forget(p) ==
  /\ at' = [at EXCEPT ![p] = "idle"]
  /\ mine' = [mine EXCEPT ![p] = 0]
  /\ backup' = [backup EXCEPT ![p] = Nothing]
  /\ new' = [new EXCEPT ![p] = FALSE]
  /\ faults' = [faults EXCEPT ![p] = 0]
  /\ before' = [before EXCEPT ![p] = Unknown]

\* Mutant of Clean: there is no finally clause.
CleanNothing(p) ==
  /\ at[p] = "clean"
  /\ attic' = attic \cup ({backup[p]} \ {Nothing})
  /\ Forget(p)
  /\ UNCHANGED <<front, evid, count, kills, stage, tmp, story>>

\* The finally clause. A backup that is still there has lost its name.
Clean(p) ==
  /\ at[p] = "clean"
  /\ attic' = attic \cup ({backup[p]} \ {Nothing})
  /\ stage' = [stage EXCEPT ![p] = FALSE]
  /\ tmp' = [tmp EXCEPT ![p] = FALSE]
  /\ Forget(p)
  /\ UNCHANGED <<front, evid, count, kills, story>>

\* What a deletion that stops anywhere may leave of d.
Partly(d, deleting) == IF deleting /\ Exists(d) THEN {d} \cup Remains(d) ELSE {d}

Kill(p) ==
  /\ at[p] # "idle"
  /\ kills < MaxKills
  /\ kills' = kills + 1
  /\ evid' \in Partly(evid, at[p] = "undo" /\ new[p])
  /\ \E d \in Partly(backup[p], at[p] = "sweep") : attic' = attic \cup ({d} \ {Nothing})
  /\ stage' = [stage EXCEPT ![p] = FALSE]
  /\ tmp' = [tmp EXCEPT ![p] = FALSE]
  /\ Forget(p)
  /\ UNCHANGED <<front, count, story>>

\* The user puts something of another origin where the evidence would go, or
\* clears away what no publication would replace.
User ==
  /\ \/ ~Exists(evid) /\ evid' = Foreign
     \/ ~MayReplace /\ evid' = Nothing
  /\ meddled' = (meddled \/ ~Idle)
  /\ UNCHANGED <<front, attic, count, kills, local, met, trouble, shown>>

Publish(p) ==
  \/ Start(p) \/ Build(p) \/ BuildFails(p) \/ Look(p)
  \/ Move(p) \/ MoveFails(p) \/ Install(p) \/ InstallFails(p)
  \/ Replace(p) \/ ReplaceFails(p)
  \/ RemoveNew(p) \/ RemoveFails(p) \/ Restore(p) \/ RestoreFails(p)
  \/ Sweep(p) \/ Clean(p)

Next == User \/ \E p \in Publishers : Publish(p) \/ Kill(p)

Spec == Init /\ [][Next]_vars

-----------------------------------------------------------------------------
TypeOK ==
  /\ front \in Nat /\ evid \in Directories /\ attic \subseteq Directories
  /\ count \in Nat /\ kills \in Nat
  /\ at \in [Publishers -> {"idle", "build", "look", "move", "install", "replace",
                            "sweep", "undo", "restore", "clean"}]
  /\ mine \in [Publishers -> 0..count]
  /\ stage \in [Publishers -> BOOLEAN] /\ tmp \in [Publishers -> BOOLEAN]
  /\ backup \in [Publishers -> Directories] /\ new \in [Publishers -> BOOLEAN]
  /\ faults \in [Publishers -> 0..MaxFaults]
  /\ before \in [Publishers -> [front : Nat, evid : Directories]]
  /\ \A p \in Publishers : at[p] = "idle" => ~stage[p] /\ ~tmp[p] /\ ~new[p] /\ ~Exists(backup[p])
  /\ {met, meddled, trouble} \subseteq BOOLEAN /\ shown \subseteq Nat

\* The evidence that the visible front page links to is never lost, unless two
\* publications overlapped: whatever calls fail and whenever the publisher is killed,
\* all its pages are in place or in a backup directory beside it (site.py:161-175).
FrontIsBacked ==
  ~met /\ front # 0 =>
    Pages(front) \in {evid} \cup attic \cup {backup[p] : p \in Publishers}

\* An undisturbed publication ends with its own front page and evidence in place or,
\* if but one call failed, with those of before and no hidden copy (site.py:161-179;
\* the docstring: "replace prior owned output safely").
AllOrNothing ==
  ~met /\ ~meddled => \A p \in Publishers : at[p] = "clean" =>
    \/ front = mine[p] /\ evid = Pages(mine[p])
    \/ faults[p] <= 1 => Before = before[p] /\ backup[p] = Nothing

\* Publishing "replaces prior owned output safely": nothing that is linked is lost, and
\* the old pair is whole until the new one is.
SiteIsReplacedSafely == FrontIsBacked /\ AllOrNothing

\* However publications overlap and whenever one is killed, as long as no call fails by
\* itself no half deleted directory is ever at the place of the evidence: the
\* publication that is too late takes back only what it did (site.py:161-172).  Once
\* all have ended and none was killed, one of them at least has succeeded: a front page
\* is there, and the evidence is complete and of a publication that succeeded, never of
\* one that raised.  It need not be the publication of the front page.
CollisionLeavesEvidence ==
  ~meddled /\ ~trouble =>
    /\ evid.is \notin {"broken", "bare"}
    /\ Idle /\ kills = 0 /\ count > 0 => front # 0 /\ evid.is = "whole" /\ evid.of \in shown

\* A publication never moves or deletes a directory of another origin that was there
\* when it began (site.py:89-90).
ForeignIsKept == [][evid = Foreign /\ at' # at /\ ~meddled => evid' = Foreign]_vars

\* It "protects other directories" (tests/test_site.py:81), whenever they came.
OthersAreProtected == [][evid = Foreign /\ at' # at => evid' = Foreign]_vars

=============================================================================
