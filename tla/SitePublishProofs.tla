------------------------- MODULE SitePublishProofs -------------------------
(***************************************************************************)
(* What site.py guarantees for any number of publishers, publications,     *)
(* failing calls and kills, and for publications that overlap.             *)
(***************************************************************************)
EXTENDS SitePublish, TLAPS

PublisherTypes ==
  /\ front \in Nat /\ evid \in Directories /\ attic \subseteq Directories
  /\ count \in Nat /\ kills \in Nat
  /\ at \in [Publishers -> {"idle", "build", "look", "move", "install", "replace",
                            "sweep", "undo", "restore", "clean"}]
  /\ mine \in [Publishers -> 0..count]
  /\ stage \in [Publishers -> BOOLEAN] /\ tmp \in [Publishers -> BOOLEAN]
  /\ backup \in [Publishers -> Directories] /\ new \in [Publishers -> BOOLEAN]
  /\ faults \in [Publishers -> 0..MaxFaults]
  /\ before \in [Publishers -> [front : Nat, evid : Directories]]
  /\ {met, meddled, trouble} \subseteq BOOLEAN /\ shown \subseteq Nat

IdleIsClean ==
  \A p \in Publishers : at[p] = "idle" => ~stage[p] /\ ~tmp[p] /\ ~new[p] /\ ~Exists(backup[p])

LEMMA TypesSplit == TypeOK <=> PublisherTypes /\ IdleIsClean
BY DEF TypeOK, PublisherTypes, IdleIsClean

\* Directories that a publication makes, or leaves half deleted.
LEMMA DirectoryFacts ==
  /\ Nothing \in Directories /\ Foreign \in Directories
  /\ \A v \in Nat : Pages(v) \in Directories /\ Pages(v) # Nothing
  /\ \A d \in Directories : /\ Remains(d) \subseteq Directories
                            /\ Nothing \notin Remains(d)
                            /\ (Exists(d) <=> d # Nothing)
BY DEF Directories, Nothing, Foreign, Pages, Remains, Exists

LEMMA FaultBound == MaxFaults \in Nat
BY BoundsAssumption

LEMMA InitTypes == Init => PublisherTypes /\ IdleIsClean
<1> SUFFICES ASSUME Init PROVE PublisherTypes /\ IdleIsClean
  OBVIOUS
<1>1. ~Exists(Nothing) /\ evid \in Directories /\ Unknown \in [front : Nat, evid : Directories]
  BY DirectoryFacts DEF Init, Unknown
<1>2. 0 \in 0..MaxFaults
  BY FaultBound
<1>3. mine \in [Publishers -> 0..count] /\ faults \in [Publishers -> 0..MaxFaults]
  BY <1>2 DEF Init
<1>4. /\ backup \in [Publishers -> Directories]
      /\ before \in [Publishers -> [front : Nat, evid : Directories]]
  BY <1>1, DirectoryFacts DEF Init
<1>5. IdleIsClean
  BY <1>1 DEF Init, IdleIsClean
<1> QED BY <1>1, <1>3, <1>4, <1>5 DEF Init, PublisherTypes

\* The two ways in which a call ends keep the count of failures.
LEMMA FaultTypes ==
  ASSUME PublisherTypes, NEW p \in Publishers, Fault(p) \/ NoFault
  PROVE  faults' \in [Publishers -> 0..MaxFaults] /\ trouble' \in BOOLEAN
<1>1. CASE NoFault
  BY <1>1 DEF NoFault, PublisherTypes
<1>2. CASE Fault(p)
  <2>1. faults[p] + 1 \in 0..MaxFaults
    BY <1>2, FaultBound DEF Fault, PublisherTypes
  <2> QED BY <1>2, <2>1 DEF Fault, PublisherTypes
<1> QED BY <1>1, <1>2

LEMMA StepTypes == PublisherTypes /\ IdleIsClean /\ [Next]_vars => PublisherTypes' /\ IdleIsClean'
<1> SUFFICES ASSUME PublisherTypes, IdleIsClean, [Next]_vars PROVE PublisherTypes' /\ IdleIsClean'
  OBVIOUS
<1> USE DirectoryFacts, BoundsAssumption
<1>1. CASE User
  BY <1>1 DEF User, PublisherTypes, IdleIsClean, local
<1>2. ASSUME NEW p \in Publishers, Start(p) PROVE PublisherTypes' /\ IdleIsClean'
  <2>1. PublisherTypes'
    BY <1>2 DEF Start, Step, Before, PublisherTypes, public
  <2> QED BY <1>2, <2>1 DEF Start, Step, PublisherTypes, IdleIsClean, public
<1>3. ASSUME NEW p \in Publishers, Build(p) \/ Look(p) PROVE PublisherTypes' /\ IdleIsClean'
  BY <1>3 DEF Build, Look, Step, PublisherTypes, IdleIsClean, public, story
<1>4. ASSUME NEW p \in Publishers, BuildFails(p) \/ MoveFails(p) \/ InstallFails(p) \/ ReplaceFails(p)
             \/ RestoreFails(p)
      PROVE PublisherTypes' /\ IdleIsClean'
  <2>1. Fault(p) \/ NoFault
    BY <1>4 DEF BuildFails, MoveFails, InstallFails, ReplaceFails, RestoreFails
  <2>2. at' \in [Publishers -> {"idle", "build", "look", "move", "install", "replace",
                                "sweep", "undo", "restore", "clean"}]
    BY <1>4 DEF BuildFails, MoveFails, InstallFails, ReplaceFails, RestoreFails, Raise, Step, PublisherTypes
  <2>3. \A q \in Publishers : at'[q] = "idle" => at[q] = "idle"
    BY <1>4 DEF BuildFails, MoveFails, InstallFails, ReplaceFails, RestoreFails, Raise, Step, PublisherTypes
  <2>4. UNCHANGED <<front, evid, attic, count, kills, mine, stage, tmp, backup, new, before, met, meddled, shown>>
    BY <1>4 DEF BuildFails, MoveFails, InstallFails, ReplaceFails, RestoreFails, Raise, public
  <2> QED BY <2>1, <2>2, <2>3, <2>4, FaultTypes DEF PublisherTypes, IdleIsClean
<1>5. ASSUME NEW p \in Publishers, RemoveFails(p) PROVE PublisherTypes' /\ IdleIsClean'
  <2>1. Fault(p) \/ NoFault
    BY <1>5 DEF RemoveFails
  <2>2. evid' \in Directories
    BY <1>5 DEF RemoveFails, PublisherTypes
  <2> QED BY <1>5, <2>1, <2>2, FaultTypes DEF RemoveFails, Raise, Step, PublisherTypes, IdleIsClean
<1>6. ASSUME NEW p \in Publishers, Move(p) PROVE PublisherTypes' /\ IdleIsClean'
  BY <1>6 DEF Move, Step, PublisherTypes, IdleIsClean, story
<1>7. ASSUME NEW p \in Publishers, Install(p) PROVE PublisherTypes' /\ IdleIsClean'
  BY <1>7 DEF Install, Step, PublisherTypes, IdleIsClean, story
<1>8. ASSUME NEW p \in Publishers, Replace(p) PROVE PublisherTypes' /\ IdleIsClean'
  <2>1. front' \in Nat /\ shown' \subseteq Nat
    <3>1. mine[p] \in Nat
      BY DEF PublisherTypes
    <3>2. shown \subseteq Nat /\ front' = mine[p] /\ shown' = shown \cup {mine[p]}
      BY <1>8 DEF Replace, PublisherTypes
    <3> QED BY <3>1, <3>2
  <2> QED BY <1>8, <2>1 DEF Replace, Step, PublisherTypes, IdleIsClean
<1>9. ASSUME NEW p \in Publishers, RemoveNew(p) PROVE PublisherTypes' /\ IdleIsClean'
  BY <1>9 DEF RemoveNew, Step, PublisherTypes, IdleIsClean, story
<1>10. ASSUME NEW p \in Publishers, Restore(p) PROVE PublisherTypes' /\ IdleIsClean'
  BY <1>10 DEF Restore, Step, PublisherTypes, IdleIsClean, story
<1>11. ASSUME NEW p \in Publishers, Sweep(p) PROVE PublisherTypes' /\ IdleIsClean'
  <2>1. Fault(p) \/ NoFault
    BY <1>11 DEF Sweep
  <2>2. backup' \in [Publishers -> Directories]
    BY <1>11 DEF Sweep, PublisherTypes
  <2> QED BY <1>11, <2>1, <2>2, FaultTypes DEF Sweep, Step, PublisherTypes, IdleIsClean, public
<1>12. ASSUME NEW p \in Publishers, Clean(p) PROVE PublisherTypes' /\ IdleIsClean'
  BY <1>12 DEF Clean, Forget, Unknown, PublisherTypes, IdleIsClean, story
<1>13. ASSUME NEW p \in Publishers, Kill(p) PROVE PublisherTypes' /\ IdleIsClean'
  <2>1. \A d \in Directories, b \in BOOLEAN : Partly(d, b) \subseteq Directories
    BY DEF Partly
  <2>2. evid' \in Directories /\ attic' \subseteq Directories
    BY <1>13, <2>1 DEF Kill, PublisherTypes
  <2> QED BY <1>13, <2>2 DEF Kill, Forget, Unknown, PublisherTypes, IdleIsClean, story
<1>14. CASE UNCHANGED vars
  BY <1>14 DEF vars, local, public, story, PublisherTypes, IdleIsClean
<1> QED
  BY <1>1, <1>2, <1>3, <1>4, <1>5, <1>6, <1>7, <1>8, <1>9, <1>10, <1>11, <1>12, <1>13, <1>14
     DEF Next, Publish

LEMMA Typed == Spec => [](PublisherTypes /\ IdleIsClean)
BY InitTypes, StepTypes, PTL DEF Spec

\* For any number of publishers, publications, faults and kills: every variable keeps
\* its type, and a publisher that is done has left neither a stage nor a temporary file.
THEOREM SiteTypes == Spec => []TypeOK
BY Typed, TypesSplit, PTL

-----------------------------------------------------------------------------
(***************************************************************************)
(* What a publication that is alone knows at each place: where the old     *)
(* pair is, and that the visible front page is not its own until the last  *)
(* rename.                                                                 *)
(***************************************************************************)
Kept(p)  == Before = before[p] /\ backup[p] = Nothing
Moved(p) == front = before[p].front /\ backup[p] = before[p].evid

Preparing(p) == at[p] \in {"build", "look", "move"} =>
  /\ ~new[p] /\ backup[p] = Nothing
  /\ ~meddled => Kept(p) /\ (at[p] = "move" => Exists(evid))
Installing(p) == at[p] = "install" => ~new[p] /\ (~meddled => evid = Nothing /\ Moved(p))
Replacing(p) == at[p] = "replace" =>
  new[p] /\ evid = Pages(mine[p]) /\ (~meddled => Moved(p))
Undoing(p) == at[p] = "undo" =>
  /\ new[p] => evid = Pages(mine[p])
  /\ ~meddled => /\ faults[p] >= 1
                 /\ IF new[p] THEN Moved(p) ELSE Kept(p) \/ (evid = Nothing /\ Moved(p))
Restoring(p) == at[p] = "restore" =>
  ~new[p] /\ (~meddled => faults[p] >= 1 /\ (Kept(p) \/ (evid = Nothing /\ Moved(p))))
Showing(p) == at[p] = "sweep" => front = mine[p] /\ evid = Pages(mine[p])
Ending(p) == at[p] = "clean" =>
  \/ front = mine[p] /\ evid = Pages(mine[p])
  \/ ~meddled => faults[p] >= 2 \/ Kept(p)
Unseen(p) == at[p] \notin {"idle", "sweep", "clean"} => front # mine[p]

Placed(p) ==
  /\ Preparing(p) /\ Installing(p) /\ Replacing(p) /\ Undoing(p) /\ Restoring(p)
  /\ Showing(p) /\ Ending(p) /\ Unseen(p)

Alone == \A p, q \in Publishers : at[p] # "idle" /\ at[q] # "idle" => p = q
Backed == front # 0 => Pages(front) \in {evid} \cup attic \cup {backup[p] : p \in Publishers}

SiteInv ==
  /\ front <= count
  /\ ~met => Alone /\ Backed /\ \A p \in Publishers : Placed(p)

LEMMA InitSite == Init => SiteInv
BY DEF Init, SiteInv, Alone, Backed, Placed, Preparing, Installing, Replacing, Undoing, Restoring,
       Showing, Ending, Unseen

\* An idle publisher is nowhere.
LEMMA IdlePlaced == ASSUME NEW p \in Publishers, at[p] = "idle" PROVE Placed(p)
BY DEF Placed, Preparing, Installing, Replacing, Undoing, Restoring, Showing, Ending, Unseen

\* While p publishes alone, only what p does to itself matters.
LEMMA OthersIdle ==
  ASSUME PublisherTypes, SiteInv, NEW p \in Publishers, at[p] # "idle", ~met,
         \A q \in Publishers \ {p} : at'[q] = at[q],
         front' <= count', Placed(p)', Backed'
  PROVE  SiteInv'
<1>1. \A q \in Publishers \ {p} : at'[q] = "idle"
  BY DEF SiteInv, Alone
<1>2. \A q \in Publishers \ {p} : Placed(q)'
  BY <1>1 DEF Placed, Preparing, Installing, Replacing, Undoing, Restoring, Showing, Ending, Unseen
<1>3. Alone'
  BY <1>1 DEF Alone
<1> QED BY <1>2, <1>3 DEF SiteInv

\* A step that leaves all directories where they are keeps what backs the front page.
LEMMA BackedKept == ASSUME Backed, UNCHANGED <<public, backup>> PROVE Backed'
BY DEF Backed, public

\* The publisher that moves, and where to.
LEMMA StepAt ==
  ASSUME PublisherTypes, NEW p \in Publishers, NEW here, NEW there, Step(p, here, there)
  PROVE  at[p] = here /\ at'[p] = there /\ \A q \in Publishers \ {p} : at'[q] = at[q]
BY DEF Step, PublisherTypes

\* Numbers are given out once: the visible front page is never of a later publication.
LEMMA FrontBound == PublisherTypes /\ front <= count /\ [Next]_vars => front' <= count'
<1> SUFFICES ASSUME PublisherTypes, front <= count, [Next]_vars PROVE front' <= count'
  OBVIOUS
<1>0. front \in Nat /\ count \in Nat /\ \A p \in Publishers : mine[p] \in Nat /\ mine[p] <= count
  BY DEF PublisherTypes
<1>1. ASSUME NEW p \in Publishers, Start(p) PROVE front' <= count'
  BY <1>0, <1>1 DEF Start, public
<1>2. ASSUME NEW p \in Publishers, Replace(p) PROVE front' <= count'
  BY <1>0, <1>2 DEF Replace
<1>3. ASSUME NEW p \in Publishers, Publish(p) \/ Kill(p), ~Start(p), ~Replace(p) PROVE UNCHANGED <<front, count>>
  BY <1>3 DEF Publish, Build, BuildFails, Look, Move, MoveFails, Install, InstallFails, ReplaceFails,
              RemoveNew, RemoveFails, Restore, RestoreFails, Sweep, Clean, Kill, Raise, public
<1>4. CASE User \/ UNCHANGED vars
  BY <1>4 DEF User, vars, public
<1> QED BY <1>1, <1>2, <1>3, <1>4 DEF Next

LEMMA StepSite == PublisherTypes /\ IdleIsClean /\ SiteInv /\ [Next]_vars => SiteInv'
<1> SUFFICES ASSUME PublisherTypes, IdleIsClean, SiteInv, [Next]_vars, ~met' PROVE SiteInv'
  BY FrontBound DEF SiteInv
<1>0. /\ front \in Nat /\ count \in Nat /\ evid \in Directories /\ front <= count /\ front' <= count'
      /\ (Exists(evid) <=> evid # Nothing)
      /\ \A p \in Publishers :
           /\ mine[p] \in Nat /\ mine[p] <= count /\ faults[p] \in Nat /\ backup[p] \in Directories
           /\ (Exists(backup[p]) <=> backup[p] # Nothing)
      /\ \A v \in Nat : Exists(Pages(v)) /\ Marked(Pages(v)) /\ Pages(v) # Nothing
      /\ ~Exists(Nothing) /\ ~Marked(Nothing) /\ ~Marked(Foreign)
  BY FrontBound, DirectoryFacts DEF PublisherTypes, SiteInv, Exists, Marked, Pages, Nothing, Foreign
<1>1. CASE User
  <2>1. ~met /\ UNCHANGED <<front, attic, at, mine, backup, new, faults, before>>
        /\ meddled' = (meddled \/ ~Idle) /\ (~Exists(evid) \/ ~MayReplace)
    BY <1>1 DEF User, local
  <2>2. \A v \in Nat : evid # Pages(v)
    BY <1>0, <2>1 DEF MayReplace
  <2>3. Alone' /\ Backed'
    BY <1>0, <2>1, <2>2 DEF SiteInv, Alone, Backed
  <2>4. ASSUME NEW p \in Publishers PROVE Placed(p)'
    <3>1. CASE at[p] = "idle"
      BY <2>1, <3>1 DEF Placed, Preparing, Installing, Replacing, Undoing, Restoring, Showing, Ending, Unseen
    <3>2. CASE at[p] # "idle"
      <4>1. meddled' /\ Placed(p)
        BY <2>1, <3>2 DEF Idle, SiteInv
      <4>2. Preparing(p)' /\ Installing(p)'
        BY <2>1, <4>1 DEF Placed, Preparing, Installing
      <4>3. at[p] # "replace" /\ (at[p] = "undo" => ~new[p])
        <5>1. evid # Pages(mine[p])
          BY <1>0, <2>2 DEF Pages
        <5>2. Replacing(p) /\ Undoing(p)
          BY <4>1 DEF Placed
        <5> QED BY <5>1, <5>2 DEF Replacing, Undoing
      <4>4. Replacing(p)' /\ Undoing(p)' /\ Restoring(p)'
        BY <2>1, <4>1, <4>3 DEF Placed, Replacing, Undoing, Restoring
      <4>5. Showing(p)' /\ Ending(p)' /\ Unseen(p)'
        BY <1>0, <2>1, <2>2, <4>1 DEF Placed, Showing, Ending, Unseen
      <4> QED BY <4>2, <4>4, <4>5 DEF Placed
    <3> QED BY <3>1, <3>2
  <2> QED BY <1>0, <2>3, <2>4 DEF SiteInv
<1>2. ASSUME NEW p \in Publishers, Start(p) PROVE SiteInv'
  <2>1. ~met /\ Idle /\ UNCHANGED <<public, backup, new>>
    BY <1>2 DEF Start
  <2>2. at[p] = "idle" /\ at'[p] = "build" /\ \A q \in Publishers \ {p} : at'[q] = "idle"
    BY <1>2, <2>1, StepAt DEF Start, Idle
  <2>3. mine'[p] = count + 1 /\ before'[p] = Before /\ ~new[p] /\ backup[p] = Nothing
    BY <1>0, <1>2, <2>2 DEF Start, PublisherTypes, IdleIsClean
  <2>4. Placed(p)'
    BY <1>0, <2>1, <2>2, <2>3
       DEF public, Before, Kept, Placed, Preparing, Installing, Replacing, Undoing, Restoring, Showing, Ending, Unseen
  <2>5. \A q \in Publishers \ {p} : Placed(q)'
    BY <2>2 DEF Placed, Preparing, Installing, Replacing, Undoing, Restoring, Showing, Ending, Unseen
  <2>6. Alone'
    BY <2>2 DEF Alone
  <2>7. Backed'
    BY <2>1, BackedKept DEF SiteInv
  <2> QED BY <1>0, <2>4, <2>5, <2>6, <2>7 DEF SiteInv
<1>3. ASSUME NEW p \in Publishers, at[p] # "idle", ~met,
             \A q \in Publishers \ {p} : at'[q] = at[q], Placed(p)', Backed'
      PROVE  SiteInv'
  BY <1>0, <1>3, OthersIdle
<1>4. ASSUME NEW p \in Publishers, at[p] # "idle", ~met
      PROVE  Placed(p) /\ Backed
  BY <1>4 DEF SiteInv
<1>5. ASSUME NEW p \in Publishers, Build(p) PROVE SiteInv'
  <2>1. /\ at[p] = "build" /\ at'[p] = "look" /\ \A q \in Publishers \ {p} : at'[q] = at[q]
        /\ ~met /\ UNCHANGED <<public, mine, backup, new, faults, before, meddled>>
    BY <1>5, StepAt DEF Build, story
  <2>2. Placed(p) /\ Backed'
    BY <1>4, <2>1, BackedKept
  <2>3. Placed(p)'
    BY <2>1, <2>2 DEF public, Kept, Before, Placed, Preparing, Installing, Replacing, Undoing, Restoring, Showing,
                      Ending, Unseen
  <2> QED BY <1>3, <2>1, <2>2, <2>3
<1>6. ASSUME NEW p \in Publishers, Look(p) PROVE SiteInv'
  <2>1. /\ at[p] = "look" /\ at'[p] = (IF Exists(evid) THEN "move" ELSE "install")
        /\ \A q \in Publishers \ {p} : at'[q] = at[q]
        /\ ~met /\ UNCHANGED <<public, mine, backup, new, faults, before, meddled>>
    BY <1>6, StepAt DEF Look, story
  <2>2. Placed(p) /\ Backed'
    BY <1>4, <2>1, BackedKept
  <2>3. Placed(p)'
    BY <1>0, <2>1, <2>2 DEF public, Kept, Moved, Before, Placed, Preparing, Installing, Replacing, Undoing,
                            Restoring, Showing, Ending, Unseen
  <2> QED BY <1>3, <2>1, <2>2, <2>3
<1>7. ASSUME NEW p \in Publishers, Move(p) PROVE SiteInv'
  <2>1. /\ at[p] = "move" /\ at'[p] = "install" /\ \A q \in Publishers \ {p} : at'[q] = at[q]
        /\ ~met /\ UNCHANGED <<front, attic, mine, new, faults, before, meddled>>
        /\ evid' = Nothing /\ backup'[p] = evid /\ \A q \in Publishers \ {p} : backup'[q] = backup[q]
    BY <1>7, StepAt DEF Move, story, PublisherTypes
  <2>2. Placed(p) /\ Backed /\ backup[p] = Nothing
    BY <1>4, <2>1 DEF Placed, Preparing
  <2>3. Placed(p)'
    BY <1>0, <2>1, <2>2 DEF Kept, Moved, Before, Placed, Preparing, Installing, Replacing, Undoing,
                            Restoring, Showing, Ending, Unseen
  <2>4. Backed'
    BY <1>0, <2>1, <2>2 DEF Backed
  <2> QED BY <1>3, <2>1, <2>3, <2>4
<1>8. ASSUME NEW p \in Publishers, Install(p) PROVE SiteInv'
  <2>1. /\ at[p] = "install" /\ at'[p] = "replace" /\ \A q \in Publishers \ {p} : at'[q] = at[q]
        /\ ~met /\ UNCHANGED <<front, attic, mine, backup, faults, before, meddled>>
        /\ evid = Nothing /\ evid' = Pages(mine[p]) /\ new'[p] = TRUE
    BY <1>0, <1>8, StepAt DEF Install, story, PublisherTypes
  <2>2. Placed(p) /\ Backed
    BY <1>4, <2>1
  <2>3. Placed(p)'
    BY <2>1, <2>2 DEF Moved, Placed, Preparing, Installing, Replacing, Undoing, Restoring, Showing, Ending, Unseen
  <2>4. Backed'
    BY <1>0, <2>1, <2>2 DEF Backed
  <2> QED BY <1>3, <2>1, <2>3, <2>4
<1>9. ASSUME NEW p \in Publishers, Replace(p) PROVE SiteInv'
  <2>1. /\ at[p] = "replace" /\ at'[p] = "sweep" /\ \A q \in Publishers \ {p} : at'[q] = at[q]
        /\ ~met /\ UNCHANGED <<evid, mine>> /\ front' = mine[p]
    BY <1>9, StepAt DEF Replace, story
  <2>2. evid = Pages(mine[p])
    BY <1>4, <2>1 DEF Placed, Replacing
  <2>3. Placed(p)'
    BY <2>1, <2>2 DEF Placed, Preparing, Installing, Replacing, Undoing, Restoring, Showing, Ending, Unseen
  <2>4. Backed'
    BY <2>1, <2>2 DEF Backed
  <2> QED BY <1>3, <2>1, <2>3, <2>4
\* A call that fails by itself is counted; one that cannot succeed is no call of a
\* publication that is alone and undisturbed.
<1>10. ASSUME NEW p \in Publishers, BuildFails(p) \/ MoveFails(p) \/ InstallFails(p) \/ ReplaceFails(p)
       PROVE SiteInv'
  <2>1. /\ at[p] \in {"build", "move", "install", "replace"} /\ at'[p] = "undo"
        /\ \A q \in Publishers \ {p} : at'[q] = at[q]
        /\ ~met /\ UNCHANGED <<public, mine, backup, new, before, meddled>>
        /\ \/ faults'[p] = faults[p] + 1
           \/ at[p] = "move" /\ ~Exists(evid)
           \/ at[p] = "install" /\ Exists(evid)
    BY <1>10, StepAt DEF BuildFails, MoveFails, InstallFails, ReplaceFails, Raise, Fault, PublisherTypes
  <2>2. Placed(p) /\ Backed'
    BY <1>4, <2>1, BackedKept
  <2>3. ~meddled => faults'[p] >= 1
    <3>1. faults[p] \in Nat /\ ~Exists(Nothing)
      BY <1>0
    <3>2. ~meddled => (at[p] = "move" => Exists(evid)) /\ (at[p] = "install" => evid = Nothing)
      BY <2>2 DEF Placed, Preparing, Installing
    <3>3. ~meddled => faults'[p] = faults[p] + 1
      BY <2>1, <3>1, <3>2
    <3> QED BY <3>1, <3>3
  <2>4. Undoing(p)'
    BY <1>0, <2>1, <2>2, <2>3
       DEF public, Kept, Moved, Before, Placed, Preparing, Installing, Replacing, Undoing
  <2>5. Placed(p)'
    BY <2>1, <2>2, <2>4 DEF public, Placed, Preparing, Installing, Replacing, Restoring, Showing, Ending, Unseen
  <2> QED BY <1>3, <2>1, <2>2, <2>5
<1>11. ASSUME NEW p \in Publishers, RemoveNew(p) PROVE SiteInv'
  <2>1. /\ at[p] = "undo" /\ at'[p] = "restore" /\ \A q \in Publishers \ {p} : at'[q] = at[q]
        /\ ~met /\ UNCHANGED <<front, attic, mine, backup, faults, before, meddled>>
        /\ evid' = (IF new[p] THEN Nothing ELSE evid) /\ new'[p] = FALSE
    BY <1>11, StepAt DEF RemoveNew, story, PublisherTypes
  <2>2. Undoing(p) /\ Unseen(p) /\ Backed
    BY <1>4, <2>1 DEF Placed
  <2>3. Restoring(p)'
    BY <2>1, <2>2 DEF Kept, Moved, Before, Undoing, Restoring
  <2>4. Placed(p)'
    BY <2>1, <2>2, <2>3 DEF Placed, Preparing, Installing, Replacing, Undoing, Showing, Ending, Unseen
  <2>5. new[p] => Pages(front) # evid
    BY <1>0, <2>1, <2>2 DEF Undoing, Unseen, Pages
  <2>6. Backed'
    BY <2>1, <2>2, <2>5 DEF Backed
  <2> QED BY <1>3, <2>1, <2>4, <2>6
<1>12. ASSUME NEW p \in Publishers, RemoveFails(p) PROVE SiteInv'
  <2>1. /\ at[p] = "undo" /\ at'[p] = "clean" /\ \A q \in Publishers \ {p} : at'[q] = at[q]
        /\ ~met /\ UNCHANGED <<front, attic, mine, backup, before, meddled>> /\ new[p]
        /\ ~Exists(evid) \/ faults'[p] = faults[p] + 1
    BY <1>12, StepAt DEF RemoveFails, Raise, Fault, PublisherTypes
  <2>2. Undoing(p) /\ Unseen(p) /\ Backed
    BY <1>4, <2>1 DEF Placed
  <2>3. evid = Pages(mine[p]) /\ Pages(front) # evid
    BY <1>0, <2>1, <2>2 DEF Undoing, Unseen, Pages
  <2>4. ~meddled => faults'[p] >= 2
    <3>1. Exists(evid) /\ faults[p] \in Nat
      BY <1>0, <2>3 DEF Pages, Exists
    <3>2. faults'[p] = faults[p] + 1
      BY <2>1, <3>1
    <3>3. ~meddled => faults[p] >= 1
      BY <2>1, <2>2 DEF Undoing
    <3> QED BY <3>1, <3>2, <3>3
  <2>5. Placed(p)'
    BY <2>1, <2>4 DEF Placed, Preparing, Installing, Replacing, Undoing, Restoring, Showing, Ending, Unseen
  <2>6. Backed'
    BY <2>1, <2>2, <2>3 DEF Backed
  <2> QED BY <1>3, <2>1, <2>5, <2>6
<1>13. ASSUME NEW p \in Publishers, Restore(p) PROVE SiteInv'
  <2>1. /\ at[p] = "restore" /\ at'[p] = "clean" /\ \A q \in Publishers \ {p} : at'[q] = at[q]
        /\ ~met /\ UNCHANGED <<front, attic, mine, new, faults, before, meddled>>
        /\ Exists(backup[p]) => evid = Nothing
        /\ evid' = (IF Exists(backup[p]) THEN backup[p] ELSE evid)
        /\ backup'[p] = Nothing /\ \A q \in Publishers \ {p} : backup'[q] = backup[q]
    BY <1>0, <1>13, StepAt DEF Restore, story, PublisherTypes
  <2>2. Restoring(p) /\ Backed
    BY <1>4, <2>1 DEF Placed
  <2>3. ~meddled => Kept(p)'
    <3>1. ASSUME Kept(p) PROVE Kept(p)'
      <4>1. backup[p] = Nothing /\ ~Exists(backup[p])
        BY <1>0, <3>1 DEF Kept
      <4> QED BY <2>1, <3>1, <4>1 DEF Kept, Before
    <3>2. ASSUME evid = Nothing, Moved(p) PROVE Kept(p)'
      <4>1. evid' = backup[p]
        <5>1. CASE Exists(backup[p])
          BY <2>1, <5>1
        <5>2. CASE ~Exists(backup[p])
          <6>1. backup[p] = Nothing
            BY <1>0, <5>2
          <6> QED BY <2>1, <3>2, <5>2, <6>1
        <5> QED BY <5>1, <5>2
      <4>2. before[p] = [front |-> front, evid |-> backup[p]]
        BY <3>2 DEF Moved, PublisherTypes
      <4> QED BY <2>1, <4>1, <4>2 DEF Kept, Before
    <3> QED BY <2>1, <2>2, <3>1, <3>2 DEF Restoring
  <2>4. Placed(p)'
    BY <2>1, <2>3 DEF Placed, Preparing, Installing, Replacing, Undoing, Restoring, Showing, Ending, Unseen
  <2>5. Backed'
    BY <1>0, <2>1, <2>2 DEF Backed
  <2> QED BY <1>3, <2>1, <2>4, <2>5
<1>14. ASSUME NEW p \in Publishers, RestoreFails(p) PROVE SiteInv'
  <2>1. /\ at[p] = "restore" /\ at'[p] = "clean" /\ \A q \in Publishers \ {p} : at'[q] = at[q]
        /\ ~met /\ UNCHANGED <<public, mine, backup, new, before, meddled>>
        /\ backup[p] # Nothing /\ (faults'[p] = faults[p] + 1 \/ Exists(evid))
    BY <1>0, <1>14, StepAt DEF RestoreFails, Raise, Fault, PublisherTypes
  <2>2. Restoring(p) /\ Backed'
    BY <1>4, <2>1, BackedKept DEF Placed
  <2>3. ~meddled => faults'[p] >= 2
    BY <1>0, <2>1, <2>2 DEF Restoring, Kept
  <2>4. Placed(p)'
    BY <2>1, <2>3 DEF Placed, Preparing, Installing, Replacing, Undoing, Restoring, Showing, Ending, Unseen
  <2> QED BY <1>3, <2>1, <2>2, <2>4
<1>15. ASSUME NEW p \in Publishers, Sweep(p) PROVE SiteInv'
  <2>1. /\ at[p] = "sweep" /\ at'[p] = "clean" /\ \A q \in Publishers \ {p} : at'[q] = at[q]
        /\ ~met /\ UNCHANGED <<front, evid, mine>>
    BY <1>15, StepAt DEF Sweep, public
  <2>2. front = mine[p] /\ evid = Pages(mine[p])
    BY <1>4, <2>1 DEF Placed, Showing
  <2>3. Placed(p)'
    BY <2>1, <2>2 DEF Placed, Preparing, Installing, Replacing, Undoing, Restoring, Showing, Ending, Unseen
  <2>4. Backed'
    BY <2>1, <2>2 DEF Backed
  <2> QED BY <1>3, <2>1, <2>3, <2>4
<1>16. ASSUME NEW p \in Publishers, Clean(p) PROVE SiteInv'
  <2>1. /\ at[p] = "clean" /\ at'[p] = "idle" /\ \A q \in Publishers \ {p} : at'[q] = at[q]
        /\ ~met /\ UNCHANGED <<front, evid>>
        /\ attic' = attic \cup ({backup[p]} \ {Nothing}) /\ \A q \in Publishers \ {p} : backup'[q] = backup[q]
    BY <1>16 DEF Clean, Forget, story, PublisherTypes
  <2>2. Backed /\ Pages(front) # Nothing
    BY <1>0, <1>4, <2>1
  <2>3. Backed'
    BY <2>1, <2>2 DEF Backed
  <2>4. Placed(p)'
    BY <2>1 DEF Placed, Preparing, Installing, Replacing, Undoing, Restoring, Showing, Ending, Unseen
  <2> QED BY <1>3, <2>1, <2>3, <2>4
<1>17. ASSUME NEW p \in Publishers, Kill(p) PROVE SiteInv'
  <2>1. /\ at[p] # "idle" /\ at'[p] = "idle" /\ \A q \in Publishers \ {p} : at'[q] = at[q]
        /\ ~met /\ front' = front /\ \A q \in Publishers \ {p} : backup'[q] = backup[q]
        /\ ~(at[p] = "undo" /\ new[p]) => evid' = evid
        /\ attic \subseteq attic'
        /\ at[p] # "sweep" => attic' = attic \cup ({backup[p]} \ {Nothing})
    BY <1>17 DEF Kill, Forget, Partly, PublisherTypes, story
  <2>2. Placed(p) /\ Backed /\ Pages(front) # Nothing
    BY <1>0, <1>4, <2>1
  <2>3. Placed(p)'
    BY <2>1 DEF Placed, Preparing, Installing, Replacing, Undoing, Restoring, Showing, Ending, Unseen
  <2>4. CASE at[p] = "undo" /\ new[p]
    <3>1. evid # Pages(front)
      BY <1>0, <2>2, <2>4 DEF Placed, Undoing, Unseen, Pages
    <3>2. Backed'
      BY <2>1, <2>2, <2>4, <3>1 DEF Backed
    <3> QED BY <1>3, <2>1, <2>3, <3>2
  <2>5. CASE at[p] = "sweep"
    <3>1. Backed'
      BY <2>1, <2>2, <2>5 DEF Backed, Placed, Showing
    <3> QED BY <1>3, <2>1, <2>3, <3>1
  <2>6. CASE at[p] # "sweep" /\ ~(at[p] = "undo" /\ new[p])
    <3>1. Backed'
      BY <2>1, <2>2, <2>6 DEF Backed
    <3> QED BY <1>3, <2>1, <2>3, <3>1
  <2> QED BY <2>4, <2>5, <2>6
<1>18. CASE UNCHANGED vars
  <2>1. UNCHANGED <<front, evid, attic, count, at, mine, backup, new, faults, before, met, meddled>>
    BY <1>18 DEF vars, public, local, story
  <2>2. ~met /\ Alone' /\ Backed'
    BY <2>1 DEF SiteInv, Alone, Backed
  <2>3. ASSUME NEW p \in Publishers PROVE Placed(p)'
    BY <2>1, <2>2 DEF SiteInv, Kept, Moved, Before, Placed, Preparing, Installing, Replacing, Undoing,
                      Restoring, Showing, Ending, Unseen
  <2> QED BY <1>0, <2>2, <2>3 DEF SiteInv
<1> QED
  BY <1>1, <1>2, <1>5, <1>6, <1>7, <1>8, <1>9, <1>10, <1>11, <1>12, <1>13, <1>14, <1>15, <1>16, <1>17, <1>18
     DEF Next, Publish

LEMMA Sited == Spec => [](PublisherTypes /\ SiteInv)
<1>1. Init => PublisherTypes /\ IdleIsClean /\ SiteInv
  BY InitTypes, InitSite
<1>2. PublisherTypes /\ IdleIsClean /\ SiteInv /\ [Next]_vars => (PublisherTypes /\ IdleIsClean /\ SiteInv)'
  BY StepTypes, StepSite
<1> QED BY <1>1, <1>2, PTL DEF Spec

\* For any number of publications, failing calls and kills: as long as no two
\* publications overlapped, the evidence of the visible front page is never lost.
THEOREM FrontStaysBacked == Spec => []FrontIsBacked
<1>1. SiteInv => FrontIsBacked
  BY DEF SiteInv, Backed, FrontIsBacked
<1> QED BY <1>1, Sited, PTL

\* ... and a publication that nobody disturbed is all or nothing when at most one
\* call of it failed.
THEOREM SiteIsAtomic == Spec => []AllOrNothing
<1>1. PublisherTypes /\ SiteInv => AllOrNothing
  <2> SUFFICES ASSUME PublisherTypes, SiteInv, ~met, ~meddled, NEW p \in Publishers, at[p] = "clean"
               PROVE  \/ front = mine[p] /\ evid = Pages(mine[p])
                      \/ faults[p] <= 1 => Before = before[p] /\ backup[p] = Nothing
    BY DEF AllOrNothing
  <2>1. Ending(p) /\ faults[p] \in Nat
    BY DEF SiteInv, Placed, PublisherTypes
  <2> QED BY <2>1 DEF Ending, Kept
<1> QED BY <1>1, Sited, PTL

\* Both together: prior output is replaced safely (site.py).
THEOREM SiteStaysSafe == Spec => []SiteIsReplacedSafely
<1>1. FrontIsBacked /\ AllOrNothing => SiteIsReplacedSafely
  BY DEF SiteIsReplacedSafely
<1> QED BY <1>1, FrontStaysBacked, SiteIsAtomic, PTL

-----------------------------------------------------------------------------
(***************************************************************************)
(* Publications that overlap.  While the user stays away and nothing fails *)
(* by itself, calls that fail because another publication was faster take  *)
(* nothing away, whoever is killed: no directory at the place is half      *)
(* deleted.  If nobody is killed either, the place is empty only as long   *)
(* as a publication is about to install its evidence or to bring back what *)
(* it moved away, and whoever installs its evidence shows its front page.  *)
(***************************************************************************)
Whole(d) == d.is = "whole"

\* p is going to fill the empty place, or finds it filled.
Fills(p) == at[p] = "install" \/ (at[p] \in {"undo", "restore"} /\ Exists(backup[p]))

\* There is no publication while something foreign is at the place.
ForeignInv ==
  ~meddled => \A p \in Publishers : at[p] # "idle" => evid # Foreign /\ backup[p] # Foreign

Installed == \A p \in Publishers : new[p] => at[p] \in {"replace", "sweep", "clean"}
AllWhole ==
  /\ evid \in {Nothing, Foreign} \/ Whole(evid)
  /\ \A p \in Publishers : backup[p] = Nothing \/ Whole(backup[p])

ForeignFirst == evid = Foreign => Idle /\ front = 0
Refilled ==
  evid = Nothing /\ (front # 0 \/ \E p \in Publishers : at[p] = "replace")
    => \E p \in Publishers : Fills(p)

\* The evidence is of publications that showed their front page, or are about to.
Succeeds(v) == v \in shown \/ \E q \in Publishers : at[q] = "replace" /\ mine[q] = v
Owned ==
  /\ Whole(evid) => Succeeds(evid.of)
  /\ \A p \in Publishers : Whole(backup[p]) => Succeeds(backup[p].of)

\* Before the first publication has installed its evidence none is far.
Begun ==
  front = 0 /\ (\A p \in Publishers : at[p] # "replace") =>
    /\ evid \in {Nothing, Foreign} /\ (count > 0 => ~Idle)
    /\ \A p \in Publishers : at[p] \in {"idle", "build", "look", "install"} /\ backup[p] = Nothing
Numbered == \A p \in Publishers : at[p] # "idle" => mine[p] # 0

CollisionInv ==
  ~meddled /\ ~trouble =>
    /\ Installed /\ AllWhole
    /\ kills = 0 => ForeignFirst /\ Refilled /\ Owned /\ Begun /\ Numbered

LEMMA InitCollision == Init => ForeignInv /\ CollisionInv
<1> SUFFICES ASSUME Init PROVE ForeignInv /\ CollisionInv
  OBVIOUS
<1>1. ForeignInv /\ Installed /\ AllWhole /\ ForeignFirst /\ Refilled
  BY DEF Init, ForeignInv, Installed, AllWhole, ForeignFirst, Refilled, Idle
<1>2. Owned /\ Begun /\ Numbered
  BY DEF Init, Owned, Begun, Numbered, Whole, Nothing, Foreign
<1> QED BY <1>1, <1>2 DEF CollisionInv

LEMMA DirectoryKinds ==
  /\ ~Exists(Nothing) /\ ~Marked(Foreign) /\ Exists(Foreign) /\ Foreign # Nothing
  /\ ~Whole(Nothing) /\ ~Whole(Foreign)
  /\ \A v : Whole(Pages(v)) /\ Pages(v) # Nothing /\ Pages(v) # Foreign /\ Pages(v).of = v
  /\ \A d : Foreign \notin Remains(d)
BY DEF Nothing, Foreign, Pages, Remains, Exists, Marked, Whole

\* Nothing foreign is moved away, brought back or left by a deletion, because no
\* publication begins beside it; what the user adds during a publication is excluded.
LEMMA StepForeign == PublisherTypes /\ IdleIsClean /\ ForeignInv /\ [Next]_vars => ForeignInv'
<1> SUFFICES ASSUME PublisherTypes, IdleIsClean, ForeignInv, [Next]_vars, ~meddled',
                    NEW q \in Publishers, at'[q] # "idle"
             PROVE  evid' # Foreign /\ backup'[q] # Foreign
  BY DEF ForeignInv
<1> USE DirectoryKinds
<1>1. CASE User
  <2>1. ~meddled /\ Idle /\ at' = at
    BY <1>1 DEF User, local
  <2> QED BY <2>1 DEF Idle
<1>2. ASSUME NEW p \in Publishers, Start(p) PROVE evid' # Foreign /\ backup'[q] # Foreign
  <2>1. /\ ~meddled /\ at[p] = "idle" /\ UNCHANGED <<evid, backup>> /\ evid # Foreign
        /\ \A r \in Publishers \ {p} : at'[r] = at[r]
    BY <1>2, StepAt DEF Start, public, MayReplace
  <2>2. backup[p] # Foreign
    BY <2>1 DEF IdleIsClean
  <2> QED BY <2>1, <2>2 DEF ForeignInv
<1>3. ASSUME NEW p \in Publishers, at[p] # "idle", ~meddled
      PROVE  /\ evid # Foreign /\ backup[p] # Foreign
             /\ (\A r \in Publishers \ {p} : at'[r] = at[r] /\ backup'[r] = backup[r])
                  /\ (at'[p] = "idle" \/ backup'[p] # Foreign)
                  => backup'[q] # Foreign
  BY <1>3 DEF ForeignInv
<1>4. ASSUME NEW p \in Publishers,
             Build(p) \/ BuildFails(p) \/ Look(p) \/ MoveFails(p) \/ InstallFails(p) \/ Replace(p)
               \/ ReplaceFails(p) \/ RestoreFails(p)
      PROVE  evid' # Foreign /\ backup'[q] # Foreign
  <2>1. /\ at[p] # "idle" /\ ~meddled /\ UNCHANGED <<evid, backup>>
        /\ \A r \in Publishers \ {p} : at'[r] = at[r]
    BY <1>4, StepAt
       DEF Build, BuildFails, Look, MoveFails, InstallFails, Replace, ReplaceFails, RestoreFails, Raise,
           public, story
  <2> QED BY <1>3, <2>1
<1>5. ASSUME NEW p \in Publishers, Move(p) PROVE evid' # Foreign /\ backup'[q] # Foreign
  <2>1. /\ at[p] # "idle" /\ ~meddled /\ evid' = Nothing /\ backup'[p] = evid
        /\ \A r \in Publishers \ {p} : at'[r] = at[r] /\ backup'[r] = backup[r]
    BY <1>5, StepAt DEF Move, story, PublisherTypes
  <2> QED BY <1>3, <2>1
<1>6. ASSUME NEW p \in Publishers, Install(p) PROVE evid' # Foreign /\ backup'[q] # Foreign
  <2>1. /\ at[p] # "idle" /\ ~meddled /\ evid' = Pages(mine[p]) /\ backup' = backup
        /\ \A r \in Publishers \ {p} : at'[r] = at[r]
    BY <1>6, StepAt DEF Install, story
  <2> QED BY <1>3, <2>1
<1>7. ASSUME NEW p \in Publishers, RemoveNew(p) \/ RemoveFails(p)
      PROVE  evid' # Foreign /\ backup'[q] # Foreign
  <2>1. /\ at[p] # "idle" /\ ~meddled /\ evid' \in {evid, Nothing} \cup Remains(evid) /\ backup' = backup
        /\ \A r \in Publishers \ {p} : at'[r] = at[r]
    BY <1>7, StepAt DEF RemoveNew, RemoveFails, Raise, story
  <2> QED BY <1>3, <2>1
<1>8. ASSUME NEW p \in Publishers, Restore(p) PROVE evid' # Foreign /\ backup'[q] # Foreign
  <2>1. /\ at[p] # "idle" /\ ~meddled /\ evid' \in {evid, backup[p]} /\ backup'[p] = Nothing
        /\ \A r \in Publishers \ {p} : at'[r] = at[r] /\ backup'[r] = backup[r]
    BY <1>8, StepAt DEF Restore, story, PublisherTypes
  <2> QED BY <1>3, <2>1
<1>9. ASSUME NEW p \in Publishers, Sweep(p) PROVE evid' # Foreign /\ backup'[q] # Foreign
  <2>1. /\ at[p] # "idle" /\ ~meddled /\ evid' = evid
        /\ backup'[p] \in {Nothing, backup[p]} \cup Remains(backup[p])
        /\ \A r \in Publishers \ {p} : at'[r] = at[r] /\ backup'[r] = backup[r]
    BY <1>9, StepAt DEF Sweep, public, PublisherTypes
  <2> QED BY <1>3, <2>1
<1>10. ASSUME NEW p \in Publishers, Clean(p) \/ Kill(p) PROVE evid' # Foreign /\ backup'[q] # Foreign
  <2>1. /\ at[p] # "idle" /\ ~meddled /\ evid' \in {evid} \cup Remains(evid) /\ at'[p] = "idle"
        /\ \A r \in Publishers \ {p} : at'[r] = at[r] /\ backup'[r] = backup[r]
    BY <1>10 DEF Clean, Kill, Forget, Partly, story, PublisherTypes
  <2> QED BY <1>3, <2>1
<1>11. CASE UNCHANGED vars
  BY <1>11 DEF vars, public, local, story, ForeignInv
<1> QED BY <1>1, <1>2, <1>4, <1>5, <1>6, <1>7, <1>8, <1>9, <1>10, <1>11 DEF Next, Publish

\* The step of a publisher that leaves the place alone, or fills it.
LEMMA CollisionKept ==
  ASSUME PublisherTypes, ForeignInv, CollisionInv, ~meddled, ~trouble,
         NEW p \in Publishers, at[p] \notin {"idle", "replace"},
         \A r \in Publishers \ {p} :
           at'[r] = at[r] /\ backup'[r] = backup[r] /\ new'[r] = new[r] /\ mine'[r] = mine[r],
         at'[p] = "idle" \/ mine'[p] = mine[p],
         UNCHANGED <<front, count, kills, shown>>,
         new'[p] => at'[p] \in {"replace", "sweep", "clean"},
         backup'[p] = Nothing \/ Whole(backup'[p]), backup'[p] \in {Nothing, backup[p], evid},
         at[p] \in {"build", "look", "install"} /\ evid = Nothing
           => at'[p] \in {"build", "look", "install", "replace"},
         \/ evid' = evid /\ (Fills(p) => Fills(p)' \/ Exists(evid)) /\ at'[p] # "replace"
         \/ Whole(evid') /\ (evid' = backup[p] \/ (evid' = Pages(mine[p]) /\ at'[p] = "replace"))
         \/ evid' = Nothing /\ Fills(p)'
  PROVE  CollisionInv'
<1> USE DirectoryKinds
<1>1. evid # Foreign /\ Installed /\ AllWhole
  BY DEF CollisionInv, ForeignInv
<1>2. Installed' /\ AllWhole' /\ ForeignFirst'
  BY <1>1 DEF Installed, AllWhole, ForeignFirst
<1> SUFFICES ASSUME kills = 0 PROVE Refilled' /\ Owned' /\ Begun' /\ Numbered'
  BY <1>2 DEF CollisionInv
<1>3. Refilled /\ Owned /\ Begun /\ Numbered
  BY DEF CollisionInv
<1>4. Refilled'
  <2> SUFFICES ASSUME evid' = Nothing, front' # 0 \/ \E r \in Publishers : at'[r] = "replace"
               PROVE  \E r \in Publishers : Fills(r)'
    BY DEF Refilled
  <2>1. CASE evid' = evid /\ (Fills(p) => Fills(p)' \/ Exists(evid)) /\ at'[p] # "replace"
    <3>1. front # 0 \/ \E r \in Publishers : at[r] = "replace"
      BY <2>1
    <3>2. PICK r \in Publishers : Fills(r)
      BY <1>3, <2>1, <3>1 DEF Refilled
    <3>3. r # p => Fills(r)'
      BY <3>2 DEF Fills
    <3> QED BY <2>1, <3>2, <3>3
  <2>2. CASE Fills(p)'
    BY <2>2
  <2> QED BY <2>1, <2>2
<1>5. Owned'
  <2>1. \A v : Succeeds(v) => Succeeds(v)'
    BY DEF Succeeds
  <2>2. at'[p] = "replace" => Succeeds(mine[p])'
    BY DEF Succeeds
  <2>3. ASSUME Whole(evid)' PROVE Succeeds(evid.of)'
    <3>1. CASE evid' = evid
      BY <1>3, <2>1, <2>3, <3>1 DEF Owned, Succeeds, Whole
    <3>2. CASE evid' = backup[p]
      BY <1>3, <2>1, <2>3, <3>2 DEF Owned, Succeeds, Whole
    <3>3. CASE evid' = Pages(mine[p]) /\ at'[p] = "replace"
      BY <2>2, <3>3 DEF Succeeds
    <3>4. evid' # Nothing
      BY <2>3 DEF Whole, Nothing
    <3> QED BY <3>1, <3>2, <3>3, <3>4
  <2>4. ASSUME NEW r \in Publishers, Whole(backup[r])' PROVE Succeeds(backup[r].of)'
    <3>1. CASE backup'[r] = backup[r]
      BY <1>3, <2>1, <2>4, <3>1 DEF Owned, Succeeds, Whole
    <3>2. CASE backup'[r] = evid
      BY <1>3, <2>1, <2>4, <3>2 DEF Owned, Succeeds, Whole
    <3>3. backup'[r] # Nothing
      BY <2>4 DEF Whole, Nothing
    <3> QED BY <3>1, <3>2, <3>3
  <2> QED BY <2>3, <2>4 DEF Owned
<1>6. Begun'
  <2> SUFFICES ASSUME front' = 0, \A r \in Publishers : at'[r] # "replace"
               PROVE  /\ evid' \in {Nothing, Foreign} /\ ~Idle'
                      /\ \A r \in Publishers : at'[r] \in {"idle", "build", "look", "install"} /\ backup'[r] = Nothing
    BY DEF Begun
  <2>1. /\ evid = Nothing
        /\ \A r \in Publishers : at[r] \in {"idle", "build", "look", "install"} /\ backup[r] = Nothing
    BY <1>1, <1>3 DEF Begun
  <2>2. at'[p] \in {"build", "look", "install"}
    BY <2>1
  <2>3. evid' = Nothing
    BY <2>1, <2>2
  <2>4. ~Idle'
    BY <2>2 DEF Idle
  <2> QED BY <2>1, <2>2, <2>3, <2>4
<1>7. Numbered'
  BY <1>3 DEF Numbered
<1> QED BY <1>4, <1>5, <1>6, <1>7

LEMMA StepCollision == PublisherTypes /\ IdleIsClean /\ ForeignInv /\ CollisionInv /\ [Next]_vars => CollisionInv'
<1> SUFFICES ASSUME PublisherTypes, IdleIsClean, ForeignInv, CollisionInv, [Next]_vars, ~meddled', ~trouble'
             PROVE  CollisionInv'
  BY DEF CollisionInv
<1> USE DirectoryKinds
<1>0. \A d \in Directories : Exists(d) <=> d # Nothing
  BY DirectoryFacts
<1>1. CASE User
  <2>1. /\ ~meddled /\ ~trouble /\ Idle /\ UNCHANGED <<front, at, backup, new, mine, count, kills, shown>>
        /\ (~Exists(evid) /\ evid' = Foreign) \/ (~MayReplace /\ evid' = Nothing)
    BY <1>1 DEF User, local
  <2>2. Installed /\ AllWhole
    BY <2>1 DEF CollisionInv
  <2>3. Installed' /\ AllWhole'
    BY <2>1, <2>2 DEF Installed, AllWhole
  <2> SUFFICES ASSUME kills = 0 PROVE ForeignFirst' /\ Refilled' /\ Owned' /\ Begun' /\ Numbered'
    BY <2>1, <2>3 DEF CollisionInv
  <2>4. ForeignFirst /\ Refilled /\ Owned /\ Begun /\ Numbered
    BY <2>1 DEF CollisionInv
  <2>5. evid \in Directories
    BY DEF PublisherTypes
  <2>6. front = 0 /\ \A r \in Publishers : at[r] = "idle"
    <3>1. CASE ~Exists(evid)
      BY <1>0, <2>1, <2>4, <2>5, <3>1 DEF Refilled, Fills, Idle
    <3>2. CASE ~MayReplace
      BY <2>1, <2>2, <2>4, <3>2 DEF MayReplace, AllWhole, ForeignFirst, Whole, Marked, Idle
    <3> QED BY <2>1, <3>1, <3>2
  <2>7. ForeignFirst' /\ Refilled' /\ Numbered'
    BY <2>1, <2>4, <2>6 DEF ForeignFirst, Refilled, Numbered, Idle
  <2>8. \A v : Succeeds(v) => Succeeds(v)'
    BY <2>1 DEF Succeeds
  <2>9. Owned'
    BY <2>1, <2>4, <2>8 DEF Owned, Whole
  <2>10. Begun'
    BY <2>1, <2>4, <2>6 DEF Begun, Idle
  <2> QED BY <2>7, <2>9, <2>10
<1>2. ASSUME NEW p \in Publishers, Start(p) PROVE CollisionInv'
  <2>1. /\ ~meddled /\ ~trouble /\ UNCHANGED <<front, evid, backup, new, kills, shown>> /\ evid # Foreign
        /\ at[p] = "idle" /\ at'[p] = "build" /\ mine'[p] = count + 1 /\ count \in Nat
        /\ \A r \in Publishers \ {p} : at'[r] = at[r] /\ mine'[r] = mine[r]
    BY <1>2, StepAt DEF Start, public, MayReplace, PublisherTypes
  <2>2. Installed /\ AllWhole
    BY <2>1 DEF CollisionInv
  <2>3. Installed' /\ AllWhole'
    BY <2>1, <2>2 DEF Installed, AllWhole
  <2> SUFFICES ASSUME kills = 0 PROVE ForeignFirst' /\ Refilled' /\ Owned' /\ Begun' /\ Numbered'
    BY <2>1, <2>3 DEF CollisionInv
  <2>4. Refilled /\ Owned /\ Begun /\ Numbered
    BY <2>1 DEF CollisionInv
  <2>5. ForeignFirst' /\ Numbered'
    BY <2>1, <2>4 DEF ForeignFirst, Numbered
  <2>6. Refilled'
    <3>1. \A r \in Publishers : Fills(r) => Fills(r)'
      BY <2>1 DEF Fills
    <3> QED BY <2>1, <2>4, <3>1 DEF Refilled
  <2>7. \A v : Succeeds(v) => Succeeds(v)'
    BY <2>1 DEF Succeeds
  <2>8. Owned'
    BY <2>1, <2>4, <2>7 DEF Owned, Whole
  <2>9. ~Idle'
    BY <2>1 DEF Idle
  <2>10. Begun'
    BY <2>1, <2>4, <2>9 DEF Begun
  <2> QED BY <2>5, <2>6, <2>8, <2>10
<1>3. ASSUME NEW p \in Publishers, ~meddled, ~trouble
      PROVE  /\ Whole(backup[p]) \/ backup[p] = Nothing
             /\ new[p] => at[p] \in {"replace", "sweep", "clean"}
             /\ at[p] # "idle" => evid # Foreign /\ (evid = Nothing \/ Whole(evid))
  BY <1>3 DEF CollisionInv, AllWhole, Installed, ForeignInv
<1>4. ASSUME NEW p \in Publishers, Build(p) \/ Look(p) PROVE CollisionInv'
  <2>1. /\ at[p] \in {"build", "look"} /\ at'[p] \in {"look", "move", "install"}
        /\ \A r \in Publishers \ {p} : at'[r] = at[r]
        /\ ~meddled /\ ~trouble /\ UNCHANGED <<front, evid, backup, new, mine, count, kills, shown>>
        /\ evid = Nothing => at'[p] # "move"
    BY <1>4, StepAt DEF Build, Look, public, story
  <2>2. ~Fills(p) /\ ~new[p]
    BY <1>3, <2>1 DEF Fills
  <2> QED BY <1>3, <2>1, <2>2, CollisionKept
<1>5. ASSUME NEW p \in Publishers, BuildFails(p) \/ ReplaceFails(p) PROVE FALSE
  BY <1>5 DEF BuildFails, ReplaceFails, Fault
<1>6. ASSUME NEW p \in Publishers, Move(p) PROVE CollisionInv'
  <2>1. /\ at[p] = "move" /\ at'[p] = "install" /\ \A r \in Publishers \ {p} : at'[r] = at[r]
        /\ ~meddled /\ ~trouble /\ evid' = Nothing /\ backup'[p] = evid
        /\ UNCHANGED <<front, new, mine, count, kills, shown>>
        /\ \A r \in Publishers \ {p} : backup'[r] = backup[r]
    BY <1>6, StepAt DEF Move, story, PublisherTypes
  <2>2. ~new[p] /\ (evid = Nothing \/ Whole(evid)) /\ Fills(p)'
    BY <1>3, <2>1 DEF Fills
  <2> QED BY <2>1, <2>2, CollisionKept
\* A publication that is too late: the place was emptied, or filled, by another one.
<1>7. ASSUME NEW p \in Publishers, MoveFails(p) \/ InstallFails(p) PROVE CollisionInv'
  <2>1. /\ at[p] \in {"move", "install"} /\ at'[p] = "undo" /\ \A r \in Publishers \ {p} : at'[r] = at[r]
        /\ ~meddled /\ ~trouble /\ UNCHANGED <<front, evid, backup, new, mine, count, kills, shown>>
        /\ at[p] = "install" => Exists(evid)
    BY <1>7, StepAt DEF MoveFails, InstallFails, Raise, Fault, NoFault, public
  <2>2. ~new[p] /\ (Fills(p) => Exists(evid))
    BY <1>3, <2>1 DEF Fills
  <2> QED BY <1>3, <2>1, <2>2, CollisionKept
<1>8. ASSUME NEW p \in Publishers, Install(p) PROVE CollisionInv'
  <2>1. /\ at[p] = "install" /\ at'[p] = "replace" /\ \A r \in Publishers \ {p} : at'[r] = at[r]
        /\ ~meddled /\ ~trouble /\ evid' = Pages(mine[p])
        /\ UNCHANGED <<front, backup, mine, count, kills, shown>>
        /\ \A r \in Publishers \ {p} : new'[r] = new[r]
    BY <1>8, StepAt DEF Install, story, PublisherTypes
  <2> QED BY <1>3, <2>1, CollisionKept
<1>9. ASSUME NEW p \in Publishers, Replace(p) PROVE CollisionInv'
  <2>1. /\ at[p] = "replace" /\ at'[p] = "sweep" /\ \A r \in Publishers \ {p} : at'[r] = at[r]
        /\ ~meddled /\ ~trouble /\ UNCHANGED <<evid, backup, new, mine, count, kills>>
        /\ front' = mine[p] /\ shown' = shown \cup {mine[p]}
    BY <1>9, StepAt DEF Replace
  <2>2. Installed /\ AllWhole
    BY <2>1 DEF CollisionInv
  <2>3. Installed' /\ AllWhole'
    BY <2>1, <2>2 DEF Installed, AllWhole
  <2> SUFFICES ASSUME kills = 0 PROVE ForeignFirst' /\ Refilled' /\ Owned' /\ Begun' /\ Numbered'
    BY <2>1, <2>3 DEF CollisionInv
  <2>4. Refilled /\ Owned /\ Numbered
    BY <2>1 DEF CollisionInv
  <2>5. ForeignFirst' /\ Numbered'
    BY <1>3, <2>1, <2>4 DEF ForeignFirst, Numbered
  <2>6. Refilled'
    <3>1. \A r \in Publishers : Fills(r) => Fills(r)'
      BY <2>1 DEF Fills
    <3> QED BY <2>1, <2>4, <3>1 DEF Refilled
  <2>7. ASSUME NEW v, Succeeds(v) PROVE Succeeds(v)'
    BY <2>1, <2>7 DEF Succeeds
  <2>8. Owned'
    BY <2>1, <2>4, <2>7 DEF Owned, Whole
  <2>9. front' # 0
    BY <2>1, <2>4 DEF Numbered
  <2>10. Begun'
    BY <2>9 DEF Begun
  <2> QED BY <2>5, <2>6, <2>8, <2>10
<1>10. ASSUME NEW p \in Publishers, RemoveNew(p) PROVE CollisionInv'
  <2>1. /\ at[p] = "undo" /\ at'[p] = "restore" /\ \A r \in Publishers \ {p} : at'[r] = at[r]
        /\ ~meddled /\ ~trouble /\ UNCHANGED <<front, backup, mine, count, kills, shown>>
        /\ evid' = IF new[p] THEN Nothing ELSE evid
        /\ new'[p] = FALSE /\ \A r \in Publishers \ {p} : new'[r] = new[r]
    BY <1>10, StepAt DEF RemoveNew, story, PublisherTypes
  <2>2. ~new[p] /\ (Fills(p) => Fills(p)')
    BY <1>3, <2>1 DEF Fills
  <2> QED BY <1>3, <2>1, <2>2, CollisionKept
<1>11. ASSUME NEW p \in Publishers, RemoveFails(p) PROVE FALSE
  <2>1. new[p] /\ at[p] = "undo" /\ ~meddled /\ ~trouble
    BY <1>11, StepAt DEF RemoveFails, Raise, Fault, NoFault
  <2> QED BY <1>3, <2>1
<1>12. ASSUME NEW p \in Publishers, Restore(p) PROVE CollisionInv'
  <2>1. /\ at[p] = "restore" /\ at'[p] = "clean" /\ \A r \in Publishers \ {p} : at'[r] = at[r]
        /\ ~meddled /\ ~trouble /\ UNCHANGED <<front, new, mine, count, kills, shown>>
        /\ evid' = (IF Exists(backup[p]) THEN backup[p] ELSE evid)
        /\ backup'[p] = Nothing /\ \A r \in Publishers \ {p} : backup'[r] = backup[r]
    BY <1>12, StepAt DEF Restore, story, PublisherTypes
  <2>2. ~new[p] /\ (backup[p] = Nothing \/ Whole(backup[p]))
    BY <1>3, <2>1
  <2>3. CASE Exists(backup[p])
    <3>1. Whole(evid') /\ evid' = backup[p]
      BY <2>1, <2>2, <2>3
    <3> QED BY <2>1, <2>2, <3>1, CollisionKept
  <2>4. CASE ~Exists(backup[p])
    <3>1. evid' = evid /\ ~Fills(p)
      BY <2>1, <2>4 DEF Fills
    <3> QED BY <2>1, <2>2, <3>1, CollisionKept
  <2> QED BY <2>3, <2>4
<1>13. ASSUME NEW p \in Publishers, RestoreFails(p) PROVE CollisionInv'
  <2>1. /\ at[p] = "restore" /\ at'[p] = "clean" /\ \A r \in Publishers \ {p} : at'[r] = at[r]
        /\ ~meddled /\ ~trouble /\ Exists(evid)
        /\ UNCHANGED <<front, evid, backup, new, mine, count, kills, shown>>
    BY <1>13, StepAt DEF RestoreFails, Raise, Fault, NoFault, public
  <2> QED BY <1>3, <2>1, CollisionKept
<1>14. ASSUME NEW p \in Publishers, Sweep(p) PROVE CollisionInv'
  <2>1. /\ at[p] = "sweep" /\ at'[p] = "clean" /\ \A r \in Publishers \ {p} : at'[r] = at[r]
        /\ ~meddled /\ ~trouble /\ UNCHANGED <<front, evid, new, mine, count, kills, shown>>
        /\ backup'[p] = Nothing /\ \A r \in Publishers \ {p} : backup'[r] = backup[r]
    BY <1>14, StepAt DEF Sweep, Fault, NoFault, public, PublisherTypes
  <2>2. ~Fills(p)
    BY <2>1 DEF Fills
  <2> QED BY <2>1, <2>2, CollisionKept
<1>15. ASSUME NEW p \in Publishers, Clean(p) PROVE CollisionInv'
  <2>1. /\ at[p] = "clean" /\ at'[p] = "idle" /\ UNCHANGED <<front, evid, count, kills, shown>>
        /\ ~meddled /\ ~trouble /\ backup'[p] = Nothing /\ new'[p] = FALSE
        /\ \A r \in Publishers \ {p} :
             at'[r] = at[r] /\ backup'[r] = backup[r] /\ new'[r] = new[r] /\ mine'[r] = mine[r]
    BY <1>15 DEF Clean, Forget, story, PublisherTypes
  <2>2. ~Fills(p)
    BY <2>1 DEF Fills
  <2> QED BY <2>1, <2>2, CollisionKept
\* Only what a deletion stopped by a kill leaves is half deleted, and without a failure
\* the one deletion is of a backup, whose name is lost with the publisher.
<1>16. ASSUME NEW p \in Publishers, Kill(p) PROVE CollisionInv'
  <2>1. /\ at[p] # "idle" /\ at'[p] = "idle" /\ ~meddled /\ ~trouble /\ kills \in Nat /\ kills' = kills + 1
        /\ backup'[p] = Nothing /\ new'[p] = FALSE
        /\ \A r \in Publishers \ {p} : at'[r] = at[r] /\ backup'[r] = backup[r] /\ new'[r] = new[r]
        /\ ~(at[p] = "undo" /\ new[p]) => evid' = evid
    BY <1>16 DEF Kill, Forget, Partly, story, PublisherTypes
  <2>2. Installed /\ AllWhole
    BY <2>1 DEF CollisionInv
  <2>3. evid' = evid
    BY <1>3, <2>1
  <2>4. Installed' /\ AllWhole'
    BY <2>1, <2>2, <2>3 DEF Installed, AllWhole
  <2> QED BY <2>1, <2>4 DEF CollisionInv
<1>17. CASE UNCHANGED vars
  <2>1. UNCHANGED <<front, evid, at, mine, backup, new, meddled, trouble, shown, count, kills>>
    BY <1>17 DEF vars, public, local, story
  <2>2. (Owned => Owned') /\ (Begun => Begun') /\ (Numbered => Numbered')
    BY <2>1 DEF Owned, Succeeds, Begun, Numbered, Whole, Idle
  <2> QED BY <2>1, <2>2 DEF CollisionInv, Installed, AllWhole, ForeignFirst, Refilled, Fills, Idle
<1> QED
  BY <1>1, <1>2, <1>4, <1>5, <1>6, <1>7, <1>8, <1>9, <1>10, <1>11, <1>12, <1>13, <1>14, <1>15, <1>16, <1>17
     DEF Next, Publish

\* However many publications overlap and whoever is killed, without a failure of the
\* file system's own: the evidence at the place is never half deleted, and if nobody was
\* killed one publication has succeeded and the evidence is whole and of one that did.
THEOREM LateComersTakeNothing == Spec => []CollisionLeavesEvidence
<1>1. PublisherTypes /\ CollisionInv => CollisionLeavesEvidence
  <2> SUFFICES ASSUME PublisherTypes, CollisionInv, ~meddled, ~trouble
               PROVE  /\ evid.is \notin {"broken", "bare"}
                      /\ Idle /\ kills = 0 /\ count > 0
                           => front # 0 /\ evid.is = "whole" /\ evid.of \in shown
    BY DEF CollisionLeavesEvidence
  <2>1. evid.is \notin {"broken", "bare"}
    BY DEF CollisionInv, AllWhole, Whole, Nothing, Foreign
  <2> SUFFICES ASSUME Idle, kills = 0, count > 0
               PROVE  front # 0 /\ evid.is = "whole" /\ evid.of \in shown
    BY <2>1
  <2>2. /\ AllWhole /\ ForeignFirst /\ Refilled /\ Owned /\ Begun
        /\ \A p \in Publishers : at[p] = "idle"
    BY DEF CollisionInv, Idle
  <2>3. front # 0
    BY <2>2 DEF Begun, Idle
  <2>4. Whole(evid)
    BY <2>2, <2>3 DEF AllWhole, ForeignFirst, Refilled, Fills
  <2> QED BY <2>2, <2>3, <2>4 DEF Owned, Succeeds, Whole
<1>2. Spec => [](PublisherTypes /\ CollisionInv)
  BY Typed, InitCollision, StepForeign, StepCollision, PTL DEF Spec
<1> QED BY <1>1, <1>2, PTL

\* No step of any publication, overlapping or failing, moves or deletes a directory of
\* another origin that was there when it began.
THEOREM ForeignStays == Spec => ForeignIsKept
<1> DEFINE Stays == evid = Foreign /\ at' # at /\ ~meddled => evid' = Foreign
<1>1. PublisherTypes /\ ForeignInv /\ [Next]_vars => [Stays]_vars
  <2> SUFFICES ASSUME PublisherTypes, ForeignInv, Next, evid = Foreign, at' # at, ~meddled
               PROVE  FALSE
    OBVIOUS
  <2>1. Idle
    BY DEF ForeignInv, Idle
  <2>2. ~User
    BY DEF User, local
  <2>3. PICK p \in Publishers : Publish(p) \/ Kill(p)
    BY <2>2 DEF Next
  <2>4. at[p] = "idle"
    BY <2>1 DEF Idle
  <2>5. Start(p)
    BY <2>3, <2>4
       DEF Publish, Build, BuildFails, Look, Move, MoveFails, Install, InstallFails, Replace, ReplaceFails,
           RemoveNew, RemoveFails, Restore, RestoreFails, Sweep, Clean, Kill, Raise, Step
  <2> QED BY <2>5, DirectoryKinds DEF Start, MayReplace
<1>2. Spec => [](PublisherTypes /\ ForeignInv)
  BY Typed, InitCollision, StepForeign, PTL DEF Spec
<1> QED BY <1>1, <1>2, PTL DEF Spec, ForeignIsKept

=============================================================================
