-------------------------- MODULE PublishedAudit --------------------------
(***************************************************************************)
(* What an audit directory promises to whoever loads it, whatever happens  *)
(* to the processes that write it and to its files.                        *)
(*                                                                         *)
(* At any moment a reader finds one finished result or none.  A run first  *)
(* withdraws what earlier runs left; from then on only its own results can *)
(* be shown, and never a result of an earlier run again.                   *)
(***************************************************************************)
EXTENDS Naturals

CONSTANTS Results,  \* the finished results
          None      \* nothing can be loaded

VARIABLES visible,  \* the result a reader would accept now
          current,  \* the run that withdrew the directory last
          retired   \* the runs it withdrew it from

vars == <<visible, current, retired>>

Init == visible = None /\ current = 0 /\ retired = {}

\* A run announces itself: what was there is withdrawn for good.
Withdraw ==
  /\ visible' = None
  /\ current' \in Nat \ (retired \cup {0, current})
  /\ retired' = retired \cup {current}

\* The announced run shows a finished result, where nothing was shown before.
Show ==
  /\ visible = None
  /\ visible' \in Results
  /\ visible'.run = current
  /\ UNCHANGED <<current, retired>>

\* A result is taken back to be revised, or its files are damaged.
Hide == visible' = None /\ UNCHANGED <<current, retired>>

Next == Withdraw \/ Show \/ Hide

Spec == Init /\ [][Next]_vars

=============================================================================
