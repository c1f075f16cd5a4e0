------------------------------ MODULE MCCommands -------------------------------
(***************************************************************************)
(* What the commands do around a trace: publish a site, keep the label     *)
(* store, run a batch, ask System One, consolidate drafts.                 *)
(* They share nothing; one run checks them all, `part` says which moves.   *)
(***************************************************************************)
EXTENDS SitePublish, Consolidation, LabelStore, BatchRunner, Asker

CONSTANTS Parts

VARIABLES part

MCObjects == [r1 |-> [task |-> <<>>, episode |-> <<"e1">>, turn |-> <<>>],
              r2 |-> [task |-> <<>>, episode |-> <<>>, turn |-> <<"t2">>]]
MCBank == [task |-> <<>>, episode |-> <<[id |-> "f", crit |-> 1]>>, turn |-> <<[id |-> "f", crit |-> 1]>>]
MCPaths == {<<"r1">>, <<"r2", "r1">>}

Trace(date, model, fails) == [date |-> date, model |-> model, fails |-> fails]
MCUnits == <<[size |-> 1, traces |-> <<Trace(2, "a", FALSE)>>],
             [size |-> 2, traces |-> <<Trace(2, "a", FALSE), Trace(1, "a", TRUE), Trace(3, "b", FALSE), Trace(2, "a", TRUE)>>],
             [size |-> 2, traces |-> <<Trace(0, "a", TRUE), Trace(2, "a", FALSE)>>]>>

Feature(id, heavy, hidden, bytes) == [id |-> id, heavy |-> heavy, hidden |-> hidden, bytes |-> bytes]
MCItems == <<[state |-> 1, diagnostic |-> FALSE, feats |-> <<Feature("f", FALSE, FALSE, 1), Feature("g", FALSE, FALSE, 1), Feature("h", FALSE, TRUE, 1)>>],
             [state |-> 1, diagnostic |-> FALSE, feats |-> <<Feature("g", FALSE, FALSE, 1), Feature("f", FALSE, FALSE, 1)>>],
             [state |-> 2, diagnostic |-> TRUE, feats |-> <<Feature("f", FALSE, FALSE, 2), Feature("k", TRUE, FALSE, 4)>>]>>
Draft(id, size_, cites) == [id |-> id, size |-> size_, cites |-> cites]
MCSize == <<2, 2, 3>>
MCCompact == <<1, 1, 1>>
MCDrafts == {<<Draft("a", 1, {1}), Draft("b", 1, {2})>>, <<Draft("a", 2, {1}), Draft("b", 2, {2}), Draft("c", 2, {3})>>,
             <<Draft("a", 3, {1, 2}), Draft("a", 2, {1, 3}), Draft("b", 3, {2}), Draft("c", 3, {3})>>, <<Draft("a", 6, {1})>>}
MCProposals == {<<>>} \cup {<<Draft(id, n, c)>> : id \in {"d", "e"}, n \in {1, 3, 5}, c \in {{1}, {2}, {2, 3}}}
               \cup {<<Draft("d", 2, {1}), Draft("g", 2, {c})>> : c \in 1..3}

MCInit ==
  /\ part \in Parts
  /\ Init /\ LabelInit /\ RunnerInit /\ AskerInit /\ ConsolidationInit
  /\ part # "site" => evid = Nothing
  /\ part # "batch" => jobs = 1
  /\ part # "drafts" => candidates = <<Draft("a", 6, {1})>>

MCNext ==
  \/ part = "site" /\ Next /\ UNCHANGED <<part, lvars, rvars, avars, cvars>>
  \/ part = "labels" /\ LabelNext /\ UNCHANGED <<part, vars, rvars, avars, cvars>>
  \/ part = "batch" /\ RunnerNext /\ UNCHANGED <<part, vars, lvars, avars, cvars>>
  \/ part = "asking" /\ AskerNext /\ UNCHANGED <<part, vars, lvars, rvars, cvars>>
  \/ part = "drafts" /\ ConsolidationNext /\ UNCHANGED <<part, vars, lvars, rvars, avars>>

MCSpec == MCInit /\ [][MCNext]_<<part, vars, lvars, rvars, avars, cvars>>

Symmetry == Permutations(Publishers) \cup Permutations(Commands) \cup Permutations(Workers)
=============================================================================
