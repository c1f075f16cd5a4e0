------------------------------- MODULE Handovers -------------------------------
(***************************************************************************)
(* The ledger of delegations (primitives/handovers.py): which launch of a  *)
(* parent belongs to which child, what came back, and when.                *)
(*                                                                         *)
(* sessions maps a session to its events, Root first.  An event is         *)
(*   act    "launch", "resume", "steer", "wait", "notify", "message",      *)
(*          "read", "write" (tool calls, notifications and messages), or   *)
(*          "result", the tool result of the call with the same id         *)
(*   call   the call id        agent  the agent it names, or None          *)
(*   says   "done", "background", "rejected", "failed", "terminated",      *)
(*          "silent": what a result or a notification reports              *)
(*   final  a final answer     path   the artifact, or None                *)
(* Time is the position of an event: at[s][i] is its wall clock, 0 if none.*)
(* links maps a child to the edge that the forest found for it.            *)
(***************************************************************************)
EXTENDS Integers, SequencesExt

CONSTANTS Root, None

Row(parent, i, agent, child) ==
  [parent |-> parent, spawn |-> i, agent |-> agent, child |-> child, confidence |-> "unknown",
   status |-> "unknown", reply |-> "missing", log |-> <<[kind |-> "spawn", session |-> parent, idx |-> i]>>,
   resumed |-> 0, steered |-> 0, transcript |-> FALSE, read |-> {}, written |-> {}, repair |-> FALSE]

Note(row, kind, session, i) == [row EXCEPT !.log = Append(@, [kind |-> kind, session |-> session, idx |-> i])]

\* _final
Final(row, session, i, truncated) ==
  [Note(row, "final", session, i) EXCEPT !.status = "completed", !.reply = IF truncated THEN "truncated" ELSE "plaintext"]

\* results = {ev.call_id: ev ...}: the last result with the call's id
ResultOf(events, i) ==
  LET with == {j \in DOMAIN events : events[j].act = "result" /\ events[j].call = events[i].call /\ events[i].call # None}
  IN IF with = {} THEN 0 ELSE Max(with)

\* _result_id: the receiver the call names, else the agent its result names
AgentOf(events, i) ==
  IF events[i].agent # None THEN events[i].agent
  ELSE IF ResultOf(events, i) = 0 THEN None ELSE events[ResultOf(events, i)].agent

\* the rows by agent and by child are dictionaries: the last launch wins
RowOf(acc, target) ==
  LET byAgent == {k \in DOMAIN acc : target # None /\ acc[k].agent = target}
      byChild == {k \in DOMAIN acc : target # None /\ acc[k].child = target}
  IN IF byAgent # {} THEN Max(byAgent) ELSE IF byChild # {} THEN Max(byChild) ELSE 0

-----------------------------------------------------------------------------
(* First pass: every tool call of every session, parents' sessions first.    *)

Launch(sessions, links, acc, s, i) ==
  LET events == sessions[s]
      result == ResultOf(events, i)
      agent == AgentOf(events, i)
      child == IF agent \in DOMAIN links \union DOMAIN sessions THEN agent ELSE None
      fresh == [Row(s, i, agent, child) EXCEPT
                  !.confidence = IF child \in DOMAIN links THEN links[child].confidence ELSE @]
      heard == IF result = 0 THEN fresh
               ELSE LET told == Note(fresh, "acknowledgement", s, result) IN
                    CASE events[result].says = "rejected"   -> [told EXCEPT !.status = "spawn-rejected", !.repair = TRUE]
                      [] events[result].says = "background" -> [told EXCEPT !.status = "running-at-capture"]
                      [] events[result].says = "done"       ->
                           Note(Final(told, s, result, events[result].truncated), "consumption", s, result)
                      [] OTHER                              -> told
  IN Append(acc, heard)

Waited(sessions, row, s, i) ==
  LET result == ResultOf(sessions[s], i)
      noted == Note(row, "wait", s, i)
  IN IF result # 0 /\ sessions[s][result].says = "done"
     THEN Note(Final(noted, s, result, sessions[s][result].truncated), "consumption", s, result)
     ELSE noted

TakeToolCall(sessions, links, acc, s, i) ==
  LET e == sessions[s][i]
      k == RowOf(acc, e.agent)
  IN CASE e.act = "launch"             -> Launch(sessions, links, acc, s, i)
       [] e.act = "resume" /\ k # 0    -> [acc EXCEPT ![k] = [Note(@, "resume", s, i) EXCEPT !.resumed = @ + 1]]
       [] e.act = "steer" /\ k # 0     -> [acc EXCEPT ![k] = [Note(@, "steer", s, i) EXCEPT !.steered = @ + 1]]
       [] e.act = "wait" /\ k # 0      -> [acc EXCEPT ![k] = Waited(sessions, @, s, i)]
       [] OTHER                        -> acc

\* every event of every session, in the order of trace.root, *trace.subagents
Walk(sessions, order, Op(_, _, _), base) ==
  FoldLeft(LAMBDA acc, s : FoldLeftDomain(LAMBDA inner, i : Op(inner, s, i), acc, sessions[s]), base, order)

-----------------------------------------------------------------------------
(* Second pass: notifications, which name agents.                            *)

TakeNotification(sessions, acc, s, i) ==
  LET e == sessions[s][i]
      rows == {k \in DOMAIN acc : e.agent # None /\ acc[k].agent = e.agent}
      k == Max(rows)
      row == Note(acc[k], "notification", s, i)
  IN IF e.act # "notify" \/ rows = {} THEN acc
     ELSE [acc EXCEPT ![k] =
             CASE e.says = "done" /\ row.reply \in {"missing", "truncated"} -> Final(row, s, i, e.truncated)
               [] e.says = "silent" /\ row.status # "completed"             -> [row EXCEPT !.status = "result-unavailable"]
               [] e.says \in {"failed", "terminated"} /\ row.status # "completed" -> [row EXCEPT !.status = e.says]
               [] OTHER                                                     -> row]

-----------------------------------------------------------------------------
(* Joins: a child nobody named goes to the only launch of its parent that    *)
(* has no child yet.  links are visited in the order the forest gives them.  *)

\* Mutant of JoinUnnamed: a child that a launch has named already is joined again.
JoinAgain(links, acc, child) ==
  LET free == {k \in DOMAIN acc : acc[k].parent = links[child].parent /\ acc[k].child = None}
  IN IF links[child].kind # "spawn" \/ Cardinality(free) # 1 THEN acc ELSE [acc EXCEPT ![Max(free)].child = child]

JoinUnnamed(links, acc, child) ==
  LET free == {k \in DOMAIN acc : acc[k].parent = links[child].parent /\ acc[k].child = None}
      named == \E k \in DOMAIN acc : acc[k].child = child
  IN IF links[child].kind # "spawn" \/ named \/ Cardinality(free) # 1 THEN acc
     ELSE [acc EXCEPT ![Max(free)].child = child, ![Max(free)].confidence = "medium"]

\* what the child's own transcript adds; only the last row of a child is told
ReadTranscript(sessions, stubs, acc, child) ==
  LET rows == {k \in DOMAIN acc : acc[k].child = child}
      events == sessions[child]
      Finals == SelectSeq([i \in DOMAIN events |-> i],
                          LAMBDA i : events[i].act = "message" /\ (events[i].final \/ i = Len(events)))
      Touched(act) == {events[i].path : i \in {j \in DOMAIN events : events[j].act = act}} \ {None}
      full == [acc[Max(rows)] EXCEPT !.transcript = TRUE, !.read = Touched("read"), !.written = Touched("write")]
  IN IF rows = {} \/ child \in stubs THEN acc
     ELSE [acc EXCEPT ![Max(rows)] = FoldLeft(LAMBDA row, i : Final(row, child, i, FALSE), full, Finals)]

\* build_handovers without its measures; order lists the sessions, joins the links
BuildHandovers(sessions, order, links, joins, stubs) ==
  LET launched == Walk(sessions, order, LAMBDA acc, s, i : TakeToolCall(sessions, links, acc, s, i), <<>>)
      notified == Walk(sessions, order, LAMBDA acc, s, i : TakeNotification(sessions, acc, s, i), launched)
      joined == FoldLeft(LAMBDA acc, child : JoinUnnamed(links, acc, child), notified, joins)
  IN FoldLeft(LAMBDA acc, child : ReadTranscript(sessions, stubs, acc, child), joined, order)

-----------------------------------------------------------------------------
(* What the times say about a row.                                           *)

Logged(row, kind) == {k \in DOMAIN row.log : row.log[k].kind = kind}
FirstOf(row, kind) == row.log[Min(Logged(row, kind))]
TimeOf(at, entry) == at[entry.session][entry.idx]

\* the first action of the parent after the first final that was logged, 0 if none
ParentNextAction(sessions, at, row) ==
  IF Logged(row, "final") = {} \/ TimeOf(at, FirstOf(row, "final")) = 0 THEN 0
  ELSE LET later == {i \in DOMAIN sessions[row.parent] : at[row.parent][i] > TimeOf(at, FirstOf(row, "final"))}
       IN IF later = {} THEN 0 ELSE Min(later)

\* "late": a parent's write to the child's files at or after the return; "possible": no times
Overlap(sessions, at, row) ==
  LET events == sessions[row.parent]
      writes == {i \in DOMAIN events : events[i].act = "write" /\ events[i].path \in row.written}
      timed == /\ \A i \in writes : at[row.parent][i] # 0
               /\ TimeOf(at, FirstOf(row, "final")) # 0
  IN IF Logged(row, "final") = {} \/ writes = {} THEN "none"
     ELSE IF ~timed THEN "possible"
     ELSE IF \E i \in writes : at[row.parent][i] >= TimeOf(at, FirstOf(row, "final")) THEN "late" ELSE "early"

\* the return came after the parent's last final answer
ReturnAfterParentFinal(sessions, at, row) ==
  LET finals == {i \in DOMAIN sessions[row.parent] : /\ sessions[row.parent][i].act = "message"
                                                     /\ sessions[row.parent][i].final /\ at[row.parent][i] # 0}
  IN /\ Logged(row, "final") # {} /\ finals # {}
     /\ TimeOf(at, FirstOf(row, "final")) > at[row.parent][Max(finals)]

\* orphaned_returns: children that answered and no launch was joined with
OrphanedReturns(sessions, rows, stubs) ==
  {c \in DOMAIN sessions \ ({Root} \union stubs) :
     /\ \A k \in DOMAIN rows : rows[k].child # c
     /\ \E i \in DOMAIN sessions[c] : sessions[c][i].act = "message"}
=============================================================================
