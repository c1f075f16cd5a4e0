---------------------------- MODULE CodexDecoder ----------------------------
(***************************************************************************)
(* The streaming decoder of Codex rollouts                                 *)
(* (src/agent_hotwash/sources/codex_native.py, _decode_v2): one record     *)
(* after the other becomes events, turns and model calls.  A call is       *)
(* closed by the usage record of its response; a child's file may begin    *)
(* with records of its parent, which must not count.                       *)
(*                                                                         *)
(* Each action is one record of the file and what the loop body does with  *)
(* it.  Which records follow each other is up to the program that wrote    *)
(* the file: its turns do not overlap, and its parent's records come first.*)
(* Positions in the stream of events begin with 1.                         *)
(***************************************************************************)
EXTENDS Naturals, Sequences, FiniteSetsExt, Functions

CONSTANTS
  MaxRecords,  \* bound on the records after the header
  MaxTurns,    \* bound on the turns
  Starts,      \* subagent_history_start_ordinal, 0 where the header has none
  PairGap      \* _COMPACTION_PAIR_GAP

ASSUME BoundsAssumption == {MaxRecords, MaxTurns, PairGap} \subseteq Nat
ASSUME StartsAssumption == Starts \subseteq Nat

None    == 0
TurnIds == 1..MaxTurns
Inputs  == {"none", "user", "delegation"}
Kinds   == {"user_msg", "assistant_msg", "tool_call", "tool_result", "compaction", "meta"}
Event   == [kind : Kinds, turn : 0..MaxTurns, resp : Nat, usage : BOOLEAN, group : Nat]
Call    == [turn : TurnIds, resp : Nat, usage : BOOLEAN, first : Nat, last : Nat]
Turn    == [known : BOOLEAN, first : Nat, last : Nat, status : {"open", "completed", "aborted"},
            input : Inputs, compactions : Nat]

VARIABLES
  n,           \* the ordinal of the next record
  now,         \* the turn the writing program is in
  mine,        \* what is written now is the child's own, no longer its parent's
  done,        \* the file has been read to its end
  start,       \* replay_start
  secondMeta,  \* seen_second_meta
  untilOwn,    \* replay_until_own_thread
  events,
  turns,
  latest,      \* turn_order[-1]
  calls,       \* the model_calls of all turns
  callEvents,  \* current_call_events, as positions
  callStart,   \* current_call_start_idx
  seenUsage,   \* seen_usage_record
  seenItem,    \* seen_item_completed
  counts,      \* token_count_usage: position and turn
  agentCalls,  \* agent_calls: the ids of the calls
  compacted,   \* last_compacted_idx
  group,       \* open_group
  pairs,       \* history: compactions whose item was recognised
  heard,       \* history: a record with the file's own thread id was read
  lost         \* history: an own record was skipped after that

file  == <<n, now, mine, done, start>>
gate  == <<secondMeta, untilOwn>>
usage == <<seenUsage, counts>>
open  == <<calls, callStart>>
items == <<seenItem, agentCalls, compacted, group>>
story == <<pairs, heard, lost>>
vars  == <<file, gate, events, turns, latest, open, callEvents, usage, items, story>>

Init ==
  /\ n = 1 /\ now = None /\ mine = FALSE /\ done = FALSE
  /\ start \in Starts
  /\ secondMeta = FALSE /\ untilOwn = FALSE
  /\ events = <<>>
  /\ turns = [t \in TurnIds |-> [known |-> FALSE, first |-> 0, last |-> 0, status |-> "open",
                                 input |-> "none", compactions |-> 0]]
  /\ latest = None
  /\ calls = {} /\ callEvents = {} /\ callStart = 1
  /\ seenUsage = FALSE /\ counts = <<>>
  /\ seenItem = FALSE /\ agentCalls = {} /\ compacted = None /\ group = None
  /\ pairs = {} /\ heard = FALSE /\ lost = FALSE

-----------------------------------------------------------------------------
(***************************************************************************)
(* Who writes, and what the gate lets through.                             *)
(***************************************************************************)
Writing    == ~done /\ n <= MaxRecords
OwnTime    == Writing /\ n >= start
ParentTime == Writing /\ (n < start \/ (secondMeta /\ ~mine /\ start = 0))

InReplay(thread) ==
  IF start # 0 THEN n < start
               ELSE (secondMeta \/ untilOwn) /\ thread # "own"

Opens(thread) == start = 0 /\ (secondMeta \/ untilOwn) /\ thread = "own"

\* A record of the file's own thread that the gate lets through.
Accept(thread) ==
  /\ OwnTime /\ ~InReplay(thread)
  /\ n' = n + 1
  /\ mine' = TRUE
  /\ untilOwn' = (untilOwn /\ ~Opens(thread))
  /\ heard' = (heard \/ thread = "own")
  /\ UNCHANGED <<done, start, secondMeta, lost>>

InTurn == now # None /\ UNCHANGED now

-----------------------------------------------------------------------------
(***************************************************************************)
(* What the records have in common.                                        *)
(***************************************************************************)
Plain(kind, t) == [kind |-> kind, turn |-> t, resp |-> None, usage |-> FALSE, group |-> group]
Marker(t) == [Plain("meta", t) EXCEPT !.group = None]

\* _ensure_turn: the turn reaches the next event and, if it is new, begins there.
EnsuredAt(t, next) ==
  [turns EXCEPT ![t] = [turns[t] EXCEPT !.first = IF turns[t].known THEN turns[t].first ELSE next,
                                        !.last = next,
                                        !.known = TRUE]]
Ensured(t) == EnsuredAt(t, Len(events) + 1)
LatestWith(t) == IF turns[t].known THEN latest ELSE t

\* An event outside any call, and one that the next usage record pays for.
Note(e) == events' = Append(events, e) /\ UNCHANGED callEvents
Collect(e) == events' = Append(events, e) /\ callEvents' = callEvents \cup {Len(events) + 1}

\* _close_call: its events get the response and, where they have none, the turn.
Stamped(evs, rid, t) ==
  [i \in 1..Len(evs) |->
     IF i \in callEvents
     THEN [evs[i] EXCEPT !.resp = rid, !.turn = IF @ = None THEN t ELSE @]
     ELSE evs[i]]

Reach(evs) == IF callStart > Len(evs) THEN callStart ELSE Len(evs)
CallUpTo(evs, rid, paid, t) ==
  [turn |-> t, resp |-> rid, usage |-> paid, first |-> callStart, last |-> Reach(evs)]

-----------------------------------------------------------------------------
(***************************************************************************)
(* Headers and the parent's records.                                       *)
(***************************************************************************)

\* The parent's session_meta at the head of a child's file.
ParentMeta ==
  /\ Writing /\ n = 1 /\ (start # 0 => n < start)
  /\ n' = n + 1
  /\ secondMeta' = TRUE
  /\ untilOwn' = (start = 0)
  /\ UNCHANGED <<now, mine, done, start, events, turns, latest, open, callEvents, usage, items, story>>

\* A record in the replay: only the summary of a compaction is kept, as context.
Skip(thread, summary) ==
  /\ InReplay(thread)
  /\ n' = n + 1
  /\ events' = IF summary THEN Append(events, Marker(None)) ELSE events
  /\ UNCHANGED <<done, start, gate, turns, latest, open, callEvents, usage, items, pairs, heard>>

SkipParents ==
  /\ ParentTime
  /\ \E thread \in {"parent", "none"}, summary \in BOOLEAN :
       (summary => thread = "none") /\ Skip(thread, summary)
  /\ UNCHANGED <<now, mine, lost>>

\* An own record without a thread id; it may begin the next turn.
SkipOwn ==
  /\ OwnTime
  /\ \E summary \in BOOLEAN : Skip("none", summary)
  /\ mine' = TRUE
  /\ now' \in {now, now + 1} /\ now' <= MaxTurns
  /\ lost' = (lost \/ heard)

-----------------------------------------------------------------------------
(***************************************************************************)
(* Turns: turn_context, task_started, task_complete, turn_aborted, and the *)
(* markers that belong to no turn.                                         *)
(***************************************************************************)
TaskStarted ==
  /\ Accept("none")
  /\ now < MaxTurns /\ now' = now + 1
  /\ turns' = Ensured(now + 1)
  /\ latest' = LatestWith(now + 1)
  /\ Note(Marker(now + 1))
  /\ UNCHANGED <<open, usage, items, pairs>>

TurnContext ==
  /\ Accept("none") /\ InTurn
  /\ turns' = Ensured(now)
  /\ latest' = LatestWith(now)
  /\ Note(Marker(now))
  /\ UNCHANGED <<open, usage, items, pairs>>

TaskEnds ==
  /\ Accept("none") /\ InTurn
  /\ \E status \in {"completed", "aborted"} :
       turns' = [Ensured(now) EXCEPT ![now].status = status]
  /\ latest' = LatestWith(now)
  /\ Note(Marker(now))
  /\ UNCHANGED <<open, usage, items, pairs>>

\* A script that the program runs: what happens in it shares its group.
ExecOpens ==
  /\ Accept("none") /\ InTurn
  /\ group' = n
  /\ Note([Plain("meta", None) EXCEPT !.group = n])
  /\ UNCHANGED <<turns, latest, open, usage, seenItem, agentCalls, compacted, pairs>>

ExecCloses ==
  /\ Accept("none") /\ InTurn
  /\ \E i \in 1..Len(events) :
       /\ events[i].group # None
       /\ group' = IF events[i].group = group THEN None ELSE group
       /\ Note([Plain("meta", None) EXCEPT !.group = events[i].group])
  /\ UNCHANGED <<turns, latest, open, usage, seenItem, agentCalls, compacted, pairs>>

\* token_count: a marker; its figures are remembered in case that no usage record
\* comes.  Without figures, and for thread_settings_applied, it is only a marker.
TokenCount ==
  /\ Accept("none") /\ InTurn
  /\ Note(Marker(now))
  /\ counts' \in {counts, Append(counts, [at |-> Len(events) + 1, turn |-> now])}
  /\ UNCHANGED <<turns, latest, open, seenUsage, items, pairs>>

-----------------------------------------------------------------------------
(***************************************************************************)
(* item_completed.                                                         *)
(***************************************************************************)
Item == Accept("own") /\ InTurn /\ seenItem' = TRUE /\ UNCHANGED <<open, usage, group>>

Given(tn, kind) == [tn EXCEPT ![now].input = IF @ = "none" THEN kind ELSE @]

\* What the user, the harness or a creating thread says.
UserMessage ==
  /\ Item
  /\ \E hint \in {"user", "delegation", "injected"} :
       turns' = IF hint = "injected" THEN Ensured(now) ELSE Given(Ensured(now), hint)
  /\ latest' = LatestWith(now)
  /\ Collect(Plain("user_msg", now))
  /\ UNCHANGED <<agentCalls, compacted, pairs>>

\* AgentMessage and Reasoning, an ImageView, a FunctionCallOutput, the activity of
\* a subagent.
OneEventItem ==
  /\ Item
  /\ \E kind \in {"assistant_msg", "tool_call", "tool_result", "meta"} :
       /\ Collect(Plain(kind, now))
       /\ \/ turns' = Ensured(now)
          \/ kind = "tool_result" /\ turns' = Given(Ensured(now), "delegation")  \* create_thread
  /\ latest' = LatestWith(now)
  /\ UNCHANGED <<agentCalls, compacted, pairs>>

\* A command, a change of files, a tool of a server: a call and its result.
Operation ==
  /\ Item
  /\ turns' = Ensured(now)
  /\ latest' = LatestWith(now)
  /\ events' = Append(Append(events, Plain("tool_call", now)), Plain("tool_result", now))
  /\ callEvents' = callEvents \cup {Len(events) + 1, Len(events) + 2}
  /\ UNCHANGED <<agentCalls, compacted, pairs>>

\* An item of a type the decoder does not know.
UnknownItem ==
  /\ Item
  /\ turns' = Ensured(now)
  /\ latest' = LatestWith(now)
  /\ UNCHANGED <<events, callEvents, agentCalls, compacted, pairs>>

\* CollabAgentToolCall: the mirror of a function call already seen, or a call.
CollabItem ==
  /\ Item
  /\ \/ /\ agentCalls # {}
        /\ UNCHANGED <<events, callEvents, turns, latest>>
     \/ /\ turns' = Ensured(now)
        /\ latest' = LatestWith(now)
        /\ Collect(Plain("tool_call", now))
  /\ UNCHANGED <<agentCalls, compacted, pairs>>

\* ContextCompaction: the item of the last compacted record if both are close in
\* the stream and in time.
Near == compacted # None /\ Len(events) + 1 - compacted <= PairGap

Pairs(kept) ==
  /\ Near
  /\ pairs' = pairs \cup {[record |-> compacted, item |-> Len(events) + 1]}
  /\ compacted' = kept
  /\ Note(Marker(now))
  /\ UNCHANGED <<turns, latest>>

\* Mutant of PairedItem: the record stays open for another item.
PairedAgain == Pairs(compacted)

PairedItem == Pairs(None)

\* It can be far from the record in time wherever it is in the stream.
LoneItem ==
  /\ turns' = [Ensured(now) EXCEPT ![now].compactions = @ + 1]
  /\ latest' = LatestWith(now)
  /\ Collect(Plain("compaction", now))
  /\ UNCHANGED <<compacted, pairs>>

CompactionItem == Item /\ (PairedItem \/ LoneItem) /\ UNCHANGED agentCalls

-----------------------------------------------------------------------------
(***************************************************************************)
(* Other records of a turn.                                                *)
(***************************************************************************)
Compacted ==
  /\ Accept("none") /\ InTurn
  /\ compacted' = Len(events) + 1
  /\ Collect([Plain("compaction", None) EXCEPT !.group = None])
  /\ turns' = IF latest = None THEN turns
              ELSE [turns EXCEPT ![latest].compactions = @ + 1]
  /\ UNCHANGED <<latest, open, usage, seenItem, agentCalls, group, pairs>>

\* A function_call on another agent.
AgentFunction ==
  /\ Accept("none") /\ InTurn
  /\ agentCalls' = agentCalls \cup {n}
  /\ Collect(Plain("tool_call", None))
  /\ UNCHANGED <<turns, latest, open, usage, seenItem, compacted, group, pairs>>

\* agent_message: a task from the parent, a report of a child, or, as long as no
\* item was seen, the assistant of an older program.
AgentMessage ==
  /\ Accept("none") /\ InTurn
  /\ \/ /\ turns' = Given(EnsuredAt(now, Len(events) + 2), "delegation")
        /\ latest' = LatestWith(now)
        /\ Collect(Plain("user_msg", None))
     \/ /\ UNCHANGED <<turns, latest>>
        /\ \/ Collect(Plain("user_msg", None))  \* a task that names no turn
           \/ Collect(Plain("tool_result", None))
           \/ ~seenItem /\ Collect(Plain("assistant_msg", None))
  /\ UNCHANGED <<open, usage, items, pairs>>

-----------------------------------------------------------------------------
(***************************************************************************)
(* Usage records, which close a call, and the end of the file.             *)
(***************************************************************************)

\* A parent's usage record behind the prefix is dropped, by the gate or after it.
ForeignUsage ==
  /\ OwnTime
  /\ n' = n + 1
  /\ UNCHANGED <<now, mine, done, start, gate, events, turns, latest, open, callEvents, usage, items, story>>

\* A record without figures closes the call too, unless there is nothing to close.
ClosesCall(next, kept) ==
  /\ Accept("own") /\ InTurn
  /\ seenUsage' = TRUE
  /\ turns' = Ensured(now)
  /\ latest' = LatestWith(now)
  /\ \E paid \in BOOLEAN :
       LET evs == Append(events, [Marker(now) EXCEPT !.resp = n, !.usage = paid])
       IN /\ events' = Stamped(evs, n, now)
          /\ calls' = IF callEvents = {} /\ ~paid THEN calls
                      ELSE calls \cup {CallUpTo(evs, n, paid, now)}
  /\ callStart' = next
  /\ callEvents' = kept
  /\ UNCHANGED <<counts, items, pairs>>

\* Mutant of UsageRecord: the next call begins with the record that closes this one.
UsageKeepsStart == ClosesCall(Len(events) + 1, {})
\* Mutant of UsageRecord: the events of the call are kept for the next one.
UsageKeepsEvents == ClosesCall(Len(events) + 2, callEvents)

UsageRecord == ClosesCall(Len(events) + 2, {})


\* The unterminated trailing call goes to the turn of its last event.
TailTurn == IF callEvents = {} THEN None ELSE events[Max(callEvents)].turn
TrailingCalls ==
  IF TailTurn # None /\ turns[TailTurn].known THEN {CallUpTo(events, None, FALSE, TailTurn)} ELSE {}

\* Files without usage records: each token_count ends a call.
Fallback == ~seenUsage /\ counts # <<>>
Home(k) == IF turns[counts[k].turn].known THEN counts[k].turn ELSE latest
CountedCalls ==
  {[turn |-> Home(k), resp |-> None, usage |-> TRUE,
    first |-> IF k = 1 THEN 1 ELSE counts[k - 1].at + 1, last |-> counts[k].at] :
   k \in {j \in 1..Len(counts) : Home(j) # None}}
Counted(i) == Fallback /\ \E k \in 1..Len(counts) : counts[k].at = i

\* The turn covers the events that carry its id.
Carried(evs, t) == {i \in 1..Len(evs) : evs[i].turn = t}
Spanned(evs, t) ==
  [turns[t] EXCEPT !.first = Min({@} \cup Carried(evs, t)),
                   !.last = Max({@} \cup Carried(evs, t))]

Ranges(evs) == [t \in TurnIds |-> IF turns[t].known THEN Spanned(evs, t) ELSE turns[t]]

Finish ==
  /\ ~done /\ done' = TRUE
  /\ LET evs == Stamped(events, None, TailTurn)
     IN /\ events' = [i \in 1..Len(evs) |-> IF Counted(i) THEN [evs[i] EXCEPT !.usage = TRUE] ELSE evs[i]]
        /\ turns' = Ranges(evs)
  /\ calls' = IF Fallback THEN CountedCalls ELSE calls \cup TrailingCalls
  /\ callEvents' = {}
  /\ UNCHANGED <<n, now, mine, start, gate, latest, callStart, usage, items, story>>

-----------------------------------------------------------------------------
Next ==
  \/ ParentMeta \/ SkipParents \/ SkipOwn \/ ForeignUsage
  \/ TaskStarted \/ TurnContext \/ TaskEnds
  \/ ExecOpens \/ ExecCloses
  \/ TokenCount
  \/ UserMessage \/ OneEventItem \/ Operation \/ UnknownItem \/ CollabItem \/ CompactionItem
  \/ Compacted \/ AgentFunction \/ AgentMessage
  \/ UsageRecord
  \/ Finish

Spec == Init /\ [][Next]_vars

-----------------------------------------------------------------------------
\* The decoder's variables keep their types; positions exist, and the events that
\* wait for a usage record lie behind the last call.
TypeOK ==
  /\ n \in Nat /\ now \in 0..MaxTurns /\ start \in Starts
  /\ {mine, done, secondMeta, untilOwn, seenUsage, seenItem, heard, lost} \subseteq BOOLEAN
  /\ events \in Seq(Event)
  /\ turns \in [TurnIds -> Turn]
  /\ latest \in 0..MaxTurns
  /\ calls \subseteq Call
  /\ callStart \in 1..Len(events) + 1
  /\ callEvents \subseteq callStart..Len(events)
  /\ counts \in Seq([at : Nat, turn : TurnIds])
  /\ agentCalls \subseteq Nat /\ group \in Nat
  /\ compacted \in 0..Len(events)
  /\ pairs \subseteq [record : Nat, item : Nat]

\* No event belongs to two model calls, not even to calls of two turns, so that
\* nothing is counted twice (_close_call; the fallback on token counts).
EventsInOneCall ==
  /\ \A c \in calls : 1 <= c.first /\ c.first <= c.last /\ c.last <= Len(events)
  /\ \A c, d \in calls : c # d => c.last < d.first \/ d.last < c.first

\* The stamp on an event and the range of a call say the same: what carries the
\* id of a response lies in the call of that response.
StampsMatchCalls ==
  \A i \in 1..Len(events) :
    events[i].resp # None /\ (events[i].usage \/ events[i].kind # "meta") =>
      \E c \in calls : c.resp = events[i].resp /\ i \in c.first..c.last

\* What was billed is in exactly one call, as its last event, and a call that
\* claims to be billed ends with a bill of its turn; with usage records or without.
BillsEndCalls ==
  done =>
    /\ \A i \in 1..Len(events) : events[i].usage =>
         (Fallback /\ latest = None) \/ \E c \in calls : c.usage /\ c.last = i
    /\ \A c \in calls : c.usage =>
         /\ events[c.last].usage /\ events[c.last].resp = c.resp
         /\ ~Fallback => events[c.last].turn = c.turn

\* An item is taken for the mirror of one compacted record only, and the turns
\* count the compactions that the stream shows.
CompactionEvents == {i \in 1..Len(events) : events[i].kind = "compaction"}
CountOf(tn) == FoldFunction(+, 0, [t \in TurnIds |-> tn[t].compactions])
CompactionsCountedOnce ==
  /\ \A p, q \in pairs : p.record = q.record => p = q
  /\ ~secondMeta => CountOf(turns) = Cardinality(CompactionEvents)

\* A finished turn covers every event that carries its id.
TurnsCoverTheirEvents ==
  done => \A i \in 1..Len(events) :
            LET t == events[i].turn
            IN t # None /\ turns[t].known => turns[t].first <= i /\ i <= turns[t].last

\* Events, calls and turns fit each other: an event has one call at most, the one that
\* its stamp names, and lies within the turn that its id names (codex_native.py).
EventsArePlacedOnce == EventsInOneCall /\ StampsMatchCalls /\ TurnsCoverTheirEvents

\* A bill and a compaction each leave exactly one trace, in one call and in one turn.
BillsAndCompactionsCountOnce == BillsEndCalls /\ CompactionsCountedOnce

\* "Second parent session_meta without an ordinal gate: skip until this session's
\* own thread_id appears on an item or usage record." (codex_native.py:252-253)
OwnRecordsAreRead == ~lost
=============================================================================
