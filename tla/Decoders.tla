-------------------------------- MODULE Decoders --------------------------------
(***************************************************************************)
(* From records to events, in the formats that are not rollouts: Claude's  *)
(* sessions and streams, pi's, the streams of Codex, legacy Codex files    *)
(* (sources/claude_native.py, codebench.py, pi_native.py, codex_legacy.py, *)
(* _common.py).                                                            *)
(*                                                                         *)
(* A record is [type, id, parent, blocks, usage, flag]: its kind, the      *)
(* request, thread or text it belongs to, the call that it runs under, the *)
(* blocks of its content, its usage and what its type says of flag.  A     *)
(* usage is <<input, output>>, <<>> if there is none.                      *)
(***************************************************************************)
EXTENDS Integers, SequencesExt

NoUsage == <<>>
Unknown == -1
Event(kind, n) == [kind |-> kind, line |-> n, usage |-> NoUsage, cumulative |-> FALSE]
Billed(events, usage) == IF events = <<>> THEN <<>> ELSE [events EXCEPT ![1].usage = usage]
Blocks(rs, n, kinds) ==
  LET known == SelectSeq(rs[n].blocks, LAMBDA b : b \in DOMAIN kinds) IN [k \in DOMAIN known |-> Event(kinds[known[k]], n)]
Sum(events, k) == FoldLeft(LAMBDA sum, e : sum + (IF e.usage = NoUsage \/ e.usage[k] = Unknown THEN 0 ELSE e.usage[k]), 0, events)

\* A response is split into records that repeat its usage: the first of them bears it.
FirstOfRequest(rs, n) == rs[n].id = 0 \/ \A m \in 1..(n - 1) : rs[m].type = "assistant" => rs[m].id # rs[n].id
\* Mutant of ClaudeAssistant: each record of a response bears its usage.
ClaudeAssistantEach(rs, n) ==
  Billed(Blocks(rs, n, [text |-> "assistant_msg", thinking |-> "thinking", tool_use |-> "tool_call"]), rs[n].usage)
ClaudeAssistant(rs, n) ==
  Billed(Blocks(rs, n, [text |-> "assistant_msg", thinking |-> "thinking", tool_use |-> "tool_call"]),
         IF FirstOfRequest(rs, n) THEN rs[n].usage ELSE NoUsage)
ClaudeUser(rs, n) == Blocks(rs, n, [text |-> "user_msg", tool_result |-> "tool_result"])

\* _decode_records; flag: isMeta
ClaudeNative(rs) ==
  FlattenSeq([n \in DOMAIN rs |->
    CASE rs[n].type = "assistant" -> ClaudeAssistant(rs, n)
      [] rs[n].type = "user" /\ ~rs[n].flag -> ClaudeUser(rs, n)
      [] rs[n].type = "compact_boundary" -> <<Event("compaction", n)>>
      [] OTHER -> <<>>])

\* _claude_events
ClaudeStream(rs) ==
  FlattenSeq([n \in DOMAIN rs |->
    CASE rs[n].type = "assistant" -> ClaudeAssistant(rs, n) [] rs[n].type = "user" -> ClaudeUser(rs, n) [] OTHER -> <<>>])

\* _claude_result_line
ResultUsage(rs) == LET r == {n \in DOMAIN rs : rs[n].type = "result"} IN IF r = {} THEN NoUsage ELSE rs[Max(r)].usage

\* _reconcile_claude_output: outputs are placeholders, the result tells the sum
Reconciled(events, output) ==
  [k \in DOMAIN events |-> IF events[k].usage = NoUsage THEN events[k] ELSE [events[k] EXCEPT !.usage[2] = Unknown]]
    \o <<[Event("meta", 0) EXCEPT !.usage = <<Unknown, output>>]>>

\* _build_sessions: what runs under a call is a session of its own
UnderCall(rs, call) == SelectSeq(ClaudeStream(rs), LAMBDA e : rs[e.line].parent = call)
StreamRoot(rs) ==
  LET root == UnderCall(rs, 0)
      result == ResultUsage(rs)
  IN IF result = NoUsage THEN root
     ELSE IF \A k \in DOMAIN root : root[k].usage = NoUsage
     THEN Append(root, [Event("meta", 0) EXCEPT !.usage = result])
     ELSE Reconciled(root, result[2])
StreamChildren(rs) == [call \in {rs[ClaudeStream(rs)[k].line].parent : k \in DOMAIN ClaudeStream(rs)} \ {0} |-> UnderCall(rs, call)]

\* _backfill_usage, if the stream has no tokens at all
Backfilled(events, metrics) ==
  IF Sum(events, 1) + Sum(events, 2) > 0 \/ metrics \in {NoUsage, <<0, 0>>} \/ events = <<>> THEN events
  ELSE [events EXCEPT ![Len(events)].usage = metrics]

\* _assistant of pi: an attempt that failed keeps its place; flag: it is an error
PiAssistant(rs, n) ==
  LET events == Blocks(rs, n, [thinking |-> "thinking", toolCall |-> "tool_call", text |-> "assistant_msg"]) IN
  IF events # <<>> THEN Billed(events, rs[n].usage)
  ELSE Billed(<<Event("assistant_msg", n)>>, IF rs[n].flag /\ rs[n].usage = <<0, 0>> THEN NoUsage ELSE rs[n].usage)
PiNative(rs) ==
  FlattenSeq([n \in DOMAIN rs |->
    CASE rs[n].type = "assistant" -> PiAssistant(rs, n)
      [] rs[n].type = "user" -> <<Event("user_msg", n)>>
      [] rs[n].type = "toolResult" -> <<Event("tool_result", n)>>
      [] rs[n].type = "compaction" -> <<Event("compaction", n)>>
      [] rs[n].type \in {"context_edit", "model_change", "session_info", "subagent"} -> <<Event("meta", n)>>
      [] OTHER -> <<>>])
\* the last session header and the last change of the model; a message names a model if nothing does
PiModel(rs) ==
  FoldLeft(LAMBDA model, n : IF rs[n].type = "model_change" /\ rs[n].id # 0 THEN rs[n].id
                             ELSE IF rs[n].type = "assistant" /\ model = 0 THEN rs[n].id ELSE model, 0, [n \in DOMAIN rs |-> n])

\* decode_pi_stdout: updates are left out, blocks are not told apart
PiStream(rs) ==
  FlattenSeq([n \in DOMAIN rs |->
    CASE rs[n].type = "assistant" -> <<[Event("assistant_msg", n) EXCEPT !.usage = rs[n].usage]>>
      [] rs[n].type = "user" -> <<Event("user_msg", n)>>
      [] rs[n].type = "toolResult" -> <<Event("tool_result", n)>>
      [] rs[n].type = "toolCall" -> <<Event("tool_call", n)>>
      [] OTHER -> <<>>])

\* decode_codex_stdout; the usage of a turn is a running total
CodexStream(rs) ==
  FlattenSeq([n \in DOMAIN rs |->
    CASE rs[n].type = "started" -> <<Event("tool_call", n)>>
      [] rs[n].type = "completed" -> <<Event("tool_result", n)>>
      [] rs[n].type = "message" -> <<Event("assistant_msg", n)>>
      [] rs[n].type = "turn" -> <<[Event("meta", n) EXCEPT !.usage = rs[n].usage, !.cumulative = TRUE]>>
      [] OTHER -> <<>>])

\* _decode_legacy: a message that is told as an event, too, is told there; id: its form and text
Mirrors(rs, id) == Cardinality({n \in DOMAIN rs : rs[n].type = "event" /\ rs[n].id = id})
Mirrored(rs, n) == Cardinality({m \in 1..n : rs[m].type = "message" /\ rs[m].id = rs[n].id}) <= Mirrors(rs, rs[n].id)
Legacy(rs) ==
  FlattenSeq([n \in DOMAIN rs |->
    CASE rs[n].type = "message" -> IF Mirrored(rs, n) THEN <<>> ELSE <<Event("message", n)>>
      [] rs[n].type \in {"event", "item"} -> <<Event("message", n)>>
      [] rs[n].type \in {"compacted", "context_compacted"} -> <<Event("compaction", n)>>
      [] rs[n].type = "token_count" /\ rs[n].usage # NoUsage ->
           <<[Event("meta", n) EXCEPT !.usage = rs[n].usage, !.cumulative = TRUE]>>
      [] OTHER -> <<>>])

\* de_cumulate: totals become deltas; a total below the one before it begins anew
Delta(now, before) ==
  IF now = Unknown THEN Unknown
  ELSE IF before = Unknown \/ now < before THEN now ELSE now - before
DeCumulate(events) ==
  [k \in DOMAIN events |->
    LET totals == {j \in 1..(k - 1) : events[j].cumulative}
        last == IF totals = {} THEN <<Unknown, Unknown>> ELSE events[Max(totals)].usage
    IN IF ~events[k].cumulative THEN events[k]
       ELSE [events[k] EXCEPT !.cumulative = FALSE, !.usage = <<Delta(@[1], last[1]), Delta(@[2], last[2])>>]]
=============================================================================
