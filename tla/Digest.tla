-------------------------------- MODULE Digest --------------------------------
(***************************************************************************)
(* The capped digest of one atom that the semantic client sends:           *)
(* structure/digest.py.  Events are those of TraceStructure; an outcome is *)
(* `ok`, texts are values, and what head and tail caps cut is left out.    *)
(* Sizes of the whole digest are the operator Tokens, a parameter.         *)
(***************************************************************************)
EXTENDS TraceStructure

CONSTANTS OpCap,         \* _OP_CAP
          MessageCap,    \* the last messages that are kept, 6 in the code
          PrecedingCap   \* the preceding events that are looked at, 12 in the code

AgentKinds == {"agent.spawn", "agent.wait", "agent.message"}

\* _observed
ObservedCounts(es) ==
  [files |-> Cardinality({es[i].path : i \in DOMAIN es} \ {None}),
   edits |-> Count(es, LAMBDA e : e.op \in EditOps),
   reads |-> Count(es, LAMBDA e : e.op \in ReadOps),
   testsRun |-> Count(es, LAMBDA e : e.test /\ IsResult(e)),
   testsFailed |-> Count(es, LAMBDA e : e.test /\ IsResult(e) /\ IsFailed(e)),
   subagents |-> Count(es, LAMBDA e : e.op \in AgentKinds)]

\* the operations of an atom: every call, with the outcome of its last classified
\* result, and a result only when no call before it took it; at is the event's position
MergedOps(evs) ==
  LET ResultFor(e) == {j \in DOMAIN evs : IsResult(evs[j]) /\ evs[j].op # None /\ e.call # None /\ evs[j].call = e.call}
      OutcomeOf(e) == IF ResultFor(e) = {} \/ evs[Max(ResultFor(e))].ok = "unknown" THEN e.ok
                      ELSE evs[Max(ResultFor(e))].ok
      See(acc, i) ==
        LET e == evs[i] IN
        CASE IsCall(e) -> [ops |-> Append(acc.ops, [e EXCEPT !.ok = OutcomeOf(e)]),
                           at |-> Append(acc.at, i),
                           seen |-> acc.seen \union (IF ResultFor(e) = {} THEN {} ELSE {e.call})]
          [] IsResult(e) /\ e.call # None /\ e.call \notin acc.seen ->
                          [ops |-> Append(acc.ops, e), at |-> Append(acc.at, i), seen |-> acc.seen \union {e.call}]
          [] OTHER -> acc
  IN FoldLeftDomain(See, [ops |-> <<>>, at |-> <<>>, seen |-> {}], evs)

\* _repeat_meta, _path_previously_read, _path_edit_count, _prev_same_cmd_exit
PastOf(e, past) ==
  LET alike == {k \in DOMAIN past : past[k].sig = e.sig /\ past[k].kind = e.kind}
      ran == {k \in DOMAIN past : e.sig # None /\ past[k].sig = e.sig /\ (past[k].ok # "unknown" \/ IsResult(past[k]))}
      touched(ops) == {k \in DOMAIN past : past[k].op \in ops /\ e.path # None /\ past[k].path = e.path}
  IN [repeats |-> Cardinality(alike),
      last |-> IF alike = {} THEN 0 ELSE Max(alike),
      readBefore |-> touched(ReadOps) # {},
      edits |-> Cardinality(touched(EditOps)),
      previous |-> IF ran = {} THEN "unknown" ELSE past[Max(ran)].ok]

\* _op_entry, for the k-th operation: history and the operations before it are its past
OpEntry(evs, history, merged, k) ==
  LET e == merged.ops[k]
      past == history \o SubSeq(merged.ops, 1, k - 1)
  IN [kind |-> e.op, sig |-> e.sig, exit |-> e.ok, path |-> e.path, test |-> e.test, past |-> PastOf(e, past),
      afterEdit |-> e.test /\ (\/ Some(past, LAMBDA p : p.op \in EditOps)
                               \/ \E j \in 1..merged.at[k] : evs[j].op \in EditOps),
      onTarget |-> e.test /\ e.path \in {evs[j].path : j \in {i \in DOMAIN evs : evs[i].op \in EditOps}} \ {None}]

\* _op_family
OpFamily(entry) ==
  CASE entry.test              -> "run"
    [] entry.kind \in ReadOps    -> "read"
    [] entry.kind \in EditOps    -> "edit"
    [] entry.kind \in AgentKinds -> "agent"
    [] entry.kind = "cmd.run"    -> "run"
    [] OTHER                     -> "other"

\* _majority: the most common value, None on a tie
Majority(s) ==
  LET Of(v) == Cardinality({k \in DOMAIN s : s[k] = v})
      top == {v \in ToSet(s) : \A w \in ToSet(s) : Of(w) <= Of(v)}
  IN IF Cardinality(top) = 1 THEN CHOOSE v \in top : TRUE ELSE None

Messages(evs) == SelectSeq(evs, LAMBDA e : e.kind \in {"user_msg", "assistant_msg"} /\ e.text # None)

\* _episode_counts, over all operations and messages, the omitted ones too
EpisodeCounts(entries, messages) ==
  [ops |-> Len(entries),
   majorityKind |-> Majority([k \in DOMAIN entries |-> entries[k].kind]),
   majorityFamily |-> Majority([k \in DOMAIN entries |-> OpFamily(entries[k])]),
   failed |-> Count(entries, LAMBDA o : o.exit = "no"),
   tests |-> Count(entries, LAMBDA o : o.test),
   finals |-> Count(messages, LAMBDA m : m.final),
   testAfterEdit |-> Some(entries, LAMBDA o : o.afterEdit)]

\* _operative_instruction: any user message counts, an injected one too
OperativeInstruction(evs, history, ledger) ==
  LET said(es) == {i \in DOMAIN es : es[i].kind = "user_msg" /\ es[i].text # None} IN
  CASE said(evs) # {}              -> evs[Max(said(evs))].text
    [] said(history) # {}          -> history[Max(said(history))].text
    [] ledger.amendments # <<>>    -> Last(ledger.amendments)
    [] OTHER                       -> ledger.request

LastMessage(preceding) ==
  IF Messages(preceding) = <<>> THEN None ELSE Last(Messages(preceding)).text

\* _last_ops_summary
LastOps(preceding) == KeepLast(SelectSeq(preceding, LAMBDA e : IsCall(e) \/ (e.op # None /\ IsResult(e))), 4)

Empty == [instruction |-> None, ops |-> <<>>, omitted |-> 0, messages |-> <<>>, omittedMessages |-> 0,
          counts |-> EpisodeCounts(<<>>, <<>>), empty |-> TRUE]

\* _shrink: one round keeps the first operation and drops the messages; texts get shorter with
\* every round, so that sizes[r + 1] is the size after r of them; after the last nothing is left
Shortened(digest) ==
  [digest EXCEPT !.omitted = @ + Max({0, Len(digest.ops) - 1}), !.ops = SubSeq(@, 1, Min({1, Len(@)})), !.messages = <<>>]
Shrink(digest, budget, sizes) ==
  CASE sizes[1] <= budget -> digest
    [] \E r \in DOMAIN sizes : sizes[r] <= budget -> Shortened(digest)
    [] OTHER -> Empty

\* build_digest before it shrinks
FullDigest(es, ledger, episode) ==
  LET evs == EventsInRange(es, episode.first, episode.last)
      history == SubSeq(es, 1, episode.first - 1)
      merged == MergedOps(evs)
      entries == [k \in DOMAIN merged.ops |-> OpEntry(evs, history, merged, k)]
      preceding == KeepLast(history, PrecedingCap)
      messages == Messages(evs)
  IN [instruction |-> OperativeInstruction(evs, history, ledger),
      trigger |-> episode.trigger,
      priorOutcome |-> CASE "test_failure" \in ErrorKinds(evs) -> "failed_test" [] ErrorKinds(evs) # {} -> "error" [] OTHER -> None,
      lastMessage |-> LastMessage(preceding), lastOps |-> LastOps(preceding),
      ops |-> SubSeq(entries, 1, Min({OpCap, Len(entries)})), omitted |-> Max({0, Len(entries) - OpCap}),
      counts |-> EpisodeCounts(entries, messages),
      messages |-> KeepLast(messages, MessageCap), omittedMessages |-> Max({0, Len(messages) - MessageCap}),
      empty |-> FALSE]
=============================================================================
