---------------------------- MODULE FailureRecords ----------------------------
(***************************************************************************)
(* Failed tool results of a session: primitives/failures.py, and the       *)
(* outcome that primitives/outcome.py infers for it.                       *)
(*                                                                         *)
(* Events are those of TraceStructure, with `tool` for the tool's name,    *)
(* `sig` for its command (None without one) and `diag` for what a result   *)
(* says when it failed.  What regular expressions find in texts is data:   *)
(* the signals of a failure map names to "yes", "no" or "unknown" (the     *)
(* text was truncated), and so do the recorded answers about it.           *)
(***************************************************************************)
EXTENDS Integers, SequencesExt

CONSTANT None

IsResult(e) == e.kind = "tool_result"
IsCall(e) == e.kind = "tool_call"
FailedAt(es) == {i \in DOMAIN es : IsResult(es[i]) /\ es[i].ok = "no"}

\* the call of a result: among the calls of a range with its id, the last one
CallOf(es, range, i) ==
  LET calls == {j \in range : es[i].call # None /\ IsCall(es[j]) /\ es[j].call = es[i].call}
  IN IF calls = {} THEN 0 ELSE Max(calls)
CommandOf(es, range, i) == IF CallOf(es, range, i) = 0 THEN None ELSE es[CallOf(es, range, i)].sig
ToolOf(es, i) == LET c == CallOf(es, DOMAIN es, i) IN IF c = 0 THEN es[i].tool ELSE es[c].tool

-----------------------------------------------------------------------------
(* _recovery: what follows a failed result.  Only results whose call follows *)
(* too are attempts; the first successful one ends the window.               *)

Attempts(es, i) ==
  LET later == {j \in DOMAIN es : j > i}
      command == CommandOf(es, DOMAIN es, i)
  IN {j \in later : command # None /\ IsResult(es[j]) /\ CommandOf(es, later, j) = command}

SuccessAfter(es, i) ==
  LET good == {j \in Attempts(es, i) : es[j].ok = "yes"} IN IF good = {} THEN 0 ELSE Min(good)

Recovery(es, i) ==
  LET success == SuccessAfter(es, i)
      later == {j \in DOMAIN es : j > i}
  IN [attempts |-> Cardinality({j \in Attempts(es, i) : success = 0 \/ j <= success}),
      outcome |-> CASE success # 0                          -> "success"
                    [] \A j \in later : ~IsCall(es[j])      -> "terminal_stop"
                    [] OTHER                                -> "unresolved",
      window |-> i..(IF success # 0 THEN success ELSE Len(es))]

-----------------------------------------------------------------------------
(* Incidents: failures of one command with one diagnostic belong together    *)
(* until the command succeeds.  open maps signatures to the first failure.   *)

SignatureOf(es, i) == <<ToolOf(es, i), CommandOf(es, DOMAIN es, i), es[i].diag>>

SeeResult(es, acc, i) ==
  IF ~IsResult(es[i]) THEN acc
  ELSE IF es[i].ok = "yes"
  THEN [acc EXCEPT !.open = {o \in @ : <<o.sig[1], o.sig[2]>> # <<ToolOf(es, i), CommandOf(es, DOMAIN es, i)>>}]
  ELSE IF es[i].ok = "unknown" THEN acc
  ELSE LET same == {o \in acc.open : o.sig = SignatureOf(es, i)}
           first == IF same = {} THEN i ELSE (CHOOSE o \in same : TRUE).first
       IN [open |-> acc.open \union {[sig |-> SignatureOf(es, i), first |-> first]},
           incident |-> [acc.incident EXCEPT ![i] = first]]

\* the second pass of build_failure_records: a failure's incident is named by its first failure
Incidents(es) ==
  FoldLeftDomain(LAMBDA acc, i : SeeResult(es, acc, i),
                 [open |-> {}, incident |-> [i \in DOMAIN es |-> 0]], es).incident

-----------------------------------------------------------------------------
(* classify_failure: s are the literal signals, f the recorded answers, r    *)
(* what the record says.  The first rule that applies names the leaf.        *)

Segments == 0..3
\* one check segment that the diagnostic names makes a compound command attributable
FailingSegmentKnown(r) == r.segments > 1 /\ r.matched = 1
AttributionReliable(r) == r.segments <= 1 \/ FailingSegmentKnown(r)

Rules(s, f, r) ==
  LET Yes(x) == x = "yes"
      No(x) == x = "no"
      Check(signal, finding) == Yes(f["project_check"]) /\ (Yes(s[signal]) \/ Yes(f[finding]))
      Validator(signal, assumption) == Yes(f["agent_validator"]) /\ (Yes(s[signal]) \/ Yes(f[assumption]))
      Rejected(signal) == Yes(s[signal]) /\ r.segments = 0 /\ r.target
  IN << <<Yes(f["user_named_identifier"]) /\ No(f["identifier_matches"]) /\ Yes(s["missing_target"]), "wrong_requested_identifier">>,
        <<Yes(f["stop_if_missing"]) /\ Yes(s["missing_target"]), "expected_stop_precondition">>,
        <<(Yes(s["no_match"]) \/ (FailingSegmentKnown(r) /\ r.exitOne /\ r.inspects))
            /\ Yes(f["presence_probe"]) /\ Yes(f["absence_acceptable"]), "expected_no_match">>,
        <<Yes(s["auth_refresh_blocked"]) /\ Yes(s["iam_permission_named"]), "unresolved">>,
        <<Yes(s["auth_refresh_blocked"]), "credential_refresh_blocked">>,
        <<Yes(s["iam_permission_named"]), "iam_permission_missing">>,
        <<Rejected("tool_contract_rejected"), "tool_contract_rejected">>,
        <<Rejected("edit_match_missing"), "edit_match_missing">>,
        <<FailingSegmentKnown(r) /\ Yes(f["project_check"]), "compound_check_attributed">>,
        <<Yes(s["cli_argument_rejected"]) \/ Yes(f["invocation_rejected"]), "cli_invocation_rejected">>,
        <<Yes(s["read_range_invalid"]), "read_range_invalid">>,
        <<Yes(s["executable_missing"]) \/ Yes(s["missing_dependency"]), "command_unavailable">>,
        <<Yes(f["post_action_verifier"]) /\ Yes(f["main_action_completed"]), "post_action_verifier_mismatch">>,
        <<Validator("data_shape_exception", "agent_data_assumption"), "agent_validator_data_shape">>,
        <<Validator("sql_schema_exception", "agent_sql_assumption"), "agent_validator_sql_schema">>,
        <<Check("prompt_definition", "prompt_finding"), "prompt_definition_finding">>,
        <<Check("static_format", "format_finding"), "static_format_finding">>,
        <<Check("static_lint", "lint_finding"), "static_lint_finding">>,
        <<Check("static_type", "type_finding"), "static_type_finding">>,
        <<Check("test_assertion", "test_finding"), "test_assertion_failure">>,
        <<Check("compile_error", "product_compile"), "product_build_failure">>,
        <<Yes(s["product_runtime_error"]) /\ Yes(f["product_runtime"]), "product_runtime_failure">>,
        <<Yes(s["timeout"]) \/ Yes(s["transport_failure"]), "external_dependency_or_transport">>,
        <<Yes(s["missing_target"]) /\ Yes(f["user_named_identifier"]) /\ No(f["absence_acceptable"]), "required_target_missing">> >>

LeafOf(s, f, r) ==
  LET rules == Rules(s, f, r)
      applies == {k \in DOMAIN rules : rules[k][1]}
  IN IF applies = {} THEN "unresolved" ELSE rules[Min(applies)][2]

Observed(leaf) == leaf \in {"expected_stop_precondition", "expected_no_match"}

OwnerOf(leaf) ==
  CASE Observed(leaf)                                                                             -> "expected"
    [] leaf \in {"credential_refresh_blocked", "iam_permission_missing", "command_unavailable"}    -> "environment"
    [] leaf = "external_dependency_or_transport"                                                  -> "harness/provider"
    [] leaf \in {"test_assertion_failure", "product_build_failure", "product_runtime_failure"}     -> "product"
    [] leaf = "unresolved"                                                                        -> "unknown"
    [] OTHER                                                                                      -> "agent"

Verdict(s, f, r) ==
  LET leaf == LeafOf(s, f, r) IN
  [leaf |-> leaf, owner |-> OwnerOf(leaf),
   disposition |-> IF Observed(leaf) THEN "expected" ELSE IF leaf = "unresolved" THEN "unresolved" ELSE "terminal",
   abstained |-> CASE leaf # "unresolved"                            -> None
                   [] r.segments > 1                                 -> "compound command"
                   [] \E name \in DOMAIN s : s[name] = "unknown"     -> "truncated"
                   [] OTHER                                          -> "no semantic evidence"]

-----------------------------------------------------------------------------
(* label_outcome: the first end-of-session signal wins.                      *)

\* _last_test_result: the result linked to a test command, else the call's own
LastTestResult(es) ==
  LET linked(i) == {j \in DOMAIN es : IsResult(es[j]) /\ es[i].call # None /\ es[j].call = es[i].call}
      OkOf(i) == IF linked(i) # {} /\ es[Max(linked(i))].ok # "unknown" THEN es[Max(linked(i))].ok ELSE es[i].ok
      known == {i \in DOMAIN es : IsCall(es[i]) /\ es[i].test /\ OkOf(i) # "unknown"}
  IN IF known = {} THEN "unknown" ELSE OkOf(Max(known))

LastEdit(es) ==
  LET edits == {i \in DOMAIN es : IsCall(es[i]) /\ es[i].op \in {"file.edit", "file.write"}}
  IN IF edits = {} THEN 0 ELSE Max(edits)

\* mood is what the lexicons find in the last user text: "correction", "positive" or "none"
OutcomeLabel(es, mood) ==
  LET test == LastTestResult(es)
      edit == LastEdit(es)
      reverted == edit # 0 /\ \E i \in DOMAIN es : i > edit /\ IsCall(es[i]) /\ es[i].sig = "revert"
      committed == \E i \in DOMAIN es : IsCall(es[i]) /\ es[i].sig = "commit" /\ es[i].ok # "no"
  IN CASE mood = "correction" \/ test = "no" \/ reverted  -> "negative"
       [] mood = "positive" \/ test = "yes" \/ committed  -> "positive"
       [] OTHER                                           -> "unknown"
=============================================================================
