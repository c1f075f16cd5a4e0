------------------------------- MODULE CostViews -------------------------------
(***************************************************************************)
(* What a trace cost: diagnostics/cost_views.py.                           *)
(*                                                                         *)
(* A session is [id, parent, link, estimated, model, turns, events]: link  *)
(* is "spawn", "fork" or None; a turn is [id, model, effort, calls] and a  *)
(* call or an event [response, usage]; ids and usage may be None.  Usage   *)
(* is [inp, out, read, write, reason] in tokens, a price the same fields   *)
(* in units per token.  Prices maps models to [entry, status].  An amount  *)
(* of money is [amount, status]; amount is None without a price.           *)
(***************************************************************************)
EXTENDS Integers, SequencesExt

CONSTANTS Prices, None,
          Scale    \* shares are counted in units of 1/Scale

Statuses == <<"exact", "estimated", "unknown">>
Rank(status) == CHOOSE k \in DOMAIN Statuses : Statuses[k] = status

\* worse_status of a set
WorseStatus(statuses) ==
  IF statuses = {} THEN "unknown" ELSE Statuses[Max({Rank(s) : s \in statuses})]

Money(amount, status) == [amount |-> amount, status |-> status]
InputSide(u, p) == u.inp * p.inp + u.read * p.read + u.write * p.write

\* invoice_of, input_cost_of and reasoning_spend_of: reasoning is part of the output
InvoiceOf(u, price) == IF price.entry = None THEN Money(None, "unknown")
                       ELSE Money(InputSide(u, price.entry) + u.out * price.entry.out, price.status)
InputCostOf(u, price) == IF price.entry = None THEN Money(None, "unknown") ELSE Money(InputSide(u, price.entry), price.status)
ReasoningOf(u, price) == IF price.entry = None THEN Money(None, "unknown") ELSE Money(u.reason * price.entry.out, price.status)

Total(amounts) == FoldLeft(LAMBDA sum, a : sum + a, 0, amounts)

\* _add_money: parts without an amount still worsen the status
AddMoney(parts) ==
  LET status == WorseStatus({parts[k].status : k \in DOMAIN parts})
      known == SelectSeq(parts, LAMBDA m : m.amount # None)
  IN IF known = <<>> THEN Money(IF status = "unknown" THEN None ELSE 0, status)
     ELSE Money(Total([k \in DOMAIN known |-> known[k].amount]), status)

PriceOf(model) == IF model \in DOMAIN Prices THEN Prices[model] ELSE [entry |-> None, status |-> "unknown"]

\* _priced: reconstructed usage is never exact
Priced(s, model) ==
  LET price == PriceOf(model) IN
  [price EXCEPT !.status = IF s.estimated THEN WorseStatus({@, "estimated"}) ELSE @]

-----------------------------------------------------------------------------
(* Billed calls.                                                             *)

\* Mutant of BilledCalls: a response that comes again is billed again.
BilledAgain(s) ==
  LET Of(turn) == [k \in DOMAIN turn.calls |-> [response |-> turn.calls[k].response, usage |-> turn.calls[k].usage, turn |-> turn.id,
                                                model |-> IF turn.model = None THEN s.model ELSE turn.model]]
  IN SelectSeq(FlattenSeq([n \in DOMAIN s.turns |-> Of(s.turns[n])]), LAMBDA c : c.usage # None)

\* iter_billed_calls: the calls of the turns, or the events when no turn has a call; the
\* first of a response id counts, one without an id stands for itself
BilledCalls(s) ==
  LET Of(turn) == [k \in DOMAIN turn.calls |-> [response |-> turn.calls[k].response, usage |-> turn.calls[k].usage, turn |-> turn.id,
                                                model |-> IF turn.model = None THEN s.model ELSE turn.model]]
      called == FlattenSeq([n \in DOMAIN s.turns |-> Of(s.turns[n])])
      loose == [k \in DOMAIN s.events |-> [response |-> s.events[k].response, usage |-> s.events[k].usage,
                                           turn |-> s.events[k].turn, model |-> s.model]]
      all == SelectSeq(IF called = <<>> THEN loose ELSE called, LAMBDA c : c.usage # None)
      first == SelectSeq([k \in DOMAIN all |-> k],
                         LAMBDA k : all[k].response = None \/ \A j \in 1..(k - 1) : all[j].response # all[k].response)
  IN [n \in DOMAIN first |-> all[first[n]]]

SessionInvoice(s) ==
  LET calls == BilledCalls(s) price == Priced(s, s.model) IN
  IF calls = <<>> THEN Money(IF price.entry = None THEN None ELSE 0, price.status)
  ELSE AddMoney([k \in DOMAIN calls |-> InvoiceOf(calls[k].usage, Priced(s, calls[k].model))])

-----------------------------------------------------------------------------
(* The tree.                                                                 *)

\* _parent_map: the first link that names a child, else what the child says
ParentMap(sessions) == [id \in {sessions[n].id : n \in {m \in DOMAIN sessions : sessions[m].parent # None}} |->
                          sessions[Min({n \in DOMAIN sessions : sessions[n].id = id})].parent]

\* _root_session_id: up the parents that are in the trace; a cycle ends where it is met again
RootSession(parents, known, id) ==
  LET Step(acc, n) == IF acc.at \in DOMAIN parents /\ parents[acc.at] \in known /\ acc.at \notin acc.seen
                      THEN [at |-> parents[acc.at], seen |-> acc.seen \union {acc.at}] ELSE acc
  IN FoldLeft(Step, [at |-> id, seen |-> {}], [n \in 1..(Cardinality(known) + 1) |-> n]).at

\* _root_task_id, over [id, session, parent]
RootTask(tasks, root) ==
  LET here == {k \in DOMAIN tasks : tasks[k].session = root /\ tasks[k].parent = None}
      top == {k \in DOMAIN tasks : tasks[k].parent = None}
  IN CASE here # {}     -> tasks[Min(here)].id
       [] top # {}      -> tasks[Min(top)].id
       [] tasks # <<>>  -> tasks[1].id
       [] OTHER         -> root

\* _episode_for_response: the atom with the response, else the first of the turn, 0 without one
EpisodeFor(episodes, call) ==
  LET named == {k \in DOMAIN episodes : call.response # None /\ Contains(episodes[k].responses, call.response)}
      placed == {k \in DOMAIN episodes : call.turn # None /\ episodes[k].turn = call.turn}
  IN CASE named # {} -> Min(named) [] placed # {} -> Min(placed) [] OTHER -> 0

\* collect_response_charges; known is the set of the trace's session ids
ResponseCharges(sessions, episodes, tasks) ==
  LET known == {sessions[n].id : n \in DOMAIN sessions}
      Of(s) ==
        LET calls == BilledCalls(s)
            root == RootTask(tasks, RootSession(ParentMap(sessions), known, s.id))
        IN [k \in DOMAIN calls |->
              LET ep == EpisodeFor(episodes, calls[k]) IN
              [thread |-> s.id, response |-> calls[k].response, usage |-> calls[k].usage, model |-> calls[k].model,
               episode |-> ep, turn |-> calls[k].turn, rootTask |-> root,
               task |-> IF ep = 0 THEN root ELSE episodes[ep].task,
               invoice |-> InvoiceOf(calls[k].usage, Priced(s, calls[k].model))]]
  IN FlattenSeq([n \in DOMAIN sessions |-> Of(sessions[n])])

\* fork_carryover_line: the input side of each forked child's first call; it is no part of the sum
ForkCarryover(sessions) ==
  LET forks == SelectSeq(sessions, LAMBDA s : s.link = "fork" /\ BilledCalls(s) # <<>>)
      First(s) == BilledCalls(s)[1]
  IN IF forks = <<>> THEN None
     ELSE AddMoney([n \in DOMAIN forks |-> InputCostOf(First(forks[n]).usage, Priced(forks[n], First(forks[n]).model))])

\* tree_rollup and _missing_parent
TreeRollup(sessions, missingParent) ==
  [sum |-> AddMoney([n \in DOMAIN sessions |-> SessionInvoice(sessions[n])]),
   carry |-> ForkCarryover(sessions),
   status |-> IF missingParent THEN "partial" ELSE "full"]

-----------------------------------------------------------------------------
(* _origin_attributed: what was read from the cache is charged to the        *)
(* episodes that brought the tokens in, in proportion.                       *)

Origin(charge) ==
  CASE charge.episode # 0 -> charge.episode [] charge.turn # None -> charge.turn [] OTHER -> charge.thread

Attribute(acc, charge) ==
  LET p == PriceOf(charge.model).entry
      u == charge.usage
      key == Origin(charge)
      cached == u.read * p.read
      known == Total([k \in DOMAIN acc.introduced |-> acc.introduced[k].tokens])
      own == (u.inp * p.inp + u.write * p.write + u.out * p.out) * Scale
               + (IF known = 0 THEN cached * Scale ELSE 0)
      shares == IF known = 0 THEN <<>>
                ELSE [k \in DOMAIN acc.introduced |-> <<acc.introduced[k].key, (cached * Scale * acc.introduced[k].tokens) \div known>>]
      tokens == u.inp + u.write + u.out
  IN IF p = None THEN acc
     ELSE [allocated |-> acc.allocated \o << <<key, own>> >> \o shares,
           introduced |-> IF tokens > 0 THEN Append(acc.introduced, [key |-> key, tokens |-> tokens]) ELSE acc.introduced]

OriginAttributed(charges) ==
  LET acc == FoldLeft(Attribute, [allocated |-> <<>>, introduced |-> <<>>], charges)
      unpriced == \E k \in DOMAIN charges : PriceOf(charges[k].model).entry = None
  IN [shares |-> acc.allocated,
      money |-> Money(Total([k \in DOMAIN acc.allocated |-> acc.allocated[k][2]]),
                      IF unpriced THEN "unknown" ELSE "estimated")]

-----------------------------------------------------------------------------
(* Phases.                                                                   *)

\* _episodes_for_session: those with a response or a turn of the session
EpisodesFor(s, episodes) ==
  LET responses == {BilledCalls(s)[k].response : k \in DOMAIN BilledCalls(s)} \ {None}
      turns == {s.turns[n].id : n \in DOMAIN s.turns}
  IN SelectSeq(episodes, LAMBDA ep : ToSet(ep.responses) \intersect responses # {} \/ ep.turn \in turns \/ ep.session = s.id)

\* allocate_calls_to_episodes: the owner of a call among the atoms, 0 for none; a call
\* without a response goes to the only atom of its turn that recorded such a call
OwnerOf(call, episodes) ==
  LET named == {k \in DOMAIN episodes : call.response # None /\ Contains(episodes[k].responses, call.response)}
      slots == FlattenSeq([k \in DOMAIN episodes |->
                 IF episodes[k].turn # call.turn THEN <<>>
                 ELSE LET blank == SelectSeq(episodes[k].responses, LAMBDA r : r = None) IN [b \in DOMAIN blank |-> k]])
  IN CASE named # {}                                  -> Min(named)
       [] call.response = None /\ Len(slots) = 1      -> slots[1]
       [] OTHER                                       -> 0

\* _calls_invoice: prices by the call's own model, whether or not usage was reconstructed
CallsInvoice(calls, s) ==
  IF calls = <<>> THEN Money(0, PriceOf(s.model).status)
  ELSE AddMoney([k \in DOMAIN calls |-> InvoiceOf(calls[k].usage, PriceOf(calls[k].model))])

\* phase_spend_diagnoses: a row per atom and one for the calls that no atom owns
PhaseSpend(s, episodes) ==
  LET matched == EpisodesFor(s, episodes)
      calls == BilledCalls(s)
      Owned(k) == SelectSeq(calls, LAMBDA c : OwnerOf(c, matched) = k)
      Row(k) == [episode |-> IF k = 0 THEN None ELSE matched[k].id, calls |-> Len(Owned(k)), money |-> CallsInvoice(Owned(k), s)]
  IN IF matched = <<>> THEN << [episode |-> None, calls |-> Len(calls), money |-> SessionInvoice(s)] >>
     ELSE [k \in DOMAIN matched |-> Row(k)] \o (IF Owned(0) = <<>> THEN <<>> ELSE <<Row(0)>>)
=============================================================================
