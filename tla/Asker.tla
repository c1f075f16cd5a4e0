--------------------------------- MODULE Asker ---------------------------------
(***************************************************************************)
(* Asking System One: Annotator.ask and ask_many (semantic/pipeline.py),   *)
(* SystemOneAsker.ask (semantic/client.py), RateLimitedTransport           *)
(* (semantic/ratelimit.py).  Threads of a pool take items, a state and its *)
(* features [id, heavy, hidden, bytes]; they share the cache of answers    *)
(* and all counters but those of a chunk, which are a thread's own.        *)
(***************************************************************************)
EXTENDS Integers, SequencesExt

CONSTANTS Threads, Items,   \* Items: sequence of [state, diagnostic, feats]; an id is of one feature of a bank
          Live,             \* the mode: live, else cached
          MaxQuestions,     \* of a batch, 0 for no cap
          MaxBytes,         \* of a diagnostic request
          ServerMax,        \* questions that the provider takes in a request
          MaxRetries,
          MaxFailures,      \* bound on the failing attempts
          NoAnswers         \* the value of an item that is not finished

Questions == UNION {ToSet(Items[i].feats) : i \in DOMAIN Items}
Reasons == {"answered", "nothing", "insufficient_observability", "state_too_large", "api_error"}
Told == {f.id : f \in Questions} \X Reasons
ASSUME AskerAssumption ==
  /\ {MaxQuestions, MaxBytes, ServerMax, MaxRetries, MaxFailures} \subseteq Nat /\ Live \in BOOLEAN
  /\ Items \in Seq(ToSet(Items))
  /\ \A i \in DOMAIN Items :
       LET feats == Items[i].feats IN
       feats \in Seq(ToSet(feats)) /\ \A m, n \in DOMAIN feats : feats[m].id = feats[n].id => m = n
  /\ \A told \in SUBSET Told : told # NoAnswers

VARIABLES next,             \* the item that is taken next
          thread,           \* what each thread is at
          cache, hits,      \* the answers on disk; CachingFetch's counter
          requests, stats,  \* the counters of transport and asker
          values, failed,   \* values of finished items; an exception that propagates
          tried, partial, failures   \* history: questions of recorded chunks, of missed ones

avars == <<next, thread, cache, hits, requests, stats, values, failed, tried, partial, failures>>
Resting == [at |-> "idle", item |-> 0, groups |-> <<>>, stack |-> <<>>, before |-> 0, sent |-> 0, first |-> 0,
            outcome |-> "", out |-> {}, given |-> {}]

ThreadState ==
  [at : {"idle", "group", "batch", "fetch", "wire", "record"}, item : 0..Len(Items), groups : Seq(Seq(Questions)),
   stack : Seq(Seq(Questions)), before : Nat, sent : Nat, first : Nat,
   outcome : {"", "ok", "miss", "413", "error", "incomplete", "fatal"}, out : SUBSET Questions, given : SUBSET Told]

AskerInit ==
  /\ next = 1 /\ thread = [t \in Threads |-> Resting]
  /\ cache = {} /\ hits = 0 /\ requests = 0 /\ stats = [asked |-> 0, hits |-> 0, retries |-> 0]
  /\ values = [i \in DOMAIN Items |-> NoAnswers] /\ failed = FALSE
  /\ tried = 0 /\ partial = FALSE /\ failures = 0

\* these features of an item, in their order: one sequence
InOrder(feats, some) ==
  {q \in [1..Cardinality(some) -> some] :
     /\ ToSet(q) = some
     /\ \A j, k \in DOMAIN q : j < k => \E m, n \in DOMAIN feats : m < n /\ feats[m] = q[j] /\ feats[n] = q[k]}
\* _partition_inspect
PartitionInspect(light, heavy) ==
  (IF light = <<>> THEN <<>> ELSE <<light>>) \o (IF heavy = <<>> THEN <<>> ELSE <<heavy>>)

Halves(b) == LET mid == Len(b) \div 2 IN <<SubSeq(b, 1, mid), SubSeq(b, mid + 1, Len(b))>>
Batches(group) ==
  LET n == IF MaxQuestions > 0 THEN MaxQuestions ELSE Len(group) IN
  [k \in 1..((Len(group) + n - 1) \div n) |-> SubSeq(group, (k - 1) * n + 1, Min({k * n, Len(group)}))]
Bytes(batch) == FoldLeft(LAMBDA sum, f : sum + f.bytes, 0, batch)

Me(t) == Items[thread[t].item]
Batch(t) == Head(thread[t].stack)
Key(t, f) == <<Me(t).state, f.id>>
Missing(t) == {f \in ToSet(Batch(t)) : Key(t, f) \notin cache}
Reason(feats, what) == {<<f.id, what>> : f \in feats}

\* Annotator.ask: what cannot be observed is not asked. An exception cancels items not taken, when
\* the results are read as far as it: until then, and so at any time, more may be taken.
TakeItem(t) ==
  /\ thread[t].at = "idle" /\ next <= Len(Items)
  /\ LET feats == Items[next].feats
         hidden == {f \in ToSet(feats) : f.hidden}
         heavy == {f \in ToSet(feats) \ hidden : f.heavy}
     IN \E light \in InOrder(feats, (ToSet(feats) \ hidden) \ heavy), rest \in InOrder(feats, heavy) :
          thread' = [thread EXCEPT ![t] = [Resting EXCEPT !.at = "group", !.item = next,
            !.groups = PartitionInspect(light, rest), !.given = Reason(hidden, "insufficient_observability")]]
  /\ next' = next + 1
  /\ UNCHANGED <<cache, hits, requests, stats, values, failed, tried, partial, failures>>

StartGroup(t) ==
  /\ thread[t].at = "group" /\ thread[t].groups # <<>>
  /\ thread' = [thread EXCEPT ![t] = [@ EXCEPT !.at = "batch", !.stack = Batches(Head(thread[t].groups)), !.out = {}]]
  /\ UNCHANGED <<next, cache, hits, requests, stats, values, failed, tried, partial, failures>>

\* the group of t ends with these values for all of its features
GroupIs(t, what) ==
  [thread[t] EXCEPT !.at = "group", !.groups = Tail(@), !.stack = <<>>,
             !.given = @ \union Reason(ToSet(Head(thread[t].groups)), what)]

\* run_batch, before it is sent: too long a request of diagnosis is halved
BeginBatch(t) ==
  /\ thread[t].at = "batch" /\ thread[t].stack # <<>>
  /\ LET large == Me(t).diagnostic /\ Bytes(Batch(t)) > MaxBytes IN
     thread' = [thread EXCEPT ![t] =
       IF ~large THEN [@ EXCEPT !.at = "fetch", !.before = hits, !.sent = 0, !.first = 0]
       ELSE IF Len(Batch(t)) > 1 THEN [@ EXCEPT !.stack = Halves(Batch(t)) \o Tail(thread[t].stack)]
       ELSE GroupIs(t, "state_too_large")]
  /\ UNCHANGED <<next, cache, hits, requests, stats, values, failed, tried, partial, failures>>

\* CachingFetch answers what it has; the rest is sent
Fetch(t) ==
  /\ thread[t].at = "fetch"
  /\ hits' = hits + Len(Batch(t)) - Cardinality(Missing(t))
  /\ thread' = [thread EXCEPT ![t] = [@ EXCEPT !.at = IF Missing(t) # {} /\ Live THEN "wire" ELSE "record",
                                                !.first = Cardinality(Missing(t)),
                                                !.outcome = IF Missing(t) = {} THEN "ok" ELSE "miss"]]
  /\ UNCHANGED <<next, cache, requests, stats, values, failed, tried, partial, failures>>

\* one attempt; the client repeats what may be repeated
Attempt(t, outcome) ==
  LET n == thread[t].first
      last == outcome \in {"ok", "fatal", "incomplete", "413"} \/ thread[t].sent >= MaxRetries
  IN
  /\ thread[t].at = "wire"
  /\ outcome = "413" <=> n > ServerMax
  /\ outcome \notin {"ok", "413"} => failures < MaxFailures
  /\ failures' = IF outcome \in {"ok", "413"} THEN failures ELSE failures + 1
  /\ requests' = requests + 1
  /\ \/ outcome = "ok" /\ cache' = cache \union {Key(t, f) : f \in ToSet(Batch(t))}
     \/ outcome = "incomplete" /\ \E lost \in Missing(t) : cache' = cache \union {Key(t, f) : f \in ToSet(Batch(t)) \ {lost}}
     \/ outcome \notin {"ok", "incomplete"} /\ UNCHANGED cache
  /\ thread' = [thread EXCEPT ![t] = [@ EXCEPT !.sent = thread[t].sent + 1, !.outcome = outcome, !.at = IF last THEN "record" ELSE "wire"]]
  /\ UNCHANGED <<next, hits, stats, values, failed, tried, partial>>

\* Mutant of ChunkStats: hits that others had meanwhile are counted too.
ChunkStatsOfAll(t) ==
  LET n == Len(Batch(t)) IN
  IF thread[t].sent = 0 THEN [stats EXCEPT !.hits = @ + hits - thread[t].before]
  ELSE [asked |-> stats.asked + thread[t].first, hits |-> stats.hits + n - thread[t].first,
        retries |-> stats.retries + thread[t].sent - 1]

\* _record_chunk: the hits of a chunk are the difference of a counter that all advance
ChunkStats(t) ==
  LET n == Len(Batch(t)) IN
  IF thread[t].sent = 0 THEN [stats EXCEPT !.hits = @ + Min({hits - thread[t].before, n})]
  ELSE [asked |-> stats.asked + thread[t].first, hits |-> stats.hits + n - thread[t].first,
        retries |-> stats.retries + thread[t].sent - 1]

Record(t) ==
  /\ thread[t].at = "record"
  /\ stats' = ChunkStats(t)
  /\ tried' = tried + Len(Batch(t)) /\ partial' = (partial \/ thread[t].outcome = "miss")
  /\ failed' = (failed \/ thread[t].outcome \in {"miss", "fatal"})
  /\ thread' = [thread EXCEPT ![t] =
       CASE thread[t].outcome = "ok" -> [@ EXCEPT !.at = "batch", !.stack = Tail(thread[t].stack), !.out = thread[t].out \union ToSet(Batch(t))]
         [] thread[t].outcome = "413" /\ Len(Batch(t)) > 1 -> [@ EXCEPT !.at = "batch", !.stack = Halves(Batch(t)) \o Tail(thread[t].stack)]
         [] thread[t].outcome \in {"miss", "fatal"} -> Resting
         [] OTHER -> GroupIs(t, "api_error")]
  /\ UNCHANGED <<next, cache, hits, requests, values, failures>>

\* a question that the batches do not answer would have no value (raw.get)
EndGroup(t) ==
  /\ thread[t].at = "batch" /\ thread[t].stack = <<>>
  /\ LET group == ToSet(Head(thread[t].groups)) IN
     thread' = [thread EXCEPT ![t] = [@ EXCEPT !.at = "group", !.groups = Tail(thread[t].groups),
       !.given = thread[t].given \union Reason(group \intersect thread[t].out, "answered") \union Reason(group \ thread[t].out, "nothing")]]
  /\ UNCHANGED <<next, cache, hits, requests, stats, values, failed, tried, partial, failures>>

EndItem(t) ==
  /\ thread[t].at = "group" /\ thread[t].groups = <<>>
  /\ values' = [values EXCEPT ![thread[t].item] = thread[t].given]
  /\ thread' = [thread EXCEPT ![t] = Resting]
  /\ UNCHANGED <<next, cache, hits, requests, stats, failed, tried, partial, failures>>

AskerNext ==
  \E t \in Threads :
    \/ TakeItem(t) \/ StartGroup(t) \/ BeginBatch(t) \/ Fetch(t) \/ Record(t) \/ EndGroup(t) \/ EndItem(t)
    \/ \E outcome \in {"ok", "413", "error", "incomplete", "fatal"} : Attempt(t, outcome)

AskerSpec == AskerInit /\ [][AskerNext]_avars

-----------------------------------------------------------------------------
\* What the asker keeps is what its types say.
AskerTypeOK ==
  /\ next \in 1..(Len(Items) + 1)
  /\ thread \in [Threads -> ThreadState]
  /\ {hits, requests, tried, failures} \subseteq Nat /\ stats \in [asked : Nat, hits : Nat, retries : Nat]
  /\ values \in [DOMAIN Items -> (SUBSET Told) \union {NoAnswers}] /\ failed \in BOOLEAN /\ partial \in BOOLEAN
  /\ cache \subseteq {Items[i].state : i \in DOMAIN Items} \X {f.id : f \in Questions}

\* the values of an item are one for each of these features
Explains(i, given, feats) ==
  /\ {v[1] : v \in given} = {f.id : f \in feats}
  /\ \A v, w \in given : v[1] = w[1] => v = w
  /\ \A v \in given : v[2] = "answered" => <<Items[i].state, v[1]>> \in cache
  /\ \A v \in given : v[2] # "nothing"

\* Whatever is split, refused, repeated or found by several threads at once: every question of
\* an item has one value in the end, an item says nothing where a group of its questions could
\* not be answered whole, and every question of a chunk is counted once, as asked or as a hit
\* (client.py:198-268, 329-340; pipeline.py:141-212).
QuestionsAreAccounted ==
  /\ \A i \in DOMAIN Items : values[i] # NoAnswers => Explains(i, values[i], ToSet(Items[i].feats))
  /\ stats.asked + stats.hits <= tried
  /\ ~partial => stats.asked + stats.hits = tried
  /\ (\A t \in Threads : thread[t].at = "idle") /\ ~failed /\ next > Len(Items) => \A i \in DOMAIN Items : values[i] # NoAnswers
=============================================================================
