------------------------- MODULE CachedOperations -------------------------
(***************************************************************************)
(* cached_operations and ProviderCache of the memory audit                 *)
(* (src/agent_hotwash/memory/extraction.py): a batch of independent items  *)
(* is worked on by a bounded pool of threads, whose results and call       *)
(* records the calling generator hands on in item order.                   *)
(*                                                                         *)
(* An item asks one request; when the answer is invalid and a repair is    *)
(* left, it asks the repair request next.  Answers are kept in one file    *)
(* per request, so identical requests of several items meet there.  A      *)
(* batch may be repeated on the same files: after an error, after its      *)
(* consumer gave up, or with paid calls refused.                           *)
(***************************************************************************)
EXTENDS Naturals, Sequences, FiniteSets

CONSTANTS
  Threads,     \* the workers of the pool (semantic.max_concurrency of them)
  NoThread,    \* nobody holds a request's lock
  Keys,        \* the identities of requests
  NoKey,       \* no repair is left
  FirstKeys,   \* the identities an item may ask first
  SystemOneKeys,  \* the identities of screening and comparison requests ("jev")
  Repair,      \* what is asked after an invalid answer to a request
  Size,        \* how many items a batch has
  MaxBatches   \* bound on the batches run on the same files

\* A single worker is never made: the items are then worked on in the caller's thread.
ASSUME ThreadsAssumption == NoThread \notin Threads /\ IsFiniteSet(Threads) /\ Cardinality(Threads) > 1
ASSUME KeysAssumption == NoKey \notin Keys /\ FirstKeys \subseteq Keys /\ SystemOneKeys \subseteq Keys
ASSUME RepairAssumption == Repair \in [Keys -> Keys \cup {NoKey}]
ASSUME SizeAssumption == Size \in Nat /\ MaxBatches \in Nat \ {0}

Concurrency == Cardinality(Threads)
Items == 1..Size

VARIABLES
  files,    \* the saved answer of every request
  wants,    \* the request each item asks first
  paid,     \* whether this batch may ask the provider
  batch,    \* how many batches were started
  asks,     \* history: how often the provider was asked, by request, in this batch
  records,  \* history: how many of these asks end in a call record
  main,     \* where the generator stands
  fresh,    \* the item the iterator gives next
  pending,  \* submitted items that are not collected yet, in item order
  visited,  \* how many of them the cleanup has visited
  queue,    \* the work queue of the pool
  future,   \* the state of each item's future
  log,      \* the call records each item left
  failed,   \* the items whose operation raised
  results,  \* the items whose results were handed to the consumer
  raised,   \* the item whose error was raised to the consumer, or 0
  ledger,   \* the call records collected for the batch
  at,       \* where each worker stands
  work,     \* the item it works on
  key,      \* the request it asks
  holder,   \* who holds the lock of a request
  refused   \* the requests that failed in this batch (request_errors)

store   == <<files, wants, paid, batch, asks, records>>
caller  == <<main, fresh, pending, visited, results, raised, ledger>>
workers == <<at, work, key>>
locks   == <<holder, refused>>
vars    == <<store, caller, queue, future, log, failed, workers, locks>>

Init ==
  /\ files \in [Keys -> {"none", "corrupt"}]
  /\ Cardinality({k \in Keys : files[k] = "corrupt"}) <= 1
  /\ wants \in [Items -> FirstKeys]
  /\ paid = TRUE
  /\ batch = 1
  /\ main = "fill"
  /\ fresh = 1 /\ pending = << >> /\ visited = 0
  /\ queue = << >>
  /\ future = [i \in Items |-> "new"]
  /\ log = [i \in Items |-> << >>]
  /\ failed = {}
  /\ results = << >> /\ raised = 0 /\ ledger = << >>
  /\ at = [t \in Threads |-> "idle"]
  /\ work = [t \in Threads |-> 0]
  /\ key = [t \in Threads |-> NoKey]
  /\ holder = [k \in Keys |-> NoThread]
  /\ refused = {}
  /\ asks = [k \in Keys |-> 0]
  /\ records = [k \in Keys |-> 0]

-----------------------------------------------------------------------------
(***************************************************************************)
(* The generator, called by its consumer.                                  *)
(***************************************************************************)
Submit ==
  /\ fresh' = fresh + 1
  /\ pending' = Append(pending, fresh)
  /\ queue' = Append(queue, fresh)
  /\ future' = [future EXCEPT ![fresh] = "queued"]

Stop == main' = "cancel"

\* The first items fill the window.
Fill ==
  /\ main = "fill"
  /\ IF fresh <= Size /\ fresh <= Concurrency
     THEN Submit /\ UNCHANGED main
     ELSE main' = "wait" /\ UNCHANGED <<fresh, pending, queue, future>>
  /\ UNCHANGED <<store, visited, results, raised, ledger, log, failed, workers, locks>>

\* Mutant of Collect: results are handed on as they complete.
CollectAnyDone ==
  \E n \in DOMAIN pending :
    LET i == pending[n]
    IN  /\ main = "wait"
        /\ future[i] = "done"
        /\ pending' = SubSeq(pending, 1, n - 1) \o SubSeq(pending, n + 1, Len(pending))
        /\ ledger' = ledger \o log[i]
        /\ IF i \in failed
           THEN raised' = i /\ Stop /\ UNCHANGED results
           ELSE results' = Append(results, i) /\ main' = "yielded" /\ UNCHANGED raised
        /\ UNCHANGED <<store, fresh, visited, queue, future, log, failed, workers, locks>>

\* The oldest future is collected: its records first, then its error or its result.
Collect ==
  LET i == Head(pending)
  IN  /\ main = "wait" /\ pending # << >>
      /\ future[i] = "done"
      /\ pending' = Tail(pending)
      /\ ledger' = ledger \o log[i]
      /\ IF i \in failed
         THEN raised' = i /\ Stop /\ UNCHANGED results
         ELSE results' = Append(results, i) /\ main' = "yielded" /\ UNCHANGED raised
      /\ UNCHANGED <<store, fresh, visited, queue, future, log, failed, workers, locks>>

\* Mutant of Resume: the end of the items is not noticed.
ResumePastTheEnd ==
  /\ main = "yielded"
  /\ main' = "wait"
  /\ Submit
  /\ UNCHANGED <<store, visited, results, raised, ledger, log, failed, workers, locks>>

\* The consumer asks for the next result; one more item enters the window.
Resume ==
  /\ main = "yielded"
  /\ main' = "wait"
  /\ IF fresh <= Size THEN Submit ELSE UNCHANGED <<fresh, pending, queue, future>>
  /\ UNCHANGED <<store, visited, results, raised, ledger, log, failed, workers, locks>>

\* Everything was collected, the consumer closes the generator, or the iterator over
\* the items raises: the cleanup runs.
Exhausted  == main = "wait" /\ pending = << >>
CloseEarly == main = "yielded"
ItemsFail  == fresh <= Size /\ ((main = "fill" /\ fresh <= Concurrency) \/ main = "yielded")

Leave ==
  /\ Exhausted \/ CloseEarly \/ ItemsFail
  /\ Stop
  /\ UNCHANGED <<store, fresh, pending, visited, results, raised, ledger, queue, future, log,
                 failed, workers, locks>>

\* future.cancel() for every pending future in turn: it works only before a worker
\* has taken the item.  Then the queue is emptied.
Cancel ==
  /\ main = "cancel"
  /\ IF visited < Len(pending)
     THEN /\ visited' = visited + 1
          /\ future' = [future EXCEPT ![pending[visited + 1]] =
                          IF @ = "queued" THEN "cancelled" ELSE @]
          /\ UNCHANGED <<main, queue>>
     ELSE main' = "shutdown" /\ queue' = << >> /\ UNCHANGED <<visited, future>>
  /\ UNCHANGED <<store, fresh, pending, results, raised, ledger, log, failed, workers, locks>>

\* Mutant of Shutdown: shutdown(wait=False).
ShutdownAtOnce ==
  /\ main = "shutdown"
  /\ main' = "gather"
  /\ UNCHANGED <<store, fresh, pending, visited, results, raised, ledger, queue, future, log,
                 failed, workers, locks>>

\* shutdown(wait=True) returns when every worker has ended.
Shutdown ==
  /\ main = "shutdown"
  /\ \A t \in Threads : at[t] = "idle"
  /\ main' = "gather"
  /\ UNCHANGED <<store, fresh, pending, visited, results, raised, ledger, queue, future, log,
                 failed, workers, locks>>

\* What the workers finished meanwhile is accounted too; its errors are dropped.
Gather ==
  LET i == Head(pending)
  IN  /\ main = "gather"
      /\ IF pending = << >>
         THEN main' = "closed" /\ UNCHANGED <<pending, ledger>>
         ELSE /\ pending' = Tail(pending)
              /\ ledger' = IF future[i] = "cancelled" THEN ledger ELSE ledger \o log[i]
              /\ UNCHANGED main
      /\ UNCHANGED <<store, fresh, visited, results, raised, queue, future, log, failed, workers, locks>>

\* The same batch again, with or without paid calls: no future, worker or error of an
\* earlier one is left.
Again ==
  /\ main = "closed" /\ batch < MaxBatches
  /\ batch' = batch + 1
  /\ paid' \in BOOLEAN
  /\ main' = "fill"
  /\ fresh' = 1 /\ pending' = << >> /\ visited' = 0
  /\ queue' = << >>
  /\ future' = [i \in Items |-> "new"]
  /\ log' = [i \in Items |-> << >>]
  /\ failed' = {}
  /\ results' = << >> /\ raised' = 0 /\ ledger' = << >>
  /\ at' = [t \in Threads |-> "idle"]
  /\ work' = [t \in Threads |-> 0]
  /\ key' = [t \in Threads |-> NoKey]
  /\ holder' = [k \in Keys |-> NoThread]
  /\ refused' = {}
  /\ asks' = [k \in Keys |-> 0]
  /\ records' = [k \in Keys |-> 0]
  /\ UNCHANGED <<files, wants>>

Generator ==
  Fill \/ Collect \/ Resume \/ Leave \/ Cancel \/ Shutdown \/ Gather

-----------------------------------------------------------------------------
(***************************************************************************)
(* A worker: call(item), locked_call and ProviderCache._call.              *)
(***************************************************************************)
At(t, here) == at[t] = here

\* The worker takes the oldest item; a cancelled one is skipped.
Take(t) ==
  LET i == Head(queue)
  IN  /\ At(t, "idle") /\ queue # << >>
      /\ queue' = Tail(queue)
      /\ IF future[i] = "cancelled"
         THEN UNCHANGED <<future, workers>>
         ELSE /\ future' = [future EXCEPT ![i] = "running"]
              /\ at' = [at EXCEPT ![t] = "lock"]
              /\ work' = [work EXCEPT ![t] = i]
              /\ key' = [key EXCEPT ![t] = wants[i]]
      /\ UNCHANGED <<store, caller, log, failed, locks>>

\* The operation returns or raises; the future is done.
Finish(t, ok) ==
  /\ future' = [future EXCEPT ![work[t]] = "done"]
  /\ failed' = IF ok THEN failed ELSE failed \cup {work[t]}
  /\ at' = [at EXCEPT ![t] = "idle"]
  /\ work' = [work EXCEPT ![t] = 0]
  /\ key' = [key EXCEPT ![t] = NoKey]

\* With an answer at hand: a valid one ends the operation, an invalid one is repaired.
UseAnswer(t, answer) ==
  LET next == Repair[key[t]]
  IN  IF answer = "invalid" /\ next # NoKey
      THEN /\ key' = [key EXCEPT ![t] = next]
           /\ at' = [at EXCEPT ![t] = "lock"]
           /\ UNCHANGED <<work, future, failed>>
      ELSE Finish(t, answer = "valid")

Record(t, how) == log' = [log EXCEPT ![work[t]] = Append(@, [item |-> work[t], key |-> key[t], how |-> how])]
Release(t) == holder' = [holder EXCEPT ![key[t]] = NoThread]
Refuse(t) == refused' = refused \cup {key[t]}

\* Mutant of Lock: identical requests do not wait for each other.
Unlocked(t) ==
  /\ At(t, "lock")
  /\ at' = [at EXCEPT ![t] = "check"]
  /\ UNCHANGED <<store, caller, queue, future, log, failed, work, key, locks>>

\* Identical requests of the batch go through one lock; a request that failed before
\* raises the same error again.
Lock(t) ==
  /\ At(t, "lock")
  /\ holder[key[t]] = NoThread
  /\ IF key[t] \in refused
     THEN Finish(t, FALSE) /\ UNCHANGED holder
     ELSE /\ holder' = [holder EXCEPT ![key[t]] = t]
          /\ at' = [at EXCEPT ![t] = "check"]
          /\ UNCHANGED <<future, failed, work, key>>
  /\ UNCHANGED <<store, caller, queue, log, refused>>

\* The answer is on file.
CacheHit(t) ==
  /\ At(t, "check")
  /\ files[key[t]] \in {"valid", "invalid"}
  /\ Record(t, "hit") /\ Release(t)
  /\ UseAnswer(t, files[key[t]])
  /\ UNCHANGED <<store, caller, queue, refused>>

\* Its file cannot be used; or there is none and the request may not be sent: paid calls
\* are refused, its credential is missing, or it is too large.  No call record is left.
CacheFails(t) ==
  /\ At(t, "check")
  /\ \/ files[key[t]] = "corrupt"
     \/ files[key[t]] = "none" /\ (paid \/ key[t] \notin SystemOneKeys)
  /\ Release(t) /\ Refuse(t)
  /\ Finish(t, FALSE)
  /\ UNCHANGED <<store, caller, queue, log>>

\* Mutant of Ask: what an earlier batch saved is not looked up.
AskAlways(t) ==
  /\ At(t, "check")
  /\ paid \/ key[t] \in SystemOneKeys
  /\ asks' = [asks EXCEPT ![key[t]] = @ + 1]
  /\ at' = [at EXCEPT ![t] = "asking"]
  /\ UNCHANGED <<files, wants, paid, batch, records, caller, queue, future, log, failed, work, key, locks>>

\* Without paid calls System One's client is still asked: it answers from a cache of its own.
Ask(t) ==
  /\ At(t, "check")
  /\ files[key[t]] = "none" /\ (paid \/ key[t] \in SystemOneKeys)
  /\ asks' = [asks EXCEPT ![key[t]] = @ + 1]
  /\ at' = [at EXCEPT ![t] = "asking"]
  /\ UNCHANGED <<files, wants, paid, batch, records, caller, queue, future, log, failed, work, key, locks>>

\* The provider answers: the answer is saved, then recorded.
Answer(t) ==
  /\ At(t, "asking")
  /\ \E answer \in {"valid", "invalid"} :
       /\ files' = [files EXCEPT ![key[t]] = answer]
       /\ UseAnswer(t, answer)
  /\ records' = [records EXCEPT ![key[t]] = @ + 1]
  /\ Record(t, "paid") /\ Release(t)
  /\ UNCHANGED <<wants, paid, batch, asks, caller, queue, refused>>

\* Mutant of AskFails: the error is not remembered for identical requests.
AskFailsForgotten(t) ==
  /\ At(t, "asking")
  /\ records' = [records EXCEPT ![key[t]] = @ + 1]
  /\ Record(t, "error") /\ Release(t)
  /\ Finish(t, FALSE)
  /\ UNCHANGED <<files, wants, paid, batch, asks, caller, queue, refused>>

\* Mutant of AskFails: the lock is not released when the request raises.
AskFailsLocked(t) ==
  /\ At(t, "asking")
  /\ records' = [records EXCEPT ![key[t]] = @ + 1]
  /\ Record(t, "error") /\ Refuse(t)
  /\ Finish(t, FALSE)
  /\ UNCHANGED <<files, wants, paid, batch, asks, caller, queue, holder>>

\* The provider cannot be reached or refuses; nothing is saved.
AskFails(t) ==
  /\ At(t, "asking")
  /\ records' = [records EXCEPT ![key[t]] = @ + 1]
  /\ Record(t, "error") /\ Release(t) /\ Refuse(t)
  /\ Finish(t, FALSE)
  /\ UNCHANGED <<files, wants, paid, batch, asks, caller, queue>>

\* The answer is no object, or cannot be saved: the error leaves no call record.
AnswerLost(t) ==
  /\ At(t, "asking")
  /\ Release(t) /\ Refuse(t)
  /\ Finish(t, FALSE)
  /\ UNCHANGED <<store, caller, queue, log>>

Worker(t) ==
  \/ Take(t) \/ Lock(t) \/ CacheHit(t) \/ CacheFails(t) \/ Ask(t)
  \/ Answer(t) \/ AskFails(t) \/ AnswerLost(t)

Next == Generator \/ Again \/ \E t \in Threads : Worker(t)

\* The pool runs its threads and the consumer resumes or closes the generator it was
\* given; that an asked provider answers or fails is the timeout of its client.
Fairness == WF_vars(Generator) /\ \A t \in Threads : WF_vars(Worker(t))

Spec == Init /\ [][Next]_vars /\ Fairness

-----------------------------------------------------------------------------
CallRecord == [item : Items, key : Keys, how : {"hit", "paid", "error"}]

\* Every variable has its type (extraction.py:424-517).
TypeOK ==
  /\ files \in [Keys -> {"none", "corrupt", "valid", "invalid"}]
  /\ wants \in [Items -> FirstKeys]
  /\ paid \in BOOLEAN /\ batch \in 1..MaxBatches
  /\ asks \in [Keys -> Nat] /\ records \in [Keys -> Nat]
  /\ main \in {"fill", "wait", "yielded", "cancel", "shutdown", "gather", "closed"}
  /\ fresh \in 1..(Size + 1)
  /\ pending \in Seq(Items) /\ queue \in Seq(Items)
  /\ visited \in Nat
  /\ future \in [Items -> {"new", "queued", "running", "done", "cancelled"}]
  /\ log \in [Items -> Seq(CallRecord)] /\ ledger \in Seq(CallRecord)
  /\ failed \subseteq Items
  /\ results \in Seq(Items) /\ raised \in 0..Size
  /\ at \in [Threads -> {"idle", "lock", "check", "asking"}]
  /\ work \in [Threads -> 0..Size]
  /\ key \in [Threads -> Keys \cup {NoKey}]
  /\ holder \in [Keys -> Threads \cup {NoThread}]
  /\ refused \subseteq Keys

\* "Concurrent identical cache misses share one request" (docs/memory-audit.md:95): within
\* a batch no request is sent twice, whichever items want it, first or as a repair, and
\* whether it was answered or failed (locked_call, extraction.py:456-467).
AskedOnce == \A k \in Keys : asks[k] <= 1

\* A saved answer, and a file kept for inspection, is never replaced, in this batch or a
\* later one (ProviderCache._call, extraction.py:174-202).
SavedAnswersAreKept ==
  [][\A k \in Keys : files[k] # "none" => files'[k] = files[k]]_files

\* The consumer gets the results in the order of the items, whatever order they finish in;
\* the error it gets is that of the first item that failed, after every result before it
\* (extraction.py:499-507).
HandedOnInItemOrder ==
  /\ results = [n \in 1..Len(results) |-> n]
  /\ \A n \in 1..Len(results) : n \notin failed
  /\ raised # 0 => raised = Len(results) + 1 /\ raised \in failed

\* However a batch ends, each asked request that left a record is accounted exactly once,
\* and the records are in item order: also those of items whose results nobody took
\* ("ordered cache accounting", extraction.py:425 and 508-514).
Asked(k) == {n \in DOMAIN ledger : ledger[n].key = k /\ ledger[n].how # "hit"}

ClosedBatchIsAccounted ==
  main = "closed" =>
    /\ \A k \in Keys : Cardinality(Asked(k)) = records[k]
    /\ \A m, n \in DOMAIN ledger : m < n => ledger[m].item <= ledger[n].item

\* Results, and the accounts of what they cost, come in the order of the items.
BatchKeepsItemOrder == HandedOnInItemOrder /\ ClosedBatchIsAccounted

\* When the cleanup hands over, no worker is at an item, no lock is held and nothing waits:
\* the clients it closes are not in use (extraction.py:509-517).
NothingRunsAfterShutdown ==
  main \in {"gather", "closed"} =>
    /\ \A t \in Threads : At(t, "idle")
    /\ \A k \in Keys : holder[k] = NoThread
    /\ \A i \in Items : future[i] \in {"new", "done", "cancelled"}

\* No batch hangs: locks of requests, the window and the shutdown never wait for each other
\* (extraction.py:456-514).
BatchEnds == main = "fill" ~> main = "closed"

=============================================================================
