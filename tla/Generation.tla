----------------------------- MODULE Generation -----------------------------
(***************************************************************************)
(* Requests to the synthesis provider with retries, and the cooldown that  *)
(* the workers share (src/agent_hotwash/memory/synthesis.py).              *)
(*                                                                         *)
(* A worker whose request was refused for the time being postpones all     *)
(* workers, itself included; a worker sleeps outside of the lock, for what *)
(* the cooldown was when it looked.  Time passes in ticks, at any moment,  *)
(* and a sleeper may be woken late.  A delay is a member of a small set,   *)
(* whether the provider named it (Retry-After) or it is the fallback.      *)
(***************************************************************************)
EXTENDS Naturals

CONSTANTS
  Workers,     \* the threads that generate with one GenerationControl
  Delays,      \* the delays that a provider or the fallback asks for
  MaxRetries,  \* max_retries
  MaxCalls     \* bound on the calls of generate by each worker

ASSUME DelaysAssumption == Delays \subseteq Nat
ASSUME RetriesAssumption == MaxRetries \in Nat

VARIABLES
  cool,     \* the ticks until control.resume_at
  place,    \* where each worker stands in generate
  nap,      \* the ticks it still has to sleep
  attempt,  \* its variable attempt
  calls,    \* its calls of generate
  sent,     \* history: the requests sent by its present or last call
  ended,    \* history: how its last request ended
  due       \* history: the ticks that a provider asked any worker to wait for, since
            \* this one last decided to send

gvars == <<cool, place, nap, attempt, calls, sent, ended, due>>

Later(m, n) == IF m > n THEN m ELSE n
Earlier(n)  == IF n = 0 THEN 0 ELSE n - 1

GenerationInit ==
  /\ cool = 0
  /\ place = [w \in Workers |-> "idle"]
  /\ nap = [w \in Workers |-> 0]
  /\ attempt = [w \in Workers |-> 0]
  /\ calls = [w \in Workers |-> 0]
  /\ sent = [w \in Workers |-> 0]
  /\ ended = [w \in Workers |-> "never"]
  /\ due = [w \in Workers |-> 0]

-----------------------------------------------------------------------------
Goes(w, here, there) == place[w] = here /\ place' = [place EXCEPT ![w] = there]

Begin(w) ==
  /\ calls[w] < MaxCalls
  /\ Goes(w, "idle", "wait")
  /\ attempt' = [attempt EXCEPT ![w] = 0]
  /\ calls' = [calls EXCEPT ![w] = @ + 1]
  /\ sent' = [sent EXCEPT ![w] = 0]
  /\ ended' = [ended EXCEPT ![w] = "never"]
  /\ UNCHANGED <<cool, nap, due>>

\* control.wait: the cooldown is over, ...
Proceed(w) ==
  /\ Goes(w, "wait", "send")
  /\ cool = 0
  /\ UNCHANGED <<cool, nap, attempt, calls, sent, ended, due>>

\* ... or the worker sleeps as long as it still is.
SleepItOut(w) ==
  /\ Goes(w, "wait", "sleep")
  /\ cool > 0
  /\ nap' = [nap EXCEPT ![w] = cool]
  /\ UNCHANGED <<cool, attempt, calls, sent, ended, due>>

\* Mutant of WakeUp: having slept, the worker sends.
WakeAndSend(w) ==
  /\ Goes(w, "sleep", "send")
  /\ nap[w] = 0
  /\ UNCHANGED <<cool, nap, attempt, calls, sent, ended, due>>

WakeUp(w) ==
  /\ Goes(w, "sleep", "wait")
  /\ nap[w] = 0
  /\ UNCHANGED <<cool, nap, attempt, calls, sent, ended, due>>

\* More requests than one call may send are not told apart.
Send(w) ==
  /\ Goes(w, "send", "sent")
  /\ sent' = [sent EXCEPT ![w] = IF @ > MaxRetries + 1 THEN @ ELSE @ + 1]
  /\ UNCHANGED <<cool, nap, attempt, calls, ended, due>>

\* A result, or a failure that is none of the provider's or cannot be retried.
End(w, how) ==
  /\ Goes(w, "sent", "idle")
  /\ ended' = [ended EXCEPT ![w] = how]
  /\ UNCHANGED <<cool, nap, attempt, calls, sent, due>>

Finish(w) == End(w, "answered") \/ End(w, "refused")

\* Mutant of MayRetry: one attempt too few.
MayRetryLess(w) == attempt[w] + 1 < MaxRetries
\* Mutant of MayRetry: one attempt too many.
MayRetryMore(w) == attempt[w] <= MaxRetries

MayRetry(w) == attempt[w] < MaxRetries

\* Mutant of Deferred: the last delay replaces a longer one.
DeferredAnew(d) == d

\* control.defer: the cooldown is never shortened.
Deferred(d) == Later(cool, d)

\* The delay concerns all workers, but those that have decided to send.
Asked(d) ==
  due' = [u \in Workers |-> IF place[u] = "send" THEN due[u] ELSE Later(due[u], d)]

\* Mutant of Retry: the attempt is not counted.
RetryUncounted(w) ==
  /\ MayRetry(w)
  /\ Goes(w, "sent", "wait")
  /\ \E d \in Delays : cool' = Deferred(d) /\ Asked(d)
  /\ ended' = [ended EXCEPT ![w] = "unavailable"]
  /\ UNCHANGED <<nap, attempt, calls, sent>>

\* A timeout, a network error or a status that asks for patience.
Retry(w) ==
  /\ MayRetry(w)
  /\ Goes(w, "sent", "wait")
  /\ attempt' = [attempt EXCEPT ![w] = @ + 1]
  /\ \E d \in Delays : cool' = Deferred(d) /\ Asked(d)
  /\ ended' = [ended EXCEPT ![w] = "unavailable"]
  /\ UNCHANGED <<nap, calls, sent>>

GiveUp(w) == ~MayRetry(w) /\ End(w, "unavailable")

Generate(w) ==
  \/ Proceed(w) \/ SleepItOut(w) \/ WakeUp(w) \/ Send(w)
  \/ Finish(w) \/ Retry(w) \/ GiveUp(w)

\* The clock.
GenerationTick ==
  /\ cool' = Earlier(cool)
  /\ nap' = [w \in Workers |-> Earlier(nap[w])]
  /\ due' = [w \in Workers |-> Earlier(due[w])]
  /\ UNCHANGED <<place, attempt, calls, sent, ended>>

GenerationNext == GenerationTick \/ \E w \in Workers : Begin(w) \/ Generate(w)

\* Time passes, workers are scheduled, and a request ends: its timeouts see to it.
GenerationFairness == WF_gvars(GenerationTick) /\ \A w \in Workers : WF_gvars(Generate(w))

GenerationSpec == GenerationInit /\ [][GenerationNext]_gvars /\ GenerationFairness

-----------------------------------------------------------------------------
GenerationTypeOK ==
  /\ cool \in Nat
  /\ place \in [Workers -> {"idle", "wait", "sleep", "send", "sent"}]
  /\ nap \in [Workers -> Nat]
  /\ attempt \in [Workers -> 0..MaxRetries]
  /\ calls \in [Workers -> Nat]
  /\ sent \in [Workers -> Nat]
  /\ ended \in [Workers -> {"never", "answered", "refused", "unavailable"}]
  /\ due \in [Workers -> Nat]

\* No worker decides to send before every delay that a provider asked any worker for
\* has passed, although the cooldown moves while it sleeps (synthesis.py:40-50).
PausesAreKept == \A w \in Workers : place[w] = "send" => due[w] = 0

\* A call gives up on an unavailable provider exactly when all attempts were made,
\* and never makes more of them (synthesis.py:81, 132-142).
AttemptsAreUsed ==
  \A w \in Workers :
    /\ sent[w] <= MaxRetries + 1
    /\ place[w] = "idle" /\ ended[w] = "unavailable" => sent[w] = MaxRetries + 1

\* Every call ends, however often the others move the cooldown (synthesis.py:44-50).
CallsEnd == \A w \in Workers : []<>(place[w] = "idle")

=============================================================================
