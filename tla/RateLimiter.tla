---------------------------- MODULE RateLimiter ----------------------------
(***************************************************************************)
(* The token bucket that bounds the requests to System One                 *)
(* (src/agent_hotwash/semantic/ratelimit.py), drawn from by the threads of *)
(* one process or, with its state in shared memory, by the threads of all  *)
(* worker processes.                                                       *)
(*                                                                         *)
(* A thread refills and takes under the bucket's lock, but sleeps outside  *)
(* of it, for a time computed from a bucket that others change meanwhile.  *)
(*                                                                         *)
(* Time passes in ticks, at any moment, also while the lock is held; a     *)
(* sleeper may be woken late.  The bucket holds units, Cost of them are    *)
(* one token: at rate r a tick is 1/(Cost * r) seconds.  The time since    *)
(* the last refill is kept up to Cap: a refill does not credit more.       *)
(***************************************************************************)
EXTENDS Integers

CONSTANTS
  Threads,   \* the threads that draw from the bucket
  NoThread,  \* nobody holds its lock
  Cost,      \* the ticks in which one token accrues
  Burst,     \* the tokens of a full bucket
  MaxSpan    \* bound on the window in which grants are counted

ASSUME ThreadsAssumption == NoThread \notin Threads
ASSUME CostAssumption == Cost \in Nat \ {0}
ASSUME BurstAssumption == Burst \in Nat \ {0}  \* burst is at least 1
ASSUME SpanAssumption == MaxSpan \in Nat

Cap == Burst * Cost
Capped(n) == IF n > Cap THEN Cap ELSE n

VARIABLES
  tokens,   \* the units in the bucket
  elapsed,  \* the ticks since bucket.last
  lock,     \* who holds bucket.lock
  at,       \* where each thread stands in acquire
  rest,     \* the ticks it still has to sleep
  span,     \* history: the ticks since the window was opened
  spent,    \* history: the tokens taken in its first MaxSpan ticks
  sure      \* history: it slept its time and nobody took a token since

vars == <<tokens, elapsed, lock, at, rest, span, spent, sure>>

\* The bucket starts full.
Init ==
  /\ tokens = Cap /\ elapsed = 0
  /\ lock = NoThread
  /\ at = [t \in Threads |-> "idle"]
  /\ rest = [t \in Threads |-> 0]
  /\ span = 0 /\ spent = 0
  /\ sure = [t \in Threads |-> FALSE]

-----------------------------------------------------------------------------
Step(t, here, there) == at[t] = here /\ at' = [at EXCEPT ![t] = there]

Ask(t) ==
  /\ Step(t, "idle", "enter")
  /\ sure' = [sure EXCEPT ![t] = FALSE]
  /\ UNCHANGED <<tokens, elapsed, lock, rest, span, spent>>

\* Mutant of Lock: the bucket is read and written without its lock.
LockNothing(t) ==
  /\ Step(t, "enter", "refill")
  /\ UNCHANGED <<tokens, elapsed, lock, rest, span, spent, sure>>

Lock(t) ==
  /\ Step(t, "enter", "refill")
  /\ lock = NoThread
  /\ lock' = t
  /\ UNCHANGED <<tokens, elapsed, rest, span, spent, sure>>

\* Mutant of Refill: only whole tokens are credited, but the clock is set.
RefillWhole(t) ==
  /\ Step(t, "refill", "decide")
  /\ tokens' = Capped(tokens + (elapsed \div Cost) * Cost)
  /\ elapsed' = 0
  /\ UNCHANGED <<lock, rest, span, spent, sure>>

Refill(t) ==
  /\ Step(t, "refill", "decide")
  /\ tokens' = Capped(tokens + elapsed)
  /\ elapsed' = 0
  /\ UNCHANGED <<lock, rest, span, spent, sure>>

Grant(t) ==
  /\ Step(t, "decide", "take")
  /\ tokens >= Cost
  /\ UNCHANGED <<tokens, elapsed, lock, rest, span, spent, sure>>

\* acquire returns: the request may be sent.
Take(t) ==
  /\ Step(t, "take", "idle")
  /\ tokens' = tokens - Cost
  /\ lock' = NoThread
  /\ spent' = IF span < MaxSpan THEN spent + 1 ELSE spent
  /\ sure' = [u \in Threads |-> FALSE]
  /\ UNCHANGED <<elapsed, rest, span>>

\* Mutant of Sleep: the wait is rounded down.
SleepShort(t) ==
  /\ Step(t, "decide", "sleep")
  /\ tokens < Cost
  /\ rest' = [rest EXCEPT ![t] = Cost - tokens - 1]
  /\ lock' = NoThread
  /\ sure' = [sure EXCEPT ![t] = TRUE]
  /\ UNCHANGED <<tokens, elapsed, span, spent>>

\* The wait covers what is missing of a token; the lock is released first.
Sleep(t) ==
  /\ Step(t, "decide", "sleep")
  /\ tokens < Cost
  /\ rest' = [rest EXCEPT ![t] = Cost - tokens]
  /\ lock' = NoThread
  /\ sure' = [sure EXCEPT ![t] = TRUE]
  /\ UNCHANGED <<tokens, elapsed, span, spent>>

Wake(t) ==
  /\ Step(t, "sleep", "enter")
  /\ rest[t] = 0
  /\ UNCHANGED <<tokens, elapsed, lock, rest, span, spent, sure>>

Acquire(t) ==
  Lock(t) \/ Refill(t) \/ Grant(t) \/ Take(t) \/ Sleep(t) \/ Wake(t)

\* The clock.
Tick ==
  /\ elapsed' = Capped(elapsed + 1)
  /\ rest' = [t \in Threads |-> IF rest[t] = 0 THEN 0 ELSE rest[t] - 1]
  /\ span' = IF span < MaxSpan THEN span + 1 ELSE span
  /\ UNCHANGED <<tokens, lock, at, spent, sure>>

\* History: a window may be opened whenever nobody is at the bucket.
Open ==
  /\ lock = NoThread
  /\ span' = 0 /\ spent' = 0
  /\ UNCHANGED <<tokens, elapsed, lock, at, rest, sure>>

Next == Tick \/ Open \/ \E t \in Threads : Ask(t) \/ Acquire(t)

\* Time passes and every thread is scheduled; nobody has to ask.
Fairness == WF_vars(Tick) /\ \A t \in Threads : WF_vars(Acquire(t))

Spec == Init /\ [][Next]_vars /\ Fairness

-----------------------------------------------------------------------------
TypeOK ==
  /\ tokens \in 0..Cap /\ elapsed \in 0..Cap
  /\ lock \in Threads \cup {NoThread}
  /\ at \in [Threads -> {"idle", "enter", "refill", "decide", "take", "sleep"}]
  /\ rest \in [Threads -> 0..Cost]
  /\ span \in 0..MaxSpan /\ spent \in Nat
  /\ sure \in [Threads -> BOOLEAN]

\* "the aggregate rate and burst are bounded no matter how many workers run"
\* (runner.py:11): in any window the threads together take no more tokens than the
\* burst and what accrued in the window, however they interleave and oversleep.
WithinBudget == spent * Cost <= Cap + span

\* A thread that slept as long as it was told, and found nobody ahead of it, gets its
\* token: the wait computed under the lock is enough (ratelimit.py:93-105).
OneSleepIsEnough ==
  \A t \in Threads : at[t] = "decide" /\ sure[t] => tokens >= Cost

\* While threads ask, tokens keep being taken: sleepers that wake, refill and sleep
\* again never use up the time that would have earned a token (ratelimit.py:87-105).
SomebodyIsServed ==
  \/ []<>(\A t \in Threads : at[t] = "idle")
  \/ []<><<\E t \in Threads : Take(t)>>_vars

=============================================================================
