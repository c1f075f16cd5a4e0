------------------------- MODULE RateLimiterProofs -------------------------
(***************************************************************************)
(* Proofs about the token bucket, for any number of threads, any rate, any *)
(* burst and any window.                                                   *)
(***************************************************************************)
EXTENDS RateLimiter, TLAPS

\* The bucket never holds less than one full token's worth of room.
LEMMA CapBounds == Cap \in Nat /\ Cap >= Cost /\ Cost \in Nat /\ Cost >= 1
<1>1. Cost \in Nat /\ Burst \in Nat /\ Cost >= 1 /\ Burst >= 1
  BY CostAssumption, BurstAssumption
<1>2. Burst * Cost \in Nat /\ Burst * Cost >= 1 * Cost
  BY <1>1
<1> QED BY <1>1, <1>2 DEF Cap

\* Where a thread stands at the bucket it holds the bucket's lock, and what it is
\* about to take is there.
Held(t) == at[t] \in {"refill", "decide", "take"} <=> lock = t
Affordable(t) == at[t] = "take" => tokens >= Cost
LockInv == \A t \in Threads : Held(t) /\ Affordable(t)

\* Every variable keeps its type, and the lock is held as the code says
\* (ratelimit.py:92-105).
TypedInv == TypeOK /\ LockInv

LEMMA InitTyped == Init => TypedInv
<1> SUFFICES ASSUME Init PROVE TypedInv
  OBVIOUS
<1>1. TypeOK
  BY CapBounds, SpanAssumption DEF Init, TypeOK
<1>2. LockInv
  BY ThreadsAssumption DEF Init, LockInv, Held, Affordable
<1> QED BY <1>1, <1>2 DEF TypedInv

LEMMA StepTyped == TypedInv /\ [Next]_vars => TypedInv'
<1> SUFFICES ASSUME TypedInv, [Next]_vars PROVE TypedInv'
  OBVIOUS
<1> USE CapBounds, SpanAssumption, ThreadsAssumption DEF TypedInv, TypeOK, LockInv, Held, Affordable
<1>1. CASE Tick
  BY <1>1 DEF Tick, Capped
<1>2. CASE Open
  BY <1>2 DEF Open
<1>3. ASSUME NEW t \in Threads, Ask(t) PROVE TypedInv'
  BY <1>3 DEF Ask, Step
<1>4. ASSUME NEW t \in Threads, Lock(t) PROVE TypedInv'
  BY <1>4 DEF Lock, Step
<1>5. ASSUME NEW t \in Threads, Refill(t) PROVE TypedInv'
  BY <1>5 DEF Refill, Step, Capped
<1>6. ASSUME NEW t \in Threads, Grant(t) PROVE TypedInv'
  BY <1>6 DEF Grant, Step
<1>7. ASSUME NEW t \in Threads, Take(t) PROVE TypedInv'
  BY <1>7 DEF Take, Step
<1>8. ASSUME NEW t \in Threads, Sleep(t) PROVE TypedInv'
  BY <1>8 DEF Sleep, Step
<1>9. ASSUME NEW t \in Threads, Wake(t) PROVE TypedInv'
  BY <1>9 DEF Wake, Step
<1>10. CASE UNCHANGED vars
  BY <1>10 DEF vars
<1> QED BY <1>1, <1>2, <1>3, <1>4, <1>5, <1>6, <1>7, <1>8, <1>9, <1>10 DEF Next, Acquire

LEMMA Typed == Spec => []TypedInv
BY InitTyped, StepTyped, PTL DEF Spec

\* For any threads, rate, burst and window: every variable keeps its type; in
\* particular the bucket is never overdrawn and never overfull.
THEOREM BucketTypes == Spec => []TypeOK
BY Typed, PTL DEF TypedInv

-----------------------------------------------------------------------------
(***************************************************************************)
(* The budget.  What was taken in the window, what the bucket holds and    *)
(* what the next refill will add stay within a full bucket and the time of *)
(* the window.  Time that a refill cannot credit any more is lost; while a *)
(* thread stands at the bucket after its refill nothing is lost yet.       *)
(***************************************************************************)
Refilled == \E t \in Threads : at[t] \in {"decide", "take"}
Credit == IF Refilled THEN tokens + elapsed ELSE Capped(tokens + elapsed)
BudgetInv ==
  /\ WithinBudget
  /\ span < MaxSpan => spent * Cost + Credit <= Cap + span

\* Multiplying out one more token.
LEMMA OneMore == ASSUME NEW n \in Nat PROVE (n + 1) * Cost = n * Cost + Cost /\ n * Cost \in Nat
BY CapBounds

LEMMA InitBudget == Init => BudgetInv
<1> SUFFICES ASSUME Init PROVE BudgetInv
  OBVIOUS
<1>1. ~Refilled
  BY DEF Init, Refilled
<1> QED BY <1>1, CapBounds, SpanAssumption DEF Init, BudgetInv, WithinBudget, Credit, Capped

LEMMA StepBudget == TypedInv /\ BudgetInv /\ [Next]_vars => BudgetInv'
<1> SUFFICES ASSUME TypedInv, BudgetInv, [Next]_vars PROVE BudgetInv'
  OBVIOUS
<1>0. /\ tokens \in Nat /\ elapsed \in Nat /\ tokens <= Cap /\ elapsed <= Cap
      /\ span \in Nat /\ spent \in Nat /\ MaxSpan \in Nat
  BY CapBounds, SpanAssumption DEF TypedInv, TypeOK
<1>1. PICK paid : paid = spent * Cost
  OBVIOUS
<1>2. PICK credit : credit = Credit
  OBVIOUS
<1>3. PICK left : left = Credit'
  OBVIOUS
<1>4. /\ paid \in Nat /\ paid <= Cap + span
      /\ span < MaxSpan => paid + credit <= Cap + span
  BY <1>0, <1>1, <1>2, OneMore DEF BudgetInv, WithinBudget
<1>5. credit \in Nat /\ credit <= tokens + elapsed
  BY <1>0, <1>2, CapBounds DEF Credit, Capped
<1>6. ASSUME NEW P, spent' * Cost = P, P <= Cap + span', span' < MaxSpan => P + left <= Cap + span'
      PROVE  BudgetInv'
  BY <1>3, <1>6 DEF BudgetInv, WithinBudget, Cap
\* A step that takes nothing and makes no time pass may only lose credit.
<1>7. ASSUME spent' = spent, span' = span, left \in Nat, left <= credit PROVE BudgetInv'
  <2>1. paid <= Cap + span' /\ (span' < MaxSpan => paid + left <= Cap + span')
    BY <1>0, <1>4, <1>5, <1>7, CapBounds
  <2> QED BY <1>1, <1>6, <1>7, <2>1
<1>8. ASSUME Refilled PROVE lock # NoThread
  BY <1>8, ThreadsAssumption DEF Refilled, TypedInv, LockInv, Held
<1>9. CASE Tick
  <2>1. Refilled' = Refilled
    BY <1>9 DEF Tick, Refilled
  <2>2. PICK late : late = elapsed'
    OBVIOUS
  <2>3. late \in Nat /\ late <= elapsed + 1 /\ tokens' = tokens /\ spent' = spent
    BY <1>0, <1>9, <2>2, CapBounds DEF Tick, Capped
  <2>4. left \in Nat /\ left <= credit + 1
    <3>1. CASE Refilled
      <4>1. credit = tokens + elapsed
        BY <1>2, <3>1 DEF Credit
      <4>2. left = tokens + late
        BY <1>3, <2>1, <2>2, <2>3, <3>1 DEF Credit
      <4> QED BY <1>0, <2>3, <4>1, <4>2
    <3>2. CASE ~Refilled
      <4>1. credit = Capped(tokens + elapsed)
        BY <1>2, <3>2 DEF Credit
      <4>2. left = Capped(tokens + late)
        BY <1>3, <2>1, <2>2, <2>3, <3>2 DEF Credit, Capped, Cap
      <4> QED BY <1>0, <2>3, <4>1, <4>2, CapBounds DEF Capped
    <3> QED BY <3>1, <3>2
  <2>5. paid <= Cap + span' /\ (span' < MaxSpan => paid + left <= Cap + span')
    BY <1>0, <1>4, <1>5, <1>9, <2>4, CapBounds DEF Tick
  <2> QED BY <1>1, <1>6, <2>3, <2>5
<1>10. CASE Open
  <2>1. ~Refilled /\ Refilled' = Refilled /\ tokens' = tokens /\ elapsed' = elapsed
    BY <1>8, <1>10 DEF Open, Refilled
  <2>2. left = Capped(tokens + elapsed)
    BY <1>3, <2>1 DEF Credit, Capped, Cap
  <2>3. spent' * Cost = 0 /\ span' = 0
    BY <1>10, CapBounds DEF Open
  <2>4. 0 <= Cap + span' /\ 0 + left <= Cap + span'
    BY <1>0, <2>2, <2>3, CapBounds DEF Capped
  <2> QED BY <1>6, <2>3, <2>4
<1>11. ASSUME NEW t \in Threads, Ask(t) \/ Lock(t) \/ Grant(t) \/ Wake(t) PROVE BudgetInv'
  <2>1. UNCHANGED <<tokens, elapsed, spent, span>>
    BY <1>11 DEF Ask, Lock, Grant, Wake
  <2>2. Refilled' = Refilled
    BY <1>11 DEF Ask, Lock, Grant, Wake, Step, Refilled, TypedInv, TypeOK
  <2>3. left = credit
    BY <1>2, <1>3, <2>1, <2>2 DEF Credit, Capped, Cap
  <2> QED BY <1>5, <1>7, <2>1, <2>3
<1>12. ASSUME NEW t \in Threads, Refill(t) PROVE BudgetInv'
  <2>1. lock = t /\ at[t] = "refill"
    BY <1>12 DEF Refill, Step, TypedInv, LockInv, Held
  <2>2. ~Refilled
    BY <2>1 DEF Refilled, TypedInv, LockInv, Held
  <2>3. Refilled'
    BY <1>12 DEF Refill, Step, Refilled, TypedInv, TypeOK
  <2>4. credit = Capped(tokens + elapsed)
    BY <1>2, <2>2 DEF Credit
  <2>5. left = tokens' + elapsed'
    BY <1>3, <2>3 DEF Credit
  <2>6. left = credit
    BY <1>0, <1>12, <2>4, <2>5, CapBounds DEF Refill, Capped
  <2> QED BY <1>5, <1>7, <1>12, <2>6 DEF Refill
<1>13. ASSUME NEW t \in Threads, Sleep(t) PROVE BudgetInv'
  <2>1. UNCHANGED <<tokens, elapsed, spent, span>>
    BY <1>13 DEF Sleep
  <2>2. Refilled
    BY <1>13 DEF Sleep, Step, Refilled
  <2>3. left \in {tokens + elapsed, Capped(tokens + elapsed)}
    BY <1>3, <2>1 DEF Credit, Capped, Cap
  <2>4. left \in Nat /\ left <= credit
    BY <1>0, <1>2, <2>2, <2>3, CapBounds DEF Credit, Capped
  <2> QED BY <1>7, <2>1, <2>4
<1>14. ASSUME NEW t \in Threads, Take(t) PROVE BudgetInv'
  <2>1. at[t] = "take" /\ lock = t /\ tokens >= Cost
    BY <1>14 DEF Take, Step, TypedInv, LockInv, Held, Affordable
  <2>2. Refilled /\ credit = tokens + elapsed
    BY <1>2, <2>1 DEF Refilled, Credit
  <2>3. tokens' = tokens - Cost /\ elapsed' = elapsed /\ span' = span
    BY <1>14 DEF Take
  <2>4. left \in {tokens' + elapsed, Capped(tokens' + elapsed)}
    BY <1>3, <2>3 DEF Credit, Capped, Cap
  <2>5. left \in Nat /\ left + Cost <= credit
    BY <1>0, <2>1, <2>2, <2>3, <2>4, CapBounds DEF Capped
  <2>6. CASE span < MaxSpan
    <3>1. spent' = spent + 1
      BY <1>14, <2>6 DEF Take
    <3>2. spent' * Cost = paid + Cost
      BY <1>0, <1>1, <3>1, OneMore
    <3>3. paid + Cost <= Cap + span' /\ (paid + Cost) + left <= Cap + span'
      BY <1>0, <1>4, <1>5, <2>3, <2>5, <2>6, CapBounds
    <3> QED BY <1>6, <3>2, <3>3
  <2>7. CASE ~(span < MaxSpan)
    <3>1. spent' = spent
      BY <1>14, <2>7 DEF Take
    <3> QED BY <1>1, <1>4, <1>6, <2>3, <2>7, <3>1
  <2> QED BY <2>6, <2>7
<1>15. CASE UNCHANGED vars
  <2>1. UNCHANGED <<tokens, elapsed, spent, span>> /\ Refilled' = Refilled
    BY <1>15 DEF vars, Refilled
  <2>2. left = credit
    BY <1>2, <1>3, <2>1 DEF Credit, Capped, Cap
  <2> QED BY <1>5, <1>7, <2>1, <2>2
<1> QED BY <1>9, <1>10, <1>11, <1>12, <1>13, <1>14, <1>15 DEF Next, Acquire

\* In any window, any number of threads of any number of processes take no more tokens
\* than a full bucket and what accrues in the window (ratelimit.py:83-105, runner.py:11).
THEOREM BudgetIsKept == Spec => []WithinBudget
<1>1. Spec => []BudgetInv
  BY InitBudget, StepBudget, Typed, PTL DEF Spec
<1> QED BY <1>1, PTL DEF BudgetInv

-----------------------------------------------------------------------------
(***************************************************************************)
(* One sleep.  What a sleeper was told to wait for is made up of its rest, *)
(* of the time since the last refill and of what is in the bucket; another *)
(* thread's refill only moves the second part into the third.              *)
(***************************************************************************)
Promised(t) ==
  /\ at[t] # "sleep" => rest[t] = 0
  /\ sure[t] =>
       /\ at[t] \in {"sleep", "enter", "refill"} => rest[t] + elapsed + tokens >= Cost
       /\ at[t] \in {"decide", "take"} => tokens >= Cost
SleepInv == \A t \in Threads : Promised(t)

LEMMA InitSleep == Init => SleepInv
BY DEF Init, SleepInv, Promised

LEMMA StepSleep == TypedInv /\ SleepInv /\ [Next]_vars => SleepInv'
<1> SUFFICES ASSUME TypedInv, SleepInv, [Next]_vars, NEW u \in Threads PROVE Promised(u)'
  BY DEF SleepInv
<1>0. /\ tokens \in Nat /\ elapsed \in Nat /\ tokens <= Cap /\ elapsed <= Cap
      /\ rest[u] \in Nat
      /\ at \in [Threads -> {"idle", "enter", "refill", "decide", "take", "sleep"}]
      /\ rest \in [Threads -> 0..Cost] /\ sure \in [Threads -> BOOLEAN]
  BY CapBounds DEF TypedInv, TypeOK
<1> USE <1>0, CapBounds DEF Promised, SleepInv
<1>1. CASE Tick
  <2>1. /\ elapsed' = IF elapsed + 1 > Cap THEN Cap ELSE elapsed + 1
        /\ rest'[u] = IF rest[u] = 0 THEN 0 ELSE rest[u] - 1
        /\ UNCHANGED <<tokens, at, sure>>
    BY <1>1 DEF Tick, Capped
  <2>2. at[u] # "sleep" => rest'[u] = 0
    BY <2>1
  <2>3. rest[u] + elapsed + tokens >= Cost => rest'[u] + elapsed' + tokens >= Cost
    BY <2>1
  <2> QED BY <2>1, <2>2, <2>3
<1>2. CASE Open
  BY <1>2 DEF Open
<1>3. ASSUME NEW t \in Threads, Ask(t) PROVE Promised(u)'
  BY <1>3 DEF Ask, Step
<1>4. ASSUME NEW t \in Threads, Lock(t) PROVE Promised(u)'
  BY <1>4 DEF Lock, Step
<1>5. ASSUME NEW t \in Threads, Refill(t) PROVE Promised(u)'
  <2>1. lock = t /\ (u # t => at[u] \notin {"decide", "take"})
    BY <1>5 DEF Refill, Step, TypedInv, LockInv, Held
  <2> QED BY <1>5, <2>1 DEF Refill, Step, Capped
<1>6. ASSUME NEW t \in Threads, Grant(t) PROVE Promised(u)'
  BY <1>6 DEF Grant, Step
<1>7. ASSUME NEW t \in Threads, Take(t) PROVE Promised(u)'
  BY <1>7 DEF Take, Step
<1>8. ASSUME NEW t \in Threads, Sleep(t) PROVE Promised(u)'
  BY <1>8 DEF Sleep, Step
<1>9. ASSUME NEW t \in Threads, Wake(t) PROVE Promised(u)'
  BY <1>9 DEF Wake, Step
<1>10. CASE UNCHANGED vars
  BY <1>10 DEF vars
<1> QED BY <1>1, <1>2, <1>3, <1>4, <1>5, <1>6, <1>7, <1>8, <1>9, <1>10 DEF Next, Acquire

\* Whatever other threads do meanwhile short of taking a token, a thread that slept as
\* long as it was told finds its token (ratelimit.py:97-105).
THEOREM SleepSuffices == Spec => []OneSleepIsEnough
<1>1. Spec => []SleepInv
  BY InitSleep, StepSleep, Typed, PTL DEF Spec
<1>2. SleepInv => OneSleepIsEnough
  BY DEF SleepInv, Promised, OneSleepIsEnough
<1> QED BY <1>1, <1>2, PTL

=============================================================================
