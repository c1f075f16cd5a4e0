-------------------------- MODULE GenerationProofs --------------------------
(***************************************************************************)
(* The cooldown and the retries of synthesis.py, for any number of         *)
(* workers, any delays and any number of retries.                          *)
(***************************************************************************)
EXTENDS Generation, TLAPS

LEMMA InitTyped == GenerationInit => GenerationTypeOK
BY RetriesAssumption DEF GenerationInit, GenerationTypeOK

LEMMA StepTyped == GenerationTypeOK /\ [GenerationNext]_gvars => GenerationTypeOK'
<1> SUFFICES ASSUME GenerationTypeOK, [GenerationNext]_gvars PROVE GenerationTypeOK'
  OBVIOUS
<1> USE RetriesAssumption, DelaysAssumption DEF GenerationTypeOK
<1>1. CASE GenerationTick
  BY <1>1 DEF GenerationTick, Earlier
<1>2. ASSUME NEW w \in Workers, Begin(w) PROVE GenerationTypeOK'
  BY <1>2 DEF Begin, Goes
<1>3. ASSUME NEW w \in Workers, Proceed(w) \/ SleepItOut(w) \/ WakeUp(w) PROVE GenerationTypeOK'
  BY <1>3 DEF Proceed, SleepItOut, WakeUp, Goes
<1>4. ASSUME NEW w \in Workers, Send(w) PROVE GenerationTypeOK'
  BY <1>4 DEF Send, Goes
<1>5. ASSUME NEW w \in Workers, Finish(w) \/ GiveUp(w) PROVE GenerationTypeOK'
  BY <1>5 DEF Finish, GiveUp, End, Goes
<1>6. ASSUME NEW w \in Workers, Retry(w) PROVE GenerationTypeOK'
  <2>1. attempt' \in [Workers -> 0..MaxRetries]
    BY <1>6 DEF Retry, MayRetry
  <2>2. cool' \in Nat /\ due' \in [Workers -> Nat]
    BY <1>6 DEF Retry, Asked, Deferred, Later
  <2> QED BY <1>6, <2>1, <2>2 DEF Retry, Goes
<1>7. CASE UNCHANGED gvars
  BY <1>7 DEF gvars
<1> QED BY <1>1, <1>2, <1>3, <1>4, <1>5, <1>6, <1>7 DEF GenerationNext, Generate

LEMMA Typed == GenerationSpec => []GenerationTypeOK
BY InitTyped, StepTyped, PTL DEF GenerationSpec

\* For any workers, delays and retries: every variable keeps its type.
THEOREM GenerationTypes == GenerationSpec => []GenerationTypeOK
BY Typed

-----------------------------------------------------------------------------
(***************************************************************************)
(* What was asked of a worker is never more than what the cooldown still   *)
(* is: both run down together and a new delay raises both.                 *)
(***************************************************************************)
PauseInv ==
  /\ PausesAreKept
  /\ \A w \in Workers : due[w] <= cool

LEMMA InitPause == GenerationInit => PauseInv
BY DEF GenerationInit, PauseInv, PausesAreKept

LEMMA StepPause == GenerationTypeOK /\ PauseInv /\ [GenerationNext]_gvars => PauseInv'
<1> SUFFICES ASSUME GenerationTypeOK, PauseInv, [GenerationNext]_gvars PROVE PauseInv'
  OBVIOUS
<1>0. cool \in Nat /\ \A w \in Workers : due[w] \in Nat /\ due[w] <= cool
  BY DEF GenerationTypeOK, PauseInv
<1>1. CASE GenerationTick
  BY <1>0, <1>1 DEF GenerationTick, Earlier, PauseInv, PausesAreKept
<1>2. ASSUME NEW w \in Workers, Proceed(w) PROVE PauseInv'
  BY <1>0, <1>2 DEF Proceed, Goes, GenerationTypeOK, PauseInv, PausesAreKept
<1>3. ASSUME NEW w \in Workers, Begin(w) \/ SleepItOut(w) \/ WakeUp(w) \/ Send(w) \/ Finish(w) \/ GiveUp(w)
      PROVE PauseInv'
  BY <1>0, <1>3 DEF Begin, SleepItOut, WakeUp, Send, Finish, GiveUp, End, Goes, GenerationTypeOK, PauseInv, PausesAreKept
<1>4. ASSUME NEW w \in Workers, Retry(w) PROVE PauseInv'
  <2>1. PICK d \in Delays : cool' = Deferred(d) /\ Asked(d)
    BY <1>4 DEF Retry
  <2>2. d \in Nat
    BY DelaysAssumption
  <2>3. \A u \in Workers : due'[u] = (IF place[u] = "send" THEN due[u] ELSE Later(due[u], d))
    BY <2>1 DEF Asked
  <2>4. \A u \in Workers : due'[u] <= cool'
    BY <1>0, <2>1, <2>2, <2>3 DEF Deferred, Later
  <2>5. \A u \in Workers : place'[u] = "send" => place[u] = "send"
    BY <1>4 DEF Retry, Goes, GenerationTypeOK
  <2>6. PausesAreKept'
    BY <2>3, <2>5 DEF PauseInv, PausesAreKept
  <2> QED BY <2>4, <2>6 DEF PauseInv
<1>5. CASE UNCHANGED gvars
  BY <1>5 DEF gvars, PauseInv, PausesAreKept
<1> QED BY <1>1, <1>2, <1>3, <1>4, <1>5 DEF GenerationNext, Generate

\* For any workers, delays and retries: a worker decides to send only when every delay
\* asked of any worker has passed.
THEOREM CooldownHolds == GenerationSpec => []PausesAreKept
<1>1. PauseInv => PausesAreKept
  BY DEF PauseInv
<1> QED BY <1>1, InitPause, StepPause, Typed, PTL DEF GenerationSpec

-----------------------------------------------------------------------------
(***************************************************************************)
(* The requests of a call and its variable attempt count the same thing.   *)
(***************************************************************************)
AttemptInv ==
  /\ AttemptsAreUsed
  /\ \A w \in Workers :
       /\ place[w] \in {"wait", "sleep", "send"} => sent[w] = attempt[w]
       /\ place[w] = "sent" => sent[w] = attempt[w] + 1

LEMMA InitAttempt == GenerationInit => AttemptInv
BY RetriesAssumption DEF GenerationInit, AttemptInv, AttemptsAreUsed

LEMMA StepAttempt == GenerationTypeOK /\ AttemptInv /\ [GenerationNext]_gvars => AttemptInv'
<1> SUFFICES ASSUME GenerationTypeOK, AttemptInv, [GenerationNext]_gvars PROVE AttemptInv'
  OBVIOUS
<1> USE RetriesAssumption DEF GenerationTypeOK, AttemptInv, AttemptsAreUsed
<1>1. CASE GenerationTick \/ UNCHANGED gvars
  BY <1>1 DEF GenerationTick, gvars
<1>2. ASSUME NEW w \in Workers, Begin(w) PROVE AttemptInv'
  BY <1>2 DEF Begin, Goes
<1>3. ASSUME NEW w \in Workers, Proceed(w) \/ SleepItOut(w) \/ WakeUp(w) PROVE AttemptInv'
  BY <1>3 DEF Proceed, SleepItOut, WakeUp, Goes
<1>4. ASSUME NEW w \in Workers, Send(w) PROVE AttemptInv'
  BY <1>4 DEF Send, Goes
<1>5. ASSUME NEW w \in Workers, Finish(w) \/ GiveUp(w) PROVE AttemptInv'
  BY <1>5 DEF Finish, GiveUp, MayRetry, End, Goes
<1>6. ASSUME NEW w \in Workers, Retry(w) PROVE AttemptInv'
  BY <1>6 DEF Retry, MayRetry, Goes
<1> QED BY <1>1, <1>2, <1>3, <1>4, <1>5, <1>6 DEF GenerationNext, Generate

\* For any number of retries: a call sends at most one request more, and gives up on an
\* unavailable provider only after that.
THEOREM NoAttemptIsLost == GenerationSpec => []AttemptsAreUsed
<1>1. AttemptInv => AttemptsAreUsed
  BY DEF AttemptInv
<1> QED BY <1>1, InitAttempt, StepAttempt, Typed, PTL DEF GenerationSpec

=============================================================================
