------------------------------- MODULE MCWaiting -------------------------------
(***************************************************************************)
(* The two places where threads wait for time to pass: the token bucket in *)
(* front of System One and the cooldown in front of the synthesis          *)
(* provider.  They share nothing; one run checks both, `part` says which   *)
(* moves.                                                                  *)
(***************************************************************************)
EXTENDS RateLimiter, Generation

VARIABLES part

all == <<part, vars, gvars>>

MCInit == part \in {"bucket", "cooldown"} /\ Init /\ GenerationInit

MCNext ==
  \/ part = "bucket" /\ Next /\ UNCHANGED <<part, gvars>>
  \/ part = "cooldown" /\ GenerationNext /\ UNCHANGED <<part, vars>>

Bucket(A) == part = "bucket" /\ A /\ UNCHANGED <<part, gvars>>
Cooldown(A) == part = "cooldown" /\ A /\ UNCHANGED <<part, vars>>

\* What is fair of each is fair of the part that moves.
MCFairness ==
  /\ WF_all(Bucket(Tick)) /\ \A t \in Threads : WF_all(Bucket(Acquire(t)))
  /\ WF_all(Cooldown(GenerationTick)) /\ \A w \in Workers : WF_all(Cooldown(Generate(w)))

MCSpec == MCInit /\ [][MCNext]_all /\ MCFairness
=============================================================================
