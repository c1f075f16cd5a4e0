------------------------ MODULE MCCachedOperations ------------------------
(* A small instance: two workers, three items, two first requests and one repair. *)
EXTENDS CachedOperations, TLC

CONSTANTS k1, k2, r1

MCRepair == (k1 :> r1) @@ (k2 :> NoKey) @@ (r1 :> NoKey)

=============================================================================
