----------------------------- MODULE MCReadiness -----------------------------
(***************************************************************************)
(* PostgreSQL has the longer timeout, as in the default settings; the      *)
(* Redis client outlives its context for longer.                           *)
(***************************************************************************)
EXTENDS Readiness, TLC

DefaultTimeouts == [d \in Dependencies |-> IF d = "postgres" THEN 3 ELSE 2]

DriverGraces == [d \in Dependencies |-> IF d = "postgres" THEN 1 ELSE 3]

Symmetry == Permutations(Probes)
=============================================================================
