-------------------------- MODULE MCServerLifecycle --------------------------
(***************************************************************************)
(* A process with a few connections, which are symmetric.                  *)
(***************************************************************************)
EXTENDS ServerLifecycle, TLC

Symmetry == Permutations(Conns)
=============================================================================
