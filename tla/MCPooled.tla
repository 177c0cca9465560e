------------------------------- MODULE MCPooled -------------------------------
(***************************************************************************)
(* Small instances of the identity service over a small pool.              *)
(***************************************************************************)
EXTENDS PooledService, TLC

Symmetry == Permutations(Requests)

OneSessionEach == <<1, 2>>

\* One session, of the administrator.
OneSession == <<1>>

AllActive == [u \in Users |-> {"active"}]

AllMutable == [u \in Users |-> {"active", "muted"}]
=============================================================================
