--------------------------- MODULE MCAccessTokens ---------------------------
(***************************************************************************)
(* Two instances, half-second ticks, a leeway of one second.               *)
(***************************************************************************)
EXTENDS AccessTokens, TLC

\* Two clocks exactly a leeway apart, and two further apart.
AtTheLeeway == {-3, -1}

BeyondTheLeeway == {-3, 0}

RequestSymmetry == Permutations(Requests)

Symmetry == RequestSymmetry \cup Permutations(Servers)
=============================================================================
