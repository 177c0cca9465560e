------------------------- MODULE IdentityRefinement -------------------------
(***************************************************************************)
(* The concurrent identity service implements the atomic account policy:   *)
(* hiding requests, locks and pending writes, every commit is one step of  *)
(* AccountPolicy, decided on the tables as that commit finds them.  What a *)
(* callback decided under its locks has thus not become stale by the time  *)
(* its writes appear.                                                      *)
(***************************************************************************)
EXTENDS IdentityService

Policy == INSTANCE AccountPolicy WITH MuteEnds <- 1 .. MaxTime

ImplementsPolicy == Policy!Spec
=============================================================================
