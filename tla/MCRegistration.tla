--------------------------- MODULE MCRegistration ---------------------------
(***************************************************************************)
(* Two addresses, one of them with two spellings, and a spelling that is   *)
(* no address.                                                             *)
(***************************************************************************)
EXTENDS Registration

SomeSpellings == {"ann@x", " Ann@X", "bob@x", "ann"}

SomeCanonical == [s \in SomeSpellings |-> IF s = " Ann@X" THEN "ann@x" ELSE s]

SomeValid == SomeSpellings \ {"ann"}
=============================================================================
