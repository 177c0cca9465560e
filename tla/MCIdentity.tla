------------------------------ MODULE MCIdentity ------------------------------
(***************************************************************************)
(* Small instances of the identity service for TLC: requests are symmetric *)
(* and each seed session is session i, owned by account SeedOwner[i].      *)
(***************************************************************************)
EXTENDS IdentityProperties, IdentityRefinement, TLC

Symmetry == Permutations(Requests)

\* One session for account 1 and one for account 2.
OneSessionEach == <<1, 2>>

\* The statuses accounts start in; account 1 is the administrator.
AnyStanding == [u \in Users |-> IF u = 1 THEN {"active", "muted"} ELSE Statuses]

OpenOrBanned == [u \in Users |-> IF u = 1 THEN {"active"} ELSE {"active", "banned"}]

PendingOrMuted == [u \in Users |-> IF u = 1 THEN {"active"} ELSE {"pending", "muted"}]

AllMutable == [u \in Users |-> {"active", "muted"}]

AllActive == [u \in Users |-> {"active"}]
=============================================================================
