--------------------------- MODULE IdentityDomain ---------------------------
(***************************************************************************)
(* The rules of the identity domain that need no database: which account   *)
(* status allows what, when a mute has run out, what a recovered row looks *)
(* like, which audit entry each status change owes, and when a session is  *)
(* usable.  Everything here is a constant-level operator on one row.       *)
(*                                                                         *)
(* A row keeps the columns the rules read.  deleted_at is NULL exactly for *)
(* the rows whose status is not "deleted" (a CHECK of the migration), so   *)
(* the status stands for both columns.  Times are whole seconds, which is  *)
(* what domain.NormalizeTime leaves of them.                               *)
(***************************************************************************)
EXTENDS Integers, Sequences

CONSTANT NULL      \* the SQL NULL: not a time, not an account, not a row

ASSUME NullAssumption == NULL \notin Int

Statuses == {"pending", "active", "muted", "frozen", "banned", "deleted"}

(***************************************************************************)
(* A row of the table users: status, muted_until and updated_at.           *)
(***************************************************************************)
UserRow == [status : Statuses, mutedUntil : Nat \cup {NULL}, updatedAt : Nat]

CanLogin(status) == status \in {"pending", "active", "muted", "frozen"}

CanEditProfile(status) == status \in {"pending", "active", "muted"}

CanDeleteAccount(status) == status \in {"pending", "active", "muted"}

AdministrativeStatuses == {"active", "muted", "frozen", "banned"}

ValidAdministrativeTransition(old, new) ==
  old \in {"pending", "banned"} => new \in {"active", old}

(***************************************************************************)
(* The CHECK of the table users that ties the end of a mute to the status. *)
(* Of its others, the one on deleted_at is the status itself (see above),  *)
(* and those that compare updated_at and deleted_at with created_at say no *)
(* more than that updated_at does not go back: created_at is not written   *)
(* after the INSERT, which stamps both, and a deletion stamps deleted_at   *)
(* with the time of its updated_at.                                        *)
(***************************************************************************)
MuteCheck(row) == (row.status = "muted") <=> (row.mutedUntil # NULL)

-----------------------------------------------------------------------------
(***************************************************************************)
(* Mute recovery.  The conditional UPDATE of RecoverExpiredMute matches    *)
(* exactly the rows that MuteExpired holds of.                             *)
(***************************************************************************)
MuteExpired(row, t) ==
  /\ row.status = "muted"
  /\ row.mutedUntil # NULL
  /\ row.mutedUntil <= t

Recovered(row, t) ==
  IF MuteExpired(row, t)
    THEN [status |-> "active", mutedUntil |-> NULL, updatedAt |-> t]
    ELSE row

AuditEntry ==
  [action    : {"mute_expired", "status_changed"},
   actor     : Nat \cup {NULL},
   oldStatus : Statuses, oldUntil : Nat \cup {NULL},
   newStatus : Statuses, newUntil : Nat \cup {NULL},
   at        : Nat]

(***************************************************************************)
(* The audit entry that a change from row old to row new owes; the system  *)
(* itself (actor NULL) is the actor of a recovery.                         *)
(***************************************************************************)
Audit(action, actor, old, new, t) ==
  [action    |-> action, actor |-> actor,
   oldStatus |-> old.status, oldUntil |-> old.mutedUntil,
   newStatus |-> new.status, newUntil |-> new.mutedUntil,
   at        |-> t]

RecoveryAudit(row, t) ==
  IF MuteExpired(row, t)
    THEN << Audit("mute_expired", NULL, row, Recovered(row, t), t) >>
    ELSE << >>

-----------------------------------------------------------------------------
(***************************************************************************)
(* Sessions.  Live: the WHERE revoked_at IS NULL of every query; usable:   *)
(* the session authenticates its owner at time t.                          *)
(***************************************************************************)
Live(session) == session # NULL /\ session.revokedAt = NULL

Usable(session, owner, t) ==
  /\ Live(session)
  /\ session.owner = owner
  /\ session.expiresAt > t

NewSession(owner, token, t, ttl) ==
  [owner     |-> owner, token |-> token,
   createdAt |-> t, expiresAt |-> t + ttl, revokedAt |-> NULL]

(***************************************************************************)
(* The CHECK constraints of the table user_sessions.                       *)
(***************************************************************************)
SessionRowChecks(session) ==
  /\ session.expiresAt > session.createdAt
  /\ session.revokedAt # NULL => session.revokedAt >= session.createdAt
=============================================================================
