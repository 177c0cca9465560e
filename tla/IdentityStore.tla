--------------------------- MODULE IdentityStore ---------------------------
(***************************************************************************)
(* The PostgreSQL side of the identity service, as the repository uses it: *)
(* three tables, the row locks of SELECT ... FOR UPDATE, and a transaction *)
(* that keeps its writes to itself until it commits.                       *)
(*                                                                         *)
(* A transaction is named after the request that runs it: WithinTx is      *)
(* never nested, so a request holds at most one.  Under READ COMMITTED a   *)
(* locking SELECT that waited returns the newest committed version of the  *)
(* row, and no other transaction can change a row while it is locked; the  *)
(* reads that follow a lock therefore read the committed table.            *)
(***************************************************************************)
EXTENDS IdentityDomain, FiniteSets

CONSTANTS
  Users,         \* ids of the registered accounts
  Admins,        \* the accounts whose role is admin (no code changes a role)
  Requests,      \* the requests of one run, each served by its own goroutine
  MaxSessions,   \* session ids are 1 .. MaxSessions (BIGSERIAL)
  SeedSecret     \* the refresh secret of the sessions that exist at the start

ASSUME UsersAssumption == Users \subseteq Nat /\ Admins \subseteq Users
ASSUME AccountsAssumption == IsFiniteSet(Users)   \* the rows of a table
ASSUME RequestsAssumption == NULL \notin Requests /\ SeedSecret \notin Requests
ASSUME MaxSessionsAssumption == MaxSessions \in Nat

VARIABLES
  clock,         \* the wall clock, in seconds
  users,         \* table users: the committed row of every account
  sessions,      \* table user_sessions: a row, or NULL before the INSERT
  audits,        \* table audit_logs, by target account, in insertion order
  sessionSeq,    \* the sequence behind user_sessions.id (never rolled back)
  userLock,      \* which transaction holds the row lock of an account
  sessionLock    \* which transaction holds the row lock of a session

tables == <<users, sessions, audits>>
locks == <<userLock, sessionLock>>

SessionIds == 1 .. MaxSessions

(***************************************************************************)
(* A refresh secret is 32 random bytes; it is named after the request that *)
(* drew it, since a request draws at most one.                             *)
(***************************************************************************)
Secrets == Requests \cup {SeedSecret}

SessionRow ==
  [owner : Users, token : Secrets, createdAt : Nat, expiresAt : Nat,
   revokedAt : Nat \cup {NULL}]

ASSUME NullRowAssumption == NULL \notin SessionRow /\ NULL \notin UserRow

StoreTypeOK ==
  /\ clock \in Nat
  /\ users \in [Users -> UserRow]
  /\ sessions \in [SessionIds -> SessionRow \cup {NULL}]
  /\ audits \in [Users -> Seq(AuditEntry)]
  /\ sessionSeq \in 0 .. MaxSessions
  /\ userLock \in [Users -> Requests \cup {NULL}]
  /\ sessionLock \in [SessionIds -> Requests \cup {NULL}]

-----------------------------------------------------------------------------
(***************************************************************************)
(* Row locks.                                                              *)
(***************************************************************************)
HeldUsers(r) == {u \in Users : userLock[u] = r}

TakeUserLock(r, u) ==
  /\ userLock[u] = NULL
  /\ userLock' = [userLock EXCEPT ![u] = r]

TakeSessionLock(r, s) ==
  /\ sessionLock[s] = NULL
  /\ sessionLock' = [sessionLock EXCEPT ![s] = r]

ReleaseLocks(r) ==
  /\ userLock' = [u \in Users |-> IF userLock[u] = r THEN NULL ELSE userLock[u]]
  /\ sessionLock' =
       [s \in SessionIds |-> IF sessionLock[s] = r THEN NULL ELSE sessionLock[s]]

-----------------------------------------------------------------------------
(***************************************************************************)
(* The write set of a transaction: new versions of some account rows, new  *)
(* versions of some session rows, and audit entries to append, by target.  *)
(* Only the commit makes them visible.                                     *)
(***************************************************************************)
MapsInto(f, S, T) == DOMAIN f \subseteq S /\ \A k \in DOMAIN f : f[k] \in T

WriteSetOK(w) ==
  /\ MapsInto(w.users, Users, UserRow)
  /\ MapsInto(w.sessions, SessionIds, SessionRow)
  /\ MapsInto(w.audits, Users, Seq(AuditEntry))

NoRows == [k \in {} |-> NULL]

NoWrites == [users |-> NoRows, sessions |-> NoRows, audits |-> NoRows]

UserAfter(w, u) == IF u \in DOMAIN w.users THEN w.users[u] ELSE users[u]

SessionAfter(w, s) == IF s \in DOMAIN w.sessions THEN w.sessions[s] ELSE sessions[s]

AuditsAfter(w, u) == IF u \in DOMAIN w.audits THEN audits[u] \o w.audits[u] ELSE audits[u]

ApplyWrites(w) ==
  /\ users' = [u \in Users |-> UserAfter(w, u)]
  /\ sessions' = [s \in SessionIds |-> SessionAfter(w, s)]
  /\ audits' = [u \in Users |-> AuditsAfter(w, u)]
=============================================================================
