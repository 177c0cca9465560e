--------------------------- MODULE IdentityService ---------------------------
(***************************************************************************)
(* The identity service: every operation of internal/identity/service that *)
(* reads or writes accounts and sessions, run by concurrent requests over  *)
(* IdentityStore.                                                          *)
(*                                                                         *)
(* A request goes through                                                  *)
(*                                                                         *)
(*   new --> (read without locks) --> users --> select --> sessions        *)
(*       --> body --> commit --> done                                      *)
(*                                                                         *)
(* "users" locks account rows one by one in ascending order, "select"      *)
(* fixes the candidate rows of LockSessions, "sessions" locks them one by  *)
(* one in ascending order, "body" runs the callback of WithinTx under      *)
(* those locks, and "commit" has a complete write set that is not yet      *)
(* visible.  Operations skip the stages they do not have.  From every      *)
(* stage a request may be cut off: the client goes away, a statement       *)
(* fails, the process dies; its transaction is then rolled back.           *)
(*                                                                         *)
(* Every refusal a client can be told apart by its code is one answer,     *)
(* "refused"; every internal error is "internal".                          *)
(***************************************************************************)
EXTENDS IdentityStore

CONSTANTS
  RefreshTTL,    \* life of a session, in seconds
  MaxTime,       \* bound: the clock stops here
  SeedOwner,     \* the owner of each session that exists at the start
  SeedStatus,    \* the statuses each account may start in
  Ops,           \* bound: the operations requests ask for in this run
  Orders,        \* bound: the statuses administrators ask for in this run
  MayFail        \* whether requests may be cut off in this run

ASSUME TTLAssumption == RefreshTTL \in Nat \ {0}
ASSUME TimeAssumption == MaxTime \in Nat
ASSUME SeedAssumption ==
  /\ SeedOwner \in Seq(Users) /\ Len(SeedOwner) <= MaxSessions
  /\ SeedStatus \in [Users -> SUBSET Statuses]
ASSUME MayFailAssumption == MayFail \in BOOLEAN

Operations == {"login", "refresh", "logout", "me", "public", "update",
               "delete", "status"}

ASSUME NoOperationAssumption == NULL \notin Operations
ASSUME NoAnswerAssumption == NULL \notin {"ok", "refused", "internal"}
ASSUME BoundsAssumption == Ops \subseteq Operations /\ Orders \subseteq AdministrativeStatuses

VARIABLES
  pc,        \* the stage of each request
  req,       \* its input
  seen,      \* the account row it read without a lock
  seenAt,    \* the time it sampled before it had any lock
  want,      \* candidate session rows it still has to lock
  rows,      \* session rows its locking SELECT has returned
  ws,        \* the writes its transaction has made
  answer,    \* what it will answer once the transaction has committed
  reply      \* what it has answered

working == <<seen, seenAt, want, rows, ws, answer>>
vars == <<clock, tables, sessionSeq, locks, pc, req, working, reply>>

Stages == {"new", "check", "users", "select", "sessions", "body", "commit",
           "revoke", "done"}

(***************************************************************************)
(* The input of a request.  user is the account it acts as (or asks for),  *)
(* session the session it presents; the last four fields are the refresh   *)
(* secret and the arguments of ChangeUserStatus.  A target of NULL is an   *)
(* id that names no account.                                               *)
(***************************************************************************)
Request ==
  [op : Operations \cup {NULL}, user : Users \cup {NULL},
   session : SessionIds \cup {NULL}, secret : Secrets \cup {NULL},
   target : Users \cup {NULL}, status : AdministrativeStatuses \cup {NULL},
   until : Nat \cup {NULL}]

Input(op, u, s) ==
  [op |-> op, user |-> u, session |-> s, secret |-> NULL, target |-> NULL,
   status |-> NULL, until |-> NULL]

NoInput == Input(NULL, NULL, NULL)

TypeOK ==
  /\ StoreTypeOK
  /\ pc \in [Requests -> Stages]
  /\ req \in [Requests -> Request]
  /\ seen \in [Requests -> UserRow \cup {NULL}]
  /\ seenAt \in [Requests -> Nat \cup {NULL}]
  /\ want \in [Requests -> SUBSET SessionIds]
  /\ rows \in [Requests -> SUBSET SessionIds]
  /\ DOMAIN ws = Requests /\ \A r \in Requests : WriteSetOK(ws[r])
  /\ answer \in [Requests -> {NULL, "ok", "refused"}]
  /\ reply \in [Requests -> {NULL, "ok", "refused", "internal"}]

(***************************************************************************)
(* At the start there are accounts in any of their seed statuses, and the  *)
(* sessions SeedOwner lists: live, unless the owner is banned or deleted.  *)
(***************************************************************************)
Init ==
  /\ clock = 0
  /\ users \in [Users -> [status : Statuses, mutedUntil : 1 .. MaxTime \cup {NULL},
                          updatedAt : {0}]]
  /\ \A u \in Users : users[u].status \in SeedStatus[u] /\ MuteCheck(users[u])
  /\ sessions = [s \in SessionIds |->
       IF s \in DOMAIN SeedOwner
         THEN [NewSession(SeedOwner[s], SeedSecret, 0, RefreshTTL)
                 EXCEPT !.revokedAt =
                   IF CanLogin(users[SeedOwner[s]].status) THEN NULL ELSE 0]
         ELSE NULL]
  /\ audits = [u \in Users |-> << >>]
  /\ sessionSeq = Len(SeedOwner)
  /\ userLock = [u \in Users |-> NULL]
  /\ sessionLock = [s \in SessionIds |-> NULL]
  /\ pc = [r \in Requests |-> "new"]
  /\ req = [r \in Requests |-> NoInput]
  /\ seen = [r \in Requests |-> NULL]
  /\ seenAt = [r \in Requests |-> NULL]
  /\ want = [r \in Requests |-> {}]
  /\ rows = [r \in Requests |-> {}]
  /\ ws = [r \in Requests |-> NoWrites]
  /\ answer = [r \in Requests |-> NULL]
  /\ reply = [r \in Requests |-> NULL]

-----------------------------------------------------------------------------
(***************************************************************************)
(* Common steps of a request.                                              *)
(***************************************************************************)
Goto(r, stage) == pc' = [pc EXCEPT ![r] = stage]

(***************************************************************************)
(* The request answers.  An open transaction ends here, by its commit or   *)
(* by the rollback of WithinTx, and either releases its row locks.         *)
(***************************************************************************)
Finish(r, result) ==
  /\ Goto(r, "done")
  /\ reply' = [reply EXCEPT ![r] = result]
  /\ ReleaseLocks(r)
  /\ seen' = [seen EXCEPT ![r] = NULL]
  /\ seenAt' = [seenAt EXCEPT ![r] = NULL]
  /\ want' = [want EXCEPT ![r] = {}]
  /\ rows' = [rows EXCEPT ![r] = {}]
  /\ ws' = [ws EXCEPT ![r] = NoWrites]
  /\ answer' = [answer EXCEPT ![r] = NULL]

(***************************************************************************)
(* The callback of WithinTx returns nil: its writes wait for the commit.   *)
(***************************************************************************)
Prepare(r, writes, result) ==
  /\ Goto(r, "commit")
  /\ ws' = [ws EXCEPT ![r] = writes]
  /\ answer' = [answer EXCEPT ![r] = result]
  /\ UNCHANGED <<locks, seen, seenAt, want, rows, reply>>

(***************************************************************************)
(* The accounts a transaction locks, and the sessions it selects.          *)
(***************************************************************************)
LockedAccounts(r) ==
  IF req[r].op = "status" THEN {req[r].user, req[r].target} \ {NULL}
                          ELSE {req[r].user} \ {NULL}

\* A ban that is not a no-op also locks the live sessions of its target.
Banning(r) ==
  /\ req[r].op = "status"
  /\ req[r].status = "banned"
  /\ req[r].target \in Users =>
       ~ (/\ users[req[r].target].status = "banned"
          /\ users[req[r].target].mutedUntil = NULL)

SelectedById(r) == IF req[r].op = "delete" THEN {} ELSE {req[r].session}

SelectedByOwner(r) ==
  IF req[r].op = "delete" THEN {req[r].user}
  ELSE IF Banning(r) THEN {req[r].target} ELSE {}

\* The WHERE clause of LockSessions, on the committed version of the row.
Selected(r, s) ==
  /\ sessions[s] # NULL
  /\ \/ s \in SelectedById(r)
     \/ sessions[s].owner \in SelectedByOwner(r) /\ sessions[s].revokedAt = NULL

-----------------------------------------------------------------------------
(***************************************************************************)
(* Requests arrive.  Each of these actions runs the operation up to its    *)
(* first wait, its unlocked read included.                                 *)
(***************************************************************************)
Arrive(r, input) ==
  /\ pc[r] = "new"
  /\ input.op \in Ops
  /\ req' = [req EXCEPT ![r] = input]
  /\ UNCHANGED <<clock, tables, sessionSeq>>

\* FindLoginCredential and the password comparison; a wrong password is refused.
StartLogin(r, u) ==
  /\ Arrive(r, Input("login", u, NULL))
  /\ \/ /\ CanLogin(users[u].status)
        /\ Goto(r, "users")
        /\ UNCHANGED <<locks, working, reply>>
     \/ Finish(r, "refused")

\* FindSessionOwner: the secret is not looked at before the rows are locked.
StartRefresh(r, s, secret) ==
  \/ /\ sessions[s] # NULL
     /\ Arrive(r, [Input("refresh", sessions[s].owner, s) EXCEPT !.secret = secret])
     /\ Goto(r, "users")
     /\ UNCHANGED <<locks, working, reply>>
  \/ /\ sessions[s] = NULL
     /\ Arrive(r, [Input("refresh", NULL, s) EXCEPT !.secret = secret])
     /\ Finish(r, "refused")

\* Logout samples the time, then issues one conditional UPDATE.
StartLogout(r, u, s) ==
  /\ Arrive(r, Input("logout", u, s))
  /\ seenAt' = [seenAt EXCEPT ![r] = clock]
  /\ Goto(r, "revoke")
  /\ UNCHANGED <<locks, seen, want, rows, ws, answer, reply>>

\* FindAuthenticationState reads the session and its owner in one statement.
Authentic(u, s) ==
  Live(sessions[s]) /\ sessions[s].owner = u /\ CanLogin(users[u].status)

StartMe(r, u, s) ==
  /\ Arrive(r, Input("me", u, s))
  /\ \/ /\ Authentic(u, s)
        /\ seen' = [seen EXCEPT ![r] = users[u]]
        /\ Goto(r, "check")
        /\ UNCHANGED <<locks, seenAt, want, rows, ws, answer, reply>>
     \/ /\ ~ Authentic(u, s)
        /\ Finish(r, "refused")

StartPublicUser(r, u) ==
  /\ Arrive(r, Input("public", u, NULL))
  /\ seen' = [seen EXCEPT ![r] = users[u]]
  /\ Goto(r, "check")
  /\ UNCHANGED <<locks, seenAt, want, rows, ws, answer, reply>>

\* UpdateMe and DeleteMe read nothing before they lock the account.
StartProfileTx(r, op, u, s) ==
  /\ op \in {"update", "delete"}
  /\ Arrive(r, Input(op, u, s))
  /\ Goto(r, "users")
  /\ UNCHANGED <<locks, working, reply>>

StartChangeUserStatus(r, actor, s, target, status, until) ==
  /\ actor # target
  /\ (status = "muted") <=> (until # NULL)
  /\ Arrive(r, [Input("status", actor, s) EXCEPT
                  !.target = target, !.status = status, !.until = until])
  /\ Goto(r, "users")
  /\ UNCHANGED <<locks, working, reply>>

-----------------------------------------------------------------------------
(***************************************************************************)
(* The time is sampled after the unlocked read.  A mute that the row seen  *)
(* shows as expired is recovered in a transaction of its own, which keeps  *)
(* using the time sampled here.                                            *)
(***************************************************************************)
CheckSeen(r) ==
  /\ pc[r] = "check"
  /\ \/ /\ req[r].op = "me" /\ sessions[req[r].session].expiresAt <= clock
        /\ Finish(r, "refused")
     \/ /\ req[r].op = "me" => sessions[req[r].session].expiresAt > clock
        /\ ~ MuteExpired(seen[r], clock)
        /\ Finish(r, "ok")
     \/ /\ req[r].op = "me" => sessions[req[r].session].expiresAt > clock
        /\ MuteExpired(seen[r], clock)
        /\ seenAt' = [seenAt EXCEPT ![r] = clock]
        /\ Goto(r, "users")
        /\ UNCHANGED <<locks, seen, want, rows, ws, answer, reply>>
  /\ UNCHANGED <<clock, tables, sessionSeq, req>>

\* SELECT ... FROM users WHERE id IN (...) ORDER BY id FOR UPDATE, row by row.
UsersToLock(r) == LockedAccounts(r) \ HeldUsers(r)

\* Mutant of LockUser: the rows are locked in no particular order.
LockUserUnordered(r, u) ==
  /\ pc[r] = "users"
  /\ u \in UsersToLock(r)
  /\ TakeUserLock(r, u)
  /\ Goto(r, IF UsersToLock(r) # {u} THEN "users"
             ELSE IF req[r].op \in {"login", "me", "public"} THEN "body"
             ELSE "select")
  /\ UNCHANGED <<clock, tables, sessionSeq, sessionLock, req, working, reply>>

LockUser(r, u) ==
  /\ pc[r] = "users"
  /\ u \in UsersToLock(r)
  /\ \A v \in UsersToLock(r) : u <= v
  /\ TakeUserLock(r, u)
  /\ Goto(r, IF UsersToLock(r) # {u} THEN "users"
             ELSE IF req[r].op \in {"login", "me", "public"} THEN "body"
             ELSE "select")
  /\ UNCHANGED <<clock, tables, sessionSeq, sessionLock, req, working, reply>>

\* LockSessions begins: its snapshot decides which rows it will try to lock.
SelectSessions(r) ==
  /\ pc[r] = "select"
  /\ LET candidates == {s \in SessionIds : Selected(r, s)}
     IN /\ want' = [want EXCEPT ![r] = candidates]
        /\ Goto(r, IF candidates = {} THEN "body" ELSE "sessions")
  /\ UNCHANGED <<clock, tables, sessionSeq, locks, req, seen, seenAt, rows, ws,
                 answer, reply>>

\* A row that no longer matches once its lock is granted is not returned.
Returned(r, s) == Selected(r, s)

LockSession(r, s) ==
  /\ pc[r] = "sessions"
  /\ s \in want[r]
  /\ \A t \in want[r] : s <= t
  /\ TakeSessionLock(r, s)
  /\ want' = [want EXCEPT ![r] = @ \ {s}]
  /\ rows' = [rows EXCEPT ![r] = IF Returned(r, s) THEN @ \cup {s} ELSE @]
  /\ Goto(r, IF want[r] = {s} THEN "body" ELSE "sessions")
  /\ UNCHANGED <<clock, tables, sessionSeq, userLock, req, seen, seenAt, ws,
                 answer, reply>>

-----------------------------------------------------------------------------
(***************************************************************************)
(* The callbacks of WithinTx.  Each runs with its rows locked; a refusal   *)
(* rolls back, a success leaves a write set for the commit.  Whether r is  *)
(* admitted at time t, and what it then writes, depend on the tables only. *)
(***************************************************************************)
InBody(r, op) == pc[r] = "body" /\ req[r].op = op

Refuse(r) ==
  /\ Finish(r, "refused")
  /\ UNCHANGED sessionSeq

RecoverUser(u, t) == [k \in {u} |-> Recovered(users[u], t)]

RecoveryAudits(u, t) == [k \in {u} |-> RecoveryAudit(users[u], t)]

\* Login: the account read before the password check is checked again.
\* Its mutant trusts that read.
LoginAdmittedUnchecked(r) == TRUE

LoginAdmitted(r) == CanLogin(users[req[r].user].status)

LoginWrites(r, id, t) ==
  [users    |-> RecoverUser(req[r].user, t),
   sessions |-> [s \in {id} |-> NewSession(req[r].user, r, t, RefreshTTL)],
   audits   |-> RecoveryAudits(req[r].user, t)]

LoginTx(r) ==
  /\ InBody(r, "login")
  /\ \/ ~ LoginAdmitted(r) /\ Refuse(r)
     \/ /\ LoginAdmitted(r)
        /\ sessionSeq < MaxSessions
        /\ sessionSeq' = sessionSeq + 1
        /\ Prepare(r, LoginWrites(r, sessionSeq + 1, clock), "ok")
  /\ UNCHANGED <<clock, tables, req>>

\* Refresh: only the secret the session still stores is exchanged for a new one.
\* One mutant accepts any secret of the session, the other a revoked session.
RefreshAdmittedUnmatched(r, t) ==
  /\ req[r].session \in rows[r]
  /\ Usable(sessions[req[r].session], req[r].user, t)
  /\ CanLogin(users[req[r].user].status)

RefreshAdmittedRevoked(r, t) ==
  /\ req[r].session \in rows[r]
  /\ sessions[req[r].session].owner = req[r].user
  /\ sessions[req[r].session].expiresAt > t
  /\ sessions[req[r].session].token = req[r].secret
  /\ CanLogin(users[req[r].user].status)

RefreshAdmitted(r, t) ==
  /\ req[r].session \in rows[r]
  /\ Usable(sessions[req[r].session], req[r].user, t)
  /\ sessions[req[r].session].token = req[r].secret
  /\ CanLogin(users[req[r].user].status)

RefreshWrites(r, t) ==
  [users    |-> RecoverUser(req[r].user, t),
   sessions |-> [s \in {req[r].session} |-> [sessions[s] EXCEPT !.token = r]],
   audits   |-> RecoveryAudits(req[r].user, t)]

RefreshTx(r) ==
  /\ InBody(r, "refresh")
  /\ \/ ~ RefreshAdmitted(r, clock) /\ Refuse(r)
     \/ /\ RefreshAdmitted(r, clock)
        /\ Prepare(r, RefreshWrites(r, clock), "ok")
        /\ UNCHANGED sessionSeq
  /\ UNCHANGED <<clock, tables, req>>

\* Me and PublicUser recover an expired mute with the time they sampled.
\* The mutant decides on the row seen before the lock.
RecoverTxFromSeen(r) ==
  /\ \E op \in {"me", "public"} : InBody(r, op)
  /\ LET u == req[r].user IN
       Prepare(r,
         [users    |-> [k \in {u} |-> Recovered(seen[r], seenAt[r])],
          sessions |-> NoRows,
          audits   |-> [k \in {u} |-> RecoveryAudit(seen[r], seenAt[r])]],
         "ok")
  /\ UNCHANGED <<clock, tables, sessionSeq, req>>

RecoverWrites(r, t) ==
  [users    |-> RecoverUser(req[r].user, t),
   sessions |-> NoRows,
   audits   |-> RecoveryAudits(req[r].user, t)]

RecoverTx(r) ==
  /\ \E op \in {"me", "public"} : InBody(r, op)
  /\ Prepare(r, RecoverWrites(r, seenAt[r]),
       IF req[r].op = "me" /\ ~ CanLogin(users[req[r].user].status)
         THEN "refused" ELSE "ok")
  /\ UNCHANGED <<clock, tables, sessionSeq, req>>

\* UpdateMe writes the row only if a field differs from the stored one.
ProfileSessionValid(r, t) ==
  /\ req[r].session \in rows[r]
  /\ Usable(sessions[req[r].session], req[r].user, t)

UpdateAdmitted(r, t) ==
  ProfileSessionValid(r, t) /\ CanEditProfile(users[req[r].user].status)

EditedRow(row, changed, t) == IF changed THEN [row EXCEPT !.updatedAt = t] ELSE row

UpdateWrites(r, changed, t) ==
  [users    |-> [k \in {req[r].user} |-> EditedRow(Recovered(users[k], t), changed, t)],
   sessions |-> NoRows,
   audits   |-> RecoveryAudits(req[r].user, t)]

UpdateMeTx(r) ==
  /\ InBody(r, "update")
  /\ \/ ~ UpdateAdmitted(r, clock) /\ Refuse(r)
     \/ /\ UpdateAdmitted(r, clock)
        /\ \E changed \in BOOLEAN : Prepare(r, UpdateWrites(r, changed, clock), "ok")
        /\ UNCHANGED sessionSeq
  /\ UNCHANGED <<clock, tables, req>>

\* RevokeLockedSessions updates rows that are not revoked yet.  If it does not
\* change every row it names it fails, and the transaction with it: see Cut.
\* Its mutant stamps the rows with the last change of their account.
RevokeAtStale(ids, t) ==
  [s \in ids |-> [sessions[s] EXCEPT !.revokedAt = users[sessions[s].owner].updatedAt]]

RevokeAt(ids, t) == [s \in ids |-> [sessions[s] EXCEPT !.revokedAt = t]]

Revocable(ids) == \A s \in ids : Live(sessions[s])

\* The mutant forgets the column updated_at.
DeletedRowUnstamped(t) == [status |-> "deleted", mutedUntil |-> NULL, updatedAt |-> NULL]

DeletedRow(t) == [status |-> "deleted", mutedUntil |-> NULL, updatedAt |-> t]

\* DeleteMe: every session its locking SELECT returned is revoked.
DeleteAdmitted(r, t) ==
  ProfileSessionValid(r, t) /\ CanDeleteAccount(users[req[r].user].status)

DeleteWrites(r, t) ==
  [users    |-> [k \in {req[r].user} |-> DeletedRow(t)],
   sessions |-> RevokeAt(rows[r], t),
   audits   |-> RecoveryAudits(req[r].user, t)]

DeleteMeTx(r) ==
  /\ InBody(r, "delete")
  /\ \/ ~ DeleteAdmitted(r, clock) /\ Refuse(r)
     \/ /\ DeleteAdmitted(r, clock) /\ Revocable(rows[r])
        /\ Prepare(r, DeleteWrites(r, clock), "ok")
        /\ UNCHANGED sessionSeq
  /\ UNCHANGED <<clock, tables, req>>

(***************************************************************************)
(* ChangeUserStatus.  Both accounts are locked, so both expired mutes are  *)
(* recovered first; an order that changes nothing still commits those      *)
(* recoveries; a ban revokes the sessions of its target.                   *)
(***************************************************************************)
\* The mutant of the first guard forgets the session of the administrator.
ActorAdmittedAnySession(r, t) ==
  /\ users[req[r].user].status \notin {"banned", "deleted", "frozen"}
  /\ req[r].user \in Admins

ActorAdmitted(r, t) ==
  /\ req[r].session \in rows[r]
  /\ Usable(sessions[req[r].session], req[r].user, t)
  /\ users[req[r].user].status \notin {"banned", "deleted", "frozen"}
  /\ req[r].user \in Admins

OrderAdmitted(r, t) ==
  /\ req[r].status = "muted" => req[r].until > t
  /\ req[r].target \in Users \ Admins
  /\ users[req[r].target].status # "deleted"
  /\ ValidAdministrativeTransition(
       Recovered(users[req[r].target], t).status, req[r].status)

NoOp(r, row) == row.status = req[r].status /\ row.mutedUntil = req[r].until

OrderedRow(r, row, t) ==
  IF NoOp(r, row) THEN row
  ELSE [status |-> req[r].status, mutedUntil |-> req[r].until, updatedAt |-> t]

OrderAudit(r, row, t) ==
  IF NoOp(r, row) THEN << >>
  ELSE << Audit("status_changed", req[r].user, row, OrderedRow(r, row, t), t) >>

\* The rows a ban revokes: all it locked but the session of the administrator.
\* The mutant revokes none.
TargetSessionsNone(r) == {}

TargetSessions(r) ==
  IF req[r].status = "banned" THEN rows[r] \ {req[r].session} ELSE {}

StatusWrites(r, t) ==
  LET target == req[r].target
      row(k) == Recovered(users[k], t)
  IN [users    |-> [k \in {req[r].user, target} |->
                      IF k = target THEN OrderedRow(r, row(k), t) ELSE row(k)],
      sessions |-> RevokeAt(TargetSessions(r), t),
      audits   |-> [k \in {req[r].user, target} |->
                      IF k = target
                        THEN RecoveryAudit(users[k], t) \o OrderAudit(r, row(k), t)
                        ELSE RecoveryAudit(users[k], t)]]

ChangeUserStatusTx(r) ==
  /\ InBody(r, "status")
  /\ \/ ~ (ActorAdmitted(r, clock) /\ OrderAdmitted(r, clock)) /\ Refuse(r)
     \/ /\ ActorAdmitted(r, clock) /\ OrderAdmitted(r, clock)
        /\ Revocable(TargetSessions(r))
        /\ Prepare(r, StatusWrites(r, clock), "ok")
        /\ UNCHANGED sessionSeq
  /\ UNCHANGED <<clock, tables, req>>

-----------------------------------------------------------------------------
(***************************************************************************)
(* The ends of a request.                                                  *)
(***************************************************************************)
Commit(r) ==
  /\ pc[r] = "commit"
  /\ ApplyWrites(ws[r])
  /\ Finish(r, answer[r])
  /\ UNCHANGED <<clock, sessionSeq, req>>

\* A COMMIT, or the UPDATE of a logout, took effect but its confirmation was
\* lost: the service reports an error.
CommitUnconfirmed(r) ==
  /\ MayFail
  /\ pc[r] = "commit"
  /\ ApplyWrites(ws[r])
  /\ Finish(r, "internal")
  /\ UNCHANGED <<clock, sessionSeq, req>>

\* The conditional UPDATE of Logout, a statement of its own; it waits only for
\* a row whose committed version it would change.
RevokeRow(r) ==
  /\ pc[r] = "revoke"
  /\ LET s == req[r].session IN
       \/ /\ ~ (Live(sessions[s]) /\ sessions[s].owner = req[r].user)
          /\ UNCHANGED sessions
       \/ /\ Live(sessions[s]) /\ sessions[s].owner = req[r].user
          /\ sessionLock[s] = NULL
          /\ sessions' = [sessions EXCEPT ![s].revokedAt = seenAt[r]]
  /\ UNCHANGED <<clock, users, audits, sessionSeq, req>>

RevokeSession(r) == RevokeRow(r) /\ Finish(r, "ok")

RevokeUnconfirmed(r) == MayFail /\ RevokeRow(r) /\ Finish(r, "internal")

\* Context cancelled, statement failed, or process gone: nothing is written.
Cut(r) ==
  /\ MayFail
  /\ pc[r] \notin {"new", "done"}
  /\ Finish(r, "internal")
  /\ UNCHANGED <<clock, tables, sessionSeq, req>>

\* Monotone, as the properties about time need it to be.
Tick ==
  /\ clock < MaxTime
  /\ clock' = clock + 1
  /\ UNCHANGED <<tables, sessionSeq, locks, pc, req, working, reply>>

\* All requests are answered: the run is over.
Answered ==
  /\ \A r \in Requests : pc[r] = "done"
  /\ UNCHANGED vars

\* The refresh secrets that some client has been given.
Disclosed ==
  {SeedSecret} \cup
  {q \in Requests : req[q].op \in {"login", "refresh"} /\ reply[q] = "ok"}

Start(r) ==
  \/ \E u \in Users : StartLogin(r, u) \/ StartPublicUser(r, u)
  \/ \E s \in SessionIds, secret \in Disclosed : StartRefresh(r, s, secret)
  \/ \E s \in {t \in SessionIds : sessions[t] # NULL} :
       LET u == sessions[s].owner IN
       \/ StartLogout(r, u, s)
       \/ StartMe(r, u, s)
       \/ \E op \in {"update", "delete"} : StartProfileTx(r, op, u, s)
       \/ \E target \in Users \cup {NULL}, status \in Orders,
             until \in 1 .. MaxTime \cup {NULL} :
            StartChangeUserStatus(r, u, s, target, status, until)

Body(r) ==
  \/ LoginTx(r) \/ RefreshTx(r) \/ RecoverTx(r)
  \/ UpdateMeTx(r) \/ DeleteMeTx(r) \/ ChangeUserStatusTx(r)

Serve(r) ==
  \/ CheckSeen(r)
  \/ \E u \in Users : LockUser(r, u)
  \/ SelectSessions(r)
  \/ \E s \in SessionIds : LockSession(r, s)
  \/ Body(r)
  \/ Commit(r)
  \/ RevokeSession(r)

Next ==
  \/ \E r \in Requests :
       Start(r) \/ Serve(r) \/ CommitUnconfirmed(r) \/ RevokeUnconfirmed(r) \/ Cut(r)
  \/ Tick
  \/ Answered

Spec == Init /\ [][Next]_vars
=============
