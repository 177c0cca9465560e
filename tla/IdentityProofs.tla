--------------------------- MODULE IdentityProofs ---------------------------
(***************************************************************************)
(* Proofs about the identity service, for any accounts, requests, sessions *)
(* and times: its types, and that closed accounts have no live session.    *)
(***************************************************************************)
EXTENDS IdentityProperties, TLAPS

(***************************************************************************)
(* TypeOK in three parts: the tables, the inputs, and what a request keeps *)
(* for itself while it is served (its locks included).                     *)
(***************************************************************************)
TablesTypeOK ==
  /\ users \in [Users -> UserRow]
  /\ sessions \in [SessionIds -> SessionRow \cup {NULL}]
  /\ audits \in [Users -> Seq(AuditEntry)]

ServedTypeOK ==
  /\ userLock \in [Users -> Requests \cup {NULL}]
  /\ sessionLock \in [SessionIds -> Requests \cup {NULL}]
  /\ pc \in [Requests -> Stages]
  /\ seen \in [Requests -> UserRow \cup {NULL}]
  /\ seenAt \in [Requests -> Nat \cup {NULL}]
  /\ want \in [Requests -> SUBSET SessionIds]
  /\ rows \in [Requests -> SUBSET SessionIds]
  /\ DOMAIN ws = Requests /\ \A r \in Requests : WriteSetOK(ws[r])
  /\ answer \in [Requests -> {NULL, "ok", "refused"}]
  /\ reply \in [Requests -> {NULL, "ok", "refused", "internal"}]

\* The type invariant follows from the types of its groups of variables.
LEMMA TypeParts ==
  (/\ clock \in Nat /\ sessionSeq \in 0 .. MaxSessions
   /\ TablesTypeOK /\ req \in [Requests -> Request] /\ ServedTypeOK)' => TypeOK'
BY DEF TypeOK, StoreTypeOK, TablesTypeOK, ServedTypeOK

\* The domain operators keep rows and audit entries of their type.
LEMMA RecoveryType ==
  ASSUME NEW row \in UserRow, NEW t \in Nat
  PROVE  /\ Recovered(row, t) \in UserRow
         /\ RecoveryAudit(row, t) \in Seq(AuditEntry)
<1>1. Recovered(row, t) \in UserRow
  BY DEF Recovered, UserRow, Statuses
<1>2. Audit("mute_expired", NULL, row, Recovered(row, t), t) \in AuditEntry
  BY <1>1 DEF Audit, AuditEntry, UserRow
<1>3. RecoveryAudit(row, t) \in Seq(AuditEntry)
  BY <1>2 DEF RecoveryAudit
<1> QED BY <1>1, <1>3

\* The empty write set is one.
LEMMA NoWritesType == WriteSetOK(NoWrites)
BY DEF WriteSetOK, MapsInto, NoWrites, NoRows

\* Answering a request leaves what is being served well typed.
LEMMA FinishType ==
  ASSUME TypeOK, NEW r \in Requests,
         NEW result \in {NULL, "ok", "refused", "internal"}, Finish(r, result)
  PROVE  ServedTypeOK'
<1>1. ws' = [ws EXCEPT ![r] = NoWrites] BY DEF Finish
<1>2. DOMAIN ws' = Requests /\ \A q \in Requests : WriteSetOK(ws'[q])
  BY <1>1, NoWritesType DEF TypeOK
<1>3. pc' \in [Requests -> Stages] /\ reply' \in [Requests -> {NULL, "ok", "refused", "internal"}]
  BY DEF TypeOK, Finish, Goto, Stages
<1>4. /\ userLock' \in [Users -> Requests \cup {NULL}]
      /\ sessionLock' \in [SessionIds -> Requests \cup {NULL}]
  BY DEF TypeOK, StoreTypeOK, Finish, ReleaseLocks
<1>5. /\ seen' \in [Requests -> UserRow \cup {NULL}]
      /\ seenAt' \in [Requests -> Nat \cup {NULL}]
      /\ want' \in [Requests -> SUBSET SessionIds]
      /\ rows' \in [Requests -> SUBSET SessionIds]
      /\ answer' \in [Requests -> {NULL, "ok", "refused"}]
  BY DEF TypeOK, Finish
<1> QED BY <1>2, <1>3, <1>4, <1>5 DEF ServedTypeOK, WriteSetOK

\* Ending a callback with a typed write set leaves what is being served well typed.
LEMMA PrepareType ==
  ASSUME TypeOK, NEW r \in Requests, NEW writes, WriteSetOK(writes),
         NEW result \in {"ok", "refused"}, Prepare(r, writes, result)
  PROVE  ServedTypeOK'
<1>1. DOMAIN ws' = Requests /\ \A q \in Requests : WriteSetOK(ws'[q])
  BY DEF TypeOK, Prepare
<1>2. pc' \in [Requests -> Stages] /\ answer' \in [Requests -> {NULL, "ok", "refused"}]
  BY DEF TypeOK, Prepare, Goto, Stages
<1> QED BY <1>1, <1>2 DEF ServedTypeOK, TypeOK, StoreTypeOK, Prepare, locks, WriteSetOK

\* A commit installs rows of the right type.
LEMMA ApplyType ==
  ASSUME TypeOK, NEW w, WriteSetOK(w), ApplyWrites(w)
  PROVE  TablesTypeOK'
<1>1. users' \in [Users -> UserRow]
  BY DEF TypeOK, StoreTypeOK, WriteSetOK, MapsInto, ApplyWrites, UserAfter
<1>2. sessions' \in [SessionIds -> SessionRow \cup {NULL}]
  BY DEF TypeOK, StoreTypeOK, WriteSetOK, MapsInto, ApplyWrites, SessionAfter
<1>3. ASSUME NEW u \in Users PROVE AuditsAfter(w, u) \in Seq(AuditEntry)
  <2>1. audits[u] \in Seq(AuditEntry) BY DEF TypeOK, StoreTypeOK
  <2>2. u \in DOMAIN w.audits => w.audits[u] \in Seq(AuditEntry)
    BY DEF WriteSetOK, MapsInto
  <2> QED BY <2>1, <2>2 DEF AuditsAfter
<1>4. audits' \in [Users -> Seq(AuditEntry)]
  BY <1>3 DEF ApplyWrites
<1> QED BY <1>1, <1>2, <1>4 DEF TablesTypeOK

-----------------------------------------------------------------------------
(***************************************************************************)
(* Type correctness, one lemma per group of actions.                       *)
(***************************************************************************)
LEMMA InputType ==
  ASSUME NEW op \in Operations, NEW u \in Users \cup {NULL},
         NEW s \in SessionIds \cup {NULL}
  PROVE  /\ Input(op, u, s) \in Request
         /\ \A secret \in Secrets : [Input(op, u, s) EXCEPT !.secret = secret] \in Request
         /\ \A target \in Users \cup {NULL}, status \in AdministrativeStatuses,
               until \in Nat \cup {NULL} :
              [Input(op, u, s) EXCEPT !.target = target, !.status = status,
                                      !.until = until] \in Request
BY DEF Input, Request

\* An arrival changes no table, and records an input of its type.
LEMMA ArriveType ==
  ASSUME TypeOK, NEW r \in Requests, NEW input \in Request, Arrive(r, input)
  PROVE  /\ clock' \in Nat /\ sessionSeq' \in 0 .. MaxSessions
         /\ TablesTypeOK' /\ req' \in [Requests -> Request]
BY DEF TypeOK, StoreTypeOK, TablesTypeOK, Arrive, tables

\* What an arrival that does not answer at once may change for itself.
LEMMA BeginType ==
  ASSUME TypeOK, NEW r \in Requests, NEW stage \in Stages, Goto(r, stage),
         UNCHANGED <<locks, want, rows, ws, answer, reply>>,
         \/ UNCHANGED <<seen, seenAt>>
         \/ seen' = seen /\ seenAt' = [seenAt EXCEPT ![r] = clock]
         \/ seenAt' = seenAt /\ \E u \in Users : seen' = [seen EXCEPT ![r] = users[u]]
  PROVE  ServedTypeOK'
<1>1. pc' \in [Requests -> Stages] BY DEF TypeOK, Goto
<1>2. seen' \in [Requests -> UserRow \cup {NULL}] /\ seenAt' \in [Requests -> Nat \cup {NULL}]
  BY DEF TypeOK, StoreTypeOK
<1> QED BY <1>1, <1>2 DEF TypeOK, StoreTypeOK, ServedTypeOK, locks, WriteSetOK

\* Every operation may begin: the step a request takes before its transaction is typed.
LEMMA StartType ==
  ASSUME TypeOK, NEW r \in Requests, Start(r)
  PROVE  TypeOK'
<1> DEFINE Typed == /\ clock' \in Nat /\ sessionSeq' \in 0 .. MaxSessions
                    /\ TablesTypeOK' /\ req' \in [Requests -> Request]
<1> SUFFICES Typed /\ ServedTypeOK' BY TypeParts
<1>0. "users" \in Stages /\ "check" \in Stages /\ "revoke" \in Stages BY DEF Stages
<1>op. Operations = {"login", "refresh", "logout", "me", "public", "update",
                     "delete", "status"}
  BY DEF Operations
<1>1. ASSUME NEW u \in Users, StartLogin(r, u) PROVE Typed /\ ServedTypeOK'
  <2>1. Typed BY <1>1, <1>op, InputType, ArriveType DEF StartLogin
  <2>2. ServedTypeOK'
    BY <1>0, <1>1, FinishType, BeginType DEF StartLogin, working
  <2> QED BY <2>1, <2>2
<1>2. ASSUME NEW u \in Users, StartPublicUser(r, u) PROVE Typed /\ ServedTypeOK'
  <2>1. Typed BY <1>2, <1>op, InputType, ArriveType DEF StartPublicUser
  <2>2. ServedTypeOK'
    BY <1>0, <1>2, BeginType DEF StartPublicUser
  <2> QED BY <2>1, <2>2
<1>3. ASSUME NEW s \in SessionIds, NEW secret \in Disclosed, StartRefresh(r, s, secret)
      PROVE  Typed /\ ServedTypeOK'
  <2>1. secret \in Secrets BY DEF Disclosed, Secrets
  <2>2. sessions[s] # NULL => sessions[s].owner \in Users
    BY DEF TypeOK, StoreTypeOK, SessionRow
  <2>3. Typed BY <1>3, <1>op, <2>1, <2>2, InputType, ArriveType DEF StartRefresh
  <2>4. ServedTypeOK'
    BY <1>0, <1>3, FinishType, BeginType DEF StartRefresh, working
  <2> QED BY <2>3, <2>4
<1>4. ASSUME NEW s \in SessionIds, sessions[s] # NULL PROVE sessions[s].owner \in Users
  BY <1>4 DEF TypeOK, StoreTypeOK, SessionRow
<1>5. ASSUME NEW s \in SessionIds, NEW u \in Users, StartLogout(r, u, s)
      PROVE  Typed /\ ServedTypeOK'
  <2>1. Typed BY <1>5, <1>op, InputType, ArriveType DEF StartLogout
  <2>2. ServedTypeOK' BY <1>0, <1>5, BeginType DEF StartLogout
  <2> QED BY <2>1, <2>2
<1>6. ASSUME NEW s \in SessionIds, NEW u \in Users, StartMe(r, u, s)
      PROVE  Typed /\ ServedTypeOK'
  <2>1. Typed BY <1>6, <1>op, InputType, ArriveType DEF StartMe
  <2>2. ServedTypeOK' BY <1>0, <1>6, FinishType, BeginType DEF StartMe
  <2> QED BY <2>1, <2>2
<1>7. ASSUME NEW s \in SessionIds, NEW u \in Users, NEW op, StartProfileTx(r, op, u, s)
      PROVE  Typed /\ ServedTypeOK'
  <2>1. Typed BY <1>7, <1>op, InputType, ArriveType DEF StartProfileTx
  <2>2. ServedTypeOK' BY <1>0, <1>7, BeginType DEF StartProfileTx, working
  <2> QED BY <2>1, <2>2
<1>8. ASSUME NEW s \in SessionIds, NEW u \in Users, NEW target \in Users \cup {NULL},
             NEW status \in Orders, NEW until \in 1 .. MaxTime \cup {NULL},
             StartChangeUserStatus(r, u, s, target, status, until)
      PROVE  Typed /\ ServedTypeOK'
  <2>1. status \in AdministrativeStatuses /\ until \in Nat \cup {NULL}
    BY BoundsAssumption
  <2>2. Typed BY <1>8, <1>op, <2>1, InputType, ArriveType DEF StartChangeUserStatus
  <2>3. ServedTypeOK' BY <1>0, <1>8, BeginType DEF StartChangeUserStatus, working
  <2> QED BY <2>2, <2>3
<1> HIDE DEF Typed
<1> QED BY <1>1, <1>2, <1>3, <1>4, <1>5, <1>6, <1>7, <1>8 DEF Start

\* The callbacks leave well-typed write sets.
LEMMA RecoverWritesType ==
  ASSUME TypeOK, NEW u \in Users, NEW t \in Nat
  PROVE  /\ MapsInto(RecoverUser(u, t), Users, UserRow)
         /\ MapsInto(RecoveryAudits(u, t), Users, Seq(AuditEntry))
<1>1. users[u] \in UserRow BY DEF TypeOK, StoreTypeOK
<1> QED BY <1>1, RecoveryType DEF MapsInto, RecoverUser, RecoveryAudits

\* A write set that touches no session maps sessions to rows.
LEMMA NoRowsType == MapsInto(NoRows, SessionIds, SessionRow)
BY DEF MapsInto, NoRows

\* Revoking rows that exist gives rows of their type.
LEMMA RevokeType ==
  ASSUME TypeOK, NEW ids, ids \subseteq SessionIds,
         \A s \in ids : sessions[s] # NULL
  PROVE  MapsInto(RevokeAt(ids, clock), SessionIds, SessionRow)
<1>1. ASSUME NEW s \in ids PROVE [sessions[s] EXCEPT !.revokedAt = clock] \in SessionRow
  <2>1. sessions[s] \in SessionRow BY DEF TypeOK, StoreTypeOK
  <2> QED BY <2>1 DEF SessionRow, TypeOK, StoreTypeOK
<1> QED BY <1>1 DEF MapsInto, RevokeAt

\* The callback of every operation keeps the types.
LEMMA BodyType ==
  ASSUME TypeOK, NEW r \in Requests, Ready(r), Body(r)
  PROVE  TypeOK'
<1> DEFINE u == req[r].user
<1>0. /\ clock \in Nat /\ sessionSeq \in 0 .. MaxSessions /\ MaxSessions \in Nat
      /\ rows[r] \subseteq SessionIds /\ users \in [Users -> UserRow]
  BY MaxSessionsAssumption DEF TypeOK, StoreTypeOK
<1>1. \A op \in Operations : InBody(r, op) => u \in Users /\ users[u] \in UserRow
  BY <1>0 DEF InBody, Ready
<1>op. Operations = {"login", "refresh", "logout", "me", "public", "update",
                     "delete", "status"}
  BY DEF Operations
<1>ok. "ok" \in {"ok", "refused"} /\ "refused" \in {"ok", "refused"} OBVIOUS
<1> SUFFICES ServedTypeOK' /\ sessionSeq' \in 0 .. MaxSessions
    <2>1. UNCHANGED <<clock, tables, req>>
      BY DEF Body, LoginTx, RefreshTx, RecoverTx, UpdateMeTx, DeleteMeTx, ChangeUserStatusTx
    <2> QED BY <2>1, TypeParts DEF TypeOK, StoreTypeOK, TablesTypeOK, tables
<1>2. CASE Refuse(r)
  BY <1>2, <1>0, FinishType DEF Refuse
<1>3. CASE LoginTx(r) /\ ~ Refuse(r)
  <2>1. u \in Users BY <1>1, <1>3, <1>op DEF LoginTx
  <2>2. NewSession(u, r, clock, RefreshTTL) \in SessionRow
    BY <1>0, <2>1, TTLAssumption DEF NewSession, SessionRow, Secrets
  <2>3. sessionSeq + 1 \in SessionIds /\ sessionSeq' \in 0 .. MaxSessions
    BY <1>0, <1>3 DEF LoginTx, SessionIds
  <2> DEFINE w == LoginWrites(r, sessionSeq + 1, clock)
  <2>4. WriteSetOK(w)
    BY <1>0, <2>1, <2>2, <2>3, RecoverWritesType DEF LoginWrites, WriteSetOK, MapsInto
  <2>5. Prepare(r, w, "ok") BY <1>3 DEF LoginTx
  <2> QED BY <2>3, <2>4, <2>5, <1>ok, PrepareType
<1>4. CASE RefreshTx(r) /\ ~ Refuse(r)
  <2>1. u \in Users BY <1>1, <1>4, <1>op DEF RefreshTx
  <2>2. req[r].session \in SessionIds /\ sessions[req[r].session] \in SessionRow
    BY <1>0, <1>4 DEF RefreshTx, RefreshAdmitted, Usable, Live, TypeOK, StoreTypeOK
  <2>3. [sessions[req[r].session] EXCEPT !.token = r] \in SessionRow
    BY <2>2 DEF SessionRow, Secrets
  <2> DEFINE w == RefreshWrites(r, clock)
  <2>4. WriteSetOK(w)
    BY <1>0, <2>1, <2>2, <2>3, RecoverWritesType DEF RefreshWrites, WriteSetOK, MapsInto
  <2>5. Prepare(r, w, "ok") BY <1>4 DEF RefreshTx
  <2> QED BY <1>0, <1>4, <2>4, <2>5, <1>ok, PrepareType DEF RefreshTx
<1>5. CASE RecoverTx(r)
  <2>1. u \in Users /\ seenAt[r] \in Nat
    BY <1>1, <1>5, <1>op DEF RecoverTx, InBody, Ready
  <2> DEFINE w == RecoverWrites(r, seenAt[r])
             result == IF req[r].op = "me" /\ ~ CanLogin(users[u].status)
                         THEN "refused" ELSE "ok"
  <2>2. WriteSetOK(w) BY <2>1, RecoverWritesType, NoRowsType DEF RecoverWrites, WriteSetOK
  <2>3. Prepare(r, w, result) BY <1>5 DEF RecoverTx
  <2>4. result \in {"ok", "refused"} OBVIOUS
  <2> HIDE DEF result, w
  <2> QED BY <1>0, <1>5, <2>2, <2>3, <2>4, PrepareType DEF RecoverTx
<1>6. CASE UpdateMeTx(r) /\ ~ Refuse(r)
  <2>1. u \in Users /\ Recovered(users[u], clock) \in UserRow
    BY <1>0, <1>1, <1>6, <1>op, RecoveryType DEF UpdateMeTx
  <2>2. PICK changed \in BOOLEAN : Prepare(r, UpdateWrites(r, changed, clock), "ok")
    BY <1>6 DEF UpdateMeTx
  <2>3. EditedRow(Recovered(users[u], clock), changed, clock) \in UserRow
    BY <1>0, <2>1 DEF EditedRow, UserRow
  <2>4. WriteSetOK(UpdateWrites(r, changed, clock))
    BY <1>0, <2>1, <2>3, RecoverWritesType, NoRowsType DEF UpdateWrites, WriteSetOK, MapsInto
  <2> QED BY <1>0, <1>6, <2>2, <2>4, <1>ok, PrepareType DEF UpdateMeTx
<1>7. CASE DeleteMeTx(r) /\ ~ Refuse(r)
  <2>1. u \in Users BY <1>1, <1>7, <1>op DEF DeleteMeTx
  <2>2. MapsInto(RevokeAt(rows[r], clock), SessionIds, SessionRow)
    BY <1>0, RevokeType DEF Ready
  <2>3. MapsInto([k \in {u} |-> DeletedRow(clock)], Users, UserRow)
    BY <1>0, <2>1 DEF MapsInto, DeletedRow, UserRow, Statuses
  <2> DEFINE w == DeleteWrites(r, clock)
  <2>4. WriteSetOK(w)
    BY <1>0, <2>1, <2>2, <2>3, RecoverWritesType DEF DeleteWrites, WriteSetOK
  <2>5. Prepare(r, w, "ok") BY <1>7 DEF DeleteMeTx
  <2> QED BY <1>0, <1>7, <2>4, <2>5, <1>ok, PrepareType DEF DeleteMeTx
<1>8. CASE ChangeUserStatusTx(r) /\ ~ Refuse(r)
  <2> DEFINE target == req[r].target
             row    == Recovered(users[target], clock)
             U == [k \in {u, target} |-> IF k = target THEN OrderedRow(r, row, clock)
                                                      ELSE Recovered(users[u], clock)]
             A == [k \in {u, target} |->
                     IF k = target
                       THEN RecoveryAudit(users[target], clock) \o OrderAudit(r, row, clock)
                       ELSE RecoveryAudit(users[u], clock)]
             S == RevokeAt(TargetSessions(r), clock)
  <2>1. u \in Users /\ target \in Users /\ OrderAdmitted(r, clock) /\ ActorAdmitted(r, clock)
    BY <1>1, <1>8, <1>op DEF ChangeUserStatusTx, OrderAdmitted
  <2>2. row \in UserRow /\ RecoveryAudit(users[target], clock) \in Seq(AuditEntry)
    BY <1>0, <2>1, RecoveryType
  <2>3. Recovered(users[u], clock) \in UserRow /\ RecoveryAudit(users[u], clock) \in Seq(AuditEntry)
    BY <1>0, <2>1, RecoveryType
  <2>4. req[r].until \in Nat \cup {NULL} /\ req[r].status \in AdministrativeStatuses \cup {NULL}
    BY DEF TypeOK, Request
  <2>5. OrderedRow(r, row, clock) \in UserRow
    <3>1. CASE NoOp(r, row) BY <3>1, <2>2 DEF OrderedRow
    <3>2. CASE ~ NoOp(r, row)
      <4>1. req[r].status \in Statuses
        BY <1>8 DEF ChangeUserStatusTx, InBody, Ready, AdministrativeStatuses, Statuses
      <4> QED BY <3>2, <4>1, <2>4, <1>0 DEF OrderedRow, UserRow
    <3> QED BY <3>1, <3>2
  <2>6. OrderAudit(r, row, clock) \in Seq(AuditEntry)
    <3>1. CASE NoOp(r, row) BY <3>1 DEF OrderAudit
    <3>2. CASE ~ NoOp(r, row)
      <4>1. Audit("status_changed", u, row, OrderedRow(r, row, clock), clock) \in AuditEntry
        BY <1>0, <2>1, <2>2, <2>5, UsersAssumption DEF Audit, AuditEntry, UserRow
      <4> QED BY <3>2, <4>1 DEF OrderAudit
    <3> QED BY <3>1, <3>2
  <2>7. MapsInto(U, Users, UserRow) BY <2>1, <2>3, <2>5 DEF MapsInto
  <2>8. RecoveryAudit(users[target], clock) \o OrderAudit(r, row, clock) \in Seq(AuditEntry)
    BY <2>2, <2>6
  <2>9. MapsInto(A, Users, Seq(AuditEntry)) BY <2>1, <2>3, <2>8 DEF MapsInto
  <2>10. MapsInto(S, SessionIds, SessionRow)
    <3>1. TargetSessions(r) \subseteq rows[r] BY DEF TargetSessions
    <3> QED BY <1>0, <3>1, RevokeType DEF Ready
  <2>11. Prepare(r, [users |-> U, sessions |-> S, audits |-> A], "ok")
    BY <1>8 DEF ChangeUserStatusTx, StatusWrites
  <2>12. WriteSetOK([users |-> U, sessions |-> S, audits |-> A])
    BY <2>7, <2>9, <2>10 DEF WriteSetOK
  <2> HIDE DEF U, A, S
  <2> QED BY <1>0, <1>8, <2>11, <2>12, <1>ok, PrepareType DEF ChangeUserStatusTx
<1> QED BY <1>2, <1>3, <1>4, <1>5, <1>6, <1>7, <1>8 DEF Body

\* The remaining steps of a request, and the clock.
LEMMA ServeType ==
  ASSUME TypeOK, NEW r \in Requests, Ready(r),
         Serve(r) \/ CommitUnconfirmed(r) \/ RevokeUnconfirmed(r) \/ Cut(r)
  PROVE  TypeOK'
<1> DEFINE Rest == /\ clock' \in Nat /\ sessionSeq' \in 0 .. MaxSessions
                   /\ TablesTypeOK' /\ req' \in [Requests -> Request]
<1>0. ASSUME UNCHANGED <<clock, tables, sessionSeq, req>> PROVE Rest
  BY <1>0 DEF TypeOK, StoreTypeOK, TablesTypeOK, tables
<1>s. /\ "users" \in Stages /\ "body" \in Stages /\ "select" \in Stages
      /\ "sessions" \in Stages
  BY DEF Stages
<1>1. CASE CheckSeen(r)
  <2>1. ServedTypeOK' BY <1>1, <1>s, FinishType, BeginType DEF CheckSeen
  <2> QED BY <1>0, <1>1, <2>1, TypeParts DEF CheckSeen
<1>2. ASSUME NEW u \in Users, LockUser(r, u) PROVE TypeOK'
  <2>1. pc' \in [Requests -> Stages] BY <1>2, <1>s DEF LockUser, Goto, TypeOK
  <2>2. userLock' \in [Users -> Requests \cup {NULL}]
    BY <1>2 DEF LockUser, TakeUserLock, TypeOK, StoreTypeOK
  <2>3. ServedTypeOK'
    BY <1>2, <2>1, <2>2
    DEF LockUser, working, TypeOK, StoreTypeOK, ServedTypeOK, WriteSetOK
  <2>4. Rest BY <1>2 DEF LockUser, tables, TypeOK, StoreTypeOK, TablesTypeOK
  <2> QED BY <2>3, <2>4, TypeParts
<1>3. CASE SelectSessions(r)
  <2>1. pc' \in [Requests -> Stages] /\ want' \in [Requests -> SUBSET SessionIds]
    BY <1>3, <1>s DEF SelectSessions, Goto, TypeOK
  <2>2. ServedTypeOK'
    BY <1>3, <2>1
    DEF SelectSessions, locks, TypeOK, StoreTypeOK, ServedTypeOK, WriteSetOK
  <2> QED BY <1>0, <1>3, <2>2, TypeParts DEF SelectSessions
<1>4. ASSUME NEW s \in SessionIds, LockSession(r, s) PROVE TypeOK'
  <2>1. /\ pc' \in [Requests -> Stages]
        /\ want' \in [Requests -> SUBSET SessionIds]
        /\ rows' \in [Requests -> SUBSET SessionIds]
    BY <1>4, <1>s DEF LockSession, Goto, TypeOK
  <2>2. sessionLock' \in [SessionIds -> Requests \cup {NULL}]
    BY <1>4 DEF LockSession, TakeSessionLock, TypeOK, StoreTypeOK
  <2>3. ServedTypeOK'
    BY <1>4, <2>1, <2>2
    DEF LockSession, TypeOK, StoreTypeOK, ServedTypeOK, WriteSetOK
  <2>4. Rest BY <1>4 DEF LockSession, tables, TypeOK, StoreTypeOK, TablesTypeOK
  <2> QED BY <2>3, <2>4, TypeParts
<1>5. CASE Body(r) BY <1>5, BodyType
<1>6. CASE Commit(r) \/ CommitUnconfirmed(r)
  <2>1. WriteSetOK(ws[r]) /\ answer[r] \in {NULL, "ok", "refused", "internal"}
    BY DEF TypeOK
  <2>2. TablesTypeOK' BY <1>6, <2>1, ApplyType DEF Commit, CommitUnconfirmed
  <2>3. ServedTypeOK' BY <1>6, <2>1, FinishType DEF Commit, CommitUnconfirmed
  <2>4. UNCHANGED <<clock, sessionSeq, req>> BY <1>6 DEF Commit, CommitUnconfirmed
  <2> QED BY <2>2, <2>3, <2>4, TypeParts DEF TypeOK, StoreTypeOK
<1>7. CASE RevokeSession(r) \/ RevokeUnconfirmed(r)
  <2>0. RevokeRow(r) BY <1>7 DEF RevokeSession, RevokeUnconfirmed
  <2>1. sessions' \in [SessionIds -> SessionRow \cup {NULL}]
    <3>1. CASE sessions' = sessions BY <3>1 DEF TypeOK, StoreTypeOK
    <3>2. CASE /\ Live(sessions[req[r].session])
               /\ sessions' = [sessions EXCEPT ![req[r].session].revokedAt = seenAt[r]]
      <4> DEFINE s0 == req[r].session
                 ended == [sessions[s0] EXCEPT !.revokedAt = seenAt[r]]
      <4>1. s0 \in SessionIds => ended \in SessionRow
        <5>1. s0 \in SessionIds => sessions[s0] \in SessionRow
          BY <3>2 DEF Live, TypeOK, StoreTypeOK
        <5>2. seenAt[r] \in Nat \cup {NULL} BY DEF TypeOK
        <5> QED BY <5>1, <5>2 DEF SessionRow
      <4>2. sessions' = [sessions EXCEPT ![s0] = ended] BY <3>2
      <4>3. sessions \in [SessionIds -> SessionRow \cup {NULL}] BY DEF TypeOK, StoreTypeOK
      <4> HIDE DEF s0, ended
      <4> QED BY <4>1, <4>2, <4>3
    <3> QED BY <2>0, <3>1, <3>2 DEF RevokeRow
  <2>2. TablesTypeOK' BY <2>0, <2>1 DEF RevokeRow, TypeOK, StoreTypeOK, TablesTypeOK
  <2>3. ServedTypeOK' BY <1>7, FinishType DEF RevokeSession, RevokeUnconfirmed
  <2>4. UNCHANGED <<clock, sessionSeq, req>> BY <2>0 DEF RevokeRow
  <2> QED BY <2>2, <2>3, <2>4, TypeParts DEF TypeOK, StoreTypeOK
<1>8. CASE Cut(r)
  <2>1. ServedTypeOK' BY <1>8, FinishType DEF Cut
  <2> QED BY <1>0, <1>8, <2>1, TypeParts DEF Cut
<1> QED BY <1>1, <1>2, <1>3, <1>4, <1>5, <1>6, <1>7, <1>8 DEF Serve

-----------------------------------------------------------------------------
(***************************************************************************)
(* Init satisfies the types and, with them, the whole inductive invariant. *)
(***************************************************************************)
LEMMA InitType == Init => TypeOK
<1> SUFFICES ASSUME Init PROVE TypeOK OBVIOUS
<1>1. clock \in Nat BY DEF Init
<1>2. users \in [Users -> UserRow] BY TimeAssumption DEF Init, UserRow
<1>3. sessions \in [SessionIds -> SessionRow \cup {NULL}]
  <2>1. ASSUME NEW s \in SessionIds, s \in DOMAIN SeedOwner
        PROVE  sessions[s] \in SessionRow
    <3>1. SeedOwner[s] \in Users BY <2>1, SeedAssumption
    <3>2. NewSession(SeedOwner[s], SeedSecret, 0, RefreshTTL) \in SessionRow
      BY <3>1, TTLAssumption DEF NewSession, SessionRow, Secrets
    <3> DEFINE end == IF CanLogin(users[SeedOwner[s]].status) THEN NULL ELSE 0
    <3>3. end \in Nat \cup {NULL} OBVIOUS
    <3>4. sessions[s] = [NewSession(SeedOwner[s], SeedSecret, 0, RefreshTTL)
                           EXCEPT !.revokedAt = end]
      BY <2>1 DEF Init
    <3> HIDE DEF end
    <3> QED BY <3>2, <3>3, <3>4 DEF SessionRow
  <2>2. ASSUME NEW s \in SessionIds, s \notin DOMAIN SeedOwner PROVE sessions[s] = NULL
    BY <2>2 DEF Init
  <2>3. sessions = [s \in SessionIds |-> sessions[s]] BY DEF Init
  <2> QED BY <2>1, <2>2, <2>3
<1>4. audits \in [Users -> Seq(AuditEntry)] BY DEF Init
<1>5. sessionSeq \in 0 .. MaxSessions
  BY SeedAssumption, MaxSessionsAssumption DEF Init
<1>6. userLock \in [Users -> Requests \cup {NULL}] BY DEF Init
<1>7. sessionLock \in [SessionIds -> Requests \cup {NULL}] BY DEF Init
<1>8. req \in [Requests -> Request] BY DEF Init, NoInput, Input, Request
<1>9. DOMAIN ws = Requests /\ \A r \in Requests : WriteSetOK(ws[r])
  BY NoWritesType DEF Init
<1>10. /\ pc \in [Requests -> Stages]
       /\ seen \in [Requests -> UserRow \cup {NULL}]
       /\ seenAt \in [Requests -> Nat \cup {NULL}]
       /\ want \in [Requests -> SUBSET SessionIds]
       /\ rows \in [Requests -> SUBSET SessionIds]
       /\ answer \in [Requests -> {NULL, "ok", "refused"}]
       /\ reply \in [Requests -> {NULL, "ok", "refused", "internal"}]
  BY DEF Init, Stages
<1> QED
  BY <1>1, <1>2, <1>3, <1>4, <1>5, <1>6, <1>7, <1>8, <1>9, <1>10 DEF TypeOK, StoreTypeOK

\* The seeded store, with nothing in service, satisfies the inductive invariant.
LEMMA InitInvariant == Init => ClosingInv
<1> SUFFICES ASSUME Init PROVE ClosingInv OBVIOUS
<1>1. TypeOK BY InitType
<1>2. ASSUME NEW r \in Requests
      PROVE  /\ Ready(r) /\ OrderWellFormed(r) /\ Locked(r) /\ Covered(r)
             /\ WritesOwned(r) /\ CommitClosesAll(r)
  <2>1. pc[r] = "new" /\ rows[r] = {} /\ ws[r] = NoWrites /\ req[r].op = NULL
    BY DEF Init, NoInput, Input
  <2>2. NULL # "status" BY NoOperationAssumption DEF Operations
  <2> QED BY <2>1, <2>2
    DEF Ready, OrderWellFormed, Locked, PastUsers, Covered, WritesOwned,
        CommitClosesAll, NoWrites, NoRows, Init
<1>3. IdsFresh
  <2>1. ASSUME NEW s \in SessionIds, s > sessionSeq PROVE sessions[s] = NULL
    BY <2>1, SeedAssumption DEF Init
  <2>2. \A q \in Requests : DOMAIN ws[q].sessions = {}
    BY DEF Init, NoWrites, NoRows
  <2> QED BY <2>1, <2>2 DEF IdsFresh
<1>4. ClosedAccountsSignedOut
  <2> SUFFICES ASSUME NEW s \in SessionIds, Live(sessions[s])
               PROVE  CanLogin(users[sessions[s].owner].status)
    BY DEF ClosedAccountsSignedOut
  <2>1. s \in DOMAIN SeedOwner BY DEF Init, Live
  <2>2. sessions[s] = [NewSession(SeedOwner[s], SeedSecret, 0, RefreshTTL)
                         EXCEPT !.revokedAt =
                           IF CanLogin(users[SeedOwner[s]].status) THEN NULL ELSE 0]
    BY <2>1 DEF Init
  <2>3. sessions[s].owner = SeedOwner[s] BY <2>2 DEF NewSession
  <2>4. CanLogin(users[SeedOwner[s]].status)
    BY <2>2, NullAssumption DEF NewSession, Live
  <2> QED BY <2>3, <2>4
<1> QED BY <1>1, <1>2, <1>3, <1>4 DEF ClosingInv

-----------------------------------------------------------------------------
(***************************************************************************)
(* One step of a request r leaves the other requests alone: what they keep *)
(* for themselves does not change, nor do they lose a lock.                *)
(***************************************************************************)
Intact(r) ==
  /\ Ready(r) /\ OrderWellFormed(r) /\ Locked(r) /\ Covered(r)
  /\ WritesOwned(r) /\ CommitClosesAll(r)

OthersKept(r) ==
  \A q \in Requests \ {r} :
    /\ pc'[q] = pc[q] /\ req'[q] = req[q] /\ seenAt'[q] = seenAt[q]
    /\ want'[q] = want[q] /\ rows'[q] = rows[q] /\ ws'[q] = ws[q]
    /\ \A u \in Users : userLock[u] = q => userLock'[u] = q
    /\ \A s \in SessionIds : sessionLock[s] = q => sessionLock'[s] = q

(***************************************************************************)
(* How a step of r may change the tables: only the accounts r has locked,  *)
(* no row disappears, only a session r has pending is inserted, and only   *)
(* an account r has locked gets one more live session.                     *)
(***************************************************************************)
TablesMove(r) ==
  /\ \A u \in Users : userLock[u] # r => users'[u] = users[u]
  /\ \A s \in SessionIds :
       /\ sessions[s] # NULL => sessions'[s] # NULL
       /\ sessions'[s] # NULL => sessions[s] # NULL \/ s \in DOMAIN ws[r].sessions
       /\ Live(sessions'[s]) =>
            \/ Live(sessions[s]) /\ sessions[s].owner = sessions'[s].owner
            \/ userLock[sessions'[s].owner] = r

\* No account is the null value: accounts are numbers, NULL is not.
LEMMA NullUser == NULL \notin Users
<1>1. ASSUME NEW n \in Nat PROVE n # NULL
  <2>1. n \in Int OBVIOUS
  <2> QED BY <2>1, NullAssumption
<1> QED BY <1>1, UsersAssumption

\* The part of the invariant about one request survives the steps of the others.
LEMMA OthersIntact ==
  ASSUME TypeOK, TypeOK', IdsFresh, NEW r \in Requests, NEW q \in Requests, q # r,
         Intact(q), OthersKept(r), TablesMove(r), sessionSeq' >= sessionSeq
  PROVE  Intact(q)'
<1>1. /\ pc'[q] = pc[q] /\ req'[q] = req[q] /\ seenAt'[q] = seenAt[q]
      /\ want'[q] = want[q] /\ rows'[q] = rows[q] /\ ws'[q] = ws[q]
  BY DEF OthersKept
<1>2. /\ \A u \in Users : userLock[u] = q => userLock'[u] = q
      /\ \A s \in SessionIds : sessionLock[s] = q => sessionLock'[s] = q
  BY DEF OthersKept
<1>3. LockedAccounts(q)' = LockedAccounts(q) BY <1>1 DEF LockedAccounts
<1>4. LockedAccounts(q) \subseteq Users BY DEF LockedAccounts, TypeOK, Request
<1>5. rows[q] \subseteq SessionIds /\ DOMAIN ws[q].sessions \subseteq SessionIds
  BY DEF TypeOK, WriteSetOK, MapsInto
<1>6. ASSUME PastUsers(q), NEW u \in LockedAccounts(q)
      PROVE  /\ userLock[u] = q /\ users'[u] = users[u]
             /\ \A s \in SessionIds : Live(sessions'[s]) /\ sessions'[s].owner = u
                  => Live(sessions[s]) /\ sessions[s].owner = u
  BY <1>4, <1>6 DEF Intact, Locked, TablesMove
<1>7. Ready(q)' BY <1>1, <1>5 DEF Intact, Ready, TablesMove
<1>8. OrderWellFormed(q)' BY <1>1 DEF Intact, OrderWellFormed
<1>9. Locked(q)'
  <2>1. PastUsers(q)' => PastUsers(q) BY <1>1 DEF PastUsers
  <2> QED BY <2>1, <1>1, <1>2, <1>3, <1>4, <1>5 DEF Intact, Locked
<1>10. Covered(q)'
  <2> SUFFICES ASSUME pc[q] \in {"sessions", "body", "commit"}, req[q].op \in {"delete", "status"},
                      NEW s \in SessionIds, Live(sessions'[s]),
                      sessions'[s].owner \in SelectedByOwner(q)'
               PROVE  s \in want[q] \cup rows[q]
    BY <1>1 DEF Covered
  <2>1. PastUsers(q) BY DEF PastUsers
  <2>2. sessions'[s].owner \in Users
    BY DEF Live, TypeOK, StoreTypeOK, SessionRow
  <2>3. sessions'[s].owner \in LockedAccounts(q)
    <3>1. sessions'[s].owner # NULL BY <2>2, NullUser
    <3>2. CASE req[q].op = "delete"
      BY <1>1, <3>1, <3>2 DEF SelectedByOwner, LockedAccounts
    <3>3. CASE req[q].op = "status"
      BY <1>1, <3>1, <3>3 DEF SelectedByOwner, LockedAccounts
    <3> QED BY <3>2, <3>3
  <2>4. Live(sessions[s]) /\ sessions[s].owner = sessions'[s].owner
    BY <1>6, <2>1, <2>3
  <2>5. sessions[s].owner \in SelectedByOwner(q)
    <3>1. CASE req[q].op = "delete"
      BY <1>1, <2>4, <3>1 DEF SelectedByOwner
    <3>2. CASE req[q].op = "status"
      <4>1. Banning(q)' /\ sessions[s].owner = req[q].target
        BY <1>1, <2>4, <3>2 DEF SelectedByOwner
      <4>2. users'[req[q].target] = users[req[q].target]
        BY <1>6, <2>1, <2>3, <2>4, <4>1
      <4>3. Banning(q) BY <1>1, <4>1, <4>2 DEF Banning
      <4> QED BY <3>2, <4>1, <4>3 DEF SelectedByOwner
    <3> QED BY <3>1, <3>2
  <2> QED BY <2>4, <2>5 DEF Intact, Covered
<1>11. WritesOwned(q)'
  <2>1. ASSUME NEW s \in DOMAIN ws[q].sessions
        PROVE  /\ s <= sessionSeq'
               /\ sessions'[s] # NULL => sessionLock'[s] = q /\ s \in rows[q]
               /\ Live(ws[q].sessions[s]) => ws[q].sessions[s].owner \in LockedAccounts(q)
    <3>1. s \in SessionIds /\ s \in Int /\ s <= sessionSeq
      BY <1>5 DEF Intact, WritesOwned, SessionIds
    <3>2. s <= sessionSeq' BY <3>1 DEF TypeOK, StoreTypeOK
    <3>3. s \notin DOMAIN ws[r].sessions BY DEF IdsFresh
    <3>4. sessions'[s] # NULL => sessions[s] # NULL BY <3>1, <3>3 DEF TablesMove
    <3> QED BY <1>2, <3>1, <3>2, <3>4 DEF Intact, WritesOwned
  <2> QED BY <1>1, <1>3, <2>1 DEF Intact, WritesOwned
<1>12. CommitClosesAll(q)'
  <2> SUFFICES ASSUME pc[q] = "commit", NEW u \in LockedAccounts(q), NEW s \in SessionIds,
                      Live(SessionAfter(ws[q], s)'), SessionAfter(ws[q], s)'.owner = u
               PROVE  CanLogin(UserAfter(ws[q], u)'.status)
    BY <1>1, <1>3 DEF CommitClosesAll, SessionAfter, UserAfter
  <2>1. PastUsers(q) BY DEF PastUsers
  <2>2. UserAfter(ws[q], u)' = UserAfter(ws[q], u)
    BY <1>1, <1>6, <2>1 DEF UserAfter
  <2>3. Live(SessionAfter(ws[q], s)) /\ SessionAfter(ws[q], s).owner = u
    <3>1. CASE s \in DOMAIN ws[q].sessions BY <1>1, <3>1 DEF SessionAfter
    <3>2. CASE s \notin DOMAIN ws[q].sessions
      BY <1>1, <1>6, <2>1, <3>2 DEF SessionAfter
    <3> QED BY <3>1, <3>2
  <2> QED BY <2>2, <2>3 DEF Intact, CommitClosesAll
<1> QED BY <1>7, <1>8, <1>9, <1>10, <1>11, <1>12 DEF Intact

\* Steps that write no table keep the rest of the invariant too.
LEMMA QuietStep ==
  ASSUME ClosingInv, TypeOK', NEW r \in Requests, OthersKept(r), Intact(r)',
         UNCHANGED <<users, sessions, sessionSeq>>,
         ws'[r] = ws[r] \/ ws'[r] = NoWrites
  PROVE  ClosingInv'
<1>1. TypeOK /\ IdsFresh /\ ClosedAccountsSignedOut /\ \A q \in Requests : Intact(q)
  BY DEF ClosingInv, Intact
<1>2. TablesMove(r) BY DEF TablesMove
<1>3. sessionSeq' >= sessionSeq BY DEF ClosingInv, TypeOK, StoreTypeOK
<1>4. \A q \in Requests : Intact(q)' BY <1>1, <1>2, <1>3, OthersIntact
<1>5. \A q \in Requests : ws'[q] = ws[q] \/ DOMAIN ws'[q].sessions = {}
  BY DEF OthersKept, NoWrites, NoRows
<1>6. IdsFresh' BY <1>1, <1>5 DEF IdsFresh
<1>7. ClosedAccountsSignedOut' BY <1>1 DEF ClosedAccountsSignedOut
<1> QED BY <1>4, <1>6, <1>7 DEF ClosingInv, Intact

\* A request that has answered has nothing left to keep.
LEMMA FinishIntact ==
  ASSUME TypeOK, NEW r \in Requests, NEW result, Finish(r, result),
         \A q \in Requests \ {r} : req'[q] = req[q],
         req'[r].op = "status" => req' = req /\ Ready(r) /\ OrderWellFormed(r)
  PROVE  Intact(r)' /\ OthersKept(r) /\ ws'[r] = NoWrites
<1>1. /\ pc'[r] = "done" /\ rows'[r] = {} /\ want'[r] = {} /\ ws'[r] = NoWrites
  BY DEF Finish, Goto, TypeOK
<1>2. OthersKept(r)
  BY DEF OthersKept, Finish, Goto, ReleaseLocks, TypeOK, StoreTypeOK
<1>3. Ready(r)' /\ OrderWellFormed(r)' BY <1>1 DEF Ready, OrderWellFormed
<1>4. Locked(r)' /\ Covered(r)' /\ CommitClosesAll(r)'
  BY <1>1 DEF Locked, PastUsers, Covered, CommitClosesAll
<1>5. WritesOwned(r)' BY <1>1 DEF WritesOwned, NoWrites, NoRows
<1> QED BY <1>1, <1>2, <1>3, <1>4, <1>5 DEF Intact

\* A request that begins, or is refused before its transaction, keeps the invariant.
LEMMA StartStep ==
  ASSUME ClosingInv, TypeOK', NEW r \in Requests, Start(r)
  PROVE  ClosingInv'
<1> DEFINE Good == OthersKept(r) /\ Intact(r)' /\ (ws'[r] = ws[r] \/ ws'[r] = NoWrites)
<1>0. /\ TypeOK /\ Intact(r) BY DEF ClosingInv, Intact
<1>op. \A u, s : \A op \in Operations :
         /\ Input(op, u, s).op = op /\ Input(op, u, s).user = u
  BY DEF Input
\* A request that goes on has its account, and no rows or writes yet.
<1>1. ASSUME NEW input, Arrive(r, input), NEW stage \in {"users", "check", "revoke"},
             Goto(r, stage), UNCHANGED <<locks, want, rows, ws>>,
             \A q \in Requests \ {r} : seenAt'[q] = seenAt[q],
             input.user \in Users,
             stage = "check" \/ input.op \notin {"me", "public"},
             input.op = "status" =>
               /\ input.status \in AdministrativeStatuses
               /\ input.user # input.target
               /\ (input.status = "muted") <=> (input.until # NULL)
      PROVE  Good
  <2>1. /\ pc[r] = "new" /\ pc'[r] = stage /\ req'[r] = input
        /\ users' = users /\ sessions' = sessions /\ sessionSeq' = sessionSeq
        /\ userLock' = userLock /\ sessionLock' = sessionLock
        /\ want' = want /\ rows' = rows /\ ws' = ws
    BY <1>0, <1>1 DEF Arrive, Goto, TypeOK, tables, locks
  <2>2. OthersKept(r) BY <1>0, <1>1, <2>1 DEF OthersKept, Arrive, Goto, TypeOK
  <2>3. ws[r] = NoWrites /\ want[r] = {} BY <1>0, <2>1 DEF Intact, WritesOwned, Locked
  <2>4. Ready(r)' BY <1>0, <1>1, <2>1 DEF Intact, Ready
  <2>5. OrderWellFormed(r)' BY <1>1, <2>1 DEF OrderWellFormed
  <2>6. Locked(r)' /\ Covered(r)' /\ CommitClosesAll(r)'
    BY <1>0, <1>1, <2>1, <2>3 DEF Intact, Locked, PastUsers, Covered, CommitClosesAll
  <2>7. WritesOwned(r)' BY <2>1, <2>3 DEF WritesOwned, NoWrites, NoRows
  <2> QED BY <2>1, <2>2, <2>4, <2>5, <2>6, <2>7 DEF Intact
\* A request that answers at once.
<1>2. ASSUME NEW input, Arrive(r, input), NEW result, Finish(r, result),
             input.op # "status"
      PROVE  Good
  <2>1. req'[r] = input /\ \A q \in Requests \ {r} : req'[q] = req[q]
    BY <1>0, <1>2 DEF Arrive, TypeOK
  <2> QED BY <1>0, <1>2, <2>1, FinishIntact
<1> HIDE DEF Good
<1>3. ASSUME NEW u \in Users, StartLogin(r, u) PROVE Good
  <2>1. /\ Arrive(r, Input("login", u, NULL)) /\ "login" \in Operations
    BY <1>3 DEF StartLogin, Operations
  <2>2. CASE Finish(r, "refused") BY <1>2, <1>op, <2>1, <2>2
  <2>3. CASE Goto(r, "users") /\ UNCHANGED <<locks, working, reply>>
    BY <1>1, <1>op, <2>1, <2>3 DEF working
  <2> QED BY <1>3, <2>2, <2>3 DEF StartLogin
<1>4. ASSUME NEW u \in Users, StartPublicUser(r, u) PROVE Good
  <2>1. "public" \in Operations BY DEF Operations
  <2> QED BY <1>1, <1>4, <1>op, <2>1 DEF StartPublicUser
<1>5. ASSUME NEW s \in SessionIds, NEW secret, StartRefresh(r, s, secret) PROVE Good
  <2>1. "refresh" \in Operations BY DEF Operations
  <2>2. \A u : /\ [Input("refresh", u, s) EXCEPT !.secret = secret].op = "refresh"
               /\ [Input("refresh", u, s) EXCEPT !.secret = secret].user = u
    BY DEF Input
  <2>3. CASE sessions[s] = NULL BY <1>2, <1>5, <2>2, <2>3 DEF StartRefresh
  <2>4. CASE sessions[s] # NULL
    <3>1. sessions[s].owner \in Users BY <1>0, <2>4 DEF TypeOK, StoreTypeOK, SessionRow
    <3> QED BY <1>1, <1>5, <2>2, <2>4, <3>1 DEF StartRefresh, working
  <2> QED BY <2>3, <2>4
<1>6. ASSUME NEW s \in SessionIds, sessions[s] # NULL PROVE sessions[s].owner \in Users
  BY <1>0, <1>6 DEF TypeOK, StoreTypeOK, SessionRow
<1>7. ASSUME NEW s, NEW u \in Users, StartLogout(r, u, s) PROVE Good
  <2>1. "logout" \in Operations BY DEF Operations
  <2>2. \A q \in Requests \ {r} : seenAt'[q] = seenAt[q] BY <1>0, <1>7 DEF StartLogout, TypeOK
  <2> QED BY <1>1, <1>7, <1>op, <2>1, <2>2 DEF StartLogout
<1>8. ASSUME NEW s, NEW u \in Users, StartMe(r, u, s) PROVE Good
  <2>1. "me" \in Operations BY DEF Operations
  <2>2. CASE Finish(r, "refused") BY <1>2, <1>8, <1>op, <2>1, <2>2 DEF StartMe
  <2>3. CASE Goto(r, "check") /\ UNCHANGED <<locks, seenAt, want, rows, ws, answer, reply>>
    BY <1>1, <1>8, <1>op, <2>1, <2>3 DEF StartMe
  <2> QED BY <1>8, <2>2, <2>3 DEF StartMe
<1>9. ASSUME NEW s, NEW u \in Users, NEW op, StartProfileTx(r, op, u, s) PROVE Good
  <2>1. op \in {"update", "delete"} /\ op \in Operations BY <1>9 DEF StartProfileTx, Operations
  <2> QED BY <1>1, <1>9, <1>op, <2>1 DEF StartProfileTx, working
<1>10. ASSUME NEW s, NEW u \in Users, NEW target, NEW status \in Orders, NEW until,
              StartChangeUserStatus(r, u, s, target, status, until)
       PROVE  Good
  <2> DEFINE input == [Input("status", u, s) EXCEPT
                         !.target = target, !.status = status, !.until = until]
  <2>1. /\ input.op = "status" /\ input.user = u /\ input.target = target
        /\ input.status = status /\ input.until = until
    BY DEF Input
  <2>2. status \in AdministrativeStatuses BY BoundsAssumption
  <2>3. Arrive(r, input) BY <1>10 DEF StartChangeUserStatus
  <2> HIDE DEF input
  <2> QED BY <1>1, <1>10, <2>1, <2>2, <2>3 DEF StartChangeUserStatus, working
<1>11. Good BY <1>3, <1>4, <1>5, <1>6, <1>7, <1>8, <1>9, <1>10 DEF Start
<1>12. UNCHANGED <<users, sessions, sessionSeq>>
  BY DEF Start, StartLogin, StartPublicUser, StartRefresh, StartLogout, StartMe,
         StartProfileTx, StartChangeUserStatus, Arrive, tables
<1> QED BY <1>11, <1>12, QuietStep DEF Good

-----------------------------------------------------------------------------
(***************************************************************************)
(* The steps of a request that is being served, before its callback.       *)
(***************************************************************************)
LEMMA CheckSeenStep ==
  ASSUME ClosingInv, TypeOK', NEW r \in Requests, CheckSeen(r)
  PROVE  ClosingInv'
<1>0. /\ TypeOK /\ Intact(r) /\ pc[r] = "check" /\ req' = req
      /\ UNCHANGED <<users, sessions, sessionSeq>>
  BY DEF ClosingInv, Intact, CheckSeen, tables
<1>1. ASSUME NEW result, Finish(r, result) PROVE ClosingInv'
  BY <1>0, <1>1, FinishIntact, QuietStep DEF Intact
<1>2. CASE /\ seenAt' = [seenAt EXCEPT ![r] = clock]
           /\ Goto(r, "users")
           /\ UNCHANGED <<locks, seen, want, rows, ws, answer, reply>>
  <2>1. /\ pc'[r] = "users" /\ seenAt'[r] \in Nat
        /\ userLock' = userLock /\ sessionLock' = sessionLock
        /\ want' = want /\ rows' = rows /\ ws' = ws
    BY <1>0, <1>2 DEF Goto, TypeOK, StoreTypeOK, locks
  <2>2. OthersKept(r) BY <1>0, <1>2, <2>1 DEF OthersKept, Goto, TypeOK
  <2>3. Ready(r)' /\ OrderWellFormed(r)'
    BY <1>0, <2>1 DEF Intact, Ready, OrderWellFormed
  <2>4. Locked(r)' /\ Covered(r)' /\ CommitClosesAll(r)'
    BY <1>0, <2>1 DEF Intact, Locked, PastUsers, Covered, CommitClosesAll
  <2>5. WritesOwned(r)'
    BY <1>0, <2>1 DEF Intact, WritesOwned, LockedAccounts, NoWrites, NoRows
  <2> QED BY <1>0, <2>1, <2>2, <2>3, <2>4, <2>5, QuietStep DEF Intact
<1> QED BY <1>1, <1>2 DEF CheckSeen

\* FOR UPDATE on an account row keeps the invariant.
LEMMA LockUserStep ==
  ASSUME ClosingInv, TypeOK', NEW r \in Requests, NEW u \in Users, LockUser(r, u)
  PROVE  ClosingInv'
<1>0. /\ TypeOK /\ Intact(r) /\ pc[r] = "users" /\ req' = req
      /\ users' = users /\ sessions' = sessions /\ sessionSeq' = sessionSeq
      /\ seenAt' = seenAt /\ want' = want /\ rows' = rows /\ ws' = ws
      /\ sessionLock' = sessionLock
  BY DEF ClosingInv, Intact, LockUser, tables, working
<1>1. userLock[u] = NULL /\ userLock' = [userLock EXCEPT ![u] = r]
  BY DEF LockUser, TakeUserLock
<1>2. /\ pc' = [pc EXCEPT ![r] = pc'[r]]
      /\ pc'[r] \in {"users", "body", "select"}
      /\ pc'[r] # "users" => UsersToLock(r) = {u}
      /\ pc'[r] = "body" => req[r].op \in {"login", "me", "public"}
  BY <1>0 DEF LockUser, Goto, TypeOK
<1>3. OthersKept(r)
  BY <1>0, <1>1, <1>2, RequestsAssumption DEF OthersKept, TypeOK, StoreTypeOK
<1>4. Ready(r)' /\ OrderWellFormed(r)'
  BY <1>0, <1>2 DEF Intact, Ready, OrderWellFormed
<1>5. Locked(r)'
  <2>1. ASSUME PastUsers(r)', NEW v \in LockedAccounts(r) PROVE userLock'[v] = r
    <3>1. v \in Users BY <1>0 DEF LockedAccounts, TypeOK, Request
    <3>2. v = u \/ userLock[v] = r
      BY <1>2, <2>1, <3>1 DEF PastUsers, UsersToLock, HeldUsers
    <3> QED BY <1>0, <1>1, <3>1, <3>2 DEF TypeOK, StoreTypeOK
  <2> QED BY <1>0, <1>2, <2>1 DEF Intact, Locked, LockedAccounts
<1>6. Covered(r)' /\ CommitClosesAll(r)'
  <2>1. "login" # "delete" /\ "me" # "delete" /\ "public" # "delete" /\ "login" # "status"
        /\ "me" # "status" /\ "public" # "status"
    OBVIOUS
  <2> QED BY <1>0, <1>2, <2>1 DEF Covered, CommitClosesAll
<1>7. WritesOwned(r)' BY <1>0 DEF Intact, WritesOwned, NoWrites, NoRows
<1> QED BY <1>0, <1>3, <1>4, <1>5, <1>6, <1>7, QuietStep DEF Intact

\* Choosing the session rows to lock keeps the invariant.
LEMMA SelectSessionsStep ==
  ASSUME ClosingInv, TypeOK', NEW r \in Requests, SelectSessions(r)
  PROVE  ClosingInv'
<1> DEFINE candidates == {s \in SessionIds : Selected(r, s)}
<1>0. /\ TypeOK /\ Intact(r) /\ pc[r] = "select" /\ req' = req
      /\ users' = users /\ sessions' = sessions /\ sessionSeq' = sessionSeq
      /\ seenAt' = seenAt /\ rows' = rows /\ ws' = ws
      /\ userLock' = userLock /\ sessionLock' = sessionLock
  BY DEF ClosingInv, Intact, SelectSessions, tables, locks
<1>1. /\ want' = [want EXCEPT ![r] = candidates]
      /\ pc' = [pc EXCEPT ![r] = pc'[r]]
      /\ pc'[r] \in {"sessions", "body"}
      /\ pc'[r] = "body" => candidates = {}
  BY <1>0 DEF SelectSessions, Goto, TypeOK
<1>2. want'[r] = candidates BY <1>0, <1>1 DEF TypeOK
<1>3. OthersKept(r) BY <1>0, <1>1 DEF OthersKept, TypeOK
<1>4. Ready(r)' /\ OrderWellFormed(r)'
  BY <1>0, <1>1 DEF Intact, Ready, OrderWellFormed
<1>5. Locked(r)'
  <2>1. PastUsers(r) BY <1>0 DEF PastUsers
  <2> QED BY <1>0, <1>1, <1>2, <2>1 DEF Intact, Locked, LockedAccounts
<1>6. Covered(r)'
  <2>1. SelectedByOwner(r)' = SelectedByOwner(r) BY <1>0 DEF SelectedByOwner, Banning
  <2>2. ASSUME NEW s \in SessionIds, Live(sessions[s]),
               sessions[s].owner \in SelectedByOwner(r)
        PROVE  s \in candidates
    BY <2>2 DEF Selected, Live
  <2> QED BY <1>0, <1>2, <2>1, <2>2 DEF Covered
<1>7. CommitClosesAll(r)' BY <1>1 DEF CommitClosesAll
<1>8. WritesOwned(r)'
  BY <1>0 DEF Intact, WritesOwned, NoWrites, NoRows
<1> QED BY <1>0, <1>3, <1>4, <1>5, <1>6, <1>7, <1>8, QuietStep DEF Intact

\* FOR UPDATE on a session row keeps the invariant.
LEMMA LockSessionStep ==
  ASSUME ClosingInv, TypeOK', NEW r \in Requests, NEW s \in SessionIds, LockSession(r, s)
  PROVE  ClosingInv'
<1>0. /\ TypeOK /\ Intact(r) /\ pc[r] = "sessions" /\ req' = req
      /\ users' = users /\ sessions' = sessions /\ sessionSeq' = sessionSeq
      /\ seenAt' = seenAt /\ ws' = ws /\ userLock' = userLock
  BY DEF ClosingInv, Intact, LockSession, tables
<1>1. sessionLock[s] = NULL /\ sessionLock' = [sessionLock EXCEPT ![s] = r]
  BY DEF LockSession, TakeSessionLock
<1>2. /\ want' = [want EXCEPT ![r] = @ \ {s}]
      /\ rows' = [rows EXCEPT ![r] = rows'[r]]
      /\ rows'[r] = IF Selected(r, s) THEN rows[r] \cup {s} ELSE rows[r]
      /\ pc' = [pc EXCEPT ![r] = pc'[r]]
      /\ pc'[r] \in {"sessions", "body"}
      /\ pc'[r] = "body" => want[r] = {s}
  BY <1>0 DEF LockSession, Goto, TypeOK, Returned
<1>3. want'[r] = want[r] \ {s} BY <1>0, <1>2 DEF TypeOK
<1>4. OthersKept(r)
  BY <1>0, <1>1, <1>2, RequestsAssumption DEF OthersKept, TypeOK, StoreTypeOK
<1>5. Ready(r)' /\ OrderWellFormed(r)'
  BY <1>0, <1>2 DEF Intact, Ready, OrderWellFormed, Selected
<1>6. Locked(r)'
  <2>1. PastUsers(r) BY <1>0 DEF PastUsers
  <2>2. \A t \in rows[r] : t \in SessionIds /\ sessionLock[t] = r
    BY <1>0 DEF Intact, Locked, TypeOK
  <2>3. \A t \in rows'[r] : sessionLock'[t] = r
    BY <1>0, <1>1, <1>2, <2>2 DEF TypeOK, StoreTypeOK
  <2> QED BY <1>0, <1>2, <1>3, <2>1, <2>3 DEF Intact, Locked, LockedAccounts
<1>7. Covered(r)'
  <2>1. SelectedByOwner(r)' = SelectedByOwner(r) BY <1>0 DEF SelectedByOwner, Banning
  <2>2. ASSUME req[r].op \in {"delete", "status"}, NEW t \in SessionIds, Live(sessions[t]),
               sessions[t].owner \in SelectedByOwner(r)
        PROVE  t \in want'[r] \cup rows'[r]
    <3>1. t \in want[r] \cup rows[r] BY <1>0, <2>2 DEF Intact, Covered
    <3>2. Selected(r, t) BY <2>2 DEF Selected, Live
    <3> QED BY <1>2, <1>3, <3>1, <3>2
  <2> QED BY <1>0, <2>1, <2>2 DEF Covered
<1>8. CommitClosesAll(r)' BY <1>2 DEF CommitClosesAll
<1>9. WritesOwned(r)' BY <1>0, <1>2 DEF Intact, WritesOwned, NoWrites, NoRows
<1> QED BY <1>0, <1>4, <1>5, <1>6, <1>7, <1>8, <1>9, QuietStep DEF Intact

-----------------------------------------------------------------------------
(***************************************************************************)
(* The callbacks.  Owned says what a write set may touch, Closes that what *)
(* it leaves closed has no live session left.                              *)
(***************************************************************************)
Owned(r, w) ==
  /\ DOMAIN w.users \subseteq LockedAccounts(r)
  /\ \A s \in DOMAIN w.sessions :
       /\ s \in rows[r] \/ (s = sessionSeq + 1 /\ sessionSeq' = s)
       /\ Live(w.sessions[s]) => w.sessions[s].owner \in LockedAccounts(r)

Closes(r, w) ==
  \A u \in LockedAccounts(r), s \in SessionIds :
    Live(SessionAfter(w, s)) /\ SessionAfter(w, s).owner = u
      => CanLogin(UserAfter(w, u).status)

\* A callback keeps the invariant when it writes only rows it has locked and
\* revokes every session of an account it closes.
LEMMA PrepareStep ==
  ASSUME ClosingInv, TypeOK', NEW r \in Requests, pc[r] = "body",
         NEW w, NEW result, Prepare(r, w, result), Owned(r, w), Closes(r, w),
         UNCHANGED <<clock, tables, req>>, sessionSeq' >= sessionSeq
  PROVE  ClosingInv'
<1>0. /\ TypeOK /\ IdsFresh /\ ClosedAccountsSignedOut /\ \A q \in Requests : Intact(q)
      /\ req' = req /\ users' = users /\ sessions' = sessions
      /\ sessionLock' = sessionLock /\ userLock' = userLock
      /\ seenAt' = seenAt /\ want' = want /\ rows' = rows
  BY DEF ClosingInv, Intact, Prepare, tables, locks
<1>1. /\ pc' = [pc EXCEPT ![r] = "commit"] /\ pc'[r] = "commit"
      /\ ws' = [ws EXCEPT ![r] = w] /\ ws'[r] = w
  BY <1>0 DEF Prepare, Goto, TypeOK
<1>2. OthersKept(r) BY <1>0, <1>1 DEF OthersKept, TypeOK
<1>3. TablesMove(r) BY <1>0 DEF TablesMove
<1>4. \A q \in Requests \ {r} : Intact(q)'
  BY <1>0, <1>2, <1>3, OthersIntact
<1>5. \A s \in DOMAIN w.sessions :
        /\ s \in SessionIds /\ s <= sessionSeq'
        /\ sessions[s] # NULL => sessionLock[s] = r /\ s \in rows[r]
  <2> TAKE s \in DOMAIN w.sessions
  <2>1. s \in SessionIds BY <1>1 DEF TypeOK, WriteSetOK, MapsInto
  <2>2. CASE s \in rows[r]
    <3>1. sessionLock[s] = r /\ sessions[s] # NULL
      BY <1>0, <2>2 DEF Intact, Locked, Ready
    <3>2. ~ (s > sessionSeq) BY <1>0, <2>1, <3>1 DEF IdsFresh
    <3>3. s \in Int /\ sessionSeq \in Int /\ sessionSeq' \in Int
      BY <1>0, <2>1 DEF SessionIds, TypeOK, StoreTypeOK
    <3> QED BY <2>1, <2>2, <3>1, <3>2, <3>3
  <2>3. CASE s = sessionSeq + 1 /\ sessionSeq' = s
    <3>1. s \in Int /\ sessionSeq \in Int
      BY <1>0, <2>1 DEF SessionIds, TypeOK, StoreTypeOK
    <3>2. sessions[s] = NULL BY <1>0, <2>1, <2>3, <3>1 DEF IdsFresh
    <3> QED BY <2>1, <2>3, <3>1, <3>2
  <2> QED BY <2>2, <2>3 DEF Owned
<1>6. Ready(r)' /\ OrderWellFormed(r)'
  BY <1>0, <1>1 DEF Intact, Ready, OrderWellFormed
<1>7. Locked(r)' /\ Covered(r)'
  <2>1. PastUsers(r) BY DEF PastUsers
  <2>2. SelectedByOwner(r)' = SelectedByOwner(r) BY <1>0 DEF SelectedByOwner, Banning
  <2> QED BY <1>0, <1>1, <2>1, <2>2 DEF Intact, Locked, LockedAccounts, Covered
<1>8. LockedAccounts(r)' = LockedAccounts(r) BY <1>0 DEF LockedAccounts
<1>9. WritesOwned(r)' BY <1>0, <1>1, <1>5, <1>8 DEF WritesOwned, Owned
<1>10. CommitClosesAll(r)'
  BY <1>0, <1>1, <1>8 DEF CommitClosesAll, Closes, SessionAfter, UserAfter
<1>11. IdsFresh'
  <2>1. ASSUME NEW s \in SessionIds, s > sessionSeq' PROVE sessions'[s] = NULL
    <3>1. s > sessionSeq BY <1>0, <2>1 DEF SessionIds, TypeOK, StoreTypeOK
    <3> QED BY <1>0, <3>1 DEF IdsFresh
  <2>2. ASSUME NEW q \in Requests, q # r, NEW s \in DOMAIN w.sessions,
               s \in DOMAIN ws[q].sessions
        PROVE  FALSE
    <3>1. s \in SessionIds /\ s \in Int /\ sessionSeq \in Int
      BY <1>0, <1>5 DEF SessionIds, TypeOK, StoreTypeOK
    <3>2. s <= sessionSeq /\ (sessions[s] # NULL => sessionLock[s] = q)
      BY <1>0, <2>2 DEF Intact, WritesOwned
    <3>3. s \in rows[r] BY <3>1, <3>2 DEF Owned
    <3>4. sessionLock[s] = r /\ sessions[s] # NULL
      BY <1>0, <3>3 DEF Intact, Locked, Ready
    <3> QED BY <2>2, <3>2, <3>4
  <2>3. \A q \in Requests : q # r => ws'[q] = ws[q] BY <1>0, <1>1 DEF TypeOK
  <2>4. ASSUME NEW p \in Requests, NEW q \in Requests, p # q
        PROVE  DOMAIN ws'[p].sessions \cap DOMAIN ws'[q].sessions = {}
    <3>1. CASE p # r /\ q # r BY <1>0, <2>3, <2>4, <3>1 DEF IdsFresh
    <3>2. CASE p = r BY <1>1, <2>2, <2>3, <2>4, <3>2
    <3>3. CASE q = r BY <1>1, <2>2, <2>3, <2>4, <3>3
    <3> QED BY <3>1, <3>2, <3>3
  <2> QED BY <2>1, <2>4 DEF IdsFresh
<1>12. ClosedAccountsSignedOut' BY <1>0 DEF ClosedAccountsSignedOut
<1> QED BY <1>4, <1>6, <1>7, <1>9, <1>10, <1>11, <1>12 DEF ClosingInv, Intact

\* A recovery never closes or opens an account.
LEMMA RecoveredOpen ==
  ASSUME NEW row, NEW t
  PROVE  CanLogin(Recovered(row, t).status) <=> CanLogin(row.status)
BY DEF Recovered, MuteExpired, CanLogin

\* Operations on one account lock exactly that account.
LEMMA OwnAccount ==
  ASSUME TypeOK, NEW r \in Requests, Ready(r), pc[r] = "body", req[r].op # "status"
  PROVE  req[r].user \in Users /\ LockedAccounts(r) = {req[r].user}
BY NullUser DEF Ready, LockedAccounts

\* The callback of every operation does both, so it keeps the invariant.
LEMMA BodyStep ==
  ASSUME ClosingInv, TypeOK', NEW r \in Requests, Body(r)
  PROVE  ClosingInv'
<1> DEFINE u == req[r].user
<1>0. /\ TypeOK /\ ClosedAccountsSignedOut /\ Intact(r) /\ pc[r] = "body"
      /\ clock \in Nat /\ clock # NULL /\ UNCHANGED <<clock, tables, req>>
  <2>1. clock \in Int /\ clock # NULL
    BY NullAssumption DEF ClosingInv, TypeOK, StoreTypeOK
  <2> QED
    BY <2>1 DEF ClosingInv, Intact, TypeOK, StoreTypeOK, Body, InBody, LoginTx, RefreshTx,
                RecoverTx, UpdateMeTx, DeleteMeTx, ChangeUserStatusTx
<1>1. sessionSeq >= sessionSeq /\ sessionSeq + 1 >= sessionSeq
  BY <1>0 DEF TypeOK, StoreTypeOK
<1>2. CASE Refuse(r)
  BY <1>0, <1>2, FinishIntact, QuietStep DEF Refuse, tables, Intact
<1>3. req[r].op # "status" => u \in Users /\ LockedAccounts(r) = {u}
  BY <1>0, OwnAccount DEF Intact
<1>4. CASE LoginTx(r) /\ ~ Refuse(r)
  <2> DEFINE w == LoginWrites(r, sessionSeq + 1, clock)
  <2>1. LockedAccounts(r) = {u} BY <1>3, <1>4 DEF LoginTx, InBody
  <2>2. Prepare(r, w, "ok") /\ sessionSeq' = sessionSeq + 1 /\ CanLogin(users[u].status)
    BY <1>4 DEF LoginTx, LoginAdmitted
  <2>3. Owned(r, w) BY <2>1, <2>2 DEF Owned, LoginWrites, RecoverUser, NewSession
  <2>4. Closes(r, w)
    BY <2>1, <2>2, RecoveredOpen DEF Closes, LoginWrites, UserAfter, RecoverUser
  <2> HIDE DEF w
  <2> QED BY <1>0, <1>1, <2>2, <2>3, <2>4, PrepareStep
<1>5. CASE RefreshTx(r) /\ ~ Refuse(r)
  <2> DEFINE w == RefreshWrites(r, clock)
  <2>1. LockedAccounts(r) = {u} BY <1>3, <1>5 DEF RefreshTx, InBody
  <2>2. Prepare(r, w, "ok") /\ sessionSeq' = sessionSeq /\ RefreshAdmitted(r, clock)
    BY <1>5 DEF RefreshTx
  <2>3. sessions[req[r].session] \in SessionRow /\ sessions[req[r].session].owner = u
    BY <1>0, <2>2 DEF RefreshAdmitted, Usable, Live, TypeOK, StoreTypeOK
  <2>4. [sessions[req[r].session] EXCEPT !.token = r].owner = u
    BY <2>3 DEF SessionRow
  <2>5. Owned(r, w)
    BY <2>1, <2>2, <2>4 DEF Owned, RefreshWrites, RecoverUser, RefreshAdmitted
  <2>6. Closes(r, w)
    BY <2>1, <2>2, RecoveredOpen DEF Closes, RefreshWrites, UserAfter, RecoverUser, RefreshAdmitted
  <2> HIDE DEF w
  <2> QED BY <1>0, <1>1, <2>2, <2>5, <2>6, PrepareStep
<1>6. CASE RecoverTx(r)
  <2> DEFINE w == RecoverWrites(r, seenAt[r])
             result == IF req[r].op = "me" /\ ~ CanLogin(users[u].status)
                         THEN "refused" ELSE "ok"
  <2>1. LockedAccounts(r) = {u} BY <1>3, <1>6 DEF RecoverTx, InBody
  <2>2. Prepare(r, w, result) /\ sessionSeq' = sessionSeq BY <1>6 DEF RecoverTx
  <2>3. Owned(r, w) BY <2>1 DEF Owned, RecoverWrites, RecoverUser, NoRows
  <2>4. Closes(r, w)
    BY <1>0, <2>1, RecoveredOpen
    DEF Closes, RecoverWrites, UserAfter, SessionAfter, RecoverUser, NoRows,
        ClosedAccountsSignedOut
  <2> HIDE DEF w, result
  <2> QED BY <1>0, <1>1, <2>2, <2>3, <2>4, PrepareStep
<1>7. CASE UpdateMeTx(r) /\ ~ Refuse(r)
  <2> DEFINE row == Recovered(users[u], clock)
  <2>1. LockedAccounts(r) = {u} /\ u \in Users BY <1>3, <1>7 DEF UpdateMeTx, InBody
  <2>2. PICK changed \in BOOLEAN : Prepare(r, UpdateWrites(r, changed, clock), "ok")
    BY <1>7 DEF UpdateMeTx
  <2> DEFINE new == EditedRow(row, changed, clock)
             w == UpdateWrites(r, changed, clock)
  <2>3. sessionSeq' = sessionSeq /\ UpdateAdmitted(r, clock)
    BY <1>7 DEF UpdateMeTx
  <2>4. CanLogin(row.status)
    BY <2>3, RecoveredOpen DEF UpdateAdmitted, CanEditProfile, CanLogin
  <2>5. row \in UserRow BY <1>0, <2>1, RecoveryType DEF TypeOK, StoreTypeOK
  <2>6. w.users = [k \in {u} |-> new] /\ w.sessions = NoRows
    BY DEF UpdateWrites
  <2> HIDE DEF row, w
  <2>7. CanLogin(new.status) BY <2>4, <2>5 DEF EditedRow, UserRow
  <2> HIDE DEF new
  <2>8. Owned(r, w) BY <2>1, <2>6 DEF Owned, NoRows
  <2>9. Closes(r, w) BY <2>1, <2>6, <2>7 DEF Closes, UserAfter
  <2>10. Prepare(r, w, "ok") BY <2>2 DEF w
  <2> QED BY <1>0, <1>1, <2>3, <2>8, <2>9, <2>10, PrepareStep
<1>rev. ASSUME NEW s \in SessionIds, sessions[s] # NULL
        PROVE  ~ Live([sessions[s] EXCEPT !.revokedAt = clock])
  BY <1>0, <1>rev DEF Live, TypeOK, StoreTypeOK, SessionRow
<1>rows. \A s \in rows[r] : s \in SessionIds /\ sessions[s] # NULL
  BY <1>0 DEF Intact, Ready, TypeOK
<1>8. CASE DeleteMeTx(r) /\ ~ Refuse(r)
  <2> DEFINE w == DeleteWrites(r, clock)
  <2>1. LockedAccounts(r) = {u} /\ req[r].op = "delete"
    BY <1>3, <1>8 DEF DeleteMeTx, InBody
  <2>2. Prepare(r, w, "ok") /\ sessionSeq' = sessionSeq BY <1>8 DEF DeleteMeTx
  <2>3. Owned(r, w) BY <1>rev, <1>rows, <2>1 DEF Owned, DeleteWrites, RevokeAt
  <2>4. Closes(r, w)
    <3> SUFFICES ASSUME NEW s \in SessionIds, Live(SessionAfter(w, s)),
                        SessionAfter(w, s).owner = u
                 PROVE  FALSE
      BY <2>1 DEF Closes, DeleteWrites
    <3>1. CASE s \in rows[r]
      BY <1>rev, <1>rows, <3>1 DEF DeleteWrites, SessionAfter, RevokeAt
    <3>2. CASE s \notin rows[r]
      <4>1. Live(sessions[s]) /\ sessions[s].owner = u
        BY <3>2 DEF DeleteWrites, SessionAfter, RevokeAt
      <4>2. s \in want[r] \cup rows[r]
        BY <1>0, <2>1, <4>1 DEF Intact, Covered, SelectedByOwner
      <4> QED BY <1>0, <3>2, <4>2 DEF Intact, Locked
    <3> QED BY <3>1, <3>2
  <2> HIDE DEF w
  <2> QED BY <1>0, <1>1, <2>2, <2>3, <2>4, PrepareStep
<1>9. CASE ChangeUserStatusTx(r) /\ ~ Refuse(r)
  <2> DEFINE target == req[r].target
             row    == Recovered(users[target], clock)
             U == [k \in {u, target} |-> IF k = target THEN OrderedRow(r, row, clock)
                                                      ELSE Recovered(users[u], clock)]
             A == [k \in {u, target} |->
                     IF k = target
                       THEN RecoveryAudit(users[target], clock) \o OrderAudit(r, row, clock)
                       ELSE RecoveryAudit(users[u], clock)]
             w == [users |-> U, sessions |-> RevokeAt(TargetSessions(r), clock), audits |-> A]
  <2>1. /\ Prepare(r, w, "ok") /\ sessionSeq' = sessionSeq
        /\ ActorAdmitted(r, clock) /\ OrderAdmitted(r, clock) /\ req[r].op = "status"
    BY <1>9 DEF ChangeUserStatusTx, InBody, StatusWrites
  <2>2. u \in Users /\ target \in Users /\ u # target
    BY <1>0, <2>1 DEF Intact, Ready, OrderWellFormed, OrderAdmitted
  <2>3. LockedAccounts(r) = {u, target} BY <2>1, <2>2, NullUser DEF LockedAccounts
  <2>4. TargetSessions(r) \subseteq rows[r] BY DEF TargetSessions
  <2>5. Owned(r, w)
    BY <1>rev, <1>rows, <2>3, <2>4 DEF Owned, RevokeAt
  <2>6. CanLogin(Recovered(users[u], clock).status)
    <3>1. users[u].status \in Statuses
      BY <1>0, <2>2 DEF TypeOK, StoreTypeOK, UserRow
    <3>2. CanLogin(users[u].status)
      BY <2>1, <3>1 DEF ActorAdmitted, Statuses, CanLogin
    <3> QED BY <3>2, RecoveredOpen
  <2>7. ASSUME ~ CanLogin(OrderedRow(r, row, clock).status),
               NEW s \in SessionIds, Live(sessions[s]), sessions[s].owner = target
        PROVE  ~ NoOp(r, row) /\ s \in TargetSessions(r)
    <3>1. ~ NoOp(r, row)
      <4> SUFFICES ASSUME NoOp(r, row) PROVE FALSE OBVIOUS
      <4>1. ~ CanLogin(users[target].status)
        BY <2>7, RecoveredOpen DEF OrderedRow
      <4> QED BY <1>0, <2>7, <4>1 DEF ClosedAccountsSignedOut
    <3>2. req[r].status = "banned"
      <4>1. ~ CanLogin(req[r].status) BY <2>7, <3>1 DEF OrderedRow
      <4> QED BY <1>0, <2>1, <4>1 DEF Intact, Ready, AdministrativeStatuses, CanLogin
    <3>3. req[r].until = NULL
      BY <1>0, <2>1, <3>2 DEF Intact, OrderWellFormed
    <3>4. Banning(r)
      <4> SUFFICES ASSUME users[target].status = "banned", users[target].mutedUntil = NULL
                   PROVE  FALSE
        BY <2>1, <3>2 DEF Banning
      <4>1. row = users[target] BY DEF Recovered, MuteExpired
      <4> QED BY <3>1, <3>2, <3>3, <4>1 DEF NoOp
    <3>5. s \in want[r] \cup rows[r]
      BY <1>0, <2>1, <2>7, <3>4 DEF Intact, Covered, SelectedByOwner
    <3>6. s # req[r].session
      BY <2>1, <2>2, <2>7 DEF ActorAdmitted, Usable
    <3> QED BY <1>0, <3>1, <3>2, <3>5, <3>6 DEF Intact, Locked, TargetSessions
  <2>8. Closes(r, w)
    <3> SUFFICES ASSUME NEW v \in {u, target}, NEW s \in SessionIds,
                        Live(SessionAfter(w, s)), SessionAfter(w, s).owner = v
                 PROVE  CanLogin(UserAfter(w, v).status)
      BY <2>3 DEF Closes
    <3>1. CASE v = u BY <2>2, <2>6, <3>1 DEF UserAfter
    <3>2. CASE v = target
      <4>1. s \notin TargetSessions(r)
        BY <1>rev, <1>rows, <2>4 DEF SessionAfter, RevokeAt
      <4>2. Live(sessions[s]) /\ sessions[s].owner = target
        BY <3>2, <4>1 DEF SessionAfter, RevokeAt
      <4>3. CanLogin(OrderedRow(r, row, clock).status) BY <2>7, <4>1, <4>2
      <4> QED BY <3>2, <4>3 DEF UserAfter
    <3> QED BY <3>1, <3>2
  <2> HIDE DEF w
  <2> QED BY <1>0, <1>1, <2>1, <2>5, <2>8, PrepareStep
<1> QED BY <1>2, <1>4, <1>5, <1>6, <1>7, <1>8, <1>9 DEF Body

-----------------------------------------------------------------------------
(***************************************************************************)
(* The ends of a request.                                                  *)
(***************************************************************************)
LEMMA CommitStep ==
  ASSUME ClosingInv, TypeOK', NEW r \in Requests, Commit(r) \/ CommitUnconfirmed(r)
  PROVE  ClosingInv'
<1>0. /\ TypeOK /\ IdsFresh /\ ClosedAccountsSignedOut /\ \A q \in Requests : Intact(q)
      /\ pc[r] = "commit" /\ req' = req /\ sessionSeq' = sessionSeq /\ ApplyWrites(ws[r])
  BY DEF ClosingInv, Intact, Commit, CommitUnconfirmed
<1>1. PICK result : Finish(r, result) BY DEF Commit, CommitUnconfirmed
<1>2. Intact(r)' /\ OthersKept(r) /\ ws'[r] = NoWrites
  BY <1>0, <1>1, FinishIntact DEF Intact
<1>3. \A v \in LockedAccounts(r) : userLock[v] = r
  BY <1>0 DEF Intact, Locked, PastUsers
<1>4. ASSUME NEW v \in Users
      PROVE  /\ users'[v] = UserAfter(ws[r], v)
             /\ v \notin LockedAccounts(r) => users'[v] = users[v]
  BY <1>0 DEF ApplyWrites, UserAfter, Intact, WritesOwned
<1>5. ASSUME NEW s \in SessionIds
      PROVE  /\ sessions'[s] = SessionAfter(ws[r], s)
             /\ s \in DOMAIN ws[r].sessions => sessions'[s] # NULL
             /\ s \notin DOMAIN ws[r].sessions => sessions'[s] = sessions[s]
             /\ s \in DOMAIN ws[r].sessions /\ Live(sessions'[s])
                  => sessions'[s].owner \in LockedAccounts(r)
  <2>1. s \in DOMAIN ws[r].sessions => ws[r].sessions[s] \in SessionRow
    BY <1>0 DEF TypeOK, WriteSetOK, MapsInto
  <2>2. sessions'[s] = SessionAfter(ws[r], s) BY <1>0 DEF ApplyWrites
  <2> QED BY <1>0, <2>1, <2>2, NullRowAssumption DEF SessionAfter, Intact, WritesOwned
<1>6. TablesMove(r) BY <1>3, <1>4, <1>5 DEF TablesMove
<1>7. \A q \in Requests : Intact(q)'
  <2>1. sessionSeq' >= sessionSeq BY <1>0 DEF TypeOK, StoreTypeOK
  <2> QED BY <1>0, <1>2, <1>6, <2>1, OthersIntact
<1>8. IdsFresh'
  <2>1. ASSUME NEW s \in SessionIds, s > sessionSeq PROVE sessions'[s] = NULL
    <3>1. s \notin DOMAIN ws[r].sessions
      <4>1. s \in Int /\ sessionSeq \in Int BY <1>0 DEF SessionIds, TypeOK, StoreTypeOK
      <4> QED BY <1>0, <2>1, <4>1 DEF Intact, WritesOwned
    <3> QED BY <1>0, <1>5, <2>1, <3>1 DEF IdsFresh
  <2>2. \A q \in Requests : ws'[q] = ws[q] \/ DOMAIN ws'[q].sessions = {}
    BY <1>2 DEF OthersKept, NoWrites, NoRows
  <2> QED BY <1>0, <2>1, <2>2 DEF IdsFresh
<1>9. ClosedAccountsSignedOut'
  <2> SUFFICES ASSUME NEW s \in SessionIds, Live(sessions'[s])
               PROVE  CanLogin(users'[sessions'[s].owner].status)
    BY DEF ClosedAccountsSignedOut
  <2> DEFINE o == sessions'[s].owner
  <2>1. o \in Users BY DEF Live, TypeOK, StoreTypeOK, SessionRow
  <2>2. CASE o \in LockedAccounts(r)
    BY <1>0, <1>4, <1>5, <2>1, <2>2 DEF Intact, CommitClosesAll
  <2>3. CASE o \notin LockedAccounts(r)
    <3>1. sessions'[s] = sessions[s] BY <1>5, <2>3
    <3>2. users'[o] = users[o] BY <1>4, <2>1, <2>3
    <3> QED BY <1>0, <3>1, <3>2 DEF ClosedAccountsSignedOut
  <2> QED BY <2>2, <2>3
<1> QED BY <1>7, <1>8, <1>9 DEF ClosingInv, Intact

\* The single-statement revocation of a logout keeps the invariant.
LEMMA RevokeSessionStep ==
  ASSUME ClosingInv, TypeOK', NEW r \in Requests, RevokeSession(r) \/ RevokeUnconfirmed(r)
  PROVE  ClosingInv'
<1>0. /\ TypeOK /\ IdsFresh /\ ClosedAccountsSignedOut /\ \A q \in Requests : Intact(q)
      /\ req' = req /\ users' = users /\ sessionSeq' = sessionSeq
  BY DEF ClosingInv, Intact, RevokeSession, RevokeUnconfirmed, RevokeRow
<1>r. RevokeRow(r) /\ \E result : Finish(r, result)
  BY DEF RevokeSession, RevokeUnconfirmed
<1>1. Intact(r)' /\ OthersKept(r) /\ ws'[r] = NoWrites
  BY <1>0, <1>r, FinishIntact DEF Intact
\* At most one session changes, and it only stops being live.
<1>2. ASSUME NEW s \in SessionIds
      PROVE  /\ sessions[s] = NULL <=> sessions'[s] = NULL
             /\ Live(sessions'[s]) => Live(sessions[s]) /\ sessions[s].owner = sessions'[s].owner
  <2>1. CASE sessions'[s] = sessions[s] BY <2>1
  <2>2. CASE /\ Live(sessions[s])
             /\ sessions'[s] = [sessions[s] EXCEPT !.revokedAt = seenAt[r]]
    <3>1. sessions[s] \in SessionRow BY <1>0, <2>2 DEF Live, TypeOK, StoreTypeOK
    <3>2. sessions'[s].owner = sessions[s].owner BY <2>2, <3>1 DEF SessionRow
    <3>3. seenAt[r] \in Nat \cup {NULL} BY <1>0 DEF TypeOK
    <3>4. sessions'[s] \in SessionRow BY <2>2, <3>1, <3>3 DEF SessionRow
    <3> QED BY <2>2, <3>1, <3>2, <3>4, NullRowAssumption
  <2>3. \/ sessions' = sessions
        \/ /\ Live(sessions[req[r].session])
           /\ sessions' = [sessions EXCEPT ![req[r].session].revokedAt = seenAt[r]]
    BY <1>r DEF RevokeRow
  <2> QED BY <1>0, <2>1, <2>2, <2>3 DEF TypeOK, StoreTypeOK
<1>3. TablesMove(r) BY <1>0, <1>2 DEF TablesMove
<1>4. \A q \in Requests : Intact(q)'
  <2>1. sessionSeq' >= sessionSeq BY <1>0 DEF TypeOK, StoreTypeOK
  <2> QED BY <1>0, <1>1, <1>3, <2>1, OthersIntact
<1>5. IdsFresh'
  <2>1. \A q \in Requests : ws'[q] = ws[q] \/ DOMAIN ws'[q].sessions = {}
    BY <1>1 DEF OthersKept, NoWrites, NoRows
  <2> QED BY <1>0, <1>2, <2>1 DEF IdsFresh
<1>6. ClosedAccountsSignedOut' BY <1>0, <1>2 DEF ClosedAccountsSignedOut
<1> QED BY <1>4, <1>5, <1>6 DEF ClosingInv, Intact

\* A request whose context ends keeps the invariant: its transaction rolls back.
LEMMA CutStep ==
  ASSUME ClosingInv, TypeOK', NEW r \in Requests, Cut(r)
  PROVE  ClosingInv'
<1>1. /\ TypeOK /\ Intact(r) /\ req' = req /\ UNCHANGED <<users, sessions, sessionSeq>>
      /\ Finish(r, "internal")
  BY DEF ClosingInv, Intact, Cut, tables
<1> QED BY <1>1, FinishIntact, QuietStep DEF Intact

\* The clock, and stuttering: nothing the invariant is about changes.
LEMMA ClockStep ==
  ASSUME ClosingInv, Tick \/ Answered \/ UNCHANGED vars
  PROVE  ClosingInv'
<1>1. /\ clock' \in Nat
      /\ UNCHANGED <<users, sessions, audits, sessionSeq, userLock, sessionLock, pc, req,
                     seen, seenAt, want, rows, ws, answer, reply>>
  BY DEF ClosingInv, TypeOK, StoreTypeOK, Tick, Answered, vars, tables, locks, working
<1>2. TypeOK' BY <1>1 DEF ClosingInv, TypeOK, StoreTypeOK, WriteSetOK
<1>3. ASSUME NEW r \in Requests PROVE Intact(r)'
  <2>1. Intact(r) BY DEF ClosingInv, Intact
  <2>2. LockedAccounts(r)' = LockedAccounts(r) BY <1>1 DEF LockedAccounts
  <2>3. SelectedByOwner(r)' = SelectedByOwner(r) BY <1>1 DEF SelectedByOwner, Banning
  <2>4. Ready(r)' /\ OrderWellFormed(r)' BY <1>1, <2>1 DEF Intact, Ready, OrderWellFormed
  <2>5. Locked(r)' BY <1>1, <2>1, <2>2 DEF Intact, Locked, PastUsers
  <2>6. Covered(r)' BY <1>1, <2>1, <2>3 DEF Intact, Covered
  <2>7. WritesOwned(r)' BY <1>1, <2>1, <2>2 DEF Intact, WritesOwned
  <2>8. CommitClosesAll(r)'
    BY <1>1, <2>1, <2>2 DEF Intact, CommitClosesAll, SessionAfter, UserAfter
  <2> QED BY <2>4, <2>5, <2>6, <2>7, <2>8 DEF Intact
<1>4. IdsFresh' /\ ClosedAccountsSignedOut'
  BY <1>1 DEF ClosingInv, IdsFresh, ClosedAccountsSignedOut
<1> QED BY <1>2, <1>3, <1>4 DEF ClosingInv, Intact

-----------------------------------------------------------------------------
(***************************************************************************)
(* Every step of the service keeps the inductive invariant.                *)
(***************************************************************************)
LEMMA NextInvariant == ClosingInv /\ [Next]_vars => ClosingInv'
<1> SUFFICES ASSUME ClosingInv, [Next]_vars PROVE ClosingInv' OBVIOUS
<1>0. TypeOK /\ \A r \in Requests : Ready(r) BY DEF ClosingInv
<1>1. ASSUME NEW r \in Requests, Start(r) PROVE ClosingInv'
  BY <1>0, <1>1, StartType, StartStep
<1>2. ASSUME NEW r \in Requests,
             Serve(r) \/ CommitUnconfirmed(r) \/ RevokeUnconfirmed(r) \/ Cut(r)
      PROVE  ClosingInv'
  <2>1. TypeOK' BY <1>0, <1>2, ServeType
  <2>2. CASE CheckSeen(r) BY <2>1, <2>2, CheckSeenStep
  <2>3. CASE \E u \in Users : LockUser(r, u) BY <2>1, <2>3, LockUserStep
  <2>4. CASE SelectSessions(r) BY <2>1, <2>4, SelectSessionsStep
  <2>5. CASE \E s \in SessionIds : LockSession(r, s) BY <2>1, <2>5, LockSessionStep
  <2>6. CASE Body(r) BY <2>1, <2>6, BodyStep
  <2>7. CASE Commit(r) \/ CommitUnconfirmed(r) BY <2>1, <2>7, CommitStep
  <2>8. CASE RevokeSession(r) \/ RevokeUnconfirmed(r) BY <2>1, <2>8, RevokeSessionStep
  <2>9. CASE Cut(r) BY <2>1, <2>9, CutStep
  <2> QED BY <1>2, <2>2, <2>3, <2>4, <2>5, <2>6, <2>7, <2>8, <2>9 DEF Serve
<1>3. CASE Tick \/ Answered \/ UNCHANGED vars BY <1>3, ClockStep
<1> QED BY <1>1, <1>2, <1>3 DEF Next

(***************************************************************************)
(* The inductive invariant holds of every behaviour of the service.        *)
(***************************************************************************)
THEOREM Invariant == Spec => []ClosingInv
BY InitInvariant, NextInvariant, PTL DEF Spec

(***************************************************************************)
(* The tables, inputs, locks and write sets always have their types.       *)
(***************************************************************************)
THEOREM TypeCorrect == Spec => []TypeOK
<1>1. ClosingInv => TypeOK BY DEF ClosingInv
<1> QED BY <1>1, Invariant, PTL

(***************************************************************************)
(* No banned or deleted account ever has a live session, whatever logins,  *)
(* refreshes, bans and deletions interleave, are cut off, or lose the      *)
(* confirmation of their commit (Login, Refresh, DeleteMe and              *)
(* ChangeUserStatus under the row locks of LockUsers and LockSessions).    *)
(***************************************************************************)
THEOREM ClosedAccounts == Spec => []ClosedAccountsSignedOut
<1>1. ClosingInv => ClosedAccountsSignedOut BY DEF ClosingInv
<1> QED BY <1>1, Invariant, PTL
=============================================================================
