----------------------- MODULE IdentityHistoryProofs -----------------------
(***************************************************************************)
(* Proofs about the history of the identity tables, for any accounts,      *)
(* requests, sessions and times: what one commit makes of each account and *)
(* each session, that refresh secrets are spent once, and that the service *)
(* implements AccountPolicy.                                               *)
(***************************************************************************)
EXTENDS IdentityProofs, IdentityRefinement, SequenceTheorems

(***************************************************************************)
(* What the part of the invariant about request q depends on: all a request *)
(* keeps for itself, the rows it has locked, and that no session row ever  *)
(* goes away or changes its date.                                          *)
(***************************************************************************)
Undisturbed(q) ==
  /\ pc'[q] = pc[q] /\ req'[q] = req[q] /\ seenAt'[q] = seenAt[q]
  /\ rows'[q] = rows[q] /\ ws'[q] = ws[q]
  /\ PastUsers(q) => \A u \in LockedAccounts(q) : users'[u] = users[u]
  /\ \A s \in rows[q] : sessions'[s] = sessions[s]
  /\ \A s \in SessionIds : sessions[s] # NULL =>
       sessions'[s] # NULL /\ sessions'[s].createdAt = sessions[s].createdAt
  /\ \A s \in DOMAIN ws[q].sessions : sessions[s] = NULL => sessions'[s] = NULL
  /\ clock' \in Nat /\ clock' >= clock

\* A banning order stays one while it holds its target.
LEMMA BanningKept ==
  ASSUME TypeOK, NEW q \in Requests, Undisturbed(q), PastUsers(q)
  PROVE  Banning(q)' <=> Banning(q)
<1>1. req[q].op = "status" /\ req[q].target \in Users
        => users'[req[q].target] = users[req[q].target]
  BY NullUser DEF Undisturbed, LockedAccounts
<1>2. req'[q] = req[q] BY DEF Undisturbed
<1> QED BY <1>1, <1>2 DEF Banning

\* A row given to q keeps matching the WHERE clause that selected it.
LEMMA SelectedKept ==
  ASSUME TypeOK, NEW q \in Requests, Undisturbed(q), RowsMatch(q), NEW s \in rows[q]
  PROVE  Selected(q, s)'
<1>1. PastUsers(q) /\ Selected(q, s) BY DEF RowsMatch, PastUsers
<1>2. sessions'[s] = sessions[s] /\ req'[q] = req[q] BY DEF Undisturbed
<1>3. Banning(q)' <=> Banning(q) BY <1>1, BanningKept
<1> QED BY <1>1, <1>2, <1>3 DEF Selected, SelectedById, SelectedByOwner

\* What a callback would decide and write does not change while its rows are held.
LEMMA DecidedKept ==
  ASSUME TypeOK, NEW q \in Requests, Undisturbed(q), Ready(q), pc[q] = "commit",
         NEW t \in Nat, DecidedAt(q, t), StampsRise(q, t)
  PROVE  DecidedAt(q, t)' /\ StampsRise(q, t)'
<1>1. /\ req'[q] = req[q] /\ rows'[q] = rows[q] /\ ws'[q] = ws[q]
      /\ LockedAccounts(q)' = LockedAccounts(q)
  BY DEF Undisturbed, LockedAccounts
<1>2. /\ \A u \in LockedAccounts(q) : users'[u] = users[u]
      /\ \A s \in rows[q] : sessions'[s] = sessions[s]
  BY DEF Undisturbed, PastUsers
<1>3. req[q].user \in LockedAccounts(q)
  BY NullUser DEF Ready, LockedAccounts
<1>4. users'[req[q].user] = users[req[q].user] BY <1>2, <1>3
<1>5. StampsRise(q, t)' BY <1>1, <1>2 DEF StampsRise
<1>6. /\ RecoverUser(req[q].user, t)' = RecoverUser(req[q].user, t)
      /\ RecoveryAudits(req[q].user, t)' = RecoveryAudits(req[q].user, t)
  BY <1>1, <1>4 DEF RecoverUser, RecoveryAudits
<1>7. req[q].session \in rows[q] => sessions'[req[q].session] = sessions[req[q].session]
  BY <1>2
<1>8. CASE req[q].op = "login" /\ LoginAdmitted(q)
  <2>1. PICK id \in SessionIds : sessions[id] = NULL /\ ws[q] = LoginWrites(q, id, t)
    BY <1>8 DEF DecidedAt
  <2>2. id \in DOMAIN ws[q].sessions BY <2>1 DEF LoginWrites
  <2>3. sessions'[id] = NULL BY <2>1, <2>2 DEF Undisturbed
  <2>4. LoginWrites(q, id, t)' = LoginWrites(q, id, t) BY <1>1, <1>6 DEF LoginWrites
  <2>5. LoginAdmitted(q)' BY <1>1, <1>4, <1>8 DEF LoginAdmitted
  <2> QED BY <1>1, <1>5, <1>8, <2>1, <2>3, <2>4, <2>5 DEF DecidedAt
<1>9. CASE req[q].op = "refresh" /\ RefreshAdmitted(q, t) /\ ws[q] = RefreshWrites(q, t)
  <2>1. RefreshAdmitted(q, t)' BY <1>1, <1>4, <1>7, <1>9 DEF RefreshAdmitted
  <2>2. sessions'[req[q].session] = sessions[req[q].session]
    BY <1>7, <1>9 DEF RefreshAdmitted
  <2>3. RefreshWrites(q, t)' = RefreshWrites(q, t) BY <1>1, <1>6, <2>2 DEF RefreshWrites
  <2> QED BY <1>1, <1>5, <1>9, <2>1, <2>3 DEF DecidedAt
<1>10. CASE req[q].op \in {"me", "public"} /\ ws[q] = RecoverWrites(q, t)
  <2>1. RecoverWrites(q, t)' = RecoverWrites(q, t) BY <1>1, <1>6 DEF RecoverWrites
  <2> QED BY <1>1, <1>5, <1>10, <2>1 DEF DecidedAt
<1>11. CASE req[q].op = "update" /\ UpdateAdmitted(q, t)
  <2>1. PICK changed \in BOOLEAN : ws[q] = UpdateWrites(q, changed, t)
    BY <1>11 DEF DecidedAt
  <2>2. UpdateWrites(q, changed, t)' = UpdateWrites(q, changed, t)
    BY <1>1, <1>4, <1>6 DEF UpdateWrites
  <2>3. UpdateAdmitted(q, t)'
    BY <1>1, <1>4, <1>7, <1>11 DEF UpdateAdmitted, ProfileSessionValid
  <2> QED BY <1>1, <1>5, <1>11, <2>1, <2>2, <2>3 DEF DecidedAt
<1>12. CASE req[q].op = "delete" /\ DeleteAdmitted(q, t) /\ ws[q] = DeleteWrites(q, t)
  <2>1. DeleteAdmitted(q, t)'
    BY <1>1, <1>4, <1>7, <1>12 DEF DeleteAdmitted, ProfileSessionValid
  <2>2. RevokeAt(rows[q], t)' = RevokeAt(rows[q], t) BY <1>1, <1>2 DEF RevokeAt
  <2>3. DeleteWrites(q, t)' = DeleteWrites(q, t) BY <1>1, <1>6, <2>2 DEF DeleteWrites
  <2> QED BY <1>1, <1>5, <1>12, <2>1, <2>3 DEF DecidedAt
<1>13. CASE /\ req[q].op = "status" /\ ActorAdmitted(q, t) /\ OrderAdmitted(q, t)
            /\ ws[q] = StatusWrites(q, t)
  <2>1. req[q].target \in Users /\ req[q].target \in LockedAccounts(q)
    BY <1>13, NullUser DEF OrderAdmitted, LockedAccounts
  <2>2. users'[req[q].target] = users[req[q].target] BY <1>2, <2>1
  <2>3. ActorAdmitted(q, t)' BY <1>1, <1>4, <1>7, <1>13 DEF ActorAdmitted
  <2>4. OrderAdmitted(q, t)' BY <1>1, <2>2, <1>13 DEF OrderAdmitted
  <2>5. TargetSessions(q)' = TargetSessions(q) /\ TargetSessions(q) \subseteq rows[q]
    BY <1>1 DEF TargetSessions
  <2>6. RevokeAt(TargetSessions(q), t)' = RevokeAt(TargetSessions(q), t)
    BY <1>2, <2>5 DEF RevokeAt
  <2>7. \A row : /\ OrderedRow(q, row, t)' = OrderedRow(q, row, t)
                 /\ OrderAudit(q, row, t)' = OrderAudit(q, row, t)
    BY <1>1 DEF OrderedRow, OrderAudit, NoOp
  <2>8. StatusWrites(q, t)' = StatusWrites(q, t)
    BY <1>1, <1>4, <2>2, <2>6, <2>7 DEF StatusWrites
  <2> QED BY <1>1, <1>5, <1>13, <2>3, <2>4, <2>8 DEF DecidedAt
<1> QED BY <1>8, <1>9, <1>10, <1>11, <1>12, <1>13 DEF DecidedAt

\* The part of the invariant about q survives any step that does not disturb q.
LEMMA UndisturbedKept ==
  ASSUME TypeOK, NEW q \in Requests, Undisturbed(q),
         Ready(q), Sampled(q), RowsMatch(q), Decided(q)
  PROVE  Sampled(q)' /\ RowsMatch(q)' /\ Decided(q)'
<1>1. Sampled(q)'
  <2>1. seenAt[q] \in Nat \cup {NULL} /\ clock \in Nat BY DEF TypeOK, StoreTypeOK
  <2> QED BY <2>1 DEF Undisturbed, Sampled
<1>2. RowsMatch(q)' BY SelectedKept DEF Undisturbed, RowsMatch
<1>3. Decided(q)'
  <2> SUFFICES ASSUME pc[q] = "commit" PROVE Decided(q)'
    BY DEF Decided, Undisturbed
  <2>1. PICK t \in 0 .. clock : DecidedAt(q, t) /\ StampsRise(q, t) BY DEF Decided
  <2>2. t \in Nat /\ t \in 0 .. clock' BY DEF TypeOK, StoreTypeOK, Undisturbed
  <2>3. DecidedAt(q, t)' /\ StampsRise(q, t)' BY <2>1, <2>2, DecidedKept
  <2> QED BY <2>2, <2>3 DEF Decided
<1> QED BY <1>1, <1>2, <1>3

-----------------------------------------------------------------------------
(***************************************************************************)
(* What a commit, at time t of its callback, makes of one account and of   *)
(* one session.  OrderObeyed is a change of status that an administrator   *)
(* ordered; the audit entry of an order follows that of a recovery.        *)
(***************************************************************************)
RecoveryLogged(u, t) == audits'[u] = audits[u] \o RecoveryAudit(users[u], t)

OrderObeyed(u, actor, new, t) ==
  /\ users'[u] = new /\ new.updatedAt = t
  /\ MuteCheck(new)
  /\ new.status = "muted" => new.mutedUntil > t
  /\ audits'[u] = audits[u] \o (RecoveryAudit(users[u], t) \o
       << Audit("status_changed", actor, Recovered(users[u], t), new, t) >>)

AccountMoves(u, t) ==
  \/ users'[u] = users[u] /\ audits'[u] = audits[u]
  \/ users'[u] = Recovered(users[u], t) /\ RecoveryLogged(u, t)
  \/ /\ users[u].updatedAt <= t
     /\ \/ /\ users'[u] = [Recovered(users[u], t) EXCEPT !.updatedAt = t]
           /\ RecoveryLogged(u, t)
        \/ /\ users'[u] = DeletedRow(t) /\ users[u].status # "deleted"
           /\ RecoveryLogged(u, t)
        \/ \E actor \in Users, new \in UserRow : OrderObeyed(u, actor, new, t)

SessionMoves(r, s, t) ==
  \/ sessions'[s] = sessions[s]
  \/ /\ sessions[s] = NULL /\ s \in DOMAIN ws[r].sessions
     /\ \E owner \in Users : sessions'[s] = NewSession(owner, r, t, RefreshTTL)
  \/ Live(sessions[s]) /\ sessions'[s] = [sessions[s] EXCEPT !.token = r]
  \/ /\ Live(sessions[s]) /\ sessions[s].createdAt <= t
     /\ sessions'[s] = [sessions[s] EXCEPT !.revokedAt = t]

Moves(r) ==
  \E t \in 0 .. clock :
    (\A u \in Users : AccountMoves(u, t)) /\ (\A s \in SessionIds : SessionMoves(r, s, t))

\* A step that writes no table is one of these moves.
LEMMA NoMoves ==
  ASSUME TypeOK, NEW r, users' = users, audits' = audits, sessions' = sessions
  PROVE  Moves(r)
BY DEF Moves, AccountMoves, SessionMoves, TypeOK, StoreTypeOK

\* The accounts and sessions outside a write set stay as they are.
LEMMA OutsideWrites ==
  ASSUME NEW w, ApplyWrites(w), DOMAIN w.audits = DOMAIN w.users
  PROVE  /\ \A u \in Users :
              /\ u \notin DOMAIN w.users => users'[u] = users[u] /\ audits'[u] = audits[u]
              /\ u \in DOMAIN w.users =>
                   users'[u] = w.users[u] /\ audits'[u] = audits[u] \o w.audits[u]
         /\ \A s \in SessionIds :
              /\ s \notin DOMAIN w.sessions => sessions'[s] = sessions[s]
              /\ s \in DOMAIN w.sessions => sessions'[s] = w.sessions[s]
BY DEF ApplyWrites, UserAfter, AuditsAfter, SessionAfter

\* What an admitted order makes of its target.
LEMMA OrderMoves ==
  ASSUME TypeOK, TimesOrdered, NEW r \in Requests, req[r].op = "status",
         Ready(r), OrderWellFormed(r), req[r].user \in Users,
         NEW t \in Nat, OrderAdmitted(r, t), NEW u \in Users, u = req[r].target,
         users[u].updatedAt <= t,
         users'[u] = OrderedRow(r, Recovered(users[u], t), t),
         audits'[u] = audits[u] \o
           (RecoveryAudit(users[u], t) \o OrderAudit(r, Recovered(users[u], t), t))
  PROVE  AccountMoves(u, t)
<1> DEFINE row == Recovered(users[u], t)
<1>1. users[u] \in UserRow /\ row \in UserRow
  BY RecoveryType DEF TypeOK, StoreTypeOK
<1>2. CASE NoOp(r, row)
  <2>1. RecoveryAudit(users[u], t) \in Seq(AuditEntry) BY <1>1, RecoveryType
  <2>2. RecoveryAudit(users[u], t) \o << >> = RecoveryAudit(users[u], t) BY <2>1
  <2>3. users'[u] = row /\ OrderAudit(r, row, t) = << >>
    BY <1>2 DEF OrderedRow, OrderAudit
  <2> QED BY <2>2, <2>3 DEF AccountMoves, RecoveryLogged
<1>3. CASE ~ NoOp(r, row)
  <2> DEFINE new == [status |-> req[r].status, mutedUntil |-> req[r].until, updatedAt |-> t]
  <2>1. users'[u] = new BY <1>3 DEF OrderedRow
  <2>2. req[r].status \in AdministrativeStatuses /\ req[r].until \in Nat \cup {NULL}
    BY DEF Ready, TypeOK, Request
  <2>3. new \in UserRow BY <2>2 DEF UserRow, AdministrativeStatuses, Statuses
  <2>4. MuteCheck(new) BY DEF OrderWellFormed, MuteCheck
  <2>5. new.status = "muted" => new.mutedUntil > t BY DEF OrderAdmitted
  <2>6. OrderAudit(r, row, t) = << Audit("status_changed", req[r].user, row, new, t) >>
    BY <1>3 DEF OrderAudit, OrderedRow
  <2>7. new.updatedAt = t OBVIOUS
  <2> HIDE DEF new
  <2>8. OrderObeyed(u, req[r].user, new, t)
    BY <2>1, <2>4, <2>5, <2>6, <2>7 DEF OrderObeyed
  <2> QED BY <2>3, <2>8 DEF AccountMoves
<1> QED BY <1>2, <1>3

\* A commit makes these moves, at the time of its callback.
LEMMA CommitMoves ==
  ASSUME HistoryInv, NEW r \in Requests, pc[r] = "commit", ApplyWrites(ws[r])
  PROVE  Moves(r)
<1>0. /\ TypeOK /\ TimesOrdered /\ Ready(r) /\ OrderWellFormed(r) /\ RowsMatch(r)
      /\ req[r].user \in Users
  BY DEF HistoryInv, ClosingInv, Ready
<1>1. PICK t \in 0 .. clock : DecidedAt(r, t) /\ StampsRise(r, t)
  BY DEF HistoryInv, Decided
<1>2. t \in Nat BY <1>0 DEF TypeOK, StoreTypeOK
<1> DEFINE w == ws[r]
           o == req[r].user
           Done == (\A u \in Users : AccountMoves(u, t))
                   /\ (\A s \in SessionIds : SessionMoves(r, s, t))
<1> SUFFICES Done BY DEF Moves
<1>3. req[r].op \notin {"me", "public"} =>
        /\ \A u \in LockedAccounts(r) : users[u].updatedAt <= t
        /\ \A s \in rows[r] : sessions[s].createdAt <= t
  BY <1>1 DEF StampsRise
<1>4. o \in LockedAccounts(r) BY <1>0, NullUser DEF LockedAccounts
<1>w. ASSUME DOMAIN w.audits = DOMAIN w.users
      PROVE  /\ \A u \in Users :
                  /\ u \notin DOMAIN w.users => users'[u] = users[u] /\ audits'[u] = audits[u]
                  /\ u \in DOMAIN w.users =>
                       users'[u] = w.users[u] /\ audits'[u] = audits[u] \o w.audits[u]
             /\ \A s \in SessionIds :
                  /\ s \notin DOMAIN w.sessions => sessions'[s] = sessions[s]
                  /\ s \in DOMAIN w.sessions => sessions'[s] = w.sessions[s]
  BY <1>w, OutsideWrites
\* The account of a request whose writes are only those of a recovery.
<1>5. ASSUME w.users = RecoverUser(o, t), w.audits = RecoveryAudits(o, t), NEW u \in Users
      PROVE  AccountMoves(u, t)
  <2>1. DOMAIN w.audits = {o} /\ DOMAIN w.users = {o}
    BY <1>5 DEF RecoverUser, RecoveryAudits
  <2>2. u = o => /\ w.users[u] = Recovered(users[u], t)
                 /\ w.audits[u] = RecoveryAudit(users[u], t)
    BY <1>5 DEF RecoverUser, RecoveryAudits
  <2> QED BY <2>1, <2>2, <1>w DEF AccountMoves, RecoveryLogged
\* The sessions of a request that revokes some of the rows it was given.
<1>6. ASSUME req[r].op \notin {"me", "public"},
             NEW ids, ids \subseteq rows[r], w.sessions = RevokeAt(ids, t),
             DOMAIN w.audits = DOMAIN w.users,
             \A s \in ids : Live(sessions[s]), NEW s \in SessionIds
      PROVE  SessionMoves(r, s, t)
  <2>1. DOMAIN w.sessions = ids BY <1>6 DEF RevokeAt
  <2>2. s \in ids => w.sessions[s] = [sessions[s] EXCEPT !.revokedAt = t]
    BY <1>6 DEF RevokeAt
  <2> QED BY <1>3, <1>6, <2>1, <2>2, <1>w DEF SessionMoves
<1>7. ASSUME w.sessions = NoRows, DOMAIN w.audits = DOMAIN w.users, NEW s \in SessionIds
      PROVE  SessionMoves(r, s, t)
  <2>1. DOMAIN w.sessions = {} BY <1>7 DEF NoRows
  <2> QED BY <2>1, <1>7, <1>w DEF SessionMoves
<1>8. CASE req[r].op = "login"
  <2>1. PICK id \in SessionIds : sessions[id] = NULL /\ w = LoginWrites(r, id, t)
    BY <1>1, <1>8 DEF DecidedAt
  <2>2. w.users = RecoverUser(o, t) /\ w.audits = RecoveryAudits(o, t)
    BY <2>1 DEF LoginWrites
  <2>3. w.sessions = [s \in {id} |-> NewSession(o, r, t, RefreshTTL)]
    BY <2>1 DEF LoginWrites
  <2>4. DOMAIN w.audits = DOMAIN w.users BY <2>2 DEF RecoverUser, RecoveryAudits
  <2>5. \A s \in SessionIds : SessionMoves(r, s, t)
    BY <1>0, <2>1, <2>3, <2>4, <1>w DEF SessionMoves
  <2> HIDE DEF w, o
  <2> QED BY <1>5, <2>2, <2>5
<1>9. CASE req[r].op = "refresh"
  <2>1. w = RefreshWrites(r, t) /\ RefreshAdmitted(r, t) BY <1>1, <1>9 DEF DecidedAt
  <2>2. w.users = RecoverUser(o, t) /\ w.audits = RecoveryAudits(o, t)
    BY <2>1 DEF RefreshWrites
  <2>3. w.sessions = [s \in {req[r].session} |-> [sessions[s] EXCEPT !.token = r]]
    BY <2>1 DEF RefreshWrites
  <2>4. DOMAIN w.audits = DOMAIN w.users BY <2>2 DEF RecoverUser, RecoveryAudits
  <2>5. Live(sessions[req[r].session]) BY <2>1 DEF RefreshAdmitted, Usable
  <2>6. \A s \in SessionIds : SessionMoves(r, s, t)
    BY <2>3, <2>4, <2>5, <1>w DEF SessionMoves
  <2> HIDE DEF w, o
  <2> QED BY <1>5, <2>2, <2>6
<1>10. CASE req[r].op \in {"me", "public"}
  <2>1. w = RecoverWrites(r, t) BY <1>1, <1>10 DEF DecidedAt
  <2>2. w.users = RecoverUser(o, t) /\ w.audits = RecoveryAudits(o, t) /\ w.sessions = NoRows
    BY <2>1 DEF RecoverWrites
  <2>3. DOMAIN w.audits = DOMAIN w.users BY <2>2 DEF RecoverUser, RecoveryAudits
  <2> HIDE DEF w, o
  <2> QED BY <1>5, <1>7, <2>2, <2>3
<1>11. CASE req[r].op = "update"
  <2>1. PICK changed \in BOOLEAN : w = UpdateWrites(r, changed, t)
    BY <1>1, <1>11 DEF DecidedAt
  <2>2. /\ w.users = [k \in {o} |-> EditedRow(Recovered(users[k], t), changed, t)]
        /\ w.audits = RecoveryAudits(o, t) /\ w.sessions = NoRows
    BY <2>1 DEF UpdateWrites
  <2>3. DOMAIN w.audits = DOMAIN w.users BY <2>2 DEF RecoveryAudits
  <2>4. ASSUME NEW u \in Users PROVE AccountMoves(u, t)
    <3>1. CASE u = o
      <4>1. users'[u] = EditedRow(Recovered(users[u], t), changed, t)
        BY <2>2, <2>3, <3>1, <1>w
      <4>2. RecoveryLogged(u, t)
        BY <2>2, <2>3, <3>1, <1>w DEF RecoveryLogged, RecoveryAudits
      <4>3. users[u].updatedAt <= t BY <1>3, <1>4, <1>11, <3>1
      <4> QED BY <4>1, <4>2, <4>3 DEF EditedRow, AccountMoves
    <3>2. CASE u # o BY <2>2, <2>3, <3>2, <1>w DEF AccountMoves
    <3> QED BY <3>1, <3>2
  <2> HIDE DEF w, o
  <2> QED BY <1>7, <2>2, <2>3, <2>4
<1>12. CASE req[r].op = "delete"
  <2>1. w = DeleteWrites(r, t) /\ DeleteAdmitted(r, t) BY <1>1, <1>12 DEF DecidedAt
  <2>2. /\ w.users = [k \in {o} |-> DeletedRow(t)]
        /\ w.audits = RecoveryAudits(o, t) /\ w.sessions = RevokeAt(rows[r], t)
    BY <2>1 DEF DeleteWrites
  <2>3. DOMAIN w.audits = DOMAIN w.users BY <2>2 DEF RecoveryAudits
  <2>4. \A s \in rows[r] : Live(sessions[s])
    BY <1>0, <1>12 DEF RowsMatch, Selected, SelectedById, Live
  <2>5. ASSUME NEW u \in Users PROVE AccountMoves(u, t)
    <3>1. CASE u = o
      <4>1. users'[u] = DeletedRow(t) BY <2>2, <2>3, <3>1, <1>w
      <4>2. RecoveryLogged(u, t)
        BY <2>2, <2>3, <3>1, <1>w DEF RecoveryLogged, RecoveryAudits
      <4>3. users[u].updatedAt <= t BY <1>3, <1>4, <1>12, <3>1
      <4>4. users[u].status # "deleted"
        BY <2>1, <3>1 DEF DeleteAdmitted, CanDeleteAccount
      <4> QED BY <4>1, <4>2, <4>3, <4>4 DEF AccountMoves
    <3>2. CASE u # o BY <2>2, <2>3, <3>2, <1>w DEF AccountMoves
    <3> QED BY <3>1, <3>2
  <2> HIDE DEF w, o
  <2> QED BY <1>6, <1>12, <2>2, <2>3, <2>4, <2>5
<1>13. CASE req[r].op = "status"
  <2> DEFINE target == req[r].target
  <2>1. w = StatusWrites(r, t) /\ OrderAdmitted(r, t) /\ ActorAdmitted(r, t)
    BY <1>1, <1>13 DEF DecidedAt
  <2>2. target \in Users /\ o # target
    BY <1>0, <1>13, <2>1 DEF OrderWellFormed, OrderAdmitted
  <2>3. DOMAIN w.users = {o, target} /\ DOMAIN w.audits = {o, target}
    BY <2>1 DEF StatusWrites
  <2>4. w.users[o] = Recovered(users[o], t) /\ w.audits[o] = RecoveryAudit(users[o], t)
    BY <2>1, <2>2 DEF StatusWrites
  <2>5. /\ w.users[target] = OrderedRow(r, Recovered(users[target], t), t)
        /\ w.audits[target] = RecoveryAudit(users[target], t)
                                \o OrderAudit(r, Recovered(users[target], t), t)
    BY <2>1 DEF StatusWrites
  <2>6. w.sessions = RevokeAt(TargetSessions(r), t) BY <2>1 DEF StatusWrites
  <2>7. target \in LockedAccounts(r) BY <1>13, <2>2, NullUser DEF LockedAccounts
  <2>8. TargetSessions(r) \subseteq rows[r] BY DEF TargetSessions
  <2>9. \A s \in TargetSessions(r) : Live(sessions[s])
    BY <1>0, <1>13 DEF TargetSessions, RowsMatch, Selected, SelectedById, Live
  <2>10. ASSUME NEW u \in Users PROVE AccountMoves(u, t)
    <3>1. CASE u = o
      BY <2>3, <2>4, <3>1, <1>w DEF AccountMoves, RecoveryLogged
    <3>2. CASE u = target
      <4>1. users[u].updatedAt <= t BY <1>3, <1>13, <2>7, <3>2
      <4> QED
        BY <1>0, <1>2, <1>13, <2>1, <2>3, <2>5, <3>2, <4>1, <1>w, OrderMoves
    <3>3. CASE u \notin {o, target} BY <2>3, <3>3, <1>w DEF AccountMoves
    <3> QED BY <3>1, <3>2, <3>3
  <2>11. DOMAIN w.audits = DOMAIN w.users BY <2>3
  <2>12. \A s \in SessionIds : SessionMoves(r, s, t)
    BY <1>6, <1>13, <2>6, <2>8, <2>9, <2>11
  <2> QED BY <2>10, <2>12
<1> QED BY <1>1, <1>8, <1>9, <1>10, <1>11, <1>12, <1>13 DEF DecidedAt

-----------------------------------------------------------------------------
(***************************************************************************)
(* The steps of one request.                                               *)
(***************************************************************************)
Step(r) == Start(r) \/ Serve(r) \/ CommitUnconfirmed(r) \/ RevokeUnconfirmed(r) \/ Cut(r)

Alone(r) ==
  \A q \in Requests \ {r} :
    /\ pc'[q] = pc[q] /\ req'[q] = req[q] /\ seenAt'[q] = seenAt[q]
    /\ rows'[q] = rows[q] /\ ws'[q] = ws[q] /\ reply'[q] = reply[q]

\* The commit and the UPDATE of a logout write the tables; r then has its answer.
Writing(r) ==
  /\ \/ pc[r] = "commit" /\ ApplyWrites(ws[r])
     \/ RevokeRow(r)
  /\ req' = req /\ \E result : Finish(r, result)

\* What answering changes is r's own.
LEMMA FinishAlone ==
  ASSUME TypeOK, NEW r \in Requests, NEW result, Finish(r, result),
         \A q \in Requests \ {r} : req'[q] = req[q]
  PROVE  Alone(r)
BY DEF Alone, Finish, Goto, TypeOK

\* A step of r changes nothing that other requests keep for themselves.
LEMMA StepAlone ==
  ASSUME TypeOK, NEW r \in Requests, Step(r)
  PROVE  Alone(r) /\ clock' = clock
<1>1. ASSUME NEW input, Arrive(r, input)
      PROVE  clock' = clock /\ \A q \in Requests \ {r} : req'[q] = req[q]
  BY <1>1 DEF Arrive, TypeOK
<1>2. ASSUME NEW input, Arrive(r, input), NEW stage, Goto(r, stage),
             rows' = rows, ws' = ws, reply' = reply,
             \A q \in Requests \ {r} : seenAt'[q] = seenAt[q]
      PROVE  Alone(r) /\ clock' = clock
  BY <1>1, <1>2 DEF Alone, Goto, TypeOK
<1>3. CASE Start(r)
  <2>1. ASSUME NEW u, StartLogin(r, u) PROVE Alone(r) /\ clock' = clock
    BY <1>1, <1>2, <2>1, FinishAlone DEF StartLogin, working
  <2>2. ASSUME NEW u, StartPublicUser(r, u) PROVE Alone(r) /\ clock' = clock
    BY <1>2, <2>2 DEF StartPublicUser
  <2>3. ASSUME NEW s, NEW secret, StartRefresh(r, s, secret) PROVE Alone(r) /\ clock' = clock
    BY <1>1, <1>2, <2>3, FinishAlone DEF StartRefresh, working
  <2>4. ASSUME NEW u, NEW s, StartLogout(r, u, s) PROVE Alone(r) /\ clock' = clock
    <3>1. \A q \in Requests \ {r} : seenAt'[q] = seenAt[q] BY <2>4 DEF StartLogout, TypeOK
    <3> QED BY <1>2, <2>4, <3>1 DEF StartLogout
  <2>5. ASSUME NEW u, NEW s, StartMe(r, u, s) PROVE Alone(r) /\ clock' = clock
    BY <1>1, <1>2, <2>5, FinishAlone DEF StartMe
  <2>6. ASSUME NEW op, NEW u, NEW s, StartProfileTx(r, op, u, s)
        PROVE  Alone(r) /\ clock' = clock
    BY <1>2, <2>6 DEF StartProfileTx, working
  <2>7. ASSUME NEW u, NEW s, NEW target, NEW status, NEW until,
               StartChangeUserStatus(r, u, s, target, status, until)
        PROVE  Alone(r) /\ clock' = clock
    <3>1. PICK input : Arrive(r, input) BY <2>7 DEF StartChangeUserStatus
    <3> QED BY <1>2, <2>7, <3>1 DEF StartChangeUserStatus, working
  <2> QED BY <1>3, <2>1, <2>2, <2>3, <2>4, <2>5, <2>6, <2>7 DEF Start
<1>4. CASE CheckSeen(r)
  <2>1. clock' = clock /\ req' = req BY <1>4 DEF CheckSeen
  <2>2. CASE \E result : Finish(r, result) BY <2>1, <2>2, FinishAlone
  <2>3. CASE /\ seenAt' = [seenAt EXCEPT ![r] = clock] /\ Goto(r, "users")
             /\ UNCHANGED <<locks, seen, want, rows, ws, answer, reply>>
    BY <2>1, <2>3 DEF Alone, Goto, TypeOK
  <2> QED BY <1>4, <2>2, <2>3 DEF CheckSeen
<1>5. ASSUME NEW u, LockUser(r, u) PROVE Alone(r) /\ clock' = clock
  BY <1>5 DEF LockUser, working, Alone, Goto, TypeOK
<1>6. CASE SelectSessions(r)
  BY <1>6 DEF SelectSessions, Alone, Goto, TypeOK
<1>7. ASSUME NEW s, LockSession(r, s) PROVE Alone(r) /\ clock' = clock
  BY <1>7 DEF LockSession, Alone, Goto, TypeOK
<1>8. CASE Body(r)
  <2>1. clock' = clock /\ req' = req
    BY <1>8 DEF Body, LoginTx, RefreshTx, RecoverTx, UpdateMeTx, DeleteMeTx, ChangeUserStatusTx
  <2>2. CASE Refuse(r) BY <2>1, <2>2, FinishAlone DEF Refuse
  <2>3. ASSUME NEW writes, NEW result, Prepare(r, writes, result) PROVE Alone(r)
    BY <2>1, <2>3 DEF Prepare, Alone, Goto, TypeOK
  <2> QED
    BY <1>8, <2>1, <2>2, <2>3
    DEF Body, LoginTx, RefreshTx, RecoverTx, UpdateMeTx, DeleteMeTx, ChangeUserStatusTx
<1>9. CASE Commit(r) \/ CommitUnconfirmed(r)
  BY <1>9, FinishAlone DEF Commit, CommitUnconfirmed
<1>10. CASE RevokeSession(r) \/ RevokeUnconfirmed(r)
  BY <1>10, FinishAlone DEF RevokeSession, RevokeUnconfirmed, RevokeRow
<1>11. CASE Cut(r) BY <1>11, FinishAlone DEF Cut
<1> QED BY <1>3, <1>4, <1>5, <1>6, <1>7, <1>8, <1>9, <1>10, <1>11 DEF Step, Serve

\* Only the two writing steps change a table.
LEMMA StepWrites ==
  ASSUME NEW r \in Requests, Step(r)
  PROVE  Writing(r) \/ (users' = users /\ sessions' = sessions /\ audits' = audits)
<1>1. CASE Start(r)
  <2>1. PICK input : Arrive(r, input)
    BY <1>1 DEF Start, StartLogin, StartPublicUser, StartRefresh, StartLogout, StartMe,
                StartProfileTx, StartChangeUserStatus
  <2> QED BY <2>1 DEF Arrive, tables
<1>2. CASE Commit(r) \/ CommitUnconfirmed(r) \/ RevokeSession(r) \/ RevokeUnconfirmed(r)
  BY <1>2 DEF Commit, CommitUnconfirmed, RevokeSession, RevokeUnconfirmed, RevokeRow, Writing
<1>3. CASE Body(r)
  BY <1>3 DEF Body, LoginTx, RefreshTx, RecoverTx, UpdateMeTx, DeleteMeTx,
              ChangeUserStatusTx, tables
<1>4. CASE CheckSeen(r) \/ (\E u \in Users : LockUser(r, u)) \/ SelectSessions(r)
           \/ (\E s \in SessionIds : LockSession(r, s)) \/ Cut(r)
  BY <1>4 DEF CheckSeen, LockUser, SelectSessions, LockSession, Cut, tables
<1> QED BY <1>1, <1>2, <1>3, <1>4 DEF Step, Serve

\* Every step of a request is one of the moves.
LEMMA StepMoves ==
  ASSUME HistoryInv, NEW r \in Requests, Step(r)
  PROVE  Moves(r)
<1>0. TypeOK /\ Sampled(r) BY DEF HistoryInv, ClosingInv
<1>1. CASE users' = users /\ sessions' = sessions /\ audits' = audits
  BY <1>0, <1>1, NoMoves
<1>2. CASE pc[r] = "commit" /\ ApplyWrites(ws[r]) BY <1>2, CommitMoves
<1>3. CASE RevokeRow(r)
  <2> DEFINE s0 == req[r].session
             t  == seenAt[r]
  <2>1. /\ users' = users /\ audits' = audits
        /\ s0 \in SessionIds /\ sessions[s0].createdAt <= t /\ t \in Nat
    BY <1>0, <1>3 DEF RevokeRow, Sampled
  <2>2. t # NULL /\ clock \in Nat
    BY <1>0, <2>1, NullAssumption DEF TypeOK, StoreTypeOK
  <2>3. t \in 0 .. clock BY <1>0, <2>1, <2>2 DEF Sampled
  <2>4. \/ sessions' = sessions
        \/ Live(sessions[s0]) /\ sessions' = [sessions EXCEPT ![s0].revokedAt = t]
    BY <1>3 DEF RevokeRow
  <2>5. \A s \in SessionIds : SessionMoves(r, s, t)
    BY <1>0, <2>1, <2>4 DEF SessionMoves, TypeOK, StoreTypeOK
  <2> QED BY <2>1, <2>3, <2>5 DEF Moves, AccountMoves
<1> QED BY <1>1, <1>2, <1>3, StepWrites DEF Writing

\* What a move leaves of a session row: its owner, its dates, and a revoked row whole.
LEMMA SessionMoved ==
  ASSUME TypeOK, TypeOK', NEW r \in Requests, NEW s \in SessionIds, NEW t \in Nat,
         SessionMoves(r, s, t)
  PROVE  /\ sessions[s] = NULL /\ s \notin DOMAIN ws[r].sessions => sessions'[s] = NULL
         /\ sessions[s] # NULL =>
              /\ sessions'[s] # NULL
              /\ sessions'[s].owner = sessions[s].owner
              /\ sessions'[s].createdAt = sessions[s].createdAt
              /\ sessions'[s].expiresAt = sessions[s].expiresAt
              /\ sessions[s].revokedAt # NULL => sessions'[s] = sessions[s]
<1>1. sessions[s] \in SessionRow \cup {NULL} /\ sessions'[s] \in SessionRow \cup {NULL}
  BY DEF TypeOK, StoreTypeOK
<1>2. CASE sessions'[s] = sessions[s] BY <1>2
<1>3. CASE sessions[s] = NULL /\ s \in DOMAIN ws[r].sessions BY <1>3
<1>4. CASE /\ Live(sessions[s])
           /\ \/ sessions'[s] = [sessions[s] EXCEPT !.token = r]
              \/ sessions'[s] = [sessions[s] EXCEPT !.revokedAt = t]
  <2>1. sessions[s] \in SessionRow /\ sessions[s].revokedAt = NULL
    BY <1>1, <1>4 DEF Live
  <2>2. /\ [sessions[s] EXCEPT !.token = r] \in SessionRow
        /\ [sessions[s] EXCEPT !.revokedAt = t] \in SessionRow
    BY <2>1 DEF SessionRow, Secrets
  <2>3. /\ sessions'[s].owner = sessions[s].owner
        /\ sessions'[s].createdAt = sessions[s].createdAt
        /\ sessions'[s].expiresAt = sessions[s].expiresAt
    BY <1>4, <2>1 DEF SessionRow
  <2> QED BY <1>4, <2>1, <2>2, <2>3, NullRowAssumption
<1> QED BY <1>2, <1>3, <1>4 DEF SessionMoves

\* A step of r disturbs no other request: it writes only rows that r has locked.
LEMMA StepUndisturbed ==
  ASSUME HistoryInv, TypeOK', NEW r \in Requests, Step(r), NEW q \in Requests, q # r
  PROVE  Undisturbed(q)
<1>0. /\ TypeOK /\ IdsFresh /\ Locked(r) /\ WritesOwned(r)
      /\ Locked(q) /\ WritesOwned(q)
  BY DEF HistoryInv, ClosingInv
<1>1. Alone(r) /\ clock' = clock BY <1>0, StepAlone
<1>2. PICK t \in 0 .. clock : \A s \in SessionIds : SessionMoves(r, s, t)
  BY StepMoves DEF Moves
<1>3. t \in Nat BY <1>0, <1>2 DEF TypeOK, StoreTypeOK
<1>4. rows[q] \subseteq SessionIds /\ DOMAIN ws[q].sessions \subseteq SessionIds
      /\ LockedAccounts(q) \subseteq Users
  BY <1>0 DEF TypeOK, WriteSetOK, MapsInto, LockedAccounts, Request
<1>5. ASSUME PastUsers(q), NEW u \in LockedAccounts(q) PROVE users'[u] = users[u]
  <2>1. userLock[u] = q BY <1>0, <1>5 DEF Locked
  <2>2. CASE users' = users BY <2>2
  <2>3. CASE pc[r] = "commit" /\ ApplyWrites(ws[r])
    <3>1. u \notin LockedAccounts(r) BY <1>0, <2>1, <2>3 DEF Locked, PastUsers
    <3> QED BY <1>0, <1>4, <2>3, <3>1 DEF WritesOwned, ApplyWrites, UserAfter
  <2> QED BY <2>2, <2>3, StepWrites DEF Writing, RevokeRow
<1>6. ASSUME NEW s \in rows[q] PROVE sessions'[s] = sessions[s]
  <2>1. sessionLock[s] = q /\ s \in SessionIds /\ sessions[s] # NULL
    BY <1>0, <1>4 DEF Locked, HistoryInv, ClosingInv, Ready
  <2>2. CASE sessions' = sessions BY <2>2
  <2>3. CASE pc[r] = "commit" /\ ApplyWrites(ws[r])
    <3>1. s \notin DOMAIN ws[r].sessions BY <1>0, <2>1 DEF WritesOwned
    <3> QED BY <2>1, <2>3, <3>1 DEF ApplyWrites, SessionAfter
  <2>4. CASE RevokeRow(r)
    <3>1. s # req[r].session \/ sessions' = sessions
      <4>1. q # NULL BY RequestsAssumption
      <4> QED BY <2>1, <2>4, <4>1 DEF RevokeRow
    <3> QED BY <1>0, <2>1, <2>4, <3>1 DEF RevokeRow, TypeOK, StoreTypeOK
  <2> QED BY <2>2, <2>3, <2>4, StepWrites DEF Writing
<1>7. ASSUME NEW s \in SessionIds, sessions[s] # NULL
      PROVE  sessions'[s] # NULL /\ sessions'[s].createdAt = sessions[s].createdAt
  BY <1>0, <1>2, <1>3, <1>7, SessionMoved
<1>8. ASSUME NEW s \in DOMAIN ws[q].sessions, sessions[s] = NULL PROVE sessions'[s] = NULL
  <2>1. s \notin DOMAIN ws[r].sessions BY <1>0 DEF IdsFresh
  <2> QED BY <1>0, <1>2, <1>3, <1>4, <1>8, <2>1, SessionMoved
<1>9. clock' \in Nat /\ clock' >= clock BY <1>0, <1>1 DEF TypeOK, StoreTypeOK
<1> QED BY <1>1, <1>5, <1>6, <1>7, <1>8, <1>9 DEF Undisturbed, Alone

-----------------------------------------------------------------------------
(***************************************************************************)
(* The inductive invariant: the rows stay in the order of their times.     *)
(***************************************************************************)
LEMMA AccountTimes ==
  ASSUME TypeOK, TypeOK', NEW u \in Users, NEW t \in 0 .. clock, AccountMoves(u, t),
         MuteCheck(users[u]), users[u].updatedAt <= clock,
         users[u].status = "muted" => users[u].updatedAt <= users[u].mutedUntil
  PROVE  /\ MuteCheck(users'[u])
         /\ users'[u].updatedAt <= clock
         /\ users'[u].status = "muted" => users'[u].updatedAt <= users'[u].mutedUntil
         /\ users'[u].updatedAt >= users[u].updatedAt
<1>0. /\ users[u] \in UserRow /\ users'[u] \in UserRow /\ clock \in Nat /\ t \in Nat
      /\ Recovered(users[u], t) \in UserRow
  BY RecoveryType DEF TypeOK, StoreTypeOK
<1>1. /\ MuteCheck(Recovered(users[u], t))
      /\ Recovered(users[u], t).status = "muted" => t <= Recovered(users[u], t).mutedUntil
      /\ MuteExpired(users[u], t) => users[u].updatedAt <= t
  BY <1>0 DEF UserRow, MuteCheck, Recovered, MuteExpired
<1>2. CASE users'[u] = users[u] BY <1>0, <1>2 DEF UserRow
<1>3. CASE users'[u] = Recovered(users[u], t)
  <2>1. CASE MuteExpired(users[u], t)
    <3>1. users'[u] = [status |-> "active", mutedUntil |-> NULL, updatedAt |-> t]
      BY <1>3, <2>1 DEF Recovered
    <3> QED BY <1>0, <1>1, <2>1, <3>1 DEF UserRow, MuteCheck
  <2>2. CASE ~ MuteExpired(users[u], t) BY <1>2, <1>3, <2>2 DEF Recovered
  <2> QED BY <2>1, <2>2
<1>4. CASE users[u].updatedAt <= t /\ users'[u] = [Recovered(users[u], t) EXCEPT !.updatedAt = t]
  <2>1. /\ users'[u].status = Recovered(users[u], t).status
        /\ users'[u].mutedUntil = Recovered(users[u], t).mutedUntil
        /\ users'[u].updatedAt = t
    BY <1>0, <1>4 DEF UserRow
  <2> QED BY <1>0, <1>1, <1>4, <2>1 DEF MuteCheck
<1>5. CASE users[u].updatedAt <= t /\ users'[u] = DeletedRow(t)
  BY <1>0, <1>5 DEF DeletedRow, MuteCheck
<1>6. CASE users[u].updatedAt <= t /\ \E actor \in Users, new \in UserRow : OrderObeyed(u, actor, new, t)
  <2>1. PICK new \in UserRow : /\ users'[u] = new /\ new.updatedAt = t /\ MuteCheck(new)
                               /\ new.status = "muted" => new.mutedUntil > t
    BY <1>6 DEF OrderObeyed
  <2>2. new.status = "muted" => t <= new.mutedUntil
    BY <1>0, <2>1 DEF UserRow, MuteCheck
  <2> QED BY <1>0, <1>6, <2>1, <2>2
<1> QED BY <1>2, <1>3, <1>4, <1>5, <1>6 DEF AccountMoves

\* The dates of a session after a move.
LEMMA SessionTimes ==
  ASSUME TypeOK, NEW r \in Requests, NEW s \in SessionIds, NEW t \in 0 .. clock,
         SessionMoves(r, s, t), sessions'[s] # NULL,
         sessions[s] # NULL => SessionRowChecks(sessions[s]) /\ sessions[s].createdAt <= clock
  PROVE  SessionRowChecks(sessions'[s]) /\ sessions'[s].createdAt <= clock
<1>0. sessions[s] \in SessionRow \cup {NULL} /\ clock \in Nat /\ t \in Nat
  BY DEF TypeOK, StoreTypeOK
<1>1. CASE sessions'[s] = sessions[s] BY <1>1
<1>2. ASSUME NEW owner, sessions'[s] = NewSession(owner, r, t, RefreshTTL)
      PROVE  SessionRowChecks(sessions'[s]) /\ sessions'[s].createdAt <= clock
  BY <1>0, <1>2, TTLAssumption DEF NewSession, SessionRowChecks
<1>3. CASE Live(sessions[s]) /\ sessions'[s] = [sessions[s] EXCEPT !.token = r]
  <2>1. sessions[s] \in SessionRow BY <1>0, <1>3 DEF Live
  <2>2. /\ sessions'[s].createdAt = sessions[s].createdAt
        /\ sessions'[s].expiresAt = sessions[s].expiresAt
        /\ sessions'[s].revokedAt = sessions[s].revokedAt
    BY <1>3, <2>1 DEF SessionRow
  <2> QED BY <1>3, <2>2 DEF Live, SessionRowChecks
<1>4. CASE /\ Live(sessions[s]) /\ sessions[s].createdAt <= t
           /\ sessions'[s] = [sessions[s] EXCEPT !.revokedAt = t]
  <2>1. sessions[s] \in SessionRow BY <1>0, <1>4 DEF Live
  <2>2. /\ sessions'[s].createdAt = sessions[s].createdAt
        /\ sessions'[s].expiresAt = sessions[s].expiresAt
        /\ sessions'[s].revokedAt = t
    BY <1>4, <2>1 DEF SessionRow
  <2>3. sessions[s].createdAt \in Nat BY <2>1 DEF SessionRow
  <2> QED BY <1>0, <1>4, <2>2, <2>3 DEF Live, SessionRowChecks
<1> QED BY <1>1, <1>2, <1>3, <1>4 DEF SessionMoves

\* A step of a request keeps the rows in the order of their times.
LEMMA TimesStep ==
  ASSUME HistoryInv, TypeOK', NEW r \in Requests, Step(r)
  PROVE  TimesOrdered'
<1>0. TypeOK /\ TimesOrdered BY DEF HistoryInv, ClosingInv
<1>1. clock' = clock BY <1>0, StepAlone
<1>2. PICK t \in 0 .. clock : /\ \A u \in Users : AccountMoves(u, t)
                              /\ \A s \in SessionIds : SessionMoves(r, s, t)
  BY StepMoves DEF Moves
<1>3. ASSUME NEW u \in Users
      PROVE  /\ MuteCheck(users'[u])
             /\ users'[u].updatedAt <= clock
             /\ users'[u].status = "muted" => users'[u].updatedAt <= users'[u].mutedUntil
  BY <1>0, <1>2, AccountTimes DEF TimesOrdered, StoreChecks
<1>4. ASSUME NEW s \in SessionIds, sessions'[s] # NULL
      PROVE  SessionRowChecks(sessions'[s]) /\ sessions'[s].createdAt <= clock
  BY <1>0, <1>2, <1>4, SessionTimes DEF TimesOrdered, StoreChecks
<1> QED BY <1>1, <1>3, <1>4 DEF TimesOrdered, StoreChecks

-----------------------------------------------------------------------------
(***************************************************************************)
(* The inductive invariant: the request that takes the step.               *)
(***************************************************************************)
OwnKept(r) == Sampled(r) /\ RowsMatch(r) /\ Decided(r)

\* An answered request keeps nothing.
LEMMA FinishOwn ==
  ASSUME TypeOK, NEW r \in Requests, Sampled(r), NEW result, Finish(r, result),
         req'[r] = req[r] \/ req'[r].op # "status"
  PROVE  OwnKept(r)'
<1>1. pc'[r] = "done" /\ rows'[r] = {} /\ seenAt'[r] = NULL
  BY DEF TypeOK, Finish, Goto
<1> QED BY <1>1 DEF OwnKept, Sampled, RowsMatch, Decided

\* A request without rows moves on to a stage before its callback.
LEMMA BeforeRowsOwn ==
  ASSUME TypeOK, NEW r \in Requests, Sampled(r), RowsMatch(r), rows'[r] = rows[r],
         pc[r] \notin {"sessions", "body", "commit"}, pc'[r] \notin {"commit", "revoke"},
         clock' = clock, seenAt'[r] \in {seenAt[r], clock},
         req'[r].op = "status" => req'[r].until \in 1 .. MaxTime \cup {NULL}
  PROVE  OwnKept(r)'
<1>1. rows'[r] = {} BY DEF RowsMatch
<1>2. clock \in Nat BY DEF TypeOK, StoreTypeOK
<1> QED BY <1>1, <1>2 DEF OwnKept, Sampled, RowsMatch, Decided

\* A request that arrives.
LEMMA StartOwn ==
  ASSUME HistoryInv, NEW r \in Requests, Start(r)
  PROVE  OwnKept(r)'
<1>0. /\ TypeOK /\ Sampled(r) /\ RowsMatch(r) /\ TimesOrdered
      /\ pc[r] = "new" => rows[r] = {}
  BY DEF HistoryInv, ClosingInv, RowsMatch
<1>op. \A u, s, op : Input(op, u, s).op = op /\ Input(op, u, s).session = s BY DEF Input
<1>1. ASSUME NEW input, Arrive(r, input)
      PROVE  pc[r] = "new" /\ req'[r] = input /\ clock' = clock /\ sessions' = sessions
  BY <1>0, <1>1 DEF Arrive, TypeOK, tables
<1>2. ASSUME NEW input, Arrive(r, input), input.op # "status",
             NEW result, Finish(r, result)
      PROVE  OwnKept(r)'
  BY <1>0, <1>1, <1>2, FinishOwn
<1>3. ASSUME NEW input, Arrive(r, input),
             input.op = "status" => input.until \in 1 .. MaxTime \cup {NULL},
             NEW stage \in {"users", "check"}, Goto(r, stage), rows' = rows, seenAt' = seenAt
      PROVE  OwnKept(r)'
  <2>1. pc'[r] = stage BY <1>0, <1>3 DEF Goto, TypeOK
  <2> QED BY <1>0, <1>1, <1>3, <2>1, BeforeRowsOwn
<1>4. ASSUME NEW u, StartLogin(r, u) PROVE OwnKept(r)'
  BY <1>2, <1>3, <1>4, <1>op DEF StartLogin, working
<1>5. ASSUME NEW u, StartPublicUser(r, u) PROVE OwnKept(r)'
  BY <1>3, <1>5, <1>op DEF StartPublicUser
<1>6. ASSUME NEW s, NEW secret, StartRefresh(r, s, secret) PROVE OwnKept(r)'
  <2>1. \A u : [Input("refresh", u, s) EXCEPT !.secret = secret].op = "refresh" BY DEF Input
  <2> QED BY <1>2, <1>3, <1>6, <2>1 DEF StartRefresh, working
<1>7. ASSUME NEW s \in SessionIds, sessions[s] # NULL, NEW u, StartLogout(r, u, s)
      PROVE  OwnKept(r)'
  <2>1. /\ req'[r] = Input("logout", u, s) /\ pc'[r] = "revoke" /\ seenAt'[r] = clock
        /\ rows'[r] = {} /\ clock' = clock /\ sessions' = sessions
    BY <1>0, <1>1, <1>7 DEF StartLogout, Goto, TypeOK
  <2>2. clock \in Nat /\ sessions[s].createdAt <= clock
    BY <1>0, <1>7 DEF TypeOK, StoreTypeOK, TimesOrdered
  <2> QED BY <1>7, <1>op, <2>1, <2>2 DEF OwnKept, Sampled, RowsMatch, Decided
<1>8. ASSUME NEW s, NEW u, StartMe(r, u, s) PROVE OwnKept(r)'
  BY <1>2, <1>3, <1>8, <1>op DEF StartMe
<1>9. ASSUME NEW op, NEW s, NEW u, StartProfileTx(r, op, u, s) PROVE OwnKept(r)'
  BY <1>3, <1>9, <1>op DEF StartProfileTx, working
<1>10. ASSUME NEW s, NEW u, NEW target, NEW status, NEW until \in 1 .. MaxTime \cup {NULL},
              StartChangeUserStatus(r, u, s, target, status, until)
       PROVE  OwnKept(r)'
  <2> DEFINE input == [Input("status", u, s) EXCEPT
                         !.target = target, !.status = status, !.until = until]
  <2>1. input.until = until BY DEF Input
  <2>2. Arrive(r, input) BY <1>10 DEF StartChangeUserStatus
  <2> HIDE DEF input
  <2> QED BY <1>3, <1>10, <2>1, <2>2 DEF StartChangeUserStatus, working
<1> QED BY <1>4, <1>5, <1>6, <1>7, <1>8, <1>9, <1>10 DEF Start

\* A row is returned only if it matches.
LEMMA LockSessionOwn ==
  ASSUME HistoryInv, NEW r \in Requests, NEW s \in SessionIds, LockSession(r, s)
  PROVE  OwnKept(r)'
<1>0. TypeOK /\ Sampled(r) /\ RowsMatch(r) BY DEF HistoryInv, ClosingInv
<1>1. /\ pc[r] = "sessions" /\ pc'[r] \in {"sessions", "body"}
      /\ users' = users /\ sessions' = sessions /\ req' = req /\ clock' = clock
      /\ seenAt' = seenAt
  BY <1>0 DEF LockSession, Goto, TypeOK, tables
<1>2. \A k \in rows'[r] : Selected(r, k)
  BY <1>0 DEF LockSession, Returned, TypeOK, RowsMatch
<1>3. \A k : Selected(r, k)' <=> Selected(r, k)
  BY <1>1 DEF Selected, SelectedById, SelectedByOwner, Banning
<1> QED BY <1>0, <1>1, <1>2, <1>3 DEF OwnKept, Sampled, RowsMatch, Decided

\* What a callback would do depends on the tables, the input and the given rows only.
LEMMA CallbackSame ==
  ASSUME NEW r \in Requests, NEW t \in Nat,
         users' = users, sessions' = sessions, req' = req, rows' = rows
  PROVE  /\ \A id : LoginWrites(r, id, t)' = LoginWrites(r, id, t)
         /\ RefreshWrites(r, t)' = RefreshWrites(r, t)
         /\ RecoverWrites(r, t)' = RecoverWrites(r, t)
         /\ \A changed : UpdateWrites(r, changed, t)' = UpdateWrites(r, changed, t)
         /\ DeleteWrites(r, t)' = DeleteWrites(r, t)
         /\ StatusWrites(r, t)' = StatusWrites(r, t)
         /\ LoginAdmitted(r)' <=> LoginAdmitted(r)
         /\ RefreshAdmitted(r, t)' <=> RefreshAdmitted(r, t)
         /\ UpdateAdmitted(r, t)' <=> UpdateAdmitted(r, t)
         /\ DeleteAdmitted(r, t)' <=> DeleteAdmitted(r, t)
         /\ ActorAdmitted(r, t)' <=> ActorAdmitted(r, t)
         /\ OrderAdmitted(r, t)' <=> OrderAdmitted(r, t)
<1>1. /\ \A id : LoginWrites(r, id, t)' = LoginWrites(r, id, t)
      /\ RefreshWrites(r, t)' = RefreshWrites(r, t)
      /\ RecoverWrites(r, t)' = RecoverWrites(r, t)
      /\ \A changed : UpdateWrites(r, changed, t)' = UpdateWrites(r, changed, t)
  BY DEF LoginWrites, RefreshWrites, RecoverWrites, UpdateWrites, RecoverUser, RecoveryAudits
<1>2. \A ids : RevokeAt(ids, t)' = RevokeAt(ids, t) BY DEF RevokeAt
<1>3. DeleteWrites(r, t)' = DeleteWrites(r, t)
  BY <1>2 DEF DeleteWrites, RecoveryAudits
<1>4. StatusWrites(r, t)' = StatusWrites(r, t)
  <2>1. TargetSessions(r)' = TargetSessions(r) BY DEF TargetSessions
  <2>2. \A row : /\ OrderedRow(r, row, t)' = OrderedRow(r, row, t)
                 /\ OrderAudit(r, row, t)' = OrderAudit(r, row, t)
    BY DEF OrderedRow, OrderAudit, NoOp
  <2> QED BY <1>2, <2>1, <2>2 DEF StatusWrites
<1>5. /\ LoginAdmitted(r)' <=> LoginAdmitted(r)
      /\ RefreshAdmitted(r, t)' <=> RefreshAdmitted(r, t)
      /\ UpdateAdmitted(r, t)' <=> UpdateAdmitted(r, t)
      /\ DeleteAdmitted(r, t)' <=> DeleteAdmitted(r, t)
      /\ ActorAdmitted(r, t)' <=> ActorAdmitted(r, t)
      /\ OrderAdmitted(r, t)' <=> OrderAdmitted(r, t)
  BY DEF LoginAdmitted, RefreshAdmitted, UpdateAdmitted, DeleteAdmitted, ProfileSessionValid,
         ActorAdmitted, OrderAdmitted
<1> QED BY <1>1, <1>3, <1>4, <1>5

\* A callback decides at its own time, on the rows it has just read.
LEMMA BodyOwn ==
  ASSUME HistoryInv, NEW r \in Requests, Body(r)
  PROVE  OwnKept(r)'
<1>0. /\ TypeOK /\ Sampled(r) /\ RowsMatch(r) /\ TimesOrdered /\ Ready(r) /\ IdsFresh
      /\ clock \in Nat
  BY DEF HistoryInv, ClosingInv, TypeOK, StoreTypeOK
<1>1. /\ clock' = clock /\ req' = req /\ users' = users /\ sessions' = sessions
      /\ pc[r] = "body"
  BY DEF Body, LoginTx, RefreshTx, RecoverTx, UpdateMeTx, DeleteMeTx, ChangeUserStatusTx,
         InBody, tables
<1>2. CASE Refuse(r) BY <1>0, <1>1, <1>2, FinishOwn DEF Refuse
<1>3. ASSUME NEW writes, NEW result, Prepare(r, writes, result)
      PROVE  /\ ws'[r] = writes /\ rows' = rows
             /\ \A t \in 0 .. clock : DecidedAt(r, t)' /\ StampsRise(r, t) => OwnKept(r)'
  <2>1. pc'[r] = "commit" /\ rows' = rows /\ seenAt' = seenAt /\ ws'[r] = writes
    BY <1>0, <1>3 DEF Prepare, Goto, TypeOK
  <2>2. \A k : Selected(r, k)' <=> Selected(r, k)
    BY <1>1 DEF Selected, SelectedById, SelectedByOwner, Banning
  <2>3. ASSUME NEW t \in 0 .. clock, DecidedAt(r, t)', StampsRise(r, t) PROVE OwnKept(r)'
    <3>1. StampsRise(r, t)'
      BY <1>1, <2>1, <2>3 DEF StampsRise, LockedAccounts
    <3>2. t \in 0 .. clock' BY <1>1
    <3> QED BY <1>0, <1>1, <2>1, <2>2, <2>3, <3>1, <3>2 DEF OwnKept, Sampled, RowsMatch, Decided
  <2> QED BY <2>1, <2>3
<1>4. StampsRise(r, clock)
  <2>1. LockedAccounts(r) \subseteq Users BY <1>0 DEF LockedAccounts, TypeOK, Request
  <2>2. \A s \in rows[r] : s \in SessionIds /\ sessions[s] # NULL
    BY <1>0 DEF Ready, TypeOK
  <2> QED BY <1>0, <2>1, <2>2 DEF StampsRise, TimesOrdered
<1>5. PICK t \in 0 .. clock : t = clock BY <1>0
<1>6. t \in Nat /\ StampsRise(r, t) BY <1>0, <1>4, <1>5
<1>7. CASE LoginTx(r) /\ ~ Refuse(r)
  <2>1. /\ Prepare(r, LoginWrites(r, sessionSeq + 1, t), "ok") /\ LoginAdmitted(r)
        /\ req[r].op = "login" /\ sessionSeq < MaxSessions
    BY <1>5, <1>7 DEF LoginTx, InBody
  <2>2. PICK id \in SessionIds : id = sessionSeq + 1
    BY <1>0, <2>1, MaxSessionsAssumption DEF TypeOK, StoreTypeOK, SessionIds
  <2>3. sessions[id] = NULL
    BY <1>0, <2>2 DEF TypeOK, StoreTypeOK, IdsFresh
  <2>4. ws'[r] = LoginWrites(r, id, t) /\ rows' = rows BY <1>3, <2>1, <2>2
  <2>5. DecidedAt(r, t)' BY <1>1, <1>6, <2>1, <2>3, <2>4, CallbackSame DEF DecidedAt
  <2> QED BY <1>3, <1>6, <2>1, <2>5
<1>8. CASE RefreshTx(r) /\ ~ Refuse(r)
  <2>1. /\ Prepare(r, RefreshWrites(r, t), "ok") /\ RefreshAdmitted(r, t)
        /\ req[r].op = "refresh"
    BY <1>5, <1>8 DEF RefreshTx, InBody
  <2>2. DecidedAt(r, t)' BY <1>1, <1>3, <1>6, <2>1, CallbackSame DEF DecidedAt
  <2> QED BY <1>3, <1>6, <2>1, <2>2
<1>9. CASE RecoverTx(r)
  <2>1. PICK result : Prepare(r, RecoverWrites(r, seenAt[r]), result)
    BY <1>9 DEF RecoverTx
  <2>2. req[r].op \in {"me", "public"} BY <1>9 DEF RecoverTx, InBody
  <2>3. PICK t0 \in 0 .. clock : t0 = seenAt[r]
    <3>1. seenAt[r] \in Nat /\ seenAt[r] # NULL
      BY <1>0, <1>1, <2>2, NullAssumption DEF Ready
    <3> QED BY <1>0, <3>1 DEF Sampled
  <2>4. Prepare(r, RecoverWrites(r, t0), result) BY <2>1, <2>3
  <2>5. t0 \in Nat BY <1>0
  <2>6. DecidedAt(r, t0)'
    BY <1>1, <1>3, <2>2, <2>4, <2>5, CallbackSame DEF DecidedAt
  <2>7. StampsRise(r, t0) BY <2>2 DEF StampsRise
  <2> QED BY <1>3, <2>4, <2>6, <2>7
<1>10. CASE UpdateMeTx(r) /\ ~ Refuse(r)
  <2>1. PICK changed \in BOOLEAN :
           /\ Prepare(r, UpdateWrites(r, changed, t), "ok") /\ UpdateAdmitted(r, t)
           /\ req[r].op = "update"
    BY <1>5, <1>10 DEF UpdateMeTx, InBody
  <2>2. DecidedAt(r, t)' BY <1>1, <1>3, <1>6, <2>1, CallbackSame DEF DecidedAt
  <2> QED BY <1>3, <1>6, <2>1, <2>2
<1>11. CASE DeleteMeTx(r) /\ ~ Refuse(r)
  <2>1. /\ Prepare(r, DeleteWrites(r, t), "ok") /\ DeleteAdmitted(r, t)
        /\ req[r].op = "delete"
    BY <1>5, <1>11 DEF DeleteMeTx, InBody
  <2>2. DecidedAt(r, t)' BY <1>1, <1>3, <1>6, <2>1, CallbackSame DEF DecidedAt
  <2> QED BY <1>3, <1>6, <2>1, <2>2
<1>12. CASE ChangeUserStatusTx(r) /\ ~ Refuse(r)
  <2>1. /\ Prepare(r, StatusWrites(r, t), "ok") /\ ActorAdmitted(r, t) /\ OrderAdmitted(r, t)
        /\ req[r].op = "status"
    BY <1>5, <1>12 DEF ChangeUserStatusTx, InBody
  <2>2. DecidedAt(r, t)' BY <1>1, <1>3, <1>6, <2>1, CallbackSame DEF DecidedAt
  <2> QED BY <1>3, <1>6, <2>1, <2>2
<1> QED BY <1>2, <1>7, <1>8, <1>9, <1>10, <1>11, <1>12 DEF Body

\* The request that takes a step keeps its part of the invariant.
LEMMA StepOwn ==
  ASSUME HistoryInv, NEW r \in Requests, Step(r)
  PROVE  OwnKept(r)'
<1>0. TypeOK /\ Sampled(r) /\ RowsMatch(r) BY DEF HistoryInv, ClosingInv
<1>1. ASSUME NEW result, Finish(r, result), req' = req PROVE OwnKept(r)'
  BY <1>0, <1>1, FinishOwn
<1>2. CASE CheckSeen(r)
  <2>1. pc[r] = "check" /\ req' = req /\ clock' = clock BY <1>2 DEF CheckSeen
  <2>2. CASE /\ seenAt' = [seenAt EXCEPT ![r] = clock] /\ Goto(r, "users")
             /\ UNCHANGED <<locks, seen, want, rows, ws, answer, reply>>
    <3>1. pc'[r] = "users" /\ seenAt'[r] = clock /\ rows' = rows
      BY <1>0, <2>2 DEF Goto, TypeOK
    <3>2. req[r].op = "status" => req[r].until \in 1 .. MaxTime \cup {NULL}
      BY <1>0 DEF Sampled
    <3> QED BY <1>0, <2>1, <3>1, <3>2, BeforeRowsOwn
  <2> QED BY <1>1, <1>2, <2>1, <2>2 DEF CheckSeen
<1>3. ASSUME NEW u, LockUser(r, u) PROVE OwnKept(r)'
  <2>1. /\ pc[r] = "users" /\ pc'[r] \in {"users", "body", "select"} /\ req' = req
        /\ clock' = clock /\ rows' = rows /\ seenAt' = seenAt
    BY <1>0, <1>3 DEF LockUser, working, Goto, TypeOK
  <2>2. req[r].op = "status" => req[r].until \in 1 .. MaxTime \cup {NULL}
    BY <1>0 DEF Sampled
  <2> QED BY <1>0, <2>1, <2>2, BeforeRowsOwn
<1>4. CASE SelectSessions(r)
  <2>1. /\ pc[r] = "select" /\ pc'[r] \in {"body", "sessions"} /\ req' = req
        /\ clock' = clock /\ rows' = rows /\ seenAt' = seenAt
    BY <1>0, <1>4 DEF SelectSessions, Goto, TypeOK
  <2>2. req[r].op = "status" => req[r].until \in 1 .. MaxTime \cup {NULL}
    BY <1>0 DEF Sampled
  <2> QED BY <1>0, <2>1, <2>2, BeforeRowsOwn
<1>5. CASE Commit(r) \/ CommitUnconfirmed(r) \/ RevokeSession(r) \/ RevokeUnconfirmed(r) \/ Cut(r)
  BY <1>1, <1>5 DEF Commit, CommitUnconfirmed, RevokeSession, RevokeUnconfirmed, RevokeRow, Cut
<1> QED BY <1>2, <1>3, <1>4, <1>5, StartOwn, LockSessionOwn, BodyOwn DEF Step, Serve

-----------------------------------------------------------------------------
(***************************************************************************)
(* The inductive invariant.                                                *)
(***************************************************************************)
LEMMA HistoryInit == Init => HistoryInv
<1> SUFFICES ASSUME Init PROVE HistoryInv OBVIOUS
<1>1. ClosingInv /\ TypeOK BY InitInvariant DEF ClosingInv
<1>2. TimesOrdered
  <2>1. ASSUME NEW u \in Users
        PROVE  /\ MuteCheck(users[u]) /\ users[u].updatedAt <= clock
               /\ users[u].status = "muted" => users[u].updatedAt <= users[u].mutedUntil
    <3>1. MuteCheck(users[u]) /\ users[u].updatedAt = 0 /\ clock = 0 BY DEF Init
    <3>2. users[u] \in UserRow BY <1>1 DEF TypeOK, StoreTypeOK
    <3> QED BY <3>1, <3>2 DEF UserRow, MuteCheck
  <2>2. ASSUME NEW s \in SessionIds, sessions[s] # NULL
        PROVE  SessionRowChecks(sessions[s]) /\ sessions[s].createdAt <= clock
    <3> DEFINE end == IF CanLogin(users[SeedOwner[s]].status) THEN NULL ELSE 0
    <3>1. sessions[s] = [NewSession(SeedOwner[s], SeedSecret, 0, RefreshTTL)
                           EXCEPT !.revokedAt = end]
      BY <2>2 DEF Init
    <3>2. sessions[s].createdAt = 0 /\ sessions[s].expiresAt = 0 + RefreshTTL
          /\ sessions[s].revokedAt = end
      BY <3>1 DEF NewSession
    <3>3. end = NULL \/ end = 0 OBVIOUS
    <3> HIDE DEF end
    <3> QED BY <3>2, <3>3, TTLAssumption DEF SessionRowChecks, Init
  <2> QED BY <2>1, <2>2 DEF TimesOrdered, StoreChecks
<1>3. ASSUME NEW r \in Requests PROVE Sampled(r) /\ RowsMatch(r) /\ Decided(r)
  <2>1. pc[r] = "new" /\ rows[r] = {} /\ seenAt[r] = NULL /\ req[r].op = NULL
    BY DEF Init, NoInput, Input
  <2>2. NULL # "status" BY NoOperationAssumption DEF Operations
  <2> QED BY <2>1, <2>2 DEF Sampled, RowsMatch, Decided
<1> QED BY <1>1, <1>2, <1>3 DEF HistoryInv

\* Every step of the service keeps it.
LEMMA HistoryStep == HistoryInv /\ [Next]_vars => HistoryInv'
<1> SUFFICES ASSUME HistoryInv, [Next]_vars PROVE HistoryInv' OBVIOUS
<1>0. ClosingInv /\ TypeOK BY DEF HistoryInv, ClosingInv
<1>1. ClosingInv' /\ TypeOK' BY <1>0, NextInvariant DEF ClosingInv
<1>2. ASSUME NEW r \in Requests, Step(r) PROVE HistoryInv'
  <2>1. TimesOrdered' BY <1>1, <1>2, TimesStep
  <2>2. ASSUME NEW q \in Requests PROVE OwnKept(q)'
    <3>1. CASE q = r BY <1>2, <3>1, StepOwn
    <3>2. CASE q # r
      <4>1. Undisturbed(q) BY <1>1, <1>2, <3>2, StepUndisturbed
      <4> QED BY <1>0, <4>1, UndisturbedKept DEF HistoryInv, ClosingInv, OwnKept
    <3> QED BY <3>1, <3>2
  <2> QED BY <1>1, <2>1, <2>2 DEF HistoryInv, OwnKept
<1>3. CASE Tick \/ Answered \/ UNCHANGED vars
  <2>1. /\ clock' \in Nat /\ clock' >= clock /\ clock \in Nat
        /\ pc' = pc /\ req' = req /\ seenAt' = seenAt /\ rows' = rows /\ ws' = ws
        /\ users' = users /\ sessions' = sessions
    BY <1>0, <1>3 DEF TypeOK, StoreTypeOK, Tick, Answered, vars, tables, working
  <2>2. ASSUME NEW q \in Requests PROVE OwnKept(q)'
    <3>1. Undisturbed(q) BY <2>1 DEF Undisturbed
    <3> QED BY <1>0, <3>1, UndisturbedKept DEF HistoryInv, ClosingInv, OwnKept
  <2>3. TimesOrdered'
    <3>1. \A u \in Users : users[u].updatedAt \in Nat
      BY <1>0 DEF TypeOK, StoreTypeOK, UserRow
    <3>2. \A s \in SessionIds : sessions[s] # NULL => sessions[s].createdAt \in Nat
      BY <1>0 DEF TypeOK, StoreTypeOK, SessionRow
    <3> QED BY <2>1, <3>1, <3>2 DEF HistoryInv, TimesOrdered, StoreChecks
  <2> QED BY <1>1, <2>2, <2>3 DEF HistoryInv, OwnKept
<1> QED BY <1>2, <1>3 DEF Next, Step

(***************************************************************************)
(* The invariant about the history of the tables always holds: each        *)
(* transaction could decide again, when it commits, what it decided in its *)
(* callback (the row locks of LockUsers and LockSessions).                 *)
(***************************************************************************)
THEOREM HistoryInvariant == Spec => []HistoryInv
BY HistoryInit, HistoryStep, PTL DEF Spec

(***************************************************************************)
(* Under one clock that does not go back, the committed rows pass the      *)
(* CHECK that ties muted_until to the status of an account and the two     *)
(* CHECKs that order the times of a session (RecoverExpiredMute,           *)
(* RevokeLockedSessions and RevokeSession write those columns).            *)
(***************************************************************************)
THEOREM StoreChecked == Spec => []StoreChecks
<1>1. HistoryInv => StoreChecks BY DEF HistoryInv, TimesOrdered
<1> QED BY <1>1, HistoryInvariant, PTL

-----------------------------------------------------------------------------
(***************************************************************************)
(* What every step does to the history of the tables.                      *)
(***************************************************************************)
LEMMA Steps ==
  ASSUME [Next]_vars
  PROVE  \/ \E r \in Requests : Step(r)
         \/ users' = users /\ sessions' = sessions /\ audits' = audits
BY DEF Next, Step, Tick, Answered, vars, tables

\* The past of the sessions, at every step.
LEMMA SessionPastStep == HistoryInv /\ HistoryInv' /\ [Next]_vars => SessionPastKept
<1> SUFFICES ASSUME HistoryInv, HistoryInv', [Next]_vars PROVE SessionPastKept OBVIOUS
<1>0. TypeOK /\ TypeOK' BY DEF HistoryInv, ClosingInv
<1>1. CASE sessions' = sessions BY <1>1 DEF SessionPastKept
<1>2. ASSUME NEW r \in Requests, Step(r) PROVE SessionPastKept
  <2>1. PICK t \in 0 .. clock : \A s \in SessionIds : SessionMoves(r, s, t)
    BY <1>2, StepMoves DEF Moves
  <2>2. t \in Nat BY <1>0 DEF TypeOK, StoreTypeOK
  <2> QED BY <1>0, <2>1, <2>2, SessionMoved DEF SessionPastKept
<1> QED BY <1>1, <1>2, Steps

(***************************************************************************)
(* The past of a session is never rewritten, whatever refreshes, logouts,  *)
(* bans and deletions cross each other (Refresh, Logout, RevokeSessions).  *)
(***************************************************************************)
THEOREM SessionsKeepPast == Spec => SessionHistory
<1>1. HistoryInv /\ HistoryInv' /\ [Next]_vars => [SessionPastKept]_vars
  BY SessionPastStep
<1> QED BY <1>1, HistoryInvariant, PTL DEF Spec, SessionHistory

(***************************************************************************)
(* updated_at never goes back, also when a mute is recovered with a time   *)
(* sampled before the account's lock was granted (recoverUserIfNeeded).    *)
(***************************************************************************)
THEOREM UpdatesMonotone == Spec => UpdatedAtMonotone
<1>1. ASSUME HistoryInv, HistoryInv', [Next]_vars, NEW u \in Users
      PROVE  users'[u].updatedAt >= users[u].updatedAt
  <2>0. TypeOK /\ TypeOK' /\ TimesOrdered BY <1>1 DEF HistoryInv, ClosingInv
  <2>1. CASE users' = users
    <3>1. users[u].updatedAt \in Nat BY <2>0 DEF TypeOK, StoreTypeOK, UserRow
    <3> QED BY <2>1, <3>1
  <2>2. ASSUME NEW r \in Requests, Step(r) PROVE users'[u].updatedAt >= users[u].updatedAt
    <3>1. PICK t \in 0 .. clock : AccountMoves(u, t) BY <1>1, <2>2, StepMoves DEF Moves
    <3> QED BY <2>0, <3>1, AccountTimes DEF TimesOrdered, StoreChecks
  <2> QED BY <1>1, <2>1, <2>2, Steps
<1>2. HistoryInv /\ HistoryInv' /\ [Next]_vars
        => [\A u \in Users : users'[u].updatedAt >= users[u].updatedAt]_vars
  BY <1>1
<1> QED BY <1>2, HistoryInvariant, PTL DEF Spec, UpdatedAtMonotone

(***************************************************************************)
(* An order takes effect only while its administrator may still give it:   *)
(* ChangeUserStatus checks actor and session under their row locks.        *)
(***************************************************************************)
THEOREM AuthorityKept == Spec => AuthorityAtCommit
<1>1. ASSUME HistoryInv, NEW r \in Requests, pc[r] = "commit", req[r].op = "status"
      PROVE  /\ req[r].user \in Admins
             /\ users[req[r].user].status \notin {"frozen", "banned", "deleted"}
             /\ Live(sessions[req[r].session])
  <2>1. PICK t \in 0 .. clock : DecidedAt(r, t) BY <1>1 DEF HistoryInv, Decided
  <2>2. ActorAdmitted(r, t) BY <1>1, <2>1 DEF DecidedAt
  <2> QED BY <2>2 DEF ActorAdmitted, Usable
<1>2. HistoryInv =>
        [\A r \in Requests :
           pc[r] = "commit" /\ req[r].op = "status" /\ reply'[r] = "ok" =>
             /\ req[r].user \in Admins
             /\ users[req[r].user].status \notin {"frozen", "banned", "deleted"}
             /\ Live(sessions[req[r].session])]_vars
  BY <1>1
<1> QED BY <1>2, HistoryInvariant, PTL DEF AuthorityAtCommit

-----------------------------------------------------------------------------
(***************************************************************************)
(* The audit log.  What a commit appends is what Appended reads back.      *)
(***************************************************************************)
LEMMA AppendedIs ==
  ASSUME NEW S, NEW old \in Seq(S), NEW entries \in Seq(S)
  PROVE  SubSeq(old \o entries, Len(old) + 1, Len(old \o entries)) = entries
<1>1. /\ old \o entries \in Seq(S) /\ Len(old \o entries) = Len(old) + Len(entries)
      /\ Len(old) \in Nat /\ Len(entries) \in Nat
  BY ConcatProperties
<1>2. CASE Len(entries) = 0
  <2>1. entries = << >> BY <1>2, EmptySeq
  <2> QED BY <1>1, <1>2, <2>1, SubSeqEmpty
<1>3. CASE Len(entries) > 0
  <2>1. SubSeq(old \o entries, Len(old) + 1, Len(old) + Len(entries))
          = SubSeq(entries, (Len(old) + 1) - Len(old), (Len(old) + Len(entries)) - Len(old))
    BY <1>1, <1>3, SubSeqOfConcat2
  <2>2. SubSeq(entries, 1, Len(entries)) = entries BY SubSeqFull
  <2> QED BY <1>1, <2>1, <2>2
<1> QED BY <1>1, <1>2, <1>3

\* No entry is owed for a row whose status and mute stay, or for a deletion.
LEMMA LeadsNone ==
  ASSUME NEW old, NEW new,
         StatusOf(old) = StatusOf(new) \/ (old.status # "deleted" /\ new.status = "deleted")
  PROVE  Leads(old, << >>, new)
<1> DEFINE none == << >>
           tail == [i \in DOMAIN none |-> <<none[i].newStatus, none[i].newUntil>>]
           links == <<StatusOf(old)>> \o tail
<1>1. DOMAIN none = {} /\ tail \in Seq({}) /\ Len(tail) = 0
  OBVIOUS
<1>2. Len(links) = 1 /\ links[1] = StatusOf(old) BY <1>1
<1> HIDE DEF links, tail
<1> QED BY <1>1, <1>2 DEF Leads, links, tail

\* One entry, from the old row to the new one.
LEMMA LeadsOne ==
  ASSUME NEW old, NEW new, NEW e,
         <<e.oldStatus, e.oldUntil>> = StatusOf(old),
         \/ <<e.newStatus, e.newUntil>> = StatusOf(new)
         \/ old.status # "deleted" /\ new.status = "deleted"
  PROVE  Leads(old, <<e>>, new)
<1> DEFINE tail == [i \in DOMAIN <<e>> |-> << <<e>>[i].newStatus, <<e>>[i].newUntil >>]
           links == <<StatusOf(old)>> \o tail
<1>1. DOMAIN <<e>> = {1} /\ tail = << <<e.newStatus, e.newUntil>> >>
  OBVIOUS
<1>2. Len(links) = 2 /\ links[1] = StatusOf(old) /\ links[2] = <<e.newStatus, e.newUntil>>
  BY <1>1
<1> HIDE DEF links
<1> QED BY <1>1, <1>2 DEF Leads, links

\* Two entries in a row.
LEMMA PairOf ==
  ASSUME NEW e, NEW f
  PROVE  <<e>> \o <<f>> = <<e, f>>
<1> DEFINE S == {e, f}
           c == <<e>> \o <<f>>
<1>1. <<e>> \in Seq(S) /\ <<f>> \in Seq(S) /\ <<e, f>> \in Seq(S) OBVIOUS
<1>2. Len(<<e>>) = 1 /\ Len(<<f>>) = 1 /\ <<e>>[1] = e /\ <<f>>[1] = f OBVIOUS
<1>3. c \in Seq(S) /\ Len(c) = 2 /\ c[1] = e /\ c[2] = f
  BY <1>1, <1>2, ConcatProperties
<1>4. Len(<<e, f>>) = 2 /\ <<e, f>>[1] = e /\ <<e, f>>[2] = f OBVIOUS
<1> HIDE DEF c
<1>5. \A i \in 1 .. 2 : c[i] = <<e, f>>[i]
  <2>1. \A i \in 1 .. 2 : i = 1 \/ i = 2 OBVIOUS
  <2> QED BY <2>1, <1>3, <1>4
<1>6. c = <<e, f>> BY <1>1, <1>3, <1>4, <1>5, SeqEqual
<1> QED BY <1>6 DEF c

\* Two entries: a recovery, and the order that found it.
LEMMA LeadsTwo ==
  ASSUME NEW old, NEW new, NEW e, NEW f,
         <<e.oldStatus, e.oldUntil>> = StatusOf(old),
         <<f.oldStatus, f.oldUntil>> = <<e.newStatus, e.newUntil>>,
         <<f.newStatus, f.newUntil>> = StatusOf(new)
  PROVE  Leads(old, <<e, f>>, new)
<1> DEFINE tail == [i \in DOMAIN <<e, f>> |-> << <<e, f>>[i].newStatus, <<e, f>>[i].newUntil >>]
           links == <<StatusOf(old)>> \o tail
<1>1. DOMAIN <<e, f>> = {1, 2}
      /\ tail = << <<e.newStatus, e.newUntil>>, <<f.newStatus, f.newUntil>> >>
  OBVIOUS
<1>2. /\ Len(links) = 3 /\ links[1] = StatusOf(old) /\ links[2] = <<e.newStatus, e.newUntil>>
      /\ links[3] = <<f.newStatus, f.newUntil>>
  BY <1>1
<1> HIDE DEF links
<1> QED BY <1>1, <1>2 DEF Leads, links

\* A recovery logs exactly what it changes, also when the account is then closed.
LEMMA RecoveryLeads ==
  ASSUME NEW old \in UserRow, NEW t \in Nat, NEW new,
         \/ StatusOf(new) = StatusOf(Recovered(old, t))
         \/ old.status # "deleted" /\ new.status = "deleted"
  PROVE  Leads(old, RecoveryAudit(old, t), new)
<1>1. CASE MuteExpired(old, t)
  <2> DEFINE e == Audit("mute_expired", NULL, old, Recovered(old, t), t)
  <2>1. RecoveryAudit(old, t) = <<e>> BY <1>1 DEF RecoveryAudit
  <2>2. /\ <<e.oldStatus, e.oldUntil>> = StatusOf(old)
        /\ <<e.newStatus, e.newUntil>> = StatusOf(Recovered(old, t))
    BY DEF Audit, StatusOf
  <2> HIDE DEF e
  <2> QED BY <2>1, <2>2, LeadsOne
<1>2. CASE ~ MuteExpired(old, t)
  <2>1. RecoveryAudit(old, t) = << >> /\ Recovered(old, t) = old
    BY <1>2 DEF RecoveryAudit, Recovered
  <2> QED BY <2>1, LeadsNone
<1> QED BY <1>1, <1>2

\* Every move of an account is led to by the entries it appends.
LEMMA MoveAudited ==
  ASSUME TypeOK, NEW u \in Users, NEW t \in Nat, AccountMoves(u, t)
  PROVE  Leads(users[u], Appended(u), users'[u])
<1>0. users[u] \in UserRow /\ audits[u] \in Seq(AuditEntry)
      /\ Recovered(users[u], t) \in UserRow
      /\ RecoveryAudit(users[u], t) \in Seq(AuditEntry)
  BY RecoveryType DEF TypeOK, StoreTypeOK
<1>1. ASSUME NEW entries \in Seq(AuditEntry), audits'[u] = audits[u] \o entries
      PROVE  Appended(u) = entries
  BY <1>0, <1>1, AppendedIs DEF Appended
<1>2. CASE users'[u] = users[u] /\ audits'[u] = audits[u]
  <2>1. << >> \in Seq(AuditEntry) /\ audits[u] \o << >> = audits[u]
    BY <1>0, ConcatEmptySeq
  <2>2. Appended(u) = << >> BY <1>1, <1>2, <2>1
  <2> QED BY <1>2, <2>2, LeadsNone
<1>3. CASE RecoveryLogged(u, t) /\
           \/ users'[u] = Recovered(users[u], t)
           \/ users'[u] = [Recovered(users[u], t) EXCEPT !.updatedAt = t]
           \/ users'[u] = DeletedRow(t) /\ users[u].status # "deleted"
  <2>1. Appended(u) = RecoveryAudit(users[u], t) BY <1>0, <1>1, <1>3 DEF RecoveryLogged
  <2>2. \/ StatusOf(users'[u]) = StatusOf(Recovered(users[u], t))
        \/ users[u].status # "deleted" /\ users'[u].status = "deleted"
    BY <1>0, <1>3 DEF StatusOf, DeletedRow, UserRow
  <2> QED BY <1>0, <2>1, <2>2, RecoveryLeads
<1>4. ASSUME NEW actor \in Users, NEW new \in UserRow, OrderObeyed(u, actor, new, t)
      PROVE  Leads(users[u], Appended(u), users'[u])
  <2> DEFINE row == Recovered(users[u], t)
             f == Audit("status_changed", actor, row, new, t)
             e == Audit("mute_expired", NULL, users[u], row, t)
  <2>1. f \in AuditEntry BY <1>0, UsersAssumption DEF Audit, AuditEntry, UserRow
  <2>2. /\ <<f.oldStatus, f.oldUntil>> = StatusOf(row)
        /\ <<f.newStatus, f.newUntil>> = StatusOf(new)
        /\ <<e.oldStatus, e.oldUntil>> = StatusOf(users[u])
        /\ <<e.newStatus, e.newUntil>> = StatusOf(row)
    BY DEF Audit, StatusOf
  <2>3. /\ users'[u] = new
        /\ audits'[u] = audits[u] \o (RecoveryAudit(users[u], t) \o <<f>>)
    BY <1>4 DEF OrderObeyed
  <2>4. RecoveryAudit(users[u], t) = IF MuteExpired(users[u], t) THEN <<e>> ELSE << >>
    BY DEF RecoveryAudit
  <2> HIDE DEF e, f
  <2>5. RecoveryAudit(users[u], t) \o <<f>> \in Seq(AuditEntry) BY <1>0, <2>1
  <2>6. Appended(u) = RecoveryAudit(users[u], t) \o <<f>> BY <1>1, <2>3, <2>5
  <2>7. CASE MuteExpired(users[u], t)
    <3>1. <<e>> \o <<f>> = <<e, f>> BY PairOf
    <3>2. Appended(u) = <<e, f>> BY <2>4, <2>6, <2>7, <3>1
    <3> QED BY <2>2, <2>3, <3>2, LeadsTwo
  <2>8. CASE ~ MuteExpired(users[u], t)
    <3>1. RecoveryAudit(users[u], t) = << >> /\ row = users[u]
      BY <2>4, <2>8 DEF Recovered
    <3>2. << >> \o <<f>> = <<f>> OBVIOUS
    <3>3. Appended(u) = <<f>> BY <2>6, <3>1, <3>2
    <3> QED BY <2>2, <2>3, <3>1, <3>3, LeadsOne
  <2> QED BY <2>7, <2>8
<1> QED BY <1>2, <1>3, <1>4 DEF AccountMoves

(***************************************************************************)
(* No status change without its audit entries, no entry without its change *)
(* (recoverUserIfNeeded and ChangeUserStatus, in one transaction with the  *)
(* change).                                                                *)
(***************************************************************************)
THEOREM ChangesAudited == Spec => EveryChangeAudited
<1>1. ASSUME HistoryInv, [Next]_vars, NEW u \in Users
      PROVE  Leads(users[u], Appended(u), users'[u])
  <2>0. TypeOK BY <1>1 DEF HistoryInv, ClosingInv
  <2>1. PICK t \in 0 .. clock : AccountMoves(u, t)
    <3>1. CASE users' = users /\ audits' = audits
      <4>1. 0 \in 0 .. clock BY <2>0 DEF TypeOK, StoreTypeOK
      <4> QED BY <3>1, <4>1 DEF AccountMoves
    <3>2. ASSUME NEW r \in Requests, Step(r) PROVE \E t \in 0 .. clock : AccountMoves(u, t)
      BY <1>1, <3>2, StepMoves DEF Moves
    <3> QED BY <1>1, <3>1, <3>2, Steps
  <2>2. t \in Nat BY <2>0 DEF TypeOK, StoreTypeOK
  <2> QED BY <2>0, <2>1, <2>2, MoveAudited
<1>2. HistoryInv /\ [Next]_vars
        => [\A u \in Users : Leads(users[u], Appended(u), users'[u])]_vars
  BY <1>1
<1> QED BY <1>2, HistoryInvariant, PTL DEF Spec, EveryChangeAudited

-----------------------------------------------------------------------------
(***************************************************************************)
(* Refresh secrets.  A request that has answered takes no step.            *)
(***************************************************************************)
LEMMA StepOpen ==
  ASSUME NEW r \in Requests, Step(r)
  PROVE  pc[r] # "done"
<1>1. CASE Start(r)
  <2>1. PICK input : Arrive(r, input)
    BY <1>1 DEF Start, StartLogin, StartPublicUser, StartRefresh, StartLogout, StartMe,
                StartProfileTx, StartChangeUserStatus
  <2> QED BY <2>1 DEF Arrive
<1>2. CASE Body(r)
  BY <1>2 DEF Body, LoginTx, RefreshTx, RecoverTx, UpdateMeTx, DeleteMeTx,
              ChangeUserStatusTx, InBody
<1>3. CASE Serve(r) /\ ~ Body(r)
  BY <1>3 DEF Serve, CheckSeen, LockUser, SelectSessions, LockSession, Commit,
              RevokeSession, RevokeRow
<1> QED BY <1>1, <1>2, <1>3 DEF Step, CommitUnconfirmed, RevokeUnconfirmed, RevokeRow, Cut

\* How a step may answer, and what it then was: a refresh answers "ok" by its commit.
LEMMA StepReply ==
  ASSUME TypeOK, SecretsKept, NEW r \in Requests, Step(r)
  PROVE  /\ reply'[r] # NULL => pc'[r] = "done"
         /\ req'[r].op = "refresh" /\ reply'[r] = "ok" =>
              pc[r] = "commit" /\ ApplyWrites(ws[r]) /\ req' = req
         /\ pc'[r] \in {"check", "revoke"} => req'[r].op # "refresh"
         /\ req'[r].op = "refresh" /\ req'[r] # req[r] => req'[r].secret \in Disclosed
<1>0. /\ reply[r] = NULL
      /\ pc[r] \in {"check", "revoke"} => req[r].op # "refresh"
  BY StepOpen DEF SecretsKept
<1> DEFINE Good == /\ reply'[r] # NULL => pc'[r] = "done"
                   /\ req'[r].op = "refresh" /\ reply'[r] = "ok" =>
                        pc[r] = "commit" /\ ApplyWrites(ws[r]) /\ req' = req
                   /\ pc'[r] \in {"check", "revoke"} => req'[r].op # "refresh"
                   /\ req'[r].op = "refresh" /\ req'[r] # req[r] => req'[r].secret \in Disclosed
<1> SUFFICES Good OBVIOUS
<1>1. ASSUME NEW result, Finish(r, result),
             req' = req \/ req'[r].op # "refresh" \/ req'[r].secret \in Disclosed,
             \/ req'[r].op # "refresh" \/ result # "ok"
             \/ pc[r] = "commit" /\ ApplyWrites(ws[r]) /\ req' = req
      PROVE  Good
  <2>1. pc'[r] = "done" /\ reply'[r] = result BY <1>1 DEF TypeOK, Finish, Goto
  <2> QED BY <1>1, <2>1
<1>2. ASSUME NEW stage, Goto(r, stage), reply' = reply,
             req' = req \/ req'[r].op # "refresh" \/ req'[r].secret \in Disclosed,
             stage \in {"check", "revoke"} => req'[r].op # "refresh"
      PROVE  Good
  <2>1. pc'[r] = stage /\ reply'[r] = NULL BY <1>0, <1>2 DEF TypeOK, Goto
  <2> QED BY <1>2, <2>1, NoAnswerAssumption
<1> HIDE DEF Good
<1>3. ASSUME NEW input, Arrive(r, input) PROVE req'[r] = input /\ pc[r] = "new"
  BY <1>3 DEF Arrive, TypeOK
<1>op. \A u, s, op : Input(op, u, s).op = op BY DEF Input
<1>4. CASE Start(r)
  <2>1. ASSUME NEW u, StartLogin(r, u) PROVE Good
    BY <1>1, <1>2, <1>3, <1>op, <2>1 DEF StartLogin
  <2>2. ASSUME NEW u, StartPublicUser(r, u) PROVE Good
    BY <1>2, <1>3, <1>op, <2>2 DEF StartPublicUser
  <2>3. ASSUME NEW s, NEW secret \in Disclosed, StartRefresh(r, s, secret) PROVE Good
    <3>1. \A u : [Input("refresh", u, s) EXCEPT !.secret = secret].secret = secret
      BY DEF Input
    <3> QED BY <1>1, <1>2, <1>3, <2>3, <3>1 DEF StartRefresh
  <2>4. ASSUME NEW u, NEW s, StartLogout(r, u, s) PROVE Good
    BY <1>2, <1>3, <1>op, <2>4 DEF StartLogout
  <2>5. ASSUME NEW u, NEW s, StartMe(r, u, s) PROVE Good
    BY <1>1, <1>2, <1>3, <1>op, <2>5 DEF StartMe
  <2>6. ASSUME NEW op, NEW u, NEW s, StartProfileTx(r, op, u, s) PROVE Good
    BY <1>2, <1>3, <1>op, <2>6 DEF StartProfileTx
  <2>7. ASSUME NEW u, NEW s, NEW target, NEW status, NEW until,
               StartChangeUserStatus(r, u, s, target, status, until)
        PROVE  Good
    <3> DEFINE input == [Input("status", u, s) EXCEPT
                           !.target = target, !.status = status, !.until = until]
    <3>1. input.op = "status" BY DEF Input
    <3>2. Arrive(r, input) BY <2>7 DEF StartChangeUserStatus
    <3> HIDE DEF input
    <3> QED BY <1>2, <1>3, <2>7, <3>1, <3>2 DEF StartChangeUserStatus
  <2> QED BY <1>4, <2>1, <2>2, <2>3, <2>4, <2>5, <2>6, <2>7 DEF Start
<1>5. CASE CheckSeen(r) BY <1>0, <1>1, <1>2, <1>5 DEF CheckSeen
<1>6. ASSUME NEW u, LockUser(r, u) PROVE Good BY <1>2, <1>6 DEF LockUser
<1>7. CASE SelectSessions(r) BY <1>2, <1>7 DEF SelectSessions
<1>8. ASSUME NEW s, LockSession(r, s) PROVE Good BY <1>2, <1>8 DEF LockSession
<1>9. CASE Body(r)
  <2>1. req' = req
    BY <1>9 DEF Body, LoginTx, RefreshTx, RecoverTx, UpdateMeTx, DeleteMeTx, ChangeUserStatusTx
  <2>2. CASE Refuse(r) BY <1>1, <2>1, <2>2 DEF Refuse
  <2>3. ASSUME NEW writes, NEW result, Prepare(r, writes, result) PROVE Good
    BY <1>2, <2>1, <2>3 DEF Prepare
  <2> QED
    BY <1>9, <2>2, <2>3
    DEF Body, LoginTx, RefreshTx, RecoverTx, UpdateMeTx, DeleteMeTx, ChangeUserStatusTx
<1>10. CASE Commit(r) \/ CommitUnconfirmed(r)
  BY <1>1, <1>10 DEF Commit, CommitUnconfirmed
<1>11. CASE RevokeSession(r) \/ RevokeUnconfirmed(r)
  BY <1>0, <1>1, <1>11 DEF RevokeSession, RevokeUnconfirmed, RevokeRow
<1>12. CASE Cut(r) BY <1>1, <1>12 DEF Cut
<1> QED BY <1>4, <1>5, <1>6, <1>7, <1>8, <1>9, <1>10, <1>11, <1>12 DEF Step, Serve

\* The secrets survive every step of a request.
LEMMA SecretsStep ==
  ASSUME HistoryInv, HistoryInv', SecretsKept, NEW r \in Requests, Step(r)
  PROVE  SecretsKept'
<1>0. /\ TypeOK /\ TypeOK' /\ pc[r] # "done" /\ Alone(r)
      /\ SeedSecret \notin Requests
  BY StepOpen, StepAlone, RequestsAssumption DEF HistoryInv, ClosingInv
<1>1. \A q \in Requests : pc[q] = "done" => pc'[q] = "done" /\ q # r
  BY <1>0 DEF Alone
<1> DEFINE DrawnNow(secret) == secret \in Requests => pc'[secret] = "done"
<1>2. \A secret : Drawn(secret) => DrawnNow(secret) /\ secret # r
  BY <1>0, <1>1 DEF Drawn
<1>3. PICK t \in 0 .. clock : \A s \in SessionIds : SessionMoves(r, s, t)
  BY StepMoves DEF Moves
\* How the secret of one session may change.
<1>4. ASSUME NEW s \in SessionIds, sessions'[s] # NULL
      PROVE  \/ sessions[s] # NULL /\ sessions'[s].token = sessions[s].token
             \/ sessions'[s].token = r /\ pc'[r] = "done"
  <2>1. CASE sessions' = sessions BY <1>4, <2>1
  <2>2. CASE Writing(r)
    <3>1. pc'[r] = "done" BY <1>0, <2>2 DEF Writing, Finish, Goto, TypeOK
    <3>2. sessions[s] # NULL => sessions[s] \in SessionRow
      BY <1>0 DEF TypeOK, StoreTypeOK
    <3>3. ASSUME NEW owner, sessions'[s] = NewSession(owner, r, t, RefreshTTL)
          PROVE  sessions'[s].token = r
      BY <3>3 DEF NewSession
    <3>4. ASSUME Live(sessions[s]), sessions'[s] = [sessions[s] EXCEPT !.token = r]
          PROVE  sessions'[s].token = r
      BY <3>2, <3>4 DEF Live, SessionRow
    <3>5. ASSUME Live(sessions[s]), sessions'[s] = [sessions[s] EXCEPT !.revokedAt = t]
          PROVE  sessions'[s].token = sessions[s].token
      BY <3>2, <3>5 DEF Live, SessionRow
    <3> QED BY <1>3, <1>4, <3>1, <3>3, <3>4, <3>5 DEF SessionMoves, Live
  <2> QED BY <2>1, <2>2, StepWrites
<1>5. ASSUME NEW s \in SessionIds, sessions'[s] # NULL PROVE DrawnNow(sessions'[s].token)
  BY <1>2, <1>4, <1>5 DEF SecretsKept
<1>6. ASSUME NEW q \in Requests
      PROVE  /\ reply'[q] # NULL => pc'[q] = "done"
             /\ pc'[q] \in {"check", "revoke"} => req'[q].op # "refresh"
  BY <1>0, StepReply DEF SecretsKept, Alone
<1>7. ASSUME NEW q \in Requests, req'[q].op = "refresh" PROVE DrawnNow(req'[q].secret)
  <2>1. CASE req'[q] = req[q] BY <1>2, <1>7, <2>1 DEF SecretsKept
  <2>2. CASE req'[q] # req[q]
    <3>1. q = r /\ req'[r].secret \in Disclosed
      BY <1>0, <1>7, <2>2, StepReply DEF Alone
    <3>2. \A secret \in Disclosed : Drawn(secret)
      BY <1>0, NoAnswerAssumption DEF Disclosed, Drawn, SecretsKept
    <3> QED BY <1>2, <3>1, <3>2
  <2> QED BY <2>1, <2>2
\* The secret a refresh presented is replaced when it succeeds.
<1>8. ASSUME NEW q \in Requests, req'[q].op = "refresh", reply'[q] = "ok"
      PROVE  /\ req'[q].session \in SessionIds
             /\ sessions'[req'[q].session] # NULL
             /\ sessions'[req'[q].session].token # req'[q].secret
  <2>1. CASE q = r
    <3>1. pc[r] = "commit" /\ ApplyWrites(ws[r]) /\ req' = req
      BY <1>0, <1>8, <2>1, StepReply
    <3> DEFINE s == req[r].session
    <3>2. PICK t0 \in 0 .. clock : RefreshAdmitted(r, t0) /\ ws[r] = RefreshWrites(r, t0)
      BY <1>8, <2>1, <3>1 DEF HistoryInv, Decided, DecidedAt
    <3>3. s \in SessionIds /\ sessions[s] \in SessionRow
      BY <1>0, <3>2 DEF RefreshAdmitted, Usable, Live, TypeOK, StoreTypeOK
    <3>4. sessions'[s] = [sessions[s] EXCEPT !.token = r]
      BY <3>1, <3>2, <3>3 DEF ApplyWrites, SessionAfter, RefreshWrites
    <3>5. sessions'[s] # NULL /\ sessions'[s].token = r
      <4>1. [sessions[s] EXCEPT !.token = r] \in SessionRow
        BY <3>3 DEF SessionRow, Secrets
      <4> QED BY <3>3, <3>4, <4>1, NullRowAssumption DEF SessionRow
    <3>6. req[r].secret # r BY <1>2, <1>8, <2>1, <3>1 DEF SecretsKept
    <3> QED BY <2>1, <3>1, <3>3, <3>5, <3>6
  <2>2. CASE q # r
    <3>1. req'[q] = req[q] /\ reply'[q] = reply[q] BY <1>0, <2>2 DEF Alone
    <3> DEFINE s == req[q].session
    <3>2. s \in SessionIds /\ sessions[s] # NULL /\ sessions[s].token # req[q].secret
      BY <1>8, <3>1 DEF SecretsKept
    <3>3. sessions'[s] # NULL
      BY <1>0, <1>3, <3>2, SessionMoved DEF TypeOK, StoreTypeOK
    <3>4. req[q].secret # r BY <1>2, <1>8, <3>1 DEF SecretsKept
    <3> QED BY <1>4, <3>1, <3>2, <3>3, <3>4
  <2> QED BY <2>1, <2>2
\* A refresh that succeeds now presented the secret stored until now; an earlier one did not.
<1>9. SecretUsedOnce'
  <2> DEFINE Won(q) == req'[q].op = "refresh" /\ reply'[q] = "ok"
  <2>1. ASSUME NEW q \in Requests, q # r, Won(q), Won(r), req'[q].session = req'[r].session
        PROVE  req'[q].secret # req'[r].secret
    <3>1. pc[r] = "commit" /\ req' = req BY <1>0, <2>1, StepReply
    <3>2. PICK t0 \in 0 .. clock : RefreshAdmitted(r, t0)
      BY <2>1, <3>1 DEF HistoryInv, Decided, DecidedAt
    <3>3. sessions[req[r].session].token = req[r].secret BY <3>2 DEF RefreshAdmitted
    <3>4. reply'[q] = reply[q] BY <1>0, <2>1 DEF Alone
    <3>5. sessions[req[q].session].token # req[q].secret
      BY <2>1, <3>1, <3>4 DEF SecretsKept
    <3> QED BY <2>1, <3>1, <3>3, <3>5
  <2>2. ASSUME NEW p \in Requests, NEW q \in Requests, p # r, q # r, Won(p), Won(q),
               req'[p].session = req'[q].session, req'[p].secret = req'[q].secret
        PROVE  p = q
    <3>1. /\ req'[p] = req[p] /\ reply'[p] = reply[p]
          /\ req'[q] = req[q] /\ reply'[q] = reply[q]
      BY <1>0, <2>2 DEF Alone
    <3> QED BY <2>2, <3>1 DEF SecretsKept, SecretUsedOnce
  <2> QED BY <2>1, <2>2 DEF SecretUsedOnce
<1> QED BY <1>5, <1>6, <1>7, <1>8, <1>9 DEF SecretsKept, Drawn

\* The secrets are kept by every step.
LEMMA SecretsInductive ==
  /\ Init => SecretsKept
  /\ HistoryInv /\ HistoryInv' /\ SecretsKept /\ [Next]_vars => SecretsKept'
<1>1. ASSUME Init PROVE SecretsKept
  <2>1. ASSUME NEW s \in SessionIds, sessions[s] # NULL PROVE sessions[s].token = SeedSecret
    BY <1>1, <2>1 DEF Init, NewSession
  <2>2. NULL # "refresh" BY NoOperationAssumption DEF Operations
  <2>3. \A r \in Requests : reply[r] = NULL /\ req[r].op = NULL
    BY <1>1 DEF Init, NoInput, Input
  <2> QED BY <2>1, <2>2, <2>3, RequestsAssumption DEF SecretsKept, SecretUsedOnce, Drawn
<1>2. ASSUME HistoryInv, HistoryInv', SecretsKept, [Next]_vars PROVE SecretsKept'
  <2>1. ASSUME NEW r \in Requests, Step(r) PROVE SecretsKept' BY <1>2, <2>1, SecretsStep
  <2>2. CASE Tick \/ Answered \/ UNCHANGED vars
    <3>1. pc' = pc /\ req' = req /\ reply' = reply /\ sessions' = sessions
      BY <2>2 DEF Tick, Answered, vars, tables
    <3> QED BY <1>2, <3>1 DEF SecretsKept, SecretUsedOnce, Drawn
  <2> QED BY <1>2, <2>1, <2>2 DEF Next, Step
<1> QED BY <1>1, <1>2

(***************************************************************************)
(* A secret is exchanged at most once, however many requests present it at *)
(* the same time (Refresh under the lock of the session row).              *)
(***************************************************************************)
THEOREM SecretsUsedOnce == Spec => []SecretUsedOnce
<1>1. SecretsKept => SecretUsedOnce BY DEF SecretsKept
<1> QED BY <1>1, SecretsInductive, HistoryInvariant, PTL DEF Spec

-----------------------------------------------------------------------------
(***************************************************************************)
(* The refinement.  AccountPolicy speaks of rows in the same words.        *)
(***************************************************************************)
LEMMA PolicyRows ==
  /\ \A row, t : /\ Policy!MuteExpired(row, t) <=> MuteExpired(row, t)
                 /\ Policy!Recovered(row, t) = Recovered(row, t)
                 /\ Policy!RecoveryAudit(row, t) = RecoveryAudit(row, t)
  /\ \A action, actor, old, new, t :
       Policy!Audit(action, actor, old, new, t) = Audit(action, actor, old, new, t)
  /\ \A row : Policy!MuteCheck(row) <=> MuteCheck(row)
BY DEF Policy!MuteExpired, Policy!Recovered, Policy!RecoveryAudit, Policy!Audit,
       Policy!MuteCheck, MuteExpired, Recovered, RecoveryAudit, Audit, MuteCheck

\* So it does of statuses and sessions.
LEMMA PolicySessions ==
  /\ \A status : /\ Policy!CanLogin(status) <=> CanLogin(status)
                 /\ Policy!CanEditProfile(status) <=> CanEditProfile(status)
                 /\ Policy!CanDeleteAccount(status) <=> CanDeleteAccount(status)
  /\ \A session, owner, t : /\ Policy!Live(session) <=> Live(session)
                            /\ Policy!Usable(session, owner, t) <=> Usable(session, owner, t)
  /\ \A owner, token, t : Policy!NewSession(owner, token, t, RefreshTTL)
                            = NewSession(owner, token, t, RefreshTTL)
  /\ Policy!SessionIds = SessionIds
  /\ Policy!AdministrativeStatuses = AdministrativeStatuses
BY DEF Policy!CanLogin, Policy!CanEditProfile, Policy!CanDeleteAccount, Policy!Live,
       Policy!Usable, Policy!NewSession, Policy!SessionIds, Policy!AdministrativeStatuses,
       CanLogin, CanEditProfile, CanDeleteAccount, Live, Usable, NewSession, SessionIds,
       AdministrativeStatuses

\* A step of the policy, or none that can be seen in the tables.
PolicyStep == Policy!Next \/ UNCHANGED Policy!vars

\* The store starts in a state the policy starts in.
LEMMA RefinesInit == Init => Policy!Init
<1> SUFFICES ASSUME Init PROVE Policy!Init OBVIOUS
<1>1. HistoryInv BY HistoryInit
<1>2. \A s \in SessionIds : Live(sessions[s]) => CanLogin(users[sessions[s].owner].status)
  BY <1>1 DEF HistoryInv, ClosingInv, ClosedAccountsSignedOut
<1>3. \A s \in SessionIds : sessions[s] # NULL => sessions[s].token = SeedSecret
  BY DEF Init, NewSession
<1>4. \A u \in Users : MuteCheck(users[u]) /\ users[u].updatedAt = 0 BY DEF Init
<1>5. clock = 0 /\ audits = [u \in Users |-> << >>] BY DEF Init
<1> QED BY <1>2, <1>3, <1>4, <1>5, PolicyRows, PolicySessions DEF Policy!Init, Policy!Open

\* Recovering one account is EndMute, or nothing.
LEMMA RecoverRefines ==
  ASSUME TypeOK, TimesOrdered, NEW u \in Users, NEW t \in 0 .. clock,
         users' = [users EXCEPT ![u] = Recovered(users[u], t)],
         audits' = [audits EXCEPT ![u] = @ \o RecoveryAudit(users[u], t)],
         sessions' = sessions, clock' = clock
  PROVE  PolicyStep
<1>0. users[u] \in UserRow /\ clock \in Nat /\ t \in Nat
      /\ users \in [Users -> UserRow] /\ audits \in [Users -> Seq(AuditEntry)]
  BY DEF TypeOK, StoreTypeOK
<1>1. CASE MuteExpired(users[u], t)
  <2>1. users[u].updatedAt <= users[u].mutedUntil BY <1>1 DEF TimesOrdered, MuteExpired
  <2>2. t \in Policy!Moments(u)
    BY <1>0, <1>1, <2>1, NullAssumption DEF Policy!Moments, MuteExpired, UserRow
  <2>3. Policy!EndMute(u, t)
    BY <1>1, PolicyRows DEF Policy!EndMute, Policy!Recover
  <2> QED BY <2>2, <2>3 DEF Policy!Next, PolicyStep
<1>2. CASE ~ MuteExpired(users[u], t)
  <2>1. Recovered(users[u], t) = users[u] /\ RecoveryAudit(users[u], t) = << >>
    BY <1>2 DEF Recovered, RecoveryAudit
  <2>2. audits[u] \o << >> = audits[u] BY <1>0, ConcatEmptySeq
  <2>3. users' = users /\ audits' = audits BY <1>0, <2>1, <2>2
  <2> QED BY <2>3 DEF PolicyStep, Policy!vars
<1> QED BY <1>1, <1>2

\* What a write set on one session makes of the table, and one on none.
LEMMA SessionsApplied ==
  ASSUME TypeOK, NEW w, ApplyWrites(w)
  PROVE  /\ \A s \in SessionIds : DOMAIN w.sessions = {s} =>
              sessions' = [sessions EXCEPT ![s] = w.sessions[s]]
         /\ DOMAIN w.sessions = {} => sessions' = sessions
BY DEF ApplyWrites, SessionAfter, TypeOK, StoreTypeOK

\* A login.
LEMMA LoginRefines ==
  ASSUME TypeOK, TimesOrdered, NEW r \in Requests, req[r].user \in Users,
         NEW t \in 0 .. clock, StampsRise(r, t), clock' = clock, ApplyWrites(ws[r]),
         req[r].op = "login", LoginAdmitted(r), NEW id \in SessionIds,
         sessions[id] = NULL, ws[r] = LoginWrites(r, id, t)
  PROVE  PolicyStep
<1> DEFINE u == req[r].user
           w == ws[r]
<1>1. /\ DOMAIN w.users = {u} /\ w.users[u] = Recovered(users[u], t)
      /\ DOMAIN w.audits = {u} /\ w.audits[u] = RecoveryAudit(users[u], t)
      /\ DOMAIN w.sessions = {id} /\ w.sessions[id] = NewSession(u, r, t, RefreshTTL)
  BY DEF LoginWrites, RecoverUser, RecoveryAudits
<1>2. /\ users' = [users EXCEPT ![u] = Recovered(users[u], t)]
      /\ audits' = [audits EXCEPT ![u] = @ \o RecoveryAudit(users[u], t)]
  BY <1>1 DEF ApplyWrites, UserAfter, AuditsAfter, TypeOK, StoreTypeOK
<1>3. sessions' = [sessions EXCEPT ![id] = NewSession(u, r, t, RefreshTTL)]
  BY <1>1, SessionsApplied
<1>4. t \in Policy!Moments(u)
  BY NullUser DEF StampsRise, LockedAccounts, Policy!Moments, TypeOK, StoreTypeOK, UserRow
<1>5. Policy!SignIn(u, id, r, t)
  BY <1>2, <1>3, PolicyRows, PolicySessions
  DEF Policy!SignIn, Policy!Open, Policy!Recover, LoginAdmitted
<1> QED BY <1>4, <1>5, PolicySessions DEF Policy!Next, PolicyStep, Secrets

\* A refresh.
LEMMA RefreshRefines ==
  ASSUME TypeOK, TimesOrdered, SecretsKept, NEW r \in Requests, req[r].user \in Users,
         NEW t \in 0 .. clock, StampsRise(r, t), clock' = clock, ApplyWrites(ws[r]),
         pc[r] # "done",
         req[r].op = "refresh", RefreshAdmitted(r, t), ws[r] = RefreshWrites(r, t)
  PROVE  PolicyStep
<1> DEFINE u == req[r].user
           s == req[r].session
           w == ws[r]
<1>1. /\ s \in SessionIds /\ sessions[s] # NULL /\ sessions[s].owner = u
      /\ Usable(sessions[s], u, t) /\ sessions[s].token = req[r].secret
      /\ CanLogin(users[u].status)
  BY DEF RefreshAdmitted, Usable, Live, TypeOK
<1>2. /\ DOMAIN w.users = {u} /\ w.users[u] = Recovered(users[u], t)
      /\ DOMAIN w.audits = {u} /\ w.audits[u] = RecoveryAudit(users[u], t)
      /\ DOMAIN w.sessions = {s} /\ w.sessions[s] = [sessions[s] EXCEPT !.token = r]
  BY DEF RefreshWrites, RecoverUser, RecoveryAudits
<1>3. /\ users' = [users EXCEPT ![u] = Recovered(users[u], t)]
      /\ audits' = [audits EXCEPT ![u] = @ \o RecoveryAudit(users[u], t)]
  BY <1>2 DEF ApplyWrites, UserAfter, AuditsAfter, TypeOK, StoreTypeOK
<1>4. sessions' = [sessions EXCEPT ![s] = [sessions[s] EXCEPT !.token = r]]
  BY <1>1, <1>2, SessionsApplied
<1>5. sessions' = [sessions EXCEPT ![s].token = r] BY <1>4
<1>6. r # sessions[s].token BY <1>1 DEF SecretsKept, Drawn
<1>7. t \in Policy!Moments(u)
  BY NullUser DEF StampsRise, LockedAccounts, Policy!Moments, TypeOK, StoreTypeOK, UserRow
<1>8. Policy!Rotate(s, r, t)
  BY <1>1, <1>3, <1>5, <1>6, PolicyRows, PolicySessions
  DEF Policy!Rotate, Policy!Open, Policy!Recover
<1> QED BY <1>1, <1>7, <1>8, PolicySessions DEF Policy!Next, PolicyStep, Secrets

\* A read that ends a mute.
LEMMA ReadRefines ==
  ASSUME TypeOK, TimesOrdered, NEW r \in Requests, req[r].user \in Users,
         NEW t \in 0 .. clock, clock' = clock, ApplyWrites(ws[r]),
         ws[r] = RecoverWrites(r, t)
  PROVE  PolicyStep
<1> DEFINE u == req[r].user
           w == ws[r]
<1>1. /\ DOMAIN w.users = {u} /\ w.users[u] = Recovered(users[u], t)
      /\ DOMAIN w.audits = {u} /\ w.audits[u] = RecoveryAudit(users[u], t)
      /\ DOMAIN w.sessions = {}
  BY DEF RecoverWrites, RecoverUser, RecoveryAudits, NoRows
<1>2. /\ users' = [users EXCEPT ![u] = Recovered(users[u], t)]
      /\ audits' = [audits EXCEPT ![u] = @ \o RecoveryAudit(users[u], t)]
  BY <1>1 DEF ApplyWrites, UserAfter, AuditsAfter, TypeOK, StoreTypeOK
<1>3. sessions' = sessions BY <1>1, SessionsApplied
<1> QED BY <1>2, <1>3, RecoverRefines

\* An edit of the profile.
LEMMA UpdateRefines ==
  ASSUME TypeOK, TimesOrdered, NEW r \in Requests, req[r].user \in Users,
         NEW t \in 0 .. clock, StampsRise(r, t), clock' = clock, ApplyWrites(ws[r]),
         req[r].op = "update", UpdateAdmitted(r, t),
         NEW changed \in BOOLEAN, ws[r] = UpdateWrites(r, changed, t)
  PROVE  PolicyStep
<1> DEFINE u == req[r].user
           w == ws[r]
<1>1. /\ DOMAIN w.users = {u}
      /\ w.users[u] = EditedRow(Recovered(users[u], t), changed, t)
      /\ DOMAIN w.audits = {u} /\ w.audits[u] = RecoveryAudit(users[u], t)
      /\ DOMAIN w.sessions = {}
  BY DEF UpdateWrites, RecoveryAudits, NoRows
<1>2. /\ users' = [users EXCEPT ![u] = EditedRow(Recovered(users[u], t), changed, t)]
      /\ audits' = [audits EXCEPT ![u] = @ \o RecoveryAudit(users[u], t)]
  BY <1>1 DEF ApplyWrites, UserAfter, AuditsAfter, TypeOK, StoreTypeOK
<1>3. sessions' = sessions BY <1>1, SessionsApplied
<1>4. CASE ~ changed
  <2>1. EditedRow(Recovered(users[u], t), changed, t) = Recovered(users[u], t)
    BY <1>4 DEF EditedRow
  <2> QED BY <1>2, <1>3, <2>1, RecoverRefines
<1>5. CASE changed
  <2>1. EditedRow(Recovered(users[u], t), changed, t)
          = [Recovered(users[u], t) EXCEPT !.updatedAt = t]
    BY <1>5 DEF EditedRow
  <2>2. /\ CanEditProfile(users[u].status)
        /\ req[r].session \in SessionIds /\ Usable(sessions[req[r].session], u, t)
    BY DEF UpdateAdmitted, ProfileSessionValid, TypeOK
  <2>3. Policy!ActsAt(u, t) BY <2>2, PolicySessions DEF Policy!ActsAt
  <2>4. Policy!Edit(u, t)
    BY <1>2, <1>3, <2>1, <2>2, <2>3, PolicyRows, PolicySessions DEF Policy!Edit
  <2>5. t \in Policy!Moments(u)
    BY NullUser DEF StampsRise, LockedAccounts, Policy!Moments, TypeOK, StoreTypeOK, UserRow
  <2> QED BY <2>4, <2>5 DEF Policy!Next, PolicyStep
<1> QED BY <1>4, <1>5

\* Revoking exactly the live sessions of one account.
LEMMA RevokeAllApplied ==
  ASSUME TypeOK, NEW w, ApplyWrites(w), NEW u \in Users, NEW t, NEW ids,
         w.sessions = RevokeAt(ids, t),
         \A s \in SessionIds : s \in ids <=> Live(sessions[s]) /\ sessions[s].owner = u,
         ids \subseteq SessionIds
  PROVE  Policy!RevokeAll(u, t)
<1>1. Policy!Owned(u) = ids BY PolicySessions DEF Policy!Owned
<1>2. DOMAIN w.sessions = ids /\ \A s \in ids : w.sessions[s] = [sessions[s] EXCEPT !.revokedAt = t]
  BY DEF RevokeAt
<1> QED BY <1>1, <1>2, PolicySessions DEF Policy!RevokeAll, ApplyWrites, SessionAfter

\* The deletion of an account.
LEMMA DeleteRefines ==
  ASSUME TypeOK, TimesOrdered, NEW r \in Requests, req[r].user \in Users,
         Locked(r), Covered(r), RowsMatch(r), pc[r] = "commit",
         NEW t \in 0 .. clock, StampsRise(r, t), clock' = clock, ApplyWrites(ws[r]),
         req[r].op = "delete", DeleteAdmitted(r, t), ws[r] = DeleteWrites(r, t)
  PROVE  PolicyStep
<1> DEFINE u == req[r].user
           w == ws[r]
<1>1. /\ DOMAIN w.users = {u} /\ w.users[u] = DeletedRow(t)
      /\ DOMAIN w.audits = {u} /\ w.audits[u] = RecoveryAudit(users[u], t)
      /\ w.sessions = RevokeAt(rows[r], t)
  BY DEF DeleteWrites, RecoveryAudits
<1>2. /\ users' = [users EXCEPT ![u] = DeletedRow(t)]
      /\ audits' = [audits EXCEPT ![u] = @ \o RecoveryAudit(users[u], t)]
  BY <1>1 DEF ApplyWrites, UserAfter, AuditsAfter, TypeOK, StoreTypeOK
<1>3. rows[r] \subseteq SessionIds BY DEF TypeOK
<1>4. ASSUME NEW s \in SessionIds
      PROVE  s \in rows[r] <=> Live(sessions[s]) /\ sessions[s].owner = u
  <2>1. s \in rows[r] => Live(sessions[s]) /\ sessions[s].owner = u
    BY DEF RowsMatch, Selected, SelectedById, SelectedByOwner, Live
  <2>2. Live(sessions[s]) /\ sessions[s].owner = u => s \in want[r] \cup rows[r]
    BY DEF Covered, SelectedByOwner
  <2>3. want[r] = {} BY DEF Locked
  <2> QED BY <2>1, <2>2, <2>3
<1>5. Policy!RevokeAll(u, t) BY <1>1, <1>3, <1>4, RevokeAllApplied
<1>6. /\ CanDeleteAccount(users[u].status)
      /\ req[r].session \in SessionIds /\ Usable(sessions[req[r].session], u, t)
  BY <1>3 DEF DeleteAdmitted, ProfileSessionValid
<1>7. Policy!ActsAt(u, t) BY <1>6, PolicySessions DEF Policy!ActsAt
<1>8. Policy!Delete(u, t)
  BY <1>2, <1>5, <1>6, <1>7, PolicyRows, PolicySessions DEF Policy!Delete, DeletedRow
<1>9. t \in Policy!Moments(u)
  BY NullUser DEF StampsRise, LockedAccounts, Policy!Moments, TypeOK, StoreTypeOK, UserRow
<1> QED BY <1>8, <1>9 DEF Policy!Next, PolicyStep

\* The session rows a ban was given are those of its target, and that of the actor.
LEMMA BanRevokesAll ==
  ASSUME TypeOK, NEW r \in Requests, req[r].op = "status", pc[r] = "commit",
         Locked(r), Covered(r), RowsMatch(r), OrderWellFormed(r),
         NEW t, ActorAdmitted(r, t), req[r].status = "banned",
         NEW u \in Users, u = req[r].target, Banning(r),
         NEW s \in SessionIds
  PROVE  s \in TargetSessions(r) <=> Live(sessions[s]) /\ sessions[s].owner = u
<1>1. TargetSessions(r) = rows[r] \ {req[r].session} BY DEF TargetSessions
<1>2. SelectedByOwner(r) = {u} /\ SelectedById(r) = {req[r].session}
  BY DEF SelectedByOwner, SelectedById
<1>3. s \in TargetSessions(r) => Live(sessions[s]) /\ sessions[s].owner = u
  BY <1>1, <1>2 DEF RowsMatch, Selected, Live
<1>4. Live(sessions[s]) /\ sessions[s].owner = u => s \in rows[r]
  BY <1>2 DEF Covered, Locked
<1>5. sessions[req[r].session].owner # u
  BY DEF ActorAdmitted, Usable, OrderWellFormed
<1> QED BY <1>1, <1>3, <1>4, <1>5

\* An order that the account complies with revokes nothing.
LEMMA NoOpRevokesNone ==
  ASSUME TypeOK, NEW r \in Requests, req[r].op = "status",
         RowsMatch(r), NEW t, req[r].target \in Users,
         NoOp(r, Recovered(users[req[r].target], t)), OrderWellFormed(r)
  PROVE  TargetSessions(r) = {}
<1> SUFFICES ASSUME req[r].status = "banned" PROVE TargetSessions(r) = {}
  BY DEF TargetSessions
<1> DEFINE row == Recovered(users[req[r].target], t)
<1>1. row.status = "banned" /\ row.mutedUntil = NULL
  BY DEF NoOp, OrderWellFormed
<1>2. row = users[req[r].target] BY <1>1 DEF Recovered
<1>3. ~ Banning(r) BY <1>1, <1>2 DEF Banning
<1>4. rows[r] \subseteq {req[r].session}
  BY <1>3 DEF RowsMatch, Selected, SelectedById, SelectedByOwner
<1> QED BY <1>4 DEF TargetSessions

\* Two audit entries are appended at once or one after the other.
LEMMA AppendAudit ==
  ASSUME NEW a \in Seq(AuditEntry), NEW b \in Seq(AuditEntry), NEW e \in AuditEntry
  PROVE  a \o (b \o <<e>>) = a \o b \o <<e>>
<1>1. <<e>> \in Seq(AuditEntry) OBVIOUS
<1> QED BY <1>1, ConcatAssociative

\* A change of status an administrator orders.
LEMMA StatusRefines ==
  ASSUME TypeOK, TimesOrdered, NEW r \in Requests, req[r].user \in Users,
         Ready(r), OrderWellFormed(r), Sampled(r),
         Locked(r), Covered(r), RowsMatch(r), pc[r] = "commit",
         NEW t \in 0 .. clock, StampsRise(r, t), clock' = clock, ApplyWrites(ws[r]),
         req[r].op = "status", ActorAdmitted(r, t), OrderAdmitted(r, t),
         ws[r] = StatusWrites(r, t)
  PROVE  PolicyStep
<1> DEFINE actor == req[r].user
           u     == req[r].target
           w     == ws[r]
           row   == Recovered(users[u], t)
           own   == Recovered(users[actor], t)
<1>0. /\ users \in [Users -> UserRow] /\ audits \in [Users -> Seq(AuditEntry)]
      /\ actor \in Users /\ u \in Users /\ actor # u /\ u \notin Admins
      /\ rows[r] \subseteq SessionIds /\ t \in Nat /\ clock \in Nat
  BY DEF TypeOK, StoreTypeOK, OrderWellFormed, OrderAdmitted
<1>1. t \in Policy!Moments(u) /\ t \in Policy!Moments(actor)
  <2>1. u \in LockedAccounts(r) /\ actor \in LockedAccounts(r)
    BY <1>0, NullUser DEF LockedAccounts
  <2> QED BY <1>0, <2>1 DEF StampsRise, Policy!Moments, UserRow
<1>2. /\ DOMAIN w.users = {actor, u} /\ DOMAIN w.audits = {actor, u}
      /\ w.users[actor] = own /\ w.audits[actor] = RecoveryAudit(users[actor], t)
      /\ w.users[u] = OrderedRow(r, row, t)
      /\ w.audits[u] = RecoveryAudit(users[u], t) \o OrderAudit(r, row, t)
      /\ w.sessions = RevokeAt(TargetSessions(r), t)
  BY <1>0 DEF StatusWrites
<1>3. /\ users' = [users EXCEPT ![actor] = own, ![u] = OrderedRow(r, row, t)]
      /\ audits' = [audits EXCEPT ![actor] = @ \o RecoveryAudit(users[actor], t),
                                  ![u] = @ \o (RecoveryAudit(users[u], t) \o OrderAudit(r, row, t))]
  BY <1>0, <1>2 DEF ApplyWrites, UserAfter, AuditsAfter
<1>4. \A k \in Users : /\ RecoveryAudit(users[k], t) \in Seq(AuditEntry)
                       /\ Recovered(users[k], t) \in UserRow
                       /\ ~ MuteExpired(users[k], t) =>
                            Recovered(users[k], t) = users[k] /\ RecoveryAudit(users[k], t) = << >>
  BY <1>0, RecoveryType DEF Recovered, RecoveryAudit
<1>5. CASE NoOp(r, row)
  <2>1. OrderedRow(r, row, t) = row /\ OrderAudit(r, row, t) = << >>
    BY <1>5 DEF OrderedRow, OrderAudit
  <2>2. RecoveryAudit(users[u], t) \o << >> = RecoveryAudit(users[u], t)
    BY <1>0, <1>4, ConcatEmptySeq
  <2>3. sessions' = sessions
    <3>1. TargetSessions(r) = {} BY <1>0, <1>5, NoOpRevokesNone
    <3>2. DOMAIN w.sessions = {} BY <1>2, <3>1 DEF RevokeAt
    <3> QED BY <3>2, SessionsApplied
  <2>4. /\ users' = [users EXCEPT ![actor] = own, ![u] = row]
        /\ audits' = [audits EXCEPT ![actor] = @ \o RecoveryAudit(users[actor], t),
                                    ![u] = @ \o RecoveryAudit(users[u], t)]
    BY <1>3, <2>1, <2>2
  <2>5. \A k \in Users : audits[k] \o << >> = audits[k] BY <1>0, ConcatEmptySeq
  <2>6. CASE MuteExpired(users[actor], t) /\ MuteExpired(users[u], t)
    <3>1. Policy!EndMutes(actor, u, t)
      BY <1>0, <2>3, <2>4, <2>6, PolicyRows DEF Policy!EndMutes
    <3> QED BY <1>0, <1>1, <3>1 DEF Policy!Next, PolicyStep
  <2>7. CASE ~ MuteExpired(users[u], t)
    <3>1. /\ users' = [users EXCEPT ![actor] = own]
          /\ audits' = [audits EXCEPT ![actor] = @ \o RecoveryAudit(users[actor], t)]
      BY <1>0, <1>4, <2>4, <2>5, <2>7
    <3> QED BY <1>0, <2>3, <3>1, RecoverRefines
  <2>8. CASE ~ MuteExpired(users[actor], t)
    <3>1. /\ users' = [users EXCEPT ![u] = row]
          /\ audits' = [audits EXCEPT ![u] = @ \o RecoveryAudit(users[u], t)]
      BY <1>0, <1>4, <2>4, <2>5, <2>8
    <3> QED BY <1>0, <2>3, <3>1, RecoverRefines
  <2> QED BY <2>6, <2>7, <2>8
<1>6. CASE ~ NoOp(r, row)
  <2> DEFINE status == req[r].status
             until  == req[r].until
             new    == [status |-> status, mutedUntil |-> until, updatedAt |-> t]
             entry  == Audit("status_changed", actor, row, new, t)
  <2>1. OrderedRow(r, row, t) = new /\ OrderAudit(r, row, t) = <<entry>>
    BY <1>6 DEF OrderedRow, OrderAudit
  <2>2. /\ status \in AdministrativeStatuses /\ until \in 1 .. MaxTime \cup {NULL}
        /\ MuteCheck(new)
        /\ status = "muted" => until > t
    BY DEF Ready, Sampled, OrderWellFormed, MuteCheck, OrderAdmitted
  <2>3. /\ actor \in Admins /\ users[actor].status \in {"pending", "active", "muted"}
        /\ Policy!ActsAt(actor, t)
    <3>1. users[actor].status \in Statuses BY <1>0 DEF UserRow
    <3>2. req[r].session \in SessionIds BY <1>0 DEF ActorAdmitted
    <3> QED BY <3>1, <3>2, PolicySessions DEF ActorAdmitted, Statuses, Policy!ActsAt
  <2>4. row.status # "deleted"
    BY DEF OrderAdmitted, Recovered
  <2>5. row.status \in {"pending", "banned"} => status = "active"
    <3>1. SUFFICES ASSUME row.status \in {"pending", "banned"}, status = row.status
                   PROVE  FALSE
      BY DEF OrderAdmitted, ValidAdministrativeTransition
    <3>2. status = "banned" BY <2>2, <3>1 DEF AdministrativeStatuses
    <3>3. row = users[u] BY <3>1 DEF Recovered
    <3>4. row.mutedUntil = NULL
      BY <1>0, <3>1, <3>2, <3>3 DEF TimesOrdered, StoreChecks, MuteCheck
    <3>5. until = NULL BY <3>2 DEF OrderWellFormed
    <3> QED BY <1>6, <3>1, <3>4, <3>5 DEF NoOp
  <2>6. IF status = "banned" THEN Policy!RevokeAll(u, t) ELSE UNCHANGED sessions
    <3>1. CASE status = "banned"
      <4>1. Banning(r)
        <5> SUFFICES ASSUME users[u].status = "banned", users[u].mutedUntil = NULL
                     PROVE  FALSE
          BY <1>0, <3>1 DEF Banning
        <5>1. row = users[u] BY DEF Recovered, MuteExpired
        <5>2. until = NULL BY <3>1 DEF OrderWellFormed
        <5> QED BY <1>6, <3>1, <5>1, <5>2 DEF NoOp
      <4>2. TargetSessions(r) \subseteq SessionIds BY <1>0 DEF TargetSessions
      <4>3. \A s \in SessionIds :
              s \in TargetSessions(r) <=> Live(sessions[s]) /\ sessions[s].owner = u
        BY <1>0, <3>1, <4>1, BanRevokesAll
      <4>4. Policy!Owned(u) = TargetSessions(r)
        BY <4>2, <4>3, PolicySessions DEF Policy!Owned
      <4>5. /\ DOMAIN w.sessions = TargetSessions(r)
            /\ \A s \in TargetSessions(r) :
                 w.sessions[s] = [sessions[s] EXCEPT !.revokedAt = t]
        BY <1>2 DEF RevokeAt
      <4>6. sessions' = [s \in SessionIds |-> IF s \in DOMAIN w.sessions THEN w.sessions[s] ELSE sessions[s]]
        BY DEF ApplyWrites, SessionAfter
      <4>7. Policy!RevokeAll(u, t)
        BY <4>4, <4>5, <4>6, PolicySessions DEF Policy!RevokeAll
      <4> QED BY <3>1, <4>7
    <3>2. CASE status # "banned"
      <4>1. DOMAIN w.sessions = {} BY <1>2, <3>2 DEF RevokeAt, TargetSessions
      <4> QED BY <3>2, <4>1, SessionsApplied
    <3> QED BY <3>1, <3>2
  <2>7. audits[u] \o (RecoveryAudit(users[u], t) \o <<entry>>)
          = audits[u] \o RecoveryAudit(users[u], t) \o <<entry>>
    <3>1. status \in Statuses /\ until \in Nat \cup {NULL}
      BY <2>2, TimeAssumption DEF AdministrativeStatuses, Statuses
    <3>2. new \in UserRow BY <1>0, <3>1 DEF UserRow
    <3>3. entry \in AuditEntry
      BY <1>0, <1>4, <3>2, UsersAssumption DEF Audit, AuditEntry, UserRow
    <3>4. audits[u] \in Seq(AuditEntry) /\ RecoveryAudit(users[u], t) \in Seq(AuditEntry)
      BY <1>0, <1>4
    <3> HIDE DEF entry, u
    <3> QED BY <3>3, <3>4, AppendAudit
  <2>8. /\ users' = [users EXCEPT ![actor] = own, ![u] = new]
        /\ audits' = [audits EXCEPT ![actor] = @ \o RecoveryAudit(users[actor], t),
                                    ![u] = @ \o RecoveryAudit(users[u], t) \o <<entry>>]
    BY <1>0, <1>3, <2>1, <2>7
  <2>9. Policy!Order(actor, u, status, until, t)
    <3>1. /\ Policy!Recovered(users[u], t) = row
          /\ Policy!Recovered(users[actor], t) = own
          /\ Policy!RecoveryAudit(users[u], t) = RecoveryAudit(users[u], t)
          /\ Policy!RecoveryAudit(users[actor], t) = RecoveryAudit(users[actor], t)
      BY PolicyRows
    <3> HIDE DEF row, own
    <3>2. Policy!MuteCheck(new) BY <2>2, PolicyRows
    <3>3. Policy!Audit("status_changed", actor, row, new, t) = entry
      <4> HIDE DEF new, actor
      <4> QED BY PolicyRows
    <3>4. users' = [users EXCEPT ![actor] = Policy!Recovered(users[actor], t), ![u] = new]
      BY <2>8, <3>1
    <3>5. audits' = [audits EXCEPT
            ![actor] = @ \o Policy!RecoveryAudit(users[actor], t),
            ![u] = @ \o Policy!RecoveryAudit(users[u], t)
                     \o <<Policy!Audit("status_changed", actor, Policy!Recovered(users[u], t), new, t)>>]
      <4>1. Policy!Audit("status_changed", actor, Policy!Recovered(users[u], t), new, t) = entry
        BY <3>1, <3>3
      <4> HIDE DEF entry, new, actor, u
      <4> QED BY <2>8, <3>1, <4>1
    <3>6. /\ Policy!Recovered(users[u], t).status \in {"pending", "banned"} => status = "active"
          /\ Policy!Recovered(users[u], t).status # "deleted"
      BY <2>4, <2>5, <3>1
    <3>7. u \in Users \ Admins /\ (status = "muted" => until > t)
      BY <1>0, <2>2
    <3> HIDE DEF actor, u, status, until, entry
    <3> QED BY <2>3, <2>6, <3>2, <3>4, <3>5, <3>6, <3>7, Zenon DEF Policy!Order
  <2> QED BY <1>0, <1>1, <2>2, <2>9, PolicySessions DEF Policy!Next, PolicyStep
<1> QED BY <1>5, <1>6

\* A commit is one step of the policy, taken at the time of its callback.
LEMMA CommitRefines ==
  ASSUME HistoryInv, SecretsKept, NEW r \in Requests, pc[r] = "commit",
         ApplyWrites(ws[r]), clock' = clock
  PROVE  PolicyStep
<1>1. /\ TypeOK /\ TimesOrdered /\ Ready(r) /\ OrderWellFormed(r) /\ Sampled(r)
      /\ Locked(r) /\ Covered(r) /\ RowsMatch(r) /\ Decided(r)
  BY DEF HistoryInv, ClosingInv
<1>2. req[r].user \in Users BY <1>1 DEF Ready
<1>3. PICK t \in 0 .. clock : DecidedAt(r, t) /\ StampsRise(r, t) BY <1>1 DEF Decided
<1>4. CASE req[r].op = "login" /\ LoginAdmitted(r)
           /\ \E id \in SessionIds : sessions[id] = NULL /\ ws[r] = LoginWrites(r, id, t)
  BY <1>1, <1>2, <1>3, <1>4, LoginRefines
<1>5. CASE req[r].op = "refresh" /\ RefreshAdmitted(r, t) /\ ws[r] = RefreshWrites(r, t)
  BY <1>1, <1>2, <1>3, <1>5, RefreshRefines
<1>6. CASE req[r].op \in {"me", "public"} /\ ws[r] = RecoverWrites(r, t)
  BY <1>1, <1>2, <1>6, ReadRefines
<1>7. CASE req[r].op = "update" /\ UpdateAdmitted(r, t)
           /\ \E changed \in BOOLEAN : ws[r] = UpdateWrites(r, changed, t)
  BY <1>1, <1>2, <1>3, <1>7, UpdateRefines
<1>8. CASE req[r].op = "delete" /\ DeleteAdmitted(r, t) /\ ws[r] = DeleteWrites(r, t)
  BY <1>1, <1>2, <1>3, <1>8, DeleteRefines
<1>9. CASE req[r].op = "status" /\ ActorAdmitted(r, t) /\ OrderAdmitted(r, t)
           /\ ws[r] = StatusWrites(r, t)
  BY <1>1, <1>2, <1>3, <1>9, StatusRefines
<1> QED BY <1>3, <1>4, <1>5, <1>6, <1>7, <1>8, <1>9 DEF DecidedAt

\* A logout is one step of the policy, stamped with the time it sampled.
LEMMA RevokeRefines ==
  ASSUME HistoryInv, NEW r \in Requests, RevokeRow(r)
  PROVE  PolicyStep
<1> DEFINE s == req[r].session
           t == seenAt[r]
<1>1. TypeOK /\ Sampled(r) BY DEF HistoryInv, ClosingInv
<1>2. clock' = clock /\ users' = users /\ audits' = audits BY DEF RevokeRow
<1>3. /\ s \in SessionIds /\ sessions[s] # NULL
      /\ sessions[s].createdAt <= t /\ t \in Nat
  BY <1>1 DEF RevokeRow, Sampled
<1>4. t <= clock BY <1>1, <1>3, NullAssumption DEF Sampled
<1>5. CASE sessions' = sessions BY <1>2, <1>5 DEF PolicyStep, Policy!vars
<1>6. CASE Live(sessions[s]) /\ sessions' = [sessions EXCEPT ![s].revokedAt = t]
  <2>1. Policy!SignOut(s, t) BY <1>2, <1>6, PolicySessions DEF Policy!SignOut
  <2>2. t \in 0 .. clock /\ t >= sessions[s].createdAt
    <3>1. sessions[s].createdAt \in Nat /\ clock \in Nat
      BY <1>1, <1>3 DEF TypeOK, StoreTypeOK, SessionRow
    <3> QED BY <1>3, <1>4, <3>1
  <2> QED BY <1>3, <2>1, <2>2, PolicySessions DEF Policy!Next, PolicyStep
<1> QED BY <1>5, <1>6 DEF RevokeRow

\* Every step of the service is a step of the policy, or hidden from it.
LEMMA RefinesStep ==
  HistoryInv /\ SecretsKept /\ [Next]_vars => [Policy!Next]_(Policy!vars)
<1> SUFFICES ASSUME HistoryInv, SecretsKept, [Next]_vars PROVE PolicyStep
  BY DEF PolicyStep
<1>1. ASSUME NEW r \in Requests, Step(r) PROVE PolicyStep
  <2>1. clock' = clock BY <1>1, StepAlone DEF HistoryInv, ClosingInv
  <2>2. CASE pc[r] = "commit" /\ ApplyWrites(ws[r]) BY <2>1, <2>2, CommitRefines
  <2>3. CASE RevokeRow(r) BY <2>3, RevokeRefines
  <2>4. CASE users' = users /\ sessions' = sessions /\ audits' = audits
    BY <2>1, <2>4 DEF PolicyStep, Policy!vars
  <2> QED BY <1>1, <2>2, <2>3, <2>4, StepWrites DEF Writing
<1>2. CASE Tick
  BY <1>2 DEF Tick, tables, PolicyStep, Policy!Next, Policy!Pass
<1>3. CASE Answered \/ UNCHANGED vars
  BY <1>3 DEF Answered, vars, tables, PolicyStep, Policy!vars
<1> QED BY <1>1, <1>2, <1>3 DEF Next, Step

(***************************************************************************)
(* The concurrent service implements the atomic policy, for any number of  *)
(* accounts, sessions and requests: whatever waits, is cut off or loses    *)
(* its answer, the tables only ever take steps that AccountPolicy takes.   *)
(***************************************************************************)
THEOREM Refines == Spec => ImplementsPolicy
<1> QED BY RefinesInit, RefinesStep, HistoryInvariant, SecretsInductive, PTL
        DEF Spec, ImplementsPolicy, Policy!Spec
=============================================================================
