---------------------------- MODULE AccountPolicy ----------------------------
(***************************************************************************)
(* What the identity service promises, without requests, locks or          *)
(* transactions: every operation that changes an account or a session does *)
(* so in one step, decided on the account and the sessions as they are at  *)
(* that very step.  Only the time t an operation stamps its rows with may  *)
(* lie before the step, and never before the last change of the account.   *)
(***************************************************************************)
EXTENDS IdentityDomain

CONSTANTS Users, Admins, MaxSessions, Secrets, RefreshTTL, SeedSecret,
          MuteEnds    \* the instants at which an ordered mute may end

VARIABLES clock, users, sessions, audits

vars == <<clock, users, sessions, audits>>

SessionIds == 1 .. MaxSessions

Owned(u) == {s \in SessionIds : Live(sessions[s]) /\ sessions[s].owner = u}

\* The instants an operation on account u may be stamped with.
Moments(u) == users[u].updatedAt .. clock

\* u acts through a session of its own that is live and has not run out at t.
ActsAt(u, t) == \E s \in SessionIds : Usable(sessions[s], u, t)

Open(u) == CanLogin(users[u].status)

(***************************************************************************)
(* At the start no closed account has a live session, all stored secrets   *)
(* are the seed, and nothing has been audited.                             *)
(***************************************************************************)
Init ==
  /\ clock = 0
  /\ \A u \in Users : MuteCheck(users[u]) /\ users[u].updatedAt = 0
  /\ \A s \in SessionIds :
       /\ Live(sessions[s]) => Open(sessions[s].owner)
       /\ sessions[s] # NULL => sessions[s].token = SeedSecret
  /\ audits = [u \in Users |-> << >>]

Recover(u, t) ==
  /\ users' = [users EXCEPT ![u] = Recovered(users[u], t)]
  /\ audits' = [audits EXCEPT ![u] = @ \o RecoveryAudit(users[u], t)]

\* The end of an expired mute becomes visible: to a reader, or by any operation.
EndMute(u, t) ==
  /\ MuteExpired(users[u], t)
  /\ Recover(u, t)
  /\ UNCHANGED <<clock, sessions>>

\* A login opens a session of an account that is open now.
SignIn(u, s, secret, t) ==
  /\ Open(u)
  /\ sessions[s] = NULL
  /\ sessions' = [sessions EXCEPT ![s] = NewSession(u, secret, t, RefreshTTL)]
  /\ Recover(u, t)
  /\ UNCHANGED clock

\* A refresh replaces the secret of a live session of an open account.
Rotate(s, secret, t) ==
  /\ sessions[s] # NULL
  /\ Usable(sessions[s], sessions[s].owner, t)
  /\ Open(sessions[s].owner)
  /\ secret # sessions[s].token
  /\ sessions' = [sessions EXCEPT ![s].token = secret]
  /\ Recover(sessions[s].owner, t)
  /\ UNCHANGED clock

\* A logout ends one live session.
SignOut(s, t) ==
  /\ Live(sessions[s])
  /\ sessions' = [sessions EXCEPT ![s].revokedAt = t]
  /\ UNCHANGED <<clock, users, audits>>

\* An edit of the profile is stamped.
Edit(u, t) ==
  /\ CanEditProfile(users[u].status)
  /\ ActsAt(u, t)
  /\ users' = [users EXCEPT ![u] = [Recovered(users[u], t) EXCEPT !.updatedAt = t]]
  /\ audits' = [audits EXCEPT ![u] = @ \o RecoveryAudit(users[u], t)]
  /\ UNCHANGED <<clock, sessions>>

RevokeAll(u, t) ==
  sessions' = [s \in SessionIds |->
    IF s \in Owned(u) THEN [sessions[s] EXCEPT !.revokedAt = t] ELSE sessions[s]]

\* A deletion closes the account and every session it has.
Delete(u, t) ==
  /\ CanDeleteAccount(users[u].status)
  /\ ActsAt(u, t)
  /\ users' = [users EXCEPT
       ![u] = [status |-> "deleted", mutedUntil |-> NULL, updatedAt |-> t]]
  /\ audits' = [audits EXCEPT ![u] = @ \o RecoveryAudit(users[u], t)]
  /\ RevokeAll(u, t)
  /\ UNCHANGED clock

(***************************************************************************)
(* An administrator in good standing orders a new status for an ordinary   *)
(* account; a ban closes every session of it.  A deleted account is out of *)
(* reach, and a banned or pending one can only be made active.             *)
(***************************************************************************)
Order(actor, u, status, until, t) ==
  LET old == Recovered(users[u], t)
      new == [status |-> status, mutedUntil |-> until, updatedAt |-> t]
  IN /\ actor \in Admins
     /\ users[actor].status \in {"pending", "active", "muted"}
     /\ ActsAt(actor, t)
     /\ u \in Users \ Admins
     /\ old.status \in {"pending", "banned"} => status = "active"
     /\ old.status # "deleted"
     /\ MuteCheck(new)
     /\ status = "muted" => until > t
     /\ users' = [users EXCEPT ![actor] = Recovered(users[actor], t), ![u] = new]
     /\ audits' = [audits EXCEPT
          ![actor] = @ \o RecoveryAudit(users[actor], t),
          ![u] = @ \o RecoveryAudit(users[u], t)
                   \o << Audit("status_changed", actor, old, new, t) >>]
     /\ IF status = "banned" THEN RevokeAll(u, t) ELSE UNCHANGED sessions
     /\ UNCHANGED clock

\* An order the account already complies with still ends expired mutes.
EndMutes(actor, u, t) ==
  /\ actor # u
  /\ MuteExpired(users[actor], t)
  /\ MuteExpired(users[u], t)
  /\ users' = [users EXCEPT ![actor] = Recovered(users[actor], t),
                            ![u] = Recovered(users[u], t)]
  /\ audits' = [audits EXCEPT ![actor] = @ \o RecoveryAudit(users[actor], t),
                              ![u] = @ \o RecoveryAudit(users[u], t)]
  /\ UNCHANGED <<clock, sessions>>

Pass == clock' = clock + 1 /\ UNCHANGED <<users, sessions, audits>>

Next ==
  \/ Pass
  \/ \E u \in Users : \E t \in Moments(u) :
       \/ EndMute(u, t)
       \/ Edit(u, t)
       \/ Delete(u, t)
       \/ \E s \in SessionIds, secret \in Secrets : SignIn(u, s, secret, t)
       \/ \E s \in SessionIds, secret \in Secrets :
            sessions[s] # NULL /\ sessions[s].owner = u /\ Rotate(s, secret, t)
       \/ \E actor \in Users : actor # u /\ t \in Moments(actor) /\
            \/ EndMutes(actor, u, t)
            \/ \E status \in AdministrativeStatuses, until \in MuteEnds \cup {NULL} :
                 Order(actor, u, status, until, t)
  \/ \E s \in SessionIds : \E t \in 0 .. clock :
       sessions[s] # NULL /\ t >= sessions[s].createdAt /\ SignOut(s, t)

Spec == Init /\ [][Next]_vars
=============================================================================
