------------------------- MODULE IdentityProperties -------------------------
(***************************************************************************)
(* What the identity service promises about its tables while requests      *)
(* interleave, are cut off, or lose the answer of a commit.                *)
(***************************************************************************)
EXTENDS IdentityService

(***************************************************************************)
(* A banned or deleted account has no live session.  A login that read the *)
(* account before the ban or the deletion must not leave a session behind, *)
(* and the ban or the deletion must not miss a session created meanwhile   *)
(* (Login, DeleteMe and ChangeUserStatus lock the account row first).      *)
(***************************************************************************)
ClosedAccountsSignedOut ==
  \A s \in SessionIds :
    Live(sessions[s]) => CanLogin(users[sessions[s].owner].status)

(***************************************************************************)
(* A refresh secret is exchanged at most once: of all the requests that    *)
(* present the same secret of the same session, however they interleave,   *)
(* at most one Refresh succeeds.                                           *)
(***************************************************************************)
SecretUsedOnce ==
  \A q, r \in Requests :
    /\ req[q].op = "refresh" /\ reply[q] = "ok"
    /\ req[r].op = "refresh" /\ reply[r] = "ok"
    /\ req[q].session = req[r].session /\ req[q].secret = req[r].secret
    => q = r

(***************************************************************************)
(* Under one clock that does not go back, no sequence of operations writes *)
(* a row that these CHECKs of the migration refuse: a mute has an end and  *)
(* only a mute has one, and a session expires after its creation and is    *)
(* not revoked before it, although Logout stamps the revocation with a     *)
(* time it sampled before it waited.  (On instances whose clocks differ a  *)
(* logout can run into the last of them: see AccessTokens.)                *)
(***************************************************************************)
StoreChecks ==
  /\ \A u \in Users : MuteCheck(users[u])
  /\ \A s \in SessionIds : sessions[s] # NULL => SessionRowChecks(sessions[s])

(***************************************************************************)
(* No deadlock on row locks: in no set of requests does each one wait for  *)
(* a row that another one of the set holds.  LockUsers and LockSessions    *)
(* sort their ids, and accounts are locked before sessions, also when two  *)
(* administrators act on accounts each of which the other one locks.       *)
(***************************************************************************)
WaitsFor(q, r) ==
  \/ /\ pc[q] = "users"
     /\ \E u \in UsersToLock(q) :
          (\A v \in UsersToLock(q) : u <= v) /\ userLock[u] = r
  \/ /\ pc[q] = "sessions"
     /\ \E s \in want[q] : (\A t \in want[q] : s <= t) /\ sessionLock[s] = r
  \/ /\ pc[q] = "revoke"
     /\ Live(sessions[req[q].session]) /\ sessionLock[req[q].session] = r

NoDeadlock ==
  \A S \in (SUBSET Requests) \ {{}} : \E q \in S : \A r \in S : ~ WaitsFor(q, r)

-----------------------------------------------------------------------------
(***************************************************************************)
(* The past of a session is never rewritten: its row stays, its owner and  *)
(* its two dates never move, and once it is revoked nothing changes it any *)
(* more, not even a Refresh or a ban that was already under way.           *)
(***************************************************************************)
SessionPastKept ==
  \A s \in SessionIds :
    sessions[s] # NULL =>
      /\ sessions'[s] # NULL
      /\ sessions'[s].owner = sessions[s].owner
      /\ sessions'[s].createdAt = sessions[s].createdAt
      /\ sessions'[s].expiresAt = sessions[s].expiresAt
      /\ sessions[s].revokedAt # NULL => sessions'[s] = sessions[s]

SessionHistory == [][SessionPastKept]_vars

(***************************************************************************)
(* No status change without its audit entries, no entry without its        *)
(* change: the entries one commit appends for an account lead, link by     *)
(* link, from the old status and mute to the new ones.  Only the deletion  *)
(* of an account has no entry of its own.  A second recovery of the same   *)
(* mute would append an entry that does not start where the account is.    *)
(***************************************************************************)
StatusOf(row) == <<row.status, row.mutedUntil>>

Leads(old, entries, new) ==
  LET links  == <<StatusOf(old)>> \o
                [i \in DOMAIN entries |-> <<entries[i].newStatus, entries[i].newUntil>>]
  IN /\ \A i \in DOMAIN entries :
          links[i] = <<entries[i].oldStatus, entries[i].oldUntil>>
     /\ \/ links[Len(links)] = StatusOf(new)
        \/ old.status # "deleted" /\ new.status = "deleted"

Appended(u) == SubSeq(audits'[u], Len(audits[u]) + 1, Len(audits'[u]))

EveryChangeAudited ==
  [][\A u \in Users : Leads(users[u], Appended(u), users'[u])]_vars

(***************************************************************************)
(* updated_at never goes back, although Me and PublicUser recover a mute   *)
(* with a time they sampled before they waited for the account's lock.     *)
(***************************************************************************)
UpdatedAtMonotone ==
  [][\A u \in Users : users'[u].updatedAt >= users[u].updatedAt]_vars

(***************************************************************************)
(* When an order of an administrator takes effect, that administrator      *)
(* still is in good standing and the session used is still live: a logout  *)
(* or a deletion of the administrator's own account that commits first     *)
(* makes ChangeUserStatus fail, also for an order already waiting.         *)
(***************************************************************************)
AuthorityAtCommit ==
  [][\A r \in Requests :
       pc[r] = "commit" /\ req[r].op = "status" /\ reply'[r] = "ok" =>
         /\ req[r].user \in Admins
         /\ users[req[r].user].status \notin {"frozen", "banned", "deleted"}
         /\ Live(sessions[req[r].session])]_vars

-----------------------------------------------------------------------------
(***************************************************************************)
(* The inductive invariant behind ClosedAccountsSignedOut.                 *)
(*                                                                         *)
(* Ready: a request being served knows its account, a recovery has the     *)
(* time it sampled, an order a status, and session rows once given exist.  *)
(***************************************************************************)
Ready(r) ==
  /\ pc[r] \notin {"new", "done"} => req[r].user \in Users
  /\ pc[r] \notin {"new", "check", "done"} /\ req[r].op \in {"me", "public"}
       => seenAt[r] \in Nat
  /\ req[r].op = "status" => req[r].status \in AdministrativeStatuses
  /\ \A s \in rows[r] : sessions[s] # NULL

(***************************************************************************)
(* OrderWellFormed: an order names another account, and gives an end       *)
(* exactly for a mute.                                                     *)
(***************************************************************************)
OrderWellFormed(r) ==
  req[r].op = "status" =>
    /\ req[r].user # req[r].target
    /\ (req[r].status = "muted") <=> (req[r].until # NULL)

(***************************************************************************)
(* Locked: past LockUsers, a transaction holds the lock of every account   *)
(* it is about, and it holds the lock of every session row it was given;   *)
(* it has candidate rows only while it locks them.                         *)
(***************************************************************************)
PastUsers(r) == pc[r] \in {"select", "sessions", "body", "commit"}

Locked(r) ==
  /\ PastUsers(r) => \A u \in LockedAccounts(r) : userLock[u] = r
  /\ \A s \in rows[r] : sessionLock[s] = r
  /\ pc[r] # "sessions" => want[r] = {}

(***************************************************************************)
(* Covered: from the snapshot of LockSessions to the commit, every live    *)
(* session of the account to be closed is still a candidate or has been    *)
(* locked; no new one can appear, because Login needs the account.         *)
(***************************************************************************)
Covered(r) ==
  pc[r] \in {"sessions", "body", "commit"} /\ req[r].op \in {"delete", "status"} =>
    \A s \in SessionIds :
      Live(sessions[s]) /\ sessions[s].owner \in SelectedByOwner(r)
        => s \in want[r] \cup rows[r]

(***************************************************************************)
(* WritesOwned: pending writes touch locked accounts, locked sessions, and *)
(* at most sessions the transaction itself is inserting; a pending row is  *)
(* live only if its account is locked and the session it replaces is live. *)
(***************************************************************************)
WritesOwned(r) ==
  /\ pc[r] # "commit" => ws[r] = NoWrites
  /\ DOMAIN ws[r].users \subseteq LockedAccounts(r)
  /\ \A s \in DOMAIN ws[r].sessions :
       /\ s <= sessionSeq
       /\ sessions[s] # NULL => sessionLock[s] = r /\ s \in rows[r]
       /\ Live(ws[r].sessions[s]) => ws[r].sessions[s].owner \in LockedAccounts(r)

(***************************************************************************)
(* CommitClosesAll: whatever a pending commit leaves banned or deleted, it *)
(* leaves without a live session.                                          *)
(***************************************************************************)
CommitClosesAll(r) ==
  pc[r] = "commit" =>
    \A u \in LockedAccounts(r), s \in SessionIds :
      LET session == SessionAfter(ws[r], s) IN
      Live(session) /\ session.owner = u => CanLogin(UserAfter(ws[r], u).status)

\* Ids beyond the sequence are unused, and no two transactions insert the same.
IdsFresh ==
  /\ \A s \in SessionIds : s > sessionSeq => sessions[s] = NULL
  /\ \A q, r \in Requests :
       q # r => DOMAIN ws[q].sessions \cap DOMAIN ws[r].sessions = {}

ClosingInv ==
  /\ TypeOK
  /\ \A r \in Requests :
       /\ Ready(r) /\ OrderWellFormed(r) /\ Locked(r) /\ Covered(r)
       /\ WritesOwned(r) /\ CommitClosesAll(r)
  /\ IdsFresh
  /\ ClosedAccountsSignedOut

-----------------------------------------------------------------------------
(***************************************************************************)
(* The inductive invariant behind the history of the tables.               *)
(*                                                                         *)
(* TimesOrdered: no row is stamped later than now, and no account was last *)
(* changed after the end of its mute.                                      *)
(***************************************************************************)
TimesOrdered ==
  /\ StoreChecks
  /\ \A u \in Users :
       /\ users[u].updatedAt <= clock
       /\ users[u].status = "muted" => users[u].updatedAt <= users[u].mutedUntil
  /\ \A s \in SessionIds : sessions[s] # NULL => sessions[s].createdAt <= clock

(***************************************************************************)
(* Sampled: a time sampled before the locks is in the past, and the one a  *)
(* logout is going to write is no earlier than the session it ends.        *)
(***************************************************************************)
Sampled(r) ==
  /\ seenAt[r] # NULL => seenAt[r] <= clock
  /\ pc[r] = "revoke" =>
       /\ seenAt[r] \in Nat
       /\ req[r].session \in SessionIds
       /\ sessions[req[r].session] # NULL
       /\ sessions[req[r].session].createdAt <= seenAt[r]
  /\ req[r].op = "status" => req[r].until \in 1 .. MaxTime \cup {NULL}

(***************************************************************************)
(* RowsMatch: the session rows a transaction was given still match the     *)
(* WHERE clause that selected them.                                        *)
(***************************************************************************)
RowsMatch(r) ==
  /\ rows[r] # {} => pc[r] \in {"sessions", "body", "commit"}
  /\ \A s \in rows[r] : Selected(r, s)

(***************************************************************************)
(* Decided: until it commits, the callback of a transaction could be run   *)
(* again at the time t of its first run: on the tables as they are now it  *)
(* would admit the request again, and make the very same writes.           *)
(***************************************************************************)
DecidedAt(r, t) ==
  \/ /\ req[r].op = "login" /\ LoginAdmitted(r)
     /\ \E id \in SessionIds : sessions[id] = NULL /\ ws[r] = LoginWrites(r, id, t)
  \/ req[r].op = "refresh" /\ RefreshAdmitted(r, t) /\ ws[r] = RefreshWrites(r, t)
  \/ req[r].op \in {"me", "public"} /\ ws[r] = RecoverWrites(r, t)
  \/ /\ req[r].op = "update" /\ UpdateAdmitted(r, t)
     /\ \E changed \in BOOLEAN : ws[r] = UpdateWrites(r, changed, t)
  \/ req[r].op = "delete" /\ DeleteAdmitted(r, t) /\ ws[r] = DeleteWrites(r, t)
  \/ /\ req[r].op = "status" /\ ActorAdmitted(r, t) /\ OrderAdmitted(r, t)
     /\ ws[r] = StatusWrites(r, t)

\* The time of that run is no earlier than the rows it stamps.
StampsRise(r, t) ==
  req[r].op \notin {"me", "public"} =>
    /\ \A u \in LockedAccounts(r) : users[u].updatedAt <= t
    /\ \A s \in rows[r] : sessions[s].createdAt <= t

Decided(r) ==
  pc[r] = "commit" => \E t \in 0 .. clock : DecidedAt(r, t) /\ StampsRise(r, t)

HistoryInv ==
  /\ ClosingInv
  /\ TimesOrdered
  /\ \A r \in Requests : Sampled(r) /\ RowsMatch(r) /\ Decided(r)

(***************************************************************************)
(* SecretsKept: the secret a session stores was drawn by a request that is *)
(* over; whoever presents a secret has been given it; and a secret once    *)
(* exchanged is no longer the one its session stores.  A refresh succeeds  *)
(* by its commit only.                                                     *)
(***************************************************************************)
Drawn(secret) == secret \in Requests => pc[secret] = "done"

SecretsKept ==
  /\ \A s \in SessionIds : sessions[s] # NULL => Drawn(sessions[s].token)
  /\ \A r \in Requests :
       /\ reply[r] # NULL => pc[r] = "done"
       /\ pc[r] \in {"check", "revoke"} => req[r].op # "refresh"
       /\ req[r].op = "refresh" => Drawn(req[r].secret)
       /\ req[r].op = "refresh" /\ reply[r] = "ok" =>
            /\ req[r].session \in SessionIds
            /\ sessions[req[r].session] # NULL
            /\ sessions[req[r].session].token # req[r].secret
  /\ SecretUsedOnce

-----------------------------------------------------------------------------
(***************************************************************************)
(* The inductive invariant behind NoDeadlock.                              *)
(*                                                                         *)
(* LocksOrdered: a request holds no lock before its transaction and none   *)
(* after it, no session lock before it has all its accounts, and every row *)
(* it holds comes before the rows of that table it still has to lock.  A   *)
(* logout names the session it waits for.                                  *)
(***************************************************************************)
HeldSessions(r) == {s \in SessionIds : sessionLock[s] = r}

LocksOrdered(r) ==
  /\ pc[r] \in {"new", "check", "revoke", "done"} => HeldUsers(r) = {}
  /\ pc[r] \notin {"sessions", "body", "commit"} => HeldSessions(r) = {}
  /\ pc[r] = "users" => \A u \in HeldUsers(r), v \in UsersToLock(r) : u < v
  /\ pc[r] = "sessions" => \A s \in HeldSessions(r), t \in want[r] : s < t
  /\ pc[r] = "revoke" => req[r].session \in SessionIds

LockOrder == \A r \in Requests : LocksOrdered(r)
=============================================================================
