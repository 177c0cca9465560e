---------------------------- MODULE AccessTokens ----------------------------
(***************************************************************************)
(* Access tokens and the sessions they name, on several instances of the   *)
(* server that share the database but not their clocks.                    *)
(*                                                                         *)
(* A token is signed inside the transaction of Login or Refresh and is     *)
(* verified by the middleware of any instance, which reads no table.  The  *)
(* service stores and signs whole seconds of the clock of its own          *)
(* instance; true time passes in finer ticks, and a clock may be ahead of  *)
(* it or behind, and may be set.                                           *)
(*                                                                         *)
(* All sessions here belong to one account: operations on different        *)
(* accounts meet only in IdentityService.  Of the operations there, this   *)
(* module keeps what touches the life of a session and its tokens.  The    *)
(* account lock orders Login, Refresh, DeleteMe and the order that bans;   *)
(* Logout waits for the row of its session only.  Mutes, audit entries and *)
(* profiles are left out, and so is the refresh secret: whether it matches *)
(* is a choice.                                                            *)
(***************************************************************************)
EXTENDS Integers, FiniteSetsExt

CONSTANTS
  NULL,
  Servers,         \* instances of the server
  Requests,        \* the requests of one run
  MaxSessions,     \* session ids are 1 .. MaxSessions
  Offsets,         \* how far a clock may be off true time, in ticks
  TicksPerSecond,
  AccessTTL,       \* AUTH_ACCESS_TOKEN_TTL, in seconds
  RefreshTTL,      \* AUTH_REFRESH_TOKEN_TTL, in seconds
  Leeway,          \* maxFutureIssuedAt, in seconds
  MaxTime,         \* bound: true time stops here
  Ops,             \* bound: the operations requests ask for in this run
  ClocksSet,       \* whether clocks may be set in this run
  MayFail          \* whether requests may be cut off in this run

\* The settings the server starts with: whole seconds, and a session outlives
\* the tokens signed for it.
ValidAuthConfig ==
  /\ AccessTTL \in Nat \ {0}
  /\ RefreshTTL \in Nat \ {0}
  /\ RefreshTTL > AccessTTL

Operations == {"login", "refresh", "logout", "me", "delete", "ban"}

\* "refused" stands for every client error but that of the middleware.
Replies == {"ok", "refused", "unauthorized", "internal"}

ASSUME ConfigAssumption == ValidAuthConfig
ASSUME TicksAssumption == TicksPerSecond \in Nat \ {0}
ASSUME LeewayAssumption == Leeway \in Nat
ASSUME OffsetsAssumption == Offsets \subseteq Int /\ Offsets # {} /\ NULL \notin Int
ASSUME SpreadAssumption ==
  \E low, high \in Offsets : \A o \in Offsets : low <= o /\ o <= high
ASSUME BoundsAssumption ==
  /\ MaxSessions \in Nat \ {0} /\ MaxTime \in Nat
  /\ Ops \subseteq Operations /\ ClocksSet \in BOOLEAN /\ MayFail \in BOOLEAN
ASSUME NullRequestAssumption ==
  NULL \notin Requests /\ NULL \notin Servers /\ NULL \notin Replies

VARIABLES
  clock,       \* true time, in ticks
  offset,      \* how far the clock of each instance is off
  sessions,    \* table user_sessions: a row, or NULL before the INSERT
  sessionSeq,  \* the sequence behind user_sessions.id
  closed,      \* the account is banned or deleted
  holder,      \* which transaction has the lock of the account
  given,       \* the tokens that clients have been given
  pc, req,
  stamp,       \* the time a logout has sampled before its UPDATE
  pending,     \* what its transaction will commit
  reply,
  endedAt,     \* when the revocation of a session was committed (history)
  admittedAt   \* when the middleware admitted a request (history)

clocks == <<clock, offset>>
database == <<sessions, sessionSeq, closed, given, endedAt>>
vars == <<clocks, database, holder, pc, req, stamp, pending, reply, admittedAt>>

SessionIds == 1 .. MaxSessions

Row == [createdAt : Int, expiresAt : Int, revokedAt : Int \cup {NULL}]

\* skew is how far the signing instance was off (history).
Token == [session : SessionIds, iat : Int, exp : Int, skew : Int]

(***************************************************************************)
(* NormalizeTime of the clock of instance i, as a number of seconds.       *)
(***************************************************************************)
Now(i) == (clock + offset[i]) \div TicksPerSecond

Earlier(s, t) == IF s < t THEN s ELSE t

\* The row CreateSession inserts.  Its mutant leaves created_at out.
NewSessionUndated(now) ==
  [createdAt |-> NULL, expiresAt |-> now + RefreshTTL, revokedAt |-> NULL]

NewSession(now) ==
  [createdAt |-> now, expiresAt |-> now + RefreshTTL, revokedAt |-> NULL]

\* Sign, for an expiry the service caps at the end of the session.
SignedToken(s, i, now, expiresAt) ==
  [session |-> s, iat |-> now, exp |-> expiresAt, skew |-> offset[i]]

\* Verify, at the time now of the verifying instance.  Its mutant forgets that
\* clocks differ.
VerifyInOwnTime(t, now) == t.exp > t.iat /\ t.exp > now /\ t.iat <= now

Verify(t, now) == t.exp > t.iat /\ t.exp > now /\ t.iat <= now + Leeway

Live(row) == row # NULL /\ row.revokedAt = NULL

LiveSessions == {s \in SessionIds : Live(sessions[s])}

NoCommit == [rows |-> << >>, closes |-> FALSE, token |-> NULL]

Stages == {"new", "admitted", "check", "account", "body", "commit", "revoke", "done"}

Request ==
  [op : Operations, at : Servers, session : SessionIds \cup {NULL},
   token : Token \cup {NULL}]

ASSUME NullRecordAssumption == NULL \notin Row \cup Token \cup Request

TypeOK ==
  /\ clock \in Nat
  /\ offset \in [Servers -> Offsets]
  /\ sessions \in [SessionIds -> Row \cup {NULL}]
  /\ sessionSeq \in SessionIds
  /\ closed \in BOOLEAN
  /\ holder \in Requests \cup {NULL}
  /\ given \subseteq Token
  /\ pc \in [Requests -> Stages]
  /\ req \in [Requests -> Request \cup {NULL}]
  /\ stamp \in [Requests -> Int \cup {NULL}]
  /\ DOMAIN pending = Requests
  /\ \A r \in Requests :
       /\ DOMAIN pending[r].rows \subseteq SessionIds
       /\ \A s \in DOMAIN pending[r].rows : pending[r].rows[s] \in Row
       /\ pending[r].closes \in BOOLEAN
       /\ pending[r].token \in Token \cup {NULL}
  /\ reply \in [Requests -> Replies \cup {NULL}]
  /\ endedAt \in [SessionIds -> Nat \cup {NULL}]
  /\ admittedAt \in [Requests -> Nat \cup {NULL}]

\* At the start session 1 has just been opened, on an instance whose clock was
\* off by some amount.
Init ==
  /\ clock = 0
  /\ offset \in [Servers -> Offsets]
  /\ \E off \in Offsets :
       LET now == off \div TicksPerSecond IN
       /\ sessions = [s \in SessionIds |-> IF s = 1 THEN NewSession(now) ELSE NULL]
       /\ given = {[session |-> 1, iat |-> now, exp |-> now + AccessTTL, skew |-> off]}
  /\ sessionSeq = 1
  /\ closed = FALSE
  /\ holder = NULL
  /\ pc = [r \in Requests |-> "new"]
  /\ req = [r \in Requests |-> NULL]
  /\ stamp = [r \in Requests |-> NULL]
  /\ pending = [r \in Requests |-> NoCommit]
  /\ reply = [r \in Requests |-> NULL]
  /\ endedAt = [s \in SessionIds |-> NULL]
  /\ admittedAt = [r \in Requests |-> NULL]

-----------------------------------------------------------------------------
Goto(r, stage) == pc' = [pc EXCEPT ![r] = stage]

\* The request answers; its transaction, if any, ends.
Finish(r, result) ==
  /\ Goto(r, "done")
  /\ reply' = [reply EXCEPT ![r] = result]
  /\ holder' = IF holder = r THEN NULL ELSE holder
  /\ pending' = [pending EXCEPT ![r] = NoCommit]

Arrive(r, op, i, s, t) ==
  /\ pc[r] = "new"
  /\ op \in Ops
  /\ req' = [req EXCEPT ![r] = [op |-> op, at |-> i, session |-> s, token |-> t]]
  /\ UNCHANGED <<clocks, database, stamp>>

(***************************************************************************)
(* Login checks the password, Refresh looks the owner up, and an           *)
(* administrator asks for a ban (with a session of its own): all three     *)
(* then wait for the account.                                              *)
(***************************************************************************)
Start(r, op, i, s) ==
  /\ op \in {"login", "refresh", "ban"}
  /\ s = NULL <=> op # "refresh"
  /\ s # NULL => sessions[s] # NULL
  /\ Arrive(r, op, i, s, NULL)
  /\ \/ /\ Goto(r, "account")
        /\ UNCHANGED <<holder, pending, reply>>
     \/ op = "login" /\ Finish(r, "refused")
  /\ UNCHANGED admittedAt

(***************************************************************************)
(* The middleware: the token alone decides whether the handler runs.       *)
(***************************************************************************)
Use(r, op, i, t) ==
  /\ op \in {"logout", "me", "delete"}
  /\ Arrive(r, op, i, t.session, t)
  /\ \/ /\ Verify(t, Now(i))
        /\ admittedAt' = [admittedAt EXCEPT ![r] = clock]
        /\ Goto(r, IF op = "delete" THEN "account" ELSE "admitted")
        /\ UNCHANGED <<holder, pending, reply>>
     \/ /\ ~ Verify(t, Now(i))
        /\ Finish(r, "unauthorized")
        /\ UNCHANGED admittedAt

-----------------------------------------------------------------------------
(***************************************************************************)
(* Transactions under the account lock.  The rows of pending[r] are locked *)
(* from the callback to the commit.                                        *)
(***************************************************************************)
LockAccount(r) ==
  /\ pc[r] = "account"
  /\ holder = NULL
  /\ holder' = r
  /\ Goto(r, "body")
  /\ UNCHANGED <<clocks, database, req, stamp, pending, reply, admittedAt>>

InBody(r, op) == pc[r] = "body" /\ req[r].op = op

Prepare(r, rows, closes, token) ==
  /\ Goto(r, "commit")
  /\ pending' = [pending EXCEPT ![r] = [rows |-> rows, closes |-> closes, token |-> token]]
  /\ UNCHANGED <<holder, reply>>

LoginTx(r) ==
  /\ InBody(r, "login")
  /\ \/ /\ closed
        /\ Finish(r, "refused")
        /\ UNCHANGED sessionSeq
     \/ /\ ~ closed
        /\ sessionSeq < MaxSessions
        /\ sessionSeq' = sessionSeq + 1
        /\ LET now == Now(req[r].at)
               row == NewSession(now)
               exp == Earlier(row.expiresAt, now + AccessTTL)
           IN Prepare(r, [s \in {sessionSeq + 1} |-> row], FALSE,
                SignedToken(sessionSeq + 1, req[r].at, now, exp))
  /\ UNCHANGED <<clocks, sessions, closed, given, endedAt, req, stamp, admittedAt>>

\* The row of a session may be refreshed.  Its mutant forgets revoked_at.
RefreshableRevoked(row, now) == row.expiresAt > now

Refreshable(row, now) == row.revokedAt = NULL /\ row.expiresAt > now

\* The end of a token signed now.  Its mutant does not cap it.
TokenExpiryUncapped(row, now) == now + AccessTTL

TokenExpiry(row, now) == Earlier(row.expiresAt, now + AccessTTL)

RefreshTx(r) ==
  /\ InBody(r, "refresh")
  /\ LET s   == req[r].session
         now == Now(req[r].at)
     IN \/ Finish(r, "refused")
        \/ /\ ~ closed
           /\ Refreshable(sessions[s], now)
           /\ Prepare(r, [k \in {s} |-> sessions[k]], FALSE,
                SignedToken(s, req[r].at, now, TokenExpiry(sessions[s], now)))
  /\ UNCHANGED <<clocks, database, req, stamp, admittedAt>>

(***************************************************************************)
(* DeleteMe, and the order that bans: every live session is revoked with   *)
(* the time of the instance that serves the request.  If that lies before  *)
(* the creation of one of them the CHECK on revoked_at fails, and with it  *)
(* the transaction.                                                        *)
(***************************************************************************)
RevokedAllAt(now) == [s \in LiveSessions |-> [sessions[s] EXCEPT !.revokedAt = now]]

RevocationChecks(ids, now) == \A s \in ids : now >= sessions[s].createdAt

CloseAccount(r, now) ==
  \/ /\ RevocationChecks(LiveSessions, now)
     /\ Prepare(r, RevokedAllAt(now), TRUE, NULL)
  \/ /\ ~ RevocationChecks(LiveSessions, now)
     /\ Finish(r, "internal")

DeleteAdmitted(r, now) ==
  /\ Live(sessions[req[r].session])
  /\ sessions[req[r].session].expiresAt > now
  /\ ~ closed

DeleteTx(r) ==
  /\ InBody(r, "delete")
  /\ LET now == Now(req[r].at) IN
     \/ ~ DeleteAdmitted(r, now) /\ Finish(r, "refused")
     \/ DeleteAdmitted(r, now) /\ CloseAccount(r, now)
  /\ UNCHANGED <<clocks, database, req, stamp, admittedAt>>

BanTx(r) ==
  /\ InBody(r, "ban")
  /\ CloseAccount(r, Now(req[r].at))
  /\ UNCHANGED <<clocks, database, req, stamp, admittedAt>>

CommitWrites(r) ==
  /\ pc[r] = "commit"
  /\ LET rows == pending[r].rows IN
     /\ sessions' = [s \in SessionIds |->
                       IF s \in DOMAIN rows THEN rows[s] ELSE sessions[s]]
     /\ endedAt' = [s \in SessionIds |->
                      IF Live(sessions[s]) /\ s \in DOMAIN rows /\ ~ Live(rows[s])
                      THEN clock ELSE endedAt[s]]
  /\ closed' = (closed \/ pending[r].closes)
  /\ UNCHANGED <<clocks, sessionSeq, req, stamp, admittedAt>>

\* Only a confirmed commit hands the token out.
Commit(r) ==
  /\ CommitWrites(r)
  /\ given' = given \cup ({pending[r].token} \ {NULL})
  /\ Finish(r, "ok")

CommitUnconfirmed(r) ==
  /\ MayFail
  /\ CommitWrites(r)
  /\ Finish(r, "internal")
  /\ UNCHANGED given

-----------------------------------------------------------------------------
\* Logout samples the time, and then issues its conditional UPDATE.
SampleLogout(r) ==
  /\ pc[r] = "admitted" /\ req[r].op = "logout"
  /\ stamp' = [stamp EXCEPT ![r] = Now(req[r].at)]
  /\ Goto(r, "revoke")
  /\ UNCHANGED <<clocks, database, holder, req, pending, reply, admittedAt>>

Locked(s) == \E q \in Requests : s \in DOMAIN pending[q].rows

\* The UPDATE: no row to change, a row changed, or a row that fails the CHECK.
\* Its mutant counts a failed statement as a row that was gone already.
RevokeSessionSwallowing(r) ==
  /\ pc[r] = "revoke"
  /\ LET s == req[r].session IN
     \/ /\ ~ Live(sessions[s]) \/ stamp[r] < sessions[s].createdAt
        /\ Finish(r, "ok")
        /\ UNCHANGED <<sessions, endedAt>>
     \/ /\ Live(sessions[s]) /\ stamp[r] >= sessions[s].createdAt /\ ~ Locked(s)
        /\ sessions' = [sessions EXCEPT ![s].revokedAt = stamp[r]]
        /\ endedAt' = [endedAt EXCEPT ![s] = clock]
        /\ Finish(r, "ok")
  /\ stamp' = [stamp EXCEPT ![r] = NULL]
  /\ UNCHANGED <<clocks, sessionSeq, closed, given, req, admittedAt>>

RevokeSession(r) ==
  /\ pc[r] = "revoke"
  /\ LET s == req[r].session IN
     \/ /\ ~ Live(sessions[s])
        /\ Finish(r, "ok")
        /\ UNCHANGED <<sessions, endedAt>>
     \/ /\ Live(sessions[s]) /\ ~ Locked(s) /\ RevocationChecks({s}, stamp[r])
        /\ sessions' = [sessions EXCEPT ![s].revokedAt = stamp[r]]
        /\ endedAt' = [endedAt EXCEPT ![s] = clock]
        /\ Finish(r, "ok")
     \/ /\ Live(sessions[s]) /\ ~ Locked(s) /\ ~ RevocationChecks({s}, stamp[r])
        /\ Finish(r, "internal")
        /\ UNCHANGED <<sessions, endedAt>>
  /\ stamp' = [stamp EXCEPT ![r] = NULL]
  /\ UNCHANGED <<clocks, sessionSeq, closed, given, req, admittedAt>>

\* Authenticate reads the session and its owner, and samples the time after.
\* Its mutant takes the word of the token.
ReadMeFromToken(r) ==
  /\ pc[r] = "admitted" /\ req[r].op = "me"
  /\ Goto(r, "check")
  /\ UNCHANGED <<clocks, database, holder, req, stamp, pending, reply, admittedAt>>

ReadMe(r) ==
  /\ pc[r] = "admitted" /\ req[r].op = "me"
  /\ \/ /\ Live(sessions[req[r].session]) /\ ~ closed
        /\ Goto(r, "check")
        /\ UNCHANGED <<holder, pending, reply>>
     \/ /\ ~ Live(sessions[req[r].session]) \/ closed
        /\ Finish(r, "refused")
  /\ UNCHANGED <<clocks, database, req, stamp, admittedAt>>

CheckMe(r) ==
  /\ pc[r] = "check"
  /\ Finish(r, IF sessions[req[r].session].expiresAt > Now(req[r].at)
               THEN "ok" ELSE "refused")
  /\ UNCHANGED <<clocks, database, req, stamp, admittedAt>>

\* Client gone, statement failed, process gone: nothing is written.
Cut(r) ==
  /\ MayFail
  /\ pc[r] \notin {"new", "done"}
  /\ Finish(r, "internal")
  /\ stamp' = [stamp EXCEPT ![r] = NULL]
  /\ UNCHANGED <<clocks, database, req, admittedAt>>

-----------------------------------------------------------------------------
Tick ==
  /\ clock < MaxTime
  /\ clock' = clock + 1
  /\ UNCHANGED <<offset, database, holder, pc, req, stamp, pending, reply, admittedAt>>

\* The clock of an instance is set, forwards or back.
SetClock(i) ==
  /\ ClocksSet
  /\ \E off \in Offsets \ {offset[i]} : offset' = [offset EXCEPT ![i] = off]
  /\ UNCHANGED <<clock, database, holder, pc, req, stamp, pending, reply, admittedAt>>

Answered == (\A r \in Requests : pc[r] = "done") /\ UNCHANGED vars

Serve(r) ==
  \/ LockAccount(r) \/ LoginTx(r) \/ RefreshTx(r) \/ DeleteTx(r) \/ BanTx(r)
  \/ Commit(r) \/ CommitUnconfirmed(r)
  \/ SampleLogout(r) \/ RevokeSession(r)
  \/ ReadMe(r) \/ CheckMe(r)
  \/ Cut(r)

Next ==
  \/ \E r \in Requests :
       \/ \E op \in Operations, i \in Servers :
            \/ \E s \in SessionIds \cup {NULL} : Start(r, op, i, s)
            \/ \E t \in given : Use(r, op, i, t)
       \/ Serve(r)
  \/ Tick
  \/ \E i \in Servers : SetClock(i)
  \/ Answered

Spec == Init /\ [][Next]_vars

-----------------------------------------------------------------------------
(***************************************************************************)
(* Every token a client holds names a session that exists and expires no   *)
(* later than it: "access expiry is min(now + TTL, session.expires_at)",   *)
(* also for one that Refresh signs on another instance in the last seconds *)
(* of the session.                                                         *)
(***************************************************************************)
TokensWithinSession ==
  \A t \in given :
    /\ sessions[t.session] # NULL
    /\ t.iat < t.exp
    /\ t.exp <= sessions[t.session].expiresAt

(***************************************************************************)
(* How long a token outlives its session.  The middleware admits one whose *)
(* session has been revoked, but never later than AccessTTL after the      *)
(* revocation, plus how far two clocks can be apart: no Refresh that was   *)
(* under way signs another one.                                            *)
(***************************************************************************)
Spread == Max(Offsets) - Min(Offsets)

RevokedTokensExpire ==
  \A r \in Requests :
    admittedAt[r] # NULL /\ endedAt[req[r].session] # NULL =>
      admittedAt[r] < endedAt[req[r].session] + AccessTTL * TicksPerSecond + Spread

(***************************************************************************)
(* In between, only Logout trusts the token: Me and DeleteMe never succeed *)
(* for a request that arrived after its session was revoked.               *)
(***************************************************************************)
RevokedTokensPowerless ==
  \A r \in Requests :
    /\ reply[r] = "ok" /\ req[r].op \in {"me", "delete"}
    /\ endedAt[req[r].session] # NULL
    => admittedAt[r] <= endedAt[req[r].session]

(***************************************************************************)
(* A logout that is confirmed has ended the session.                       *)
(***************************************************************************)
LogoutEndsSession ==
  \A r \in Requests :
    reply[r] = "ok" /\ req[r].op = "logout" => ~ Live(sessions[req[r].session])

(***************************************************************************)
(* The middleware turns a token away only if it has expired, or if it was  *)
(* signed by an instance whose clock was ahead of the verifying one by     *)
(* more than the leeway: cutting times to seconds takes nothing off the    *)
(* 30 seconds of maxFutureIssuedAt.                                        *)
(***************************************************************************)
UnauthorizedHasCause ==
  [][\A r \in Requests :
       reply[r] = NULL /\ reply'[r] = "unauthorized" =>
         LET t == req'[r].token
             i == req'[r].at
         IN \/ t.exp <= Now(i)
            \/ t.skew - offset[i] > Leeway * TicksPerSecond]_vars

(***************************************************************************)
(* What README.md says of Logout: it needs a valid token only, and is      *)
(* answered with success whatever has become of the session.               *)
(***************************************************************************)
AdmittedLogoutSucceeds ==
  \A r \in Requests :
    req[r] # NULL /\ req[r].op = "logout" => reply[r] # "internal"

-----------------------------------------------------------------------------
(***************************************************************************)
(* The inductive invariant behind these properties.                        *)
(*                                                                         *)
(* Known: a request under way names a session that exists, if it names     *)
(* any, and one with a token has been admitted.                            *)
(***************************************************************************)
Known(r) ==
  pc[r] # "new" =>
    /\ req[r] # NULL
    /\ req[r].op \in {"refresh", "logout", "me", "delete"} =>
         req[r].session # NULL /\ sessions[req[r].session] # NULL
    /\ req[r].op \in {"logout", "me", "delete"} =>
         (pc[r] # "done" \/ reply[r] = "ok" => admittedAt[r] # NULL)

\* A transaction, never one of Logout or Me, has the lock of the account from
\* its callback on, and an UPDATE its time.
Staged(r) ==
  /\ pc[r] \in {"account", "body", "commit"} => req[r].op \notin {"logout", "me"}
  /\ pc[r] \in {"body", "commit"} => holder = r
  /\ pc[r] # "commit" => pending[r] = NoCommit
  /\ pc[r] = "revoke" => req[r].op = "logout" /\ stamp[r] # NULL
  /\ pc[r] = "check" => req[r].op = "me"
  /\ pc[r] # "done" => reply[r] = NULL
  /\ admittedAt[r] # NULL => admittedAt[r] <= clock

\* What a transaction will write is a session that is live, or a new one, and
\* the token it will hand out is for that session and within it.
Owned(r) ==
  /\ \A s \in DOMAIN pending[r].rows :
       /\ s <= sessionSeq
       /\ sessions[s] # NULL =>
            /\ Live(sessions[s])
            /\ pending[r].rows[s].expiresAt = sessions[s].expiresAt
  /\ pending[r].token # NULL =>
       LET t == pending[r].token IN
       /\ t.session \in DOMAIN pending[r].rows
       /\ t.iat < t.exp
       /\ t.exp <= pending[r].rows[t.session].expiresAt
       /\ t.iat * TicksPerSecond <= clock + t.skew

\* A request that has seen its session live was admitted before its end.
SawItLive(r) ==
  \/ pc[r] = "check"
  \/ pc[r] = "commit" /\ req[r].op = "delete"
  \/ reply[r] = "ok" /\ req[r].op \in {"me", "delete"}

Stood(r) ==
  SawItLive(r) /\ endedAt[req[r].session] # NULL =>
    admittedAt[r] <= endedAt[req[r].session]

\* Ids above the sequence are unused, and an end is the end of a session.
History ==
  \A s \in SessionIds :
    /\ s > sessionSeq => sessions[s] = NULL
    /\ endedAt[s] # NULL =>
         sessions[s] # NULL /\ ~ Live(sessions[s]) /\ endedAt[s] <= clock

\* A token is not signed ahead of the clock that signs it.
Dated == \A t \in given : t.iat * TicksPerSecond <= clock + t.skew

TokensInv ==
  /\ TypeOK
  /\ TokensWithinSession
  /\ LogoutEndsSession
  /\ History
  /\ Dated
  /\ \A r \in Requests : Known(r) /\ Staged(r) /\ Owned(r) /\ Stood(r)

(***************************************************************************)
(* And the one behind RevokedTokensExpire.                                 *)
(*                                                                         *)
(* Brief: a token lasts at most AccessTTL from its signing, on a clock     *)
(* that is off by one of Offsets.                                          *)
(***************************************************************************)
Brief(t) == t.skew \in Offsets /\ t.exp <= t.iat + AccessTTL

\* A token that clients hold was signed before its session ended.
SignedInTime(t) ==
  endedAt[t.session] # NULL => t.iat * TicksPerSecond <= endedAt[t.session] + t.skew

\* Only a request with a token has been admitted.
AdmittedWithToken(r) ==
  admittedAt[r] # NULL => pc[r] # "new" /\ req[r] # NULL /\ req[r].session # NULL

ExpiryInv ==
  /\ TokensInv
  /\ RevokedTokensExpire
  /\ \A t \in given : Brief(t) /\ SignedInTime(t)
  /\ \A r \in Requests :
       /\ pending[r].token # NULL => Brief(pending[r].token)
       /\ AdmittedWithToken(r)
=============================================================================
