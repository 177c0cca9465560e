------------------------- MODULE AccessTokensProofs -------------------------
(***************************************************************************)
(* Tokens and sessions, for any instances, clocks, lifetimes and requests. *)
(***************************************************************************)
EXTENDS AccessTokens, TLAPS

\* What the invariant says of one request.
Sound(r) ==
  /\ Known(r) /\ Staged(r) /\ Owned(r) /\ Stood(r)
  /\ reply[r] = "ok" /\ req[r].op = "logout" => ~ Live(sessions[req[r].session])

\* The invariant, request by request.
LEMMA InvParts ==
  TokensInv <=>
    /\ TypeOK /\ TokensWithinSession /\ History /\ Dated
    /\ \A r \in Requests : Sound(r)
BY DEF TokensInv, Sound, LogoutEndsSession

\* Times, lifetimes and the length of a second are integers.
LEMMA ClocksInt ==
  ASSUME TypeOK
  PROVE  /\ clock \in Nat
         /\ \A i \in Servers : offset[i] \in Int
         /\ TicksPerSecond \in Nat \ {0} /\ Leeway \in Nat
         /\ AccessTTL \in Nat \ {0} /\ RefreshTTL \in Nat \ {0}
BY ConfigAssumption, TicksAssumption, LeewayAssumption, OffsetsAssumption
   DEF TypeOK, ValidAuthConfig

\* NormalizeTime cuts a time to a second that has begun and is not over.
LEMMA WholeSeconds ==
  ASSUME NEW a \in Int
  PROVE  /\ a \div TicksPerSecond \in Int
         /\ (a \div TicksPerSecond) * TicksPerSecond <= a
         /\ a < (a \div TicksPerSecond + 1) * TicksPerSecond
<1> DEFINE n == TicksPerSecond
<1>1. n \in Nat /\ n > 0
  BY TicksAssumption
<1> HIDE DEF n
<1>2. a \div n \in Int /\ a = n * (a \div n) + (a % n) /\ 0 <= a % n /\ a % n < n
  BY <1>1, SMT
<1>3. PICK q \in Int, m \in Int : a \div n = q /\ a = n * q + m /\ 0 <= m /\ m < n
  BY <1>1, <1>2
<1>4. q * n <= a /\ a < (q + 1) * n
  <2>1. n * q = q * n /\ (q + 1) * n = q * n + n
    BY <1>1, SMT
  <2> QED
    BY <1>1, <1>3, <2>1
<1> QED
  BY <1>2, <1>3, <1>4 DEF n

\* The time of an instance is the second its clock is in.
LEMMA NowInt ==
  ASSUME TypeOK, NEW i \in Servers
  PROVE  /\ Now(i) \in Int
         /\ Now(i) * TicksPerSecond <= clock + offset[i]
         /\ clock + offset[i] < (Now(i) + 1) * TicksPerSecond
<1>1. clock + offset[i] \in Int
  BY ClocksInt
<1> QED
  BY <1>1, WholeSeconds DEF Now

\* A request without a transaction writes nothing.
LEMMA NothingPending == NoCommit.rows = << >> /\ DOMAIN NoCommit.rows = {}
  /\ NoCommit.token = NULL /\ NoCommit.closes = FALSE
BY DEF NoCommit

\* A row is not NULL, and live unless it has been revoked.
LEMMA RowsReal ==
  ASSUME NEW row \in Row
  PROVE  row # NULL /\ (Live(row) <=> row.revokedAt = NULL)
BY NullRecordAssumption DEF Live

-----------------------------------------------------------------------------
\* The session of the start satisfies the invariant.
LEMMA InitTokens == Init => TokensInv
<1> SUFFICES ASSUME Init PROVE TokensInv
  OBVIOUS
<1> PICK off \in Offsets :
      LET now == off \div TicksPerSecond IN
      /\ sessions = [s \in SessionIds |-> IF s = 1 THEN NewSession(now) ELSE NULL]
      /\ given = {[session |-> 1, iat |-> now, exp |-> now + AccessTTL, skew |-> off]}
  BY DEF Init
<1> DEFINE now == off \div TicksPerSecond
           t0 == [session |-> 1, iat |-> now, exp |-> now + AccessTTL, skew |-> off]
<1>1. /\ off \in Int /\ now \in Int /\ now * TicksPerSecond <= off
      /\ AccessTTL \in Nat \ {0} /\ RefreshTTL \in Nat \ {0} /\ RefreshTTL > AccessTTL
      /\ 1 \in SessionIds /\ TicksPerSecond \in Nat
  BY OffsetsAssumption, ConfigAssumption, BoundsAssumption, WholeSeconds, TicksAssumption
     DEF ValidAuthConfig, SessionIds
<1>2. /\ sessions = [s \in SessionIds |-> IF s = 1 THEN NewSession(now) ELSE NULL]
      /\ given = {t0}
  OBVIOUS
<1> HIDE DEF now
<1>3. NewSession(now) \in Row /\ NewSession(now).expiresAt = now + RefreshTTL
  BY <1>1 DEF NewSession, Row
<1>4. t0 \in Token /\ t0.session = 1 /\ t0.iat = now /\ t0.exp = now + AccessTTL /\ t0.skew = off
  BY <1>1 DEF Token
<1> HIDE DEF t0
<1>5. TypeOK
  <2>1. pending = [r \in Requests |-> NoCommit]
    BY DEF Init
  <2>2. \A r \in Requests :
          /\ DOMAIN pending[r].rows \subseteq SessionIds
          /\ \A s \in DOMAIN pending[r].rows : pending[r].rows[s] \in Row
          /\ pending[r].closes \in BOOLEAN
          /\ pending[r].token \in Token \cup {NULL}
    BY <2>1, NothingPending
  <2>3. sessions \in [SessionIds -> Row \cup {NULL}] /\ given \subseteq Token
    BY <1>2, <1>3, <1>4
  <2> QED
    BY <1>1, <2>1, <2>2, <2>3 DEF Init, TypeOK, Stages
<1>6. TokensWithinSession
  BY <1>1, <1>2, <1>3, <1>4, RowsReal DEF TokensWithinSession
<1>7. History
  BY <1>1, <1>2 DEF Init, History, SessionIds
<1>8. Dated
  BY <1>1, <1>2, <1>4 DEF Init, Dated
<1>9. ASSUME NEW r \in Requests PROVE Sound(r)
  <2>1. pc[r] = "new" /\ reply[r] = NULL /\ pending[r] = NoCommit /\ admittedAt[r] = NULL
    BY <1>9 DEF Init
  <2>2. NULL # "ok"
    BY NullRequestAssumption DEF Replies
  <2> QED
    BY <2>1, <2>2, NothingPending DEF Sound, Known, Staged, Owned, Stood, SawItLive
<1> QED
  BY <1>5, <1>6, <1>7, <1>8, <1>9, InvParts

\* A step that changes no table, or draws an id, leaves them right.
LEMMA TablesIntact ==
  ASSUME TokensInv, UNCHANGED <<clock, sessions, given, endedAt>>,
         sessionSeq' \in SessionIds, sessionSeq' >= sessionSeq
  PROVE  TokensWithinSession' /\ History' /\ Dated'
<1>1. sessionSeq \in Int /\ sessionSeq' \in Int /\ SessionIds \subseteq Int
  BY BoundsAssumption DEF TokensInv, TypeOK, SessionIds
<1> QED
  BY <1>1 DEF TokensInv, TokensWithinSession, History, Dated, Live

\* A request that does not move keeps what the invariant says of it.
LEMMA OthersSound ==
  ASSUME TokensInv, NEW q \in Requests,
         pc'[q] = pc[q], req'[q] = req[q], stamp'[q] = stamp[q], reply'[q] = reply[q],
         pending'[q] = pending[q], admittedAt'[q] = admittedAt[q],
         UNCHANGED <<clock, sessions, endedAt>>,
         sessionSeq' \in SessionIds, sessionSeq' >= sessionSeq,
         holder = q => holder' = q
  PROVE  Sound(q)'
<1>1. Sound(q) /\ TypeOK
  BY InvParts
<1>2. sessionSeq \in Int /\ sessionSeq' \in Int /\ SessionIds \subseteq Int
  BY <1>1, BoundsAssumption DEF TypeOK, SessionIds
<1>3. Known(q)' /\ Staged(q)' /\ Stood(q)'
  BY <1>1 DEF Sound, Known, Staged, Stood, SawItLive
<1>4. Owned(q)'
  <2>1. ASSUME NEW s \in DOMAIN pending[q].rows PROVE s <= sessionSeq'
    <3>1. s \in Int
      BY <1>1, <1>2 DEF TypeOK
    <3>2. s <= sessionSeq
      BY <1>1 DEF Sound, Owned
    <3> QED
      BY <1>2, <3>1, <3>2
  <2> QED
    BY <1>1, <2>1 DEF Sound, Owned, Live
<1> QED
  BY <1>1, <1>3, <1>4 DEF Sound, Live

-----------------------------------------------------------------------------
\* The part of the types that the steps of a request have in common.
PendingTyped ==
  /\ DOMAIN pending = Requests
  /\ \A r \in Requests :
       /\ DOMAIN pending[r].rows \subseteq SessionIds
       /\ \A s \in DOMAIN pending[r].rows : pending[r].rows[s] \in Row
       /\ pending[r].closes \in BOOLEAN
       /\ pending[r].token \in Token \cup {NULL}

Bookkeeping ==
  /\ pc \in [Requests -> Stages]
  /\ reply \in [Requests -> Replies \cup {NULL}]
  /\ holder \in Requests \cup {NULL}
  /\ PendingTyped

\* Only request r moves.
Alone(r) ==
  \A q \in Requests \ {r} :
    /\ pc'[q] = pc[q] /\ reply'[q] = reply[q] /\ pending'[q] = pending[q]
    /\ holder = q => holder' = q

\* An answer ends the request it answers and touches no other.
LEMMA FinishEffect ==
  ASSUME TypeOK, NEW r \in Requests, NEW result \in Replies, Finish(r, result)
  PROVE  /\ Bookkeeping' /\ Alone(r)
         /\ pc'[r] = "done" /\ reply'[r] = result /\ pending'[r] = NoCommit
<1>1. /\ pc' = [pc EXCEPT ![r] = "done"]
      /\ reply' = [reply EXCEPT ![r] = result]
      /\ holder' = IF holder = r THEN NULL ELSE holder
      /\ pending' = [pending EXCEPT ![r] = NoCommit]
  BY DEF Finish, Goto
<1>2. DOMAIN pending' = Requests /\ pending'[r] = NoCommit
  BY <1>1 DEF TypeOK
<1>3. \A q \in Requests \ {r} : pending'[q] = pending[q]
  BY <1>1 DEF TypeOK
<1>4. PendingTyped'
  BY <1>2, <1>3, NothingPending DEF PendingTyped, TypeOK
<1>5. /\ pc' \in [Requests -> Stages] /\ reply' \in [Requests -> Replies \cup {NULL}]
      /\ holder' \in Requests \cup {NULL}
  BY <1>1 DEF TypeOK, Stages
<1>6. pc'[r] = "done" /\ reply'[r] = result
  BY <1>1 DEF TypeOK
<1>7. Alone(r)
  BY <1>1, <1>3 DEF TypeOK, Alone
<1> QED
  BY <1>2, <1>4, <1>5, <1>6, <1>7 DEF Bookkeeping

\* So does a change of stage, with or without taking the account's lock.
LEMMA GotoEffect ==
  ASSUME TypeOK, NEW r \in Requests, NEW stage \in Stages, Goto(r, stage),
         reply' = reply, pending' = pending,
         holder' = holder \/ (holder = NULL /\ holder' = r)
  PROVE  /\ Bookkeeping' /\ Alone(r)
         /\ pc'[r] = stage /\ reply'[r] = reply[r] /\ pending'[r] = pending[r]
<1>1. pc' = [pc EXCEPT ![r] = stage]
  BY DEF Goto
<1>2. PendingTyped'
  BY DEF PendingTyped, TypeOK
<1>3. pc' \in [Requests -> Stages] /\ pc'[r] = stage
  BY <1>1 DEF TypeOK
<1>4. Alone(r)
  BY <1>1, NullRequestAssumption DEF TypeOK, Alone
<1> QED
  BY <1>2, <1>3, <1>4 DEF Bookkeeping, TypeOK

\* And the end of a callback.
LEMMA PrepareEffect ==
  ASSUME TypeOK, NEW r \in Requests, NEW rows, NEW closes \in BOOLEAN,
         NEW token \in Token \cup {NULL}, DOMAIN rows \subseteq SessionIds,
         \A s \in DOMAIN rows : rows[s] \in Row, Prepare(r, rows, closes, token)
  PROVE  /\ Bookkeeping' /\ Alone(r) /\ pc'[r] = "commit"
         /\ reply' = reply /\ holder' = holder
         /\ pending'[r].rows = rows /\ pending'[r].closes = closes
         /\ pending'[r].token = token
<1>1. /\ pc' = [pc EXCEPT ![r] = "commit"]
      /\ pending' = [pending EXCEPT ![r] =
                       [rows |-> rows, closes |-> closes, token |-> token]]
      /\ reply' = reply /\ holder' = holder
  BY DEF Prepare, Goto
<1>2. /\ DOMAIN pending' = Requests
      /\ pending'[r] = [rows |-> rows, closes |-> closes, token |-> token]
      /\ \A q \in Requests \ {r} : pending'[q] = pending[q]
  BY <1>1 DEF TypeOK
<1>3. /\ pending'[r].rows = rows /\ pending'[r].closes = closes
      /\ pending'[r].token = token
  BY <1>2
<1>4. PendingTyped'
  BY <1>2, <1>3 DEF PendingTyped, TypeOK
<1>5. pc' \in [Requests -> Stages] /\ pc'[r] = "commit"
  BY <1>1 DEF TypeOK, Stages
<1>6. Alone(r)
  BY <1>1, <1>2 DEF TypeOK, Alone
<1> QED
  BY <1>1, <1>3, <1>4, <1>5, <1>6 DEF Bookkeeping, TypeOK

\* A step of one request that changes no table keeps the invariant if it keeps
\* what the invariant says of that request.
LEMMA OwnStep ==
  ASSUME TokensInv, NEW r \in Requests, Bookkeeping', Alone(r), Sound(r)',
         UNCHANGED <<clocks, sessions, closed, given, endedAt>>,
         sessionSeq' \in SessionIds, sessionSeq' >= sessionSeq,
         req' \in [Requests -> Request \cup {NULL}],
         stamp' \in [Requests -> Int \cup {NULL}],
         admittedAt' \in [Requests -> Nat \cup {NULL}],
         \A q \in Requests \ {r} :
           req'[q] = req[q] /\ stamp'[q] = stamp[q] /\ admittedAt'[q] = admittedAt[q]
  PROVE  TokensInv'
<1>1. TypeOK'
  BY InvParts DEF TypeOK, Bookkeeping, PendingTyped, clocks
<1>2. TokensWithinSession' /\ History' /\ Dated'
  BY TablesIntact DEF clocks
<1>3. ASSUME NEW q \in Requests PROVE Sound(q)'
  <2>1. CASE q = r
    BY <2>1
  <2>2. CASE q # r
    BY <2>2, OthersSound DEF Alone, clocks
  <2> QED
    BY <2>1, <2>2
<1> QED
  BY <1>1, <1>2, <1>3 DEF TokensInv, Sound, LogoutEndsSession

\* A request that is answered without success stays sound.
LEMMA Unsuccessful ==
  ASSUME TokensInv, NEW r \in Requests, NEW result \in Replies \ {"ok"},
         Finish(r, result), pc[r] # "new",
         UNCHANGED <<clock, sessions, endedAt, req, admittedAt>>
  PROVE  Sound(r)'
<1>1. Sound(r) /\ TypeOK
  BY InvParts
<1>2. pc'[r] = "done" /\ reply'[r] = result /\ pending'[r] = NoCommit /\ result # "ok"
  BY <1>1, FinishEffect
<1>3. Known(r)' /\ Staged(r)' /\ Stood(r)'
  BY <1>1, <1>2 DEF Sound, Known, Staged, Stood, SawItLive
<1>4. Owned(r)'
  BY <1>2, NothingPending DEF Owned
<1> QED
  BY <1>2, <1>3, <1>4 DEF Sound

-----------------------------------------------------------------------------
\* What a request asks for is not NULL.
LEMMA RequestReal ==
  ASSUME NEW x \in Request
  PROVE  x # NULL
BY NullRecordAssumption

\* A login, refresh or ban that begins.
LEMMA StartStep ==
  ASSUME TokensInv, NEW r \in Requests, NEW op \in Operations, NEW i \in Servers,
         NEW s \in SessionIds \cup {NULL}, Start(r, op, i, s)
  PROVE  TokensInv'
<1>1. TypeOK /\ Sound(r) /\ pc[r] = "new" /\ reply[r] = NULL
  <2>1. TypeOK /\ Sound(r) /\ pc[r] = "new"
    BY InvParts DEF Start, Arrive
  <2> QED
    BY <2>1 DEF Sound, Staged
<1> DEFINE x == [op |-> op, at |-> i, session |-> s, token |-> NULL]
<1>2. /\ req' = [req EXCEPT ![r] = x]
      /\ UNCHANGED <<clocks, database, stamp, admittedAt>>
  BY DEF Start, Arrive
<1>3. x \in Request /\ x # NULL /\ x.op = op /\ x.session = s
  BY RequestReal DEF Request
<1> HIDE DEF x
<1>4. /\ req' \in [Requests -> Request \cup {NULL}] /\ req'[r] = x
      /\ \A q \in Requests \ {r} : req'[q] = req[q]
  BY <1>1, <1>2, <1>3 DEF TypeOK
<1>5. /\ op \in {"login", "refresh", "ban"}
      /\ op = "refresh" => s # NULL /\ sessions[s] # NULL
  BY DEF Start
<1>6. Known(r)'
  BY <1>2, <1>3, <1>4, <1>5 DEF Known, database
<1>7. Bookkeeping' /\ Alone(r) /\ Sound(r)'
  <2>1. CASE Goto(r, "account") /\ reply' = reply /\ pending' = pending /\ holder' = holder
    <3>1. /\ Bookkeeping' /\ Alone(r) /\ pc'[r] = "account"
          /\ reply'[r] = reply[r] /\ pending'[r] = pending[r]
      BY <1>1, <2>1, GotoEffect DEF Stages
    <3>2. Staged(r)' /\ Owned(r)' /\ Stood(r)'
      BY <1>1, <1>2, <1>3, <1>4, <1>5, <3>1, NullRequestAssumption, NothingPending
         DEF Sound, Staged, Owned, Stood, SawItLive, clocks, database, Replies
    <3> QED
      BY <1>1, <1>6, <3>1, <3>2, NullRequestAssumption DEF Sound, Replies
  <2>2. CASE Finish(r, "refused")
    <3>1. /\ Bookkeeping' /\ Alone(r) /\ pc'[r] = "done"
          /\ reply'[r] = "refused" /\ pending'[r] = NoCommit
      BY <1>1, <2>2, FinishEffect DEF Replies
    <3>2. Staged(r)' /\ Owned(r)' /\ Stood(r)'
      BY <1>1, <1>2, <3>1, NothingPending
         DEF Sound, Staged, Owned, Stood, SawItLive, clocks, database
    <3> QED
      BY <1>6, <3>1, <3>2 DEF Sound
  <2> QED
    BY <2>1, <2>2 DEF Start
<1>8. sessionSeq' \in SessionIds /\ sessionSeq' >= sessionSeq
  BY <1>1, <1>2 DEF TypeOK, SessionIds, database
<1> QED
  BY <1>1, <1>2, <1>4, <1>7, <1>8, OwnStep DEF TypeOK, database

\* The middleware admits a request or turns it away.
LEMMA UseStep ==
  ASSUME TokensInv, NEW r \in Requests, NEW op \in Operations, NEW i \in Servers,
         NEW t \in given, Use(r, op, i, t)
  PROVE  TokensInv'
<1>1. TypeOK /\ Sound(r) /\ pc[r] = "new" /\ reply[r] = NULL
  <2>1. TypeOK /\ Sound(r) /\ pc[r] = "new"
    BY InvParts DEF Use, Arrive
  <2> QED
    BY <2>1 DEF Sound, Staged
<1> DEFINE x == [op |-> op, at |-> i, session |-> t.session, token |-> t]
<1>2. /\ req' = [req EXCEPT ![r] = x]
      /\ UNCHANGED <<clocks, database, stamp>>
      /\ op \in {"logout", "me", "delete"}
  BY DEF Use, Arrive
<1>3. /\ t \in Token /\ t.session \in SessionIds /\ t.session # NULL
      /\ sessions[t.session] # NULL
  <2>1. t \in Token /\ sessions[t.session] # NULL
    BY <1>1 DEF TokensInv, TypeOK, TokensWithinSession
  <2> QED
    BY <2>1, OffsetsAssumption DEF Token, SessionIds
<1>4. x \in Request /\ x # NULL /\ x.op = op /\ x.session = t.session
  BY <1>3, RequestReal DEF Request
<1> HIDE DEF x
<1>5. /\ req' \in [Requests -> Request \cup {NULL}] /\ req'[r] = x
      /\ \A q \in Requests \ {r} : req'[q] = req[q]
  BY <1>1, <1>2, <1>4 DEF TypeOK
<1>6. sessionSeq' \in SessionIds /\ sessionSeq' >= sessionSeq
  BY <1>1, <1>2 DEF TypeOK, SessionIds, database
<1>7. CASE /\ admittedAt' = [admittedAt EXCEPT ![r] = clock]
           /\ Goto(r, IF op = "delete" THEN "account" ELSE "admitted")
           /\ UNCHANGED <<holder, pending, reply>>
  <2> DEFINE stage == IF op = "delete" THEN "account" ELSE "admitted"
  <2>1. /\ stage \in Stages /\ stage \in {"account", "admitted"}
        /\ stage = "account" => op = "delete"
    BY DEF Stages
  <2> HIDE DEF stage
  <2>2. Goto(r, stage) /\ reply' = reply /\ pending' = pending /\ holder' = holder
    BY <1>7 DEF stage
  <2>3. /\ Bookkeeping' /\ Alone(r) /\ pc'[r] = stage
        /\ reply'[r] = reply[r] /\ pending'[r] = pending[r]
    BY <1>1, <2>1, <2>2, GotoEffect
  <2>4. /\ admittedAt' \in [Requests -> Nat \cup {NULL}] /\ admittedAt'[r] = clock
        /\ clock \in Nat /\ clock # NULL
        /\ \A q \in Requests \ {r} : admittedAt'[q] = admittedAt[q]
    BY <1>1, <1>7, OffsetsAssumption DEF TypeOK
  <2>5. Known(r)'
    BY <1>2, <1>3, <1>4, <1>5, <2>4 DEF Known, database
  <2>6. Staged(r)' /\ Owned(r)' /\ Stood(r)'
    BY <1>1, <1>2, <1>4, <1>5, <2>1, <2>3, <2>4, NullRequestAssumption, NothingPending
       DEF Sound, Staged, Owned, Stood, SawItLive, clocks, database, Replies
  <2>7. Sound(r)'
    BY <1>1, <2>3, <2>5, <2>6, NullRequestAssumption DEF Sound, Replies
  <2> QED
    BY <1>1, <1>2, <1>5, <1>6, <2>3, <2>4, <2>7, OwnStep DEF TypeOK, database
<1>8. CASE Finish(r, "unauthorized") /\ UNCHANGED admittedAt
  <2>1. /\ Bookkeeping' /\ Alone(r) /\ pc'[r] = "done"
        /\ reply'[r] = "unauthorized" /\ pending'[r] = NoCommit
    BY <1>1, <1>8, FinishEffect DEF Replies
  <2>2. Known(r)'
    BY <1>2, <1>3, <1>4, <1>5, <2>1 DEF Known, database
  <2>3. Staged(r)' /\ Owned(r)' /\ Stood(r)'
    BY <1>1, <1>2, <1>8, <2>1, NothingPending
       DEF Sound, Staged, Owned, Stood, SawItLive, clocks, database
  <2>4. Sound(r)'
    BY <2>1, <2>2, <2>3 DEF Sound
  <2> QED
    BY <1>1, <1>2, <1>5, <1>6, <1>8, <2>1, <2>4, OwnStep DEF TypeOK, database
<1> QED
  BY <1>7, <1>8 DEF Use

\* An answer other than success, to a request under way, keeps the invariant.
LEMMA RefusedStep ==
  ASSUME TokensInv, NEW r \in Requests, NEW result \in Replies \ {"ok"},
         Finish(r, result), pc[r] # "new",
         UNCHANGED <<clocks, database, req, admittedAt>>,
         stamp' \in [Requests -> Int \cup {NULL}],
         \A q \in Requests \ {r} : stamp'[q] = stamp[q]
  PROVE  TokensInv'
<1>1. TypeOK
  BY InvParts
<1>2. Bookkeeping' /\ Alone(r)
  BY <1>1, FinishEffect
<1>3. Sound(r)'
  BY Unsuccessful DEF clocks, database
<1>4. sessionSeq' \in SessionIds /\ sessionSeq' >= sessionSeq
  BY <1>1 DEF TypeOK, SessionIds, database
<1> QED
  BY <1>1, <1>2, <1>3, <1>4, OwnStep DEF TypeOK, database

\* What a callback may leave for its commit.
LEMMA PreparedStep ==
  ASSUME TokensInv, NEW r \in Requests, pc[r] = "body",
         NEW rows, NEW closes \in BOOLEAN, NEW token \in Token \cup {NULL},
         Prepare(r, rows, closes, token),
         UNCHANGED <<clocks, sessions, closed, given, endedAt, req, stamp, admittedAt>>,
         sessionSeq' \in SessionIds, sessionSeq' >= sessionSeq,
         DOMAIN rows \subseteq SessionIds,
         \A s \in DOMAIN rows :
           /\ rows[s] \in Row
           /\ s <= sessionSeq'
           /\ sessions[s] # NULL =>
                Live(sessions[s]) /\ rows[s].expiresAt = sessions[s].expiresAt,
         token # NULL =>
           /\ token.session \in DOMAIN rows
           /\ token.iat < token.exp
           /\ token.exp <= rows[token.session].expiresAt
           /\ token.iat * TicksPerSecond <= clock + token.skew,
         req[r].op = "delete" => Live(sessions[req[r].session])
  PROVE  TokensInv'
<1>1. TypeOK /\ Sound(r) /\ History
  BY InvParts
<1>2. /\ Bookkeeping' /\ Alone(r) /\ pc'[r] = "commit"
      /\ reply' = reply /\ holder' = holder
      /\ pending'[r].rows = rows /\ pending'[r].closes = closes
      /\ pending'[r].token = token
  BY <1>1, PrepareEffect
<1>3. reply[r] = NULL /\ NULL # "ok" /\ holder = r
  BY <1>1, NullRequestAssumption DEF Sound, Staged, Replies
<1>4. Known(r)' /\ Staged(r)'
  BY <1>1, <1>2, <1>3 DEF Sound, Known, Staged, clocks
<1>5. Owned(r)'
  BY <1>1, <1>2 DEF Owned, Live, clocks
<1>6. Stood(r)'
  <2>1. ASSUME req[r].op = "delete" PROVE endedAt[req[r].session] = NULL
    <3>1. req[r].session \in SessionIds
      BY <1>1, <2>1, NullRecordAssumption DEF Sound, Known, TypeOK, Request
    <3> QED
      BY <1>1, <2>1, <3>1 DEF History
  <2> QED
    BY <1>2, <1>3, <2>1 DEF Stood, SawItLive
<1>7. Sound(r)'
  BY <1>2, <1>3, <1>4, <1>5, <1>6 DEF Sound
<1> QED
  BY <1>1, <1>2, <1>7, OwnStep DEF TypeOK

\* The account's lock is granted: no other request is past it.
LEMMA LockAccountStep ==
  ASSUME TokensInv, NEW r \in Requests, LockAccount(r)
  PROVE  TokensInv'
<1>1. TypeOK /\ Sound(r) /\ pc[r] = "account"
  BY InvParts DEF LockAccount
<1>2. /\ Goto(r, "body") /\ reply' = reply /\ pending' = pending
      /\ holder = NULL /\ holder' = r /\ "body" \in Stages
      /\ UNCHANGED <<clocks, database, req, stamp, admittedAt>>
  BY DEF LockAccount, Stages
<1>3. /\ Bookkeeping' /\ Alone(r)
      /\ pc'[r] = "body" /\ reply'[r] = reply[r] /\ pending'[r] = pending[r]
  BY <1>1, <1>2, GotoEffect
<1>4. Sound(r)'
  BY <1>1, <1>2, <1>3, NullRequestAssumption
     DEF Sound, Known, Staged, Owned, Stood, SawItLive, clocks, database, Replies, Live
<1>5. sessionSeq' \in SessionIds /\ sessionSeq' >= sessionSeq
  BY <1>1, <1>2 DEF TypeOK, SessionIds, database
<1> QED
  BY <1>1, <1>2, <1>3, <1>4, <1>5, OwnStep DEF TypeOK, database

\* Logout samples its time.
LEMMA SampleLogoutStep ==
  ASSUME TokensInv, NEW r \in Requests, SampleLogout(r)
  PROVE  TokensInv'
<1>1. TypeOK /\ Sound(r) /\ pc[r] = "admitted" /\ req[r].op = "logout"
  BY InvParts DEF SampleLogout
<1>2. /\ Goto(r, "revoke") /\ reply' = reply /\ pending' = pending
      /\ holder' = holder /\ "revoke" \in Stages
      /\ stamp' = [stamp EXCEPT ![r] = Now(req[r].at)]
      /\ UNCHANGED <<clocks, database, req, admittedAt>>
  BY DEF SampleLogout, Stages
<1>3. /\ Bookkeeping' /\ Alone(r)
      /\ pc'[r] = "revoke" /\ reply'[r] = reply[r] /\ pending'[r] = pending[r]
  BY <1>1, <1>2, GotoEffect
<1>4. Now(req[r].at) \in Int
  <2>1. req[r].at \in Servers
    BY <1>1 DEF Sound, Known, TypeOK, Request
  <2> QED
    BY <1>1, <2>1, NowInt
<1>5. /\ stamp' \in [Requests -> Int \cup {NULL}] /\ stamp'[r] # NULL
      /\ \A q \in Requests \ {r} : stamp'[q] = stamp[q]
  BY <1>1, <1>2, <1>4, OffsetsAssumption DEF TypeOK
<1>6. Sound(r)'
  BY <1>1, <1>2, <1>3, <1>5, NullRequestAssumption
     DEF Sound, Known, Staged, Owned, Stood, SawItLive, clocks, database, Replies, Live
<1>7. sessionSeq' \in SessionIds /\ sessionSeq' >= sessionSeq
  BY <1>1, <1>2 DEF TypeOK, SessionIds, database
<1> QED
  BY <1>1, <1>2, <1>3, <1>5, <1>6, <1>7, OwnStep DEF TypeOK, database

\* A request that is cut off.
LEMMA CutStep ==
  ASSUME TokensInv, NEW r \in Requests, Cut(r)
  PROVE  TokensInv'
<1>1. TypeOK
  BY InvParts
<1>2. /\ Finish(r, "internal") /\ pc[r] # "new" /\ "internal" \in Replies \ {"ok"}
      /\ stamp' = [stamp EXCEPT ![r] = NULL]
      /\ UNCHANGED <<clocks, database, req, admittedAt>>
  BY DEF Cut, Replies
<1>3. /\ stamp' \in [Requests -> Int \cup {NULL}]
      /\ \A q \in Requests \ {r} : stamp'[q] = stamp[q]
  BY <1>1, <1>2 DEF TypeOK
<1> QED
  BY <1>2, <1>3, RefusedStep

\* Me finds its session live, which therefore has no end yet.
LEMMA ReadMeStep ==
  ASSUME TokensInv, NEW r \in Requests, ReadMe(r)
  PROVE  TokensInv'
<1>1. TypeOK /\ Sound(r) /\ History /\ pc[r] = "admitted" /\ req[r].op = "me"
  BY InvParts DEF ReadMe
<1>2. UNCHANGED <<clocks, database, req, stamp, admittedAt>>
  BY DEF ReadMe
<1>3. CASE Live(sessions[req[r].session]) /\ Goto(r, "check")
           /\ UNCHANGED <<holder, pending, reply>>
  <2>1. /\ reply' = reply /\ pending' = pending /\ holder' = holder /\ "check" \in Stages
    BY <1>3 DEF Stages
  <2>2. /\ Bookkeeping' /\ Alone(r)
        /\ pc'[r] = "check" /\ reply'[r] = reply[r] /\ pending'[r] = pending[r]
    BY <1>1, <1>3, <2>1, GotoEffect
  <2>3. endedAt[req[r].session] = NULL
    <3>1. req[r].session \in SessionIds
      BY <1>1 DEF Sound, Known, TypeOK, Request
    <3> QED
      BY <1>1, <1>3, <3>1 DEF History
  <2>4. Stood(r)'
    BY <1>2, <2>3 DEF Stood, database
  <2>5. Known(r)' /\ Staged(r)' /\ Owned(r)'
    BY <1>1, <1>2, <2>2
       DEF Sound, Known, Staged, Owned, clocks, database, Live
  <2>6. Sound(r)'
    BY <1>1, <1>2, <2>2, <2>4, <2>5, NullRequestAssumption DEF Sound, Staged, Replies
  <2>7. sessionSeq' \in SessionIds /\ sessionSeq' >= sessionSeq
    BY <1>1, <1>2 DEF TypeOK, SessionIds, database
  <2> QED
    BY <1>1, <1>2, <2>2, <2>6, <2>7, OwnStep DEF TypeOK, database
<1>4. CASE Finish(r, "refused")
  <2>1. "refused" \in Replies \ {"ok"}
    BY DEF Replies
  <2> QED
    BY <1>1, <1>2, <1>4, <2>1, RefusedStep DEF TypeOK
<1> QED
  BY <1>3, <1>4 DEF ReadMe

\* Me succeeds on what it has seen.
LEMMA CheckMeStep ==
  ASSUME TokensInv, NEW r \in Requests, CheckMe(r)
  PROVE  TokensInv'
<1>1. TypeOK /\ Sound(r) /\ pc[r] = "check" /\ req[r].op = "me"
  BY InvParts DEF CheckMe, Sound, Staged
<1>2. PICK result \in {"ok", "refused"} : Finish(r, result)
  BY DEF CheckMe
<1>3. UNCHANGED <<clocks, database, req, stamp, admittedAt>> /\ result \in Replies
  BY DEF CheckMe, Replies
<1>4. /\ Bookkeeping' /\ Alone(r)
      /\ pc'[r] = "done" /\ reply'[r] = result /\ pending'[r] = NoCommit
  BY <1>1, <1>2, <1>3, FinishEffect
<1>5. Known(r)' /\ Staged(r)' /\ Owned(r)' /\ Stood(r)'
  BY <1>1, <1>3, <1>4, NothingPending
     DEF Sound, Known, Staged, Owned, Stood, SawItLive, clocks, database
<1>6. Sound(r)'
  BY <1>1, <1>3, <1>5 DEF Sound
<1>7. sessionSeq' \in SessionIds /\ sessionSeq' >= sessionSeq
  BY <1>1, <1>3 DEF TypeOK, SessionIds, database
<1> QED
  BY <1>1, <1>3, <1>4, <1>6, <1>7, OwnStep DEF TypeOK, database

\* The token signed now for a session that has not run out is within it.
LEMMA TokenWithin ==
  ASSUME TypeOK, NEW i \in Servers, NEW s \in SessionIds, NEW expiresAt \in Int,
         expiresAt > Now(i)
  PROVE  LET t == SignedToken(s, i, Now(i), Earlier(expiresAt, Now(i) + AccessTTL)) IN
         /\ t \in Token /\ t.session = s
         /\ t.iat < t.exp /\ t.exp <= expiresAt
         /\ t.iat * TicksPerSecond <= clock + t.skew
<1> DEFINE now == Now(i)
           exp == Earlier(expiresAt, now + AccessTTL)
           t == SignedToken(s, i, now, exp)
<1>1. /\ now \in Int /\ offset[i] \in Int /\ expiresAt > now
      /\ now * TicksPerSecond <= clock + offset[i]
      /\ AccessTTL \in Nat \ {0}
  BY NowInt, ClocksInt
<1> HIDE DEF now
<1>2. exp \in Int /\ now < exp /\ exp <= expiresAt
  BY <1>1 DEF Earlier
<1> HIDE DEF exp
<1>3. /\ t \in Token /\ t.session = s /\ t.iat = now /\ t.exp = exp
      /\ t.skew = offset[i]
  BY <1>1, <1>2 DEF SignedToken, Token
<1> HIDE DEF t
<1>4. /\ t \in Token /\ t.session = s
      /\ t.iat < t.exp /\ t.exp <= expiresAt
      /\ t.iat * TicksPerSecond <= clock + t.skew
  BY <1>1, <1>2, <1>3
<1> QED
  BY <1>4 DEF t, exp, now

\* Login draws an unused id and signs a token within the new session.
LEMMA LoginTxStep ==
  ASSUME TokensInv, NEW r \in Requests, LoginTx(r)
  PROVE  TokensInv'
<1>1. /\ TypeOK /\ Sound(r) /\ History /\ pc[r] = "body" /\ req[r].op = "login"
      /\ UNCHANGED <<clocks, sessions, closed, given, endedAt, req, stamp, admittedAt>>
  BY InvParts DEF LoginTx, InBody
<1>2. CASE Finish(r, "refused") /\ UNCHANGED sessionSeq
  <2>1. "refused" \in Replies \ {"ok"} /\ UNCHANGED database
    BY <1>1, <1>2 DEF Replies, database
  <2> QED
    BY <1>1, <1>2, <2>1, RefusedStep DEF TypeOK
<1>3. CASE ~ Finish(r, "refused") \/ sessionSeq' # sessionSeq
  <2> DEFINE i == req[r].at
             now == Now(i)
             row == NewSession(now)
             id == sessionSeq + 1
             exp == Earlier(row.expiresAt, now + AccessTTL)
             token == SignedToken(id, i, now, exp)
             rows == [s \in {id} |-> row]
  <2>1. /\ sessionSeq < MaxSessions /\ sessionSeq' = id
        /\ Prepare(r, rows, FALSE, token)
    BY <1>3 DEF LoginTx
  <2>2. i \in Servers
    BY <1>1 DEF Sound, Known, TypeOK, Request
  <2>3. id \in SessionIds /\ id >= sessionSeq /\ id > sessionSeq
    BY <1>1, <2>1, BoundsAssumption DEF TypeOK, SessionIds
  <2>4. now \in Int /\ RefreshTTL \in Nat \ {0}
    BY <1>1, <2>2, NowInt, ConfigAssumption DEF ValidAuthConfig
  <2>5. /\ row \in Row /\ row.expiresAt \in Int /\ row.expiresAt > now
    <3> HIDE DEF now
    <3> QED
      BY <2>4 DEF NewSession, Row
  <2>6. /\ token \in Token /\ token.session = id
        /\ token.iat < token.exp /\ token.exp <= row.expiresAt
        /\ token.iat * TicksPerSecond <= clock + token.skew
    <3> HIDE DEF row, id, i
    <3> QED
      BY <1>1, <2>2, <2>3, <2>5, TokenWithin
  <2>7. sessions[id] = NULL
    BY <1>1, <2>3 DEF History
  <2>8. DOMAIN rows = {id} /\ rows[id] = row
    OBVIOUS
  <2> HIDE DEF rows, token, row, id
  <2>9. /\ DOMAIN rows \subseteq SessionIds
        /\ \A s \in DOMAIN rows :
             /\ rows[s] \in Row
             /\ s <= sessionSeq'
             /\ sessions[s] # NULL =>
                  Live(sessions[s]) /\ rows[s].expiresAt = sessions[s].expiresAt
        /\ sessionSeq' \in SessionIds /\ sessionSeq' >= sessionSeq
    <3>1. id <= sessionSeq'
      BY <2>1, <2>3, BoundsAssumption DEF SessionIds
    <3> QED
      BY <2>1, <2>3, <2>5, <2>7, <2>8, <3>1
  <2>10. /\ token \in Token \cup {NULL}
         /\ token.session \in DOMAIN rows /\ token.iat < token.exp
         /\ token.exp <= rows[token.session].expiresAt
         /\ token.iat * TicksPerSecond <= clock + token.skew
    BY <2>6, <2>8
  <2> QED
    BY <1>1, <2>1, <2>9, <2>10, PreparedStep
<1> QED
  BY <1>2, <1>3 DEF LoginTx

\* Refresh signs a token within the session it has found live.
LEMMA RefreshTxStep ==
  ASSUME TokensInv, NEW r \in Requests, RefreshTx(r)
  PROVE  TokensInv'
<1>1. /\ TypeOK /\ Sound(r) /\ History /\ pc[r] = "body" /\ req[r].op = "refresh"
      /\ UNCHANGED <<clocks, database, req, stamp, admittedAt>>
  BY InvParts DEF RefreshTx, InBody
<1>2. CASE Finish(r, "refused")
  <2>1. "refused" \in Replies \ {"ok"}
    BY DEF Replies
  <2> QED
    BY <1>1, <1>2, <2>1, RefusedStep DEF TypeOK
<1>3. CASE ~ Finish(r, "refused")
  <2> DEFINE i == req[r].at
             s == req[r].session
             row == sessions[s]
             exp == Earlier(row.expiresAt, Now(i) + AccessTTL)
             token == SignedToken(s, i, Now(i), exp)
             rows == [k \in {s} |-> sessions[k]]
  <2>1. Refreshable(row, Now(i)) /\ Prepare(r, rows, FALSE, token)
    BY <1>3 DEF RefreshTx, TokenExpiry
  <2>2. /\ i \in Servers /\ s \in SessionIds
        /\ row # NULL /\ row \in Row /\ row.expiresAt \in Int
    <3>1. req[r] \in Request /\ s # NULL /\ row # NULL
      BY <1>1 DEF Sound, Known, TypeOK
    <3>2. i \in Servers /\ s \in SessionIds
      BY <3>1 DEF Request
    <3>3. row \in Row
      BY <1>1, <3>1, <3>2 DEF TypeOK
    <3> QED
      BY <3>1, <3>2, <3>3 DEF Row
  <2>3. Live(row) /\ row.expiresAt > Now(i)
    BY <2>1, <2>2 DEF Refreshable, Live
  <2>4. /\ token \in Token /\ token.session = s
        /\ token.iat < token.exp /\ token.exp <= row.expiresAt
        /\ token.iat * TicksPerSecond <= clock + token.skew
    <3> HIDE DEF row, s, i
    <3> QED
      BY <1>1, <2>2, <2>3, TokenWithin
  <2>5. s <= sessionSeq
    BY <1>1, <2>2, BoundsAssumption DEF History, TypeOK, SessionIds
  <2>6. DOMAIN rows = {s} /\ rows[s] = row /\ sessions[s] = row
    OBVIOUS
  <2> HIDE DEF rows, token, row, s
  <2>7. /\ sessionSeq' = sessionSeq /\ sessionSeq' \in SessionIds /\ sessionSeq' >= sessionSeq
        /\ UNCHANGED <<clocks, sessions, closed, given, endedAt, req, stamp, admittedAt>>
    BY <1>1 DEF TypeOK, SessionIds, database
  <2>8. /\ DOMAIN rows \subseteq SessionIds
        /\ \A k \in DOMAIN rows :
             /\ rows[k] \in Row
             /\ k <= sessionSeq'
             /\ sessions[k] # NULL =>
                  Live(sessions[k]) /\ rows[k].expiresAt = sessions[k].expiresAt
    BY <2>2, <2>3, <2>5, <2>6, <2>7
  <2>9. /\ token \in Token \cup {NULL}
        /\ token.session \in DOMAIN rows /\ token.iat < token.exp
        /\ token.exp <= rows[token.session].expiresAt
        /\ token.iat * TicksPerSecond <= clock + token.skew
    BY <2>4, <2>6
  <2> QED
    BY <1>1, <2>1, <2>7, <2>8, <2>9, PreparedStep
<1> QED
  BY <1>2, <1>3

\* What DeleteMe and a ban will write revokes sessions that are live.
LEMMA CloseAccountStep ==
  ASSUME TokensInv, NEW r \in Requests, NEW now \in Int, pc[r] = "body",
         CloseAccount(r, now), req[r].op = "delete" => Live(sessions[req[r].session]),
         UNCHANGED <<clocks, database, req, stamp, admittedAt>>
  PROVE  TokensInv'
<1>1. TypeOK /\ Sound(r) /\ History
  BY InvParts
<1>2. CASE Finish(r, "internal")
  <2>1. "internal" \in Replies \ {"ok"}
    BY DEF Replies
  <2> QED
    BY <1>1, <1>2, <2>1, RefusedStep DEF TypeOK
<1>3. CASE Prepare(r, RevokedAllAt(now), TRUE, NULL)
  <2> DEFINE rows == RevokedAllAt(now)
  <2>1. DOMAIN rows = LiveSessions /\ LiveSessions \subseteq SessionIds
    BY DEF RevokedAllAt, LiveSessions
  <2>2. ASSUME NEW s \in LiveSessions
        PROVE  /\ rows[s] \in Row /\ s <= sessionSeq /\ Live(sessions[s])
               /\ rows[s].expiresAt = sessions[s].expiresAt
    <3>1. s \in SessionIds /\ Live(sessions[s]) /\ sessions[s] # NULL
      BY DEF LiveSessions, Live
    <3>2. sessions[s] \in Row
      BY <1>1, <3>1 DEF TypeOK
    <3>3. rows[s] = [sessions[s] EXCEPT !.revokedAt = now]
      BY DEF RevokedAllAt
    <3>4. rows[s] \in Row /\ rows[s].expiresAt = sessions[s].expiresAt
      BY <3>2, <3>3 DEF Row
    <3>5. s <= sessionSeq
      BY <1>1, <3>1, BoundsAssumption DEF History, TypeOK, SessionIds
    <3> QED
      BY <3>1, <3>4, <3>5
  <2>3. /\ sessionSeq' = sessionSeq /\ sessionSeq' \in SessionIds /\ sessionSeq' >= sessionSeq
        /\ UNCHANGED <<clocks, sessions, closed, given, endedAt, req, stamp, admittedAt>>
    BY <1>1 DEF TypeOK, SessionIds, database
  <2> HIDE DEF rows
  <2>4. /\ DOMAIN rows \subseteq SessionIds
        /\ \A k \in DOMAIN rows :
             /\ rows[k] \in Row
             /\ k <= sessionSeq'
             /\ sessions[k] # NULL =>
                  Live(sessions[k]) /\ rows[k].expiresAt = sessions[k].expiresAt
    BY <2>1, <2>2, <2>3
  <2>5. Prepare(r, rows, TRUE, NULL)
    BY <1>3 DEF rows
  <2> QED
    BY <2>3, <2>4, <2>5, PreparedStep
<1> QED
  BY <1>2, <1>3 DEF CloseAccount

\* DeleteMe, once it has checked its session again.
LEMMA DeleteTxStep ==
  ASSUME TokensInv, NEW r \in Requests, DeleteTx(r)
  PROVE  TokensInv'
<1>1. /\ TypeOK /\ Sound(r) /\ pc[r] = "body" /\ req[r].op = "delete"
      /\ UNCHANGED <<clocks, database, req, stamp, admittedAt>>
  BY InvParts DEF DeleteTx, InBody
<1>2. Now(req[r].at) \in Int
  <2>1. req[r].at \in Servers
    BY <1>1 DEF Sound, Known, TypeOK, Request
  <2> QED
    BY <1>1, <2>1, NowInt
<1>3. CASE Finish(r, "refused")
  <2>1. "refused" \in Replies \ {"ok"}
    BY DEF Replies
  <2> QED
    BY <1>1, <1>3, <2>1, RefusedStep DEF TypeOK
<1>4. CASE DeleteAdmitted(r, Now(req[r].at)) /\ CloseAccount(r, Now(req[r].at))
  <2>1. Live(sessions[req[r].session])
    BY <1>4 DEF DeleteAdmitted
  <2> QED
    BY <1>1, <1>2, <1>4, <2>1, CloseAccountStep
<1> QED
  BY <1>3, <1>4 DEF DeleteTx

\* The order that bans.
LEMMA BanTxStep ==
  ASSUME TokensInv, NEW r \in Requests, BanTx(r)
  PROVE  TokensInv'
<1>1. /\ TypeOK /\ Sound(r) /\ pc[r] = "body" /\ req[r].op = "ban"
      /\ CloseAccount(r, Now(req[r].at))
      /\ UNCHANGED <<clocks, database, req, stamp, admittedAt>>
  BY InvParts DEF BanTx, InBody
<1>2. Now(req[r].at) \in Int
  <2>1. req[r].at \in Servers
    BY <1>1 DEF Sound, Known, TypeOK, Request
  <2> QED
    BY <1>1, <2>1, NowInt
<1> QED
  BY <1>1, <1>2, CloseAccountStep

-----------------------------------------------------------------------------
\* A stage that lets a request succeed on the word of its session comes after
\* its admission.
LEMMA SeenAfterAdmission ==
  ASSUME TokensInv, NEW q \in Requests, SawItLive(q)
  PROVE  /\ admittedAt[q] \in Nat /\ admittedAt[q] <= clock
         /\ req[q].session \in SessionIds /\ sessions[req[q].session] # NULL
<1>1. TypeOK /\ Sound(q)
  BY InvParts
<1>2. pc[q] # "new" /\ req[q].op \in {"me", "delete"} /\ (pc[q] # "done" \/ reply[q] = "ok")
  BY <1>1, NullRequestAssumption DEF SawItLive, Sound, Staged, Replies
<1>3. /\ admittedAt[q] # NULL /\ req[q] # NULL
      /\ req[q].session # NULL /\ sessions[req[q].session] # NULL
  BY <1>1, <1>2 DEF Sound, Known
<1>4. req[q].session \in SessionIds
  BY <1>1, <1>3 DEF TypeOK, Request
<1> QED
  BY <1>1, <1>3, <1>4 DEF TypeOK, Sound, Staged

\* The end of a session, whoever brings it about: rows stay, an end stays an
\* end, and new ends are dated now.
SessionsMoveOn ==
  \A s \in SessionIds :
    /\ sessions[s] # NULL =>
         sessions'[s] # NULL /\ sessions'[s].expiresAt = sessions[s].expiresAt
    /\ sessions[s] # NULL /\ ~ Live(sessions[s]) => ~ Live(sessions'[s])
    /\ s > sessionSeq => sessions'[s] = NULL
    /\ endedAt'[s] = endedAt[s] \/ (endedAt[s] = NULL /\ endedAt'[s] = clock)
    /\ endedAt'[s] # endedAt[s] => sessions'[s] # NULL /\ ~ Live(sessions'[s])

\* A step that ends sessions, or hands out a token within one, keeps the tables
\* right.
LEMMA TablesMoveOn ==
  ASSUME TokensInv, SessionsMoveOn, UNCHANGED <<clock, sessionSeq>>,
         sessions' \in [SessionIds -> Row \cup {NULL}],
         endedAt' \in [SessionIds -> Nat \cup {NULL}],
         \A t \in given' \ given :
           /\ t \in Token /\ sessions'[t.session] # NULL
           /\ t.iat < t.exp /\ t.exp <= sessions'[t.session].expiresAt
           /\ t.iat * TicksPerSecond <= clock + t.skew
  PROVE  TokensWithinSession' /\ History' /\ Dated' /\ given' \subseteq Token
<1>1. TypeOK /\ TokensWithinSession /\ History /\ Dated
  BY InvParts
<1>2. TokensWithinSession' /\ given' \subseteq Token
  <2>1. ASSUME NEW t \in given' PROVE t \in Token /\ sessions'[t.session] # NULL
           /\ t.iat < t.exp /\ t.exp <= sessions'[t.session].expiresAt
    <3>1. CASE t \in given
      <4>1. t \in Token /\ t.session \in SessionIds
        BY <1>1, <3>1 DEF TypeOK, Token
      <4> QED
        BY <1>1, <3>1, <4>1 DEF TokensWithinSession, SessionsMoveOn
    <3>2. CASE t \notin given
      BY <3>2
    <3> QED
      BY <3>1, <3>2
  <2> QED
    BY <2>1 DEF TokensWithinSession
<1>3. History'
  <2>1. ASSUME NEW s \in SessionIds, endedAt'[s] # NULL
        PROVE  sessions'[s] # NULL /\ ~ Live(sessions'[s]) /\ endedAt'[s] <= clock
    <3>1. CASE endedAt'[s] = endedAt[s]
      BY <1>1, <2>1, <3>1 DEF History, SessionsMoveOn
    <3>2. CASE endedAt'[s] # endedAt[s]
      BY <1>1, <3>2 DEF SessionsMoveOn, TypeOK
    <3> QED
      BY <3>1, <3>2
  <2> QED
    BY <2>1 DEF History, SessionsMoveOn, Live
<1>4. Dated'
  BY <1>1 DEF Dated
<1> QED
  BY <1>2, <1>3, <1>4

\* A request that does not move, and has no rows locked, stays sound when
\* sessions end.
LEMMA OthersMoveOn ==
  ASSUME TokensInv, SessionsMoveOn, NEW q \in Requests,
         pc'[q] = pc[q], req'[q] = req[q], stamp'[q] = stamp[q], reply'[q] = reply[q],
         pending'[q] = pending[q], admittedAt'[q] = admittedAt[q],
         UNCHANGED <<clock, sessionSeq>>, holder = q => holder' = q, Owned(q)'
  PROVE  Sound(q)'
<1>1. Sound(q) /\ TypeOK
  BY InvParts
<1>2. ASSUME req[q] # NULL, req[q].session # NULL PROVE req[q].session \in SessionIds
  BY <1>1, <1>2 DEF TypeOK, Request
<1>3. Known(q)'
  BY <1>1, <1>2 DEF Sound, Known, SessionsMoveOn
<1>4. Staged(q)'
  BY <1>1 DEF Sound, Staged
<1>5. Stood(q)'
  <2>1. SUFFICES ASSUME SawItLive(q), endedAt'[req[q].session] # NULL
                 PROVE  admittedAt[q] <= endedAt'[req[q].session]
    BY DEF Stood, SawItLive
  <2>2. req[q].session \in SessionIds /\ admittedAt[q] \in Nat /\ admittedAt[q] <= clock
    BY <2>1, SeenAfterAdmission
  <2>3. CASE endedAt'[req[q].session] = endedAt[req[q].session]
    BY <1>1, <2>1, <2>3 DEF Sound, Stood
  <2>4. CASE endedAt'[req[q].session] = clock
    BY <2>2, <2>4
  <2> QED
    BY <2>2, <2>3, <2>4 DEF SessionsMoveOn
<1>6. ASSUME reply[q] = "ok", req[q].op = "logout" PROVE ~ Live(sessions'[req[q].session])
  <2>1. pc[q] = "done"
    BY <1>1, <1>6, NullRequestAssumption DEF Sound, Staged, Replies
  <2>2. req[q].session \in SessionIds /\ sessions[req[q].session] # NULL
    BY <1>1, <1>2, <1>6, <2>1 DEF Sound, Known
  <2> QED
    BY <1>1, <1>6, <2>2 DEF Sound, SessionsMoveOn
<1> QED
  BY <1>3, <1>4, <1>5, <1>6 DEF Sound, Live

\* A commit: no other transaction has rows locked, so that sessions move on.
LEMMA CommitStep ==
  ASSUME TokensInv, NEW r \in Requests, CommitWrites(r),
         NEW result \in Replies, Finish(r, result),
         given' \in {given, given \cup ({pending[r].token} \ {NULL})}
  PROVE  TokensInv'
<1> DEFINE rows == pending[r].rows
<1>1. /\ TypeOK /\ Sound(r) /\ History /\ pc[r] = "commit" /\ holder = r
      /\ UNCHANGED <<clocks, sessionSeq, req, stamp, admittedAt>>
  BY InvParts DEF CommitWrites, Sound, Staged
<1>2. /\ sessions' = [s \in SessionIds |-> IF s \in DOMAIN rows THEN rows[s] ELSE sessions[s]]
      /\ endedAt' = [s \in SessionIds |->
                       IF Live(sessions[s]) /\ s \in DOMAIN rows /\ ~ Live(rows[s])
                       THEN clock ELSE endedAt[s]]
      /\ closed' = (closed \/ pending[r].closes)
  BY DEF CommitWrites
<1>3. \A s \in DOMAIN rows :
        /\ s \in SessionIds /\ s <= sessionSeq
        /\ rows[s] \in Row /\ rows[s] # NULL
        /\ sessions[s] # NULL =>
             Live(sessions[s]) /\ rows[s].expiresAt = sessions[s].expiresAt
        /\ endedAt[s] = NULL
  <2>1. ASSUME NEW s \in DOMAIN rows PROVE s \in SessionIds /\ rows[s] \in Row
    BY <1>1 DEF TypeOK
  <2>2. ASSUME NEW s \in DOMAIN rows
        PROVE  /\ s <= sessionSeq
               /\ sessions[s] # NULL =>
                    Live(sessions[s]) /\ rows[s].expiresAt = sessions[s].expiresAt
    BY <1>1 DEF Sound, Owned
  <2>3. ASSUME NEW s \in DOMAIN rows PROVE endedAt[s] = NULL
    BY <1>1, <2>1, <2>2 DEF History
  <2> QED
    BY <2>1, <2>2, <2>3, RowsReal
<1>4. clock \in Nat /\ clock # NULL
  BY <1>1, OffsetsAssumption DEF TypeOK
<1> HIDE DEF rows
<1>5. /\ sessions' \in [SessionIds -> Row \cup {NULL}]
      /\ endedAt' \in [SessionIds -> Nat \cup {NULL}]
  BY <1>1, <1>2, <1>3, <1>4 DEF TypeOK
<1>6. SessionsMoveOn
  <2>1. ASSUME NEW s \in SessionIds
        PROVE  /\ sessions[s] # NULL =>
                    sessions'[s] # NULL /\ sessions'[s].expiresAt = sessions[s].expiresAt
               /\ sessions[s] # NULL /\ ~ Live(sessions[s]) => ~ Live(sessions'[s])
    BY <1>2, <1>3
  <2>2. ASSUME NEW s \in SessionIds, s > sessionSeq PROVE sessions'[s] = NULL
    <3>1. s \notin DOMAIN rows
      BY <1>1, <1>3, <2>2 DEF TypeOK, SessionIds
    <3> QED
      BY <1>1, <1>2, <2>2, <3>1 DEF History
  <2>3. ASSUME NEW s \in SessionIds
        PROVE  /\ endedAt'[s] = endedAt[s] \/ (endedAt[s] = NULL /\ endedAt'[s] = clock)
               /\ endedAt'[s] # endedAt[s] => sessions'[s] # NULL /\ ~ Live(sessions'[s])
    BY <1>2, <1>3
  <2> QED
    BY <2>1, <2>2, <2>3 DEF SessionsMoveOn
<1>7. \A t \in given' \ given :
        /\ t \in Token /\ sessions'[t.session] # NULL
        /\ t.iat < t.exp /\ t.exp <= sessions'[t.session].expiresAt
        /\ t.iat * TicksPerSecond <= clock + t.skew
  <2>1. SUFFICES ASSUME NEW t, t = pending[r].token, t # NULL
                 PROVE  /\ t \in Token /\ sessions'[t.session] # NULL
                        /\ t.iat < t.exp /\ t.exp <= sessions'[t.session].expiresAt
                        /\ t.iat * TicksPerSecond <= clock + t.skew
    OBVIOUS
  <2>2. t \in Token
    BY <1>1, <2>1 DEF TypeOK
  <2>3. /\ t.session \in DOMAIN rows
        /\ t.iat < t.exp /\ t.exp <= rows[t.session].expiresAt
        /\ t.iat * TicksPerSecond <= clock + t.skew
    BY <1>1, <2>1 DEF Sound, Owned, rows
  <2>4. sessions'[t.session] = rows[t.session]
    BY <1>2, <1>3, <2>3
  <2> QED
    BY <1>3, <2>2, <2>3, <2>4
<1>8. /\ Bookkeeping' /\ Alone(r)
      /\ pc'[r] = "done" /\ reply'[r] = result /\ pending'[r] = NoCommit
  BY <1>1, FinishEffect
<1>9. TokensWithinSession' /\ History' /\ Dated' /\ given' \subseteq Token
  BY <1>1, <1>5, <1>6, <1>7, TablesMoveOn DEF clocks
<1>10. TypeOK'
  <2>1. closed' \in BOOLEAN
    BY <1>1, <1>2 DEF TypeOK
  <2> QED
    BY <1>1, <1>5, <1>8, <1>9, <2>1 DEF TypeOK, Bookkeeping, PendingTyped, clocks
<1>11. ASSUME NEW q \in Requests \ {r} PROVE Sound(q)'
  <2>1. Sound(q) /\ holder # q
    BY <1>1, InvParts
  <2>2. pending[q] = NoCommit
    BY <2>1 DEF Sound, Staged
  <2>3. pending'[q] = NoCommit
    BY <1>8, <2>2 DEF Alone
  <2>4. Owned(q)'
    BY <2>3, NothingPending DEF Owned
  <2>5. /\ pc'[q] = pc[q] /\ req'[q] = req[q] /\ stamp'[q] = stamp[q]
        /\ reply'[q] = reply[q] /\ pending'[q] = pending[q]
        /\ admittedAt'[q] = admittedAt[q] /\ UNCHANGED <<clock, sessionSeq>>
    BY <1>1, <1>8 DEF Alone, clocks
  <2> QED
    BY <1>6, <2>1, <2>4, <2>5, OthersMoveOn
<1>12. Sound(r)'
  <2>1. /\ req[r] # NULL /\ req[r].op \notin {"logout", "me"}
        /\ UNCHANGED <<clock, req, stamp, admittedAt>>
    BY <1>1 DEF Sound, Known, Staged, clocks
  <2>2. Known(r)'
    <3>1. ASSUME req[r].session # NULL PROVE req[r].session \in SessionIds
      BY <1>1, <2>1, <3>1 DEF TypeOK, Request
    <3> QED
      BY <1>1, <1>6, <1>8, <2>1, <3>1 DEF Sound, Known, SessionsMoveOn
  <2>3. Staged(r)' /\ Owned(r)'
    BY <1>1, <1>8, <2>1, NothingPending DEF Sound, Staged, Owned
  <2>4. Stood(r)'
    <3>1. SUFFICES ASSUME req[r].op = "delete", endedAt'[req[r].session] # NULL
                   PROVE  admittedAt[r] <= endedAt'[req[r].session]
      BY <1>8, <2>1 DEF Stood, SawItLive
    <3>2. SawItLive(r)
      BY <1>1, <3>1 DEF SawItLive
    <3>3. req[r].session \in SessionIds /\ admittedAt[r] \in Nat /\ admittedAt[r] <= clock
      BY <3>2, SeenAfterAdmission
    <3>4. CASE endedAt'[req[r].session] = endedAt[req[r].session]
      BY <1>1, <3>1, <3>2, <3>4 DEF Sound, Stood
    <3>5. CASE endedAt'[req[r].session] = clock
      BY <3>3, <3>5
    <3> QED
      BY <1>6, <3>3, <3>4, <3>5 DEF SessionsMoveOn
  <2> QED
    BY <2>1, <2>2, <2>3, <2>4 DEF Sound
<1> QED
  BY <1>9, <1>10, <1>11, <1>12 DEF TokensInv, Sound, LogoutEndsSession

\* The UPDATE of Logout: the row it changes is in no pending commit.
LEMMA RevokeSessionStep ==
  ASSUME TokensInv, NEW r \in Requests, RevokeSession(r)
  PROVE  TokensInv'
<1> DEFINE s == req[r].session
<1>1. /\ TypeOK /\ Sound(r) /\ History /\ pc[r] = "revoke"
      /\ stamp' = [stamp EXCEPT ![r] = NULL]
      /\ UNCHANGED <<clocks, sessionSeq, closed, given, req, admittedAt>>
  BY InvParts DEF RevokeSession
<1>2. /\ req[r].op = "logout" /\ stamp[r] \in Int /\ req[r] # NULL
      /\ s \in SessionIds /\ sessions[s] # NULL
  <2>1. /\ req[r].op = "logout" /\ stamp[r] # NULL /\ req[r] # NULL
        /\ s # NULL /\ sessions[s] # NULL
    BY <1>1 DEF Sound, Staged, Known
  <2> QED
    BY <1>1, <2>1 DEF TypeOK, Request
<1>3. /\ stamp' \in [Requests -> Int \cup {NULL}]
      /\ \A q \in Requests \ {r} : stamp'[q] = stamp[q]
  BY <1>1 DEF TypeOK
<1>4. sessionSeq' \in SessionIds /\ sessionSeq' >= sessionSeq
  BY <1>1 DEF TypeOK, SessionIds
<1> HIDE DEF s
<1>5. CASE ~ Live(sessions[s]) /\ Finish(r, "ok") /\ UNCHANGED <<sessions, endedAt>>
  <2>1. /\ Bookkeeping' /\ Alone(r)
        /\ pc'[r] = "done" /\ reply'[r] = "ok" /\ pending'[r] = NoCommit
    BY <1>1, <1>5, FinishEffect DEF Replies
  <2>2. Known(r)' /\ Staged(r)' /\ Owned(r)' /\ Stood(r)'
    BY <1>1, <1>2, <1>5, <2>1, NothingPending
       DEF Sound, Known, Staged, Owned, Stood, SawItLive, clocks
  <2>3. Sound(r)'
    BY <1>1, <1>5, <2>2 DEF Sound, s, Live
  <2> QED
    BY <1>1, <1>3, <1>4, <1>5, <2>1, <2>3, OwnStep DEF TypeOK
<1>6. CASE Finish(r, "internal") /\ UNCHANGED <<sessions, endedAt>>
  <2>1. "internal" \in Replies \ {"ok"} /\ UNCHANGED database
    BY <1>1, <1>6 DEF Replies, database
  <2> QED
    BY <1>1, <1>3, <1>6, <2>1, RefusedStep
<1>7. CASE /\ Live(sessions[s]) /\ ~ Locked(s) /\ Finish(r, "ok")
           /\ sessions' = [sessions EXCEPT ![s].revokedAt = stamp[r]]
           /\ endedAt' = [endedAt EXCEPT ![s] = clock]
  <2>1. /\ Bookkeeping' /\ Alone(r)
        /\ pc'[r] = "done" /\ reply'[r] = "ok" /\ pending'[r] = NoCommit
    BY <1>1, <1>7, FinishEffect DEF Replies
  <2>2. /\ sessions[s] \in Row /\ clock \in Nat /\ stamp[r] # NULL /\ endedAt[s] = NULL
        /\ clock # NULL
    BY <1>1, <1>2, <1>7, OffsetsAssumption DEF TypeOK, History
  <2> DEFINE row == [sessions[s] EXCEPT !.revokedAt = stamp[r]]
  <2>3. row \in Row /\ row # NULL /\ ~ Live(row) /\ row.expiresAt = sessions[s].expiresAt
    <3>1. /\ row \in Row /\ row.revokedAt = stamp[r]
          /\ row.expiresAt = sessions[s].expiresAt
      BY <1>2, <2>2 DEF Row
    <3> HIDE DEF row
    <3> QED
      BY <2>2, <3>1, RowsReal DEF Live
  <2>4. /\ sessions'[s] = row /\ endedAt'[s] = clock
        /\ \A k \in SessionIds \ {s} : sessions'[k] = sessions[k] /\ endedAt'[k] = endedAt[k]
    BY <1>1, <1>2, <1>7 DEF TypeOK
  <2> HIDE DEF row
  <2>5. /\ sessions' \in [SessionIds -> Row \cup {NULL}]
        /\ endedAt' \in [SessionIds -> Nat \cup {NULL}]
    <3>1. sessions' = [sessions EXCEPT ![s] = row]
      BY <1>7 DEF row
    <3> QED
      BY <1>1, <1>2, <1>7, <2>2, <2>3, <3>1 DEF TypeOK
  <2>6. SessionsMoveOn
    <3>1. ASSUME NEW k \in SessionIds, k > sessionSeq PROVE sessions'[k] = NULL
      BY <1>1, <1>2, <2>4, <3>1 DEF History
    <3> QED
      BY <1>2, <2>2, <2>3, <2>4, <3>1 DEF SessionsMoveOn
  <2>7. TokensWithinSession' /\ History' /\ Dated' /\ given' \subseteq Token
    BY <1>1, <2>5, <2>6, TablesMoveOn DEF clocks
  <2>8. TypeOK'
    BY <1>1, <1>3, <2>1, <2>5, <2>7 DEF TypeOK, Bookkeeping, PendingTyped, clocks
  <2>9. ASSUME NEW q \in Requests \ {r} PROVE Sound(q)'
    <3>1. Sound(q) /\ s \notin DOMAIN pending[q].rows /\ DOMAIN pending[q].rows \subseteq SessionIds
      BY <1>1, <1>7, InvParts DEF Locked, TypeOK
    <3>2. \A k \in DOMAIN pending[q].rows : sessions'[k] = sessions[k]
      BY <2>4, <3>1
    <3>3. /\ pc'[q] = pc[q] /\ req'[q] = req[q] /\ stamp'[q] = stamp[q]
          /\ reply'[q] = reply[q] /\ pending'[q] = pending[q]
          /\ admittedAt'[q] = admittedAt[q] /\ UNCHANGED <<clock, sessionSeq>>
          /\ holder = q => holder' = q
      BY <1>1, <1>3, <2>1 DEF Alone, clocks
    <3>4. Owned(q)'
      BY <3>1, <3>2, <3>3 DEF Sound, Owned, Live
    <3> QED
      BY <2>6, <3>3, <3>4, OthersMoveOn
  <2>10. Sound(r)'
    <3>1. /\ req'[r] = req[r] /\ admittedAt'[r] = admittedAt[r] /\ clock' = clock
          /\ sessions'[s] # NULL /\ ~ Live(sessions'[s])
      BY <1>1, <2>3, <2>4 DEF clocks
    <3>2. Known(r)' /\ Staged(r)' /\ Owned(r)' /\ Stood(r)'
      BY <1>1, <1>2, <2>1, <3>1, NothingPending
         DEF Sound, Known, Staged, Owned, Stood, SawItLive, s
    <3> QED
      BY <3>1, <3>2 DEF Sound, s, Live
  <2> QED
    BY <2>7, <2>8, <2>9, <2>10 DEF TokensInv, Sound, LogoutEndsSession
<1> QED
  BY <1>5, <1>6, <1>7 DEF RevokeSession, s

\* Time passes: what has happened has not happened later.
LEMMA TickStep ==
  ASSUME TokensInv, Tick
  PROVE  TokensInv'
<1>1. /\ TypeOK /\ TokensWithinSession /\ History /\ Dated
      /\ \A r \in Requests : Sound(r)
  BY InvParts
<1>2. /\ clock' = clock + 1 /\ clock \in Nat
      /\ UNCHANGED <<offset, database, holder, pc, req, stamp, pending, reply, admittedAt>>
  BY <1>1 DEF Tick, TypeOK
<1>3. TypeOK'
  BY <1>1, <1>2 DEF TypeOK, database
<1>4. TokensWithinSession'
  BY <1>1, <1>2 DEF TokensWithinSession, database
<1>5. History'
  BY <1>1, <1>2 DEF History, TypeOK, database, Live
<1>6. Dated'
  <2>1. ASSUME NEW t \in given PROVE t.iat * TicksPerSecond <= clock' + t.skew
    <3>1. t.iat * TicksPerSecond <= clock + t.skew
      BY <1>1 DEF Dated
    <3>2. t.iat * TicksPerSecond \in Int /\ t.skew \in Int
      BY <1>1, ClocksInt DEF TypeOK, Token
    <3> QED
      BY <1>2, <3>1, <3>2
  <2> QED
    BY <1>2, <2>1 DEF Dated, database
<1>7. ASSUME NEW r \in Requests PROVE Sound(r)'
  <2>1. Known(r)' /\ Stood(r)'
    BY <1>1, <1>2 DEF Sound, Known, Stood, SawItLive, database
  <2>2. Staged(r)'
    BY <1>1, <1>2 DEF Sound, Staged, TypeOK
  <2>3. Owned(r)'
    <3>1. ASSUME pending[r].token # NULL
          PROVE  pending[r].token.iat * TicksPerSecond <= clock' + pending[r].token.skew
      <4> DEFINE t == pending[r].token
      <4>1. t.iat * TicksPerSecond <= clock + t.skew
        BY <1>1, <3>1 DEF Sound, Owned
      <4>2. t.iat * TicksPerSecond \in Int /\ t.skew \in Int
        BY <1>1, <3>1, ClocksInt DEF TypeOK, Token
      <4> HIDE DEF t
      <4>3. t.iat * TicksPerSecond <= clock' + t.skew
        BY <1>2, <4>1, <4>2
      <4> QED
        BY <4>3 DEF t
    <3> QED
      BY <1>1, <1>2, <3>1 DEF Sound, Owned, Live, database
  <2> QED
    BY <1>1, <1>2, <2>1, <2>2, <2>3 DEF Sound, Live, database
<1> QED
  BY <1>3, <1>4, <1>5, <1>6, <1>7 DEF TokensInv, Sound, LogoutEndsSession

\* A clock is set: the invariant speaks of the clocks tokens were signed on.
LEMMA SetClockStep ==
  ASSUME TokensInv, NEW i \in Servers, SetClock(i)
  PROVE  TokensInv'
<1>1. /\ offset' \in [Servers -> Offsets]
      /\ UNCHANGED <<clock, database, holder, pc, req, stamp, pending, reply, admittedAt>>
  BY DEF SetClock, TokensInv, TypeOK
<1> QED
  BY <1>1 DEF TokensInv, TypeOK, TokensWithinSession, LogoutEndsSession, History, Dated,
     Known, Staged, Owned, Stood, SawItLive, Live, database

\* Nothing changes.
LEMMA StutterStep ==
  ASSUME TokensInv, UNCHANGED vars
  PROVE  TokensInv'
BY DEF TokensInv, TypeOK, TokensWithinSession, LogoutEndsSession, History, Dated,
   Known, Staged, Owned, Stood, SawItLive, Live, vars, database, clocks

-----------------------------------------------------------------------------
\* Every step keeps the invariant.
LEMMA NextTokens == TokensInv /\ [Next]_vars => TokensInv'
<1> SUFFICES ASSUME TokensInv, [Next]_vars PROVE TokensInv'
  OBVIOUS
<1>1. ASSUME NEW r \in Requests, NEW op \in Operations, NEW i \in Servers,
             NEW s \in SessionIds \cup {NULL}, Start(r, op, i, s)
      PROVE  TokensInv'
  BY <1>1, StartStep
<1>2. ASSUME NEW r \in Requests, NEW op \in Operations, NEW i \in Servers,
             NEW t \in given, Use(r, op, i, t)
      PROVE  TokensInv'
  BY <1>2, UseStep
<1>3. ASSUME NEW r \in Requests, Serve(r) PROVE TokensInv'
  <2>1. ASSUME Commit(r) PROVE TokensInv'
    <3>1. /\ CommitWrites(r) /\ Finish(r, "ok") /\ "ok" \in Replies
          /\ given' \in {given, given \cup ({pending[r].token} \ {NULL})}
      BY <2>1 DEF Commit, Replies
    <3> QED
      BY <3>1, CommitStep
  <2>2. ASSUME CommitUnconfirmed(r) PROVE TokensInv'
    <3>1. /\ CommitWrites(r) /\ Finish(r, "internal") /\ "internal" \in Replies
          /\ given' \in {given, given \cup ({pending[r].token} \ {NULL})}
      BY <2>2 DEF CommitUnconfirmed, Replies
    <3> QED
      BY <3>1, CommitStep
  <2> QED
    BY <1>3, <2>1, <2>2, LockAccountStep, LoginTxStep, RefreshTxStep, DeleteTxStep,
       BanTxStep, SampleLogoutStep, RevokeSessionStep, ReadMeStep, CheckMeStep, CutStep
       DEF Serve
<1>4. ASSUME NEW i \in Servers, SetClock(i) PROVE TokensInv'
  BY <1>4, SetClockStep
<1>5. CASE UNCHANGED vars
  BY <1>5, StutterStep
<1> QED
  BY <1>1, <1>2, <1>3, <1>4, <1>5, TickStep DEF Next, Answered

\* The invariant holds in every reachable state.
LEMMA TokensInductive == Spec => []TokensInv
BY InitTokens, NextTokens, PTL DEF Spec

(***************************************************************************)
(* Every variable keeps its type: no row is written without its dates, and *)
(* no end of a session without a time.                                     *)
(***************************************************************************)
THEOREM TypeCorrect == Spec => []TypeOK
<1>1. TokensInv => TypeOK
  BY DEF TokensInv
<1> QED
  BY <1>1, TokensInductive, PTL

(***************************************************************************)
(* No token that Login or Refresh hands out names a session that does not  *)
(* exist or expires after it, on however many instances.                   *)
(***************************************************************************)
THEOREM TokensExpireWithSession == Spec => []TokensWithinSession
<1>1. TokensInv => TokensWithinSession
  BY DEF TokensInv
<1> QED
  BY <1>1, TokensInductive, PTL

(***************************************************************************)
(* A confirmed logout has ended its session, and nothing that was under    *)
(* way, a Refresh of the same session included, revives it.                *)
(***************************************************************************)
THEOREM LogoutsEnd == Spec => []LogoutEndsSession
<1>1. TokensInv => LogoutEndsSession
  BY DEF TokensInv
<1> QED
  BY <1>1, TokensInductive, PTL

(***************************************************************************)
(* Me and DeleteMe succeed only for a request that was admitted before its *)
(* session ended.                                                          *)
(***************************************************************************)
THEOREM RevokedPowerless == Spec => []RevokedTokensPowerless
<1>1. TokensInv => RevokedTokensPowerless
  BY DEF TokensInv, RevokedTokensPowerless, Stood, SawItLive
<1> QED
  BY <1>1, TokensInductive, PTL

-----------------------------------------------------------------------------
\* A token that is turned away has expired, or was signed too far ahead.
LEMMA RejectionCause ==
  ASSUME TokensInv, NEW i \in Servers, NEW t \in given, ~ Verify(t, Now(i))
  PROVE  t.exp <= Now(i) \/ t.skew - offset[i] > Leeway * TicksPerSecond
<1>1. /\ TypeOK /\ t \in Token /\ t.iat < t.exp
      /\ t.iat * TicksPerSecond <= clock + t.skew
  BY InvParts DEF TypeOK, TokensWithinSession, Dated
<1>2. /\ t.iat \in Int /\ t.exp \in Int /\ t.skew \in Int /\ offset[i] \in Int
      /\ clock \in Int /\ Leeway \in Nat /\ TicksPerSecond \in Nat /\ TicksPerSecond > 0
  BY <1>1, ClocksInt DEF Token
<1>3. /\ Now(i) \in Int /\ clock + offset[i] < (Now(i) + 1) * TicksPerSecond
  BY <1>1, NowInt
<1> SUFFICES ASSUME t.iat > Now(i) + Leeway
             PROVE  t.skew - offset[i] > Leeway * TicksPerSecond
  BY <1>1, <1>2, <1>3 DEF Verify
<1> DEFINE now == Now(i)
           n == TicksPerSecond
<1> HIDE DEF now, n
<1>4. /\ now \in Int /\ n \in Nat /\ n > 0 /\ t.iat >= now + 1 + Leeway
      /\ clock + offset[i] < (now + 1) * n /\ t.iat * n <= clock + t.skew
  BY <1>1, <1>2, <1>3 DEF now, n
<1>5. PICK a \in Nat : t.iat = now + 1 + Leeway + a
  <2>1. t.iat - (now + 1 + Leeway) \in Nat
    BY <1>2, <1>4
  <2>2. t.iat = now + 1 + Leeway + (t.iat - (now + 1 + Leeway))
    BY <1>2, <1>4
  <2> QED
    BY <2>1, <2>2
<1>6. t.iat * n = (now + 1) * n + Leeway * n + a * n
  BY <1>2, <1>4, <1>5
<1>7. /\ a * n \in Nat /\ Leeway * n \in Int /\ (now + 1) * n \in Int /\ t.iat * n \in Int
  BY <1>2, <1>4, <1>5
<1>8. t.skew - offset[i] > Leeway * n
  BY <1>2, <1>4, <1>6, <1>7
<1> QED
  BY <1>8 DEF n

\* Only the middleware answers "unauthorized".
LEMMA OnlyUseRejects ==
  ASSUME TokensInv, [Next]_vars, NEW r \in Requests,
         reply[r] = NULL, reply'[r] = "unauthorized"
  PROVE  \E op \in Operations, i \in Servers, t \in given :
           /\ Use(r, op, i, t) /\ ~ Verify(t, Now(i))
           /\ req'[r].at = i /\ req'[r].token = t
<1>1. TypeOK
  BY InvParts
<1>2. "unauthorized" # NULL /\ reply'[r] # reply[r]
  BY NullRequestAssumption DEF Replies
<1>3. ASSUME NEW q \in Requests, NEW result \in Replies \ {"unauthorized"}, Finish(q, result)
      PROVE  FALSE
  BY <1>1, <1>2, <1>3 DEF Finish, TypeOK
<1>4. /\ "ok" \in Replies \ {"unauthorized"} /\ "refused" \in Replies \ {"unauthorized"}
      /\ "internal" \in Replies \ {"unauthorized"}
  BY DEF Replies
<1>5. reply' # reply
  BY <1>2
<1>6. ASSUME NEW q \in Requests, NEW op \in Operations, NEW i \in Servers,
             NEW s \in SessionIds \cup {NULL}, Start(q, op, i, s)
      PROVE  FALSE
  BY <1>3, <1>4, <1>5, <1>6 DEF Start
<1>7. ASSUME NEW q \in Requests, Serve(q) PROVE FALSE
  <2>1. CASE LockAccount(q)
    BY <1>5, <2>1 DEF LockAccount
  <2>2. CASE LoginTx(q)
    BY <1>3, <1>4, <1>5, <2>2 DEF LoginTx, Prepare
  <2>3. CASE RefreshTx(q)
    BY <1>3, <1>4, <1>5, <2>3 DEF RefreshTx, Prepare
  <2>4. CASE DeleteTx(q)
    BY <1>3, <1>4, <1>5, <2>4 DEF DeleteTx, CloseAccount, Prepare
  <2>5. CASE BanTx(q)
    BY <1>3, <1>4, <1>5, <2>5 DEF BanTx, CloseAccount, Prepare
  <2>6. CASE Commit(q) \/ CommitUnconfirmed(q)
    BY <1>3, <1>4, <2>6 DEF Commit, CommitUnconfirmed
  <2>7. CASE SampleLogout(q)
    BY <1>5, <2>7 DEF SampleLogout
  <2>8. CASE RevokeSession(q)
    BY <1>3, <1>4, <2>8 DEF RevokeSession
  <2>9. CASE ReadMe(q)
    BY <1>3, <1>4, <1>5, <2>9 DEF ReadMe
  <2>10. CASE CheckMe(q)
    BY <1>3, <1>4, <2>10 DEF CheckMe
  <2>11. CASE Cut(q)
    BY <1>3, <1>4, <2>11 DEF Cut
  <2> QED
    BY <1>7, <2>1, <2>2, <2>3, <2>4, <2>5, <2>6, <2>7, <2>8, <2>9, <2>10, <2>11 DEF Serve
<1>8. PICK q \in Requests, op \in Operations, i \in Servers, t \in given : Use(q, op, i, t)
  BY <1>5, <1>6, <1>7 DEF Next, Tick, SetClock, Answered, vars
<1>9. ~ Verify(t, Now(i)) /\ Finish(q, "unauthorized")
  BY <1>5, <1>8 DEF Use
<1>10. q = r
  BY <1>1, <1>2, <1>9 DEF Finish, TypeOK
<1>11. req' = [req EXCEPT ![r] = [op |-> op, at |-> i, session |-> t.session, token |-> t]]
  BY <1>8, <1>10 DEF Use, Arrive
<1>12. req'[r] = [op |-> op, at |-> i, session |-> t.session, token |-> t]
  BY <1>1, <1>11 DEF TypeOK
<1> QED
  BY <1>8, <1>9, <1>10, <1>12

(***************************************************************************)
(* A token is turned away only if it has expired or was signed on a clock  *)
(* further ahead than the leeway, whatever the length of a tick, the       *)
(* lifetimes and the leeway are.                                           *)
(***************************************************************************)
THEOREM RejectionsHaveCause == Spec => UnauthorizedHasCause
<1>1. ASSUME TokensInv, [Next]_vars, NEW r \in Requests,
             reply[r] = NULL, reply'[r] = "unauthorized"
      PROVE  \/ req'[r].token.exp <= Now(req'[r].at)
             \/ req'[r].token.skew - offset[req'[r].at] > Leeway * TicksPerSecond
  <2>1. PICK op \in Operations, i \in Servers, t \in given :
          /\ ~ Verify(t, Now(i)) /\ req'[r].at = i /\ req'[r].token = t
    BY <1>1, OnlyUseRejects
  <2> QED
    BY <1>1, <2>1, RejectionCause
<1>2. TokensInv /\ [Next]_vars =>
        [\A r \in Requests :
           reply[r] = NULL /\ reply'[r] = "unauthorized" =>
             LET t == req'[r].token
                 i == req'[r].at
             IN \/ t.exp <= Now(i)
                \/ t.skew - offset[i] > Leeway * TicksPerSecond]_vars
  BY <1>1
<1> QED
  BY <1>2, TokensInductive, PTL DEF Spec, UnauthorizedHasCause

-----------------------------------------------------------------------------
(***************************************************************************)
(* How long a token outlives its session, for any lifetimes and clocks.    *)
(***************************************************************************)
\* The bound on one request.
AdmittedInTime(r) ==
  admittedAt[r] # NULL /\ endedAt[req[r].session] # NULL =>
    admittedAt[r] < endedAt[req[r].session] + AccessTTL * TicksPerSecond + Spread

\* Spread is what two clocks can differ by.
LEMMA SpreadBounds ==
  /\ Spread \in Nat
  /\ \A a, b \in Offsets : a - b <= Spread
<1>1. PICK low, high \in Offsets : \A o \in Offsets : low <= o /\ o <= high
  BY SpreadAssumption
<1>2. /\ Max(Offsets) \in Offsets /\ \A o \in Offsets : Max(Offsets) >= o
      /\ Min(Offsets) \in Offsets /\ \A o \in Offsets : Min(Offsets) =< o
  <2>1. \E x \in Offsets : \A y \in Offsets : x >= y
    BY <1>1, OffsetsAssumption
  <2>2. \E x \in Offsets : \A y \in Offsets : x =< y
    BY <1>1
  <2> QED
    BY <2>1, <2>2 DEF Max, Min
<1> DEFINE high2 == Max(Offsets)
           low2 == Min(Offsets)
<1>3. /\ high2 \in Int /\ low2 \in Int /\ high2 >= low2
      /\ \A o \in Offsets : o \in Int /\ o <= high2 /\ low2 <= o
  BY <1>2, OffsetsAssumption
<1>4. Spread = high2 - low2
  BY DEF Spread
<1> HIDE DEF high2, low2
<1> QED
  BY <1>3, <1>4

\* A verified token was signed no longer ago than it lasts, give or take what
\* two clocks differ.
LEMMA AdmissionBound ==
  ASSUME TypeOK, NEW i \in Servers, NEW t \in Token, NEW e \in Nat,
         Brief(t), Verify(t, Now(i)), t.iat * TicksPerSecond <= e + t.skew
  PROVE  clock < e + AccessTTL * TicksPerSecond + Spread
<1> DEFINE now == Now(i)
           n == TicksPerSecond
           off == offset[i]
           skew == t.skew
<1>1. /\ now \in Int /\ clock + off < (now + 1) * n
      /\ n \in Nat /\ n > 0 /\ AccessTTL \in Nat /\ clock \in Nat
  BY NowInt, ClocksInt
<1>2. /\ t.iat \in Int /\ t.exp \in Int /\ t.exp > now /\ t.exp <= t.iat + AccessTTL
      /\ t.iat * n <= e + skew
  BY DEF Token, Verify, Brief
<1>3. off \in Offsets /\ skew \in Offsets /\ off \in Int /\ skew \in Int
  BY OffsetsAssumption DEF Brief, TypeOK
<1>4. skew - off <= Spread /\ Spread \in Nat
  BY <1>3, SpreadBounds
<1> HIDE DEF now, n, off, skew
<1>5. PICK a \in Nat : t.iat + AccessTTL = now + 1 + a
  <2>1. t.iat + AccessTTL - (now + 1) \in Nat
    BY <1>1, <1>2
  <2>2. t.iat + AccessTTL = now + 1 + (t.iat + AccessTTL - (now + 1))
    BY <1>1, <1>2
  <2> QED
    BY <2>1, <2>2
<1>6. t.iat * n + AccessTTL * n = (now + 1) * n + a * n
  <2>1. (t.iat + AccessTTL) * n = (now + 1 + a) * n
    BY <1>5
  <2>2. (t.iat + AccessTTL) * n = t.iat * n + AccessTTL * n
    BY <1>1, <1>2
  <2>3. (now + 1 + a) * n = (now + 1) * n + a * n
    BY <1>1
  <2> QED
    BY <2>1, <2>2, <2>3
<1>7. /\ a * n \in Nat /\ AccessTTL * n \in Int /\ (now + 1) * n \in Int
      /\ t.iat * n \in Int
  BY <1>1, <1>2
<1>8. clock < e + AccessTTL * n + Spread
  BY <1>1, <1>2, <1>3, <1>4, <1>6, <1>7
<1> QED
  BY <1>8 DEF n

\* An end dated now is in time for whoever has been admitted.
LEMMA EndedNow ==
  ASSUME TypeOK, NEW a \in Nat, a <= clock
  PROVE  a < clock + AccessTTL * TicksPerSecond + Spread
<1>1. /\ clock \in Nat /\ AccessTTL \in Nat /\ AccessTTL > 0
      /\ TicksPerSecond \in Nat /\ TicksPerSecond > 0 /\ Spread \in Nat
  BY ClocksInt, SpreadBounds
<1> DEFINE n == TicksPerSecond
<1> HIDE DEF n
<1>2. AccessTTL * n > 0 /\ AccessTTL * n \in Nat
  BY <1>1 DEF n
<1> QED
  BY <1>1, <1>2 DEF n

-----------------------------------------------------------------------------
\* What steps do to the times the bound is about.
EndsDatedNow ==
  \A s \in SessionIds :
    endedAt'[s] = endedAt[s] \/ (endedAt[s] = NULL /\ endedAt'[s] = clock)

FreshTokens ==
  /\ \A t \in given' \ given :
       /\ t \in Token /\ Brief(t) /\ endedAt[t.session] = NULL
       /\ t.iat * TicksPerSecond <= clock + t.skew
  /\ \A r \in Requests :
       pending'[r].token # NULL =>
         pending'[r].token = pending[r].token \/ Brief(pending'[r].token)

AdmissionKept(r) ==
  \/ admittedAt'[r] = NULL
  \/ pc'[r] # "new" /\ admittedAt'[r] = admittedAt[r] /\ req'[r] = req[r]

\* A request that is being admitted has a token in time.
NewlyAdmitted(r) ==
  /\ pc'[r] # "new" /\ admittedAt'[r] = clock /\ req'[r] # NULL
  /\ req'[r].session \in SessionIds
  /\ endedAt'[req'[r].session] # NULL =>
       clock < endedAt'[req'[r].session] + AccessTTL * TicksPerSecond + Spread

\* What the effects above mean for the bound.
LEMMA ExpiryStep ==
  ASSUME ExpiryInv, TokensInv', EndsDatedNow, FreshTokens,
         \A r \in Requests : AdmissionKept(r) \/ NewlyAdmitted(r)
  PROVE  ExpiryInv'
<1>1. TypeOK /\ TypeOK' /\ Dated
  BY DEF ExpiryInv, TokensInv
<1>2. ASSUME NEW t \in given' PROVE Brief(t)' /\ SignedInTime(t)'
  <2>1. t \in Token /\ t.session \in SessionIds
    BY <1>1, <1>2 DEF TypeOK, Token
  <2>2. Brief(t)
    BY <1>2 DEF ExpiryInv, FreshTokens
  <2>3. t.iat * TicksPerSecond <= clock + t.skew
    BY <1>1, <1>2 DEF FreshTokens, Dated
  <2>4. SignedInTime(t)'
    <3>1. CASE endedAt'[t.session] = endedAt[t.session]
      BY <1>2, <3>1 DEF ExpiryInv, FreshTokens, SignedInTime
    <3>2. CASE endedAt'[t.session] = clock
      BY <2>3, <3>2 DEF SignedInTime
    <3> QED
      BY <2>1, <3>1, <3>2 DEF EndsDatedNow
  <2> QED
    BY <2>2, <2>4 DEF Brief
<1>3. ASSUME NEW r \in Requests, pending'[r].token # NULL PROVE Brief(pending'[r].token)
  BY <1>3 DEF ExpiryInv, FreshTokens
<1>4. ASSUME NEW r \in Requests PROVE AdmittedWithToken(r)' /\ AdmittedInTime(r)'
  <2>1. CASE AdmissionKept(r)
    <3>1. SUFFICES ASSUME admittedAt'[r] # NULL
                   PROVE  AdmittedWithToken(r)' /\ AdmittedInTime(r)'
      BY DEF AdmittedWithToken, AdmittedInTime
    <3>2. /\ pc'[r] # "new" /\ admittedAt'[r] = admittedAt[r] /\ req'[r] = req[r]
          /\ admittedAt[r] # NULL /\ req[r] # NULL /\ req[r].session # NULL
      BY <2>1, <3>1 DEF AdmissionKept, ExpiryInv, AdmittedWithToken
    <3>3. req[r].session \in SessionIds
      BY <1>1, <3>2 DEF TypeOK, Request
    <3>4. admittedAt[r] \in Nat /\ admittedAt[r] <= clock
      BY <1>1, <3>2 DEF ExpiryInv, TokensInv, Staged, TypeOK
    <3>5. AdmittedInTime(r)'
      <4>1. CASE endedAt'[req[r].session] = endedAt[req[r].session]
        BY <3>2, <4>1 DEF ExpiryInv, RevokedTokensExpire, AdmittedInTime
      <4>2. CASE endedAt'[req[r].session] = clock
        BY <1>1, <3>2, <3>4, <4>2, EndedNow DEF AdmittedInTime
      <4> QED
        BY <3>3, <4>1, <4>2 DEF EndsDatedNow
    <3> QED
      BY <3>2, <3>5 DEF AdmittedWithToken
  <2>2. CASE NewlyAdmitted(r)
    <3>1. req'[r].session # NULL
      BY <2>2, OffsetsAssumption DEF NewlyAdmitted, SessionIds
    <3> QED
      BY <2>2, <3>1 DEF NewlyAdmitted, AdmittedWithToken, AdmittedInTime
  <2> QED
    BY <2>1, <2>2
<1>5. RevokedTokensExpire'
  BY <1>4 DEF RevokedTokensExpire, AdmittedInTime
<1>6. \A t \in given' : Brief(t)' /\ SignedInTime(t)'
  BY <1>2
<1>7. \A r \in Requests :
        (pending[r].token # NULL => Brief(pending[r].token))' /\ AdmittedWithToken(r)'
  BY <1>3, <1>4 DEF Brief
<1> QED
  BY <1>5, <1>6, <1>7 DEF ExpiryInv

-----------------------------------------------------------------------------
\* Most steps hand out nothing, end nothing and admit nobody.
Quiet ==
  /\ UNCHANGED <<given, endedAt, admittedAt, req>>
  /\ \A r \in Requests :
       /\ pc'[r] = "new" => pc[r] = "new"
       /\ pending'[r].token # NULL =>
            pending'[r].token = pending[r].token \/ Brief(pending'[r].token)

\* They keep the bound.
LEMMA QuietStep ==
  ASSUME ExpiryInv, TokensInv', Quiet
  PROVE  ExpiryInv'
<1>1. EndsDatedNow
  BY DEF Quiet, EndsDatedNow
<1>2. FreshTokens
  BY DEF Quiet, FreshTokens
<1>3. ASSUME NEW r \in Requests PROVE AdmissionKept(r)
  BY DEF Quiet, AdmissionKept, ExpiryInv, AdmittedWithToken
<1> QED
  BY <1>1, <1>2, <1>3, ExpiryStep

\* The answer of a request leaves nothing for a commit.
LEMMA FinishQuiet ==
  ASSUME TypeOK, NEW r \in Requests, NEW result \in Replies, Finish(r, result)
  PROVE  \A q \in Requests :
           /\ pc'[q] = "new" => pc[q] = "new"
           /\ pending'[q].token # NULL => pending'[q].token = pending[q].token
<1>1. /\ Alone(r) /\ pc'[r] = "done" /\ pending'[r] = NoCommit
  BY FinishEffect
<1> QED
  BY <1>1, NothingPending DEF Alone

\* So does a change of stage.
LEMMA GotoQuiet ==
  ASSUME TypeOK, NEW r \in Requests, NEW stage \in Stages \ {"new"}, Goto(r, stage)
  PROVE  \A q \in Requests : pc'[q] = "new" => pc[q] = "new"
BY DEF Goto, TypeOK

\* And the end of a callback, if its token is brief.
LEMMA PrepareQuiet ==
  ASSUME TypeOK, NEW r \in Requests, NEW rows, NEW closes, NEW token,
         Prepare(r, rows, closes, token), token # NULL => Brief(token)
  PROVE  \A q \in Requests :
           /\ pc'[q] = "new" => pc[q] = "new"
           /\ pending'[q].token # NULL =>
                pending'[q].token = pending[q].token \/ Brief(pending'[q].token)
<1>1. /\ pc' = [pc EXCEPT ![r] = "commit"]
      /\ pending' = [pending EXCEPT ![r] =
                       [rows |-> rows, closes |-> closes, token |-> token]]
  BY DEF Prepare, Goto
<1>2. /\ pending'[r].token = token
      /\ \A q \in Requests \ {r} : pending'[q] = pending[q]
  BY <1>1 DEF TypeOK
<1> QED
  BY <1>1, <1>2 DEF TypeOK

\* A token signed now is brief.
LEMMA SignedBrief ==
  ASSUME TypeOK, NEW i \in Servers, NEW s, NEW expiresAt \in Int
  PROVE  Brief(SignedToken(s, i, Now(i), Earlier(expiresAt, Now(i) + AccessTTL)))
<1>1. Now(i) \in Int /\ AccessTTL \in Nat /\ offset[i] \in Offsets
  BY NowInt, ClocksInt DEF TypeOK
<1> DEFINE now == Now(i)
           exp == Earlier(expiresAt, now + AccessTTL)
<1> HIDE DEF now
<1>2. exp <= now + AccessTTL
  BY <1>1 DEF Earlier, now
<1> HIDE DEF exp
<1>3. Brief(SignedToken(s, i, now, exp))
  BY <1>1, <1>2 DEF Brief, SignedToken
<1> QED
  BY <1>3 DEF exp, now

\* The steps between arrival and commit are quiet.
LEMMA ServingQuiet ==
  ASSUME ExpiryInv, NEW r \in Requests,
         \/ LockAccount(r) \/ LoginTx(r) \/ RefreshTx(r) \/ DeleteTx(r) \/ BanTx(r)
         \/ SampleLogout(r) \/ ReadMe(r) \/ CheckMe(r) \/ Cut(r)
  PROVE  Quiet
<1>1. TypeOK /\ Sound(r)
  BY InvParts DEF ExpiryInv
<1>2. /\ "ok" \in Replies /\ "refused" \in Replies /\ "internal" \in Replies
      /\ {"body", "revoke", "check"} \subseteq Stages \ {"new"}
  BY DEF Replies, Stages
<1>3. CASE LockAccount(r)
  <2>1. /\ Goto(r, "body") /\ pending' = pending
        /\ UNCHANGED <<given, endedAt, admittedAt, req>>
    BY <1>3 DEF LockAccount, database
  <2> QED
    BY <1>1, <1>2, <2>1, GotoQuiet DEF Quiet
<1>4. CASE LoginTx(r)
  <2>1. UNCHANGED <<given, endedAt, admittedAt, req>>
    BY <1>4 DEF LoginTx
  <2>2. CASE Finish(r, "refused")
    BY <1>1, <1>2, <2>1, <2>2, FinishQuiet DEF Quiet
  <2>3. CASE ~ Finish(r, "refused")
    <3> DEFINE i == req[r].at
               row == NewSession(Now(i))
               token == SignedToken(sessionSeq + 1, i, Now(i),
                                    Earlier(row.expiresAt, Now(i) + AccessTTL))
    <3>1. Prepare(r, [s \in {sessionSeq + 1} |-> row], FALSE, token)
      BY <1>4, <2>3 DEF LoginTx
    <3>2. i \in Servers
      BY <1>1, <1>4 DEF LoginTx, InBody, Sound, Known, TypeOK, Request
    <3>3. row.expiresAt \in Int
      <4>1. Now(i) \in Int /\ RefreshTTL \in Nat
        BY <1>1, <3>2, NowInt, ClocksInt
      <4> QED
        BY <4>1 DEF NewSession
    <3>4. Brief(token)
      <4> HIDE DEF i, row
      <4> QED
        BY <1>1, <3>2, <3>3, SignedBrief
    <3> HIDE DEF token, row
    <3> QED
      BY <1>1, <2>1, <3>1, <3>4, PrepareQuiet DEF Quiet
  <2> QED
    BY <2>2, <2>3
<1>5. CASE RefreshTx(r)
  <2>1. UNCHANGED <<given, endedAt, admittedAt, req>>
    BY <1>5 DEF RefreshTx, database
  <2>2. CASE Finish(r, "refused")
    BY <1>1, <1>2, <2>1, <2>2, FinishQuiet DEF Quiet
  <2>3. CASE ~ Finish(r, "refused")
    <3> DEFINE i == req[r].at
               s == req[r].session
               row == sessions[s]
               token == SignedToken(s, i, Now(i),
                                    Earlier(row.expiresAt, Now(i) + AccessTTL))
    <3>1. Prepare(r, [k \in {s} |-> sessions[k]], FALSE, token)
      BY <1>5, <2>3 DEF RefreshTx, TokenExpiry
    <3>2. i \in Servers /\ row.expiresAt \in Int
      <4>1. req[r] \in Request /\ s # NULL /\ row # NULL
        BY <1>1, <1>5 DEF RefreshTx, InBody, Sound, Known, TypeOK
      <4>2. i \in Servers /\ s \in SessionIds
        BY <4>1 DEF Request
      <4>3. row \in Row
        BY <1>1, <4>1, <4>2 DEF TypeOK
      <4> QED
        BY <4>2, <4>3 DEF Row
    <3>3. Brief(token)
      <4> HIDE DEF i, row, s
      <4> QED
        BY <1>1, <3>2, SignedBrief
    <3> HIDE DEF token
    <3> QED
      BY <1>1, <2>1, <3>1, <3>3, PrepareQuiet DEF Quiet
  <2> QED
    BY <2>2, <2>3
<1>6. CASE DeleteTx(r) \/ BanTx(r)
  <2>1. UNCHANGED <<given, endedAt, admittedAt, req>>
    BY <1>6 DEF DeleteTx, BanTx, database
  <2>2. CASE Finish(r, "refused") \/ Finish(r, "internal")
    BY <1>1, <1>2, <2>1, <2>2, FinishQuiet DEF Quiet
  <2>3. ASSUME NEW rows, Prepare(r, rows, TRUE, NULL) PROVE Quiet
    BY <1>1, <2>1, <2>3, PrepareQuiet DEF Quiet
  <2> QED
    BY <1>6, <2>2, <2>3 DEF DeleteTx, BanTx, CloseAccount
<1>7. CASE SampleLogout(r)
  <2>1. /\ Goto(r, "revoke") /\ pending' = pending
        /\ UNCHANGED <<given, endedAt, admittedAt, req>>
    BY <1>7 DEF SampleLogout, database
  <2> QED
    BY <1>1, <1>2, <2>1, GotoQuiet DEF Quiet
<1>8. CASE ReadMe(r)
  <2>1. UNCHANGED <<given, endedAt, admittedAt, req>>
    BY <1>8 DEF ReadMe, database
  <2>2. CASE Finish(r, "refused")
    BY <1>1, <1>2, <2>1, <2>2, FinishQuiet DEF Quiet
  <2>3. CASE Goto(r, "check") /\ pending' = pending
    BY <1>1, <1>2, <2>1, <2>3, GotoQuiet DEF Quiet
  <2> QED
    BY <1>8, <2>2, <2>3 DEF ReadMe
<1>9. CASE CheckMe(r) \/ Cut(r)
  <2>1. PICK result \in Replies : Finish(r, result)
    BY <1>2, <1>9 DEF CheckMe, Cut
  <2>2. UNCHANGED <<given, endedAt, admittedAt, req>>
    BY <1>9 DEF CheckMe, Cut, database
  <2> QED
    BY <1>1, <2>1, <2>2, FinishQuiet DEF Quiet
<1> QED
  BY <1>3, <1>4, <1>5, <1>6, <1>7, <1>8, <1>9

-----------------------------------------------------------------------------
\* A request that arrives without a token.
LEMMA StartExpiry ==
  ASSUME ExpiryInv, TokensInv', NEW r \in Requests, NEW op \in Operations,
         NEW i \in Servers, NEW s \in SessionIds \cup {NULL}, Start(r, op, i, s)
  PROVE  ExpiryInv'
<1>1. TypeOK /\ pc[r] = "new" /\ UNCHANGED <<given, endedAt, admittedAt>>
  BY DEF ExpiryInv, TokensInv, Start, Arrive, database
<1>2. \A q \in Requests \ {r} : req'[q] = req[q]
  BY <1>1 DEF Start, Arrive, TypeOK
<1>3. \A q \in Requests :
        /\ pc'[q] = "new" => pc[q] = "new"
        /\ pending'[q].token # NULL => pending'[q].token = pending[q].token
  <2>1. CASE Goto(r, "account") /\ pending' = pending
    <3>1. "account" \in Stages \ {"new"}
      BY DEF Stages
    <3> QED
      BY <1>1, <2>1, <3>1, GotoQuiet
  <2>2. CASE Finish(r, "refused")
    <3>1. "refused" \in Replies
      BY DEF Replies
    <3> QED
      BY <1>1, <2>2, <3>1, FinishQuiet
  <2> QED
    BY <2>1, <2>2 DEF Start
<1>4. EndsDatedNow /\ FreshTokens
  BY <1>1, <1>3 DEF EndsDatedNow, FreshTokens
<1>5. ASSUME NEW q \in Requests PROVE AdmissionKept(q)
  BY <1>1, <1>2, <1>3 DEF AdmissionKept, ExpiryInv, AdmittedWithToken
<1> QED
  BY <1>4, <1>5, ExpiryStep

\* A token that is admitted: its session ended no longer ago than the bound.
LEMMA UseExpiry ==
  ASSUME ExpiryInv, TokensInv', NEW r \in Requests, NEW op \in Operations,
         NEW i \in Servers, NEW t \in given, Use(r, op, i, t)
  PROVE  ExpiryInv'
<1>1. /\ TypeOK /\ pc[r] = "new" /\ UNCHANGED <<given, endedAt>>
      /\ req' = [req EXCEPT ![r] = [op |-> op, at |-> i, session |-> t.session, token |-> t]]
  BY DEF ExpiryInv, TokensInv, Use, Arrive, database
<1>2. /\ t \in Token /\ t.session \in SessionIds /\ Brief(t) /\ SignedInTime(t)
      /\ t.session # NULL
  <2>1. t \in Token /\ t.session \in SessionIds
    BY <1>1 DEF TypeOK, Token
  <2> QED
    BY <2>1, OffsetsAssumption DEF ExpiryInv, SessionIds
<1>3. /\ req'[r].session = t.session /\ req'[r] # NULL
      /\ \A q \in Requests \ {r} : req'[q] = req[q]
  <2> DEFINE x == [op |-> op, at |-> i, session |-> t.session, token |-> t]
  <2>1. x \in Request /\ x.session = t.session
    BY <1>2 DEF Request
  <2> HIDE DEF x
  <2>2. req' = [req EXCEPT ![r] = x]
    BY <1>1 DEF x
  <2> QED
    BY <1>1, <2>1, <2>2, RequestReal DEF TypeOK
<1>4. CASE /\ Verify(t, Now(i)) /\ admittedAt' = [admittedAt EXCEPT ![r] = clock]
           /\ Goto(r, IF op = "delete" THEN "account" ELSE "admitted")
           /\ pending' = pending
  <2>1. \A q \in Requests : pc'[q] = "new" => pc[q] = "new"
    BY <1>1, <1>4 DEF Goto, TypeOK
  <2>2. EndsDatedNow /\ FreshTokens
    BY <1>1, <1>4 DEF EndsDatedNow, FreshTokens
  <2>3. ASSUME NEW q \in Requests, q # r PROVE AdmissionKept(q)
    <3>1. admittedAt'[q] = admittedAt[q]
      BY <1>1, <1>4, <2>3 DEF TypeOK
    <3> QED
      BY <1>3, <2>1, <2>3, <3>1 DEF AdmissionKept, ExpiryInv, AdmittedWithToken
  <2>4. NewlyAdmitted(r)
    <3>1. admittedAt'[r] = clock /\ pc'[r] # "new"
      BY <1>1, <1>4 DEF TypeOK, Goto
    <3>2. ASSUME endedAt[t.session] # NULL
          PROVE  clock < endedAt[t.session] + AccessTTL * TicksPerSecond + Spread
      <4>1. endedAt[t.session] \in Nat
        BY <1>1, <1>2, <3>2 DEF TypeOK
      <4>2. t.iat * TicksPerSecond <= endedAt[t.session] + t.skew
        BY <1>2, <3>2 DEF SignedInTime
      <4> QED
        BY <1>1, <1>2, <1>4, <4>1, <4>2, AdmissionBound
    <3> QED
      BY <1>1, <1>2, <1>3, <3>1, <3>2 DEF NewlyAdmitted
  <2> QED
    BY <2>2, <2>3, <2>4, ExpiryStep
<1>5. CASE Finish(r, "unauthorized") /\ admittedAt' = admittedAt
  <2>1. \A q \in Requests :
          /\ pc'[q] = "new" => pc[q] = "new"
          /\ pending'[q].token # NULL => pending'[q].token = pending[q].token
    <3>1. "unauthorized" \in Replies
      BY DEF Replies
    <3> QED
      BY <1>1, <1>5, <3>1, FinishQuiet
  <2>2. EndsDatedNow /\ FreshTokens
    BY <1>1, <2>1 DEF EndsDatedNow, FreshTokens
  <2>3. ASSUME NEW q \in Requests PROVE AdmissionKept(q)
    BY <1>1, <1>3, <1>5, <2>1 DEF AdmissionKept, ExpiryInv, AdmittedWithToken
  <2> QED
    BY <2>2, <2>3, ExpiryStep
<1> QED
  BY <1>4, <1>5 DEF Use

\* A commit ends sessions now, and hands out tokens of sessions without an end.
LEMMA CommitExpiry ==
  ASSUME ExpiryInv, TokensInv', NEW r \in Requests, CommitWrites(r),
         NEW result \in Replies, Finish(r, result),
         given' \in {given, given \cup ({pending[r].token} \ {NULL})}
  PROVE  ExpiryInv'
<1>1. /\ TypeOK /\ Sound(r) /\ History
      /\ UNCHANGED <<req, admittedAt>>
  BY InvParts DEF ExpiryInv, CommitWrites
<1>2. /\ endedAt' = [s \in SessionIds |->
                       IF Live(sessions[s]) /\ s \in DOMAIN pending[r].rows
                            /\ ~ Live(pending[r].rows[s])
                       THEN clock ELSE endedAt[s]]
  BY DEF CommitWrites
<1>3. EndsDatedNow
  BY <1>1, <1>2 DEF EndsDatedNow, History
<1>4. \A q \in Requests :
        /\ pc'[q] = "new" => pc[q] = "new"
        /\ pending'[q].token # NULL => pending'[q].token = pending[q].token
  BY <1>1, FinishQuiet
<1>5. FreshTokens
  <2>1. ASSUME NEW t \in given' \ given
        PROVE  /\ t \in Token /\ Brief(t) /\ endedAt[t.session] = NULL
               /\ t.iat * TicksPerSecond <= clock + t.skew
    <3>1. t = pending[r].token /\ t # NULL
      BY <2>1
    <3>2. t \in Token /\ t.session \in SessionIds
      BY <1>1, <3>1 DEF TypeOK, Token
    <3>3. /\ t.session \in DOMAIN pending[r].rows
          /\ t.iat * TicksPerSecond <= clock + t.skew
      BY <1>1, <3>1 DEF Sound, Owned
    <3>4. endedAt[t.session] = NULL
      BY <1>1, <3>2, <3>3 DEF Sound, Owned, History
    <3> QED
      BY <3>1, <3>2, <3>3, <3>4 DEF ExpiryInv
  <2> QED
    BY <1>4, <2>1 DEF FreshTokens
<1>6. ASSUME NEW q \in Requests PROVE AdmissionKept(q)
  BY <1>1, <1>4 DEF AdmissionKept, ExpiryInv, AdmittedWithToken
<1> QED
  BY <1>3, <1>5, <1>6, ExpiryStep

\* Logout ends its session now.
LEMMA RevokeExpiry ==
  ASSUME ExpiryInv, TokensInv', NEW r \in Requests, RevokeSession(r)
  PROVE  ExpiryInv'
<1>1. /\ TypeOK /\ History /\ UNCHANGED <<given, req, admittedAt>>
      /\ \/ Finish(r, "ok") /\ endedAt' = endedAt
         \/ Finish(r, "internal") /\ endedAt' = endedAt
         \/ /\ Finish(r, "ok") /\ Live(sessions[req[r].session])
            /\ endedAt' = [endedAt EXCEPT ![req[r].session] = clock]
  BY InvParts DEF ExpiryInv, RevokeSession
<1>2. EndsDatedNow
  BY <1>1 DEF EndsDatedNow, History, TypeOK
<1>3. \A q \in Requests :
        /\ pc'[q] = "new" => pc[q] = "new"
        /\ pending'[q].token # NULL => pending'[q].token = pending[q].token
  <2>1. "ok" \in Replies /\ "internal" \in Replies
    BY DEF Replies
  <2> QED
    BY <1>1, <2>1, FinishQuiet
<1>4. FreshTokens
  BY <1>1, <1>3 DEF FreshTokens
<1>5. ASSUME NEW q \in Requests PROVE AdmissionKept(q)
  BY <1>1, <1>3 DEF AdmissionKept, ExpiryInv, AdmittedWithToken
<1> QED
  BY <1>2, <1>4, <1>5, ExpiryStep

\* The token of the start is brief.
LEMMA InitExpiry == Init => ExpiryInv
<1> SUFFICES ASSUME Init PROVE ExpiryInv
  OBVIOUS
<1>1. TokensInv
  BY InitTokens
<1>2. /\ \A r \in Requests : admittedAt[r] = NULL /\ pending[r].token = NULL
      /\ \A s \in SessionIds : endedAt[s] = NULL
  BY NothingPending DEF Init
<1>3. ASSUME NEW t \in given PROVE Brief(t) /\ SignedInTime(t)
  <2>1. PICK off \in Offsets :
          given = {[session |-> 1, iat |-> off \div TicksPerSecond,
                    exp |-> off \div TicksPerSecond + AccessTTL, skew |-> off]}
    BY DEF Init
  <2>2. off \div TicksPerSecond + AccessTTL \in Int
    BY OffsetsAssumption, ConfigAssumption, WholeSeconds DEF ValidAuthConfig
  <2>3. t.session = 1 /\ t.skew = off /\ t.exp = t.iat + AccessTTL
    BY <1>3, <2>1
  <2>4. t.exp <= t.iat + AccessTTL
    <3>1. t.exp = off \div TicksPerSecond + AccessTTL
      BY <1>3, <2>1
    <3> QED
      BY <2>2, <2>3, <3>1
  <2> QED
    BY <1>2, <2>3, <2>4, BoundsAssumption DEF Brief, SignedInTime, SessionIds
<1> QED
  BY <1>1, <1>2, <1>3 DEF ExpiryInv, RevokedTokensExpire, AdmittedWithToken

\* Every step keeps the bound.
LEMMA NextExpiry == ExpiryInv /\ [Next]_vars => ExpiryInv'
<1> SUFFICES ASSUME ExpiryInv, [Next]_vars PROVE ExpiryInv'
  OBVIOUS
<1>1. TokensInv /\ TokensInv'
  BY NextTokens DEF ExpiryInv
<1>2. ASSUME NEW r \in Requests, NEW op \in Operations, NEW i \in Servers,
             NEW s \in SessionIds \cup {NULL}, Start(r, op, i, s)
      PROVE  ExpiryInv'
  BY <1>1, <1>2, StartExpiry
<1>3. ASSUME NEW r \in Requests, NEW op \in Operations, NEW i \in Servers,
             NEW t \in given, Use(r, op, i, t)
      PROVE  ExpiryInv'
  BY <1>1, <1>3, UseExpiry
<1>4. ASSUME NEW r \in Requests, Serve(r) PROVE ExpiryInv'
  <2>1. ASSUME Commit(r) PROVE ExpiryInv'
    <3>1. /\ CommitWrites(r) /\ Finish(r, "ok") /\ "ok" \in Replies
          /\ given' \in {given, given \cup ({pending[r].token} \ {NULL})}
      BY <2>1 DEF Commit, Replies
    <3> QED
      BY <1>1, <3>1, CommitExpiry
  <2>2. ASSUME CommitUnconfirmed(r) PROVE ExpiryInv'
    <3>1. /\ CommitWrites(r) /\ Finish(r, "internal") /\ "internal" \in Replies
          /\ given' \in {given, given \cup ({pending[r].token} \ {NULL})}
      BY <2>2 DEF CommitUnconfirmed, Replies
    <3> QED
      BY <1>1, <3>1, CommitExpiry
  <2>3. ASSUME RevokeSession(r) PROVE ExpiryInv'
    BY <1>1, <2>3, RevokeExpiry
  <2>4. ASSUME \/ LockAccount(r) \/ LoginTx(r) \/ RefreshTx(r) \/ DeleteTx(r) \/ BanTx(r)
               \/ SampleLogout(r) \/ ReadMe(r) \/ CheckMe(r) \/ Cut(r)
        PROVE  ExpiryInv'
    BY <1>1, <2>4, ServingQuiet, QuietStep
  <2> QED
    BY <1>4, <2>1, <2>2, <2>3, <2>4 DEF Serve
<1>5. CASE Tick \/ (\E i \in Servers : SetClock(i)) \/ UNCHANGED vars
  <2>1. UNCHANGED <<given, endedAt, admittedAt, req, pc, pending>>
    BY <1>5 DEF Tick, SetClock, vars, database
  <2>2. Quiet
    BY <2>1 DEF Quiet
  <2> QED
    BY <1>1, <2>2, QuietStep
<1> QED
  BY <1>2, <1>3, <1>4, <1>5 DEF Next, Answered

(***************************************************************************)
(* The middleware never admits a token later than AccessTTL, and what two  *)
(* clocks can differ by, after its session was revoked.                    *)
(***************************************************************************)
THEOREM RevokedTokensRunOut == Spec => []RevokedTokensExpire
<1>1. Spec => []ExpiryInv
  BY InitExpiry, NextExpiry, PTL DEF Spec
<1>2. ExpiryInv => RevokedTokensExpire
  BY DEF ExpiryInv
<1> QED
  BY <1>1, <1>2, PTL
=============================================================================
