---------------------------- MODULE LockingProofs ----------------------------
(***************************************************************************)
(* Proofs about waiting, for any number of accounts, sessions, requests    *)
(* and connections: requests never wait for row locks in a circle, and the *)
(* pool of connections does not add a circle of its own.                   *)
(***************************************************************************)
EXTENDS PooledService, IdentityHistoryProofs, FiniteSetTheorems, WellFoundedInduction

(***************************************************************************)
(* A finite set of integers that is not empty has a greatest element: the  *)
(* sets of the elements above each of its members cannot shrink for ever.  *)
(***************************************************************************)
LEMMA Greatest ==
  ASSUME NEW D \in SUBSET Int, IsFiniteSet(D), NEW X \in SUBSET D, X # {}
  PROVE  \E m \in X : \A n \in X : ~ (m < n)
<1> DEFINE Above(x) == {d \in D : x < d}
           Aboves == {Above(x) : x \in X}
<1>1. IsWellFoundedOn(StrictSubsetOrdering(D), SUBSET D)
  BY FS_StrictSubsetOrderingWellFounded, FS_FiniteSubsetsOfFinite
<1>2. Aboves \subseteq SUBSET D /\ Aboves # {} OBVIOUS
<1>3. PICK least \in Aboves : \A other \in Aboves : ~ (<<other, least>> \in StrictSubsetOrdering(D))
  <2> HIDE DEF Aboves
  <2> QED BY <1>1, <1>2, WFMin
<1>4. PICK m \in X : least = Above(m) OBVIOUS
<1>5. ASSUME NEW n \in X, m < n PROVE FALSE
  <2>0. m \in Int /\ n \in Int OBVIOUS
  <2>1. Above(n) \subseteq Above(m)
    <3>1. ASSUME NEW d \in D, n < d PROVE m < d BY <1>5, <2>0, <3>1
    <3> QED BY <3>1
  <2>2. n \in Above(m) /\ n \notin Above(n) BY <1>5
  <2>3. <<Above(n), Above(m)>> \in StrictSubsetOrdering(D)
    BY <2>1, <2>2 DEF StrictSubsetOrdering
  <2> QED BY <1>3, <1>4, <2>3
<1> QED BY <1>5

-----------------------------------------------------------------------------
(***************************************************************************)
(* The order of the locks.  No request is ever given the lock of another   *)
(* one, or gains a lock by what another one does.                          *)
(***************************************************************************)
LocksApart(r) ==
  \A q \in Requests \ {r} :
    /\ pc'[q] = pc[q] /\ req'[q] = req[q] /\ want'[q] = want[q]
    /\ \A u \in Users : userLock'[u] = q <=> userLock[u] = q
    /\ \A s \in SessionIds : sessionLock'[s] = q <=> sessionLock[s] = q

\* The order of the locks of one request survives the steps of the others.
LEMMA OrderOfOthers ==
  ASSUME NEW r \in Requests, NEW q \in Requests, q # r, LocksApart(r), LocksOrdered(q)
  PROVE  LocksOrdered(q)'
<1>1. /\ pc'[q] = pc[q] /\ req'[q] = req[q] /\ want'[q] = want[q]
      /\ HeldUsers(q)' = HeldUsers(q) /\ HeldSessions(q)' = HeldSessions(q)
  BY DEF LocksApart, HeldUsers, HeldSessions
<1>2. UsersToLock(q)' = UsersToLock(q) BY <1>1 DEF UsersToLock, LockedAccounts
<1> QED BY <1>1, <1>2 DEF LocksOrdered

\* An answered request holds no lock.
LEMMA OrderAfterFinish ==
  ASSUME TypeOK, NEW r \in Requests, NEW result, Finish(r, result),
         \A q \in Requests \ {r} : req'[q] = req[q]
  PROVE  LocksApart(r) /\ LocksOrdered(r)'
<1>1. NULL \notin Requests BY RequestsAssumption
<1>2. LocksApart(r)
  BY <1>1 DEF LocksApart, Finish, Goto, ReleaseLocks, TypeOK, StoreTypeOK
<1>3. pc'[r] = "done" BY DEF Finish, Goto, TypeOK
<1>4. HeldUsers(r)' = {} /\ HeldSessions(r)' = {}
  BY <1>1 DEF HeldUsers, HeldSessions, Finish, ReleaseLocks, TypeOK, StoreTypeOK
<1> QED BY <1>2, <1>3, <1>4 DEF LocksOrdered

\* A request that goes on without touching a lock, where it holds none or is
\* past the accounts, keeps the order.
LEMMA OrderAfterGoto ==
  ASSUME TypeOK, NEW r \in Requests, LocksOrdered(r), NEW stage, Goto(r, stage),
         userLock' = userLock, sessionLock' = sessionLock, want' = want,
         \A q \in Requests \ {r} : req'[q] = req[q],
         \/ /\ pc[r] \in {"new", "check"} /\ stage \in {"check", "users", "revoke"}
            /\ stage = "revoke" => req'[r].session \in SessionIds
         \/ pc[r] = "body" /\ stage = "commit"
  PROVE  LocksApart(r) /\ LocksOrdered(r)'
<1>1. pc' = [pc EXCEPT ![r] = stage] /\ pc'[r] = stage BY DEF Goto, TypeOK
<1>2. LocksApart(r) BY <1>1 DEF LocksApart, TypeOK
<1>3. HeldUsers(r)' = HeldUsers(r) /\ HeldSessions(r)' = HeldSessions(r)
  BY DEF HeldUsers, HeldSessions
<1> QED BY <1>1, <1>2, <1>3 DEF LocksOrdered

\* Requests that arrive, refused at once or not, hold no lock.
LEMMA OrderStart ==
  ASSUME TypeOK, NEW r \in Requests, LocksOrdered(r), Start(r)
  PROVE  LocksApart(r) /\ LocksOrdered(r)'
<1> DEFINE Good == LocksApart(r) /\ LocksOrdered(r)'
<1>1. ASSUME NEW input, Arrive(r, input)
      PROVE  pc[r] = "new" /\ \A q \in Requests \ {r} : req'[q] = req[q]
  BY <1>1 DEF Arrive, TypeOK
<1>2. ASSUME NEW input, Arrive(r, input), NEW result, Finish(r, result) PROVE Good
  BY <1>1, <1>2, OrderAfterFinish
<1>3. ASSUME NEW input, Arrive(r, input), NEW stage \in {"check", "users", "revoke"},
             Goto(r, stage), locks' = locks, want' = want,
             stage = "revoke" => input.session \in SessionIds
      PROVE  Good
  <2>1. req'[r] = input BY <1>3 DEF Arrive, TypeOK
  <2> QED BY <1>1, <1>3, <2>1, OrderAfterGoto DEF locks
<1>4. ASSUME NEW u, StartLogin(r, u) PROVE Good
  BY <1>2, <1>3, <1>4 DEF StartLogin, working
<1>5. ASSUME NEW u, StartPublicUser(r, u) PROVE Good
  BY <1>3, <1>5 DEF StartPublicUser
<1>6. ASSUME NEW s, NEW secret, StartRefresh(r, s, secret) PROVE Good
  BY <1>2, <1>3, <1>6 DEF StartRefresh, working
<1>7. ASSUME NEW u, NEW s \in SessionIds, StartLogout(r, u, s) PROVE Good
  <2>1. Input("logout", u, s).session = s BY DEF Input
  <2> QED BY <1>3, <1>7, <2>1 DEF StartLogout
<1>8. ASSUME NEW u, NEW s, StartMe(r, u, s) PROVE Good
  BY <1>2, <1>3, <1>8 DEF StartMe
<1>9. ASSUME NEW op, NEW u, NEW s, StartProfileTx(r, op, u, s) PROVE Good
  BY <1>3, <1>9 DEF StartProfileTx, working
<1>10. ASSUME NEW u, NEW s, NEW target, NEW status, NEW until,
              StartChangeUserStatus(r, u, s, target, status, until)
       PROVE  Good
  <2>1. PICK input : Arrive(r, input) BY <1>10 DEF StartChangeUserStatus
  <2> QED BY <1>3, <1>10, <2>1 DEF StartChangeUserStatus, working
<1> QED BY <1>4, <1>5, <1>6, <1>7, <1>8, <1>9, <1>10 DEF Start

\* LockUsers takes the smallest account that is missing.
LEMMA OrderLockUser ==
  ASSUME TypeOK, NEW r \in Requests, LocksOrdered(r), NEW u \in Users, LockUser(r, u)
  PROVE  LocksApart(r) /\ LocksOrdered(r)'
<1>1. /\ pc[r] = "users" /\ u \in UsersToLock(r) /\ \A v \in UsersToLock(r) : u <= v
      /\ userLock[u] = NULL /\ userLock' = [userLock EXCEPT ![u] = r]
      /\ sessionLock' = sessionLock /\ req' = req /\ want' = want
  BY DEF LockUser, TakeUserLock, working
<1>2. /\ pc' = [pc EXCEPT ![r] = pc'[r]]
      /\ pc'[r] \in {"users", "body", "select"}
  BY DEF LockUser, Goto, TypeOK
<1>3. LocksApart(r)
  BY <1>1, <1>2, RequestsAssumption DEF LocksApart, TypeOK, StoreTypeOK
<1>4. HeldUsers(r)' = HeldUsers(r) \cup {u} /\ HeldSessions(r)' = HeldSessions(r)
  BY <1>1 DEF HeldUsers, HeldSessions, TypeOK, StoreTypeOK
<1>5. UsersToLock(r)' = UsersToLock(r) \ {u}
  BY <1>1, <1>4 DEF UsersToLock, LockedAccounts
<1>6. ASSUME NEW held \in HeldUsers(r)', NEW v \in UsersToLock(r)' PROVE held < v
  <2>1. v \in UsersToLock(r) /\ v # u BY <1>5
  <2>2. CASE held \in HeldUsers(r) BY <1>1, <2>1, <2>2 DEF LocksOrdered
  <2>3. CASE held = u
    <3>1. v \in Users BY <2>1 DEF UsersToLock, LockedAccounts, TypeOK, Request
    <3>2. u \in Nat /\ v \in Nat BY <3>1, UsersAssumption
    <3> QED BY <1>1, <2>1, <2>3, <3>2
  <2> QED BY <1>4, <2>2, <2>3
<1> QED BY <1>1, <1>2, <1>3, <1>4, <1>6 DEF LocksOrdered

\* LockSessions begins without the lock of any session.
LEMMA OrderSelect ==
  ASSUME TypeOK, NEW r \in Requests, LocksOrdered(r), SelectSessions(r)
  PROVE  LocksApart(r) /\ LocksOrdered(r)'
<1>1. /\ pc[r] = "select" /\ userLock' = userLock /\ sessionLock' = sessionLock
      /\ req' = req
      /\ \A q \in Requests \ {r} : want'[q] = want[q]
  BY DEF SelectSessions, locks, TypeOK
<1>2. pc' = [pc EXCEPT ![r] = pc'[r]] /\ pc'[r] \in {"sessions", "body"}
  BY DEF SelectSessions, Goto, TypeOK
<1>3. LocksApart(r) BY <1>1, <1>2 DEF LocksApart, TypeOK
<1>4. HeldSessions(r)' = {} BY <1>1 DEF HeldSessions, LocksOrdered
<1> QED BY <1>2, <1>3, <1>4 DEF LocksOrdered

\* LockSessions takes the smallest session that is missing.
LEMMA OrderLockSession ==
  ASSUME TypeOK, NEW r \in Requests, LocksOrdered(r), NEW s \in SessionIds, LockSession(r, s)
  PROVE  LocksApart(r) /\ LocksOrdered(r)'
<1>1. /\ pc[r] = "sessions" /\ s \in want[r] /\ \A t \in want[r] : s <= t
      /\ sessionLock[s] = NULL /\ sessionLock' = [sessionLock EXCEPT ![s] = r]
      /\ userLock' = userLock /\ req' = req /\ want' = [want EXCEPT ![r] = @ \ {s}]
  BY DEF LockSession, TakeSessionLock
<1>2. pc' = [pc EXCEPT ![r] = pc'[r]] /\ pc'[r] \in {"sessions", "body"}
  BY DEF LockSession, Goto, TypeOK
<1>3. LocksApart(r)
  BY <1>1, <1>2, RequestsAssumption DEF LocksApart, TypeOK, StoreTypeOK
<1>4. HeldSessions(r)' = HeldSessions(r) \cup {s} /\ want'[r] = want[r] \ {s}
  BY <1>1 DEF HeldSessions, TypeOK, StoreTypeOK
<1>5. ASSUME NEW held \in HeldSessions(r)', NEW t \in want'[r] PROVE held < t
  <2>1. t \in want[r] /\ t # s BY <1>4
  <2>2. CASE held \in HeldSessions(r) BY <1>1, <2>1, <2>2 DEF LocksOrdered
  <2>3. CASE held = s
    <3>1. s \in Int /\ t \in Int BY <2>1 DEF TypeOK, SessionIds
    <3> QED BY <1>1, <2>1, <2>3, <3>1
  <2> QED BY <1>4, <2>2, <2>3
<1> QED BY <1>2, <1>3, <1>5 DEF LocksOrdered

\* A callback refuses, or leaves its writes to the commit.
LEMMA OrderBody ==
  ASSUME TypeOK, NEW r \in Requests, LocksOrdered(r), Body(r)
  PROVE  LocksApart(r) /\ LocksOrdered(r)'
<1>1. pc[r] = "body" /\ req' = req
  BY DEF Body, LoginTx, RefreshTx, RecoverTx, UpdateMeTx, DeleteMeTx, ChangeUserStatusTx, InBody
<1>2. \/ Finish(r, "refused")
      \/ Goto(r, "commit") /\ userLock' = userLock /\ sessionLock' = sessionLock /\ want' = want
  BY DEF Body, LoginTx, RefreshTx, RecoverTx, UpdateMeTx, DeleteMeTx, ChangeUserStatusTx,
         Refuse, Prepare, locks
<1> QED BY <1>1, <1>2, OrderAfterFinish, OrderAfterGoto

\* Every step of a request keeps the order of its locks.
LEMMA OrderStep ==
  ASSUME TypeOK, NEW r \in Requests, LocksOrdered(r),
         Start(r) \/ Serve(r) \/ CommitUnconfirmed(r) \/ RevokeUnconfirmed(r) \/ Cut(r)
  PROVE  LocksApart(r) /\ LocksOrdered(r)'
<1>1. CASE CheckSeen(r)
  <2>1. pc[r] = "check" /\ req' = req BY <1>1 DEF CheckSeen
  <2>2. \/ \E result : Finish(r, result)
        \/ Goto(r, "users") /\ userLock' = userLock /\ sessionLock' = sessionLock /\ want' = want
    BY <1>1 DEF CheckSeen, locks
  <2> QED BY <2>1, <2>2, OrderAfterFinish, OrderAfterGoto
<1>2. CASE Commit(r) \/ CommitUnconfirmed(r) \/ RevokeSession(r) \/ RevokeUnconfirmed(r) \/ Cut(r)
  <2>1. req' = req /\ \E result : Finish(r, result)
    BY <1>2 DEF Commit, CommitUnconfirmed, RevokeSession, RevokeUnconfirmed, RevokeRow, Cut
  <2> QED BY <2>1, OrderAfterFinish
<1> QED BY <1>1, <1>2, OrderStart, OrderLockUser, OrderSelect, OrderLockSession, OrderBody
        DEF Serve

\* The order of the locks is kept by every step of the service.
LEMMA LockOrderStep == TypeOK /\ LockOrder /\ [Next]_vars => LockOrder'
<1> SUFFICES ASSUME TypeOK, LockOrder, [Next]_vars PROVE LockOrder' OBVIOUS
<1>1. ASSUME NEW r \in Requests,
             Start(r) \/ Serve(r) \/ CommitUnconfirmed(r) \/ RevokeUnconfirmed(r) \/ Cut(r)
      PROVE  LockOrder'
  <2>1. LocksApart(r) /\ LocksOrdered(r)' BY <1>1, OrderStep DEF LockOrder
  <2>2. ASSUME NEW q \in Requests, q # r PROVE LocksOrdered(q)'
    BY <2>1, <2>2, OrderOfOthers DEF LockOrder
  <2> QED BY <2>1, <2>2 DEF LockOrder
<1>2. CASE Tick \/ Answered \/ UNCHANGED vars
  BY <1>2 DEF Tick, Answered, vars, locks, working, LockOrder, LocksOrdered, HeldUsers,
              HeldSessions, UsersToLock, LockedAccounts
<1> QED BY <1>1, <1>2 DEF Next

\* No lock is held at the start.
LEMMA LockOrderInit == Init => LockOrder
<1> SUFFICES ASSUME Init, NEW r \in Requests PROVE LocksOrdered(r) BY DEF LockOrder
<1>1. pc[r] = "new" /\ HeldUsers(r) = {} /\ HeldSessions(r) = {}
  BY RequestsAssumption DEF Init, HeldUsers, HeldSessions
<1> QED BY <1>1 DEF LocksOrdered

-----------------------------------------------------------------------------
(***************************************************************************)
(* No circle of waiters.  Whoever waits holds back only requests that have *)
(* begun to lock, and a wait for a session only those that are past their  *)
(* accounts.                                                               *)
(***************************************************************************)
LEMMA Holder ==
  ASSUME TypeOK, LockOrder, NEW q \in Requests, NEW r \in Requests, WaitsFor(q, r)
  PROVE  /\ pc[q] \in {"users", "sessions", "revoke"}
         /\ pc[r] \notin {"new", "check", "revoke", "done"}
         /\ pc[q] # "users" => pc[r] # "users"
<1>1. LocksOrdered(q) /\ LocksOrdered(r) BY DEF LockOrder
<1>2. CASE pc[q] = "users"
  <2>1. PICK u \in UsersToLock(q) : userLock[u] = r BY <1>2 DEF WaitsFor
  <2>2. u \in HeldUsers(r)
    BY <2>1 DEF UsersToLock, LockedAccounts, TypeOK, Request, HeldUsers
  <2> QED BY <1>1, <1>2, <2>2 DEF LocksOrdered
<1>3. CASE pc[q] \in {"sessions", "revoke"}
  <2>1. PICK s \in SessionIds : sessionLock[s] = r
    BY <1>1, <1>3 DEF WaitsFor, LocksOrdered, TypeOK
  <2>2. s \in HeldSessions(r) BY <2>1 DEF HeldSessions
  <2> QED BY <1>1, <1>3, <2>2 DEF LocksOrdered
<1> QED BY <1>2, <1>3 DEF WaitsFor

\* Along a circle of waiters the rows waited for would rise for ever.
LEMMA NoCircle ==
  ASSUME TypeOK, LockOrder
  PROVE  NoDeadlock
<1> SUFFICES ASSUME NEW S \in SUBSET Requests, S # {}, \A q \in S : \E r \in S : WaitsFor(q, r)
             PROVE  FALSE
  BY DEF NoDeadlock
<1>1. CASE \E q \in S : pc[q] = "sessions"
  <2> DEFINE Awaits(q, s) == s \in want[q] /\ \A t \in want[q] : s <= t
             X == {s \in SessionIds : \E q \in S : pc[q] = "sessions" /\ Awaits(q, s)}
  <2>1. ASSUME NEW q \in S, pc[q] = "sessions"
        PROVE  \E s \in SessionIds, r \in S :
                 Awaits(q, s) /\ sessionLock[s] = r /\ pc[r] = "sessions"
    <3>1. PICK r \in S : WaitsFor(q, r) OBVIOUS
    <3>2. pc[r] \in {"users", "sessions", "revoke"}
      <4>1. PICK other \in S : WaitsFor(r, other) OBVIOUS
      <4> QED BY <4>1, Holder
    <3>3. pc[r] = "sessions" BY <2>1, <3>1, <3>2, Holder
    <3>4. PICK s \in want[q] : Awaits(q, s) /\ sessionLock[s] = r
      BY <2>1, <3>1 DEF WaitsFor
    <3> QED BY <3>3, <3>4 DEF TypeOK
  <2>2. X # {} BY <1>1, <2>1
  <2>3. IsFiniteSet(SessionIds) /\ SessionIds \subseteq Int
    BY FS_Interval, MaxSessionsAssumption DEF SessionIds
  <2>4. PICK m \in X : \A n \in X : ~ (m < n)
    <3> HIDE DEF X
    <3>1. X \subseteq SessionIds BY DEF X
    <3> QED BY <2>2, <2>3, <3>1, Greatest
  <2>5. PICK q \in S : pc[q] = "sessions" /\ Awaits(q, m) OBVIOUS
  <2>6. PICK s \in SessionIds, r \in S :
          Awaits(q, s) /\ sessionLock[s] = r /\ pc[r] = "sessions"
    BY <2>1, <2>5
  <2>7. s = m BY <2>3, <2>5, <2>6
  <2>8. PICK n \in SessionIds : Awaits(r, n) BY <2>1, <2>6
  <2>9. m < n BY <2>6, <2>7, <2>8 DEF LockOrder, LocksOrdered, HeldSessions
  <2> QED BY <2>4, <2>6, <2>8, <2>9
<1>2. CASE ~ \E q \in S : pc[q] = "sessions"
  <2> DEFINE Awaits(q, u) == u \in UsersToLock(q) /\ \A v \in UsersToLock(q) : u <= v
             X == {u \in Users : \E q \in S : Awaits(q, u)}
  <2>0. \A q \in S : UsersToLock(q) \subseteq Users
    BY DEF UsersToLock, LockedAccounts, TypeOK, Request
  <2>1. \A q \in S : pc[q] = "users"
    <3>1. ASSUME NEW q \in S PROVE pc[q] \in {"users", "revoke"}
      <4>1. PICK r \in S : WaitsFor(q, r) OBVIOUS
      <4> QED BY <1>2, <4>1, Holder
    <3>2. ASSUME NEW q \in S PROVE pc[q] # "revoke"
      <4>1. PICK r \in S : WaitsFor(q, r) OBVIOUS
      <4>2. pc[r] \in {"users", "revoke"} BY <3>1
      <4> QED BY <4>1, <4>2, Holder
    <3> QED BY <3>1, <3>2
  <2>2. ASSUME NEW q \in S
        PROVE  \E u \in Users, r \in S : Awaits(q, u) /\ userLock[u] = r
    <3>1. PICK r \in S : WaitsFor(q, r) OBVIOUS
    <3>2. PICK u \in UsersToLock(q) : Awaits(q, u) /\ userLock[u] = r
      BY <2>1, <3>1 DEF WaitsFor
    <3> QED BY <2>0, <3>2
  <2>3. X # {} BY <2>2
  <2>4. PICK m \in X : \A n \in X : ~ (m < n)
    <3> HIDE DEF X
    <3>1. X \subseteq Users BY DEF X
    <3>2. Users \subseteq Int BY UsersAssumption
    <3> QED BY <2>3, <3>1, <3>2, AccountsAssumption, Greatest
  <2>5. PICK q \in S : Awaits(q, m) OBVIOUS
  <2>6. PICK u \in Users, r \in S : Awaits(q, u) /\ userLock[u] = r BY <2>2
  <2>7. u = m
    <3>1. u \in Int /\ m \in Int BY UsersAssumption
    <3> QED BY <2>5, <2>6, <3>1
  <2>8. PICK n \in Users : Awaits(r, n) BY <2>2
  <2>9. m < n BY <2>1, <2>6, <2>7, <2>8 DEF LockOrder, LocksOrdered, HeldUsers
  <2> QED BY <2>4, <2>8, <2>9
<1> QED BY <1>1, <1>2

(***************************************************************************)
(* Requests never wait for each other's row locks in a circle, whatever    *)
(* accounts and sessions they lock: LockUsers and LockSessions sort their  *)
(* ids, and every transaction locks its accounts before its sessions.      *)
(***************************************************************************)
THEOREM DeadlockFree == Spec => []NoDeadlock
<1>1. TypeOK /\ LockOrder => NoDeadlock BY NoCircle
<1> QED BY <1>1, LockOrderInit, LockOrderStep, TypeCorrect, PTL DEF Spec

-----------------------------------------------------------------------------
(***************************************************************************)
(* The pool.  A row lock is taken only by a request that has a statement   *)
(* under way, and serving a request never brings it back to its beginning. *)
(***************************************************************************)
Serving(r) == Serve(r) \/ CommitUnconfirmed(r) \/ RevokeUnconfirmed(r) \/ Cut(r)

NewLocks(r) ==
  /\ \A u \in Users :
       \/ userLock'[u] = NULL \/ userLock'[u] = userLock[u]
       \/ userLock'[u] = r /\ InDatabase(r)
  /\ \A s \in SessionIds :
       \/ sessionLock'[s] = NULL \/ sessionLock'[s] = sessionLock[s]
       \/ sessionLock'[s] = r /\ InDatabase(r)

\* A request that starts or leaves takes no lock.
LEMMA StartLocks ==
  ASSUME TypeOK, NEW r \in Requests, Start(r) \/ \E result : Finish(r, result)
  PROVE  NewLocks(r)
<1>1. CASE \E result : Finish(r, result)
  BY <1>1 DEF NewLocks, Finish, ReleaseLocks, TypeOK, StoreTypeOK
<1>2. CASE Start(r)
  <2>1. (\E result : Finish(r, result)) \/ (userLock' = userLock /\ sessionLock' = sessionLock)
    BY <1>2 DEF Start, StartLogin, StartPublicUser, StartRefresh, StartLogout, StartMe,
                StartProfileTx, StartChangeUserStatus, locks
  <2> QED BY <1>1, <2>1 DEF NewLocks
<1> QED BY <1>1, <1>2

\* What a step that serves a request does to locks and to the stage it is in.
LEMMA ServingLocks ==
  ASSUME TypeOK, NEW r \in Requests, Serving(r)
  PROVE  /\ NewLocks(r)
         /\ pc[r] # "new" /\ pc'[r] \notin {"new", "check"}
<1> DEFINE Good == NewLocks(r) /\ pc[r] # "new" /\ pc'[r] \notin {"new", "check"}
<1>1. ASSUME NEW result, Finish(r, result), pc[r] # "new" PROVE Good
  <2>1. pc'[r] = "done" BY <1>1 DEF Finish, Goto, TypeOK
  <2> QED BY <1>1, <2>1, StartLocks
<1>2. ASSUME NEW stage \in {"users", "commit"}, Goto(r, stage), pc[r] # "new",
             userLock' = userLock, sessionLock' = sessionLock
      PROVE  Good
  BY <1>2 DEF Goto, TypeOK, NewLocks
<1>3. CASE CheckSeen(r) BY <1>1, <1>2, <1>3 DEF CheckSeen, locks
<1>4. ASSUME NEW u \in Users, LockUser(r, u) PROVE Good
  <2>1. /\ userLock' = [userLock EXCEPT ![u] = r] /\ sessionLock' = sessionLock
        /\ pc[r] = "users" /\ pc'[r] \in {"users", "body", "select"}
    BY <1>4 DEF LockUser, TakeUserLock, Goto, TypeOK
  <2> QED BY <2>1 DEF NewLocks, InDatabase, TypeOK, StoreTypeOK
<1>5. CASE SelectSessions(r)
  BY <1>5 DEF SelectSessions, locks, Goto, TypeOK, NewLocks
<1>6. ASSUME NEW s \in SessionIds, LockSession(r, s) PROVE Good
  <2>1. /\ sessionLock' = [sessionLock EXCEPT ![s] = r] /\ userLock' = userLock
        /\ pc[r] = "sessions" /\ pc'[r] \in {"sessions", "body"}
    BY <1>6 DEF LockSession, TakeSessionLock, Goto, TypeOK
  <2> QED BY <2>1 DEF NewLocks, InDatabase, TypeOK, StoreTypeOK
<1>7. CASE Body(r)
  <2>1. pc[r] = "body"
    BY <1>7 DEF Body, LoginTx, RefreshTx, RecoverTx, UpdateMeTx, DeleteMeTx,
                ChangeUserStatusTx, InBody
  <2>2. \/ Finish(r, "refused")
        \/ Goto(r, "commit") /\ userLock' = userLock /\ sessionLock' = sessionLock
    BY <1>7 DEF Body, LoginTx, RefreshTx, RecoverTx, UpdateMeTx, DeleteMeTx,
                ChangeUserStatusTx, Refuse, Prepare, locks
  <2> QED BY <1>1, <1>2, <2>1, <2>2
<1>8. CASE Commit(r) \/ CommitUnconfirmed(r) \/ RevokeSession(r) \/ RevokeUnconfirmed(r) \/ Cut(r)
  <2>1. pc[r] # "new" /\ \E result : Finish(r, result)
    BY <1>8 DEF Commit, CommitUnconfirmed, RevokeSession, RevokeUnconfirmed, RevokeRow, Cut
  <2> QED BY <1>1, <2>1
<1> QED BY <1>3, <1>4, <1>5, <1>6, <1>7, <1>8 DEF Serving, Serve

\* The part of the invariant about the pool alone.
Connected ==
  /\ queued \subseteq Requests /\ conns \subseteq Requests
  /\ IsFiniteSet(conns) /\ Cardinality(conns) <= MaxOpenConns
  /\ \A r \in queued : pc[r] = "new"
  /\ \A r \in conns : InDatabase(r)
  /\ \A u \in Users : userLock[u] \in conns \cup {NULL}
  /\ \A s \in SessionIds : sessionLock[s] \in conns \cup {NULL}

\* The invariant is that of the service, the order of the locks, and this part.
LEMMA PoolParts == PoolInv <=> ClosingInv /\ LockOrder /\ Connected
BY DEF PoolInv, Connected, PoolTypeOK, ClosingInv

\* The invariant of the service survives a client that leaves before its first read.
LEMMA LeaveStep ==
  ASSUME ClosingInv, LockOrder, NEW r \in Requests, pc[r] = "new", Leave(r)
  PROVE  ClosingInv' /\ LockOrder'
<1>1. /\ Finish(r, "internal") /\ req' = req /\ UNCHANGED <<users, sessions, sessionSeq>>
      /\ clock' = clock /\ audits' = audits
  BY DEF Leave, tables
<1>2. TypeOK /\ Intact(r) BY DEF ClosingInv, Intact
<1>3. ServedTypeOK' BY <1>1, <1>2, FinishType
<1>4. TypeOK' BY <1>1, <1>2, <1>3, TypeParts DEF TypeOK, StoreTypeOK, TablesTypeOK
<1>5. ClosingInv' BY <1>1, <1>2, <1>4, FinishIntact, QuietStep DEF Intact
<1>6. LocksApart(r) /\ LocksOrdered(r)' BY <1>1, <1>2, OrderAfterFinish
<1>7. ASSUME NEW q \in Requests, q # r PROVE LocksOrdered(q)'
  BY <1>6, <1>7, OrderOfOthers DEF LockOrder
<1> QED BY <1>5, <1>6, <1>7 DEF LockOrder

\* A step that may only give back the connection of a request that is over.
LEMMA ConnectionsKept ==
  ASSUME TypeOK, LockOrder, LockOrder', Connected, NEW r \in Requests,
         LocksApart(r), NewLocks(r), InDatabase(r) => r \in conns \/ pc'[r] = "done",
         conns' = {q \in conns : pc'[q] # "done"},
         r \in conns => pc'[r] \notin {"new", "check"},
         queued' = queued \ {r}
  PROVE  Connected'
<1>1. NULL \notin Requests BY RequestsAssumption
<1>2. IsFiniteSet(conns') /\ Cardinality(conns') <= MaxOpenConns
  <2>1. conns' \in SUBSET conns /\ IsFiniteSet(conns) BY DEF Connected
  <2>2. IsFiniteSet(conns') /\ Cardinality(conns') <= Cardinality(conns)
    BY <2>1, FS_Subset
  <2>3. Cardinality(conns') \in Nat /\ Cardinality(conns) \in Nat
    BY <2>1, <2>2, FS_CardinalityType
  <2> QED BY <2>2, <2>3, PoolAssumption DEF Connected
<1>3. \A q \in queued' : pc'[q] = "new" BY DEF Connected, LocksApart
<1>4. \A q \in conns' : InDatabase(q)'
  BY DEF Connected, LocksApart, InDatabase
<1>5. ASSUME NEW h \in Requests,
             \/ \E u \in Users : userLock'[u] = h
             \/ \E s \in SessionIds : sessionLock'[s] = h
      PROVE  h \in conns'
  <2>1. h = r => pc'[r] # "done"
    BY <1>5 DEF LockOrder, LocksOrdered, HeldUsers, HeldSessions
  <2>2. h \in conns BY <1>1, <1>5, <2>1 DEF Connected, NewLocks
  <2>3. CASE h # r BY <2>2, <2>3 DEF Connected, LocksApart, InDatabase
  <2>4. CASE h = r BY <2>1, <2>2, <2>4
  <2> QED BY <2>3, <2>4
<1>6. /\ \A u \in Users : userLock'[u] \in conns' \cup {NULL}
      /\ \A s \in SessionIds : sessionLock'[s] \in conns' \cup {NULL}
  <2>1. /\ \A u \in Users : userLock'[u] \in Requests \cup {NULL}
        /\ \A s \in SessionIds : sessionLock'[s] \in Requests \cup {NULL}
    BY DEF NewLocks, TypeOK, StoreTypeOK
  <2> QED BY <1>5, <2>1
<1> QED BY <1>2, <1>3, <1>4, <1>6 DEF Connected

\* Every step of the pooled service keeps its invariant.
LEMMA PoolStep == PoolInv /\ [PoolNext]_poolVars => PoolInv'
<1> SUFFICES ASSUME ClosingInv, LockOrder, Connected, [PoolNext]_poolVars
             PROVE  ClosingInv' /\ LockOrder' /\ Connected'
  BY DEF PoolInv, Connected, PoolTypeOK, ClosingInv
<1>0. TypeOK BY DEF ClosingInv
<1>1. ASSUME [Next]_vars PROVE ClosingInv' /\ LockOrder'
  BY <1>0, <1>1, NextInvariant, LockOrderStep
<1>2. ASSUME NEW r \in Requests, PooledStart(r) PROVE ClosingInv' /\ LockOrder' /\ Connected'
  <2>1. r \in queued /\ Start(r) /\ queued' = queued \ {r} /\ conns' = conns
    BY <1>2 DEF PooledStart
  <2>2. ClosingInv' /\ LockOrder' BY <1>1, <2>1 DEF Next
  <2>3. LocksApart(r) /\ NewLocks(r)
    BY <1>0, <2>1, OrderStep, StartLocks DEF LockOrder
  <2>4. ~ InDatabase(r) /\ r \notin conns BY <2>1 DEF Connected, InDatabase
  <2>5. conns' = {q \in conns : pc'[q] # "done"}
    BY <2>1, <2>3, <2>4 DEF Connected, LocksApart, InDatabase
  <2> QED BY <1>0, <2>1, <2>2, <2>3, <2>4, <2>5, ConnectionsKept
<1>3. ASSUME NEW r \in Requests, Leave(r) PROVE ClosingInv' /\ LockOrder' /\ Connected'
  <2>1. /\ r \in queued /\ Finish(r, "internal") /\ req' = req
        /\ queued' = queued \ {r} /\ conns' = conns
    BY <1>3 DEF Leave
  <2>2. pc[r] = "new" /\ ~ InDatabase(r) /\ r \notin conns
    BY <2>1 DEF Connected, InDatabase
  <2>3. ClosingInv' /\ LockOrder' BY <1>3, <2>2, LeaveStep
  <2>4. LocksApart(r) /\ NewLocks(r) BY <1>0, <2>1, OrderAfterFinish, StartLocks
  <2>5. conns' = {q \in conns : pc'[q] # "done"}
    BY <2>1, <2>2, <2>4 DEF Connected, LocksApart, InDatabase
  <2> QED BY <1>0, <2>1, <2>2, <2>3, <2>4, <2>5, ConnectionsKept
<1>4. ASSUME NEW r \in Requests, PooledServe(r) \/ PooledFailure(r)
      PROVE  ClosingInv' /\ LockOrder' /\ Connected'
  <2>1. /\ Serving(r) /\ conns' = {q \in conns : pc'[q] # "done"} /\ queued' = queued
    BY <1>4 DEF PooledServe, PooledFailure, Serving, Kept
  <2>2. ClosingInv' /\ LockOrder' BY <1>1, <2>1 DEF Next, Serving
  <2>3. LocksApart(r) BY <1>0, <2>1, OrderStep DEF LockOrder, Serving
  <2>4. NewLocks(r) /\ pc[r] # "new" /\ pc'[r] \notin {"new", "check"}
    BY <1>0, <2>1, ServingLocks
  <2>5. queued' = queued \ {r} BY <2>1, <2>4 DEF Connected
  <2>6. InDatabase(r) => r \in conns \/ pc'[r] = "done"
    BY <1>0, <1>4 DEF PooledServe, PooledFailure, Cut, Finish, Goto, TypeOK
  <2> QED BY <1>0, <2>1, <2>2, <2>3, <2>4, <2>5, <2>6, ConnectionsKept
<1>5. ASSUME NEW r \in Requests, Enqueue(r) \/ Connect(r)
      PROVE  ClosingInv' /\ LockOrder' /\ Connected'
  <2>1. UNCHANGED vars BY <1>5 DEF Enqueue, Connect
  <2>2. ClosingInv' /\ LockOrder' BY <1>1, <2>1
  <2>3. /\ userLock' = userLock /\ sessionLock' = sessionLock /\ pc' = pc
    BY <2>1 DEF vars, locks
  <2>4. CASE Enqueue(r)
    <3>1. queued' = queued \cup {r} /\ pc[r] = "new" /\ conns' = conns BY <2>4 DEF Enqueue
    <3> QED BY <2>2, <2>3, <3>1 DEF Connected, InDatabase
  <2>5. CASE Connect(r)
    <3>1. /\ conns' = conns \cup {r} /\ r \notin conns /\ InDatabase(r)
          /\ Cardinality(conns) < MaxOpenConns /\ queued' = queued
      BY <2>5 DEF Connect, Free
    <3>2. IsFiniteSet(conns) BY DEF Connected
    <3>3. IsFiniteSet(conns') /\ Cardinality(conns') = Cardinality(conns) + 1
      BY <3>1, <3>2, FS_AddElement
    <3>4. Cardinality(conns') <= MaxOpenConns
      BY <3>1, <3>2, <3>3, FS_CardinalityType, PoolAssumption
    <3> QED BY <2>2, <2>3, <3>1, <3>3, <3>4 DEF Connected, InDatabase
  <2> QED BY <1>5, <2>4, <2>5
<1>6. CASE UNCHANGED pool /\ (Tick \/ Answered \/ UNCHANGED vars)
  <2>1. ClosingInv' /\ LockOrder' BY <1>1, <1>6 DEF Next
  <2>2. /\ userLock' = userLock /\ sessionLock' = sessionLock /\ pc' = pc
        /\ queued' = queued /\ conns' = conns
    BY <1>6 DEF Tick, Answered, vars, locks, pool
  <2> QED BY <2>1, <2>2 DEF Connected, InDatabase
<1> QED BY <1>2, <1>3, <1>4, <1>5, <1>6 DEF PoolNext, poolVars

\* At the start nothing is queued and no connection is taken.
LEMMA PoolStart == PoolInit => PoolInv
<1> SUFFICES ASSUME PoolInit PROVE ClosingInv /\ LockOrder /\ Connected BY PoolParts
<1>1. ClosingInv /\ LockOrder BY InitInvariant, LockOrderInit DEF PoolInit
<1>2. Cardinality(conns) = 0 /\ IsFiniteSet(conns) BY FS_EmptySet DEF PoolInit
<1> QED BY <1>1, <1>2, PoolAssumption DEF Connected, PoolInit, Init

(***************************************************************************)
(* The invariant of the pooled service, for any size of the pool.          *)
(***************************************************************************)
THEOREM PoolInvariant == PoolSpec => []PoolInv
BY PoolStart, PoolStep, PTL DEF PoolSpec

(***************************************************************************)
(* Never more than MaxOpenConns connections, and all variables typed.      *)
(***************************************************************************)
THEOREM PoolTyped == PoolSpec => []PoolTypeOK
<1>1. PoolInv => PoolTypeOK BY DEF PoolInv
<1> QED BY <1>1, PoolInvariant, PTL

(***************************************************************************)
(* The service over the pool is never wedged: if connections are left, the *)
(* requests under way would wait for each other's rows in a circle; if all *)
(* are taken, their holders would, since every holder of a lock is one.    *)
(***************************************************************************)
THEOREM NeverWedged == PoolSpec => []PoolNotWedged
<1>1. ASSUME PoolInv PROVE PoolNotWedged
  <2>0. ClosingInv /\ TypeOK /\ LockOrder /\ Connected BY <1>1, PoolParts DEF ClosingInv
  <2>1. NoDeadlock BY <2>0, NoCircle
  <2> SUFFICES ASSUME UnderWay # {},
                      \A r \in UnderWay :
                        WaitsForConnection(r) \/ \E q \in Requests : WaitsFor(r, q)
               PROVE  FALSE
    BY DEF PoolNotWedged
  <2>2. ASSUME NEW r \in Requests, NEW q \in Requests, WaitsFor(r, q)
        PROVE  q \in conns /\ q \in UnderWay
    <3>1. pc[q] \notin {"new", "done"} BY <2>0, <2>2, Holder
    <3>2. \/ \E u \in Users : userLock[u] = q
          \/ \E s \in SessionIds : sessionLock[s] = q
      <4>1. CASE pc[r] = "users"
        BY <2>0, <2>2, <4>1 DEF WaitsFor, UsersToLock, LockedAccounts, TypeOK, Request
      <4>2. CASE pc[r] # "users"
        BY <2>0, <2>2, <4>2 DEF WaitsFor, LockOrder, LocksOrdered, TypeOK
      <4> QED BY <4>1, <4>2
    <3> QED BY <2>0, <3>1, <3>2, RequestsAssumption DEF Connected, UnderWay
  <2>3. CASE Free
    <3>1. UnderWay \in (SUBSET Requests) \ {{}} BY <2>0 DEF UnderWay, Connected
    <3>2. \A r \in UnderWay : \E q \in UnderWay : WaitsFor(r, q)
      BY <2>2, <2>3, <3>1 DEF WaitsForConnection
    <3> QED BY <2>1, <3>1, <3>2 DEF NoDeadlock
  <2>4. CASE ~ Free
    <3>1. conns \in (SUBSET Requests) \ {{}}
      <4>1. Cardinality({}) = 0 BY FS_EmptySet
      <4> QED BY <2>0, <2>4, <4>1, PoolAssumption DEF Free, Connected
    <3>2. conns \subseteq UnderWay BY <2>0 DEF Connected, InDatabase, UnderWay
    <3>3. \A r \in conns : \E q \in conns : WaitsFor(r, q)
      BY <2>2, <3>1, <3>2 DEF WaitsForConnection
    <3> QED BY <2>1, <3>1, <3>3 DEF NoDeadlock
  <2> QED BY <2>3, <2>4
<1> QED BY <1>1, PoolInvariant, PTL

-----------------------------------------------------------------------------
(***************************************************************************)
(* The pool and the policy.  All but one of the pooled service's steps are *)
(* steps of the service; what is new is the client that leaves before its  *)
(* request has read anything.                                              *)
(***************************************************************************)
LEMMA PoolSteps ==
  ASSUME [PoolNext]_poolVars
  PROVE  [Next]_vars \/ \E r \in Requests : Leave(r)
BY DEF PoolNext, poolVars, Next, Enqueue, PooledStart, Connect, PooledServe, PooledFailure

\* Such a client leaves nothing behind: no row, no lock and no secret.
LEMMA LeaveQuiet ==
  ASSUME HistoryInv, SecretsKept, ClosingInv', NEW r \in Requests, Leave(r)
  PROVE  HistoryInv' /\ SecretsKept'
<1>0. TypeOK /\ Sampled(r) BY DEF HistoryInv, ClosingInv
<1>1. /\ Finish(r, "internal") /\ req' = req /\ clock' = clock
      /\ users' = users /\ sessions' = sessions /\ audits' = audits
  BY DEF Leave, tables
<1>2. Alone(r) BY <1>0, <1>1, FinishAlone
<1>3. pc'[r] = "done" /\ reply'[r] = "internal" BY <1>0, <1>1 DEF Finish, Goto, TypeOK
<1>4. TimesOrdered' BY <1>1 DEF HistoryInv, TimesOrdered, StoreChecks
<1>5. ASSUME NEW q \in Requests PROVE OwnKept(q)'
  <2>1. CASE q = r BY <1>0, <1>1, <2>1, FinishOwn
  <2>2. CASE q # r
    <3>1. clock' \in Nat /\ clock' >= clock BY <1>0, <1>1 DEF TypeOK, StoreTypeOK
    <3>2. Undisturbed(q) BY <1>1, <1>2, <2>2, <3>1 DEF Undisturbed, Alone
    <3> QED BY <1>0, <3>2, UndisturbedKept DEF HistoryInv, ClosingInv, OwnKept
  <2> QED BY <2>1, <2>2
<1>6. HistoryInv' BY <1>4, <1>5 DEF HistoryInv, OwnKept
<1>7. \A secret : Drawn(secret) => (secret \in Requests => pc'[secret] = "done")
  BY <1>2, <1>3 DEF Drawn, Alone
<1>8. \A q \in Requests :
        /\ reply'[q] # NULL => pc'[q] = "done"
        /\ pc'[q] \in {"check", "revoke"} => req'[q].op # "refresh"
        /\ reply'[q] = "ok" => q # r /\ reply[q] = "ok"
  BY <1>1, <1>2, <1>3 DEF SecretsKept, Alone
<1>9. SecretUsedOnce' BY <1>1, <1>8 DEF SecretsKept, SecretUsedOnce
<1>10. SecretsKept'
  <2>1. \A s \in SessionIds : sessions'[s] # NULL =>
          (sessions'[s].token \in Requests => pc'[sessions'[s].token] = "done")
    BY <1>1, <1>7 DEF SecretsKept
  <2>2. \A q \in Requests : req'[q].op = "refresh" =>
          (req'[q].secret \in Requests => pc'[req'[q].secret] = "done")
    BY <1>1, <1>7 DEF SecretsKept
  <2>3. ASSUME NEW q \in Requests, req'[q].op = "refresh", reply'[q] = "ok"
        PROVE  /\ req'[q].session \in SessionIds
               /\ sessions'[req'[q].session] # NULL
               /\ sessions'[req'[q].session].token # req'[q].secret
    <3>1. reply[q] = "ok" /\ req[q].op = "refresh" BY <1>1, <1>8, <2>3
    <3> QED BY <1>1, <3>1 DEF SecretsKept
  <2> QED BY <1>8, <1>9, <2>1, <2>2, <2>3 DEF SecretsKept, Drawn
<1> QED BY <1>6, <1>10

\* Together with PoolInv, the invariants of the service hold over a pool.
LEMMA PoolHistory ==
  PoolInv /\ PoolInv' /\ HistoryInv /\ SecretsKept /\ [PoolNext]_poolVars
    => HistoryInv' /\ SecretsKept'
<1> SUFFICES ASSUME PoolInv', HistoryInv, SecretsKept, [PoolNext]_poolVars
             PROVE  HistoryInv' /\ SecretsKept'
  OBVIOUS
<1>1. ClosingInv' BY PoolParts DEF PoolInv
<1>2. ASSUME NEW r \in Requests, Leave(r) PROVE HistoryInv' /\ SecretsKept'
  BY <1>1, <1>2, LeaveQuiet
<1>3. CASE [Next]_vars
  <2>1. HistoryInv' BY <1>3, HistoryStep
  <2> QED BY <1>3, <2>1, SecretsInductive
<1> QED BY <1>2, <1>3, PoolSteps

\* They hold in every state of the pooled service.
LEMMA PoolHistoryInvariant == PoolSpec => [](PoolInv /\ HistoryInv /\ SecretsKept)
<1>1. PoolInit => PoolInv /\ HistoryInv /\ SecretsKept
  BY PoolStart, HistoryInit, SecretsInductive DEF PoolInit
<1>2. /\ PoolInv /\ HistoryInv /\ SecretsKept /\ [PoolNext]_poolVars
        => (PoolInv /\ HistoryInv /\ SecretsKept)'
  BY PoolStep, PoolHistory
<1> QED BY <1>1, <1>2, PTL DEF PoolSpec

(***************************************************************************)
(* What the service promises of accounts, rows and secrets it promises     *)
(* over a pool of any size, with clients that leave at any time.           *)
(***************************************************************************)
THEOREM PooledSafe ==
  PoolSpec => []ClosedAccountsSignedOut /\ []StoreChecks /\ []SecretUsedOnce
<1>1. HistoryInv /\ SecretsKept => ClosedAccountsSignedOut /\ StoreChecks /\ SecretUsedOnce
  BY DEF HistoryInv, ClosingInv, TimesOrdered, SecretsKept
<1> QED BY <1>1, PoolHistoryInvariant, PTL

(***************************************************************************)
(* And it implements the atomic policy there: waiting for connections adds *)
(* orders of steps, and no outcome (WithinTx over sql.DB).                 *)
(***************************************************************************)
THEOREM PooledImplements == PoolSpec => ImplementsPolicy
<1>1. ASSUME HistoryInv, SecretsKept, [PoolNext]_poolVars PROVE [Policy!Next]_(Policy!vars)
  <2>1. CASE [Next]_vars BY <1>1, <2>1, RefinesStep
  <2>2. ASSUME NEW r \in Requests, Leave(r) PROVE UNCHANGED Policy!vars
    BY <2>2 DEF Leave, tables, Policy!vars
  <2> QED BY <1>1, <2>1, <2>2, PoolSteps
<1>2. PoolInit => Policy!Init BY RefinesInit DEF PoolInit
<1>3. HistoryInv /\ SecretsKept /\ [PoolNext]_poolVars => [Policy!Next]_(Policy!vars)
  BY <1>1
<1> QED BY <1>2, <1>3, PoolHistoryInvariant, PTL
        DEF PoolSpec, ImplementsPolicy, Policy!Spec
=============================================================================
