---------------------------- MODULE PooledService ----------------------------
(***************************************************************************)
(* The identity service over a pool of MaxOpenConns connections.  Every    *)
(* statement needs a connection.  A read outside a transaction borrows one *)
(* for a moment; a transaction takes one when it begins and keeps it while *)
(* it waits for rows, until WithinTx returns.  What a request does with    *)
(* its connection is IdentityService; this module adds when it may.        *)
(***************************************************************************)
EXTENDS IdentityProperties

CONSTANTS
  MaxOpenConns,   \* DATABASE_MAX_OPEN_CONNS; the configuration refuses 0
  Stalled         \* requests that may stop for ever once they have started

ASSUME PoolAssumption == MaxOpenConns \in Nat \ {0} /\ Stalled \subseteq Requests

VARIABLES
  queued,         \* requests whose handler has begun and read nothing yet
  conns           \* requests that hold a connection

pool == <<queued, conns>>
poolVars == <<vars, pool>>

PoolTypeOK ==
  /\ TypeOK
  /\ queued \subseteq Requests
  /\ conns \subseteq Requests /\ Cardinality(conns) <= MaxOpenConns

PoolInit == Init /\ queued = {} /\ conns = {}

-----------------------------------------------------------------------------
Free == Cardinality(conns) < MaxOpenConns

\* Operations that read a row before they begin a transaction.
ReadFirst == {"login", "refresh", "me", "public"}

\* Stages in which a request has a statement or a transaction under way.
InDatabase(r) == pc[r] \notin {"new", "check", "done"}

\* The end of WithinTx, however it comes about, gives the connection back.
\* Two mutants: a refusal leaves without a rollback; the locks are taken in
\* statements of their own, outside a transaction.
KeptAfterRefusal == {q \in conns : pc'[q] # "done" \/ reply'[q] = "refused"}

KeptForStatement == {q \in conns : pc'[q] # "done" /\ pc'[q] = pc[q]}

Kept == {q \in conns : pc'[q] # "done"}

Enqueue(r) ==
  /\ pc[r] = "new"
  /\ r \notin queued
  /\ queued' = queued \cup {r}
  /\ UNCHANGED <<vars, conns>>

PooledStart(r) ==
  /\ r \in queued
  /\ Start(r)
  /\ req'[r].op \in ReadFirst => Free
  /\ queued' = queued \ {r}
  /\ UNCHANGED conns

\* The client leaves before the first read.
Leave(r) ==
  /\ MayFail
  /\ r \in queued
  /\ Finish(r, "internal")
  /\ queued' = queued \ {r}
  /\ UNCHANGED <<clock, tables, sessionSeq, req, conns>>

\* BeginTx, or the UPDATE of a logout, gets its connection.  The mutant makes
\* a new one for whoever asks, as sql.DB does when no limit is set.
ConnectUnlimited(r) ==
  /\ InDatabase(r)
  /\ r \notin conns
  /\ conns' = conns \cup {r}
  /\ UNCHANGED <<vars, queued>>

Connect(r) ==
  /\ InDatabase(r)
  /\ r \notin conns
  /\ Free
  /\ conns' = conns \cup {r}
  /\ UNCHANGED <<vars, queued>>

PooledServe(r) ==
  /\ InDatabase(r) => r \in conns
  /\ Serve(r)
  /\ conns' = Kept
  /\ UNCHANGED queued

\* A confirmation is lost, or a request is cut off while it works or waits.
PooledFailure(r) ==
  /\ \/ r \in conns /\ (CommitUnconfirmed(r) \/ RevokeUnconfirmed(r))
     \/ Cut(r)
  /\ conns' = Kept
  /\ UNCHANGED queued

PoolNext ==
  \/ \E r \in Requests :
       \/ Enqueue(r) \/ PooledStart(r) \/ Leave(r) \/ Connect(r)
       \/ PooledServe(r) \/ PooledFailure(r)
  \/ (Tick \/ Answered) /\ UNCHANGED pool

PoolSpec == PoolInit /\ [][PoolNext]_poolVars

(***************************************************************************)
(* A goroutine that can proceed eventually does.  sql.DB hands connections *)
(* to waiters in the order they came, PostgreSQL queues the waiters of a   *)
(* row, and each request asks for few of both.  No handler has a deadline: *)
(* a request that has stalled is not obliged to do anything.               *)
(***************************************************************************)
PoolFairSpec ==
  /\ PoolSpec
  /\ \A r \in Requests \ Stalled :
       WF_poolVars(PooledStart(r)) /\ WF_poolVars(Connect(r)) /\ WF_poolVars(PooledServe(r))

-----------------------------------------------------------------------------
(***************************************************************************)
(* Connections and row locks never wait for each other in a circle: of the *)
(* requests under way one can always go on.  A holder of locks already has *)
(* its connection, so that those who wait for it cannot take it away.      *)
(***************************************************************************)
UnderWay == queued \cup {r \in Requests : pc[r] \notin {"new", "done"}}

WaitsForConnection(r) == (r \in queued \/ InDatabase(r)) /\ r \notin conns /\ ~ Free

PoolNotWedged ==
  UnderWay # {} =>
    \E r \in UnderWay :
      ~ WaitsForConnection(r) /\ \A q \in Requests : ~ WaitsFor(r, q)

(***************************************************************************)
(* Every request is answered, with fewer connections than requests: no     *)
(* wait for a connection, an account or a session lasts for ever.          *)
(***************************************************************************)
QueuedAnswered == \A r \in Requests : r \in queued ~> pc[r] = "done"

(***************************************************************************)
(* What the design of the identity module says of locks: a wait is bounded *)
(* by the deadline of the context, so that a request is answered whatever  *)
(* becomes of the one it waits for.                                        *)
(***************************************************************************)
LockWaitsBounded ==
  \A r \in Requests \ Stalled : pc[r] = "users" ~> pc[r] # "users"

-----------------------------------------------------------------------------
(***************************************************************************)
(* The inductive invariant behind PoolNotWedged: whoever has a connection  *)
(* has a statement or a transaction under way, whoever holds a row lock    *)
(* has a connection, and a queued request has done nothing yet.            *)
(***************************************************************************)
PoolInv ==
  /\ ClosingInv /\ LockOrder
  /\ PoolTypeOK /\ IsFiniteSet(conns)
  /\ \A r \in queued : pc[r] = "new"
  /\ \A r \in conns : InDatabase(r)
  /\ \A u \in Users : userLock[u] \in conns \cup {NULL}
  /\ \A s \in SessionIds : sessionLock[s] \in conns \cup {NULL}
=============================================================================
