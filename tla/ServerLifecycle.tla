-------------------------- MODULE ServerLifecycle --------------------------
(***************************************************************************)
(* The life of the server process: its start, the HTTP server, the signal  *)
(* that ends it, the graceful or forced shutdown, and the closing of the   *)
(* two resources it shares with the request handlers.                      *)
(*                                                                         *)
(* The goroutines are main (app.New, Run, Serve), the one that Serve       *)
(* starts for server.Serve, and one per connection.  net/http is external; *)
(* what is kept of it: Serve refuses to start once Shutdown was called,    *)
(* Shutdown closes the listener, waits for Serve, and then closes idle     *)
(* connections until no other is left or its context expires, Close drops  *)
(* the remaining connections without waiting for their handlers.  A second *)
(* signal changes nothing: NotifyContext consumes it.                      *)
(***************************************************************************)
CONSTANT Conns       \* bound: the connections that clients open in one run

VARIABLES
  main,          \* where the main goroutine is
  db, redis,     \* the two resources: none, open, closed
  listener,      \* the TCP listener: none, open, closed
  server,        \* the goroutine of server.Serve
  serveErrors,   \* the channel it reports to (capacity 1): none, closed, failed
  inShutdown,    \* Shutdown or Close of the HTTP server has been called
  signalled,     \* the root context is cancelled
  failed,        \* an error has been joined to the result of Run
  conn,          \* each connection, see Conn below
  exit           \* the exit code of the process, or none

resources == <<db, redis>>
http == <<listener, server, serveErrors, inShutdown>>
vars == <<main, resources, http, signalled, failed, conn, exit>>

Resource == {"none", "open", "closed"}

(***************************************************************************)
(* idle: accepted, no request under way.  active: its handler runs.        *)
(* orphan: dropped by Close while its handler runs.  answered, broken: a   *)
(* handler answered, or answered with an error for want of the database.   *)
(* closed: closed while idle.  lost: no answer will ever come.             *)
(***************************************************************************)
Conn == {"none", "idle", "active", "orphan", "answered", "broken", "closed", "lost"}

TypeOK ==
  /\ main \in {"configure", "openPostgres", "build", "openRedis", "listen",
               "select", "shutdown", "close", "collect",
               "closeRedis", "closePostgres", "return", "exited"}
  /\ db \in Resource /\ redis \in Resource /\ listener \in Resource
  /\ server \in {"none", "starting", "accepting", "returned"}
  /\ serveErrors \in {"none", "closed", "failed"}
  /\ inShutdown \in BOOLEAN /\ signalled \in BOOLEAN /\ failed \in BOOLEAN
  /\ conn \in [Conns -> Conn]
  /\ exit \in {"none", "0", "1"}

Init ==
  /\ main = "configure"
  /\ db = "none" /\ redis = "none" /\ listener = "none"
  /\ server = "none" /\ serveErrors = "none" /\ inShutdown = FALSE
  /\ signalled = FALSE /\ failed = FALSE
  /\ conn = [c \in Conns |-> "none"]
  /\ exit = "none"

\* The main goroutine moves from one point to another; err joins an error.
Move(from, to) == main = from /\ main' = to

Join(err) == failed' = (failed \/ err)

-----------------------------------------------------------------------------
(***************************************************************************)
(* The start.                                                              *)
(***************************************************************************)
\* The configuration and the logger: nothing is open yet.
Configure ==
  /\ \/ Move("configure", "openPostgres") /\ UNCHANGED failed
     \/ Move("configure", "return") /\ failed' = TRUE
  /\ UNCHANGED <<resources, http, signalled, conn, exit>>

\* The ping fails if the context is cancelled; Open then closes what it opened.
OpenPostgres ==
  /\ \/ ~ signalled /\ Move("openPostgres", "build") /\ db' = "open" /\ UNCHANGED failed
     \/ Move("openPostgres", "return") /\ db' = "closed" /\ failed' = TRUE
  /\ UNCHANGED <<redis, http, signalled, conn, exit>>

\* The mutant forgets the deferred close of the database.
BuildServicesLeaking ==
  /\ \/ Move("build", "openRedis") /\ UNCHANGED failed
     \/ Move("build", "return") /\ failed' = TRUE
  /\ UNCHANGED <<resources, http, signalled, conn, exit>>

BuildServices ==
  /\ \/ Move("build", "openRedis") /\ UNCHANGED <<db, failed>>
     \/ Move("build", "return") /\ db' = "closed" /\ failed' = TRUE
  /\ UNCHANGED <<redis, http, signalled, conn, exit>>

\* The client is kept whether or not its first ping succeeds.
OpenRedis ==
  /\ Move("openRedis", "listen")
  /\ redis' = "open"
  /\ UNCHANGED <<db, http, signalled, failed, conn, exit>>

\* Run; Serve then starts the goroutine of server.Serve.
Listen ==
  /\ \/ /\ Move("listen", "select")
        /\ listener' = "open" /\ server' = "starting" /\ UNCHANGED failed
     \/ /\ Move("listen", "closeRedis")
        /\ failed' = TRUE /\ UNCHANGED <<listener, server>>
  /\ UNCHANGED <<resources, serveErrors, inShutdown, signalled, conn, exit>>

-----------------------------------------------------------------------------
(***************************************************************************)
(* The end.  When both cases of the select are ready either one may run.   *)
(***************************************************************************)
ServeReturned ==
  /\ Move("select", "closeRedis")
  /\ serveErrors # "none"
  /\ serveErrors' = "none"
  /\ Join(serveErrors = "failed")
  /\ UNCHANGED <<resources, listener, server, inShutdown, signalled, conn, exit>>

\* Shutdown closes the listener only if server.Serve has registered it.
Shutdown ==
  /\ Move("select", "shutdown")
  /\ signalled
  /\ inShutdown' = TRUE
  /\ listener' = IF server = "accepting" THEN "closed" ELSE listener
  /\ UNCHANGED <<resources, server, serveErrors, signalled, failed, conn, exit>>

\* Once Serve has returned, one poll of Shutdown closes an idle connection.
CloseIdle(c) ==
  /\ main = "shutdown" /\ server # "accepting"
  /\ conn[c] = "idle"
  /\ conn' = [conn EXCEPT ![c] = "closed"]
  /\ UNCHANGED <<main, resources, http, signalled, failed, exit>>

\* Shutdown returns once no connection is left, with the error that closing
\* the listener gave it, if any.  Its mutant does not wait for the handlers.
ShutdownDrainedEarly ==
  /\ server # "accepting"
  /\ \A c \in Conns : conn[c] # "idle"
  /\ \/ Move("shutdown", "collect") /\ UNCHANGED failed
     \/ Move("shutdown", "close") /\ failed' = TRUE
  /\ UNCHANGED <<resources, http, signalled, conn, exit>>

ShutdownDrained ==
  /\ server # "accepting"
  /\ \A c \in Conns : conn[c] \notin {"idle", "active"}
  /\ \/ Move("shutdown", "collect") /\ UNCHANGED failed
     \/ Move("shutdown", "close") /\ failed' = TRUE
  /\ UNCHANGED <<resources, http, signalled, conn, exit>>

\* Its mutant lets a running handler hold the shutdown up.
ShutdownExpiredIdleOnly ==
  /\ server # "accepting"
  /\ \A c \in Conns : conn[c] # "active"
  /\ Move("shutdown", "close")
  /\ failed' = TRUE
  /\ UNCHANGED <<resources, http, signalled, conn, exit>>

ShutdownExpired ==
  /\ server # "accepting"
  /\ Move("shutdown", "close")
  /\ failed' = TRUE
  /\ UNCHANGED <<resources, http, signalled, conn, exit>>

\* server.Close: the contexts of the handlers are cancelled, nobody waits.
\* Its mutant drops the idle connections only.
CloseServerIdleOnly ==
  /\ Move("close", "collect")
  /\ conn' = [c \in Conns |-> IF conn[c] = "idle" THEN "closed" ELSE conn[c]]
  /\ UNCHANGED <<resources, http, signalled, failed, exit>>

CloseServer ==
  /\ Move("close", "collect")
  /\ conn' = [c \in Conns |-> CASE conn[c] = "idle"   -> "closed"
                                [] conn[c] = "active" -> "orphan"
                                [] OTHER              -> conn[c]]
  /\ UNCHANGED <<resources, http, signalled, failed, exit>>

Collect ==
  /\ Move("collect", "closeRedis")
  /\ serveErrors # "none"
  /\ serveErrors' = "none"
  /\ Join(serveErrors = "failed")
  /\ UNCHANGED <<resources, listener, server, inShutdown, signalled, conn, exit>>

\* closeResources: an error of one closer does not keep the other one open.
CloseRedis ==
  /\ Move("closeRedis", "closePostgres")
  /\ redis' = "closed"
  /\ \E err \in BOOLEAN : Join(err)
  /\ UNCHANGED <<db, http, signalled, conn, exit>>

ClosePostgres ==
  /\ Move("closePostgres", "return")
  /\ db' = "closed"
  /\ \E err \in BOOLEAN : Join(err)
  /\ UNCHANGED <<redis, http, signalled, conn, exit>>

\* The process ends with the handlers that still run.  The mutant panics on an
\* error, which ends a Go program with code 2.
ExitByPanic ==
  /\ Move("return", "exited")
  /\ exit' = IF failed THEN "2" ELSE "0"
  /\ conn' = [c \in Conns |-> IF conn[c] \in {"active", "orphan"} THEN "lost" ELSE conn[c]]
  /\ UNCHANGED <<resources, http, signalled, failed>>

Exit ==
  /\ Move("return", "exited")
  /\ exit' = IF failed THEN "1" ELSE "0"
  /\ conn' = [c \in Conns |-> IF conn[c] \in {"active", "orphan"} THEN "lost" ELSE conn[c]]
  /\ UNCHANGED <<resources, http, signalled, failed>>

-----------------------------------------------------------------------------
(***************************************************************************)
(* The goroutine of server.Serve.  It closes the listener as it returns.   *)
(***************************************************************************)
ServeReturns(result) ==
  /\ server' = "returned"
  /\ listener' = "closed"
  /\ serveErrors' = result
  /\ UNCHANGED <<main, resources, inShutdown, signalled, failed, conn, exit>>

ServeBegins ==
  /\ server = "starting" /\ main # "exited"
  /\ \/ inShutdown /\ ServeReturns("closed")
     \/ /\ ~ inShutdown
        /\ server' = "accepting"
        /\ UNCHANGED <<main, resources, listener, serveErrors, inShutdown,
                       signalled, failed, conn, exit>>

\* Accept fails because Shutdown closed the listener.
AcceptStops ==
  server = "accepting" /\ main # "exited" /\ inShutdown /\ ServeReturns("closed")

\* Accept fails by itself.
AcceptFails ==
  server = "accepting" /\ main # "exited" /\ ~ inShutdown /\ ServeReturns("failed")

-----------------------------------------------------------------------------
(***************************************************************************)
(* Connections.  Serve may still be handing over one that it accepted just *)
(* before the listener was closed.  An idle one may start a request at any *)
(* time until the server closes it, also while Shutdown is polling.        *)
(***************************************************************************)
SetConn(c, from, to) ==
  /\ main # "exited"
  /\ conn[c] = from
  /\ conn' = [conn EXCEPT ![c] = to]
  /\ UNCHANGED <<main, resources, http, signalled, failed, exit>>

Accept(c) == server = "accepting" /\ SetConn(c, "none", "idle")

Begin(c) == SetConn(c, "idle", "active")

Answer(c) == SetConn(c, "active", "answered")

\* The handler finds the database closed.
Break(c) == db = "closed" /\ SetConn(c, "active", "broken")

Abandon(c) == SetConn(c, "orphan", "lost")

Signal ==
  /\ exit = "none" /\ ~ signalled
  /\ signalled' = TRUE
  /\ UNCHANGED <<main, resources, http, failed, conn, exit>>

Exited == main = "exited" /\ UNCHANGED vars

-----------------------------------------------------------------------------
Main ==
  \/ Configure \/ OpenPostgres \/ BuildServices \/ OpenRedis \/ Listen
  \/ ServeReturned \/ Shutdown \/ ShutdownDrained \/ ShutdownExpired
  \/ CloseServer \/ Collect \/ CloseRedis \/ ClosePostgres \/ Exit

Server == ServeBegins \/ AcceptStops

Next ==
  \/ Main \/ Server \/ AcceptFails \/ Signal \/ Exited
  \/ \E c \in Conns :
       Accept(c) \/ Begin(c) \/ Answer(c) \/ Break(c) \/ Abandon(c) \/ CloseIdle(c)

Spec == Init /\ [][Next]_vars

\* Every call of the main goroutine returns: the pings and Shutdown have
\* timeouts.  Nothing is assumed of handlers or of clients.
FairSpec == Spec /\ WF_vars(Main) /\ WF_vars(Server)

-----------------------------------------------------------------------------
(***************************************************************************)
(* Exit code 0 is a promise: the end was asked for, no handler lost its    *)
(* client or its database, and everything was closed (Serve joins the      *)
(* errors of Shutdown, Close, server.Serve and the closers).               *)
(***************************************************************************)
CleanExit ==
  exit = "0" =>
    /\ signalled
    /\ \A c \in Conns : conn[c] \in {"none", "answered", "closed"}
    /\ db = "closed" /\ redis = "closed" /\ listener = "closed"

(***************************************************************************)
(* The database is closed under connections, which then may be told an     *)
(* error for want of it, in one case only: the listener failed by itself   *)
(* and the select took that failure, so that no Shutdown was begun and the *)
(* process ends with an error.  That process may have been asked to stop   *)
(* as well: when the failure and the signal are both there the select      *)
(* takes either.  Every other way to the end closes the database after the *)
(* connections; after a forced Close the handlers that still run have had  *)
(* their contexts cancelled and their clients are gone.                    *)
(***************************************************************************)
StoppedBeforeClose ==
  db = "closed" /\ (\E c \in Conns : conn[c] \in {"idle", "active", "broken"}) =>
    ~ inShutdown /\ server = "returned" /\ failed

(***************************************************************************)
(* No way through the start or the end leaves a resource open: not a start *)
(* that fails half-way, not a listener that fails under a signal.          *)
(***************************************************************************)
NothingLeftOpen ==
  main = "exited" => \A r \in {db, redis, listener} : r # "open"

(***************************************************************************)
(* A signal, or the failure of the listener, ends the process, whatever    *)
(* the handlers do and whichever goroutine comes first.                    *)
(***************************************************************************)
Stops == signalled \/ serveErrors = "failed" ~> main = "exited"

-----------------------------------------------------------------------------
(***************************************************************************)
(* The inductive invariant behind CleanExit and StoppedBeforeClose.        *)
(*                                                                         *)
(* Wired: what exists at each point of the main goroutine.                 *)
(***************************************************************************)
Starting == main \in {"configure", "openPostgres", "build", "openRedis", "listen"}

Ending == main \in {"closeRedis", "closePostgres", "return", "exited"}

Wired ==
  /\ Starting => server = "none" /\ ~ inShutdown
  /\ main = "select" => server # "none" /\ ~ inShutdown
  /\ main \in {"configure", "openPostgres", "build", "openRedis"} => redis = "none"
  /\ main \in {"configure", "openPostgres"} => db = "none"
  /\ db = "closed" => main \in {"return", "exited"}
  /\ main \in {"return", "exited"} => db # "open" /\ redis # "open"
  /\ main = "closePostgres" => redis = "closed"
  /\ main \in {"shutdown", "close", "collect"} => inShutdown
  /\ exit # "none" <=> main = "exited"

(***************************************************************************)
(* Served: server.Serve runs from Listen to the end at most, and no other  *)
(* goroutine adds connections once it is over.                             *)
(***************************************************************************)
Served ==
  /\ server = "none" => listener = "none" /\ \A c \in Conns : conn[c] = "none"
  /\ server = "returned" => listener = "closed"
  /\ Ending => server \in {"none", "returned"}
  /\ main \in {"close", "collect"} => server # "accepting"
  /\ serveErrors # "none" => server = "returned"
  /\ serveErrors = "closed" => inShutdown
  /\ inShutdown => signalled /\ server # "none"

(***************************************************************************)
(* Settled: a shutdown leaves no connection behind, and whatever went      *)
(* wrong for a client has left an error in the result of Run.              *)
(***************************************************************************)
Settled ==
  /\ inShutdown /\ (main = "collect" \/ Ending) =>
       \A c \in Conns : conn[c] \notin {"idle", "active"}
  /\ \A c \in Conns : conn[c] = "broken" => db = "closed" /\ ~ inShutdown
  /\ \A c \in Conns : conn[c] \in {"orphan", "lost"} => failed
  /\ main = "close" => failed
  /\ Ending /\ ~ failed => inShutdown
  /\ main \in {"return", "exited"} /\ ~ failed => db = "closed" /\ redis = "closed"
  /\ exit = "0" => ~ failed

LifeInv == TypeOK /\ Wired /\ Served /\ Settled
=============================================================================
