----------------------- MODULE ServerLifecycleProofs -----------------------
(***************************************************************************)
(* The end of the server process for any number of connections: exit code  *)
(* 0 only after a clean end, and a database that outlives the connections  *)
(* unless the listener failed by itself.                                   *)
(***************************************************************************)
EXTENDS ServerLifecycle, TLAPS

\* A process about to start satisfies the invariant.
LEMMA InitLife == Init => LifeInv
  BY DEF Init, LifeInv, TypeOK, Resource, Conn, Wired, Served, Settled,
         Starting, Ending

\* Every step of main, of server.Serve, of a handler and of a client keeps it.
LEMMA NextLife == LifeInv /\ [Next]_vars => LifeInv'
<1>1. SUFFICES ASSUME LifeInv, [Next]_vars
               PROVE  LifeInv'
  OBVIOUS
<1> USE <1>1 DEF LifeInv, TypeOK, Resource, Conn, Wired, Served, Settled,
                 Starting, Ending, resources, http
<1>2. CASE OpenPostgres
  BY <1>2 DEF OpenPostgres, Move
<1>3. CASE BuildServices
  BY <1>3 DEF BuildServices, Move
<1>4. CASE OpenRedis
  BY <1>4 DEF OpenRedis, Move
<1>5. CASE Listen
  BY <1>5 DEF Listen, Move
<1>6. CASE ServeReturned
  BY <1>6 DEF ServeReturned, Move, Join
<1>7. CASE Shutdown
  BY <1>7 DEF Shutdown, Move
<1>8. CASE ShutdownDrained
  <2> USE <1>8 DEF ShutdownDrained, Move
  <2>1. TypeOK'
    OBVIOUS
  <2>2. Wired' /\ Served'
    OBVIOUS
  <2>3. Settled'
    OBVIOUS
  <2> QED
    BY <2>1, <2>2, <2>3
<1>9. CASE ShutdownExpired
  BY <1>9 DEF ShutdownExpired, Move
<1>10. CASE CloseServer
  BY <1>10 DEF CloseServer, Move
<1>11. CASE Collect
  BY <1>11 DEF Collect, Move, Join
<1>12. CASE CloseRedis
  BY <1>12 DEF CloseRedis, Move, Join
<1>13. CASE ClosePostgres
  BY <1>13 DEF ClosePostgres, Move, Join
<1>14. CASE Exit
  BY <1>14 DEF Exit, Move
<1>15. CASE ServeBegins
  BY <1>15 DEF ServeBegins, ServeReturns
<1>16. CASE AcceptStops
  BY <1>16 DEF AcceptStops, ServeReturns
<1>17. CASE AcceptFails
  BY <1>17 DEF AcceptFails, ServeReturns
<1>18. CASE Signal
  BY <1>18 DEF Signal
<1>19. CASE Exited \/ UNCHANGED vars
  BY <1>19 DEF Exited, vars
<1>20. CASE Configure
  BY <1>20 DEF Configure, Move
<1>21. CASE \E c \in Conns :
              Accept(c) \/ Begin(c) \/ Answer(c) \/ Break(c) \/ Abandon(c) \/ CloseIdle(c)
  BY <1>21 DEF Accept, Begin, Answer, Break, Abandon, CloseIdle, SetConn
<1> QED
  BY <1>2, <1>3, <1>4, <1>5, <1>6, <1>7, <1>8, <1>9, <1>10, <1>11,
     <1>12, <1>13, <1>14, <1>15, <1>16, <1>17, <1>18, <1>19, <1>20, <1>21
     DEF Next, Main, Server

(***************************************************************************)
(* The invariant holds in every reachable state.                           *)
(***************************************************************************)
THEOREM LifeInvariant == Spec => []LifeInv
  BY InitLife, NextLife, PTL DEF Spec

(***************************************************************************)
(* The process ends with code 0 only after a signal, with every request it *)
(* began answered and every resource closed (Serve and closeResources).    *)
(***************************************************************************)
THEOREM ExitsClean == Spec => []CleanExit
<1>1. LifeInv => CleanExit
  BY DEF LifeInv, TypeOK, Resource, Conn, Wired, Served, Settled, CleanExit, Ending
<1> QED
  BY <1>1, LifeInvariant, PTL

(***************************************************************************)
(* The database is closed under connections only in a process whose        *)
(* listener failed by itself, that began no Shutdown and that ends with an *)
(* error; everywhere else, forced shutdown included, they are gone first   *)
(* (Serve and closeResources).                                             *)
(***************************************************************************)
THEOREM DatabaseClosesLast == Spec => []StoppedBeforeClose
<1>1. LifeInv => StoppedBeforeClose
  BY DEF LifeInv, TypeOK, Conn, Wired, Served, Settled, StoppedBeforeClose, Ending
<1> QED
  BY <1>1, LifeInvariant, PTL

(***************************************************************************)
(* However the process ends, also when its start fails half-way, it has    *)
(* closed what it opened.                                                  *)
(***************************************************************************)
THEOREM ClosesEverything == Spec => []NothingLeftOpen
<1>1. LifeInv => NothingLeftOpen
  BY DEF LifeInv, TypeOK, Resource, Wired, Served, NothingLeftOpen, Ending
<1> QED
  BY <1>1, LifeInvariant, PTL

(***************************************************************************)
(* Main, the resources and the connections are always in a known state.    *)
(***************************************************************************)
THEOREM LifeTyped == Spec => []TypeOK
<1>1. LifeInv => TypeOK
  BY DEF LifeInv
<1> QED
  BY <1>1, LifeInvariant, PTL
=============================================================================
