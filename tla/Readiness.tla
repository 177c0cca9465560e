------------------------------ MODULE Readiness ------------------------------
(***************************************************************************)
(* The readiness probe: Ready calls Service.Readiness, which checks        *)
(* PostgreSQL and Redis at the same time, each in a goroutine with a       *)
(* timeout of its own, and collects the two results from one channel.      *)
(*                                                                         *)
(* A dependency may stop and come back at any time, refuse a ping or stay  *)
(* silent; the client may leave, which ends the context of both checks.    *)
(* A driver may return from Ping later than its context ends.  The Redis   *)
(* client is made without ContextTimeoutEnabled, so that a read under way  *)
(* ends with the client's own read timeout, not with the context.  Nothing *)
(* in the code bounds this: that the driver of d outlives its context by   *)
(* no more than Grace[d] is an assumption on the drivers.                  *)
(***************************************************************************)
EXTENDS FiniteSetsExt, Integers, Sequences

CONSTANTS
  Probes,       \* requests for /readyz
  Timeout,      \* DATABASE_PING_TIMEOUT and REDIS_PING_TIMEOUT
  Grace         \* how long the driver of each outlives its context

Dependencies == {"postgres", "redis"}

ASSUME TimeoutAssumption == Timeout \in [Dependencies -> Nat \ {0}]
ASSUME GraceAssumption == Grace \in [Dependencies -> Nat]

VARIABLES
  reachable,    \* whether a dependency answers pings
  handler,      \* the goroutine of the request
  ping,         \* the goroutine of each check
  results,      \* the channel between them
  timer,        \* what is left of the timeout of each check
  checks,       \* the map of the results collected
  age,          \* time since the request arrived
  gone,         \* whether the client has left
  code,         \* the status answered, or 0
  heard         \* the dependencies that answered this probe (history)

vars == <<reachable, handler, ping, results, timer, checks, age, gone, code, heard>>

States == {"up", "down"}

Result == [name : Dependencies, state : States]

\* What a map of results may hold.
Checks == UNION {[known -> States] : known \in SUBSET Dependencies}

TypeOK ==
  /\ reachable \in [Dependencies -> BOOLEAN]
  /\ handler \in [Probes -> {"idle", "collect", "done"}]
  /\ ping \in [Probes -> [Dependencies -> {"idle", "waiting", "ended"}]]
  /\ results \in [Probes -> Seq(Result)]
  /\ \A p \in Probes : Len(results[p]) <= 2
  /\ checks \in [Probes -> Checks]
  /\ timer \in [Probes -> [Dependencies -> Int]]
  /\ age \in [Probes -> Nat]
  /\ gone \in [Probes -> BOOLEAN]
  /\ code \in [Probes -> {0, 200, 503}]
  /\ heard \in [Probes -> SUBSET Dependencies]

Init ==
  /\ reachable \in [Dependencies -> BOOLEAN]
  /\ handler = [p \in Probes |-> "idle"]
  /\ ping = [p \in Probes |-> [d \in Dependencies |-> "idle"]]
  /\ results = [p \in Probes |-> << >>]
  /\ checks = [p \in Probes |-> << >>]
  /\ timer = [p \in Probes |-> Timeout]
  /\ age = [p \in Probes |-> 0]
  /\ gone = [p \in Probes |-> FALSE]
  /\ code = [p \in Probes |-> 0]
  /\ heard = [p \in Probes |-> {}]

-----------------------------------------------------------------------------
\* The context of each check starts with its goroutine.  The mutant runs the
\* checks one after the other.
BeginInTurn(p) ==
  \/ /\ handler[p] = "idle"
     /\ handler' = [handler EXCEPT ![p] = "collect"]
     /\ ping' = [ping EXCEPT ![p]["postgres"] = "waiting"]
     /\ UNCHANGED <<reachable, results, timer, checks, age, gone, code, heard>>
  \/ /\ ping[p]["postgres"] = "ended" /\ ping[p]["redis"] = "idle"
     /\ ping' = [ping EXCEPT ![p]["redis"] = "waiting"]
     /\ UNCHANGED <<reachable, handler, results, timer, checks, age, gone, code, heard>>

Begin(p) ==
  /\ handler[p] = "idle"
  /\ handler' = [handler EXCEPT ![p] = "collect"]
  /\ ping' = [ping EXCEPT ![p] = [d \in Dependencies |-> "waiting"]]
  /\ UNCHANGED <<reachable, results, timer, checks, age, gone, code, heard>>

\* checkDependency returns: its result goes into the channel, which has room
\* for both.  A mutant sends every attempt.
SendOn(p, d, state) ==
  /\ results' = [results EXCEPT ![p] = Append(@, [name |-> d, state |-> state])]
  /\ UNCHANGED ping

Send(p, d, state) ==
  /\ ping' = [ping EXCEPT ![p][d] = "ended"]
  /\ results' = [results EXCEPT ![p] = Append(@, [name |-> d, state |-> state])]

PingAnswers(p, d) ==
  /\ ping[p][d] = "waiting"
  /\ reachable[d]
  /\ Send(p, d, "up")
  /\ heard' = [heard EXCEPT ![p] = @ \cup {d}]
  /\ UNCHANGED <<reachable, handler, timer, checks, age, gone, code>>

ContextEnded(p, d) == gone[p] \/ timer[p][d] <= 0

\* A refused connection, or the end of the context.  The mutant waits for the
\* dependency alone.
PingFailsUntimed(p, d) ==
  /\ ping[p][d] = "waiting"
  /\ ~ reachable[d]
  /\ gone[p]
  /\ Send(p, d, "down")
  /\ UNCHANGED <<reachable, handler, timer, checks, age, gone, code, heard>>

PingFails(p, d) ==
  /\ ping[p][d] = "waiting"
  /\ ~ reachable[d] \/ ContextEnded(p, d)
  /\ Send(p, d, "down")
  /\ UNCHANGED <<reachable, handler, timer, checks, age, gone, code, heard>>

Arrived(found, result) ==
  [d \in DOMAIN found \cup {result.name} |->
     IF d = result.name THEN result.state ELSE found[d]]

Found(found, d, state) == d \in DOMAIN found /\ found[d] = state

\* The status of a Readiness, and the HTTP status that Ready makes of it.
Verdict(found) ==
  IF Found(found, "postgres", "down") THEN "not_ready"
  ELSE IF Found(found, "redis", "down") THEN "degraded"
  ELSE "ready"

HttpStatus(verdict) == IF verdict = "not_ready" THEN 503 ELSE 200

Collected(found) == DOMAIN found = Dependencies

\* A mutant that is content with the first result.
CollectOne(p) ==
  /\ handler[p] = "collect"
  /\ results[p] # << >>
  /\ checks' = [checks EXCEPT ![p] = Arrived(@, Head(results[p]))]
  /\ handler' = [handler EXCEPT ![p] = "done"]
  /\ code' = [code EXCEPT ![p] = HttpStatus(Verdict(checks'[p]))]
  /\ results' = [results EXCEPT ![p] = Tail(@)]
  /\ UNCHANGED <<reachable, ping, timer, age, gone, heard>>

\* One round of the loop in Readiness; the second one ends in the answer.
Collect(p) ==
  /\ handler[p] = "collect"
  /\ results[p] # << >>
  /\ results' = [results EXCEPT ![p] = Tail(@)]
  /\ LET found == Arrived(checks[p], Head(results[p])) IN
     /\ checks' = [checks EXCEPT ![p] = found]
     /\ \/ ~ Collected(found) /\ UNCHANGED <<handler, code>>
        \/ /\ Collected(found)
           /\ handler' = [handler EXCEPT ![p] = "done"]
           /\ code' = [code EXCEPT ![p] = HttpStatus(Verdict(found))]
  /\ UNCHANGED <<reachable, ping, timer, age, gone, heard>>

Leave(p) ==
  /\ handler[p] = "collect"
  /\ ~ gone[p]
  /\ gone' = [gone EXCEPT ![p] = TRUE]
  /\ UNCHANGED <<reachable, handler, ping, results, timer, checks, age, code, heard>>

-----------------------------------------------------------------------------
\* Time passes for a request while it waits for a ping.  Goroutines that can
\* run do so before it passes; that a driver does not outstay its grace is the
\* assumption on the drivers, not something that the code sees to.
Waiting(p) == {d \in Dependencies : ping[p][d] = "waiting"}

Tick(p) ==
  /\ Waiting(p) # {}
  /\ \A d \in Waiting(p) : timer[p][d] + Grace[d] > 0
  /\ timer' = [timer EXCEPT ![p] =
                 [d \in Dependencies |-> IF d \in Waiting(p) THEN @[d] - 1 ELSE @[d]]]
  /\ age' = [age EXCEPT ![p] = @ + 1]
  /\ UNCHANGED <<reachable, handler, ping, results, checks, gone, code, heard>>

Flip(d) ==
  /\ reachable' = [reachable EXCEPT ![d] = ~ @]
  /\ UNCHANGED <<handler, ping, results, timer, checks, age, gone, code, heard>>

Serve(p) ==
  \/ \E d \in Dependencies : PingAnswers(p, d) \/ PingFails(p, d)
  \/ Collect(p)

Next ==
  \/ \E p \in Probes : Begin(p) \/ Serve(p) \/ Leave(p) \/ Tick(p)
  \/ \E d \in Dependencies : Flip(d)

Spec == Init /\ [][Next]_vars

\* Timers run, a ping whose context has ended returns, and the handler is
\* scheduled.  Nothing is assumed of the dependencies or the client.
FairSpec ==
  /\ Spec
  /\ \A p \in Probes :
       /\ WF_vars(Tick(p))
       /\ WF_vars(Collect(p))
       /\ \A d \in Dependencies : WF_vars(ContextEnded(p, d) /\ PingFails(p, d))

-----------------------------------------------------------------------------
(***************************************************************************)
(* The answer says what the dependencies did: 200 only if PostgreSQL has   *)
(* answered a ping of this very probe, "ready" only if both have, and 503  *)
(* only if PostgreSQL has not.  A result that is missing from the map      *)
(* would read as one that is up.                                           *)
(***************************************************************************)
VerdictEarned ==
  \A p \in Probes : handler[p] = "done" =>
    /\ code[p] = 200 <=> "postgres" \in heard[p]
    /\ Verdict(checks[p]) = "ready" <=> heard[p] = Dependencies

(***************************************************************************)
(* Both checks run at once (Readiness starts their goroutines before it    *)
(* collects): with drivers that keep their grace, a probe waits for the    *)
(* slower of the two checks, never for one after the other.                *)
(***************************************************************************)
WaitsForTheLonger ==
  \A p \in Probes : age[p] <= Max({Timeout[d] + Grace[d] : d \in Dependencies})

(***************************************************************************)
(* Every probe is answered, also if a dependency never is.                 *)
(***************************************************************************)
ProbeAnswered == \A p \in Probes : handler[p] = "collect" ~> handler[p] = "done"

-----------------------------------------------------------------------------
(***************************************************************************)
(* The inductive invariant behind VerdictEarned and WaitsForTheLonger.     *)
(*                                                                         *)
(* Once: a check sends one result, which is in the channel or in the map,  *)
(* and the result is "up" exactly if the dependency has answered.          *)
(***************************************************************************)
Once(p) ==
  /\ \A k \in 1 .. Len(results[p]) :
       LET result == results[p][k] IN
       /\ ping[p][result.name] = "ended"
       /\ result.name \notin DOMAIN checks[p]
       /\ result.state = "up" <=> result.name \in heard[p]
       /\ \A l \in 1 .. Len(results[p]) : results[p][l].name = result.name => l = k
  /\ \A d \in DOMAIN checks[p] :
       /\ ping[p][d] = "ended"
       /\ checks[p][d] = "up" <=> d \in heard[p]
  /\ \A d \in heard[p] : ping[p][d] = "ended"

(***************************************************************************)
(* Decided: the handler answers when the map is complete, and not before,  *)
(* with the status that the map calls for.                                 *)
(***************************************************************************)
Decided(p) ==
  /\ handler[p] = "done" <=> Collected(checks[p])
  /\ handler[p] = "done" => code[p] = HttpStatus(Verdict(checks[p]))
  /\ \A d \in Dependencies : handler[p] = "idle" <=> ping[p][d] = "idle"

(***************************************************************************)
(* Timed: the timeouts of the checks that wait began with the request.     *)
(***************************************************************************)
Timed(p) ==
  \A d \in Dependencies :
    /\ ping[p][d] = "idle" => age[p] = 0
    /\ ping[p][d] # "ended" => timer[p][d] = Timeout[d] - age[p]

ReadinessInv ==
  /\ TypeOK
  /\ \A p \in Probes : Once(p) /\ Decided(p) /\ Timed(p)
  /\ WaitsForTheLonger
=============================================================================
