---------------------------- MODULE HTTPPipeline ----------------------------
(***************************************************************************)
(* One HTTP request on its way through the chain of middleware, the mux,   *)
(* the authentication of its route, the handler and the service, and its   *)
(* answer on the way back, panics included.                                *)
(*                                                                         *)
(* The chain is a stack.  A request descends it, the innermost call is the *)
(* handler, and then either each layer returns or a panic unwinds them     *)
(* until one recovers it.  What is in a body is left out; an answer is its *)
(* status, the headers that were set when the status was written, and the  *)
(* envelopes written after it.  A connection carries one request after the *)
(* other.                                                                  *)
(***************************************************************************)
EXTENDS Integers, Sequences, TLC

CONSTANT NULL

(***************************************************************************)
(* Routes and what is checked on each before its service is called, in     *)
(* order: the access token, the id in the path, the body, and the end of a *)
(* mute.  A wrong method, an unknown path and a path that is not clean,    *)
(* which ServeMux itself redirects, are routes of their own that are never *)
(* served.                                                                 *)
(***************************************************************************)
SystemGuards == [healthz |-> << >>, readyz |-> << >>]

AuthGuards ==
  [register |-> <<"body">>, login |-> <<"body">>, logout |-> <<"token">>,
   refresh |-> <<"body">>]

ProfileGuards ==
  [me |-> <<"token">>, public |-> <<"path">>, update |-> <<"token", "body">>,
   delete |-> <<"token">>]

StatusGuards == [status |-> <<"token", "path", "body", "until">>]

FallbackGuards ==
  [wrongMethod |-> <<"method">>, unknownPath |-> <<"route">>, uncleanPath |-> <<"redirect">>]

Guards == SystemGuards @@ AuthGuards @@ ProfileGuards @@ StatusGuards @@ FallbackGuards

Routes == DOMAIN Guards

GuardError(guard) ==
  CASE guard = "token" -> "invalid_access_token"
    [] guard \in {"path", "until"} -> "validation_failed"
    [] guard = "body" -> "invalid_request"
    [] guard = "method" -> "method_not_allowed"
    [] guard = "route" -> "not_found"
    [] guard = "redirect" -> "moved"

\* The order in which Routes wraps the mux.  Its mutant recovers a panic outside
\* the access log.
ChainRecoveryOutside == <<"RequestID", "Recovery", "AccessLog">>

Chain == <<"RequestID", "AccessLog", "Recovery">>

\* What a service returns: a result, or one of its errors.
AuthErrors ==
  [register |-> {"validation_failed", "email_already_registered"},
   login |-> {"invalid_credentials"}, logout |-> {}, refresh |-> {"invalid_refresh_token"}]

ProfileErrors ==
  [me |-> {"session_invalid"}, public |-> {"user_not_found"},
   update |-> {"validation_failed", "session_invalid", "user_frozen"},
   delete |-> {"session_invalid", "user_frozen"}]

StatusErrors ==
  [status |-> {"validation_failed", "session_invalid", "user_frozen", "admin_required",
               "admin_target_forbidden", "user_not_found", "invalid_status_transition"}]

IdentityErrors == AuthErrors @@ ProfileErrors @@ StatusErrors

\* "unencodable" is data that json.Marshal refuses, like a year beyond 9999.
Outcomes(rt) ==
  {"data", "unencodable"} \cup
  (IF rt \in DOMAIN IdentityErrors THEN IdentityErrors[rt] \cup {"internal_error"}
   ELSE IF rt = "readyz" THEN {"dependency_unavailable"} ELSE {})

\* handlerError and statusForKind.
StatusOf(rt, code) ==
  CASE code = "data" -> IF rt = "register" THEN 201 ELSE 200
    [] code = "moved" -> 307
    [] code \in {"invalid_request", "validation_failed"} -> 400
    [] code \in {"invalid_access_token", "session_invalid", "invalid_credentials",
                 "invalid_refresh_token"} -> 401
    [] code \in {"user_frozen", "admin_required", "admin_target_forbidden"} -> 403
    [] code \in {"not_found", "user_not_found"} -> 404
    [] code = "method_not_allowed" -> 405
    [] code \in {"email_already_registered", "invalid_status_transition"} -> 409
    [] code = "dependency_unavailable" -> 503
    [] OTHER -> 500

VARIABLES
  mode,       \* idle, in (descending), out (returning), panic (unwinding)
  depth,      \* the layer the request is in; beyond the chain, the handler
  route,
  guards,     \* the checks its handler has still to make
  sent,       \* the id the client put into X-Request-ID: good, bad, or none
  id,         \* the id of the request, in its context
  headers,    \* headers set so far
  wire,       \* what has been written to the connection
  log,        \* entries of the access log
  outcome     \* what decided the request: a check, the service, or a panic (history)

vars == <<mode, depth, route, guards, sent, id, headers, wire, log, outcome>>

NoAnswer == [status |-> 0, headers |-> {}, envelopes |-> << >>]

HeaderNames == {"X-Request-ID", "WWW-Authenticate", "Allow"}

TypeOK ==
  /\ mode \in {"idle", "in", "out", "panic"}
  /\ depth \in 1 .. Len(Chain) + 1
  /\ route \in Routes \cup {NULL}
  /\ sent \in {"good", "bad", NULL}
  /\ id \in {"good", "drawn", NULL}
  /\ headers \subseteq HeaderNames
  /\ wire.status = 0 => wire.envelopes = << >>
  /\ Len(log) <= 1

Init ==
  /\ mode = "idle"
  /\ depth = 1
  /\ route = NULL
  /\ guards = << >>
  /\ sent = NULL
  /\ id = NULL
  /\ headers = {}
  /\ wire = NoAnswer
  /\ log = << >>
  /\ outcome = NULL

-----------------------------------------------------------------------------
AtHandler == mode = "in" /\ depth > Len(Chain)

\* The request a layer was called with has the id only below the layer that
\* put it into the context.
IdAt(d) == IF \E k \in 1 .. d - 1 : Chain[k] = "RequestID" THEN id ELSE NULL

Arrive(rt, header) ==
  /\ mode = "idle"
  /\ mode' = "in"
  /\ depth' = 1
  /\ route' = rt
  /\ guards' = Guards[rt]
  /\ sent' = header
  /\ id' = NULL
  /\ headers' = {}
  /\ wire' = NoAnswer
  /\ log' = << >>
  /\ outcome' = NULL

\* A layer calls the next one.  The mutant keeps whatever id the client sent.
EnterUnchecked ==
  /\ mode = "in" /\ depth <= Len(Chain)
  /\ depth' = depth + 1
  /\ IF Chain[depth] = "RequestID"
       THEN /\ id' = IF sent = NULL THEN "drawn" ELSE sent
            /\ headers' = headers \cup {"X-Request-ID"}
       ELSE UNCHANGED <<id, headers>>
  /\ UNCHANGED <<mode, route, guards, sent, wire, log, outcome>>

Enter ==
  /\ mode = "in" /\ depth <= Len(Chain)
  /\ depth' = depth + 1
  /\ IF Chain[depth] = "RequestID"
       THEN /\ id' = IF sent = "good" THEN sent ELSE "drawn"
            /\ headers' = headers \cup {"X-Request-ID"}
       ELSE UNCHANGED <<id, headers>>
  /\ UNCHANGED <<mode, route, guards, sent, wire, log, outcome>>

\* What writeJSON writes; the envelope it falls back on does not know the id.
Envelope(code, i) ==
  IF code = "unencodable" THEN [code |-> "internal_error", id |-> NULL]
                          ELSE [code |-> code, id |-> i]

\* writeJSON through the statusRecorder: the first status stands, the headers
\* set by then go with it, and every envelope is written.  A redirect has none.
Written(w, hs, code, d) ==
  [status    |-> IF w.status # 0 THEN w.status ELSE StatusOf(route, code),
   headers   |-> IF w.status # 0 THEN w.headers ELSE hs,
   envelopes |-> IF code = "moved" THEN w.envelopes
                 ELSE Append(w.envelopes, Envelope(code, IdAt(d)))]

Challenges(code) ==
  IF code = "method_not_allowed" THEN {"Allow"}
  ELSE IF StatusOf(route, code) = 401 THEN {"WWW-Authenticate"} ELSE {}

\* WriteData or writeError.  The mutant sets the headers of an error after it
\* has written it.
RespondThenChallenge(code) ==
  /\ headers' = headers \cup Challenges(code)
  /\ wire' = Written(wire, headers, code, depth)

Respond(code) ==
  /\ headers' = headers \cup Challenges(code)
  /\ wire' = Written(wire, headers', code, depth)

CheckGuard ==
  /\ AtHandler
  /\ guards # << >>
  /\ guards' = Tail(guards)
  /\ \/ /\ Head(guards) \notin {"method", "route", "redirect"}
        /\ UNCHANGED <<mode, headers, wire, outcome>>
     \/ /\ Respond(GuardError(Head(guards)))
        /\ outcome' = GuardError(Head(guards))
        /\ mode' = "out"
  /\ UNCHANGED <<depth, route, sent, id, log>>

\* The service returns.  The mutant forgets the return after an error.
CallServiceFallThrough ==
  /\ AtHandler
  /\ guards = << >>
  /\ \E code \in Outcomes(route) :
       /\ outcome' = code
       /\ headers' = headers \cup Challenges(code)
       /\ wire' = IF code = "data" THEN Written(wire, headers', code, depth)
                  ELSE Written(Written(wire, headers', code, depth), headers', "data", depth)
  /\ mode' = "out"
  /\ UNCHANGED <<depth, route, guards, sent, id, log>>

CallService ==
  /\ AtHandler
  /\ guards = << >>
  /\ \E code \in Outcomes(route) : outcome' = code /\ Respond(code)
  /\ mode' = "out"
  /\ UNCHANGED <<depth, route, guards, sent, id, log>>

\* Something below the chain panics.  It has not answered by then: WriteData and
\* writeError are the last statement of every path through a handler, and writing
\* to the connection does not panic.
Panic ==
  /\ AtHandler
  /\ outcome' = "internal_error"
  /\ mode' = "panic"
  /\ UNCHANGED <<depth, route, guards, sent, id, headers, wire, log>>

\* A panic passes a layer, or the deferred call there recovers it.
Unwind ==
  /\ mode = "panic"
  /\ depth > 1
  /\ depth' = depth - 1
  /\ IF Chain[depth - 1] = "Recovery"
       THEN /\ wire' = Written(wire, headers, "internal_error", depth - 1)
            /\ mode' = "out"
       ELSE UNCHANGED <<wire, mode>>
  /\ UNCHANGED <<route, guards, sent, id, headers, log, outcome>>

Return ==
  /\ mode = "out"
  /\ depth > 1
  /\ depth' = depth - 1
  /\ log' = IF Chain[depth - 1] = "AccessLog"
              THEN Append(log, [status |-> wire.status, id |-> IdAt(depth - 1)])
              ELSE log
  /\ UNCHANGED <<mode, route, guards, sent, id, headers, wire, outcome>>

\* The handler returns to net/http, which takes the next request.
Finish ==
  /\ mode = "out" /\ depth = 1
  /\ mode' = "idle"
  /\ UNCHANGED <<depth, route, guards, sent, id, headers, wire, log, outcome>>

Next ==
  \/ \E rt \in Routes, header \in {"good", "bad", NULL} : Arrive(rt, header)
  \/ Enter \/ CheckGuard \/ CallService \/ Panic \/ Unwind \/ Return \/ Finish

Spec == Init /\ [][Next]_vars

-----------------------------------------------------------------------------
Answered == mode = "idle" /\ route # NULL

(***************************************************************************)
(* The client is told what happened: one envelope, for the check that      *)
(* failed, for what the service returned, or for the panic, under the      *)
(* status that belongs to it and under the id in X-Request-ID.  There are  *)
(* two exceptions: the redirect of ServeMux has no envelope, and data that *)
(* cannot be encoded becomes an internal error whose envelope lacks the    *)
(* id.                                                                     *)
(***************************************************************************)
AnswerTruthful ==
  Answered =>
    /\ \/ outcome = "moved" /\ wire.envelopes = << >>
       \/ /\ outcome = "unencodable"
          /\ wire.envelopes = << [code |-> "internal_error", id |-> NULL] >>
       \/ /\ outcome \notin {"moved", "unencodable"}
          /\ wire.envelopes = << [code |-> outcome, id |-> id] >>
    /\ wire.status = StatusOf(route, outcome)
    /\ "X-Request-ID" \in wire.headers

(***************************************************************************)
(* A 401 carries its challenge and a 405 the methods allowed, and no other *)
(* answer does: headers set after the status would be lost.                *)
(***************************************************************************)
HeadersFitStatus ==
  Answered =>
    /\ "WWW-Authenticate" \in wire.headers <=> wire.status = 401
    /\ "Allow" \in wire.headers <=> wire.status = 405

(***************************************************************************)
(* "Access Log is outside Recovery, so that a panic has become a 500 when  *)
(* the status is logged; Request ID is outermost": every request is logged *)
(* once, with the status that was sent and its id.                         *)
(***************************************************************************)
LoggedAsSent ==
  Answered => log = << [status |-> wire.status, id |-> id] >>

-----------------------------------------------------------------------------
(***************************************************************************)
(* The inductive invariant behind the three, by the way a request is on.   *)
(*                                                                         *)
(* Descending: below RequestID the request has its id and the header      *)
(* that tells it, and nothing has been written or logged.                  *)
(***************************************************************************)
Descending ==
  /\ wire = NoAnswer
  /\ log = << >>
  /\ headers = IF depth = 1 THEN {} ELSE {"X-Request-ID"}

(***************************************************************************)
(* Returning: at most one envelope is written, for what decided it, and    *)
(* the access log has its entry as soon as the request is above it.        *)
(***************************************************************************)
Returning ==
  /\ wire = [status    |-> StatusOf(route, outcome),
             headers   |-> {"X-Request-ID"} \cup Challenges(outcome),
             envelopes |-> IF outcome = "moved" THEN << >> ELSE << Envelope(outcome, id) >>]
  /\ log = IF depth > 2 THEN << >> ELSE << [status |-> wire.status, id |-> id] >>

\* A panic is recovered by the layer next to the handler.
PipelineInv ==
  /\ TypeOK
  /\ mode = "in" => Descending
  /\ mode = "panic" => Descending /\ depth = Len(Chain) + 1 /\ outcome = "internal_error"
  /\ mode = "out" => Returning
  /\ Answered => Returning /\ depth = 1
=============================================================================
