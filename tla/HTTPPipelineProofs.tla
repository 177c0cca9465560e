------------------------- MODULE HTTPPipelineProofs -------------------------
(***************************************************************************)
(* What the client and the access log are told, of every request that a    *)
(* connection carries.                                                     *)
(***************************************************************************)
EXTENDS HTTPPipeline, TLAPS

\* The layers and their order.
LEMMA Layers ==
  /\ Len(Chain) = 3
  /\ Chain[1] = "RequestID" /\ Chain[2] = "AccessLog" /\ Chain[3] = "Recovery"
BY DEF Chain

\* The id is known to every layer below the first.
LEMMA IdBelow ==
  ASSUME NEW d \in 2 .. 4
  PROVE  IdAt(d) = id
BY Layers DEF IdAt

\* Every answer has a status, and which ones have a challenge.
LEMMA Statuses ==
  ASSUME NEW rt, NEW code
  PROVE  /\ StatusOf(rt, code) # 0
         /\ StatusOf(rt, code) = 405 <=> code = "method_not_allowed"
         /\ StatusOf(rt, "internal_error") = 500
BY DEF StatusOf

\* The challenge that goes with a status.
LEMMA ChallengesFit ==
  ASSUME NEW code
  PROVE  /\ Challenges(code) \subseteq HeaderNames
         /\ "X-Request-ID" \notin Challenges(code)
         /\ "WWW-Authenticate" \in Challenges(code) <=> StatusOf(route, code) = 401
         /\ "Allow" \in Challenges(code) <=> StatusOf(route, code) = 405
BY Statuses DEF Challenges, HeaderNames

\* The first envelope decides the status and the headers.
LEMMA FirstAnswer ==
  ASSUME NEW hs, NEW code, NEW d \in 2 .. 4
  PROVE  Written(NoAnswer, hs, code, d) =
           [status    |-> StatusOf(route, code),
            headers   |-> hs,
            envelopes |-> IF code = "moved" THEN << >> ELSE << Envelope(code, id) >>]
BY IdBelow DEF Written, NoAnswer

\* A server without requests satisfies the invariant.
LEMMA InitPipeline == Init => PipelineInv
BY Layers DEF Init, PipelineInv, TypeOK, NoAnswer, HeaderNames, Answered

\* A request arrives on a connection that has none.
LEMMA ArriveStep ==
  ASSUME PipelineInv, NEW rt \in Routes, NEW header \in {"good", "bad", NULL},
         Arrive(rt, header)
  PROVE  PipelineInv'
BY Layers DEF PipelineInv, Arrive, TypeOK, NoAnswer, HeaderNames, Answered, Descending

\* A layer calls the next one.
LEMMA EnterStep ==
  ASSUME PipelineInv, Enter
  PROVE  PipelineInv'
<1>0. /\ TypeOK /\ Descending /\ depth \in 1 .. 3 /\ depth' = depth + 1
      /\ mode = "in" /\ mode' = "in" /\ wire' = wire /\ log' = log
  BY Layers DEF PipelineInv, Enter, TypeOK
<1>1. headers' = {"X-Request-ID"} /\ id' \in {"good", "drawn", NULL}
  <2>1. CASE depth = 1
    BY <1>0, <2>1, Layers DEF Enter, Descending, TypeOK
  <2>2. CASE depth # 1
    BY <1>0, <2>2, Layers DEF Enter, Descending, TypeOK
  <2> QED BY <2>1, <2>2
<1>2. TypeOK'
  BY <1>0, <1>1, Layers DEF TypeOK, Enter, HeaderNames
<1>3. Descending'
  BY <1>0, <1>1 DEF Descending
<1> QED
  BY <1>0, <1>2, <1>3 DEF PipelineInv, Answered

\* What a request has below the chain.
LEMMA BelowTheChain ==
  ASSUME PipelineInv, mode \in {"in", "panic"}, depth > Len(Chain)
  PROVE  /\ TypeOK /\ depth = 4 /\ wire = NoAnswer /\ log = << >>
         /\ headers = {"X-Request-ID"}
BY Layers DEF PipelineInv, TypeOK, Descending

\* The handler answers once, and the request returns.
LEMMA RespondStep ==
  ASSUME PipelineInv, AtHandler, NEW code, Respond(code), outcome' = code, mode' = "out",
         depth' = depth, route' = route, sent' = sent, id' = id, log' = log
  PROVE  PipelineInv'
<1>1. /\ TypeOK /\ depth = 4 /\ wire = NoAnswer /\ log = << >> /\ headers = {"X-Request-ID"}
  BY BelowTheChain DEF AtHandler
<1>2. /\ headers' = {"X-Request-ID"} \cup Challenges(code)
      /\ wire' = [status    |-> StatusOf(route, code),
                  headers   |-> headers',
                  envelopes |-> IF code = "moved" THEN << >> ELSE << Envelope(code, id) >>]
  <2>1. headers' = {"X-Request-ID"} \cup Challenges(code) BY <1>1 DEF Respond
  <2>2. wire' = Written(NoAnswer, headers', code, 4) BY <1>1 DEF Respond
  <2>3. 4 \in 2 .. 4 OBVIOUS
  <2>4. Written(NoAnswer, headers', code, 4) =
          [status    |-> StatusOf(route, code),
           headers   |-> headers',
           envelopes |-> IF code = "moved" THEN << >> ELSE << Envelope(code, id) >>]
    BY <2>3, FirstAnswer
  <2> QED BY <2>1, <2>2, <2>4
<1>3. Challenges(code)' = Challenges(code) BY DEF Challenges
<1>4. Returning'
  BY <1>1, <1>2, <1>3 DEF Returning
<1>5. TypeOK'
  BY <1>1, <1>2, Statuses, ChallengesFit DEF TypeOK, HeaderNames
<1> QED BY <1>4, <1>5 DEF PipelineInv, Answered

\* A check of the handler passes or answers.
LEMMA CheckGuardStep ==
  ASSUME PipelineInv, CheckGuard
  PROVE  PipelineInv'
<1>1. CASE UNCHANGED <<mode, headers, wire, outcome>>
  BY <1>1 DEF CheckGuard, PipelineInv, TypeOK, Descending, AtHandler, Answered
<1>2. CASE /\ Respond(GuardError(Head(guards))) /\ mode' = "out"
           /\ outcome' = GuardError(Head(guards))
  BY <1>2, RespondStep DEF CheckGuard
<1> QED BY <1>1, <1>2 DEF CheckGuard

\* A panic is met by the layer above the handler, which answers for it.
LEMMA UnwindStep ==
  ASSUME PipelineInv, Unwind
  PROVE  PipelineInv'
<1>1. /\ TypeOK /\ depth = 4 /\ wire = NoAnswer /\ log = << >> /\ headers = {"X-Request-ID"}
      /\ outcome = "internal_error"
  BY BelowTheChain, Layers DEF Unwind, PipelineInv
<1>2. /\ depth' = 3 /\ mode' = "out" /\ wire' = Written(wire, headers, "internal_error", 3)
  BY <1>1, Layers DEF Unwind
<1>3. wire' = [status    |-> StatusOf(route, "internal_error"),
               headers   |-> headers,
               envelopes |-> << Envelope("internal_error", id) >>]
  <2>1. 3 \in 2 .. 4 OBVIOUS
  <2>2. Written(NoAnswer, headers, "internal_error", 3) =
          [status    |-> StatusOf(route, "internal_error"),
           headers   |-> headers,
           envelopes |-> << Envelope("internal_error", id) >>]
    BY <2>1, FirstAnswer
  <2> QED BY <1>1, <1>2, <2>2
<1>4. Challenges("internal_error") = {} BY Statuses DEF Challenges
<1>5. Challenges("internal_error")' = {} BY <1>4 DEF Challenges, Unwind
<1>6. Returning'
  <2>1. outcome' = "internal_error" /\ route' = route /\ id' = id /\ headers' = headers /\ log' = log
    BY <1>1 DEF Unwind
  <2>2. wire' = [status    |-> StatusOf(route, outcome)',
                 headers   |-> {"X-Request-ID"} \cup Challenges(outcome)',
                 envelopes |-> IF outcome' = "moved" THEN << >> ELSE << Envelope(outcome, id)' >>]
    BY <1>1, <1>2, <1>3, <1>5, <2>1
  <2>3. log' = IF depth' > 2 THEN << >> ELSE << [status |-> wire'.status, id |-> id'] >>
    BY <1>1, <1>2, <2>1
  <2> QED BY <2>2, <2>3 DEF Returning
<1>7. TypeOK'
  BY <1>1, <1>2, <1>3, Statuses, Layers DEF TypeOK, Unwind
<1> QED BY <1>2, <1>6, <1>7 DEF PipelineInv, Answered

\* A layer returns; the access log has its say.
LEMMA ReturnStep ==
  ASSUME PipelineInv, Return
  PROVE  PipelineInv'
<1>1. TypeOK /\ Returning /\ depth \in 2 .. 4
  BY Layers DEF PipelineInv, Return, TypeOK
<1>2. depth' = depth - 1 /\ depth' \in 1 .. 3 BY <1>1 DEF Return
<1>3. Challenges(outcome)' = Challenges(outcome) BY DEF Challenges, Return
<1>4. log' = IF depth' > 2 THEN << >> ELSE << [status |-> wire.status, id |-> id] >>
  <2>1. CASE depth = 3
    BY <1>1, <2>1, Layers, IdBelow DEF Return, Returning
  <2>2. CASE depth # 3
    BY <1>1, <1>2, <2>2, Layers DEF Return, Returning
  <2> QED BY <2>1, <2>2
<1>5. Returning'
  BY <1>1, <1>3, <1>4 DEF Returning, Return
<1>6. TypeOK'
  BY <1>1, <1>2, <1>4, Layers DEF TypeOK, Return
<1> QED BY <1>5, <1>6 DEF PipelineInv, Return, Answered

\* The handler of net/http has its answer.
LEMMA FinishStep ==
  ASSUME PipelineInv, Finish
  PROVE  PipelineInv'
<1>1. Challenges(outcome)' = Challenges(outcome) BY DEF Challenges, Finish
<1>2. Returning' BY <1>1 DEF PipelineInv, Finish, Returning
<1> QED BY <1>2 DEF PipelineInv, Finish, TypeOK, Answered

\* Every step of the chain, the handler and the client.
LEMMA NextPipeline == PipelineInv /\ [Next]_vars => PipelineInv'
<1>1. SUFFICES ASSUME PipelineInv, [Next]_vars PROVE PipelineInv'
  OBVIOUS
<1>2. CASE CallService
  <2>1. PICK code \in Outcomes(route) : outcome' = code /\ Respond(code)
    BY <1>2 DEF CallService
  <2> QED BY <1>1, <1>2, <2>1, RespondStep DEF CallService
<1>3. CASE Panic
  <2>1. /\ TypeOK /\ depth = 4 /\ Descending
    BY <1>1, <1>3, BelowTheChain DEF Panic, AtHandler, PipelineInv
  <2> QED BY <1>3, <2>1, Layers DEF PipelineInv, Panic, TypeOK, Descending, Answered
<1>4. CASE UNCHANGED vars
  BY <1>1, <1>4
  DEF vars, PipelineInv, TypeOK, Descending, Returning, Challenges, Answered
<1> QED
  BY <1>1, <1>2, <1>3, <1>4, ArriveStep, EnterStep, CheckGuardStep, UnwindStep, ReturnStep,
     FinishStep
  DEF Next

\* The invariant holds.
LEMMA PipelineInductive == Spec => []PipelineInv
BY InitPipeline, NextPipeline, PTL DEF Spec

(***************************************************************************)
(* A request is in one layer at a time, an answer has a status as soon as  *)
(* it has a body, and no request is logged twice (Routes).                 *)
(***************************************************************************)
THEOREM PipelineTyped == Spec => []TypeOK
<1>1. PipelineInv => TypeOK BY DEF PipelineInv
<1> QED BY <1>1, PipelineInductive, PTL

(***************************************************************************)
(* One envelope, for what decided the request, under its status and its id *)
(* (writeJSON, RequestID, Recovery); none with the redirect of ServeMux,   *)
(* and no id in the one writeJSON falls back on.                           *)
(***************************************************************************)
THEOREM AnswersTruthful == Spec => []AnswerTruthful
<1>1. PipelineInv => AnswerTruthful
  BY DEF PipelineInv, Returning, AnswerTruthful, Envelope
<1> QED BY <1>1, PipelineInductive, PTL

(***************************************************************************)
(* Challenges go with the answers they belong to, and with no others       *)
(* (writeError).                                                           *)
(***************************************************************************)
THEOREM ChallengesSent == Spec => []HeadersFitStatus
<1>1. ASSUME PipelineInv, Answered
      PROVE  /\ "WWW-Authenticate" \in wire.headers <=> wire.status = 401
             /\ "Allow" \in wire.headers <=> wire.status = 405
  BY <1>1, ChallengesFit DEF PipelineInv, Returning
<1>2. PipelineInv => HeadersFitStatus BY <1>1 DEF HeadersFitStatus
<1> QED BY <1>2, PipelineInductive, PTL

(***************************************************************************)
(* Every request is logged once, as it was answered (AccessLog around      *)
(* Recovery).                                                              *)
(***************************************************************************)
THEOREM RequestsLogged == Spec => []LoggedAsSent
<1>1. PipelineInv => LoggedAsSent
  BY DEF PipelineInv, Returning, LoggedAsSent
<1> QED BY <1>1, PipelineInductive, PTL
=============================================================================
