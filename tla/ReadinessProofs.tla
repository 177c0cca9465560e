--------------------------- MODULE ReadinessProofs ---------------------------
(***************************************************************************)
(* Readiness for any number of probes, any timeouts and any graces.        *)
(***************************************************************************)
EXTENDS Readiness, TLAPS

\* The longest that the slower of the two checks can take.
LongerWait == Max({Timeout[d] + Grace[d] : d \in Dependencies})

\* Max gives the longer wait.
LEMMA Longer ==
  LongerWait \in Nat /\ \A d \in Dependencies : Timeout[d] + Grace[d] <= LongerWait
<1> DEFINE Wait(d) == Timeout[d] + Grace[d]
           S == {Wait(d) : d \in Dependencies}
<1>1. /\ Wait("postgres") \in Nat /\ Wait("redis") \in Nat
      /\ S = {Wait("postgres"), Wait("redis")}
  BY TimeoutAssumption, GraceAssumption DEF Dependencies
<1>2. \E x \in S : \A y \in S : x >= y
  BY <1>1
<1>3. LongerWait \in S /\ \A y \in S : LongerWait >= y
  BY <1>2 DEF LongerWait, Max
<1> QED
  BY <1>1, <1>3 DEF Dependencies

\* A map without results is one.
LEMMA NoChecks == << >> \in Checks /\ DOMAIN << >> = {}
<1>1. << >> \in [{} -> States] OBVIOUS
<1> QED BY <1>1 DEF Checks

\* A result that arrives joins the ones that have.
LEMMA ArrivedJoins ==
  ASSUME NEW found \in Checks, NEW result \in Result
  PROVE  /\ Arrived(found, result) \in Checks
         /\ DOMAIN Arrived(found, result) = DOMAIN found \cup {result.name}
         /\ Arrived(found, result)[result.name] = result.state
         /\ \A d \in DOMAIN found :
              d # result.name => Arrived(found, result)[d] = found[d]
<1> DEFINE known == DOMAIN found \cup {result.name}
<1>1. PICK old \in SUBSET Dependencies : found \in [old -> States]
  BY DEF Checks
<1>2. Arrived(found, result) \in [known -> States] /\ known \in SUBSET Dependencies
  BY <1>1 DEF Arrived, Result
<1> QED
  BY <1>1, <1>2 DEF Arrived, Checks

\* No two maps over the same dependencies differ but in their states.
LEMMA ChecksTyped ==
  ASSUME NEW found \in Checks
  PROVE  DOMAIN found \subseteq Dependencies /\ \A d \in DOMAIN found : found[d] \in States
BY DEF Checks

\* The start of the server satisfies the invariant.
LEMMA InitReadiness == Init => ReadinessInv
<1> SUFFICES ASSUME Init PROVE ReadinessInv OBVIOUS
<1>1. TypeOK
  BY NoChecks, TimeoutAssumption DEF Init, TypeOK
<1>2. ASSUME NEW p \in Probes PROVE Once(p) /\ Decided(p) /\ Timed(p)
  <2>1. /\ results[p] = << >> /\ checks[p] = << >> /\ heard[p] = {} /\ age[p] = 0
        /\ handler[p] = "idle" /\ timer[p] = Timeout
        /\ \A d \in Dependencies : ping[p][d] = "idle"
    BY DEF Init
  <2>2. Once(p) BY <2>1, NoChecks DEF Once
  <2>3. Decided(p) BY <2>1, NoChecks DEF Decided, Collected, Dependencies
  <2>4. Timed(p) BY <2>1, TimeoutAssumption DEF Timed
  <2> QED BY <2>2, <2>3, <2>4
<1>3. WaitsForTheLonger
  <2>1. \A p \in Probes : age[p] = 0 BY DEF Init
  <2> QED BY <2>1, Longer, GraceAssumption DEF WaitsForTheLonger, LongerWait
<1> QED BY <1>1, <1>2, <1>3 DEF ReadinessInv

\* A probe whose state a step leaves alone stays sound.
LEMMA OtherProbes ==
  ASSUME NEW p \in Probes, Once(p), Decided(p), Timed(p),
         ping'[p] = ping[p], results'[p] = results[p], checks'[p] = checks[p],
         heard'[p] = heard[p], handler'[p] = handler[p], code'[p] = code[p],
         age'[p] = age[p], timer'[p] = timer[p]
  PROVE  (Once(p) /\ Decided(p) /\ Timed(p))'
BY DEF Once, Decided, Timed

\* What a step leaves in the channel and in the map is sound if each result is.
LEMMA OnceNext ==
  ASSUME NEW p \in Probes,
         \A k \in 1 .. Len(results'[p]) :
           /\ ping'[p][results'[p][k].name] = "ended"
           /\ results'[p][k].name \notin DOMAIN checks'[p]
           /\ results'[p][k].state = "up" <=> results'[p][k].name \in heard'[p]
           /\ \A l \in 1 .. Len(results'[p]) :
                results'[p][l].name = results'[p][k].name => l = k,
         \A d \in DOMAIN checks'[p] :
           ping'[p][d] = "ended" /\ (checks'[p][d] = "up" <=> d \in heard'[p]),
         \A d \in heard'[p] : ping'[p][d] = "ended"
  PROVE  Once(p)'
BY DEF Once

\* The result of a check goes into the channel once (PingAnswers, PingFails).
LEMMA SendStep ==
  ASSUME ReadinessInv, NEW p \in Probes, NEW d \in Dependencies, NEW state \in States,
         ping[p][d] = "waiting", Send(p, d, state),
         heard' = [heard EXCEPT ![p] = IF state = "up" THEN @ \cup {d} ELSE @],
         reachable' = reachable, handler' = handler, timer' = timer, checks' = checks,
         age' = age, gone' = gone, code' = code
  PROVE  ReadinessInv'
<1> DEFINE new == [name |-> d, state |-> state]
           n == Len(results[p])
<1>0. TypeOK /\ Once(p) /\ Decided(p) /\ Timed(p) BY DEF ReadinessInv
<1>1. /\ results[p] \in Seq(Result) /\ new \in Result /\ n \in Nat
      /\ \A k \in 1 .. n : results[p][k] \in Result
  <2>1. results[p] \in Seq(Result) BY <1>0 DEF TypeOK
  <2>2. new \in Result BY DEF Result
  <2> QED BY <2>1, <2>2
<1>2. /\ results'[p] = Append(results[p], new) /\ results'[p] \in Seq(Result)
      /\ Len(results'[p]) = n + 1
      /\ \A k \in 1 .. n : results'[p][k] = results[p][k]
      /\ results'[p][n + 1] = new
  BY <1>0, <1>1 DEF Send, TypeOK
<1>3. /\ ping'[p][d] = "ended"
      /\ \A e \in Dependencies : e # d => ping'[p][e] = ping[p][e]
      /\ heard'[p] = IF state = "up" THEN heard[p] \cup {d} ELSE heard[p]
  BY <1>0 DEF Send, TypeOK
<1>4. \A k \in 1 .. n : results[p][k].name # d
  BY <1>0 DEF Once
<1>5. d \notin DOMAIN checks[p] /\ d \notin heard[p]
  BY <1>0 DEF Once
<1>6. n + 1 <= 2
  <2>1. ASSUME n >= 2 PROVE FALSE
    <3>1. /\ results[p][1].name \in Dependencies \ {d}
          /\ results[p][2].name \in Dependencies \ {d}
      BY <1>1, <1>4, <2>1 DEF Result
    <3>2. results[p][1].name = results[p][2].name BY <3>1 DEF Dependencies
    <3> QED BY <1>0, <1>1, <2>1, <3>2 DEF Once
  <2> QED BY <1>1, <2>1
<1>7. TypeOK'
  BY <1>0, <1>2, <1>3, <1>6 DEF TypeOK, Send
<1>8. Once(p)'
  <2>1. ASSUME NEW k \in 1 .. n + 1
        PROVE  /\ ping'[p][results'[p][k].name] = "ended"
               /\ results'[p][k].name \notin DOMAIN checks'[p]
               /\ results'[p][k].state = "up" <=> results'[p][k].name \in heard'[p]
               /\ \A l \in 1 .. n + 1 : results'[p][l].name = results'[p][k].name => l = k
    <3>1. CASE k = n + 1
      <4>1. ASSUME NEW l \in 1 .. n + 1, results'[p][l].name = d PROVE l = k
        BY <1>1, <1>2, <1>4, <3>1, <4>1
      <4> QED BY <1>2, <1>3, <1>5, <3>1, <4>1 DEF States
    <3>2. CASE k \in 1 .. n
      <4>1. /\ results'[p][k] = results[p][k] /\ results[p][k].name # d
            /\ results[p][k].name \in Dependencies
        BY <1>1, <1>2, <1>4, <3>2 DEF Result
      <4>2. /\ ping[p][results[p][k].name] = "ended"
            /\ results[p][k].name \notin DOMAIN checks[p]
            /\ results[p][k].state = "up" <=> results[p][k].name \in heard[p]
            /\ \A l \in 1 .. n : results[p][l].name = results[p][k].name => l = k
        BY <1>0, <3>2 DEF Once
      <4>3. ASSUME NEW l \in 1 .. n + 1, results'[p][l].name = results'[p][k].name
            PROVE  l = k
        BY <1>1, <1>2, <4>1, <4>2, <4>3
      <4> QED BY <1>3, <4>1, <4>2, <4>3
    <3> QED BY <1>1, <3>1, <3>2
  <2>2. ASSUME NEW e \in DOMAIN checks'[p]
        PROVE  ping'[p][e] = "ended" /\ (checks'[p][e] = "up" <=> e \in heard'[p])
    <3>1. e \in Dependencies /\ e # d
      BY <1>0, <1>5, ChecksTyped DEF TypeOK
    <3> QED BY <1>0, <1>3, <3>1 DEF Once
  <2>3. \A e \in heard'[p] : ping'[p][e] = "ended"
    BY <1>0, <1>3 DEF Once, TypeOK
  <2> HIDE DEF n, new
  <2> QED BY <1>2, <2>1, <2>2, <2>3, OnceNext
<1>9. Decided(p)' /\ Timed(p)'
  BY <1>0, <1>3 DEF Decided, Timed
<1>10. ASSUME NEW q \in Probes, q # p PROVE (Once(q) /\ Decided(q) /\ Timed(q))'
  <2>1. /\ ping'[q] = ping[q] /\ results'[q] = results[q] /\ heard'[q] = heard[q]
        /\ checks'[q] = checks[q] /\ handler'[q] = handler[q] /\ code'[q] = code[q]
        /\ age'[q] = age[q] /\ timer'[q] = timer[q]
    BY <1>0, <1>10 DEF Send, TypeOK
  <2>2. Once(q) /\ Decided(q) /\ Timed(q) BY DEF ReadinessInv
  <2> QED BY <2>1, <2>2, OtherProbes
<1>11. WaitsForTheLonger' BY DEF ReadinessInv, WaitsForTheLonger
<1> QED BY <1>7, <1>8, <1>9, <1>10, <1>11 DEF ReadinessInv

\* A ping that is answered counts as an answer heard.
LEMMA PingAnswersStep ==
  ASSUME ReadinessInv, NEW p \in Probes, NEW d \in Dependencies, PingAnswers(p, d)
  PROVE  ReadinessInv'
<1>1. heard' = [heard EXCEPT ![p] = IF "up" = "up" THEN @ \cup {d} ELSE @]
  BY DEF PingAnswers
<1> QED BY <1>1, SendStep DEF PingAnswers, States

\* A ping that fails does not.
LEMMA PingFailsStep ==
  ASSUME ReadinessInv, NEW p \in Probes, NEW d \in Dependencies, PingFails(p, d)
  PROVE  ReadinessInv'
<1>1. heard' = [heard EXCEPT ![p] = IF "down" = "up" THEN @ \cup {d} ELSE @]
  BY DEF PingFails, ReadinessInv, TypeOK
<1> QED BY <1>1, SendStep DEF PingFails, States

\* Both checks begin with the request.
LEMMA BeginStep ==
  ASSUME ReadinessInv, NEW p \in Probes, Begin(p)
  PROVE  ReadinessInv'
<1>0. TypeOK /\ Once(p) /\ Decided(p) /\ Timed(p) BY DEF ReadinessInv
<1>1. TypeOK' BY <1>0 DEF Begin, TypeOK
<1>2. /\ handler[p] = "idle" /\ handler'[p] = "collect"
      /\ \A d \in Dependencies : ping'[p][d] = "waiting"
  BY <1>0 DEF Begin, TypeOK
<1>3. \A d \in Dependencies : ping[p][d] = "idle"
  BY <1>0, <1>2 DEF Decided
<1>4. DOMAIN checks[p] = {} /\ heard[p] = {} /\ age[p] = 0
  <2>1. DOMAIN checks[p] \subseteq Dependencies /\ heard[p] \subseteq Dependencies
    BY <1>0, ChecksTyped DEF TypeOK
  <2>2. age[p] = 0 BY <1>0, <1>3 DEF Timed, Dependencies
  <2> QED BY <1>0, <1>3, <2>1, <2>2 DEF Once
<1>5. \A k \in 1 .. Len(results[p]) : FALSE
  <2>1. \A k \in 1 .. Len(results[p]) : results[p][k] \in Result
    BY <1>0 DEF TypeOK
  <2> QED BY <1>0, <1>3, <2>1 DEF Once, Result
<1>6. Once(p)'
  BY <1>4, <1>5 DEF Once, Begin
<1>7. Decided(p)'
  BY <1>0, <1>2, <1>4 DEF Decided, Begin, Collected, Dependencies
<1>8. Timed(p)'
  BY <1>0, <1>2, <1>3 DEF Timed, Begin
<1>9. ASSUME NEW q \in Probes, q # p PROVE (Once(q) /\ Decided(q) /\ Timed(q))'
  <2>1. /\ ping'[q] = ping[q] /\ results'[q] = results[q] /\ heard'[q] = heard[q]
        /\ checks'[q] = checks[q] /\ handler'[q] = handler[q] /\ code'[q] = code[q]
        /\ age'[q] = age[q] /\ timer'[q] = timer[q]
    BY <1>0, <1>9 DEF Begin, TypeOK
  <2>2. Once(q) /\ Decided(q) /\ Timed(q) BY DEF ReadinessInv
  <2> QED BY <2>1, <2>2, OtherProbes
<1>10. WaitsForTheLonger' BY DEF ReadinessInv, WaitsForTheLonger, Begin
<1> QED BY <1>1, <1>6, <1>7, <1>8, <1>9, <1>10 DEF ReadinessInv

\* A result moves from the channel into the map; the second one is answered.
LEMMA CollectStep ==
  ASSUME ReadinessInv, NEW p \in Probes, Collect(p)
  PROVE  ReadinessInv'
<1> DEFINE first == Head(results[p])
           found == Arrived(checks[p], first)
           n == Len(results[p])
<1>0. TypeOK /\ Once(p) /\ Decided(p) /\ Timed(p) BY DEF ReadinessInv
<1>1. /\ results[p] \in Seq(Result) /\ n \in Nat /\ n >= 1 /\ n <= 2
      /\ first = results[p][1] /\ first \in Result
      /\ \A k \in 1 .. n : results[p][k] \in Result
  <2>1. results[p] \in Seq(Result) /\ n <= 2 BY <1>0 DEF TypeOK
  <2>2. results[p] # << >> BY DEF Collect
  <2>3. n \in Nat /\ n >= 1 BY <2>1, <2>2
  <2> QED BY <2>1, <2>2, <2>3
<1>2. /\ results'[p] = Tail(results[p]) /\ results'[p] \in Seq(Result)
      /\ Len(results'[p]) = n - 1
      /\ \A k \in 1 .. n - 1 : results'[p][k] = results[p][k + 1]
  <2>1. results'[p] = Tail(results[p]) BY <1>0 DEF Collect, TypeOK
  <2> QED BY <1>1, <2>1
<1>3. /\ checks[p] \in Checks /\ found \in Checks
      /\ DOMAIN found = DOMAIN checks[p] \cup {first.name}
      /\ found[first.name] = first.state
      /\ \A d \in DOMAIN checks[p] : d # first.name => found[d] = checks[p][d]
  <2>1. checks[p] \in Checks BY <1>0 DEF TypeOK
  <2> QED BY <1>1, <2>1, ArrivedJoins
<1>4. checks' = [checks EXCEPT ![p] = found] /\ checks'[p] = found
  BY <1>0 DEF Collect, TypeOK
<1>5. HttpStatus(Verdict(found)) \in {200, 503} BY DEF HttpStatus
<1>6. handler[p] = "collect" /\ handler'[p] \in {"collect", "done"}
  BY <1>0 DEF Collect, TypeOK
<1>7. TypeOK'
  <2>1. results' \in [Probes -> Seq(Result)] /\ \A q \in Probes : Len(results'[q]) <= 2
    <3>1. results' = [results EXCEPT ![p] = Tail(@)] BY DEF Collect
    <3>2. \A q \in Probes : q # p => results'[q] = results[q]
      BY <1>0, <3>1 DEF TypeOK
    <3>3. results' \in [Probes -> Seq(Result)]
      BY <1>0, <1>1, <1>2, <3>1, <3>2 DEF TypeOK
    <3>4. Len(results'[p]) <= 2 BY <1>1, <1>2
    <3>5. \A q \in Probes : Len(results[q]) <= 2 BY <1>0 DEF TypeOK
    <3> QED BY <3>2, <3>3, <3>4, <3>5
  <2>2. checks' \in [Probes -> Checks] BY <1>0, <1>3, <1>4 DEF TypeOK
  <2>3. /\ handler' \in [Probes -> {"idle", "collect", "done"}]
        /\ code' \in [Probes -> {0, 200, 503}]
    <3>1. CASE handler' = handler /\ code' = code BY <1>0, <3>1 DEF TypeOK
    <3>2. CASE /\ handler' = [handler EXCEPT ![p] = "done"]
               /\ code' = [code EXCEPT ![p] = HttpStatus(Verdict(found))]
      BY <1>0, <1>5, <3>2 DEF TypeOK
    <3> QED BY <3>1, <3>2 DEF Collect
  <2> QED BY <1>0, <2>1, <2>2, <2>3 DEF TypeOK, Collect
<1>8. /\ ping'[p] = ping[p] /\ heard'[p] = heard[p] /\ age'[p] = age[p]
      /\ timer'[p] = timer[p]
  BY DEF Collect
<1>9. Once(p)'
  <2>1. ASSUME NEW k \in 1 .. n - 1
        PROVE  /\ ping[p][results'[p][k].name] = "ended"
               /\ results'[p][k].name \notin DOMAIN found
               /\ results'[p][k].state = "up" <=> results'[p][k].name \in heard[p]
               /\ \A l \in 1 .. n - 1 : results'[p][l].name = results'[p][k].name => l = k
    <3>1. k + 1 \in 1 .. n /\ 1 \in 1 .. n /\ k + 1 # 1 BY <1>1
    <3>2. results'[p][k] = results[p][k + 1] BY <1>2
    <3>3. /\ ping[p][results[p][k + 1].name] = "ended"
          /\ results[p][k + 1].name \notin DOMAIN checks[p]
          /\ results[p][k + 1].state = "up" <=> results[p][k + 1].name \in heard[p]
          /\ \A l \in 1 .. n : results[p][l].name = results[p][k + 1].name => l = k + 1
      BY <1>0, <3>1 DEF Once
    <3>4. results[p][k + 1].name # first.name BY <1>1, <3>1, <3>3
    <3>5. ASSUME NEW l \in 1 .. n - 1, results'[p][l].name = results'[p][k].name
          PROVE  l = k
      <4>1. l + 1 \in 1 .. n /\ results'[p][l] = results[p][l + 1] BY <1>1, <1>2
      <4> QED BY <3>2, <3>3, <3>5, <4>1
    <3> QED BY <1>3, <3>2, <3>3, <3>4, <3>5
  <2>2. ASSUME NEW d \in DOMAIN found
        PROVE  ping[p][d] = "ended" /\ (found[d] = "up" <=> d \in heard[p])
    <3>1. CASE d = first.name
      <4>1. 1 \in 1 .. n BY <1>1
      <4> QED BY <1>0, <1>1, <1>3, <3>1, <4>1 DEF Once
    <3>2. CASE d # first.name
      BY <1>0, <1>3, <3>2 DEF Once
    <3> QED BY <3>1, <3>2
  <2>3. \A d \in heard[p] : ping[p][d] = "ended" BY <1>0 DEF Once
  <2> HIDE DEF n, found
  <2>4. \A k \in 1 .. Len(results'[p]) :
          /\ ping'[p][results'[p][k].name] = "ended"
          /\ results'[p][k].name \notin DOMAIN checks'[p]
          /\ results'[p][k].state = "up" <=> results'[p][k].name \in heard'[p]
          /\ \A l \in 1 .. Len(results'[p]) :
               results'[p][l].name = results'[p][k].name => l = k
    BY <1>2, <1>4, <1>8, <2>1
  <2>5. \A d \in DOMAIN checks'[p] :
          ping'[p][d] = "ended" /\ (checks'[p][d] = "up" <=> d \in heard'[p])
    BY <1>4, <1>8, <2>2
  <2>6. \A d \in heard'[p] : ping'[p][d] = "ended" BY <1>8, <2>3
  <2> QED BY <2>4, <2>5, <2>6, OnceNext
<1>10. Decided(p)'
  <2>1. \/ ~ Collected(found) /\ handler'[p] = "collect"
        \/ Collected(found) /\ handler'[p] = "done" /\ code'[p] = HttpStatus(Verdict(found))
    BY <1>0, <1>6 DEF Collect, TypeOK
  <2> QED BY <1>0, <1>4, <1>6, <1>8, <2>1 DEF Decided
<1>11. Timed(p)' BY <1>0, <1>8 DEF Timed
<1>12. ASSUME NEW q \in Probes, q # p PROVE (Once(q) /\ Decided(q) /\ Timed(q))'
  <2>1. /\ ping'[q] = ping[q] /\ results'[q] = results[q] /\ heard'[q] = heard[q]
        /\ checks'[q] = checks[q] /\ handler'[q] = handler[q] /\ code'[q] = code[q]
        /\ age'[q] = age[q] /\ timer'[q] = timer[q]
    BY <1>0, <1>12 DEF Collect, TypeOK
  <2>2. Once(q) /\ Decided(q) /\ Timed(q) BY DEF ReadinessInv
  <2> QED BY <2>1, <2>2, OtherProbes
<1>13. WaitsForTheLonger' BY DEF ReadinessInv, WaitsForTheLonger, Collect
<1> QED BY <1>7, <1>9, <1>10, <1>11, <1>12, <1>13 DEF ReadinessInv

\* Time passes for the checks of a probe that wait, and for the probe.
LEMMA TickStep ==
  ASSUME ReadinessInv, NEW p \in Probes, Tick(p)
  PROVE  ReadinessInv'
<1>0. TypeOK /\ Once(p) /\ Decided(p) /\ Timed(p) BY DEF ReadinessInv
<1>1. /\ \A d \in Dependencies :
           timer'[p][d] = IF ping[p][d] = "waiting" THEN timer[p][d] - 1 ELSE timer[p][d]
      /\ age'[p] = age[p] + 1 /\ age[p] \in Nat
  BY <1>0 DEF Tick, TypeOK, Waiting
<1>2. PICK late \in Dependencies : ping[p][late] = "waiting" /\ timer[p][late] + Grace[late] > 0
  BY DEF Tick, Waiting
<1>3. TypeOK' BY <1>0 DEF Tick, TypeOK
<1>4. Once(p)' /\ Decided(p)' BY <1>0 DEF Once, Decided, Tick
<1>5. \A d \in Dependencies : ping[p][d] # "idle"
  <2>1. handler[p] # "idle" BY <1>0, <1>2 DEF Decided
  <2> QED BY <1>0, <2>1 DEF Decided
<1>6. Timed(p)'
  <2>1. ASSUME NEW d \in Dependencies, ping[p][d] # "ended"
        PROVE  timer'[p][d] = Timeout[d] - age'[p]
    <3>1. ping[p][d] = "waiting" BY <1>0, <1>5, <2>1 DEF TypeOK
    <3>2. timer[p][d] = Timeout[d] - age[p] BY <1>0, <2>1 DEF Timed
    <3> QED BY <1>1, <3>1, <3>2, TimeoutAssumption
  <2> QED BY <1>5, <2>1 DEF Timed, Tick
<1>7. ASSUME NEW q \in Probes, q # p PROVE (Once(q) /\ Decided(q) /\ Timed(q))'
  <2>1. /\ ping'[q] = ping[q] /\ results'[q] = results[q] /\ heard'[q] = heard[q]
        /\ checks'[q] = checks[q] /\ handler'[q] = handler[q] /\ code'[q] = code[q]
        /\ age'[q] = age[q] /\ timer'[q] = timer[q]
    BY <1>0, <1>7 DEF Tick, TypeOK
  <2>2. Once(q) /\ Decided(q) /\ Timed(q) BY DEF ReadinessInv
  <2> QED BY <2>1, <2>2, OtherProbes
<1>8. WaitsForTheLonger'
  <2>1. age'[p] <= LongerWait
    <3>1. timer[p][late] = Timeout[late] - age[p] BY <1>0, <1>2 DEF Timed
    <3> QED BY <1>1, <1>2, <3>1, Longer, TimeoutAssumption, GraceAssumption
  <2>2. \A q \in Probes : q # p => age'[q] = age[q]
    BY <1>0 DEF Tick, TypeOK
  <2> QED BY <2>1, <2>2 DEF ReadinessInv, WaitsForTheLonger, LongerWait
<1> QED BY <1>3, <1>4, <1>6, <1>7, <1>8 DEF ReadinessInv

\* A client that leaves and a dependency that stops or comes back decide nothing.
LEMMA OutsideStep ==
  ASSUME ReadinessInv,
         (\E p \in Probes : Leave(p)) \/ (\E d \in Dependencies : Flip(d)) \/ UNCHANGED vars
  PROVE  ReadinessInv'
<1>0. TypeOK BY DEF ReadinessInv
<1>1. TypeOK'
  <2>1. ASSUME NEW p \in Probes, Leave(p) PROVE TypeOK'
    BY <1>0, <2>1 DEF TypeOK, Leave
  <2>2. ASSUME NEW d \in Dependencies, Flip(d) PROVE TypeOK'
    BY <1>0, <2>2 DEF TypeOK, Flip
  <2>3. CASE UNCHANGED vars BY <1>0, <2>3 DEF TypeOK, vars
  <2> QED BY <2>1, <2>2, <2>3
<1>2. /\ ping' = ping /\ results' = results /\ heard' = heard /\ checks' = checks
      /\ handler' = handler /\ code' = code /\ age' = age /\ timer' = timer
  BY DEF Leave, Flip, vars
<1>3. \A p \in Probes : (Once(p) /\ Decided(p) /\ Timed(p))'
  BY <1>2, OtherProbes DEF ReadinessInv
<1> QED BY <1>1, <1>2, <1>3 DEF ReadinessInv, WaitsForTheLonger

\* Every step of the probes, the clients and the dependencies.
LEMMA NextReadiness == ReadinessInv /\ [Next]_vars => ReadinessInv'
BY BeginStep, PingAnswersStep, PingFailsStep, CollectStep, TickStep, OutsideStep
   DEF Next, Serve

\* The invariant holds.
LEMMA ReadinessInductive == Spec => []ReadinessInv
BY InitReadiness, NextReadiness, PTL DEF Spec

(***************************************************************************)
(* The goroutines of a probe and their channel keep their types: no result *)
(* is sent into a channel that has no room for it (Readiness).             *)
(***************************************************************************)
THEOREM ReadinessTyped == Spec => []TypeOK
<1>1. ReadinessInv => TypeOK BY DEF ReadinessInv
<1> QED BY <1>1, ReadinessInductive, PTL

(***************************************************************************)
(* The status of a probe says what the dependencies answered to it         *)
(* (Readiness and Ready).                                                  *)
(***************************************************************************)
THEOREM VerdictsEarned == Spec => []VerdictEarned
<1>1. ASSUME ReadinessInv PROVE VerdictEarned
  <2> SUFFICES ASSUME NEW p \in Probes, handler[p] = "done"
               PROVE  /\ code[p] = 200 <=> "postgres" \in heard[p]
                      /\ Verdict(checks[p]) = "ready" <=> heard[p] = Dependencies
    BY DEF VerdictEarned
  <2>1. TypeOK /\ Once(p) /\ Decided(p) BY <1>1 DEF ReadinessInv
  <2>2. DOMAIN checks[p] = Dependencies /\ code[p] = HttpStatus(Verdict(checks[p]))
    BY <2>1 DEF Decided, Collected
  <2>3. \A d \in Dependencies :
          checks[p][d] \in States /\ (checks[p][d] = "up" <=> d \in heard[p])
    BY <2>1, <2>2, ChecksTyped DEF Once, TypeOK
  <2>4. heard[p] \subseteq Dependencies BY <2>1 DEF TypeOK
  <2>5. /\ Found(checks[p], "postgres", "down") <=> "postgres" \notin heard[p]
        /\ Found(checks[p], "redis", "down") <=> "redis" \notin heard[p]
    BY <2>2, <2>3 DEF Found, States, Dependencies
  <2>6. heard[p] = Dependencies <=> "postgres" \in heard[p] /\ "redis" \in heard[p]
    BY <2>4 DEF Dependencies
  <2> QED BY <2>2, <2>5, <2>6 DEF Verdict, HttpStatus
<1> QED BY <1>1, ReadinessInductive, PTL

(***************************************************************************)
(* With drivers that outlive their contexts by no more than their graces,  *)
(* a probe never waits longer than for the slower of its two checks        *)
(* (Readiness runs both at once).                                          *)
(***************************************************************************)
THEOREM WaitBounded == Spec => []WaitsForTheLonger
<1>1. ReadinessInv => WaitsForTheLonger BY DEF ReadinessInv
<1> QED BY <1>1, ReadinessInductive, PTL
=============================================================================
