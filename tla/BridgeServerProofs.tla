------------------------- MODULE BridgeServerProofs -------------------------
(***************************************************************************)
(* Proofs about BridgeServer, for any set of requests, any limit, window   *)
(* and number of faults, with audit_reads on or off.                       *)
(***************************************************************************)
EXTENDS BridgeServer, RateLimiterProofs

Arriving == [stage : {"arrived", "admitted", "lost"}, ask : Asks]
Calling == [stage : {"called"}, ask : Asks, result : Results]
Answers == {"401", "429", "500", "success", "denied", "error"}
Answering == [stage : {"answered"}, ask : Asks, answer : Answers]

--------------------------------------------------------------------------
(* Types.                                                                  *)

\* What the record of a request holds at each stage.
LEMMA RequestCases ==
    ASSUME TypeOK, NEW r \in Requests
    PROVE  /\ Stage(r) \in {"none", "arrived", "admitted", "lost", "called", "answered"}
           /\ Stage(r) # "none" => req[r].ask \in Asks
           /\ Stage(r) = "called" => req[r] \in Calling
           /\ Stage(r) = "answered" => req[r] \in Answering
<1>1. req[r] \in Request  BY DEF TypeOK
<1> QED  BY <1>1 DEF Request, Stage, Arriving, Calling, Answering, Answers

\* One request moves to another stage.
LEMMA OneMoves ==
    ASSUME TypeOK, NEW r \in Requests, NEW new \in Request, req' = [req EXCEPT ![r] = new]
    PROVE  /\ req' \in [Requests -> Request] /\ req'[r] = new
           /\ \A q \in Requests \ {r} : req'[q] = req[q]
BY DEF TypeOK

\* A record of the audit log.
LEMMA LoggedType ==
    ASSUME TypeOK, NEW r \in Requests,
           NEW event \in ToolClasses \cup {"rejected", "auth.failed", "auth.rate_limited"},
           NEW outcome \in {"success", "denied", "error"}, Logged(r, event, outcome)
    PROVE  /\ trail' \in [Requests -> Seq(AuditRecord)]
           /\ trail'[r] = trail[r] \o Records(event, outcome)
           /\ \A q \in Requests \ {r} : trail'[q] = trail[q]
<1>1. [event |-> event, outcome |-> outcome] \in AuditRecord  BY DEF AuditRecord
<1>2. Records(event, outcome) \in Seq(AuditRecord)  BY <1>1 DEF Records
<1>3. trail[r] \in Seq(AuditRecord)  BY DEF TypeOK
<1>4. trail[r] \o Records(event, outcome) \in Seq(AuditRecord)  BY <1>2, <1>3
<1> QED  BY <1>4 DEF Logged, TypeOK

\* An answer ends the request.
LEMMA AnswerMoves ==
    ASSUME TypeOK, NEW r \in Requests, NEW a \in Answers, Stage(r) # "none", Answer(r, a)
    PROVE  /\ req' \in [Requests -> Request]
           /\ req'[r] = [stage |-> "answered", ask |-> req[r].ask, answer |-> a]
           /\ \A q \in Requests \ {r} : req'[q] = req[q]
<1> DEFINE new == [stage |-> "answered", ask |-> req[r].ask, answer |-> a]
<1>1. req[r].ask \in Asks  BY RequestCases
<1>2. new \in Answering  BY <1>1 DEF Answering
<1>3. new \in Request  BY <1>2 DEF Request, Answering, Answers
<1>4. req' = [req EXCEPT ![r] = new]  BY DEF Answer, TypeOK
<1> HIDE DEF new
<1>5. /\ req' \in [Requests -> Request] /\ req'[r] = new
      /\ \A q \in Requests \ {r} : req'[q] = req[q]
  BY <1>3, <1>4, OneMoves
<1> QED  BY <1>5 DEF new

\* The audit log's words for how a tool ended.
LEMMA Wording ==
    ASSUME NEW class \in ToolClasses, NEW result \in Results
    PROVE  /\ EventOf(class, result) \in ToolClasses \cup {"rejected"}
           /\ OutcomeOf(result) \in {"success", "denied", "error"}
BY DEF EventOf, OutcomeOf, Results

LEMMA InitType == Init => TypeOK
<1> SUFFICES ASSUME Init PROVE TypeOK
  OBVIOUS
<1>1. LimiterTypeOK  BY LimiterInitInv DEF Init, LimiterInv
<1>2. req \in [Requests -> Request]  BY DEF Init, Request
<1>3. trail \in [Requests -> Seq(AuditRecord)]  BY DEF Init
<1> QED  BY <1>1, <1>2, <1>3, ServerAssumption DEF Init, TypeOK, Stage

\* The limiter in the server only takes steps of its own.
LEMMA LimiterSteps ==
    ASSUME [Next]_vars
    PROVE  [LimiterNext]_limiterVars
BY DEF Next, vars, Serve, Arrive, Unauthorized, RateLimited, Admitted, CallTool, AuditCall,
       AuditFails, Crash, Time, LimiterNext

--------------------------------------------------------------------------
(* The invariant, one request at a time.                                   *)

ChangeAudited(r) ==
    r \in effects =>
        /\ req[r].ask.token = "good"
        /\ \/ loop = r
           \/ trail[r] # <<>> /\ trail[r][1].event = req[r].ask.class
           \/ faults > 0 /\ (Stage(r) = "lost" \/ req[r].answer = "error")

AnswerAudited(r) ==
    Stage(r) = "answered" =>
        IF trail[r] = <<>>
        THEN Silent(r) \/ (faults > 0 /\ req[r].answer \in {"500", "error"})
        ELSE Len(trail[r]) = 1 /\ trail[r][1].outcome = Told(req[r].answer)

Known(r) == Unanswered(r) /\ ChangeAudited(r) /\ AnswerAudited(r)

LEMMA EachKnown == ServerInv <=> TypeOK /\ LimiterInv /\ \A r \in Requests : Known(r)
BY DEF ServerInv, Known, ChangesAreAudited, AnswersAreAudited, ChangeAudited, AnswerAudited, TypeOK

\* A request that a step does not move is as well known after it.
LEMMA UnmovedKnown ==
    ASSUME NEW q \in Requests, Known(q), req'[q] = req[q], trail'[q] = trail[q],
           q \in effects' <=> q \in effects, loop = q => loop' = q,
           faults > 0 => faults' > 0
    PROVE  Known(q)'
BY DEF Known, Unanswered, ChangeAudited, AnswerAudited, Silent, Stage

\* A fault is counted.
LEMMA FaultCounts ==
    ASSUME TypeOK, Fault
    PROVE  faults' \in Nat /\ faults' > 0
BY ServerAssumption DEF TypeOK, Fault

\* The two ways the middleware turns a request away.
LEMMA DenyKnown ==
    ASSUME TypeOK, NEW r \in Requests, Known(r), Stage(r) = "arrived", loop = None,
           NEW event \in {"auth.failed", "auth.rate_limited"}, NEW answer \in {"401", "429"},
           Deny(r, event, answer), UNCHANGED <<loop, effects>>
    PROVE  /\ req' \in [Requests -> Request] /\ trail' \in [Requests -> Seq(AuditRecord)]
           /\ faults' \in Nat /\ (faults > 0 => faults' > 0)
           /\ req'[r].stage = "answered" /\ Known(r)'
           /\ \A q \in Requests \ {r} : req'[q] = req[q] /\ trail'[q] = trail[q]
<1>0. trail[r] = <<>> /\ r \notin effects'
  BY DEF Known, Unanswered
<1>1. CASE Logged(r, event, "denied") /\ Answer(r, answer) /\ UNCHANGED faults
  <2>1. /\ trail' \in [Requests -> Seq(AuditRecord)]
        /\ trail'[r] = trail[r] \o Records(event, "denied")
        /\ \A q \in Requests \ {r} : trail'[q] = trail[q]
    BY <1>1, LoggedType
  <2>2. trail'[r] = <<[event |-> event, outcome |-> "denied"]>>
    BY <2>1, <1>0 DEF Records
  <2>3. /\ req' \in [Requests -> Request]
        /\ req'[r] = [stage |-> "answered", ask |-> req[r].ask, answer |-> answer]
        /\ \A q \in Requests \ {r} : req'[q] = req[q]
    BY <1>1, AnswerMoves DEF Answers
  <2>4. trail'[r] # <<>> /\ Len(trail'[r]) = 1 /\ trail'[r][1].outcome = "denied"
    BY <2>2
  <2>5. Known(r)'
    BY <1>0, <2>3, <2>4 DEF Known, Unanswered, ChangeAudited, AnswerAudited, Told, Stage
  <2>6. faults' \in Nat /\ (faults > 0 => faults' > 0)
    BY <1>1 DEF TypeOK
  <2> QED  BY <2>1, <2>3, <2>5, <2>6
<1>2. CASE Fault /\ Answer(r, "500") /\ UNCHANGED trail
  <2>1. /\ req' \in [Requests -> Request]
        /\ req'[r] = [stage |-> "answered", ask |-> req[r].ask, answer |-> "500"]
        /\ \A q \in Requests \ {r} : req'[q] = req[q]
    BY <1>2, AnswerMoves DEF Answers
  <2>2. faults' \in Nat /\ faults' > 0
    BY <1>2, FaultCounts
  <2>3. Known(r)'
    BY <1>0, <1>2, <2>1, <2>2 DEF Known, Unanswered, ChangeAudited, AnswerAudited, Stage
  <2>4. trail' \in [Requests -> Seq(AuditRecord)] /\ \A q \in Requests : trail'[q] = trail[q]
    BY <1>2 DEF TypeOK
  <2> QED  BY <2>1, <2>2, <2>3, <2>4
<1> QED  BY <1>1, <1>2 DEF Deny

\* What a step on one request has to show for the whole state.
Moved(r) ==
    /\ req' \in [Requests -> Request] /\ trail' \in [Requests -> Seq(AuditRecord)]
    /\ effects' \subseteq Requests /\ loop' \in Requests \cup {None}
    /\ faults' \in Nat /\ (faults > 0 => faults' > 0)
    /\ req'[r].stage = "called" <=> loop' = r
    /\ Known(r)'
    /\ \A q \in Requests \ {r} :
          /\ req'[q] = req[q] /\ trail'[q] = trail[q]
          /\ q \in effects' <=> q \in effects
          /\ loop = q <=> loop' = q

LEMMA MovedKeeps ==
    ASSUME TypeOK, NEW r \in Requests, \A q \in Requests : Known(q), Moved(r), LimiterTypeOK'
    PROVE  TypeOK' /\ \A q \in Requests : Known(q)'
<1>1. \A q \in Requests \ {r} : Known(q)'
  BY UnmovedKnown DEF Moved
<1>2. \A q \in Requests : req'[q].stage = "called" <=> loop' = q
  BY DEF Moved, TypeOK, Stage
<1>3. TypeOK'
  BY <1>2 DEF Moved, TypeOK, Stage
<1> QED  BY <1>1, <1>3 DEF Moved

--------------------------------------------------------------------------
(* The steps on one request.                                               *)

LEMMA ArriveMoves ==
    ASSUME TypeOK, NEW r \in Requests, Known(r), Arrive(r)
    PROVE  Moved(r)
<1> PICK ask \in Asks : req' = [req EXCEPT ![r] = [stage |-> "arrived", ask |-> ask]]
  BY DEF Arrive
<1>1. [stage |-> "arrived", ask |-> ask] \in Request  BY DEF Request
<1>2. /\ req' \in [Requests -> Request] /\ req'[r] = [stage |-> "arrived", ask |-> ask]
      /\ \A q \in Requests \ {r} : req'[q] = req[q]
  BY <1>1, OneMoves
<1>3. trail'[r] = <<>> /\ r \notin effects'
  BY DEF Arrive, Known, Unanswered
<1>4. Known(r)'
  BY <1>2, <1>3 DEF Known, Unanswered, ChangeAudited, AnswerAudited, Stage
<1>5. loop' # r
  BY DEF Arrive, TypeOK, Stage
<1> QED  BY <1>2, <1>4, <1>5 DEF Arrive, Moved, TypeOK

LEMMA DenyMoves ==
    ASSUME TypeOK, NEW r \in Requests, Known(r), Unauthorized(r) \/ RateLimited(r)
    PROVE  Moved(r)
<1>1. /\ Stage(r) = "arrived" /\ loop = None /\ UNCHANGED <<loop, effects>>
      /\ Deny(r, "auth.failed", "401") \/ Deny(r, "auth.rate_limited", "429")
  BY DEF Unauthorized, RateLimited
<1> QED  BY <1>1, DenyKnown, ServerAssumption DEF Moved, TypeOK

LEMMA AdmittedMoves ==
    ASSUME TypeOK, NEW r \in Requests, Known(r), Admitted(r)
    PROVE  Moved(r)
<1> DEFINE new == [stage |-> "admitted", ask |-> req[r].ask]
<1>1. req[r].ask \in Asks /\ req[r].ask.token = "good"
  BY RequestCases DEF Admitted
<1>2. new \in Request  BY <1>1 DEF Request
<1>3. req' = [req EXCEPT ![r] = new]  BY DEF Admitted, TypeOK
<1>4. new.stage = "admitted" /\ new.ask = req[r].ask  OBVIOUS
<1> HIDE DEF new
<1>5. req' \in [Requests -> Request] /\ req'[r] = new /\ \A q \in Requests \ {r} : req'[q] = req[q]
  BY <1>2, <1>3, OneMoves
<1>6. trail'[r] = <<>> /\ r \notin effects'
  BY DEF Admitted, Known, Unanswered
<1>7. Known(r)'
  BY <1>1, <1>4, <1>5, <1>6 DEF Known, Unanswered, ChangeAudited, AnswerAudited, Stage
<1> QED  BY <1>4, <1>5, <1>7, ServerAssumption DEF Admitted, Moved, TypeOK

LEMMA CallMoves ==
    ASSUME TypeOK, NEW r \in Requests, Known(r), CallTool(r)
    PROVE  Moved(r)
<1> PICK result \in Results, changed \in {{}, {r}} :
        /\ req' = [req EXCEPT ![r] = [stage |-> "called", ask |-> @.ask, result |-> result]]
        /\ result \in {"rejected", "denied"} => changed = {}
        /\ changed = {r} => CanChange(req[r].ask.class)
        /\ effects' = effects \cup changed
  BY DEF CallTool
<1> DEFINE new == [stage |-> "called", ask |-> req[r].ask, result |-> result]
<1>1. req[r].ask \in Asks /\ req[r].ask.token = "good"
  BY RequestCases DEF CallTool, Known, Unanswered
<1>2. new \in Request  BY <1>1 DEF Request
<1>3. req' = [req EXCEPT ![r] = new]  BY DEF TypeOK
<1>4. new.stage = "called" /\ new.ask = req[r].ask /\ new.result = result  OBVIOUS
<1> HIDE DEF new
<1>5. req' \in [Requests -> Request] /\ req'[r] = new /\ \A q \in Requests \ {r} : req'[q] = req[q]
  BY <1>2, <1>3, OneMoves
<1>6. trail'[r] = <<>> /\ r \notin effects /\ loop = None /\ loop' = r
  BY DEF CallTool, Known, Unanswered
<1>7. r \in effects' => changed = {r}
  BY <1>6
<1>8. Known(r)'
  BY <1>1, <1>4, <1>5, <1>6, <1>7 DEF Known, Unanswered, ChangeAudited, AnswerAudited, Stage
<1> QED  BY <1>4, <1>5, <1>6, <1>8, ServerAssumption DEF CallTool, Moved, TypeOK

\* On the way out of _call_with_audit the one record of the call goes to the log.
LEMMA AuditMoves ==
    ASSUME TypeOK, NEW r \in Requests, Known(r), AuditCall(r)
    PROVE  Moved(r)
<1> DEFINE class == req[r].ask.class
           result == req[r].result
           event == EventOf(class, result)
           outcome == OutcomeOf(result)
<1>1. loop = r /\ Stage(r) = "called" /\ loop' = None
  BY DEF AuditCall, TypeOK
<1>2. req[r].ask \in Asks /\ class \in ToolClasses /\ result \in Results
  BY <1>1, RequestCases DEF Calling, Asks
<1>3. event \in ToolClasses \cup {"rejected"} /\ outcome \in {"success", "denied", "error"}
  BY <1>2, Wording
<1>4. result # "rejected" => event = class
  BY DEF EventOf
<1>5. outcome = "success" => result = "success"
  BY <1>2 DEF OutcomeOf, Results
<1>6. r \in effects => class = "other" /\ result # "rejected" /\ req[r].ask.token = "good"
  BY <1>1 DEF Known, Unanswered, CanChange
<1>7. Logged(r, event, outcome) /\ Answer(r, outcome) /\ UNCHANGED <<effects, faults>>
  BY DEF AuditCall
<1>t. trail[r] = <<>>
  BY <1>1 DEF Known, Unanswered
<1> HIDE DEF class, result, event, outcome
<1>8. /\ trail' \in [Requests -> Seq(AuditRecord)]
      /\ trail'[r] = trail[r] \o Records(event, outcome)
      /\ \A q \in Requests \ {r} : trail'[q] = trail[q]
  BY <1>3, <1>7, LoggedType
<1>9. /\ req' \in [Requests -> Request]
      /\ req'[r] = [stage |-> "answered", ask |-> req[r].ask, answer |-> outcome]
      /\ \A q \in Requests \ {r} : req'[q] = req[q]
  BY <1>1, <1>3, <1>7, AnswerMoves DEF Answers
<1>10. Known(r)'
  <2>0. /\ req'[r].stage = "answered" /\ req'[r].ask = req[r].ask
        /\ req'[r].answer = outcome
    BY <1>9
  <2>1. CASE outcome = "success" /\ ~ShouldAudit(event)
    <3>1. trail'[r] = <<>>  BY <1>8, <1>t, <2>1 DEF Records
    <3>2. class = "read" /\ ~AuditReads /\ r \notin effects'
      BY <1>4, <1>5, <1>6, <1>7, <2>1 DEF ShouldAudit
    <3>3. Silent(r)'
      BY <2>0, <2>1, <3>2 DEF Silent, class
    <3> QED  BY <2>0, <3>1, <3>2, <3>3 DEF Known, Unanswered, ChangeAudited, AnswerAudited, Stage
  <2>2. CASE ~(outcome = "success" /\ ~ShouldAudit(event))
    <3>1. trail'[r] = <<[event |-> event, outcome |-> outcome]>>
      BY <1>8, <1>t, <2>2 DEF Records
    <3>2. /\ trail'[r] # <<>> /\ Len(trail'[r]) = 1
          /\ trail'[r][1].event = event /\ trail'[r][1].outcome = outcome
      BY <3>1
    <3>3. Told(outcome) = outcome
      BY <1>3 DEF Told
    <3>4. ChangeAudited(r)'
      BY <1>4, <1>6, <1>7, <2>0, <3>2 DEF ChangeAudited, class
    <3> QED  BY <2>0, <3>2, <3>3, <3>4 DEF Known, Unanswered, AnswerAudited, Stage
  <2> QED  BY <2>1, <2>2
<1> QED  BY <1>1, <1>7, <1>8, <1>9, <1>10, ServerAssumption DEF Moved, TypeOK

LEMMA AuditFailsMoves ==
    ASSUME TypeOK, NEW r \in Requests, Known(r), AuditFails(r)
    PROVE  Moved(r)
<1>1. loop = r /\ Stage(r) = "called" /\ loop' = None
  BY DEF AuditFails, TypeOK
<1>2. faults' \in Nat /\ faults' > 0
  BY FaultCounts DEF AuditFails
<1>3. /\ req' \in [Requests -> Request]
      /\ req'[r] = [stage |-> "answered", ask |-> req[r].ask, answer |-> "error"]
      /\ \A q \in Requests \ {r} : req'[q] = req[q]
  BY <1>1, AnswerMoves DEF AuditFails, Answers
<1>4. trail'[r] = <<>> /\ (r \in effects' => req[r].ask.token = "good")
  BY <1>1 DEF AuditFails, Known, Unanswered
<1>5. Known(r)'
  BY <1>2, <1>3, <1>4 DEF Known, Unanswered, ChangeAudited, AnswerAudited, Stage
<1> QED  BY <1>1, <1>2, <1>3, <1>5, ServerAssumption DEF AuditFails, Moved, TypeOK

\* A crash: requests in flight are lost, with a fault that says so.
LEMMA CrashKeeps ==
    ASSUME TypeOK, \A q \in Requests : Known(q), Crash, LimiterTypeOK'
    PROVE  TypeOK' /\ \A q \in Requests : Known(q)'
<1>1. faults' \in Nat /\ faults' > 0
  BY FaultCounts DEF Crash
<1>2. \A q \in Requests : /\ q \in InFlight => req'[q] = [stage |-> "lost", ask |-> req[q].ask]
                          /\ q \notin InFlight => req'[q] = req[q]
  BY DEF Crash
<1>3. \A q \in Requests : req'[q] \in Request /\ req'[q].stage # "called"
  <2> TAKE q \in Requests
  <2>1. CASE q \in InFlight
    <3>1. req[q].ask \in Asks  BY <2>1, RequestCases DEF InFlight
    <3>2. [stage |-> "lost", ask |-> req[q].ask] \in Arriving  BY <3>1 DEF Arriving
    <3> QED  BY <1>2, <2>1, <3>2 DEF Request, Arriving
  <2>2. CASE q \notin InFlight
    BY <1>2, <2>2 DEF InFlight, Stage, TypeOK
  <2> QED  BY <2>1, <2>2
<1>4. req' \in [Requests -> Request]
  BY <1>3 DEF Crash
<1>5. TypeOK'
  BY <1>1, <1>3, <1>4, ServerAssumption DEF Crash, TypeOK, Stage
<1>6. ASSUME NEW q \in Requests PROVE Known(q)'
  <2>0. Known(q) /\ trail' = trail /\ effects' = effects /\ (loop = q => Stage(q) = "called")
    BY DEF Crash, TypeOK
  <2>1. CASE q \in InFlight
    <3>1. trail'[q] = <<>> /\ req'[q].stage = "lost" /\ req'[q].ask = req[q].ask
      <4>1. req'[q] = [stage |-> "lost", ask |-> req[q].ask]  BY <1>2, <2>1
      <4>2. Stage(q) # "answered"  BY <2>1 DEF InFlight
      <4>3. trail'[q] = <<>>  BY <2>0, <4>2 DEF Known, Unanswered
      <4> QED  BY <4>1, <4>3
    <3>2. q \in effects => req[q].ask.token = "good"
      BY <2>0 DEF Known, ChangeAudited
    <3> QED  BY <1>1, <2>0, <3>1, <3>2 DEF Known, Unanswered, ChangeAudited, AnswerAudited, Stage
  <2>2. CASE q \notin InFlight
    <3>1. loop # q  BY <2>0, <2>2 DEF InFlight
    <3> QED  BY <1>1, <1>2, <2>0, <2>2, <3>1, UnmovedKnown
  <2> QED  BY <2>1, <2>2
<1> QED  BY <1>5, <1>6

--------------------------------------------------------------------------
(* The invariant is inductive.                                             *)

LEMMA InitInv == Init => ServerInv
<1> SUFFICES ASSUME Init PROVE ServerInv
  OBVIOUS
<1>1. TypeOK /\ LimiterInv  BY InitType, LimiterInitInv DEF Init
<1>2. ASSUME NEW r \in Requests PROVE Known(r)
  BY <1>2 DEF Init, Known, Unanswered, ChangeAudited, AnswerAudited, Stage
<1> QED  BY <1>1, <1>2, EachKnown

LEMMA StepInv == ServerInv /\ [Next]_vars => ServerInv'
<1> SUFFICES ASSUME ServerInv, [Next]_vars PROVE ServerInv'
  OBVIOUS
<1>1. TypeOK /\ LimiterInv /\ \A r \in Requests : Known(r)
  BY EachKnown
<1>2. LimiterInv' /\ LimiterTypeOK'
  BY <1>1, LimiterSteps, LimiterKeeps DEF LimiterInv
<1>3. TypeOK' /\ \A r \in Requests : Known(r)'
  <2>1. ASSUME NEW r \in Requests, Arrive(r) \/ Serve(r)
        PROVE  TypeOK' /\ \A q \in Requests : Known(q)'
    <3>1. Moved(r)
      BY <1>1, <2>1, ArriveMoves, DenyMoves, AdmittedMoves, CallMoves, AuditMoves,
         AuditFailsMoves DEF Serve
    <3> QED  BY <1>1, <1>2, <3>1, MovedKeeps
  <2>2. CASE Crash
    BY <1>1, <1>2, <2>2, CrashKeeps
  <2>3. CASE UNCHANGED <<req, loop, trail, effects, faults>>
    BY <1>1, <1>2, <2>3 DEF TypeOK, Known, Unanswered, ChangeAudited, AnswerAudited, Silent, Stage
  <2> QED  BY <2>1, <2>2, <2>3 DEF Next, Time, vars
<1>4. (\A r \in Requests : Known(r))' /\ TypeOK' /\ LimiterInv'
  BY <1>2, <1>3
<1> QED  BY <1>4, EachKnown, PTL

LEMMA AlwaysInv == Spec => []ServerInv
BY InitInv, StepInv, PTL DEF Spec

--------------------------------------------------------------------------

\* The variables keep their types, and at most one tool runs at a time.
THEOREM ServerTypeOK == Spec => []TypeOK
<1>1. ServerInv => TypeOK  BY DEF ServerInv
<1> QED  BY <1>1, AlwaysInv, PTL

\* In the server, too, no window has more admissions than the limit: whatever the
\* interleaving of the requests, no other step touches the bucket.
THEOREM ServerWindowBound == Spec => []WindowBound
<1>1. ServerInv => WindowBound  BY DEF ServerInv, LimiterInv
<1> QED  BY <1>1, AlwaysInv, PTL

\* Every change was asked for with the token, and is audited unless a fault hit.
THEOREM ChangesAlwaysAudited == Spec => []ChangesAreAudited
<1>1. ServerInv => ChangesAreAudited  BY DEF ServerInv
<1> QED  BY <1>1, AlwaysInv, PTL

\* Every answer has its one audit record, silent reads and faults of the log apart.
THEOREM AnswersAlwaysAudited == Spec => []AnswersAreAudited
<1>1. ServerInv => AnswersAreAudited  BY DEF ServerInv
<1> QED  BY <1>1, AlwaysInv, PTL

\* A 429 is only ever said when the window is full.
THEOREM RefusalsAreDue == Spec => RefusedOnlyWhenFull
<1>1. ASSUME ServerInv, [Next]_vars
      PROVE  [\A r \in Requests :
                 (Stage(r) # "answered" /\ Stage(r)' = "answered" /\ req'[r].answer = "429") =>
                     WindowFull]_vars
  <2> SUFFICES ASSUME NEW r \in Requests, Stage(r) # "answered", req'[r].stage = "answered",
                      req'[r].answer = "429"
               PROVE  WindowFull
    BY DEF Stage
  <2>0. TypeOK /\ LimiterInv /\ req \in [Requests -> Request]  BY <1>1 DEF ServerInv, TypeOK
  <2>a. ASSUME NEW q \in Requests, NEW a \in Answers, Answer(q, a)
        PROVE  q = r /\ a = "429"
    <3>1. q = r  BY <2>0, <2>a DEF Answer, Stage
    <3> QED  BY <2>0, <2>a, <3>1 DEF Answer
  <2>1. ASSUME NEW q \in Requests, RateLimited(q) PROVE WindowFull
    BY <2>0, <2>1, RefusalIsFull DEF RateLimited
  <2>2. ASSUME NEW q \in Requests, Unauthorized(q) PROVE FALSE
    BY <2>2, <2>a DEF Unauthorized, Deny, Answers
  <2>3. ASSUME NEW q \in Requests, AuditCall(q) PROVE FALSE
    <3>1. Stage(q) = "called"  BY <2>0, <2>3 DEF AuditCall, TypeOK
    <3>2. req[q].result \in Results  BY <2>0, <3>1, RequestCases DEF Calling
    <3>3. OutcomeOf(req[q].result) \in {"success", "denied", "error"}
      BY <3>2 DEF OutcomeOf, Results
    <3> QED  BY <2>3, <2>a, <3>3 DEF AuditCall, Answers
  <2>4. ASSUME NEW q \in Requests, AuditFails(q) PROVE FALSE
    BY <2>4, <2>a DEF AuditFails, Answers
  <2>5. ASSUME NEW q \in Requests, Arrive(q) PROVE FALSE
    BY <2>0, <2>5 DEF Arrive, Stage
  <2>6. ASSUME NEW q \in Requests, Admitted(q) PROVE FALSE
    BY <2>0, <2>6 DEF Admitted, Stage
  <2>7. ASSUME NEW q \in Requests, CallTool(q) PROVE FALSE
    BY <2>0, <2>7 DEF CallTool, Stage
  <2>8. CASE Crash
    <3>1. req'[r].stage = "lost" \/ req'[r] = req[r]  BY <2>8 DEF Crash
    <3> QED  BY <3>1 DEF Stage
  <2>9. CASE UNCHANGED req
    BY <2>9 DEF Stage
  <2> QED
    BY <1>1, <2>1, <2>2, <2>3, <2>4, <2>5, <2>6, <2>7, <2>8, <2>9 DEF Next, Serve, Time, vars
<1> QED  BY <1>1, AlwaysInv, PTL DEF Spec, RefusedOnlyWhenFull

=============================================================================
