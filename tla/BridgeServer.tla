---------------------------- MODULE BridgeServer ----------------------------
(***************************************************************************)
(* The HTTP server (src/src/devbox_bridge/server.py): requests pass the    *)
(* bearer-auth middleware, then their tool runs inside _call_with_audit.   *)
(* All of it is on one event loop and the tools do not yield: a tool that  *)
(* runs blocks the middleware of every other request, but between the two  *)
(* stages of one request anything can happen, and the process can die in   *)
(* the middle of a tool, after its effect and before its audit record.     *)
(*                                                                         *)
(* audit.log() is one step here: the record is in the trail or the call    *)
(* raises.  AuditLog shows how the files give that.                        *)
(***************************************************************************)
EXTENDS RateLimiter, FiniteSets

CONSTANTS
    Requests,     \* the HTTP requests, each with one tool call
    None,         \* no request: the event loop is free
    AuditReads,   \* audit.audit_reads
    MaxFaults     \* bound: crashes and failing writes of the audit log

ASSUME ServerAssumption ==
    AuditReads \in BOOLEAN /\ None \notin Requests /\ MaxFaults \in Nat

VARIABLES
    req,       \* each request: its stage, and what it asked for
    loop,      \* the request whose tool is running
    trail,     \* the audit records of each request, in order
    effects,   \* auxiliary: the requests whose tool has changed something
    faults     \* the faults so far

vars == <<limiterVars, req, loop, trail, effects, faults>>

--------------------------------------------------------------------------
(* The audit policy.                                                       *)

\* Tools whose event is in AUDITED_READ_EVENTS, and the others: those of
\* AUDITED_WRITE_EVENTS and the ones no list has (notes_*), some of which only read.
ToolClasses == {"read", "other"}
CanChange(class) == class = "other"

\* How a tool ends: it returns, raises a security rejection or another denial, or fails.
Results == {"success", "rejected", "denied", "error"}

\* _event_for_tool and _outcome_for_exception.
EventOf(class, result) == IF result = "rejected" THEN "rejected" ELSE class
OutcomeOf(result) == IF result = "rejected" THEN "denied" ELSE result

\* should_audit: only the successes of read tools can be left out.
ShouldAudit(event) == event = "read" => AuditReads

\* Mutant: the policy is asked whatever the outcome.
RecordsByEvent(event, outcome) ==
    IF ShouldAudit(event) THEN <<[event |-> event, outcome |-> outcome]>> ELSE <<>>

\* AuditLogger.log: what a call adds to the trail.
Records(event, outcome) ==
    IF outcome = "success" /\ ~ShouldAudit(event) THEN <<>>
    ELSE <<[event |-> event, outcome |-> outcome]>>

Logged(r, event, outcome) == trail' = [trail EXCEPT ![r] = @ \o Records(event, outcome)]

--------------------------------------------------------------------------
(* The middleware.                                                         *)

Stage(r) == req[r].stage
Answer(r, a) == req' = [req EXCEPT ![r] = [stage |-> "answered", ask |-> @.ask, answer |-> a]]
Fault == faults < MaxFaults /\ faults' = faults + 1

Asks == [token : {"good", "bad"}, class : ToolClasses]

Arrive(r) ==
    /\ Stage(r) = "none"
    /\ \E ask \in Asks : req' = [req EXCEPT ![r] = [stage |-> "arrived", ask |-> ask]]
    /\ UNCHANGED <<limiterVars, loop, trail, effects, faults>>

\* The middleware audits a refusal and answers; if the audit log cannot be written the
\* exception becomes a 500.
Deny(r, event, answer) ==
    \/ /\ Logged(r, event, "denied")
       /\ Answer(r, answer)
       /\ UNCHANGED faults
    \/ /\ Fault
       /\ Answer(r, "500")
       /\ UNCHANGED trail

\* A missing or a wrong token: no hit is recorded.
Unauthorized(r) ==
    /\ loop = None /\ Stage(r) = "arrived" /\ req[r].ask.token = "bad"
    /\ Deny(r, "auth.failed", "401")
    /\ UNCHANGED <<limiterVars, loop, effects>>

\* Mutant: a request over the limit waits for the window to move.
RateLimitedWaits(r) ==
    /\ loop = None /\ Stage(r) = "arrived" /\ req[r].ask.token = "good"
    /\ Refuse
    /\ UNCHANGED <<req, loop, trail, effects, faults>>

RateLimited(r) ==
    /\ loop = None /\ Stage(r) = "arrived" /\ req[r].ask.token = "good"
    /\ Refuse
    /\ Deny(r, "auth.rate_limited", "429")
    /\ UNCHANGED <<loop, effects>>

\* Mutant: the limiter is asked before the token is looked at.
AdmittedUnverified(r) ==
    /\ loop = None /\ Stage(r) = "arrived"
    /\ Admit
    /\ req' = [req EXCEPT ![r] = [stage |-> "admitted", ask |-> @.ask]]
    /\ UNCHANGED <<loop, trail, effects, faults>>

Admitted(r) ==
    /\ loop = None /\ Stage(r) = "arrived" /\ req[r].ask.token = "good"
    /\ Admit
    /\ req' = [req EXCEPT ![r] = [stage |-> "admitted", ask |-> @.ask]]
    /\ UNCHANGED <<loop, trail, effects, faults>>

--------------------------------------------------------------------------
(* _call_with_audit.                                                       *)

\* Mutant: the tool runs in a thread, and the loop serves the next request.
CallToolInThread(r) ==
    /\ loop = None /\ Stage(r) = "admitted"
    /\ \E result \in Results :
          req' = [req EXCEPT ![r] = [stage |-> "called", ask |-> @.ask, result |-> result]]
    /\ UNCHANGED <<limiterVars, loop, trail, effects, faults>>

\* call(): a tool that fails may have changed something before it did, one that is
\* rejected has not.
CallTool(r) ==
    /\ loop = None /\ Stage(r) = "admitted"
    /\ loop' = r
    /\ \E result \in Results :
          /\ req' = [req EXCEPT ![r] = [stage |-> "called", ask |-> @.ask, result |-> result]]
          /\ \E changed \in {{}, {r}} :
                /\ result \in {"rejected", "denied"} => changed = {}
                /\ changed = {r} => CanChange(req[r].ask.class)
                /\ effects' = effects \cup changed
    /\ UNCHANGED <<limiterVars, trail, faults>>

\* Mutant: the exceptions of a tool are not audited.
AuditSuccess(r) ==
    /\ loop = r
    /\ IF req[r].result = "success" THEN Logged(r, req[r].ask.class, "success")
       ELSE UNCHANGED trail
    /\ Answer(r, OutcomeOf(req[r].result))
    /\ loop' = None
    /\ UNCHANGED <<limiterVars, effects, faults>>

\* audit.log(), on the way out of both branches, and the result or the exception goes back.
AuditCall(r) ==
    /\ loop = r
    /\ Logged(r, EventOf(req[r].ask.class, req[r].result), OutcomeOf(req[r].result))
    /\ Answer(r, OutcomeOf(req[r].result))
    /\ loop' = None
    /\ UNCHANGED <<limiterVars, effects, faults>>

\* audit.log() raises: its exception replaces the result of the tool.
AuditFails(r) ==
    /\ loop = r
    /\ Records(EventOf(req[r].ask.class, req[r].result), OutcomeOf(req[r].result)) # <<>>
    /\ Fault
    /\ Answer(r, "error")
    /\ loop' = None
    /\ UNCHANGED <<limiterVars, trail, effects>>

--------------------------------------------------------------------------

\* The process dies, or is restarted by register-project.sh: what was in flight gets
\* no answer.
InFlight == {r \in Requests : Stage(r) \in {"arrived", "admitted", "called"}}

Crash ==
    /\ Fault
    /\ Restart
    /\ loop' = None
    /\ req' = [r \in Requests |->
                  IF r \in InFlight THEN [stage |-> "lost", ask |-> req[r].ask] ELSE req[r]]
    /\ UNCHANGED <<trail, effects>>

Time == Tick /\ UNCHANGED <<req, loop, trail, effects, faults>>

Init ==
    /\ LimiterInit
    /\ req = [r \in Requests |-> [stage |-> "none"]]
    /\ loop = None
    /\ trail = [r \in Requests |-> <<>>] /\ effects = {} /\ faults = 0

Serve(r) == Unauthorized(r) \/ RateLimited(r) \/ Admitted(r) \/ CallTool(r)
            \/ AuditCall(r) \/ AuditFails(r)

Next == (\E r \in Requests : Arrive(r) \/ Serve(r)) \/ Crash \/ Time

Spec == Init /\ [][Next]_vars

\* Every tool returns (its subprocesses have timeouts), and the event loop serves every
\* request that is ready.
FairSpec == Spec /\ WF_vars(\E r \in Requests : Serve(r))

--------------------------------------------------------------------------
(* Properties.                                                             *)

Request ==
    [stage : {"none"}]
    \cup [stage : {"arrived", "admitted", "lost"}, ask : Asks]
    \cup [stage : {"called"}, ask : Asks, result : Results]
    \cup [stage : {"answered"}, ask : Asks, answer : {"401", "429", "500", "success", "denied", "error"}]

AuditRecord == [event : ToolClasses \cup {"rejected", "auth.failed", "auth.rate_limited"},
                outcome : {"success", "denied", "error"}]

\* The type invariant of the server; the running tool is the one request being called.
TypeOK ==
    /\ LimiterTypeOK
    /\ req \in [Requests -> Request]
    /\ loop \in Requests \cup {None}
    /\ \A r \in Requests : Stage(r) = "called" <=> loop = r
    /\ trail \in [Requests -> Seq(AuditRecord)]
    /\ effects \subseteq Requests
    /\ faults \in Nat

\* Whoever got an answer can be found in the audit log exactly once, with that answer -
\* also when the same request raced others for the limiter - unless it is the success
\* of a read tool, or the log itself failed.
Told(a) == CASE a \in {"401", "429"} -> "denied"
             [] OTHER -> a
Silent(r) == req[r].answer = "success" /\ req[r].ask.class = "read" /\ ~AuditReads
AnswersAreAudited ==
    \A r \in Requests : Stage(r) = "answered" =>
        IF trail[r] = <<>>
        THEN Silent(r) \/ (faults > 0 /\ req[r].answer \in {"500", "error"})
        ELSE Len(trail[r]) = 1 /\ trail[r][1].outcome = Told(req[r].answer)

\* A change is made only for a request that had the token, and every change is in the
\* audit log, unless its tool is still running, or a fault hit between the two.
ChangesAreAudited ==
    \A r \in effects :
        /\ req[r].ask.token = "good"
        /\ \/ loop = r
           \/ trail[r] # <<>> /\ trail[r][1].event = req[r].ask.class
           \/ faults > 0 /\ (Stage(r) = "lost" \/ req[r].answer = "error")

\* A good token is told 429 only when the window that ends now is full of admissions:
\* bad tokens, old hits and a restart never use it up.
RefusedOnlyWhenFull ==
    [][\A r \in Requests :
          (Stage(r) # "answered" /\ Stage(r)' = "answered" /\ req'[r].answer = "429") =>
              WindowFull]_vars

\* Every request is answered, unless the process dies first.
RequestsAnswered ==
    \A r \in Requests : Stage(r) = "arrived" ~> Stage(r) \in {"answered", "lost"}

--------------------------------------------------------------------------
(* The inductive invariant: what is known of a request before its answer.  *)

Unanswered(r) ==
    /\ Stage(r) # "answered" => trail[r] = <<>>
    /\ Stage(r) \in {"none", "arrived", "admitted"} => r \notin effects
    /\ Stage(r) \in {"admitted", "called"} => req[r].ask.token = "good"
    /\ Stage(r) = "called" /\ r \in effects =>
          CanChange(req[r].ask.class) /\ req[r].result \notin {"rejected", "denied"}

ServerInv ==
    /\ TypeOK /\ LimiterInv
    /\ \A r \in Requests : Unanswered(r)
    /\ ChangesAreAudited /\ AnswersAreAudited

=============================================================================
