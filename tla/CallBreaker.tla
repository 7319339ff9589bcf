----------------------------- MODULE CallBreaker -----------------------------
(***************************************************************************)
(* The circuit breaker around calls of a dependency, backend/src/services/ *)
(* circuit-breaker.service.ts.  Calls are in flight while the breaker's    *)
(* state changes, and whatever a call finds when it ends is what it        *)
(* updates.  Counters that are only reported are left out.                 *)
(***************************************************************************)
EXTENDS Backend

CONSTANTS
    FailureThreshold, HalfOpenMaxCalls, SuccessThreshold,
    ResetTimeout        \* config.resetTimeoutMs, in ticks

Idle == "idle"

\* outside is the time since lastFailureTime, up to where it no longer matters.
TypeOK ==
    /\ db \in [state : {"CLOSED", "OPEN", "HALF_OPEN"}, failures : Nat,
               successes : Nat, halfOpenCalls : 0 .. HalfOpenMaxCalls]
    /\ calls \in [Requests -> {Idle, "running"}]
    /\ outside \in 0 .. ResetTimeout + 1
    /\ history \in Nat
    /\ failures \in 0 .. MaxFailures

Init ==
    /\ Running("breaker")
    /\ db = [state |-> "CLOSED", failures |-> 0, successes |-> 0, halfOpenCalls |-> 0]
    /\ calls = [r \in Requests |-> Idle]
    /\ outside = ResetTimeout + 1       \* lastFailureTime is null
    /\ history = 0

\* mutant: the probes of the last time are not forgotten
Probing_KeepsCalls ==
    IF db.state = "OPEN" THEN [db EXCEPT !.state = "HALF_OPEN", !.successes = 0] ELSE db

Probing ==
    IF db.state = "OPEN"
    THEN [db EXCEPT !.state = "HALF_OPEN", !.halfOpenCalls = 0, !.successes = 0]
    ELSE db

\* mutant: a probe is counted when it ends
Admitted_Uncounted(s) == s

Admitted(s) ==
    IF s.state = "HALF_OPEN" THEN [s EXCEPT !.halfOpenCalls = @ + 1] ELSE s

\* execute, up to its await; a call that is rejected changes nothing.
Execute(r) ==
    /\ Step("breaker")
    /\ calls[r] = Idle
    /\ db.state = "OPEN" => outside > ResetTimeout
    /\ Probing.state = "HALF_OPEN" => Probing.halfOpenCalls < HalfOpenMaxCalls
    /\ db' = Admitted(Probing)
    /\ Goes(r, "running")
    /\ history' = IF db'.state # "HALF_OPEN" THEN 0
                  ELSE IF db.state = "HALF_OPEN" THEN history + 1 ELSE 1
    /\ UNCHANGED outside

OnSuccess(r) ==
    /\ Step("breaker")
    /\ calls[r] = "running"
    /\ Goes(r, Idle)
    /\ db' = IF db.state # "HALF_OPEN" THEN [db EXCEPT !.failures = 0]
             ELSE IF db.successes + 1 < SuccessThreshold
             THEN [db EXCEPT !.failures = 0, !.successes = @ + 1]
             ELSE [state |-> "CLOSED", failures |-> 0, successes |-> 0, halfOpenCalls |-> 0]
    /\ UNCHANGED <<outside, history>>

OnFailure(r) ==
    /\ Fail("breaker")
    /\ calls[r] = "running"
    /\ Goes(r, Idle)
    /\ db' = [db EXCEPT !.failures = @ + 1,
                 !.state = IF db.failures + 1 >= FailureThreshold \/ @ = "HALF_OPEN"
                           THEN "OPEN" ELSE @]
    /\ outside' = 0
    /\ UNCHANGED history

ForceOpen ==
    /\ Fail("breaker")
    /\ db' = [db EXCEPT !.state = "OPEN"]
    /\ outside' = 0
    /\ UNCHANGED <<calls, history>>

ForceClose ==
    /\ Step("breaker")
    /\ db' = [state |-> "CLOSED", failures |-> 0, successes |-> 0, halfOpenCalls |-> 0]
    /\ UNCHANGED <<calls, outside, history>>

TimePasses ==
    /\ Step("breaker")
    /\ outside <= ResetTimeout
    /\ outside' = outside + 1
    /\ UNCHANGED <<db, calls, history>>

Next ==
    \/ \E r \in Requests : Execute(r) \/ OnSuccess(r) \/ OnFailure(r)
    \/ ForceOpen \/ ForceClose \/ TimePasses

\* The dependency keeps being called, every call settles, and time passes.
Fairness ==
    /\ \A r \in Requests : /\ WF_vars(Execute(r))
                           /\ WF_vars(OnSuccess(r) \/ OnFailure(r))
    /\ WF_vars(TimePasses)

Spec == Init /\ [][Next]_vars /\ Fairness

------------------------------------------------------------------------------
(* Properties *)

\* From opening to opening a half-open breaker lets no more than halfOpenMaxCalls
\* probes through, whichever older calls end meanwhile.
ProbesAreFew == db.state = "HALF_OPEN" => history <= HalfOpenMaxCalls

\* Once the dependency no longer fails the breaker closes, and stays closed: late
\* answers of older calls leave it no half-open state in which every call is
\* rejected.
Recovers == <>[](service = "breaker" => db.state = "CLOSED")
==============================================================================
