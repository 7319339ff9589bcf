------------------------------- MODULE Backend -------------------------------
(***************************************************************************)
(* A service of the backend: what it stores, its calls in flight, and what *)
(* is outside of it.  A step is what a call does from one await to the     *)
(* next; between its steps the other calls take theirs.                    *)
(***************************************************************************)
EXTENDS Integers

CONSTANTS
    Requests,       \* the calls that can be in flight together
    MaxFailures     \* bound on what fails: calls, writes and processes

ASSUME BackendAssumption == MaxFailures \in Nat

VARIABLES
    service,        \* which service it is
    db,             \* what it stores
    calls,          \* the calls in flight
    outside,        \* whom it talks to
    history,        \* ghost: what a property compares the present with
    failures

vars == <<service, db, calls, outside, history, failures>>

Running(s) == service = s /\ failures = 0

\* A step of s in which nothing fails.
Step(s) == service = s /\ UNCHANGED <<service, failures>>

\* A step of s in which something does.
Fail(s) ==
    /\ service = s /\ UNCHANGED service
    /\ failures < MaxFailures
    /\ failures' = failures + 1

\* The call r goes on with v.
Goes(r, v) == calls' = [calls EXCEPT ![r] = v]
==============================================================================
