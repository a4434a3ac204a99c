-------------------------- MODULE TrafficExecution --------------------------
(***************************************************************************)
(* What internal/lifecycle expects of a traffic driver, whichever one is   *)
(* configured: the trafficExecution interface of verify.go.  Requests are  *)
(* admitted until StopAndSnapshot, an admitted request is active until it  *)
(* settles, and a settled request never changes again.  Traffic (HTTP and  *)
(* unary gRPC) and CommandProbe are shown to implement this module.        *)
(***************************************************************************)
EXTENDS Naturals, FiniteSets

CONSTANTS
    Requests,        \* the request ids, 1..Count in the code
    Concurrency,     \* how many requests may be active at once
    SettlesUnstarted \* may a request get a result without ever being active?

VARIABLES
    status,     \* what became of each request
    admitting   \* FALSE once StopAndSnapshot has run

vars == <<status, admitting>>

Statuses == {"queued", "active", "settled", "dropped"}

InStatus(s) == {id \in Requests : status[id] = s}

Init ==
    /\ status = [id \in Requests |-> "queued"]
    /\ admitting = TRUE

\* begin (or, for a probe process, activate) admits a request
Begin(id) ==
    /\ admitting
    /\ status[id] = "queued"
    /\ Cardinality(InStatus("active")) < Concurrency
    /\ status' = [status EXCEPT ![id] = "active"]
    /\ UNCHANGED admitting

Settle(id) ==
    /\ \/ status[id] = "active"
       \/ SettlesUnstarted /\ status[id] = "queued"
    /\ status' = [status EXCEPT ![id] = "settled"]
    /\ UNCHANGED admitting

\* a queued request that a worker meets after the stop is never sent
Drop(id) ==
    /\ ~admitting
    /\ status[id] = "queued"
    /\ status' = [status EXCEPT ![id] = "dropped"]
    /\ UNCHANGED admitting

StopAndSnapshot ==
    /\ admitting' = FALSE
    /\ UNCHANGED status

Next ==
    \/ \E id \in Requests : Begin(id) \/ Settle(id) \/ Drop(id)
    \/ StopAndSnapshot

Spec == Init /\ [][Next]_vars
=============================================================================
