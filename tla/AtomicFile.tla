----------------------------- MODULE AtomicFile ------------------------------
(***************************************************************************)
(* What the callers of report.WriteJSON, WriteJUnit and WriteFile rely on: *)
(* a path holds nothing or one whole report, a write that returns nil has  *)
(* replaced it, and a write that fails has not.  A failing write may lose  *)
(* the previous report, because the rename that cannot replace a file is   *)
(* retried after the file is removed.  A crash may end a write anywhere.   *)
(***************************************************************************)
CONSTANTS
    Paths,  \* the files that may be written
    Values, \* the reports
    Absent, \* the content of a path that does not exist
    NoPath  \* no path

VARIABLES
    content, \* the report at each path
    call     \* the write in progress and what became of it

vars == <<content, call>>

NoCall == [state |-> "none", path |-> NoPath, value |-> Absent]

Init ==
    /\ content = [p \in Paths |-> Absent]
    /\ call = NoCall

\* writeAtomic is called.
Call ==
    /\ call.state = "none"
    /\ call' \in [state : {"called"}, path : Paths, value : Values]
    /\ UNCHANGED content

\* The old report is removed to make way for the new one.
Lose ==
    /\ call.state = "called"
    /\ content' = [content EXCEPT ![call.path] = Absent]
    /\ UNCHANGED call

\* The new report appears, all at once, and only then nil is returned.
Replace ==
    /\ call.state = "called"
    /\ content' = [content EXCEPT ![call.path] = call.value]
    /\ call' = [call EXCEPT !.state = "nil"]

\* An error is returned, and the new report is not in place.
Fail ==
    /\ call.state = "called"
    /\ call' = [call EXCEPT !.state = "error"]
    /\ UNCHANGED content

\* The caller goes on, or the process dies.
End ==
    /\ call' = NoCall
    /\ UNCHANGED content

Next ==
    \/ Call
    \/ Lose
    \/ Replace
    \/ Fail
    \/ End

Spec == Init /\ [][Next]_vars
=============================================================================
