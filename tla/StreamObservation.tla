-------------------------- MODULE StreamObservation --------------------------
(***************************************************************************)
(* What the verifier relies on of an observed stream, whatever its         *)
(* protocol: Active, Snapshot, WaitEstablished and Done.  A stream is      *)
(* established at most once and never after its end, it ends once, how it  *)
(* ended is never changed, and Done is closed only after that.  Stream     *)
(* (SSE, WebSocket and gRPC) is shown to implement this module.            *)
(***************************************************************************)
CONSTANTS
    Endings, \* the ways to end that the verifier can tell apart
    Open     \* no ending yet

VARIABLES
    established, \* snapshot.Established, and the established channel is closed
    ending,      \* what the snapshot says of the end
    done         \* the done channel is closed

vars == <<established, ending, done>>

Init ==
    /\ established = FALSE
    /\ ending = Open
    /\ done = FALSE

Establish ==
    /\ ending = Open
    /\ established' = TRUE
    /\ UNCHANGED <<ending, done>>

End ==
    /\ ending = Open
    /\ ending' \in Endings
    /\ UNCHANGED <<established, done>>

CloseDone ==
    /\ ending # Open
    /\ done' = TRUE
    /\ UNCHANGED <<established, ending>>

Next == Establish \/ End \/ CloseDone

Spec == Init /\ [][Next]_vars
=============================================================================
