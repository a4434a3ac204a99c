------------------------------- MODULE Stream --------------------------------
(***************************************************************************)
(* One stream held open across shutdown: the reader goroutine of           *)
(* internal/streaming (SSE, WebSocket) or internal/grpcprobe (StreamRun),  *)
(* the peer, and the part of lifecycle.run that opens it, stamps the       *)
(* signal, arms the close timer, waits and judges.  The three readers      *)
(* share their control; `kind' says which one runs.  Time is the order of  *)
(* an event relative to signalRequestedAt and to closeDeadline.            *)
(***************************************************************************)
EXTENDS Naturals

CONSTANTS
    Kinds,           \* the protocols to be observed
    MinimumMessages, \* streaming.grpc.minimum_messages
    MaxMessages      \* maxWebSocketMessages and maxStreamMessages

AllKinds == {"sse", "websocket", "grpc"}

\* config.Validate: 1 <= minimum_messages <= 10000
ASSUME StreamAssumption ==
    /\ Kinds \subseteq AllKinds
    /\ MaxMessages \in Nat
    /\ MinimumMessages \in 1..MaxMessages

\* before the signal is requested, until the close deadline, and after it
Times == {"running", "draining", "overdue"}

VARIABLES
    kind,        \* the protocol of this stream, chosen once
    needsLast,   \* terminal_event or terminal_message is configured
    clock,       \* where time is
    peer,        \* "open", or how the peer ended the stream
    reader,      \* where the reader goroutine is
    snapshot,    \* the evidence under the run's mutex
    canceled,    \* the stream's context is canceled
    interrupted, \* the context of the whole verification is canceled
    timer,       \* the close timer is armed
    caller,      \* where lifecycle.run is with this stream
    active,      \* summary.ActiveAtSignal
    summary      \* the rest of the summary

config == <<kind, needsLast>>
vars == <<config, clock, peer, reader, snapshot, canceled, interrupted, timer,
          caller, active, summary>>

\* the variables that no step of the reader changes
outside == <<config, clock, peer, canceled, interrupted, timer, caller, active,
             summary>>

NotYet == "not_yet"

Unsummarized ==
    [closedAfterSignal |-> FALSE, closedWithinTimeout |-> FALSE,
     gracefully |-> FALSE, errorKind |-> "pending"]

Init ==
    /\ kind \in Kinds
    /\ needsLast \in (IF kind = "grpc" THEN {FALSE} ELSE BOOLEAN)
    /\ clock = "running"
    /\ peer = "open"
    /\ reader = "opening"
    /\ snapshot = [established |-> FALSE, messages |-> 0, last |-> NotYet,
                   closedAt |-> NotYet, proper |-> FALSE, error |-> "none"]
    /\ canceled = FALSE
    /\ interrupted = FALSE
    /\ timer = FALSE
    /\ caller = "establishing"
    /\ active = FALSE
    /\ summary = Unsummarized

Ended == snapshot.closedAt # NotYet

------------------------------------------------------------------------------
\* The peer

\* "proper": EOF after a complete event, a close frame with the configured
\* code, or the expected status.  "improper": anything else that ends reading.
PeerEnds ==
    /\ peer = "open"
    /\ peer' \in {"proper", "improper"}
    /\ UNCHANGED <<config, clock, reader, snapshot, canceled, interrupted, timer,
                   caller, active, summary>>

------------------------------------------------------------------------------
\* The reader.  update and fail run under the mutex with one time stamp.

\* fail: ErrorKind and ClosedAt.  Only the gRPC reader also sets FinalCode.
Failed(error, proper) ==
    [snapshot EXCEPT !.error = error, !.closedAt = clock, !.proper = proper]

\* FinalCode of a broken call may happen to be the configured code.
BrokenProper == IF kind = "grpc" THEN BOOLEAN ELSE {FALSE}

\* client.Do and Dial report a canceled context; an SSE response with a wrong
\* status, and NewStream, are an ordinary failure whatever the context is.
OpenErrors ==
    (IF kind # "grpc" /\ canceled THEN {"canceled"} ELSE {})
        \cup (IF kind # "websocket" \/ ~canceled THEN {"broken"} ELSE {})

\* The request was answered; the WebSocket handshake alone establishes.
Opens ==
    /\ reader = "opening"
    /\ reader' = "reading"
    /\ snapshot' = [snapshot EXCEPT !.established = kind = "websocket"]
    /\ UNCHANGED outside

FailsToOpen ==
    /\ reader = "opening"
    /\ \E e \in OpenErrors, p \in BrokenProper : snapshot' = Failed(e, p)
    /\ reader' = "leaving"
    /\ UNCHANGED outside

\* dispatch of an event that matters: the initial or the terminal one
SSEEvent ==
    /\ kind = "sse"
    /\ \/ snapshot' = [snapshot EXCEPT !.established = TRUE]
       \/ needsLast /\ snapshot' = [snapshot EXCEPT !.last = clock]

\* Mutant: the limit is looked at one message too late.
WithinLimitLate == snapshot.messages <= MaxMessages

\* snapshot.Messages + 1 > max
WithinLimit == snapshot.messages < MaxMessages

\* a message within the limit; the last terminal message keeps its time
WebSocketMessage ==
    /\ kind = "websocket"
    /\ WithinLimit
    /\ \E last \in {snapshot.last} \cup IF needsLast THEN {clock} ELSE {} :
        snapshot' = [snapshot EXCEPT !.messages = @ + 1, !.last = last]

GRPCMessage ==
    /\ kind = "grpc"
    /\ WithinLimit
    /\ snapshot' =
        [snapshot EXCEPT
            !.messages = @ + 1,
            !.established = @ \/ snapshot.messages + 1 >= MinimumMessages]

\* Data that the peer sent, perhaps before it ended, is received.
Receive ==
    /\ reader = "reading"
    /\ SSEEvent \/ WebSocketMessage \/ GRPCMessage
    /\ UNCHANGED <<reader, outside>>

\* Mutant: the reader goes on after the message limit.
AfterLimitReading == "reading"

\* the reader returns after fail("message_limit")
AfterLimit == "leaving"

\* One message more than the limit is only counted ...
ExceedLimit ==
    /\ reader = "reading"
    /\ kind # "sse"
    /\ ~WithinLimit
    /\ snapshot' = [snapshot EXCEPT !.messages = @ + 1]
    /\ reader' = "exceeded"
    /\ UNCHANGED outside

\* ... and reading is given up, in a critical section of its own.
FailLimit ==
    /\ reader = "exceeded"
    /\ \E p \in BrokenProper : snapshot' = Failed("broken", p)
    /\ reader' = AfterLimit
    /\ UNCHANGED outside

\* EOF or a close frame, which is looked at before the context is
ReadEnd ==
    /\ reader = "reading"
    /\ kind # "grpc"
    /\ \/ /\ peer = "proper"
          /\ snapshot' = Failed("none", TRUE)
       \/ /\ peer = "improper"
          /\ \E e \in {"broken"}
                      \cup (IF canceled THEN {"canceled"} ELSE {})
                      \cup (IF kind = "websocket" THEN {"none"} ELSE {}) :
                snapshot' = Failed(e, FALSE)
    /\ reader' = "leaving"
    /\ UNCHANGED outside

\* the read fails because the context is canceled
ReadCanceled ==
    /\ reader = "reading"
    /\ kind # "grpc"
    /\ canceled
    /\ snapshot' = Failed("canceled", FALSE)
    /\ reader' = "leaving"
    /\ UNCHANGED outside

\* RecvMsg fails, with the peer's status or with that of the canceled context,
\* and update begins: FinalCode and ClosedAt are set under the mutex.
ReceiveFails ==
    /\ reader = "reading"
    /\ kind = "grpc"
    /\ \/ peer = "proper" /\ snapshot' = Failed("none", TRUE)
       \/ peer = "improper" /\ snapshot' = Failed("none", FALSE)
       \/ canceled /\ \E p \in BOOLEAN : snapshot' = Failed("none", p)
    /\ reader' = "closing"
    /\ UNCHANGED outside

\* Mutant: the status of a canceled call is taken for the peer's.
CloseErrorUnchecked == "none"

\* if ctx.Err() != nil { snapshot.ErrorKind = "canceled" }
CloseError == IF canceled THEN "canceled" ELSE "none"

\* the rest of that update, and the end of the critical section
FinishUpdate ==
    /\ reader = "closing"
    /\ snapshot' = [snapshot EXCEPT !.error = CloseError]
    /\ reader' = "leaving"
    /\ UNCHANGED outside

\* the deferred close(r.done)
CloseDone ==
    /\ reader = "leaving"
    /\ reader' = "done"
    /\ UNCHANGED <<snapshot, outside>>

Reader ==
    \/ Opens \/ FailsToOpen \/ Receive \/ ExceedLimit \/ FailLimit
    \/ ReadEnd \/ ReadCanceled \/ ReceiveFails \/ FinishUpdate \/ CloseDone

\* the mutex is free: Active and Snapshot do not block
Unlocked == reader # "closing"

------------------------------------------------------------------------------
\* lifecycle.run, as far as it concerns this stream

\* WaitEstablished.  If several cases of its select are ready, any is taken.
Established ==
    /\ caller = "establishing"
    /\ Unlocked
    /\ snapshot.established
    /\ caller' = "established"
    /\ UNCHANGED <<config, clock, peer, reader, snapshot, canceled, interrupted,
                   timer, active, summary>>

\* establish_timeout passed, the stream ended first, or an interrupt
NotEstablished ==
    /\ caller = "establishing"
    /\ Unlocked
    /\ canceled' = TRUE
    /\ caller' = "returned"
    /\ UNCHANGED <<config, clock, peer, reader, snapshot, interrupted, timer,
                   active, summary>>

\* signalRequestedAt := time.Now()
RequestSignal ==
    /\ caller = "established"
    /\ clock' = "draining"
    /\ caller' = "requested"
    /\ UNCHANGED <<config, peer, reader, snapshot, canceled, interrupted, timer,
                   active, summary>>

\* Active
IsActive == snapshot.established /\ ~Ended

ReadActive ==
    /\ caller = "requested"
    /\ Unlocked
    /\ active' = IsActive
    /\ caller' = "signaled"
    /\ UNCHANGED <<config, clock, peer, reader, snapshot, canceled, interrupted,
                   timer, summary>>

\* The signal was delivered, post-signal traffic has started: only now the
\* close timer is armed, with what is left until closeDeadline.
ArmTimer ==
    /\ caller = "signaled"
    /\ timer' = TRUE
    /\ caller' = "armed"
    /\ UNCHANGED <<config, clock, peer, reader, snapshot, canceled, interrupted,
                   active, summary>>

\* Mutant: the timers count from a wrong instant.
DueAtOnce == TRUE

\* closeDeadline has passed
Due == clock = "overdue"

\* time.AfterFunc(closeAfter, cancel)
TimerFires ==
    /\ timer
    /\ Due
    /\ timer' = FALSE
    /\ canceled' = TRUE
    /\ UNCHANGED <<config, clock, peer, reader, snapshot, interrupted, caller,
                   active, summary>>

\* The container, traffic and telemetry are done with: waitAndSummarize.
BeginWait ==
    /\ caller = "armed"
    /\ Unlocked
    /\ caller' = IF IsActive THEN "selecting" ELSE "grace"
    /\ UNCHANGED <<config, clock, peer, reader, snapshot, canceled, interrupted,
                   timer, active, summary>>

SelectDone ==
    /\ caller = "selecting"
    /\ reader = "done"
    /\ caller' = "grace"
    /\ UNCHANGED <<config, clock, peer, reader, snapshot, canceled, interrupted,
                   timer, active, summary>>

\* the timer of the wait, or nothing remained to wait for
SelectTimer ==
    /\ caller = "selecting"
    /\ Due
    /\ canceled' = TRUE
    /\ caller' = "grace"
    /\ UNCHANGED <<config, clock, peer, reader, snapshot, interrupted, timer,
                   active, summary>>

\* one more second for the reader to leave
GraceDone ==
    /\ caller = "grace"
    /\ reader = "done"
    /\ caller' = "summarizing"
    /\ UNCHANGED <<config, clock, peer, reader, snapshot, canceled, interrupted,
                   timer, active, summary>>

GraceOver ==
    /\ caller = "grace"
    /\ canceled' = TRUE
    /\ caller' = "summarizing"
    /\ UNCHANGED <<config, clock, peer, reader, snapshot, interrupted, timer,
                   active, summary>>

\* The WebSocket wants its terminal message after the signal; for SSE any
\* terminal event counts.
LastSeen ==
    \/ ~needsLast
    \/ kind = "sse" /\ snapshot.last # NotYet
    \/ kind = "websocket" /\ snapshot.last \in {"draining", "overdue"}

ClosedAfterSignal == snapshot.closedAt \in {"draining", "overdue"}
ClosedWithinTimeout == ClosedAfterSignal /\ snapshot.closedAt # "overdue"

Summarize ==
    /\ caller = "summarizing"
    /\ Unlocked
    /\ summary' =
        [closedAfterSignal |-> ClosedAfterSignal,
         closedWithinTimeout |-> ClosedWithinTimeout,
         gracefully |-> /\ active
                        /\ ClosedAfterSignal
                        /\ ClosedWithinTimeout
                        /\ snapshot.proper
                        /\ LastSeen
                        /\ snapshot.error = "none",
         errorKind |-> IF Ended THEN snapshot.error ELSE "cancel_timeout"]
    /\ caller' = "summarized"
    /\ UNCHANGED <<config, clock, peer, reader, snapshot, canceled, interrupted,
                   timer, active>>

\* Mutant: the function that opened the stream does not cancel it.
ReturnUncanceled == canceled' = canceled

\* the deferred cancel of the stream's context
DeferredCancel == canceled' = TRUE

\* run returns, after the summary or early, for whatever reason
Return ==
    /\ caller \notin {"establishing", "returned"}
    /\ DeferredCancel
    /\ timer' = FALSE
    /\ caller' = "returned"
    /\ UNCHANGED <<config, clock, peer, reader, snapshot, interrupted, active,
                   summary>>

Caller ==
    \/ Established \/ NotEstablished
    \/ RequestSignal \/ ReadActive \/ ArmTimer
    \/ BeginWait \/ SelectDone \/ SelectTimer \/ GraceDone \/ GraceOver
    \/ Summarize \/ Return

\* the close timeout passes
Overdue ==
    /\ clock = "draining"
    /\ clock' = "overdue"
    /\ UNCHANGED <<config, peer, reader, snapshot, canceled, interrupted, timer,
                   caller, active, summary>>

\* SIGINT or SIGTERM reaches draincheck
Interrupt ==
    /\ ~interrupted
    /\ interrupted' = TRUE
    /\ canceled' = TRUE
    /\ UNCHANGED <<config, clock, peer, reader, snapshot, timer, caller, active,
                   summary>>

Terminated ==
    /\ caller = "returned"
    /\ reader = "done"
    /\ UNCHANGED vars

Next ==
    \/ PeerEnds
    \/ Reader
    \/ Caller
    \/ TimerFires
    \/ Overdue
    \/ Interrupt
    \/ Terminated

SafeSpec == Init /\ [][Next]_vars

\* Reading ends because the context is canceled.
Aborts == canceled /\ (FailsToOpen \/ ReadCanceled \/ ReceiveFails)

(***************************************************************************)
(* The reader is scheduled and its reads fail once its context is          *)
(* canceled; the waits of the caller have timers.  Nothing is assumed of   *)
(* the peer or the user.                                                   *)
(***************************************************************************)
Fairness ==
    /\ WF_vars(Aborts)
    /\ WF_vars(FailLimit)
    /\ WF_vars(FinishUpdate)
    /\ WF_vars(CloseDone)
    /\ WF_vars(Caller)
    /\ WF_vars(Overdue)

Spec == SafeSpec /\ Fairness

------------------------------------------------------------------------------
\* Properties

Readers == {"opening", "reading", "exceeded", "closing", "leaving", "done"}
Callers ==
    {"establishing", "established", "requested", "signaled", "armed",
     "selecting", "grace", "summarizing", "summarized", "returned"}
Errors == {"none", "broken", "canceled"}

Snapshots ==
    [established : BOOLEAN, messages : 0..(MaxMessages + 1),
     last : Times \cup {NotYet}, closedAt : Times \cup {NotYet},
     proper : BOOLEAN, error : Errors]

Summaries ==
    [closedAfterSignal : BOOLEAN, closedWithinTimeout : BOOLEAN,
     gracefully : BOOLEAN,
     errorKind : Errors \cup {"pending", "cancel_timeout"}]

\* The types of the variables; in particular no reader counts on after
\* the first message over its limit.
TypeOK ==
    /\ kind \in Kinds
    /\ needsLast \in BOOLEAN
    /\ clock \in Times
    /\ peer \in {"open", "proper", "improper"}
    /\ reader \in Readers
    /\ snapshot \in Snapshots
    /\ reader \in {"opening", "reading"} => snapshot.messages <= MaxMessages
    /\ canceled \in BOOLEAN
    /\ interrupted \in BOOLEAN
    /\ timer \in BOOLEAN
    /\ caller \in Callers
    /\ active \in BOOLEAN
    /\ summary \in Summaries

(***************************************************************************)
(* active_at_signal is read after signalRequestedAt is stamped, so that a  *)
(* stream that counts as active did not end before the signal: the two     *)
(* time stamps and the flag never contradict each other.                   *)
(***************************************************************************)
ActiveEndsAfterSignal == active => snapshot.closedAt # "running"

(***************************************************************************)
(* closed_gracefully is earned: the peer itself ended the stream, properly *)
(* and between the request of the signal and the close deadline, after the *)
(* stream was established and seen active.  An end that draincheck's own   *)
(* cancellation caused never counts, even if the status of a canceled gRPC *)
(* call is the configured one; and a WebSocket's terminal message came     *)
(* after the signal was requested.                                         *)
(***************************************************************************)
GracefulIsEarned ==
    /\ ActiveEndsAfterSignal
    /\ summary.gracefully =>
        /\ active
        /\ snapshot.established
        /\ peer = "proper"
        /\ snapshot.closedAt = "draining"
        /\ snapshot.error = "none"
        /\ kind = "websocket" /\ needsLast => snapshot.last = "draining"

(***************************************************************************)
(* Unless the user interrupts or run returns, a stream that is still open  *)
(* is not canceled before its close deadline, by none of the three places  *)
(* that cancel it (verify.go:487-513 and the two selects of each           *)
(* waitAndSummarize), however late they are reached.                       *)
(***************************************************************************)
NeverCutEarly ==
    canceled /\ ~interrupted /\ caller # "returned"
    => clock = "overdue" \/ Ended

(***************************************************************************)
(* Every reader goroutine leaves, although the peer may keep the stream    *)
(* open and silent forever.                                                *)
(***************************************************************************)
ObservationEnds == <>(reader = "done")

(***************************************************************************)
(* Each reader implements the observation.  While the gRPC reader is       *)
(* inside its last update, the mutex hides that the stream has ended.      *)
(***************************************************************************)
EndingOf(s) ==
    [closedAt |-> s.closedAt, proper |-> s.proper, error |-> s.error]

NoEnding == [closedAt |-> NotYet, proper |-> FALSE, error |-> "none"]

Observation == INSTANCE StreamObservation WITH
    Endings <- [closedAt : Times, proper : BOOLEAN, error : Errors],
    Open <- NoEnding,
    established <- snapshot.established,
    ending <- IF Unlocked THEN EndingOf(snapshot) ELSE NoEnding,
    done <- reader = "done"

ImplementsObservation == Observation!Spec
==============================================================================
