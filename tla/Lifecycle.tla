------------------------------ MODULE Lifecycle ------------------------------
(***************************************************************************)
(* One verification: lifecycle.Verify and everything it runs concurrently  *)
(* with.  The verifier drives a container through the runtime's command    *)
(* line, loads it with traffic and streams, signals it, and derives a      *)
(* report and an exit code from what it observes.  The container, the      *)
(* traffic, the streams, the readiness goroutine, the timers and the       *)
(* user's interrupt move on their own.                                     *)
(*                                                                         *)
(* A runtime call is one step.  It fails when the context is already       *)
(* canceled; an interrupt that hits a call in flight is the interrupt just *)
(* before or just after it.  Whoever waits on a context with a deadline    *)
(* gives up at the instant the deadline expires.                           *)
(***************************************************************************)
EXTENDS Integers, FiniteSets

CONSTANTS
    Requests,         \* the ids of the initial requests, 1..traffic.count
    Concurrency,      \* traffic.concurrency
    Driver,           \* traffic.driver: "http", "grpc" or "command"
    Readiness,        \* readiness.driver: "http", "grpc" or "exec"
    Streams,          \* the enabled streams, a subset of StreamKinds
    PreStop,          \* is shutdown.pre_stop configured?
    PostSignal,       \* is traffic.post_signal.policy accept or reject?
    Telemetry,        \* is telemetry.traces enabled?
    InflightComplete, \* assertions.inflight_requests_complete
    ForbidForceKill,  \* assertions.forbid_force_kill
    ExitKinds,        \* how a container may exit: "expected", with another code, or
                      \* killed out of memory (with the expected code, if it counts)
    MaxFailed,        \* assertions.max_failed_requests
    KeepOnFailure,    \* --keep-on-failure
    RuntimeFaults     \* may a runtime call or a report write fail by itself?

StreamKinds == {"sse", "websocket", "grpc_stream"}

ASSUME LifecycleAssumption ==
    /\ IsFiniteSet(Requests) /\ Requests # {}
    /\ Concurrency \in 1..Cardinality(Requests)
    /\ Driver \in {"http", "grpc", "command"}
    /\ Readiness \in {"http", "grpc", "exec"}
    /\ Streams \subseteq StreamKinds
    /\ {PreStop, PostSignal, Telemetry} \subseteq BOOLEAN
    /\ Driver = "command" => ~Telemetry
    /\ {InflightComplete, ForbidForceKill, KeepOnFailure} \subseteq BOOLEAN
    /\ ExitKinds \subseteq {"expected", "other", "oom"}
    /\ MaxFailed \in Nat
    /\ RuntimeFaults \in BOOLEAN

VARIABLES
    \* the outside world
    container,   \* "none", "created", "running", "exited" or "removed"
    exit,        \* how the container exited, or NotExited
    late,        \* it exited only after the shutdown deadline
    signal,      \* the termination signal: "none", "requested" or "delivered"
    interrupted, \* SIGINT reached draincheck: "no", "early" (before the
                 \* container's exit was awaited to the end) or "late"
    \* timers
    armed,       \* the deadlines and timers that are set ...
    expired,     \* ... and those of them that have passed
    \* what runs beside the verifier
    status,      \* the initial traffic, as in TrafficExecution
    admitting,
    outcome,     \* how each settled request ended
    trafficCtx,  \* context of the initial traffic: "off", "live" or "canceled"
    post,        \* post-signal traffic: "off", "running", or its verdict
    stream,      \* each stream: "off", "open", "clean" or "broken"
    withdrawal,  \* waitWithdrawn: "off", "probing", "pausing", "withdrawn", "kept"
    withdrawCut, \* cancelWithdraw was called
    receiver,    \* the OTLP receiver: "off", "open" or "closed"
    \* the verifier
    pc,
    known,       \* verifier.created: the verifier owns a container
    lastState,   \* the exit that the last inspection saw, or NotExited
    inflight,    \* confirmedInflight
    results,     \* trafficRun.Results(), as read by the verifier
    openAtSignal,\* the streams with ActiveAtSignal
    graceful,    \* the streams with ClosedGracefully
    exported,    \* enough correlated spans were received
    exited,      \* waitExit saw the container exit
    \* the report and what the process returns
    assertions,  \* set of <<subject, aspect, passed>>
    forced,      \* report.ForcedCleanup
    passed,      \* report.Passed
    retained,    \* report.Retained is set
    runErr,      \* "none", or the step that failed
    code         \* the exit code; -1 while running

world == <<container, exit, late, signal>>
timers == <<armed, expired>>
traffic == <<status, admitting, outcome, trafficCtx>>
beside == <<post, stream, withdrawal, withdrawCut, receiver>>
seen == <<known, lastState, inflight, results, openAtSignal, graceful,
          exported, exited>>
verdict == <<assertions, forced, passed, retained, runErr, code>>
still == <<world, interrupted, timers, traffic, beside>>
vars == <<still, pc, seen, verdict>>

NotExited == "not_exited"

NoOutcome == "none"
Outcomes == {NoOutcome, "ok", "failed", "unsent"}

Init ==
    /\ container = "none" /\ exit = NotExited /\ late = FALSE
    /\ signal = "none" /\ interrupted = "no"
    /\ armed = {} /\ expired = {}
    /\ status = [r \in Requests |-> "queued"] /\ admitting = TRUE
    /\ outcome = [r \in Requests |-> NoOutcome] /\ trafficCtx = "off"
    /\ post = "off" /\ stream = [s \in Streams |-> "off"]
    /\ withdrawal = "off" /\ withdrawCut = FALSE /\ receiver = "off"
    /\ pc = "ensure_image" /\ known = FALSE /\ lastState = NotExited
    /\ inflight = {} /\ results = outcome
    /\ openAtSignal = {} /\ graceful = {} /\ exported = FALSE /\ exited = FALSE
    /\ assertions = {} /\ forced = FALSE /\ passed = FALSE /\ retained = FALSE
    /\ runErr = "none" /\ code = -1

------------------------------------------------------------------------------
\* What the verifier runs beside itself

Execution == INSTANCE TrafficExecution WITH SettlesUnstarted <- (Driver = "command")

\* Mutant: nobody looks at the context.
LiveAlways == TRUE

\* ctx.Err() == nil
Live == interrupted = "no"

Expired(t) == t \in expired

\* the case <-ctx.Done() of a select, and a call's failure, canceled or not
Canceled == interrupted # "no"
CallFails == Canceled \/ RuntimeFaults

Settled == {r \in Requests : status[r] \in {"settled", "dropped"}}
Sent == {r \in Requests : status[r] = "active" \/ outcome[r] \in {"ok", "failed"}}
Active == {r \in Requests : status[r] = "active"}
TrafficDone == Settled = Requests

BesideTraffic == <<world, interrupted, timers, beside, pc, seen, verdict>>

RequestBegins(r) ==
    /\ trafficCtx # "off"
    /\ Execution!Begin(r)
    /\ UNCHANGED <<outcome, trafficCtx, BesideTraffic>>

RequestSettles(r) ==
    /\ trafficCtx # "off"
    /\ Execution!Settle(r)
    /\ \E o \in IF status[r] = "queued" THEN {"unsent"} ELSE {"ok", "failed"} :
           outcome' = [outcome EXCEPT ![r] = o]
    /\ UNCHANGED <<trafficCtx, BesideTraffic>>

RequestDropped(r) ==
    /\ Execution!Drop(r)
    /\ UNCHANGED <<outcome, trafficCtx, BesideTraffic>>

\* An open stream ends by itself: cleanly, or with an error.
StreamEnds(s) ==
    /\ stream[s] = "open"
    /\ \E how \in {"clean", "broken"} : stream' = [stream EXCEPT ![s] = how]
    /\ UNCHANGED <<world, interrupted, timers, traffic, post, withdrawal,
                   withdrawCut, receiver, pc, seen, verdict>>

\* time.AfterFunc(closeAfter, cancel) fires
StreamCut(s) ==
    /\ stream[s] = "open"
    /\ Expired(s)
    /\ stream' = [stream EXCEPT ![s] = "broken"]
    /\ UNCHANGED <<world, interrupted, timers, traffic, post, withdrawal,
                   withdrawCut, receiver, pc, seen, verdict>>

\* The post-signal phase, as much of it as the verdict needs (see Traffic).
PostMoves ==
    /\ \/ post = "starting" /\ post' = "running"
       \/ post = "starting" /\ Driver = "command" /\ post' = "unstarted"
       \/ post = "running" /\ post' \in {"complies", "violates"}
    /\ UNCHANGED <<world, interrupted, timers, traffic, stream, withdrawal,
                   withdrawCut, receiver, pc, seen, verdict>>

Expire(t) ==
    /\ t \in armed \ expired
    /\ expired' = expired \cup {t}
    /\ UNCHANGED <<world, interrupted, armed, traffic, beside, pc, seen, verdict>>

------------------------------------------------------------------------------
\* waitWithdrawn, in its own goroutine

\* withdrawCtx.Err() == nil
WithdrawLive == Live /\ ~withdrawCut /\ ~Expired("withdrawal")

\* Mutant: nobody cancels the goroutine's context.
CancelForgotten == UNCHANGED withdrawCut

\* cancelWithdraw()
CancelWithdraw == withdrawCut' = TRUE

\* Mutant: an error counts even if it is the goroutine's own context.
ErrorCountsAlways == TRUE

\* if observation.Err != nil { if ctx.Err() == nil {
ErrorCounts == WithdrawLive

BesideWithdrawal ==
    <<world, interrupted, timers, traffic, post, stream, withdrawCut, receiver,
      pc, seen, verdict>>

\* Check returns an error: no answer, or not within a second, or canceled.
WithdrawalError ==
    /\ withdrawal = "probing"
    /\ withdrawal' = IF ErrorCounts THEN "withdrawn" ELSE "pausing"
    /\ UNCHANGED BesideWithdrawal

\* Check returns an answer of the container: ready, or not ready.
WithdrawalAnswer ==
    /\ withdrawal = "probing"
    /\ WithdrawLive
    /\ container = "running"
    /\ withdrawal' \in {"pausing", "withdrawn"}
    /\ UNCHANGED BesideWithdrawal

\* select: the interval is over, or the context is
WithdrawalPause ==
    /\ withdrawal = "pausing"
    /\ withdrawal' = IF WithdrawLive THEN "probing" ELSE "kept"
    /\ UNCHANGED BesideWithdrawal

Withdrawal == WithdrawalError \/ WithdrawalAnswer \/ WithdrawalPause

------------------------------------------------------------------------------
\* The container and the user

BesideWorld == <<timers, traffic, beside, pc, seen, verdict>>

ContainerExits ==
    /\ container = "running"
    /\ pc # "done"
    /\ container' = "exited"
    /\ exit' \in ExitKinds
    /\ late' = Expired("deadline")
    /\ UNCHANGED <<signal, interrupted, BesideWorld>>

\* docker kill reaches the container's process.
Deliver ==
    /\ signal = "requested"
    /\ pc = "signaling"
    /\ container = "running"
    /\ signal' = "delivered"
    /\ UNCHANGED <<container, exit, late, interrupted, BesideWorld>>

AfterExitWait ==
    {"drain", "drain_post", "telemetry", "close_streams", "withdrawal",
     "evaluate", "deferred", "evidence", "cleanup", "report"}

Interrupt ==
    /\ interrupted = "no"
    /\ pc # "done"
    /\ interrupted' = IF pc \in AfterExitWait THEN "late" ELSE "early"
    /\ UNCHANGED <<world, BesideWorld>>

------------------------------------------------------------------------------
\* The verifier: up to a ready container

Asserted(subject, aspect, ok) ==
    assertions' = assertions \cup {<<subject, aspect, ok>>}

\* run returns; the deferred calls come next
Return(err) == pc' = "deferred" /\ runErr' = err

\* an action that leaves the verdict alone, but for what it names
KeepVerdict == UNCHANGED <<assertions, forced, passed, retained, runErr, code>>
KeepReport == UNCHANGED <<assertions, forced, passed, retained, code>>

ReturnError(err) ==
    /\ Return(err)
    /\ KeepReport

\* AddAssertion(name, false, ...); return nil
ReturnFailed(subject, aspect) ==
    /\ Return("none")
    /\ Asserted(subject, aspect, FALSE)
    /\ UNCHANGED <<forced, passed, retained, code>>

EnsureImage ==
    /\ pc = "ensure_image"
    /\ \/ Live /\ pc' = "receiver" /\ KeepVerdict
       \/ CallFails /\ ReturnError("ensure_image")
    /\ UNCHANGED <<still, seen>>

StartReceiver ==
    /\ pc = "receiver"
    /\ \/ Telemetry /\ receiver' = "open" /\ pc' = "create" /\ KeepVerdict
       \/ ~Telemetry /\ UNCHANGED receiver /\ pc' = "create" /\ KeepVerdict
       \/ /\ Telemetry /\ RuntimeFaults
          /\ UNCHANGED receiver
          /\ ReturnError("receiver")
    /\ UNCHANGED <<world, interrupted, timers, traffic, post, stream,
                   withdrawal, withdrawCut, seen>>

\* The daemon may have created the container although the call was killed.
Create ==
    /\ pc = "create"
    /\ \/ /\ Live
          /\ container' = "created" /\ known' = TRUE
          /\ pc' = "start" /\ KeepVerdict
       \/ /\ CallFails
          /\ container' \in {"none"} \cup IF Canceled THEN {"created"} ELSE {}
          /\ known' = FALSE
          /\ ReturnError("create")
    /\ UNCHANGED <<exit, late, signal, interrupted, timers, traffic, beside,
                   lastState, inflight, results, openAtSignal, graceful,
                   exported, exited>>

Start ==
    /\ pc = "start"
    /\ \/ Live /\ container' = "running" /\ pc' = "ports" /\ KeepVerdict
       \/ /\ CallFails
          /\ container' \in {"created", "running"}
          /\ ReturnError("start")
    /\ UNCHANGED <<exit, late, signal, interrupted, timers, traffic, beside, seen>>

\* Inspect stores the state it saw.
Inspected == lastState' = exit
KeepSeenButState ==
    UNCHANGED <<known, inflight, results, openAtSignal, graceful, exported, exited>>

\* HostPort for every required port; a stopped container has no mappings.
HostPorts ==
    /\ pc = "ports"
    /\ \/ /\ Live /\ container = "running"
          /\ pc' = "check_ready" /\ armed' = armed \cup {"startup"}
          /\ UNCHANGED lastState /\ KeepVerdict
       \/ /\ Live /\ container = "exited"
          /\ Inspected /\ UNCHANGED armed
          /\ ReturnFailed("startup", "ready")
       \/ /\ CallFails
          /\ lastState' \in {lastState, exit} /\ UNCHANGED armed
          /\ ReturnError("ports")
    /\ KeepSeenButState
    /\ UNCHANGED <<world, interrupted, expired, traffic, beside>>

\* waitCtx.Err() == nil
StartupLive == Live /\ ~Expired("startup")

\* readinessChecker.Check, in waitReady
CheckReady ==
    /\ pc = "check_ready"
    /\ \/ /\ StartupLive /\ container = "running"
          /\ Asserted("startup", "ready", TRUE)
          /\ pc' = "prepare" /\ armed' = armed \ {"startup"}
          /\ UNCHANGED <<forced, passed, retained, runErr, code>>
       \/ pc' = "inspect_startup" /\ UNCHANGED armed /\ KeepVerdict
       \* ExecChecker: any error of the exec is terminal
       \/ /\ Readiness = "exec"
          /\ pc' = "inspect_terminal" /\ UNCHANGED armed /\ KeepVerdict
    /\ UNCHANGED <<world, interrupted, expired, traffic, beside, seen>>

\* the rest of waitReady's loop
InspectStartup ==
    /\ pc \in {"inspect_startup", "inspect_terminal"}
    /\ \/ StartupLive /\ RuntimeFaults /\ UNCHANGED lastState /\ ReturnError("inspect")
       \/ /\ StartupLive /\ container = "exited"
          /\ Inspected /\ ReturnFailed("startup", "ready")
       \/ /\ StartupLive /\ container = "running"
          /\ Inspected
          /\ IF pc = "inspect_terminal" THEN ReturnFailed("startup", "ready")
             ELSE pc' = "check_ready" /\ KeepVerdict
       \/ /\ ~StartupLive
          /\ UNCHANGED lastState
          /\ IF pc = "inspect_terminal" \/ Live THEN ReturnFailed("startup", "ready")
             ELSE ReturnError("ready")
    /\ KeepSeenButState
    /\ UNCHANGED <<still>>

------------------------------------------------------------------------------
\* The verifier: load, then the stop of admission

\* NewClient and Prepare for unary gRPC traffic
PrepareTraffic ==
    /\ pc = "prepare"
    /\ \/ (Driver # "grpc" \/ Live) /\ pc' = "prepare_stream" /\ KeepVerdict
       \/ Driver = "grpc" /\ ReturnFailed("traffic", "inflight_exercised")
    /\ UNCHANGED <<still, seen>>

\* NewClient and Prepare for the gRPC stream
PrepareStream ==
    /\ pc = "prepare_stream"
    /\ \/ ("grpc_stream" \notin Streams \/ Live) /\ pc' = "open_streams" /\ KeepVerdict
       \/ "grpc_stream" \in Streams /\ ReturnFailed("grpc_stream", "established")
    /\ UNCHANGED <<still, seen>>

Order == [sse |-> 1, websocket |-> 2, grpc_stream |-> 3]
First(S) == CHOOSE s \in S : \A t \in S : Order[s] <= Order[t]

\* Start the next stream and wait for its establishment.
OpenStream ==
    LET closed == {s \in Streams : stream[s] = "off"} IN
    /\ pc = "open_streams"
    /\ closed # {}
    /\ \/ /\ Live /\ container = "running"
          /\ stream' = [stream EXCEPT ![First(closed)] = "open"]
          /\ Asserted(First(closed), "established", TRUE)
          /\ UNCHANGED <<pc, forced, passed, retained, runErr, code>>
       \/ /\ stream' = [stream EXCEPT ![First(closed)] = "broken"]
          /\ Asserted(First(closed), "established", FALSE)
          /\ Return(IF Canceled THEN "stream" ELSE "none")
          /\ UNCHANGED <<forced, passed, retained, code>>
    /\ UNCHANGED <<world, interrupted, timers, traffic, post, withdrawal,
                   withdrawCut, receiver, seen>>

\* startTrafficRun
StartTraffic ==
    /\ pc = "open_streams"
    /\ \A s \in Streams : stream[s] # "off"
    /\ trafficCtx' = "live"
    /\ pc' = "wait_started"
    /\ UNCHANGED <<world, interrupted, timers, status, admitting, outcome,
                   beside, seen, verdict>>

\* trafficRun.WaitStarted
WaitStarted ==
    /\ pc = "wait_started"
    /\ \/ Sent # {} /\ pc' = "shutdown_after" /\ KeepVerdict
       \/ Canceled /\ ReturnError("wait_started")
       \/ Live /\ TrafficDone /\ Sent = {} /\ ReturnFailed("traffic", "inflight_exercised")
    /\ UNCHANGED <<still, seen>>

\* the select over shutdown_after, trafficRun.Done() and ctx.Done()
ShutdownAfter ==
    /\ pc = "shutdown_after"
    /\ \/ pc' = "inspect" /\ KeepVerdict
       \/ Canceled /\ ReturnError("shutdown_after")
    /\ UNCHANGED <<still, seen>>

Inspect ==
    /\ pc = "inspect"
    /\ \/ Live /\ Inspected /\ pc' = "stop_admission" /\ KeepVerdict
       \/ CallFails /\ UNCHANGED lastState /\ ReturnError("inspect")
    /\ KeepSeenButState
    /\ UNCHANGED <<still>>


\* terminationStartedAt and shutdownDeadline
ShutdownDeadlineSet == armed \cup {"deadline"}

\* StopAndSnapshot before the signal
StopAdmission ==
    /\ pc = "stop_admission"
    /\ lastState = NotExited
    /\ Execution!StopAndSnapshot
    /\ armed' = ShutdownDeadlineSet
    /\ pc' = "pre_stop"
    /\ UNCHANGED <<world, interrupted, expired, outcome, trafficCtx, beside,
                   seen, verdict>>

\* The container is found exited: its traffic is drained and nothing else.
StopExited ==
    /\ pc = "stop_admission"
    /\ lastState # NotExited
    /\ Execution!StopAndSnapshot
    /\ inflight' = Active
    /\ Asserted("shutdown", "signal", FALSE)
    /\ pc' = "drain_exited"
    /\ UNCHANGED <<world, interrupted, timers, outcome, trafficCtx, beside,
                   known, lastState, results, openAtSignal, graceful, exported,
                   exited, forced, passed, retained, runErr, code>>

------------------------------------------------------------------------------
\* The verifier: pre-stop hook and signal

\* DeadlineExceeded, or !finishedAt.Before(shutdownDeadline)
Exhausted == Expired("deadline")

\* runPreStop: the hook's exec returns by itself or at the deadline.
RunPreStop ==
    /\ pc = "pre_stop"
    /\ \/ ~PreStop /\ pc' = "request_signal" /\ KeepVerdict
       \/ PreStop /\ CallFails /\ ReturnError("pre_stop")
       \/ /\ PreStop /\ Live
          /\ \E ok \in BOOLEAN : Asserted("shutdown", "pre_stop", ok)
          /\ pc' = IF Exhausted THEN "exhausted" ELSE "request_signal"
          /\ UNCHANGED <<forced, passed, retained, runErr, code>>
    /\ UNCHANGED <<still, seen>>

\* The hook left no time for the signal.
GiveUpSignal ==
    /\ pc = "exhausted"
    /\ inflight' = Active
    /\ Asserted("shutdown", "signal", FALSE)
    /\ forced' = TRUE
    /\ trafficCtx' = "canceled"
    /\ pc' = "drain_exhausted"
    /\ UNCHANGED <<world, interrupted, timers, status, admitting, outcome,
                   beside, known, lastState, results, openAtSignal, graceful,
                   exported, exited, passed, retained, runErr, code>>

\* context.WithDeadline(ctx, signalRequestedAt + readiness_withdrawn_within)
WithdrawalDeadlineSet == armed \cup {"withdrawal"}

\* ActiveAtSignal of each stream; the readiness goroutine starts.
RequestSignal ==
    /\ pc = "request_signal"
    /\ openAtSignal' = {s \in Streams : stream[s] = "open"}
    /\ withdrawal' = "probing"
    /\ armed' = WithdrawalDeadlineSet
    /\ signal' = "requested"
    /\ pc' = "signaling"
    /\ UNCHANGED <<container, exit, late, interrupted, expired, traffic,
                   post, stream, withdrawCut, receiver, known, lastState,
                   inflight, results, graceful, exported, exited, verdict>>

\* Mutant: a signal that was requested counts as delivered.
DeliveredAlways == signal # "none"

\* docker kill reports success
Delivered == signal = "delivered"

\* runtime.Signal returned without an error
ConfirmSignal ==
    /\ pc = "signaling"
    /\ Live
    /\ Delivered
    /\ inflight' = Active
    /\ Asserted("shutdown", "signal", TRUE)
    /\ pc' = "post_signal"
    /\ UNCHANGED <<still, known,
                   lastState, results, openAtSignal, graceful, exported,
                   exited, forced, passed, retained, runErr, code>>

\* docker kill failed: the container is gone, or the call was canceled.
SignalFails ==
    /\ pc = "signaling"
    /\ CallFails \/ (signal = "requested" /\ container = "exited")
    /\ CancelWithdraw
    /\ ReturnError("signal")
    /\ UNCHANGED <<world, interrupted, timers, traffic, post, stream,
                   withdrawal, receiver, seen, assertions, forced, passed,
                   retained, code>>

------------------------------------------------------------------------------
\* The verifier: after the signal

\* startPostSignalTraffic, and then the close timers of the streams
StartPostSignal ==
    /\ pc = "post_signal"
    /\ \/ \* disabled, or too late even without the delay
          /\ pc' = "arm_streams" /\ UNCHANGED <<post, withdrawCut>> /\ KeepVerdict
       \/ PostSignal /\ Canceled /\ UNCHANGED post
          /\ CancelWithdraw /\ ReturnError("post_signal")
       \/ PostSignal /\ ~Expired("deadline") /\ post' = "starting"
          /\ pc' = "post_started" /\ UNCHANGED withdrawCut /\ KeepVerdict
    /\ UNCHANGED <<world, interrupted, timers, traffic, stream, withdrawal,
                   receiver, seen>>

\* WaitStarted of the post-signal phase
PostSignalStarted ==
    /\ pc = "post_started"
    /\ \/ post \notin {"starting", "unstarted"}
          /\ pc' = "arm_streams" /\ UNCHANGED withdrawCut /\ KeepVerdict
       \/ (Canceled \/ post = "unstarted")
          /\ CancelWithdraw /\ ReturnError("post_signal")
    /\ UNCHANGED <<world, interrupted, timers, traffic, post, stream,
                   withdrawal, receiver, seen>>

ArmStreams ==
    /\ pc = "arm_streams"
    /\ armed' = armed \cup Streams
    /\ pc' = "wait_exit"
    /\ UNCHANGED <<world, interrupted, expired, traffic, beside, seen, verdict>>

\* Mutant: the deadline is not looked at.
ExitObservedLate == container = "exited"

\* docker wait returned before the context with the shutdown deadline ended
ExitObserved == container = "exited" /\ ~Expired("deadline")

\* waitExit
WaitExit ==
    /\ pc = "wait_exit"
    /\ \/ /\ Live /\ ExitObserved
          /\ exited' = TRUE /\ Inspected
          /\ pc' = "drain"
          /\ UNCHANGED <<withdrawCut, assertions, forced, passed, retained,
                         runErr, code>>
       \/ /\ Live /\ Expired("deadline")
          /\ forced' = TRUE
          /\ pc' = "drain"
          /\ UNCHANGED <<withdrawCut, exited, lastState, assertions, passed,
                         retained, runErr, code>>
       \/ /\ CallFails
          /\ CancelWithdraw
          /\ ReturnError("wait_exit")
          /\ UNCHANGED <<exited, lastState>>
    /\ UNCHANGED <<world, interrupted, timers, traffic, post, stream,
                   withdrawal, receiver, known, inflight, results,
                   openAtSignal, graceful, exported>>

Draining == {"drain_exited", "drain_exhausted", "drain"}

\* waitTraffic: request_timeout + 1s is over, or the context is
CutTraffic ==
    /\ pc \in Draining
    /\ trafficCtx = "live"
    /\ trafficCtx' = "canceled"
    /\ UNCHANGED <<world, interrupted, timers, status, admitting, outcome,
                   beside, pc, seen, verdict>>

\* waitTraffic returned, at the latest a second after the cut
CollectTraffic ==
    /\ pc \in Draining
    /\ TrafficDone \/ trafficCtx = "canceled"
    /\ results' = outcome
    /\ \/ pc = "drain_exited" /\ ReturnError("none")
       \/ pc = "drain_exhausted" /\ pc' = "inspect_exhausted" /\ KeepVerdict
       \/ pc = "drain" /\ pc' = "drain_post" /\ KeepVerdict
    /\ UNCHANGED <<still, known,
                   lastState, inflight, openAtSignal, graceful, exported, exited>>

\* without a signal there is nothing to wait for but the container's state
InspectExhausted ==
    /\ pc = "inspect_exhausted"
    /\ \/ Live /\ Inspected /\ pc' = "evaluate" /\ KeepVerdict
       \/ CallFails /\ UNCHANGED lastState /\ ReturnError("inspect")
    /\ KeepSeenButState
    /\ UNCHANGED <<still>>

\* waitTraffic for the post-signal phase: what has no verdict is incomplete
CollectPost ==
    /\ pc = "drain_post"
    /\ post' = IF post \in {"off", "complies"} THEN post ELSE "violates"
    /\ pc' = "telemetry"
    /\ UNCHANGED <<world, interrupted, timers, traffic, stream, withdrawal,
                   withdrawCut, receiver, seen, verdict>>

\* summarizeTelemetry: only in-flight requests are eligible
SummarizeTelemetry ==
    /\ pc = "telemetry"
    /\ \/ /\ exported' \in {FALSE} \cup {Telemetry /\ inflight # {}}
          /\ pc' = "close_streams" /\ UNCHANGED withdrawCut /\ KeepVerdict
       \/ /\ Telemetry /\ Canceled
          /\ UNCHANGED exported
          /\ CancelWithdraw /\ ReturnError("telemetry")
    /\ UNCHANGED <<world, interrupted, timers, traffic, post, stream,
                   withdrawal, receiver, known, lastState, inflight, results,
                   openAtSignal, graceful, exited>>

\* Mutant: the stream may have ended before the signal.
GracefulAlways(s) == stream[s] = "clean"

\* ClosedGracefully
Graceful(s) == s \in openAtSignal /\ stream[s] = "clean"

\* Every stream has ended by itself or by its timer, and is summarized.
CloseStreams ==
    /\ pc = "close_streams"
    /\ \/ /\ \A s \in Streams : stream[s] # "open"
          /\ graceful' = {s \in Streams : Graceful(s)}
          /\ pc' = "withdrawal" /\ UNCHANGED withdrawCut /\ KeepVerdict
       \/ /\ Streams # {} /\ Canceled
          /\ UNCHANGED graceful
          /\ CancelWithdraw /\ ReturnError("streams")
    /\ UNCHANGED <<world, interrupted, timers, traffic, post, stream,
                   withdrawal, receiver, known, lastState, inflight, results,
                   openAtSignal, exported, exited>>

\* select over the goroutine's result and ctx.Done()
AwaitWithdrawal ==
    /\ pc = "withdrawal"
    /\ \/ withdrawal \in {"withdrawn", "kept"} /\ pc' = "evaluate" /\ KeepVerdict
       \/ Canceled /\ ReturnError("withdrawal")
    /\ CancelWithdraw
    /\ UNCHANGED <<world, interrupted, timers, traffic, post, stream,
                   withdrawal, receiver, seen>>

------------------------------------------------------------------------------
\* The verdict

Ended(o) == {r \in Requests : results[r] \in o}
Failures == Cardinality(Ended({"failed", "unsent"}))

\* Mutant: an in-flight request without a result is not counted.
InflightFailed == inflight \cap Ended({"failed", "unsent"})

\* the confirmed requests without a successful result
InflightBad == inflight \ Ended({"ok"})

\* Mutant: no request has to be in flight.
ExercisedAlways == TRUE

\* traffic.inflight_exercised
Exercised == inflight # {}

\* evaluateAssertions
Evaluation ==
    {<<"traffic", "inflight_exercised", Exercised>>,
     <<"readiness", "withdrawn", withdrawal = "withdrawn">>,
     <<"traffic", "failed_requests", Failures <= MaxFailed>>,
     <<"shutdown", "deadline", exited>>,
     <<"shutdown", "exit_code",
       exited /\ lastState \in {"expected", "oom"}>>,
     <<"shutdown", "oom", lastState # "oom">>}
    \cup (IF InflightComplete
          THEN {<<"traffic", "inflight_complete", InflightBad = {}>>} ELSE {})
    \cup (IF PostSignal
          THEN {<<"traffic", "post_signal_policy", post = "complies">>} ELSE {})
    \cup {<<s, "active_at_signal", s \in openAtSignal>> : s \in Streams}
    \cup {<<s, "closed_gracefully", s \in graceful>> : s \in Streams}
    \cup (IF Telemetry
          THEN {<<"telemetry", "spans_exported", exported>>} ELSE {})
    \cup (IF ForbidForceKill
          THEN {<<"shutdown", "force_kill", ~forced>>} ELSE {})

EvaluateAssertions ==
    /\ pc = "evaluate"
    /\ assertions' = assertions \cup Evaluation
    /\ Return("none")
    /\ UNCHANGED <<still, seen, forced,
                   passed, retained, code>>

\* The deferred calls of run; closing the receiver may fail.
Deferred ==
    /\ pc = "deferred"
    /\ trafficCtx' = IF trafficCtx = "off" THEN "off" ELSE "canceled"
    /\ stream' = [s \in Streams |-> IF stream[s] = "open" THEN "broken" ELSE stream[s]]
    /\ receiver' = IF receiver = "open" THEN "closed" ELSE receiver
    /\ \/ UNCHANGED runErr
       \/ receiver = "open" /\ RuntimeFaults
          /\ runErr' = IF runErr = "none" THEN "receiver" ELSE runErr
    /\ pc' = "evidence"
    /\ UNCHANGED <<world, interrupted, timers, status, admitting, outcome,
                   post, withdrawal, withdrawCut, seen, assertions, forced,
                   passed, retained, code>>

\* report.Finish: at least one assertion, and every one of them passed
Passes(as) == as # {} /\ \A a \in as : a[3]

\* collectEvidence, execution.completed and the first Finish
CollectEvidence ==
    /\ pc = "evidence"
    /\ \/ UNCHANGED runErr /\ lastState' = (IF known THEN exit ELSE lastState)
       \/ /\ known /\ RuntimeFaults
          /\ lastState' \in {lastState, exit}
          /\ runErr' = IF runErr = "none" THEN "evidence" ELSE runErr
    /\ assertions' = assertions \cup
           IF runErr' = "none" THEN {} ELSE {<<"execution", "completed", FALSE>>}
    /\ passed' = Passes(assertions')
    /\ pc' = "cleanup"
    /\ KeepSeenButState
    /\ UNCHANGED <<still, forced,
                   retained, code>>

\* Mutant: a run that ended with an error is not cleaned up.
OwnedUnlessFailed == known /\ runErr = "none"

\* if !v.created { return nil }
Owned == known

\* v.options.KeepOnFailure && !v.report.Passed
Keep == KeepOnFailure /\ ~passed

\* cleanup and the second Finish
Cleanup ==
    /\ pc = "cleanup"
    /\ \/ /\ ~Owned
          /\ UNCHANGED <<container, retained, assertions, runErr>>
       \/ /\ Owned /\ Keep
          /\ retained' = TRUE
          /\ UNCHANGED <<container, assertions, runErr>>
       \/ /\ Owned /\ ~Keep
          /\ container' = "removed"
          /\ UNCHANGED <<retained, assertions, runErr>>
       \/ /\ Owned /\ ~Keep /\ RuntimeFaults
          /\ runErr' = IF runErr = "none" THEN "cleanup" ELSE runErr
          /\ Asserted("cleanup", "completed", FALSE)
          /\ UNCHANGED <<container, retained>>
    /\ passed' = Passes(assertions')
    /\ pc' = "report"
    /\ UNCHANGED <<exit, late, signal, interrupted, timers, traffic, beside,
                   seen, forced, code>>

\* Mutant: a passing report is looked at before the error.
CodeByReport(err) == IF passed THEN 0 ELSE IF err = "none" THEN 1 ELSE IF Canceled THEN 130 ELSE 3

\* the exit code of the verify command
CodeByError(err) ==
    IF err # "none" THEN IF Canceled THEN 130 ELSE 3
    ELSE IF passed THEN 0 ELSE 1

\* writeReports and the exit of the verify command
Report ==
    /\ pc = "report"
    /\ \/ UNCHANGED runErr
       \/ RuntimeFaults /\ runErr' = IF runErr = "none" THEN "report" ELSE runErr
    /\ code' = CodeByError(runErr')
    /\ pc' = "done"
    /\ UNCHANGED <<still, seen,
                   assertions, forced, passed, retained>>

Done == pc = "done" /\ UNCHANGED vars

Traffic ==
    \E r \in Requests : RequestBegins(r) \/ RequestSettles(r) \/ RequestDropped(r)

Outside == ContainerExits \/ Deliver \/ Interrupt

Verifier ==
    \/ EnsureImage \/ StartReceiver \/ Create \/ Start \/ HostPorts
    \/ CheckReady \/ InspectStartup
    \/ PrepareTraffic \/ PrepareStream \/ OpenStream
    \/ StartTraffic \/ WaitStarted \/ ShutdownAfter
    \/ Inspect \/ StopAdmission \/ StopExited
    \/ RunPreStop \/ GiveUpSignal \/ RequestSignal \/ ConfirmSignal \/ SignalFails
    \/ StartPostSignal \/ PostSignalStarted \/ ArmStreams \/ WaitExit
    \/ CutTraffic \/ CollectTraffic \/ InspectExhausted \/ CollectPost
    \/ SummarizeTelemetry \/ CloseStreams \/ AwaitWithdrawal
    \/ EvaluateAssertions \/ Deferred \/ CollectEvidence \/ Cleanup \/ Report

Timers == {"startup", "deadline", "withdrawal"} \cup Streams

Next ==
    \/ Verifier
    \/ Outside
    \/ Traffic
    \/ PostMoves
    \/ Withdrawal
    \/ \E s \in Streams : StreamEnds(s) \/ StreamCut(s)
    \/ \E t \in Timers : Expire(t)
    \/ Done

SafeSpec == Init /\ [][Next]_vars

(***************************************************************************)
(* Goroutines are scheduled, timers fire, runtime calls return, and a      *)
(* request is sent once a worker has it.  Nothing is assumed of the        *)
(* container, of the requests under way, of the streams or of the user.    *)
(***************************************************************************)
Fairness ==
    /\ WF_vars(Verifier)
    /\ WF_vars(Withdrawal)
    /\ WF_vars(Deliver)
    /\ WF_vars(PostMoves)
    /\ WF_vars(\E r \in Requests : RequestBegins(r) \/ RequestSettles(r))
    /\ \A s \in Streams : WF_vars(StreamCut(s))
    /\ \A t \in Timers : WF_vars(Expire(t))

Spec == SafeSpec /\ Fairness

------------------------------------------------------------------------------
\* Properties

Phases ==
    {"ensure_image", "receiver", "create", "start", "ports", "check_ready",
     "inspect_startup", "inspect_terminal", "prepare", "prepare_stream",
     "open_streams", "wait_started", "shutdown_after", "inspect",
     "stop_admission", "drain_exited", "pre_stop", "exhausted",
     "drain_exhausted", "inspect_exhausted", "request_signal", "signaling",
     "post_signal", "post_started", "arm_streams", "wait_exit", "drain",
     "drain_post", "telemetry", "close_streams", "withdrawal", "evaluate",
     "deferred", "evidence", "cleanup", "report", "done"}

WorldOK ==
    /\ container \in {"none", "created", "running", "exited", "removed"}
    /\ exit \in ExitKinds \cup {NotExited}
    /\ late \in BOOLEAN
    /\ signal \in {"none", "requested", "delivered"}
    /\ interrupted \in {"no", "early", "late"}

TimersOK == armed \subseteq Timers /\ expired \subseteq armed \cup {"startup"}

TrafficOK ==
    /\ status \in [Requests -> {"queued", "active", "settled", "dropped"}]
    /\ admitting \in BOOLEAN
    /\ outcome \in [Requests -> Outcomes]
    /\ trafficCtx \in {"off", "live", "canceled"}

BesideOK ==
    /\ post \in {"off", "starting", "unstarted", "running", "complies", "violates"}
    /\ stream \in [Streams -> {"off", "open", "clean", "broken"}]
    /\ withdrawal \in {"off", "probing", "pausing", "withdrawn", "kept"}
    /\ withdrawCut \in BOOLEAN
    /\ receiver \in {"off", "open", "closed"}

SeenOK ==
    /\ {known, exported, exited} \subseteq BOOLEAN
    /\ lastState \in ExitKinds \cup {NotExited}
    /\ inflight \subseteq Requests
    /\ results \in [Requests -> Outcomes]
    /\ openAtSignal \subseteq Streams /\ graceful \subseteq openAtSignal

AssertionsOK == \A a \in assertions : a[3] \in BOOLEAN

VerdictOK ==
    /\ {forced, passed, retained} \subseteq BOOLEAN
    /\ code \in {-1, 0, 1, 3, 130}

\* The types of the variables.
TypeOK ==
    /\ WorldOK /\ TimersOK /\ TrafficOK /\ BesideOK
    /\ pc \in Phases
    /\ SeenOK /\ AssertionsOK /\ VerdictOK

(***************************************************************************)
(* A passing report is earned (index.mdx, the lifecycle contract): the     *)
(* signal reached a container under load, readiness was withdrawn, the     *)
(* in-flight requests, the streams and the post-signal traffic ended as    *)
(* required, and the container exited as expected.  None of the ways on    *)
(* which run returns without an error before the verdict can pass.         *)
(***************************************************************************)
PassedIsEarned ==
    pc = "done" /\ passed =>
        /\ signal = "delivered"
        /\ inflight # {}
        /\ InflightComplete => \A r \in inflight : outcome[r] = "ok"
        /\ withdrawal = "withdrawn"
        /\ \A s \in Streams : s \in openAtSignal /\ stream[s] = "clean"
        /\ PostSignal => post = "complies"
        /\ exit = "expected"

(***************************************************************************)
(* What the report asserts of the signal is so: confirmed means that it    *)
(* reached the container, failed means that it was never requested.        *)
(***************************************************************************)
SignalAssertionIsTrue ==
    /\ <<"shutdown", "signal", TRUE>> \in assertions => signal = "delivered"
    /\ <<"shutdown", "signal", FALSE>> \in assertions => signal = "none"

(***************************************************************************)
(* If the report says that the container met the shutdown deadline, it     *)
(* exited before the deadline, which runs since before the pre-stop hook.  *)
(***************************************************************************)
DeadlinePassMeansInTime ==
    <<"shutdown", "deadline", TRUE>> \in assertions => exit # NotExited /\ ~late

(***************************************************************************)
(* Whatever step fails or is interrupted, a container that the verifier    *)
(* knows is removed at the end, unless its removal failed and the report   *)
(* says so, or it is retained; and only a failed container is retained, on *)
(* request: the verdict that cleanup looks at is not improved by the       *)
(* second Finish, and the process reports failure.                         *)
(***************************************************************************)
NothingLeftBehind ==
    /\ pc = "done" /\ known =>
        \/ container = "removed"
        \/ retained
        \/ <<"cleanup", "completed", FALSE>> \in assertions
    /\ retained => KeepOnFailure /\ ~passed /\ (pc = "done" => code # 0)

(***************************************************************************)
(* The exit code agrees with the report (pilot-guide.md, exit status): 0   *)
(* means that it passed and nothing went wrong; 1 means that some          *)
(* assertion on the container's behaviour failed; and a passing report is  *)
(* only ever contradicted by a failure to write it.                        *)
(***************************************************************************)
ExitCodeTellsTruth ==
    pc = "done" =>
        /\ code = 0 => passed /\ runErr = "none"
        /\ code = 1 => \E a \in assertions :
               ~a[3] /\ a[2] # "completed"
        /\ passed => runErr \in {"none", "report"}

(***************************************************************************)
(* A verification that is interrupted before the container's exit was      *)
(* awaited does not pass, whatever its goroutines still observe.           *)
(***************************************************************************)
InterruptNeverPasses == pc = "done" /\ interrupted = "early" => code # 0

(***************************************************************************)
(* Verify leaves no readiness goroutine behind that could go on probing:   *)
(* on every way on which run returns, its context has come to its end.     *)
(***************************************************************************)
NoProbingAfterReturn ==
    pc \in {"deferred", "evidence", "cleanup", "report", "done"}
    => withdrawal = "off" \/ ~WithdrawLive

(***************************************************************************)
(* waitWithdrawn never takes the end of its own context for a withdrawal:  *)
(* neither its deadline, nor an interrupt, nor the verifier's cancel.      *)
(***************************************************************************)
WithdrawalInTime ==
    [][withdrawal' = "withdrawn" /\ withdrawal # "withdrawn" => WithdrawLive]_vars


(***************************************************************************)
(* support.md, exit 130: draincheck was interrupted.  An interrupt before  *)
(* the container's exit was awaited is reported as an interrupt.           *)
(***************************************************************************)
InterruptIs130 == pc = "done" /\ interrupted = "early" => code = 130

(***************************************************************************)
(* pilot-guide.md: normal runs remove the exact test container even after  *)
(* a failure or interruption.                                              *)
(***************************************************************************)
ContainerIsRemoved ==
    pc = "done" /\ ~retained => container \in {"none", "removed"}

(***************************************************************************)
(* troubleshooting.md, shutdown.deadline: the container did not exit       *)
(* within the shutdown budget.  It is looked at where post-signal traffic  *)
(* was started after the signal, for which the verifier waits first.       *)
(***************************************************************************)
DeadlineFailMeansLate ==
    /\ signal = "delivered" /\ post # "off"
    /\ <<"shutdown", "deadline", FALSE>> \in assertions
    => exit = NotExited \/ late
==============================================================================
