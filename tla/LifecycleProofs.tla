--------------------------- MODULE LifecycleProofs ---------------------------
(***************************************************************************)
(* What a verification promises for every number of requests, every        *)
(* configuration that LifecycleAssumption allows and every exit of the     *)
(* container.  Each part of the invariant says what is known at a place of *)
(* run (before the signal, after it, on the way out); together they show   *)
(* that no way out passes that has not earned it.                          *)
(***************************************************************************)
EXTENDS Lifecycle, FiniteSetTheorems, TLAPS

------------------------------------------------------------------------------
\* The places of run

BeforeSignal ==
    {"ensure_image", "receiver", "create", "start", "ports", "check_ready",
     "inspect_startup", "inspect_terminal", "prepare", "prepare_stream",
     "open_streams", "wait_started", "shutdown_after", "inspect",
     "stop_admission", "pre_stop", "exhausted", "request_signal"}

\* the container exited by itself, or the hook used up the deadline
Unsignaled == {"drain_exited", "drain_exhausted", "inspect_exhausted"}

Signaled == {"post_signal", "post_started", "arm_streams", "wait_exit"}

\* after the wait for the container's exit
Judging == {"drain", "drain_post", "telemetry", "close_streams", "withdrawal"}

Ending == {"deferred", "evidence", "cleanup", "report", "done"}

\* The steps of the verifier, by place.
Startup ==
    \/ EnsureImage \/ StartReceiver \/ Create \/ Start \/ HostPorts
    \/ CheckReady \/ InspectStartup

Load ==
    \/ PrepareTraffic \/ PrepareStream \/ OpenStream \/ StartTraffic
    \/ WaitStarted \/ ShutdownAfter \/ Inspect \/ StopAdmission \/ StopExited

Signaling ==
    RunPreStop \/ GiveUpSignal \/ RequestSignal \/ ConfirmSignal \/ SignalFails

Shutdown ==
    \/ StartPostSignal \/ PostSignalStarted \/ ArmStreams \/ WaitExit
    \/ CutTraffic \/ CollectTraffic \/ InspectExhausted \/ CollectPost

Summing ==
    SummarizeTelemetry \/ CloseStreams \/ AwaitWithdrawal \/ EvaluateAssertions

\* run, up to its return
Running == Startup \/ Load \/ Signaling \/ Shutdown \/ Summing

Closing == Deferred \/ CollectEvidence \/ Cleanup \/ Report

\* what moves beside the verifier, without the container and the user
Beside ==
    \/ Traffic \/ PostMoves \/ Withdrawal
    \/ \E s \in Streams : StreamEnds(s) \/ StreamCut(s)
    \/ \E t \in Timers : Expire(t)

------------------------------------------------------------------------------
\* The invariant

SomethingFailed == \E a \in assertions : ~a[3]

GracefulAtEnd == pc \in BeforeSignal => graceful = {}

TypeInv == TypeOK /\ GracefulAtEnd

\* The signal is requested once, and the report speaks of it only when it is
\* settled.
SignalInv ==
    /\ pc \in BeforeSignal =>
          /\ signal = "none"
          /\ \A ok \in BOOLEAN : <<"shutdown", "signal", ok>> \notin assertions
    /\ pc \in Signaled \cup Judging => signal = "delivered"
    /\ SignalAssertionIsTrue

\* An exit that waitExit saw is in time and stays what it is.
LateKnown == late => Expired("deadline")
ExitKnown == container = "exited" => exit # NotExited
ExitedAfterWait == pc \notin Judging \cup {"evaluate"} \cup Ending => ~exited
ExitedStopped ==
    exited => signal = "delivered" /\ container \in {"exited", "removed"}
ExitedInTime == exited => exit # NotExited /\ ~late /\ lastState = exit

ExitInv ==
    LateKnown /\ ExitKnown /\ ExitedAfterWait /\ ExitedStopped /\ ExitedInTime

DeadlineInv == <<"shutdown", "deadline", TRUE>> \in assertions => exited

\* The readiness goroutine runs only from the signal on, and no way leads out
\* of run without cancelWithdraw.
WithdrawalInv ==
    /\ pc \in BeforeSignal \cup Unsignaled => withdrawal = "off"
    /\ pc \in {"evaluate"} \cup Ending => withdrawal = "off" \/ withdrawCut

CompletedNeedsError ==
    \A a \in assertions : a[2] = "completed" => runErr # "none"

\* run returns an error, or leaves an assertion behind; execution.completed and
\* cleanup.completed fail only with an error.
ReturnInv ==
    /\ pc \notin Ending => runErr = "none"
    /\ pc = "drain_exited" => <<"shutdown", "signal", FALSE>> \in assertions
    /\ pc \in Ending /\ runErr = "none" => assertions # {}
    /\ CompletedNeedsError

\* The verdict is that of the last Finish, and an error makes it a failure.
PassedInv ==
    /\ IF pc \in {"cleanup", "report", "done"}
       THEN passed = Passes(assertions)
       ELSE ~passed
    /\ pc \in {"cleanup", "report"} /\ runErr # "none" => ~passed
    /\ pc = "done" => /\ passed => runErr \in {"none", "report"}
                      /\ code = CodeByError(runErr)
    /\ retained => KeepOnFailure /\ ~passed /\ pc \in {"report", "done"}

CleanupInv ==
    pc \in {"report", "done"} /\ known =>
        \/ container = "removed"
        \/ retained
        \/ <<"cleanup", "completed", FALSE>> \in assertions

\* Once interrupted, run ends with an error or a failed assertion.
InterruptInv ==
    interrupted = "early" =>
        /\ pc \notin Judging \cup {"evaluate"}
        /\ pc \in Ending => runErr # "none" \/ SomethingFailed

\* What the verifier copied of requests and streams stays true of them.
ResultsInv ==
    /\ \A r \in Requests : outcome[r] # NoOutcome <=> status[r] = "settled"
    /\ \A r \in Requests : results[r] # NoOutcome => outcome[r] = results[r]
    /\ \A s \in graceful : s \in openAtSignal /\ stream[s] = "clean"

\* what a passing report says of the world
Earned ==
    /\ signal = "delivered"
    /\ inflight # {}
    /\ InflightComplete => \A r \in inflight : outcome[r] = "ok"
    /\ withdrawal = "withdrawn"
    /\ \A s \in Streams : s \in openAtSignal /\ stream[s] = "clean"
    /\ PostSignal => post = "complies"
    /\ container \in {"exited", "removed"} /\ exit = "expected"

EarnedInv ==
    pc \in Ending =>
        runErr \notin {"none", "report"} \/ SomethingFailed \/ Earned

LifecycleInv ==
    /\ TypeInv /\ SignalInv /\ ExitInv /\ DeadlineInv /\ WithdrawalInv
    /\ ReturnInv /\ PassedInv /\ CleanupInv /\ InterruptInv
    /\ ResultsInv /\ EarnedInv

------------------------------------------------------------------------------
\* Steps and their frames

\* Every step belongs to one of the groups.
LEMMA NextParts ==
    [Next]_vars =>
        \/ Startup \/ Load \/ Signaling \/ Shutdown \/ Summing \/ Closing
        \/ Outside \/ Beside \/ UNCHANGED vars
  BY DEF Next, Verifier, Startup, Load, Signaling, Shutdown, Summing, Closing,
         Beside, Done

\* What moves beside the verifier leaves the verifier and the container alone.
LEMMA BesideFrame ==
    Beside => UNCHANGED <<pc, seen, verdict, world, interrupted>>
  BY Zenon
  DEF Beside, Traffic, RequestBegins, RequestSettles, RequestDropped,
      BesideTraffic, PostMoves, Withdrawal, WithdrawalError, WithdrawalAnswer,
      WithdrawalPause, BesideWithdrawal, StreamEnds, StreamCut, Expire

\* A failed check of the startup, a hang or a broken runtime: three ways on.
LEMMA InspectStartupShape ==
    ASSUME InspectStartup
    PROVE  /\ pc \in {"inspect_startup", "inspect_terminal"}
           /\ UNCHANGED <<still, known, inflight, results, openAtSignal,
                          graceful, exported, exited>>
           /\ lastState' \in {lastState, exit}
           /\ \/ pc' = "check_ready" /\ KeepVerdict
              \/ ReturnError("inspect") /\ StartupLive
              \/ ReturnError("ready")
              \/ ReturnFailed("startup", "ready")
  BY Zenon
  DEF InspectStartup, KeepSeenButState, Inspected, ReturnError, ReturnFailed

------------------------------------------------------------------------------
\* The ways out of run

\* what only the evaluation and a failed step assert
Reserved == {"deadline", "completed"}

\* an assertion on the container's behaviour
Reports(ok) ==
    \E subject, aspect :
        /\ aspect \notin Reserved
        /\ assertions' = assertions \cup {<<subject, aspect, ok>>}

GoesOn ==
    /\ pc' \notin Ending /\ UNCHANGED runErr
    /\ UNCHANGED assertions \/ \E ok \in BOOLEAN : Reports(ok)

EndsWithError ==
    /\ pc' = "deferred" /\ runErr' \notin {"none", "report"}
    /\ UNCHANGED assertions \/ Reports(FALSE)

EndsWithFailure == pc' = "deferred" /\ runErr' = "none" /\ Reports(FALSE)

EndsDrained ==
    /\ pc = "drain_exited" /\ pc' = "deferred"
    /\ runErr' = "none" /\ UNCHANGED assertions

RunStep == GoesOn \/ EndsWithError \/ EndsWithFailure \/ EndsDrained

\* The forms that the alternatives of the actions take, as steps of run.
LEMMA FailedShape ==
    ASSUME NEW subject, NEW aspect, aspect \notin Reserved,
           ReturnFailed(subject, aspect)
    PROVE  RunStep
  BY DEF ReturnFailed, Return, Asserted, Reports, EndsWithFailure, RunStep

LEMMA ErrorShape ==
    ASSUME NEW err, err \notin {"none", "report"}, ReturnError(err)
    PROVE  RunStep
  BY DEF ReturnError, Return, KeepReport, EndsWithError, RunStep

LEMMA KeepShape ==
    ASSUME KeepVerdict, pc' \notin Ending PROVE RunStep
  BY DEF KeepVerdict, GoesOn, RunStep

LEMMA AssertedShape ==
    ASSUME NEW subject, NEW aspect, NEW ok \in BOOLEAN, aspect \notin Reserved,
           Asserted(subject, aspect, ok), UNCHANGED runErr, pc' \notin Ending
    PROVE  RunStep
  BY DEF Asserted, Reports, GoesOn, RunStep

\* Group by group, every action of run is such a step.
LEMMA StartupShape == Startup => RunStep
<1> USE FailedShape, ErrorShape, KeepShape, AssertedShape DEF Ending, Reserved
<1>1. EnsureImage => RunStep BY DEF EnsureImage
<1>2. StartReceiver => RunStep BY DEF StartReceiver
<1>3. Create => RunStep BY DEF Create
<1>4. Start => RunStep BY DEF Start
<1>5. HostPorts => RunStep BY DEF HostPorts
<1>6. CheckReady => RunStep BY DEF CheckReady
<1>7. InspectStartup => RunStep
  <2>1. InspectStartup =>
            \/ pc' = "check_ready" /\ KeepVerdict
            \/ ReturnError("inspect") \/ ReturnError("ready")
            \/ ReturnFailed("startup", "ready")
    BY InspectStartupShape
  <2>2. QED BY <2>1
<1>8. QED
  BY <1>1, <1>2, <1>3, <1>4, <1>5, <1>6, <1>7, Zenon DEF Startup

LEMMA LoadShape == Load => RunStep
<1> USE FailedShape, ErrorShape, KeepShape, AssertedShape DEF Ending, Reserved
<1>1. PrepareTraffic => RunStep BY DEF PrepareTraffic
<1>2. PrepareStream => RunStep BY DEF PrepareStream
<1>3. OpenStream => RunStep
  <2>1. OpenStream =>
            \/ /\ \E s : Asserted(s, "established", TRUE)
               /\ pc' = "open_streams" /\ UNCHANGED runErr
            \/ /\ \E s : Asserted(s, "established", FALSE)
               /\ pc' = "deferred" /\ runErr' \in {"stream", "none"}
    BY Zenon DEF OpenStream, Return
  <2>2. QED
    BY <2>1 DEF Asserted, RunStep, Reports, EndsWithFailure, EndsWithError
<1>4. StartTraffic => RunStep BY DEF StartTraffic, verdict, KeepVerdict
<1>5. WaitStarted => RunStep BY DEF WaitStarted
<1>6. ShutdownAfter => RunStep BY DEF ShutdownAfter
<1>7. Inspect => RunStep BY DEF Inspect
<1>8. StopAdmission => RunStep BY DEF StopAdmission, verdict, KeepVerdict
<1>9. StopExited => RunStep BY DEF StopExited
<1>10. QED
  BY <1>1, <1>2, <1>3, <1>4, <1>5, <1>6, <1>7, <1>8, <1>9, Zenon DEF Load

LEMMA SignalingShape == Signaling => RunStep
<1> USE FailedShape, ErrorShape, KeepShape, AssertedShape DEF Ending, Reserved
<1>1. RunPreStop => RunStep
  <2>1. RunPreStop =>
            \/ pc' = "request_signal" /\ KeepVerdict
            \/ ReturnError("pre_stop")
            \/ /\ \E ok \in BOOLEAN : Asserted("shutdown", "pre_stop", ok)
               /\ pc' \in {"exhausted", "request_signal"}
               /\ UNCHANGED runErr
    BY DEF RunPreStop
  <2>2. QED BY <2>1
<1>2. GiveUpSignal => RunStep BY DEF GiveUpSignal
<1>3. RequestSignal => RunStep BY DEF RequestSignal, verdict, KeepVerdict
<1>4. ConfirmSignal => RunStep BY DEF ConfirmSignal
<1>5. SignalFails => RunStep BY DEF SignalFails
<1>6. QED BY <1>1, <1>2, <1>3, <1>4, <1>5, Zenon DEF Signaling

LEMMA ShutdownShape == Shutdown => RunStep
<1> USE FailedShape, ErrorShape, KeepShape DEF Ending, Reserved
<1>1. StartPostSignal => RunStep BY DEF StartPostSignal
<1>2. PostSignalStarted => RunStep BY DEF PostSignalStarted
<1>3. ArmStreams => RunStep BY DEF ArmStreams, verdict, KeepVerdict
<1>4. WaitExit => RunStep BY DEF WaitExit, RunStep, GoesOn
<1>5. CutTraffic => RunStep BY DEF CutTraffic, Draining, verdict, KeepVerdict
<1>6. CollectTraffic => RunStep
  BY DEF CollectTraffic, ReturnError, Return, KeepReport, RunStep, EndsDrained
<1>7. InspectExhausted => RunStep BY DEF InspectExhausted
<1>8. CollectPost => RunStep BY DEF CollectPost, verdict, KeepVerdict
<1>9. QED
  BY <1>1, <1>2, <1>3, <1>4, <1>5, <1>6, <1>7, <1>8, Zenon DEF Shutdown

\* ... but for the evaluation.
LEMMA SummingShape == Summing => RunStep \/ EvaluateAssertions
<1> USE FailedShape, ErrorShape, KeepShape DEF Ending, Reserved
<1>1. SummarizeTelemetry => RunStep BY DEF SummarizeTelemetry
<1>2. CloseStreams => RunStep BY DEF CloseStreams
<1>3. AwaitWithdrawal => RunStep BY DEF AwaitWithdrawal
<1>4. QED BY <1>1, <1>2, <1>3, Zenon DEF Summing

\* run itself never touches the verdict of Finish.
LEMMA RunFrame ==
    Startup \/ Load \/ Signaling \/ Shutdown \/ Summing
    => pc \notin Ending /\ UNCHANGED <<passed, retained, code>>
<1> USE DEF Ending, verdict, KeepVerdict, KeepReport, ReturnError, ReturnFailed,
            Return
<1>1. Startup => pc \notin Ending /\ UNCHANGED <<passed, retained, code>>
  BY InspectStartupShape
  DEF Startup, EnsureImage, StartReceiver, Create, Start, HostPorts, CheckReady
<1>2. Load => pc \notin Ending /\ UNCHANGED <<passed, retained, code>>
  BY DEF Load, PrepareTraffic, PrepareStream, OpenStream, StartTraffic,
         WaitStarted, ShutdownAfter, Inspect, StopAdmission, StopExited
<1>3. Signaling => pc \notin Ending /\ UNCHANGED <<passed, retained, code>>
  BY DEF Signaling, RunPreStop, GiveUpSignal, RequestSignal, ConfirmSignal,
         SignalFails
<1>4. Shutdown => pc \notin Ending /\ UNCHANGED <<passed, retained, code>>
  BY DEF Shutdown, StartPostSignal, PostSignalStarted, ArmStreams, WaitExit,
         CutTraffic, CollectTraffic, InspectExhausted, CollectPost, Draining
<1>5. Summing => pc \notin Ending /\ UNCHANGED <<passed, retained, code>>
  BY DEF Summing, SummarizeTelemetry, CloseStreams, AwaitWithdrawal,
         EvaluateAssertions
<1>6. QED BY <1>1, <1>2, <1>3, <1>4, <1>5

\* Every step of run is a RunStep, or the evaluation.
LEMMA RunShape ==
    Startup \/ Load \/ Signaling \/ Shutdown \/ Summing
    => RunStep \/ EvaluateAssertions
  BY StartupShape, LoadShape, SignalingShape, ShutdownShape, SummingShape

OutsideFrame ==
    /\ UNCHANGED <<pc, seen, verdict>>
    /\ pc = "done" => UNCHANGED interrupted

\* No step but the verifier's touches what the verifier knows and reports.
LEMMA OutsideKeeps == Outside \/ Beside \/ UNCHANGED vars => OutsideFrame
  BY BesideFrame, Zenon
  DEF Outside, ContainerExits, Deliver, Interrupt, BesideWorld, vars, still,
      OutsideFrame

\* The failed requests are counted.
LEMMA FailuresNat == Failures \in Nat
<1>1. Ended({"failed", "unsent"}) \subseteq Requests /\ IsFiniteSet(Requests)
  BY LifecycleAssumption DEF Ended, LifecycleAssumption
<1>2. QED BY <1>1, FS_Subset, FS_CardinalityType DEF Failures

\* an assertion of run: decided, and not that of a failed step
Claim(a) == a[3] \in BOOLEAN /\ a[2] # "completed"

LEMMA ClaimOf ==
    ASSUME NEW s, NEW p, NEW b \in BOOLEAN, p # "completed"
    PROVE  Claim(<<s, p, b>>)
  BY DEF Claim

\* What the evaluation asserts.
LEMMA EvaluationOK ==
    ASSUME TypeOK, NEW a \in Evaluation PROVE  Claim(a)
<1>1. CASE a \in {<<"traffic", "inflight_exercised", Exercised>>,
     <<"readiness", "withdrawn", withdrawal = "withdrawn">>,
     <<"traffic", "failed_requests", Failures <= MaxFailed>>,
     <<"shutdown", "deadline", exited>>,
     <<"shutdown", "exit_code",
       exited /\ lastState \in {"expected", "oom"}>>,
     <<"shutdown", "oom", lastState # "oom">>}
  <2>1. Exercised \in BOOLEAN /\ exited \in BOOLEAN
        /\ (Failures <= MaxFailed) \in BOOLEAN
    BY FailuresNat, LifecycleAssumption
    DEF Exercised, TypeOK, SeenOK, LifecycleAssumption
  <2>2. /\ Claim(<<"traffic", "inflight_exercised", Exercised>>)
        /\ Claim(<<"readiness", "withdrawn", withdrawal = "withdrawn">>)
        /\ Claim(<<"traffic", "failed_requests", Failures <= MaxFailed>>)
    BY <2>1, ClaimOf
  <2>3. /\ Claim(<<"shutdown", "deadline", exited>>)
        /\ Claim(<<"shutdown", "exit_code",
                   exited /\ lastState \in {"expected", "oom"}>>)
        /\ Claim(<<"shutdown", "oom", lastState # "oom">>)
    BY <2>1, ClaimOf
  <2>4. QED BY <1>1, <2>2, <2>3, Zenon
<1>2. CASE a \in (IF InflightComplete
          THEN {<<"traffic", "inflight_complete", InflightBad = {}>>} ELSE {})
    \cup (IF PostSignal
          THEN {<<"traffic", "post_signal_policy", post = "complies">>} ELSE {})
  BY <1>2, ClaimOf
<1>3. CASE a \in {<<s, "active_at_signal", s \in openAtSignal>> : s \in Streams}
  <2>1. PICK s \in Streams : a = <<s, "active_at_signal", s \in openAtSignal>>
    BY <1>3
  <2>2. (s \in openAtSignal) \in BOOLEAN OBVIOUS
  <2>3. QED BY <2>1, <2>2, ClaimOf
<1>4. CASE a \in {<<s, "closed_gracefully", s \in graceful>> : s \in Streams}
  <2>1. PICK s \in Streams : a = <<s, "closed_gracefully", s \in graceful>>
    BY <1>4
  <2>2. (s \in graceful) \in BOOLEAN OBVIOUS
  <2>3. QED BY <2>1, <2>2, ClaimOf
<1>5. CASE a \in (IF Telemetry
          THEN {<<"telemetry", "spans_exported", exported>>} ELSE {})
    \cup (IF ForbidForceKill
          THEN {<<"shutdown", "force_kill", ~forced>>} ELSE {})
  <2>1. exported \in BOOLEAN BY DEF TypeOK, SeenOK
  <2>2. QED BY <1>5, <2>1, ClaimOf
<1>6. QED BY <1>1, <1>2, <1>3, <1>4, <1>5, Zenon DEF Evaluation

\* A step of run asserts at most one thing.
LEMMA RunReports ==
    RunStep => UNCHANGED assertions \/ \E ok \in BOOLEAN : Reports(ok)
  BY DEF RunStep, GoesOn, EndsWithError, EndsWithFailure, EndsDrained

\* The end of the process asserts nothing but the failure of a step.
LEMMA ClosingReports ==
    Closing => assertions' \subseteq assertions \cup
        {<<"execution", "completed", FALSE>>,
         <<"cleanup", "completed", FALSE>>}
  BY DEF Closing, Deferred, CollectEvidence, Cleanup, Report, Asserted

\* Every assertion is decided, passed or not.
LEMMA AssertionsNext == TypeOK /\ [Next]_vars => AssertionsOK'
<1> SUFFICES ASSUME TypeOK, [Next]_vars PROVE AssertionsOK'
  OBVIOUS
<1>0. AssertionsOK
  BY DEF TypeOK
<1>1. CASE RunStep
  <2>1. UNCHANGED assertions \/ \E ok \in BOOLEAN : Reports(ok)
    BY <1>1, RunReports
  <2>2. ASSUME NEW ok \in BOOLEAN, Reports(ok) PROVE AssertionsOK'
    BY <1>0, <2>2 DEF Reports, AssertionsOK
  <2>3. QED BY <1>0, <2>1, <2>2 DEF AssertionsOK
<1>2. CASE EvaluateAssertions
  BY <1>0, <1>2, EvaluationOK DEF EvaluateAssertions, AssertionsOK, Claim
<1>3. CASE Closing
  <2>1. assertions' \subseteq assertions \cup
            {<<"execution", "completed", FALSE>>,
             <<"cleanup", "completed", FALSE>>}
    BY <1>3, ClosingReports
  <2>2. ASSUME NEW a \in assertions' PROVE a[3] \in BOOLEAN
    <3>1. CASE a \in assertions
      BY <1>0, <3>1 DEF AssertionsOK
    <3>2. CASE a = <<"execution", "completed", FALSE>>
      BY <3>2
    <3>3. CASE a = <<"cleanup", "completed", FALSE>>
      BY <3>3
    <3>4. QED BY <2>1, <3>1, <3>2, <3>3, Zenon
  <2>3. QED BY <2>2 DEF AssertionsOK
<1>4. CASE OutsideFrame
  BY <1>0, <1>4 DEF OutsideFrame, verdict, AssertionsOK
<1>5. QED
  BY <1>1, <1>2, <1>3, <1>4, NextParts, RunShape, OutsideKeeps

\* Each part of the invariant is preserved, given the parts it rests on.
LEMMA ReturnNext ==
    TypeOK /\ ReturnInv /\ SignalInv /\ [Next]_vars => ReturnInv'
<1> SUFFICES ASSUME TypeOK, ReturnInv, SignalInv, [Next]_vars PROVE ReturnInv'
  OBVIOUS
<1>1. CASE Startup \/ Load \/ Signaling \/ Shutdown \/ Summing
  <2>1. pc \notin Ending /\ runErr = "none"
    BY <1>1, RunFrame DEF ReturnInv
  <2>2. pc' = "drain_exited" => <<"shutdown", "signal", FALSE>> \in assertions'
    <3>1. Startup => pc' # "drain_exited"
      BY InspectStartupShape
      DEF Startup, EnsureImage, StartReceiver, Create, Start, HostPorts,
          CheckReady, ReturnError, ReturnFailed, Return
    <3>2. Load => \/ pc' # "drain_exited"
                  \/ Asserted("shutdown", "signal", FALSE)
      BY DEF Load, PrepareTraffic, PrepareStream, OpenStream, StartTraffic,
             WaitStarted, ShutdownAfter, Inspect, StopAdmission, StopExited,
             ReturnError, ReturnFailed, Return
    <3>3. Signaling \/ Summing => pc' # "drain_exited"
      BY DEF Signaling, RunPreStop, GiveUpSignal, RequestSignal, ConfirmSignal,
             SignalFails, Summing, SummarizeTelemetry, CloseStreams,
             AwaitWithdrawal, EvaluateAssertions, ReturnError, ReturnFailed,
             Return
    <3>4. Shutdown => \/ pc' # "drain_exited"
                      \/ pc = "drain_exited" /\ UNCHANGED assertions
      BY DEF Shutdown, StartPostSignal, PostSignalStarted, ArmStreams, WaitExit,
             CutTraffic, CollectTraffic, InspectExhausted, CollectPost,
             Draining, verdict, ReturnError, Return
    <3>5. QED
      BY <1>1, <3>1, <3>2, <3>3, <3>4 DEF Asserted, ReturnInv
  <2>3. CASE RunStep
    <3>1. CompletedNeedsError'
      <4>1. \A a \in assertions' : a \in assertions \/ a[2] # "completed"
        BY <2>3, RunReports DEF Reports, Reserved
      <4>2. QED BY <2>1, <4>1 DEF ReturnInv, CompletedNeedsError
    <3>2. pc' \in Ending /\ runErr' = "none" => assertions' # {}
      BY <2>1, <2>3
      DEF RunStep, GoesOn, EndsWithError, EndsWithFailure, EndsDrained, Reports,
          ReturnInv
    <3>3. pc' \notin Ending => runErr' = "none"
      BY <2>1, <2>3
      DEF RunStep, GoesOn, EndsWithError, EndsWithFailure, EndsDrained, Ending
    <3>4. QED BY <2>2, <3>1, <3>2, <3>3 DEF ReturnInv
  <2>4. CASE EvaluateAssertions
    <3>1. assertions' = assertions \cup Evaluation
      BY <2>4 DEF EvaluateAssertions
    <3>2. CompletedNeedsError'
      BY <2>1, <3>1, EvaluationOK DEF ReturnInv, CompletedNeedsError, Claim
    <3>3. assertions' # {}
      BY <3>1 DEF Evaluation
    <3>4. pc' = "deferred"
      BY <2>4 DEF EvaluateAssertions, Return
    <3>5. QED BY <3>2, <3>3, <3>4 DEF ReturnInv, Ending
  <2>5. QED BY <1>1, <2>3, <2>4, RunShape
<1>2. CASE Closing
  BY <1>2
  DEF Closing, Deferred, CollectEvidence, Cleanup, Report, Asserted, verdict,
      ReturnInv, CompletedNeedsError, Ending
<1>3. CASE OutsideFrame
  BY <1>3 DEF OutsideFrame, verdict, ReturnInv, CompletedNeedsError
<1>4. QED
  BY <1>1, <1>2, <1>3, NextParts, OutsideKeeps
\* The evaluation takes the deadline from waitExit.
LEMMA EvaluationDeadline ==
    <<"shutdown", "deadline", TRUE>> \in Evaluation => exited
  BY DEF Evaluation

\* Assertions are never withdrawn.
LEMMA FailureStays ==
    SomethingFailed /\ [Next]_vars => SomethingFailed'
<1>1. [Next]_vars => assertions \subseteq assertions'
  <2>1. RunStep \/ EvaluateAssertions => assertions \subseteq assertions'
    BY RunReports DEF Reports, EvaluateAssertions
  <2>2. Closing \/ OutsideFrame => assertions \subseteq assertions'
    BY DEF Closing, Deferred, CollectEvidence, Cleanup, Report, Asserted,
           OutsideFrame, verdict
  <2>3. QED BY <2>1, <2>2, NextParts, RunShape, OutsideKeeps
<1>2. QED BY <1>1 DEF SomethingFailed

\* A way out of run with neither an error nor a failed assertion leads through
\* the evaluation.
LEMMA WayOut ==
    ReturnInv /\ RunStep =>
        \/ pc' \notin Ending
        \/ /\ pc' = "deferred"
           /\ runErr' \notin {"none", "report"} \/ SomethingFailed'
<1> SUFFICES ASSUME ReturnInv, RunStep, pc' \in Ending
    PROVE /\ pc' = "deferred"
          /\ runErr' \notin {"none", "report"} \/ SomethingFailed'
  OBVIOUS
<1>1. CASE EndsWithError
  BY <1>1 DEF EndsWithError
<1>2. CASE EndsWithFailure
  <2>1. PICK subject, aspect :
            assertions' = assertions \cup {<<subject, aspect, FALSE>>}
    BY <1>2 DEF EndsWithFailure, Reports
  <2>2. <<subject, aspect, FALSE>> \in assertions'
    BY <2>1
  <2>3. ~ <<subject, aspect, FALSE>>[3]
    OBVIOUS
  <2>4. QED BY <1>2, <2>2, <2>3, Zenon DEF EndsWithFailure, SomethingFailed
<1>3. CASE EndsDrained
  BY <1>3 DEF EndsDrained, SomethingFailed, ReturnInv
<1>4. QED BY <1>1, <1>2, <1>3 DEF RunStep, GoesOn

\* The verdict follows the assertions from the first Finish on.
LEMMA PassedNext ==
    ReturnInv /\ PassedInv /\ [Next]_vars => PassedInv'
<1> SUFFICES ASSUME ReturnInv, PassedInv, [Next]_vars PROVE PassedInv'
  OBVIOUS
<1>1. CASE Running
  <2>1. pc \notin Ending /\ UNCHANGED <<passed, retained, code>>
    BY <1>1, RunFrame DEF Running
  <2>2. pc' \notin Ending \/ pc' = "deferred"
    BY <1>1, RunShape, WayOut DEF Running, EvaluateAssertions, Return
  <2>3. QED BY <2>1, <2>2 DEF PassedInv, Ending
<1>2. CASE Deferred
  BY <1>2 DEF Deferred, PassedInv
<1>3. CASE CollectEvidence
  <2>1. /\ pc = "evidence" /\ pc' = "cleanup" /\ passed' = Passes(assertions')
        /\ UNCHANGED <<retained, code>>
    BY <1>3 DEF CollectEvidence
  <2>2. runErr' # "none" => <<"execution", "completed", FALSE>> \in assertions'
    BY <1>3 DEF CollectEvidence
  <2>3. runErr' # "none" => ~passed'
    BY <2>1, <2>2 DEF Passes
  <2>4. QED BY <2>1, <2>3 DEF PassedInv
<1>4. CASE Cleanup
  <2>1. /\ pc = "cleanup" /\ pc' = "report" /\ passed' = Passes(assertions')
        /\ UNCHANGED code
    BY <1>4 DEF Cleanup
  <2>2. retained' = retained \/ (Keep /\ assertions' = assertions)
    BY <1>4, Zenon DEF Cleanup
  <2>3. \/ UNCHANGED <<assertions, runErr>>
        \/ <<"cleanup", "completed", FALSE>> \in assertions'
    BY <1>4 DEF Cleanup, Asserted
  <2>4. runErr' # "none" => ~passed'
    BY <2>1, <2>3 DEF Passes, PassedInv
  <2>5. ~retained
    BY <2>1 DEF PassedInv
  <2>6. retained' => KeepOnFailure /\ ~passed'
    BY <2>1, <2>2, <2>5 DEF PassedInv, Keep
  <2>7. QED BY <2>1, <2>4, <2>6 DEF PassedInv
<1>5. CASE Report
  <2>1. /\ pc = "report" /\ pc' = "done" /\ code' = CodeByError(runErr')
        /\ UNCHANGED <<assertions, passed, retained, interrupted>>
        /\ runErr' = runErr \/ runErr' = "report" \/ runErr # "none"
    BY <1>5 DEF Report, still
  <2>2. code' = CodeByError(runErr)'
    BY <2>1 DEF CodeByError, Canceled
  <2>3. passed' => runErr' \in {"none", "report"}
    BY <2>1 DEF PassedInv
  <2>4. passed' = Passes(assertions)'
    BY <2>1 DEF PassedInv, Passes
  <2>5. QED BY <2>1, <2>2, <2>3, <2>4 DEF PassedInv
<1>6. CASE OutsideFrame
  BY <1>6 DEF OutsideFrame, verdict, PassedInv, Passes, CodeByError, Canceled
<1>7. QED
  BY <1>1, <1>2, <1>3, <1>4, <1>5, <1>6, NextParts, OutsideKeeps
  DEF Running, Closing

\* The report tells of the signal what has happened to it.
LEMMA SignalNext ==
    TypeOK /\ SignalInv /\ [Next]_vars => SignalInv'
<1> SUFFICES ASSUME TypeOK, SignalInv, [Next]_vars PROVE SignalInv'
  OBVIOUS
<1> USE DEF SignalInv, SignalAssertionIsTrue, BeforeSignal, Unsignaled,
    Signaled, Judging, Ending, still, world, timers, traffic, beside, seen,
    verdict, vars, KeepVerdict, KeepReport, ReturnError, ReturnFailed, Return,
    Asserted, Inspected, KeepSeenButState
<1>1. CASE Startup
  BY <1>1, InspectStartupShape
  DEF Startup, EnsureImage, StartReceiver, Create, Start, HostPorts,
      CheckReady
<1>2. CASE Load
  BY <1>2
  DEF Load, PrepareTraffic, PrepareStream, OpenStream, StartTraffic,
      WaitStarted, ShutdownAfter, Inspect, StopAdmission, StopExited
<1>3. CASE Signaling
  BY <1>3
  DEF Signaling, RunPreStop, GiveUpSignal, RequestSignal, ConfirmSignal,
      SignalFails, Delivered, CancelWithdraw
<1>4. CASE Shutdown
  BY <1>4
  DEF Shutdown, StartPostSignal, PostSignalStarted, ArmStreams, WaitExit,
      CutTraffic, CollectTraffic, InspectExhausted, CollectPost,
      CancelWithdraw, Draining
<1>5. CASE Summing
  BY <1>5
  DEF Summing, SummarizeTelemetry, CloseStreams, AwaitWithdrawal,
      EvaluateAssertions, Evaluation
<1>6. CASE Closing
  BY <1>6
  DEF Closing, Deferred, CollectEvidence, Cleanup, Report
<1>7. CASE Outside
  BY <1>7
  DEF Outside, ContainerExits, Deliver, Interrupt, BesideWorld
<1>8. CASE Beside
  BY <1>8, BesideFrame
<1>9. CASE UNCHANGED vars
  BY <1>9
<1>10. QED
  BY <1>1, <1>2, <1>3, <1>4, <1>5, <1>6, <1>7, <1>8, <1>9,
     NextParts

\* Every way out of run passes cancelWithdraw.
LEMMA WithdrawalNext ==
    WithdrawalInv /\ [Next]_vars => WithdrawalInv'
<1> SUFFICES ASSUME WithdrawalInv, [Next]_vars PROVE WithdrawalInv'
  OBVIOUS
<1> USE DEF WithdrawalInv, CancelWithdraw, BeforeSignal, Unsignaled, Signaled,
    Judging, Ending, still, world, timers, traffic, beside, seen, verdict,
    vars, KeepVerdict, KeepReport, ReturnError, ReturnFailed, Return,
    Asserted, Inspected, KeepSeenButState
<1>1. CASE Startup
  BY <1>1, InspectStartupShape
  DEF Startup, EnsureImage, StartReceiver, Create, Start, HostPorts,
      CheckReady
<1>2. CASE Load
  BY <1>2
  DEF Load, PrepareTraffic, PrepareStream, OpenStream, StartTraffic,
      WaitStarted, ShutdownAfter, Inspect, StopAdmission, StopExited
<1>3. CASE Signaling
  BY <1>3
  DEF Signaling, RunPreStop, GiveUpSignal, RequestSignal, ConfirmSignal,
      SignalFails
<1>4. CASE Shutdown
  BY <1>4
  DEF Shutdown, StartPostSignal, PostSignalStarted, ArmStreams, WaitExit,
      CutTraffic, CollectTraffic, InspectExhausted, CollectPost
<1>5. CASE Summing
  BY <1>5
  DEF Summing, SummarizeTelemetry, CloseStreams, AwaitWithdrawal,
      EvaluateAssertions
<1>6. CASE Closing
  BY <1>6
  DEF Closing, Deferred, CollectEvidence, Cleanup, Report
<1>7. CASE Outside
  BY <1>7
  DEF Outside, ContainerExits, Deliver, Interrupt, BesideWorld
<1>8. CASE Beside
  BY <1>8
  DEF Beside, Traffic, RequestBegins, RequestSettles, RequestDropped,
      PostMoves, Withdrawal, WithdrawalError, WithdrawalAnswer,
      WithdrawalPause, StreamEnds, StreamCut, Expire, BesideTraffic,
      BesideWithdrawal, BesideWorld
<1>9. CASE UNCHANGED vars
  BY <1>9
<1>10. QED
  BY <1>1, <1>2, <1>3, <1>4, <1>5, <1>6, <1>7, <1>8, <1>9,
     NextParts

\* cleanup decides about every known container.
LEMMA CleanupNext ==
    CleanupInv /\ [Next]_vars => CleanupInv'
<1> SUFFICES ASSUME CleanupInv, [Next]_vars PROVE CleanupInv'
  OBVIOUS
<1> USE DEF CleanupInv, BeforeSignal, Unsignaled, Signaled, Judging, Ending,
    still, world, timers, traffic, beside, seen, verdict, vars, KeepVerdict,
    KeepReport, ReturnError, ReturnFailed, Return, Asserted, Inspected,
    KeepSeenButState
<1>1. CASE Startup
  BY <1>1, InspectStartupShape
  DEF Startup, EnsureImage, StartReceiver, Create, Start, HostPorts,
      CheckReady
<1>2. CASE Load
  BY <1>2
  DEF Load, PrepareTraffic, PrepareStream, OpenStream, StartTraffic,
      WaitStarted, ShutdownAfter, Inspect, StopAdmission, StopExited
<1>3. CASE Signaling
  BY <1>3
  DEF Signaling, RunPreStop, GiveUpSignal, RequestSignal, ConfirmSignal,
      SignalFails
<1>4. CASE Shutdown
  BY <1>4
  DEF Shutdown, StartPostSignal, PostSignalStarted, ArmStreams, WaitExit,
      CutTraffic, CollectTraffic, InspectExhausted, CollectPost
<1>5. CASE Summing
  BY <1>5
  DEF Summing, SummarizeTelemetry, CloseStreams, AwaitWithdrawal,
      EvaluateAssertions
<1>6. CASE Closing
  BY <1>6
  DEF Closing, Deferred, CollectEvidence, Cleanup, Report, Owned, Keep
<1>7. CASE Outside
  BY <1>7
  DEF Outside, ContainerExits, Deliver, Interrupt, BesideWorld
<1>8. CASE Beside
  BY <1>8, BesideFrame
<1>9. CASE UNCHANGED vars
  BY <1>9
<1>10. QED
  BY <1>1, <1>2, <1>3, <1>4, <1>5, <1>6, <1>7, <1>8, <1>9,
     NextParts

\* What waitExit saw of the container stays so.
LEMMA ExitNext ==
    TypeOK /\ SignalInv /\ ExitInv /\ [Next]_vars => ExitInv'
<1> SUFFICES ASSUME TypeOK, SignalInv, ExitInv, [Next]_vars PROVE ExitInv'
  OBVIOUS
<1> USE DEF SignalInv, ExitInv, Expired, Running, BeforeSignal, Unsignaled,
    Signaled, Judging, Ending, still, world, timers, traffic, beside, seen,
    verdict, vars, KeepVerdict, KeepReport, ReturnError, ReturnFailed, Return,
    Asserted, Inspected, KeepSeenButState
<1>1. CASE Running \/ Closing
  <2> USE DEF Startup, EnsureImage, StartReceiver, Create, Start, HostPorts,
      CheckReady, Load, PrepareTraffic, PrepareStream, OpenStream,
      StartTraffic, WaitStarted, ShutdownAfter, Inspect, StopAdmission,
      StopExited, Signaling, RunPreStop, GiveUpSignal, RequestSignal,
      ConfirmSignal, SignalFails, Shutdown, StartPostSignal,
      PostSignalStarted, ArmStreams, WaitExit, CutTraffic, CollectTraffic,
      InspectExhausted, CollectPost, Summing, SummarizeTelemetry,
      CloseStreams, AwaitWithdrawal, EvaluateAssertions, Closing, Deferred,
      CollectEvidence, Cleanup, Report, ExitObserved, Draining, CancelWithdraw
  <2>1. LateKnown' BY <1>1, InspectStartupShape DEF LateKnown
  <2>2. ExitKnown' BY <1>1, InspectStartupShape DEF ExitKnown
  <2>3. ExitedAfterWait' BY <1>1, InspectStartupShape DEF ExitedAfterWait
  <2>4. ExitedStopped' BY <1>1, InspectStartupShape
    DEF ExitedStopped, ExitedAfterWait
  <2>5. UNCHANGED <<exit, late>>
    BY <1>1, InspectStartupShape
  <2>6. exited' =>
            \/ exited /\ lastState' \in {lastState, exit}
            \/ /\ container = "exited" /\ ~Expired("deadline")
               /\ lastState' = exit
    BY <1>1, InspectStartupShape DEF ExitedAfterWait
  <2>7. ExitedInTime'
    BY <2>5, <2>6 DEF ExitedInTime, LateKnown, ExitKnown
  <2>8. QED BY <2>1, <2>2, <2>3, <2>4, <2>7
<1>2. CASE Outside
  <2> USE DEF Outside, ContainerExits, Deliver, Interrupt,
      LifecycleAssumption, NotExited, BesideWorld
  <2>1. LateKnown' BY <1>2, LifecycleAssumption DEF LateKnown
  <2>2. ExitKnown' BY <1>2, LifecycleAssumption DEF ExitKnown
  <2>3. ExitedAfterWait' BY <1>2, LifecycleAssumption DEF ExitedAfterWait
  <2>4. ExitedStopped' BY <1>2, LifecycleAssumption
    DEF ExitedStopped, ExitedAfterWait
  <2>5. ExitedInTime' BY <1>2, LifecycleAssumption
    DEF ExitedInTime, ExitedAfterWait, LateKnown, ExitKnown, ExitedStopped
  <2>6. QED BY <2>1, <2>2, <2>3, <2>4, <2>5
<1>3. CASE Beside
  <2>1. expired \subseteq expired'
    BY <1>3
    DEF Beside, Traffic, RequestBegins, RequestSettles, RequestDropped,
        PostMoves, Withdrawal, WithdrawalError, WithdrawalAnswer,
        WithdrawalPause, StreamEnds, StreamCut, Expire, BesideTraffic,
        BesideWithdrawal, BesideWorld
  <2>2. QED
    BY <1>3, <2>1, BesideFrame DEF LateKnown, ExitKnown, ExitedAfterWait,
        ExitedStopped, ExitedInTime
<1>4. CASE UNCHANGED vars
  BY <1>4 DEF LateKnown, ExitKnown, ExitedAfterWait, ExitedStopped,
      ExitedInTime
<1>5. QED
  BY <1>1, <1>2, <1>3, <1>4, NextParts

\* Only the evaluation asserts that the deadline was met.
LEMMA DeadlineNext ==
    ExitInv /\ DeadlineInv /\ [Next]_vars => DeadlineInv'
<1> SUFFICES ASSUME ExitInv, DeadlineInv, [Next]_vars PROVE DeadlineInv'
  OBVIOUS
<1> DEFINE InTime == <<"shutdown", "deadline", TRUE>>
<1>1. CASE Running
  <2>1. exited => exited'
    BY <1>1, InspectStartupShape
    DEF Running, Startup, EnsureImage, StartReceiver, Create, Start,
        HostPorts, CheckReady, Load, PrepareTraffic, PrepareStream,
        OpenStream, StartTraffic, WaitStarted, ShutdownAfter, Inspect,
        StopAdmission, StopExited, Signaling, RunPreStop, GiveUpSignal,
        RequestSignal, ConfirmSignal, SignalFails, Shutdown, StartPostSignal,
        PostSignalStarted, ArmStreams, WaitExit, CutTraffic, CollectTraffic,
        InspectExhausted, CollectPost, Summing, SummarizeTelemetry,
        CloseStreams, AwaitWithdrawal, EvaluateAssertions, ExitInv,
        ExitedAfterWait, Judging, Ending, seen, KeepSeenButState
  <2>2. InTime \in assertions' => InTime \in assertions \/ exited
    <3>1. CASE RunStep
      BY <3>1, RunReports DEF Reports, Reserved
    <3>2. CASE EvaluateAssertions
      BY <3>2, EvaluationDeadline DEF EvaluateAssertions
    <3>3. QED BY <1>1, <3>1, <3>2, RunShape DEF Running
  <2>3. QED BY <2>1, <2>2 DEF DeadlineInv
<1>2. CASE Closing
  <2>1. InTime \in assertions' => InTime \in assertions
    BY <1>2, ClosingReports
  <2>2. UNCHANGED exited
    BY <1>2
    DEF Closing, Deferred, CollectEvidence, Cleanup, Report, seen,
        KeepSeenButState
  <2>3. QED BY <2>1, <2>2 DEF DeadlineInv
<1>3. CASE OutsideFrame
  BY <1>3 DEF OutsideFrame, seen, verdict, DeadlineInv
<1>4. QED
  BY <1>1, <1>2, <1>3, NextParts, OutsideKeeps DEF Running

\* Settled requests and ended streams do not change.
LEMMA ResultsNext ==
    TypeInv /\ ResultsInv /\ [Next]_vars => ResultsInv'
<1> SUFFICES ASSUME TypeInv, ResultsInv, [Next]_vars PROVE ResultsInv'
  OBVIOUS
<1>0. /\ pc \in BeforeSignal => graceful = {}
      /\ graceful \subseteq openAtSignal /\ openAtSignal \subseteq Streams
      /\ stream \in [Streams -> {"off", "open", "clean", "broken"}]
      /\ status \in [Requests -> {"queued", "active", "settled", "dropped"}]
      /\ outcome \in [Requests -> Outcomes]
  BY DEF TypeInv, GracefulAtEnd, TypeOK, SeenOK, TrafficOK, BesideOK
<1> USE DEF ResultsInv, BeforeSignal, Unsignaled, Signaled, Judging, Ending,
    still, world, timers, traffic, beside, seen, verdict, vars, KeepVerdict,
    KeepReport, ReturnError, ReturnFailed, Return, Asserted, Inspected,
    KeepSeenButState
<1>1. CASE Startup
  BY <1>1, <1>0, InspectStartupShape
  DEF Startup, EnsureImage, StartReceiver, Create, Start, HostPorts,
      CheckReady
<1>2. CASE Load
  BY <1>2, <1>0
  DEF Load, PrepareTraffic, PrepareStream, OpenStream, StartTraffic,
      WaitStarted, ShutdownAfter, Inspect, StopAdmission, StopExited,
      Execution!StopAndSnapshot
<1>3. CASE Signaling
  BY <1>3, <1>0
  DEF Signaling, RunPreStop, GiveUpSignal, RequestSignal, ConfirmSignal,
      SignalFails
<1>4. CASE Shutdown
  BY <1>4, <1>0
  DEF Shutdown, StartPostSignal, PostSignalStarted, ArmStreams, WaitExit,
      CutTraffic, CollectTraffic, InspectExhausted, CollectPost
<1>5. CASE Summing
  BY <1>5, <1>0
  DEF Summing, SummarizeTelemetry, CloseStreams, AwaitWithdrawal,
      EvaluateAssertions, Graceful
<1>6. CASE Closing
  BY <1>6, <1>0
  DEF Closing, Deferred, CollectEvidence, Cleanup, Report
<1>7. CASE Outside
  BY <1>7
  DEF Outside, ContainerExits, Deliver, Interrupt, BesideWorld
<1>8. CASE Beside
  BY <1>8, <1>0
  DEF Beside, Traffic, RequestBegins, RequestSettles, RequestDropped,
      PostMoves, Withdrawal, WithdrawalError, WithdrawalAnswer,
      WithdrawalPause, StreamEnds, StreamCut, Expire, Execution!Begin,
      Execution!Settle, Execution!Drop, NoOutcome, BesideTraffic,
      BesideWithdrawal, BesideWorld
<1>9. CASE UNCHANGED vars
  BY <1>9
<1>10. QED
  BY <1>1, <1>2, <1>3, <1>4, <1>5, <1>6, <1>7, <1>8, <1>9,
     NextParts

\* After an interrupt no step of run reaches the evaluation.
LEMMA InterruptNext ==
    ReturnInv /\ InterruptInv /\ [Next]_vars => InterruptInv'
<1> SUFFICES ASSUME ReturnInv, InterruptInv, [Next]_vars PROVE InterruptInv'
  OBVIOUS
<1>1. CASE Running
  <2> SUFFICES ASSUME interrupted' = "early" PROVE InterruptInv'
    BY DEF InterruptInv
  <2>1. UNCHANGED interrupted /\ pc \notin Judging \cup {"evaluate"}
    BY <1>1, InspectStartupShape
    DEF InterruptInv, Running, Startup, EnsureImage, StartReceiver, Create,
        Start, HostPorts, CheckReady, Load, PrepareTraffic, PrepareStream,
        OpenStream, StartTraffic, WaitStarted, ShutdownAfter, Inspect,
        StopAdmission, StopExited, Signaling, RunPreStop, GiveUpSignal,
        RequestSignal, ConfirmSignal, SignalFails, Shutdown, StartPostSignal,
        PostSignalStarted, ArmStreams, WaitExit, CutTraffic, CollectTraffic,
        InspectExhausted, CollectPost, Summing, SummarizeTelemetry,
        CloseStreams, AwaitWithdrawal, EvaluateAssertions, still
  <2>2. pc' \notin Judging \cup {"evaluate"}
    BY <1>1, <2>1, InspectStartupShape
    DEF Running, Startup, EnsureImage, StartReceiver, Create, Start,
        HostPorts, CheckReady, Load, PrepareTraffic, PrepareStream,
        OpenStream, StartTraffic, WaitStarted, ShutdownAfter, Inspect,
        StopAdmission, StopExited, Signaling, RunPreStop, GiveUpSignal,
        RequestSignal, ConfirmSignal, SignalFails, Shutdown, StartPostSignal,
        PostSignalStarted, ArmStreams, WaitExit, CutTraffic, CollectTraffic,
        InspectExhausted, CollectPost, Summing, SummarizeTelemetry,
        CloseStreams, AwaitWithdrawal, EvaluateAssertions, Judging, Canceled,
        Live, CallFails, KeepVerdict, ReturnError, ReturnFailed, Return
  <2>3. pc' \in Ending => runErr' # "none" \/ SomethingFailed'
    BY <1>1, <2>1, RunShape, WayOut DEF Running, EvaluateAssertions
  <2>4. QED BY <2>2, <2>3 DEF InterruptInv
<1>2. CASE Closing
  <2>1. /\ pc \in Ending /\ pc' \in Ending /\ UNCHANGED interrupted
        /\ runErr # "none" => runErr' # "none"
    BY <1>2
    DEF Closing, Deferred, CollectEvidence, Cleanup, Report, Ending, still
  <2>2. QED
    BY <2>1, FailureStays DEF InterruptInv, Ending, Judging
<1>3. CASE OutsideFrame
  <2>1. UNCHANGED <<pc, runErr>> /\ (SomethingFailed => SomethingFailed')
    BY <1>3, FailureStays DEF OutsideFrame, verdict
  <2>2. interrupted' = "early" /\ interrupted # "early" =>
            pc \notin AfterExitWait \cup {"done"}
    <3>1. Running \/ Closing => UNCHANGED interrupted
      BY InspectStartupShape
      DEF Running, Startup, EnsureImage, StartReceiver, Create, Start,
          HostPorts, CheckReady, Load, PrepareTraffic, PrepareStream,
          OpenStream, StartTraffic, WaitStarted, ShutdownAfter, Inspect,
          StopAdmission, StopExited, Signaling, RunPreStop, GiveUpSignal,
          RequestSignal, ConfirmSignal, SignalFails, Shutdown,
          StartPostSignal, PostSignalStarted, ArmStreams, WaitExit,
          CutTraffic, CollectTraffic, InspectExhausted, CollectPost, Summing,
          SummarizeTelemetry, CloseStreams, AwaitWithdrawal,
          EvaluateAssertions, Closing, Deferred, CollectEvidence, Cleanup,
          Report, still
    <3>2. Outside => \/ interrupted' = interrupted
                     \/ interrupted' = "late"
                     \/ pc \notin AfterExitWait \cup {"done"}
      BY DEF Outside, ContainerExits, Deliver, Interrupt
    <3>3. Beside \/ UNCHANGED vars => UNCHANGED interrupted
      BY BesideFrame DEF vars, still
    <3>4. QED BY <3>1, <3>2, <3>3, NextParts DEF Running
  <2>3. QED
    BY <2>1, <2>2 DEF InterruptInv, AfterExitWait, Judging, Ending
<1>4. QED
  BY <1>1, <1>2, <1>3, NextParts, OutsideKeeps DEF Running

\* The types, and that no stream counts as graceful before the signal.
LEMMA TypeNext == TypeInv /\ [Next]_vars => TypeInv'
<1> SUFFICES ASSUME TypeInv, [Next]_vars PROVE TypeInv'
  OBVIOUS
<1>0. /\ WorldOK /\ TimersOK /\ TrafficOK /\ BesideOK /\ pc \in Phases
      /\ SeenOK /\ VerdictOK /\ GracefulAtEnd
  BY DEF TypeInv, TypeOK
<1> BesideOK
  BY <1>0
<1>1. AssertionsOK'
  BY AssertionsNext DEF TypeInv
<1> USE DEF BeforeSignal, Unsignaled, Signaled, Judging, Ending, still, world,
    timers, traffic, beside, seen, verdict, vars, KeepVerdict, KeepReport,
    ReturnError, ReturnFailed, Return, Asserted, Inspected, KeepSeenButState
<1>2. CASE Running \/ Closing
  <2> USE DEF Running, Startup, EnsureImage, StartReceiver, Create, Start,
      HostPorts, CheckReady, Load, PrepareTraffic, PrepareStream, OpenStream,
      StartTraffic, WaitStarted, ShutdownAfter, Inspect, StopAdmission,
      StopExited, Signaling, RunPreStop, GiveUpSignal, RequestSignal,
      ConfirmSignal, SignalFails, Shutdown, StartPostSignal,
      PostSignalStarted, ArmStreams, WaitExit, CutTraffic, CollectTraffic,
      InspectExhausted, CollectPost, Summing, SummarizeTelemetry,
      CloseStreams, AwaitWithdrawal, EvaluateAssertions, Closing, Deferred,
      CollectEvidence, Cleanup, Report
  <2>1. WorldOK'
    BY <1>0, <1>2, InspectStartupShape
    DEF WorldOK
  <2>2. TimersOK'
    BY <1>0, <1>2, InspectStartupShape
    DEF TimersOK, Timers, ShutdownDeadlineSet, WithdrawalDeadlineSet
  <2>3. TrafficOK'
    BY <1>0, <1>2, InspectStartupShape
    DEF TrafficOK, Outcomes, Execution!StopAndSnapshot
  <2>4. BesideOK'
    <3>1. stream' \in [Streams -> {"off", "open", "clean", "broken"}]
      BY <1>2, InspectStartupShape DEF BesideOK
    <3>2. /\ post' \in {"off", "starting", "unstarted", "running", "complies",
                       "violates"}
          /\ withdrawal' \in {"off", "probing", "pausing", "withdrawn", "kept"}
      BY <1>2, InspectStartupShape DEF BesideOK
    <3>3. withdrawCut' \in BOOLEAN /\ receiver' \in {"off", "open", "closed"}
      BY <1>2, InspectStartupShape DEF BesideOK, CancelWithdraw
    <3>4. QED BY <3>1, <3>2, <3>3 DEF BesideOK
  <2>5. (pc \in Phases)'
    BY <1>0, <1>2, InspectStartupShape
    DEF Phases
  <2>6. SeenOK'
    BY <1>0, <1>2, InspectStartupShape
    DEF SeenOK, WorldOK, TrafficOK, GracefulAtEnd, Outcomes, Graceful, Active
  <2>7. GracefulAtEnd'
    <3>1. pc' \in BeforeSignal => pc \in BeforeSignal
      BY <1>2, InspectStartupShape
    <3>2. pc' \in BeforeSignal => UNCHANGED graceful
      BY <1>2, InspectStartupShape
    <3>3. QED BY <1>0, <3>1, <3>2 DEF GracefulAtEnd
  <2>8. VerdictOK'
    BY <1>0, <1>2, InspectStartupShape
    DEF VerdictOK, CodeByError, Passes
  <2>9. QED
    BY <1>1, <2>1, <2>2, <2>3, <2>4, <2>5, <2>6, <2>7, <2>8
    DEF TypeInv, TypeOK
<1>3. CASE Outside
  <2>1. UNCHANGED <<timers, traffic, beside, pc, seen, verdict>>
    BY <1>3 DEF Outside, ContainerExits, Deliver, Interrupt, BesideWorld
  <2>2. WorldOK'
    <3>1. Expired("deadline") \in BOOLEAN
      BY DEF Expired
    <3>2. QED
      BY <1>0, <1>3, <3>1, LifecycleAssumption
      DEF WorldOK, LifecycleAssumption, Outside, ContainerExits, Deliver,
          Interrupt
  <2>3. QED
    BY <1>0, <1>1, <2>1, <2>2
    DEF TypeInv, TypeOK, TimersOK, TrafficOK, BesideOK, SeenOK, VerdictOK,
        GracefulAtEnd
<1>4. CASE Beside
  <2>1. UNCHANGED <<pc, seen, verdict, world, interrupted>>
    BY <1>4, BesideFrame
  <2> USE DEF Beside, Traffic, RequestBegins, RequestSettles, RequestDropped,
      PostMoves, Withdrawal, WithdrawalError, WithdrawalAnswer,
      WithdrawalPause, StreamEnds, StreamCut, Expire, BesideTraffic,
      BesideWithdrawal, BesideWorld
  <2>2. TimersOK' BY <1>0, <1>4
    DEF TimersOK, Timers
  <2>3. TrafficOK' BY <1>0, <1>4
    DEF TrafficOK, Outcomes, Execution!Begin, Execution!Settle, Execution!Drop
  <2>4. BesideOK' BY <1>0, <1>4
    DEF BesideOK
  <2>5. QED
    BY <1>0, <1>1, <2>1, <2>2, <2>3, <2>4
    DEF TypeInv, TypeOK, WorldOK, SeenOK, VerdictOK, GracefulAtEnd
<1>5. CASE UNCHANGED vars
  BY <1>0, <1>1, <1>5
  DEF TypeInv, TypeOK, WorldOK, TimersOK, TrafficOK, BesideOK, SeenOK,
      VerdictOK, GracefulAtEnd
<1>6. QED
  BY <1>2, <1>3, <1>4, <1>5, NextParts DEF Running

\* The world of an earned pass does not change any more.
LEMMA EarnedStays ==
    TypeInv /\ ResultsInv /\ Earned /\ pc \in Ending /\ [Next]_vars => Earned'
<1> SUFFICES ASSUME TypeInv, ResultsInv, Earned, pc \in Ending, [Next]_vars
    PROVE Earned'
  OBVIOUS
<1>0. /\ status \in [Requests -> {"queued", "active", "settled", "dropped"}]
      /\ outcome \in [Requests -> Outcomes]
      /\ stream \in [Streams -> {"off", "open", "clean", "broken"}]
      /\ inflight \subseteq Requests
  BY DEF TypeInv, TypeOK, TrafficOK, BesideOK, SeenOK
<1>1. CASE Closing
  <2>1. /\ UNCHANGED <<signal, inflight, outcome, withdrawal, openAtSignal,
                       post, exit>>
        /\ container' \in {container, "removed"}
        /\ \A s \in Streams : stream[s] = "clean" => stream'[s] = "clean"
    BY <1>0, <1>1
    DEF Closing, Deferred, CollectEvidence, Cleanup, Report, KeepSeenButState,
        still, world, traffic, beside, seen
  <2>2. QED BY <2>1 DEF Earned
<1>2. CASE Outside
  BY <1>2
  DEF Outside, ContainerExits, Deliver, Interrupt, BesideWorld, Earned, world,
      traffic, beside, seen
<1>3. CASE Beside
  <2>1. UNCHANGED <<pc, seen, verdict, world, interrupted>>
    BY <1>3, BesideFrame
  <2>2. /\ withdrawal = "withdrawn" => withdrawal' = "withdrawn"
        /\ post = "complies" => post' = "complies"
    BY <1>3
    DEF Beside, Traffic, RequestBegins, RequestSettles, RequestDropped,
        PostMoves, Withdrawal, WithdrawalError, WithdrawalAnswer,
        WithdrawalPause, StreamEnds, StreamCut, Expire, BesideTraffic,
        BesideWithdrawal, BesideWorld, timers, traffic, beside
  <2>3. \A s \in Streams : stream[s] = "clean" => stream'[s] = "clean"
    BY <1>0, <1>3
    DEF Beside, Traffic, RequestBegins, RequestSettles, RequestDropped,
        PostMoves, Withdrawal, WithdrawalError, WithdrawalAnswer,
        WithdrawalPause, StreamEnds, StreamCut, Expire, BesideTraffic,
        BesideWithdrawal, BesideWorld, timers, traffic, beside
  <2>4. \A r \in Requests : outcome[r] = "ok" => outcome'[r] = "ok"
    <3>1. \A r \in Requests : outcome[r] = "ok" => status[r] = "settled"
      BY DEF ResultsInv, NoOutcome
    <3>2. QED
      BY <1>0, <1>3, <3>1
      DEF Beside, Traffic, RequestBegins, RequestSettles, RequestDropped,
          PostMoves, Withdrawal, WithdrawalError, WithdrawalAnswer,
          WithdrawalPause, StreamEnds, StreamCut, Expire, BesideTraffic,
          BesideWithdrawal, BesideWorld, timers, traffic, beside,
          Execution!Begin, Execution!Settle, Execution!Drop
  <2>5. QED
    BY <1>0, <2>1, <2>2, <2>3, <2>4 DEF Earned, seen, world
<1>4. CASE UNCHANGED vars
  BY <1>4
  DEF Earned, vars, still, world, traffic, beside, seen
<1>5. QED
  BY <1>1, <1>2, <1>3, <1>4, NextParts, RunFrame

\* The evaluation passes only what is earned.
LEMMA EarnedNext ==
    /\ TypeInv /\ ExitInv /\ ReturnInv /\ ResultsInv /\ EarnedInv
    /\ [Next]_vars
    => EarnedInv'
<1> SUFFICES ASSUME TypeInv, ExitInv, ReturnInv, ResultsInv, EarnedInv,
                    [Next]_vars
    PROVE EarnedInv'
  OBVIOUS
<1>1. CASE RunStep
  BY <1>1, WayOut DEF EarnedInv
<1>2. CASE EvaluateAssertions
  <2> SUFFICES ASSUME ~SomethingFailed' PROVE Earned'
    BY DEF EarnedInv
  <2>1. \A a \in Evaluation : a[3]
    BY <1>2 DEF EvaluateAssertions, SomethingFailed
  <2>2. Exercised /\ withdrawal = "withdrawn" /\ exited
    <3>1. /\ <<"traffic", "inflight_exercised", Exercised>>[3]
          /\ <<"readiness", "withdrawn", withdrawal = "withdrawn">>[3]
          /\ <<"shutdown", "deadline", exited>>[3]
      BY <2>1, Zenon DEF Evaluation
    <3>2. QED BY <3>1
  <2>3. lastState = "expected"
    <3>1. /\ <<"shutdown", "exit_code",
               exited /\ lastState \in {"expected", "oom"}>>[3]
          /\ <<"shutdown", "oom", lastState # "oom">>[3]
      BY <2>1, Zenon DEF Evaluation
    <3>2. QED BY <3>1
  <2>4. InflightComplete => InflightBad = {}
    <3>1. InflightComplete =>
              <<"traffic", "inflight_complete", InflightBad = {}>>[3]
      BY <2>1 DEF Evaluation
    <3>2. QED BY <3>1
  <2>5. PostSignal => post = "complies"
    <3>1. PostSignal =>
              <<"traffic", "post_signal_policy", post = "complies">>[3]
      BY <2>1 DEF Evaluation
    <3>2. QED BY <3>1
  <2>6. \A s \in Streams : s \in openAtSignal /\ s \in graceful
    <3> TAKE s \in Streams
    <3>1. /\ <<s, "active_at_signal", s \in openAtSignal>>[3]
          /\ <<s, "closed_gracefully", s \in graceful>>[3]
      BY <2>1 DEF Evaluation
    <3>2. QED BY <3>1
  <2>7. /\ signal = "delivered" /\ container \in {"exited", "removed"}
        /\ exit = "expected"
    BY <2>2, <2>3 DEF ExitInv, ExitedStopped, ExitedInTime
  <2>8. InflightComplete => \A r \in inflight : outcome[r] = "ok"
    BY <2>4 DEF InflightBad, Ended, ResultsInv, NoOutcome
  <2>9. \A s \in Streams : s \in openAtSignal /\ stream[s] = "clean"
    BY <2>6 DEF ResultsInv
  <2>10. Earned
    BY <2>2, <2>5, <2>7, <2>8, <2>9 DEF Earned, Exercised
  <2>11. QED
    BY <1>2, <2>10
    DEF EvaluateAssertions, Earned, still, world, traffic, beside, seen
<1>3. CASE Closing \/ OutsideFrame
  <2>1. /\ pc' \in Ending => pc \in Ending
        /\ runErr \notin {"none", "report"} => runErr' \notin {"none", "report"}
    BY <1>3
    DEF Closing, Deferred, CollectEvidence, Cleanup, Report, OutsideFrame,
        verdict, Ending
  <2>2. QED
    BY <2>1, FailureStays, EarnedStays DEF EarnedInv
<1>4. QED
  BY <1>1, <1>2, <1>3, NextParts, RunShape, OutsideKeeps

------------------------------------------------------------------------------
\* The theorems

\* The invariant holds at first ...
LEMMA InitInv == Init => LifecycleInv
<1> SUFFICES ASSUME Init PROVE LifecycleInv
  OBVIOUS
<1>1. TypeInv
  BY DEF Init, TypeInv, GracefulAtEnd, TypeOK, WorldOK, TimersOK, TrafficOK,
         BesideOK, SeenOK, AssertionsOK, VerdictOK, Phases, Outcomes, NoOutcome
<1>2. SignalInv /\ DeadlineInv /\ CleanupInv /\ InterruptInv /\ EarnedInv
  BY DEF Init, SignalInv, SignalAssertionIsTrue, DeadlineInv, CleanupInv,
         InterruptInv, EarnedInv, Judging, Signaled, Ending
<1>3. ExitInv /\ WithdrawalInv
  BY DEF Init, ExitInv, LateKnown, ExitKnown, ExitedAfterWait, ExitedStopped,
         ExitedInTime, WithdrawalInv, Ending
<1>4. ReturnInv /\ PassedInv
  BY DEF Init, ReturnInv, CompletedNeedsError, PassedInv, Ending
<1>5. ResultsInv
  BY DEF Init, ResultsInv, NoOutcome
<1>6. QED BY <1>1, <1>2, <1>3, <1>4, <1>5 DEF LifecycleInv

\* ... and every step preserves it.
LEMMA Inductive == LifecycleInv /\ [Next]_vars => LifecycleInv'
<1> SUFFICES ASSUME LifecycleInv, [Next]_vars PROVE LifecycleInv'
  OBVIOUS
<1>1. TypeInv /\ SignalInv /\ ExitInv /\ DeadlineInv /\ WithdrawalInv
      /\ ReturnInv /\ PassedInv /\ CleanupInv /\ InterruptInv /\ ResultsInv
      /\ EarnedInv /\ TypeOK
  BY DEF LifecycleInv, TypeInv
<1>2. TypeInv' /\ SignalInv' /\ ExitInv' /\ DeadlineInv' /\ WithdrawalInv'
  BY <1>1, TypeNext, SignalNext, ExitNext, DeadlineNext, WithdrawalNext
<1>3. ReturnInv' /\ PassedInv' /\ CleanupInv' /\ InterruptInv'
  BY <1>1, ReturnNext, PassedNext, CleanupNext, InterruptNext
<1>4. ResultsInv' /\ EarnedInv'
  BY <1>1, ResultsNext, EarnedNext
<1>5. QED BY <1>2, <1>3, <1>4 DEF LifecycleInv

\* The invariant holds of every verification: what is known at each place of
\* run, up to the exit of the process.
THEOREM LifecycleInvariant == SafeSpec => []LifecycleInv
<1>1. QED BY InitInv, Inductive, PTL DEF SafeSpec

\* The variables keep their types, whatever fails and whoever interrupts.
THEOREM Typed == SafeSpec => []TypeOK
<1>1. LifecycleInv => TypeOK
  BY DEF LifecycleInv, TypeInv
<1>2. QED BY LifecycleInvariant, <1>1, PTL

\* A report that passes was earned: run left through the evaluation, and what
\* the evaluation read was still so at the end.
THEOREM PassIsEarned == SafeSpec => []PassedIsEarned
<1>1. LifecycleInv => PassedIsEarned
  <2> SUFFICES ASSUME LifecycleInv, pc = "done", passed PROVE Earned
    BY DEF PassedIsEarned, Earned
  <2>1. /\ runErr \in {"none", "report"} /\ Passes(assertions)
    BY DEF LifecycleInv, PassedInv
  <2>2. ~SomethingFailed
    BY <2>1 DEF SomethingFailed, Passes
  <2>3. QED BY <2>1, <2>2 DEF LifecycleInv, EarnedInv, Ending
<1>2. QED BY LifecycleInvariant, <1>1, PTL

\* What the report asserts of the signal is what happened.
THEOREM SignalTold == SafeSpec => []SignalAssertionIsTrue
<1>1. LifecycleInv => SignalAssertionIsTrue
  BY DEF LifecycleInv, SignalInv
<1>2. QED BY LifecycleInvariant, <1>1, PTL

\* A container that is reported to have met the shutdown deadline met it.
THEOREM DeadlineMet == SafeSpec => []DeadlinePassMeansInTime
<1>1. LifecycleInv => DeadlinePassMeansInTime
  BY DEF LifecycleInv, DeadlineInv, ExitInv, ExitedInTime,
         DeadlinePassMeansInTime
<1>2. QED BY LifecycleInvariant, <1>1, PTL

\* Whatever fails, a known container is removed, retained on request because
\* the report failed, or reported as left behind.
THEOREM Cleaned == SafeSpec => []NothingLeftBehind
<1>1. LifecycleInv => NothingLeftBehind
  <2> SUFFICES ASSUME LifecycleInv PROVE NothingLeftBehind
    OBVIOUS
  <2>1. pc = "done" /\ known =>
            \/ container = "removed"
            \/ retained
            \/ <<"cleanup", "completed", FALSE>> \in assertions
    BY DEF LifecycleInv, CleanupInv
  <2>2. retained => KeepOnFailure /\ ~passed
    BY DEF LifecycleInv, PassedInv
  <2>3. pc = "done" /\ ~passed => code # 0
    BY DEF LifecycleInv, PassedInv, CodeByError
  <2>4. QED BY <2>1, <2>2, <2>3 DEF NothingLeftBehind
<1>2. QED BY LifecycleInvariant, <1>1, PTL

\* The exit code and the report tell the same story.
THEOREM ExitCodeTold == SafeSpec => []ExitCodeTellsTruth
<1>1. LifecycleInv => ExitCodeTellsTruth
  <2> SUFFICES ASSUME LifecycleInv, pc = "done"
      PROVE /\ code = 0 => passed /\ runErr = "none"
            /\ code = 1 => \E a \in assertions : ~a[3] /\ a[2] # "completed"
            /\ passed => runErr \in {"none", "report"}
    BY DEF ExitCodeTellsTruth
  <2>1. /\ passed => runErr \in {"none", "report"}
        /\ code = CodeByError(runErr)
        /\ passed = Passes(assertions)
    BY DEF LifecycleInv, PassedInv
  <2>2. code = 0 => passed /\ runErr = "none"
    BY <2>1 DEF CodeByError
  <2>3. code = 1 => runErr = "none" /\ ~passed
    BY <2>1 DEF CodeByError
  <2>4. runErr = "none" /\ ~passed =>
            \E a \in assertions : ~a[3] /\ a[2] # "completed"
    BY <2>1 DEF Passes, LifecycleInv, ReturnInv, CompletedNeedsError, Ending
  <2>5. QED BY <2>1, <2>2, <2>3, <2>4
<1>2. QED BY LifecycleInvariant, <1>1, PTL

\* An interrupt before the exit was awaited leaves an error or a failed
\* assertion behind, so that the process does not report success.
THEOREM InterruptFails == SafeSpec => []InterruptNeverPasses
<1>1. LifecycleInv => InterruptNeverPasses
  <2> SUFFICES ASSUME LifecycleInv, pc = "done", interrupted = "early"
      PROVE code # 0
    BY DEF InterruptNeverPasses
  <2>1. /\ code = CodeByError(runErr) /\ passed = Passes(assertions)
        /\ runErr # "none" \/ SomethingFailed
    BY DEF LifecycleInv, PassedInv, InterruptInv, Ending
  <2>2. SomethingFailed => ~passed
    BY <2>1 DEF SomethingFailed, Passes
  <2>3. QED BY <2>1, <2>2 DEF CodeByError
<1>2. QED BY LifecycleInvariant, <1>1, PTL

\* No way leads out of run with the readiness goroutine still probing.
THEOREM ProbingEnds == SafeSpec => []NoProbingAfterReturn
<1>1. LifecycleInv => NoProbingAfterReturn
  BY DEF LifecycleInv, WithdrawalInv, NoProbingAfterReturn, WithdrawLive, Ending
<1>2. QED BY LifecycleInvariant, <1>1, PTL

\* waitWithdrawn reports a withdrawal only while its own context is alive.
THEOREM WithdrawalTimely == SafeSpec => WithdrawalInTime
<1>1. [Next]_vars =>
        [withdrawal' = "withdrawn" /\ withdrawal # "withdrawn"
         => WithdrawLive]_vars
  <2> SUFFICES ASSUME [Next]_vars, withdrawal' = "withdrawn",
                      withdrawal # "withdrawn"
      PROVE WithdrawLive
    OBVIOUS
  <2>1. Running \/ Closing => withdrawal' \in {withdrawal, "probing"}
    BY InspectStartupShape
    DEF Running, Startup, EnsureImage, StartReceiver, Create, Start, HostPorts,
        CheckReady, Load, PrepareTraffic, PrepareStream, OpenStream,
        StartTraffic, WaitStarted, ShutdownAfter, Inspect, StopAdmission,
        StopExited, Signaling, RunPreStop, GiveUpSignal, RequestSignal,
        ConfirmSignal, SignalFails, Shutdown, StartPostSignal,
        PostSignalStarted, ArmStreams, WaitExit, CutTraffic, CollectTraffic,
        InspectExhausted, CollectPost, Summing, SummarizeTelemetry,
        CloseStreams, AwaitWithdrawal, EvaluateAssertions, Closing, Deferred,
        CollectEvidence, Cleanup, Report, still, beside
  <2>2. Outside \/ UNCHANGED vars => UNCHANGED withdrawal
    BY DEF Outside, ContainerExits, Deliver, Interrupt, BesideWorld, vars,
           still, beside
  <2>3. Beside => UNCHANGED withdrawal \/ WithdrawalError \/ WithdrawalAnswer
                  \/ WithdrawalPause
    BY DEF Beside, Traffic, RequestBegins, RequestSettles, RequestDropped,
           PostMoves, Withdrawal, StreamEnds, StreamCut, Expire,
           BesideTraffic, beside
  <2>4. WithdrawalError \/ WithdrawalAnswer \/ WithdrawalPause => WithdrawLive
    BY DEF WithdrawalError, ErrorCounts, WithdrawalAnswer, WithdrawalPause
  <2>5. QED BY <2>1, <2>2, <2>3, <2>4, NextParts DEF Running
<1>2. QED BY <1>1, PTL DEF SafeSpec, WithdrawalInTime
==============================================================================
