------------------------------- MODULE Traffic -------------------------------
(***************************************************************************)
(* The request pool of internal/traffic (Run) and internal/grpcprobe       *)
(* (UnaryRun), whose control is the same, together with the part of        *)
(* lifecycle.run that drives it.  Workers take ids from a channel that is  *)
(* filled and closed before they start; begin, finish and the snapshots    *)
(* run under one mutex.  The initial phase is stopped and snapshotted      *)
(* around the termination signal; the post-signal phase only runs to its   *)
(* end.                                                                    *)
(***************************************************************************)
EXTENDS Naturals, FiniteSets

CONSTANTS
    Count,       \* Spec.Count, the number of requests of the phase
    Concurrency, \* Spec.Concurrency, the number of workers
    Driver,      \* traffic.driver: "http" or "grpc"
    Phases,      \* the phases the pool may serve: "initial", "post_signal"
    MaxFailed    \* assertions.max_failed_requests

\* config.Validate: count >= 1, 1 <= concurrency <= count
ASSUME TrafficAssumption ==
    /\ Count \in Nat \ {0}
    /\ Concurrency \in 1..Count
    /\ Driver \in {"http", "grpc"}
    /\ Phases \subseteq {"initial", "post_signal"}
    /\ MaxFailed \in Nat

Ids == 1..Count
Workers == 1..Concurrency

(***************************************************************************)
(* How a request ends on the wire.  "cut": the HTTP status arrived and the *)
(* body broke off.  "unreachable": no answer, with the request's context   *)
(* still live.  "expired", "canceled": no answer before request_timeout,   *)
(* or before the phase's context was canceled.                             *)
(***************************************************************************)
Endings ==
    {"accepted", "refused", "unreachable", "expired", "canceled"}
        \cup IF Driver = "http" THEN {"cut"} ELSE {}

NoResult == "no_result"

VARIABLES
    phase,       \* the phase this pool serves, chosen once
    next,        \* the id at the head of the jobs channel, Count + 1 when drained
    pc,          \* what each worker is doing
    job,         \* the id each worker received last (0: none yet)
    stopped,     \* Run.stopped
    active,      \* Run.active
    results,     \* Run.results: how each recorded request ended
    count,       \* Run.count
    done,        \* the done channel is closed
    interrupted, \* the context of the whole verification is canceled
    canceled,    \* the context of this phase is canceled
    caller,      \* where lifecycle.run is with this phase
    waited,      \* what WaitStarted returned
    before,      \* the snapshot taken when admission stopped
    confirmed,   \* the snapshot taken when signal delivery was confirmed
    collected    \* the results lifecycle.run reads at the end

pool == <<next, pc, job, stopped, active, results, count, done>>
contexts == <<interrupted, canceled>>
snapshots == <<before, confirmed>>
vars == <<phase, pool, contexts, caller, waited, snapshots, collected>>

Recorded == {id \in Ids : results[id] # NoResult}
Begun == active \cup Recorded

Init ==
    /\ phase \in Phases
    /\ next = 1
    /\ pc = [w \in Workers |-> "idle"]
    /\ job = [w \in Workers |-> 0]
    /\ stopped = FALSE
    /\ active = {}
    /\ results = [id \in Ids |-> NoResult]
    /\ count = 0
    /\ done = FALSE
    /\ interrupted = FALSE
    /\ canceled = FALSE
    /\ caller = "starting"
    /\ waited = "pending"
    /\ before = {}
    /\ confirmed = {}
    /\ collected = [id \in Ids |-> NoResult]

------------------------------------------------------------------------------
\* The workers

Idle(w) == [pc EXCEPT ![w] = "idle"]

\* Mutants: the channel yields one id too many, or one too few.
HasJobExtra == next <= Count + 1
HasJobShort == next < Count

\* the channel still holds an id
HasJob == next <= Count

\* Mutant: begin forgets to look at stopped.
AdmitsAlways == TRUE

\* begin: nothing is admitted once stopped is set
Admits == ~stopped

\* Mutant: done is closed as soon as the last id has been received.
AllReceived == next > Count

\* workers.Wait() has returned
AllLeft == \A w \in Workers : pc[w] = "left"

\* finish: r.results[id] = result
Record(id, e) == [results EXCEPT ![id] = e]

\* finish: delete(r.active, id)
Deactivate(id) == active \ {id}

\* for id := range jobs: receive the next id
Take(w) ==
    /\ pc[w] = "idle"
    /\ HasJob
    /\ next' = next + 1
    /\ job' = [job EXCEPT ![w] = next]
    /\ pc' = [pc EXCEPT ![w] = "taken"]
    /\ UNCHANGED <<phase, stopped, active, results, count, done, contexts,
                   caller, waited, snapshots, collected>>

\* the channel is closed and drained: the worker returns
Leave(w) ==
    /\ pc[w] = "idle"
    /\ next > Count
    /\ pc' = [pc EXCEPT ![w] = "left"]
    /\ UNCHANGED <<phase, next, job, stopped, active, results, count, done,
                   contexts, caller, waited, snapshots, collected>>

\* begin(id) returns true
Begin(w) ==
    /\ pc[w] = "taken"
    /\ Admits
    /\ active' = active \cup {job[w]}
    /\ count' = count + 1
    /\ pc' = [pc EXCEPT ![w] = "busy"]
    /\ UNCHANGED <<phase, next, job, stopped, results, done, contexts, caller,
                   waited, snapshots, collected>>

\* begin(id) returns false: the id is dropped
Skip(w) ==
    /\ pc[w] = "taken"
    /\ stopped
    /\ pc' = Idle(w)
    /\ UNCHANGED <<phase, next, job, stopped, active, results, count, done,
                   contexts, caller, waited, snapshots, collected>>

\* request(id) or invoke(id) returned, and finish(id, result) records it
Finish(w) ==
    /\ pc[w] = "busy"
    /\ \E e \in Endings :
        /\ e = "canceled" => canceled
        /\ results' = Record(job[w], e)
    /\ active' = Deactivate(job[w])
    /\ pc' = Idle(w)
    /\ UNCHANGED <<phase, next, job, stopped, count, done, contexts, caller,
                   waited, snapshots, collected>>

CloseDone ==
    /\ ~done
    /\ AllLeft
    /\ done' = TRUE
    /\ UNCHANGED <<phase, next, pc, job, stopped, active, results, count,
                   contexts, caller, waited, snapshots, collected>>

------------------------------------------------------------------------------
\* lifecycle.run, as far as it concerns this phase

\* Mutant: the done case does not look at the count again.
WaitAnswersNoRecheck ==
    (IF count > 0 THEN {"started"} ELSE {})
        \cup (IF done THEN {"finished_first"} ELSE {})
        \cup (IF interrupted THEN {"interrupted"} ELSE {})

\* The answers of the select in WaitStarted; any ready case may be taken.
WaitAnswers ==
    (IF count > 0 THEN {"started"} ELSE {})
        \cup (IF done /\ count = 0 THEN {"finished_first"} ELSE {})
        \cup (IF interrupted THEN {"interrupted"} ELSE {})

WaitStarted ==
    /\ caller = "starting"
    /\ waited' \in WaitAnswers
    /\ caller' = IF waited' = "started" THEN "running" ELSE "abandoned"
    /\ canceled' = (canceled \/ waited' # "started")
    /\ UNCHANGED <<phase, pool, interrupted, snapshots, collected>>

\* The container runs: admission stops before the termination signal.
StopAndSnapshot ==
    /\ phase = "initial"
    /\ caller = "running"
    /\ stopped' = TRUE
    /\ before' = active
    /\ caller' = "stopped"
    /\ UNCHANGED <<phase, next, pc, job, active, results, count, done,
                   contexts, waited, confirmed, collected>>

\* The container is found exited: one snapshot serves as the in-flight set.
StopExited ==
    /\ phase = "initial"
    /\ caller = "running"
    /\ stopped' = TRUE
    /\ before' = active
    /\ confirmed' = active
    /\ caller' = "draining"
    /\ UNCHANGED <<phase, next, pc, job, active, results, count, done,
                   contexts, waited, collected>>

\* Mutant: the in-flight set is the one taken before the signal.
SnapshotBefore == before

\* ActiveSnapshot
ActiveSnapshot == active

\* Signal returned: what is still active is the confirmed in-flight set.
ConfirmInflight ==
    /\ caller = "stopped"
    /\ confirmed' = ActiveSnapshot
    /\ caller' = "draining"
    /\ UNCHANGED <<phase, pool, contexts, waited, before, collected>>

\* The pre-stop hook used up the deadline: the phase is canceled unsignaled.
ConfirmExhausted ==
    /\ caller = "stopped"
    /\ confirmed' = ActiveSnapshot
    /\ canceled' = TRUE
    /\ caller' = "draining"
    /\ UNCHANGED <<phase, pool, interrupted, waited, before, collected>>

\* The container exited or its deadline passed; post-signal traffic is awaited.
AwaitPostSignal ==
    /\ phase = "post_signal"
    /\ caller = "running"
    /\ caller' = "draining"
    /\ UNCHANGED <<phase, pool, contexts, waited, snapshots, collected>>

\* waitTraffic, first select: request_timeout + 1s passed, or an interrupt
CutOff ==
    /\ caller = "draining"
    /\ canceled' = TRUE
    /\ caller' = "cutting"
    /\ UNCHANGED <<phase, pool, interrupted, waited, snapshots, collected>>

\* waitTraffic is over, because all workers left or its last second passed.
Collect ==
    /\ \/ caller = "draining" /\ done
       \/ caller = "cutting"
    /\ collected' = results
    /\ caller' = "collected"
    /\ UNCHANGED <<phase, pool, contexts, waited, snapshots>>

\* run returns early; its deferred cancel ends the phase.
Abandon ==
    /\ caller \in {"running", "stopped", "draining"}
    /\ canceled' = TRUE
    /\ caller' = "abandoned"
    /\ UNCHANGED <<phase, pool, interrupted, waited, snapshots, collected>>

\* SIGINT or SIGTERM reaches draincheck
Interrupt ==
    /\ ~interrupted
    /\ interrupted' = TRUE
    /\ canceled' = TRUE
    /\ UNCHANGED <<phase, pool, caller, waited, snapshots, collected>>

Terminated ==
    /\ done
    /\ caller \in {"collected", "abandoned"}
    /\ UNCHANGED vars

Worker(w) == Take(w) \/ Leave(w) \/ Begin(w) \/ Skip(w) \/ Finish(w)

Caller ==
    \/ WaitStarted
    \/ StopAndSnapshot \/ StopExited
    \/ ConfirmInflight \/ ConfirmExhausted
    \/ AwaitPostSignal
    \/ CutOff \/ Collect \/ Abandon

Next ==
    \/ \E w \in Workers : Worker(w)
    \/ CloseDone
    \/ Caller
    \/ Interrupt
    \/ Terminated

SafeSpec == Init /\ [][Next]_vars

(***************************************************************************)
(* Goroutines are scheduled, every request ends by its own timeout, and    *)
(* every wait of the caller has a timer.  Nobody has to interrupt.         *)
(***************************************************************************)
Fairness ==
    /\ \A w \in Workers : WF_vars(Worker(w))
    /\ WF_vars(CloseDone)
    /\ WF_vars(Caller)

Spec == SafeSpec /\ Fairness

------------------------------------------------------------------------------
\* summarizeTraffic, summarizePostSignalTraffic and the assertions on them

Completed == {id \in Ids : collected[id] # NoResult}
Successful == {id \in Ids : collected[id] = "accepted"}
Failed == Completed \ Successful

\* Mutant: an in-flight request without a result is not counted.
InflightFailed == {id \in confirmed : id \in Failed}

\* the confirmed requests without a successful result
InflightBad == {id \in confirmed : id \notin Successful}

\* traffic.failed_requests and traffic.inflight_complete
FailedRequestsPass == Cardinality(Failed) <= MaxFailed
InflightCompletePass == InflightBad = {}

\* The error kind that request and invoke report for a request that failed.
ErrorKind(e) ==
    CASE e = "refused"     -> IF Driver = "grpc" THEN "grpc_status" ELSE "http_status"
      [] e = "unreachable" -> IF Driver = "grpc" THEN "grpc_status" ELSE "transport"
      [] e = "expired"     -> "timeout"
      [] e = "canceled"    -> "canceled"
      [] e = "cut"         -> "response_body"

\* failures that are neither accepted nor rejected post-signal traffic
Invalid(e) == Driver = "grpc" /\ ErrorKind(e) # "grpc_status"

Rejected == {id \in Failed : ~Invalid(collected[id])}

AcceptPass == Completed = Ids /\ Successful = Ids

\* Mutant: only the requests that completed have to be rejected.
RejectPassIncomplete == Rejected = Completed

RejectPass == Completed = Ids /\ Rejected = Ids

\* traffic.post_signal_policy, for either policy that may be configured
PolicyPass(policy) == IF policy = "accept" THEN AcceptPass ELSE RejectPass
------------------------------------------------------------------------------
\* Properties

WorkerStates == {"idle", "taken", "busy", "left"}
CallerStates ==
    {"starting", "running", "stopped", "draining", "cutting", "collected",
     "abandoned"}

ResultsMap == [Ids -> Endings \cup {NoResult}]

FlagsOK ==
    /\ stopped \in BOOLEAN
    /\ done \in BOOLEAN
    /\ interrupted \in BOOLEAN
    /\ canceled \in BOOLEAN

DataOK ==
    /\ phase \in Phases
    /\ next \in 1..Count + 1
    /\ pc \in [Workers -> WorkerStates]
    /\ job \in [Workers -> 0..Count]
    /\ active \in SUBSET Ids
    /\ results \in ResultsMap
    /\ count \in Nat
    /\ caller \in CallerStates
    /\ waited \in {"pending", "started", "finished_first", "interrupted"}
    /\ before \in SUBSET Ids
    /\ confirmed \in SUBSET Ids
    /\ collected \in ResultsMap

\* The types of the variables; results and snapshots stay within the phase.
TypeOK == FlagsOK /\ DataOK

(***************************************************************************)
(* StartedCount never lies: report.Traffic.Started, read once after the    *)
(* stop, is the number of requests that are active or have a result, and   *)
(* no request is both.                                                     *)
(***************************************************************************)
StartedIsActivePlusRecorded ==
    /\ active \cap Recorded = {}
    /\ count = Cardinality(Begun)

(***************************************************************************)
(* The done channel means what waitTraffic takes it to mean: nothing is    *)
(* active any more, and unless admission was stopped every request has a   *)
(* result.                                                                 *)
(***************************************************************************)
DoneMeansSettled ==
    done => active = {} /\ (~stopped => Recorded = Ids)

\* Of n workers at most n requests are active at once.
AtMostConcurrency == Cardinality(active) <= Concurrency

(***************************************************************************)
(* WaitStarted cannot report that the traffic finished before a request    *)
(* started: lifecycle.run stops the pool only after WaitStarted, so the    *)
(* failed traffic.inflight_exercised of verify.go:388 never comes from an  *)
(* HTTP or gRPC phase.                                                     *)
(***************************************************************************)
WaitStartedFindsARequest == waited # "finished_first"

(***************************************************************************)
(* Once admission is stopped, no request starts: whatever races with       *)
(* StopAndSnapshot is either in its snapshot or never sent.                *)
(***************************************************************************)
NothingStartsAfterStop == [][stopped => Begun' = Begun]_vars

(***************************************************************************)
(* The confirmed in-flight set holds no request that is already answered:  *)
(* each of them really spans the delivery of the signal.                   *)
(***************************************************************************)
ConfirmedSpansSignal ==
    [][caller = "stopped" /\ caller' = "draining"
       => confirmed' \cap Recorded' = {}]_vars

(***************************************************************************)
(* A request that was under way when signal delivery was confirmed was     *)
(* under way when admission stopped, and if waitTraffic gave up on a       *)
(* request, that request is in the confirmed in-flight set: a lost answer  *)
(* is never hidden from traffic.inflight_complete.                         *)
(***************************************************************************)
UnansweredIsConfirmed ==
    phase = "initial" =>
        /\ confirmed \subseteq before
        /\ caller = "collected" => {id \in Begun : collected[id] = NoResult}
                                       \subseteq confirmed

(***************************************************************************)
(* If traffic.failed_requests (with no failure allowed) and                *)
(* traffic.inflight_complete both pass, then every request that was ever   *)
(* started got an accepted answer, including the ones that ended between   *)
(* the two snapshots and the ones still running when results were read.    *)
(***************************************************************************)
PassMeansAllServed ==
    /\ phase = "initial"
    /\ MaxFailed = 0
    /\ caller = "collected"
    /\ FailedRequestsPass
    /\ InflightCompletePass
    => \A id \in Begun : results[id] = "accepted"

(***************************************************************************)
(* A passed traffic.post_signal_policy is not contradicted later: every    *)
(* configured request had its result when the verdict was computed, and    *)
(* all agree with the policy.                                              *)
(***************************************************************************)
PolicyVerdictIsFinal ==
    \A policy \in {"accept", "reject"} :
        phase = "post_signal" /\ caller = "collected" /\ PolicyPass(policy)
        => \A id \in Ids : /\ results[id] # NoResult
                           /\ (results[id] = "accepted") = (policy = "accept")

(***************************************************************************)
(* post-signal-policy.md: with the gRPC driver another server status means *)
(* rejected, and transport failures are invalid evidence.                  *)
(***************************************************************************)
GRPCRejectMeansServerStatus ==
    phase = "post_signal" /\ Driver = "grpc" /\ caller = "collected" /\ RejectPass
    => \A id \in Ids : collected[id] = "refused"

(***************************************************************************)
(* Every request ends and every worker leaves, whether or not the phase is *)
(* stopped, interrupted or abandoned.                                      *)
(***************************************************************************)
WorkersLeave == <>done

(***************************************************************************)
(* Traffic implements the abstract traffic execution: an id is queued      *)
(* until a worker has begun or skipped it.                                 *)
(***************************************************************************)
Held == {id \in Ids : \E w \in Workers : pc[w] = "taken" /\ job[w] = id}

StatusOf(id) ==
    IF id \in active THEN "active"
    ELSE IF results[id] # NoResult THEN "settled"
    ELSE IF id >= next \/ id \in Held THEN "queued"
    ELSE "dropped"

Execution == INSTANCE TrafficExecution WITH
    Requests <- Ids,
    SettlesUnstarted <- FALSE,
    status <- [id \in Ids |-> StatusOf(id)],
    admitting <- ~stopped

ImplementsExecution == Execution!Spec
==============================================================================
