---------------------------- MODULE CommandProbe ----------------------------
(***************************************************************************)
(* The command driver of internal/probe: each request is a process of the  *)
(* user's that reports on its stdout when its work is active and how it    *)
(* ended.  Unlike a request of Traffic, a process that was launched is not *)
(* yet active, may be refused when it says so, and leaves a result behind  *)
(* even if it never was.                                                   *)
(*                                                                         *)
(* What a process wrote may be read at any later time.  A malformed line   *)
(* stands for every error of the protocol but those of order.              *)
(***************************************************************************)
EXTENDS Naturals, FiniteSets

CONSTANTS
    Count,       \* Spec.Count
    Concurrency, \* Spec.Concurrency
    Orphans      \* may a process leave a child behind that keeps its stdout open?

ASSUME ProbeAssumption ==
    /\ Count \in Nat \ {0}
    /\ Concurrency \in 1..Count
    /\ Orphans \in BOOLEAN

Ids == 1..Count
Workers == 1..Concurrency

VARIABLES
    next,      \* the id at the head of the jobs channel
    pc,        \* what each worker does
    job,       \* the id each worker works on
    stopped, active, results, count, done, \* as in Traffic
    canceled,  \* the context of the phase is canceled
    timedOut,  \* the ids whose request timeout has passed
    protocol,  \* protocolState: "silent", "active", "ok", "failed" or "error"
    exit       \* the processes' exits: "none", "zero", "nonzero" or "killed"

pool == <<next, pc, job>>
run == <<stopped, active, results, count, done>>
process == <<canceled, timedOut, protocol, exit>>
vars == <<pool, run, process>>

NoResult == "no_result"
Recorded == {id \in Ids : results[id] # NoResult}

\* every process was launched by a worker, and is watched by it to its end
Watching(w, id) == pc[w] \in {"reading", "waiting"} /\ job[w] = id

Init ==
    /\ next = 1
    /\ pc = [w \in Workers |-> "idle"]
    /\ job = [w \in Workers |-> 0]
    /\ stopped = FALSE /\ active = {} /\ count = 0 /\ done = FALSE
    /\ results = [id \in Ids |-> NoResult]
    /\ canceled = FALSE /\ timedOut = {}
    /\ protocol = [id \in Ids |-> "silent"]
    /\ exit = [id \in Ids |-> "none"]

------------------------------------------------------------------------------
\* The workers

\* Mutant: the channel yields one id too many.
HasJobExtra == next <= Count + 1

\* the channel still holds an id
HasJob == next <= Count

Take(w) ==
    /\ pc[w] = "idle"
    /\ HasJob
    /\ next' = next + 1
    /\ job' = [job EXCEPT ![w] = next]
    /\ pc' = [pc EXCEPT ![w] = "taken"]
    /\ UNCHANGED <<run, process>>

Leave(w) ==
    /\ pc[w] = "idle"
    /\ next > Count
    /\ pc' = [pc EXCEPT ![w] = "left"]
    /\ UNCHANGED <<next, job, run, process>>

\* canLaunch() is true; a pipe or the process itself may not come about, and
\* the process does not if its context is over
Launch(w) ==
    /\ pc[w] = "taken"
    /\ ~stopped
    /\ \/ /\ ~canceled
          /\ pc' = [pc EXCEPT ![w] = "reading"]
          /\ UNCHANGED results
       \/ /\ results' = [results EXCEPT ![job[w]] = "invalid"]
          /\ pc' = [pc EXCEPT ![w] = "idle"]
    /\ UNCHANGED <<next, job, stopped, active, count, done, process>>

\* canLaunch() is false
Skip(w) ==
    /\ pc[w] = "taken"
    /\ stopped
    /\ pc' = [pc EXCEPT ![w] = "idle"]
    /\ UNCHANGED <<next, job, run, process>>

\* Mutant: activate forgets to look at stopped.
ActivatesAlways(id) == id \notin active

\* activate(id) is true
Activates(id) == ~stopped /\ id \notin active

\* readProtocol stops at the error; execute then cancels and waits.
ProtocolError(w) ==
    /\ protocol' = [protocol EXCEPT ![job[w]] = "error"]
    /\ pc' = [pc EXCEPT ![w] = "waiting"]
    /\ UNCHANGED <<active, count>>

\* an active event: the first thing a process may say, and only once
ReadActive(w) ==
    /\ pc[w] = "reading"
    /\ IF protocol[job[w]] = "silent" /\ Activates(job[w])
       THEN /\ protocol' = [protocol EXCEPT ![job[w]] = "active"]
            /\ active' = active \cup {job[w]}
            /\ count' = count + 1
            /\ UNCHANGED pc
       ELSE ProtocolError(w)
    /\ UNCHANGED <<next, job, stopped, results, done, canceled, timedOut, exit>>

\* a result event, with success true or false: once, and after active
ReadResult(w) ==
    /\ pc[w] = "reading"
    /\ IF protocol[job[w]] = "active"
       THEN /\ \E r \in {"ok", "failed"} :
                   protocol' = [protocol EXCEPT ![job[w]] = r]
            /\ UNCHANGED <<pc, active, count>>
       ELSE ProtocolError(w)
    /\ UNCHANGED <<next, job, stopped, results, done, canceled, timedOut, exit>>

ReadMalformed(w) ==
    /\ pc[w] = "reading"
    /\ ProtocolError(w)
    /\ UNCHANGED <<next, job, stopped, results, done, canceled, timedOut, exit>>

\* stdout ends: every process that has it open closed it or is gone
ReadEnd(w) ==
    /\ pc[w] = "reading"
    /\ pc' = [pc EXCEPT ![w] = "waiting"]
    /\ UNCHANGED <<next, job, run, process>>

\* Mutant: the exit status is not looked at.
VerdictWithoutStatus(id) ==
    CASE id \in timedOut           -> "timeout"
      [] id \notin timedOut /\ canceled -> "canceled"
      [] id \notin timedOut /\ ~canceled /\ protocol[id] \notin {"ok", "failed"} -> "invalid"
      [] OTHER -> IF protocol[id] = "ok" THEN "accepted" ELSE "rejected"

\* What execute makes of a process that ended: "rejected" is the error kind
\* probe_result, "invalid" any other one but timeout and canceled.
Verdict(id) ==
    IF id \in timedOut THEN "timeout"
    ELSE IF canceled THEN "canceled"
    ELSE IF protocol[id] \notin {"ok", "failed"} \/ exit[id] # "zero" THEN "invalid"
    ELSE IF protocol[id] = "ok" THEN "accepted"
    ELSE "rejected"

\* Mutant: only a process that became active leaves a result.
RecordActive(id) ==
    IF id \in active THEN [results EXCEPT ![id] = Verdict(id)] ELSE results

\* finish: r.results[id] = result
Record(id) == [results EXCEPT ![id] = Verdict(id)]

\* command.Wait returned
Finish(w) ==
    /\ pc[w] = "waiting"
    /\ exit[job[w]] # "none"
    /\ results' = Record(job[w])
    /\ active' = active \ {job[w]}
    /\ pc' = [pc EXCEPT ![w] = "idle"]
    /\ UNCHANGED <<next, job, stopped, count, done, process>>

CloseDone ==
    /\ ~done
    /\ \A w \in Workers : pc[w] = "left"
    /\ done' = TRUE
    /\ UNCHANGED <<pool, stopped, active, results, count, process>>

------------------------------------------------------------------------------
\* The processes and the clock

\* the process ends by itself
Exit(w) ==
    /\ pc[w] \in {"reading", "waiting"}
    /\ exit[job[w]] = "none"
    /\ \E e \in {"zero", "nonzero"} : exit' = [exit EXCEPT ![job[w]] = e]
    /\ UNCHANGED <<pool, run, canceled, timedOut, protocol>>

\* the process is killed: its context is over, or execute canceled it
Kill(w) ==
    /\ pc[w] \in {"reading", "waiting"}
    /\ exit[job[w]] = "none"
    /\ canceled \/ job[w] \in timedOut \/ protocol[job[w]] = "error"
    /\ exit' = [exit EXCEPT ![job[w]] = "killed"]
    /\ UNCHANGED <<pool, run, canceled, timedOut, protocol>>

\* Spec.Timeout is over before anything else ended the process's context
TimeOut(w) ==
    /\ pc[w] \in {"reading", "waiting"}
    /\ job[w] \notin timedOut
    /\ ~canceled
    /\ protocol[job[w]] # "error"
    /\ timedOut' = timedOut \cup {job[w]}
    /\ UNCHANGED <<pool, run, canceled, protocol, exit>>

Cancel ==
    /\ ~canceled
    /\ canceled' = TRUE
    /\ UNCHANGED <<pool, run, timedOut, protocol, exit>>

------------------------------------------------------------------------------
\* lifecycle.run

StopAndSnapshot ==
    /\ ~stopped
    /\ count > 0
    /\ stopped' = TRUE
    /\ UNCHANGED <<pool, active, results, count, done, process>>

Terminated == done /\ UNCHANGED vars

Worker(w) ==
    \/ Take(w) \/ Leave(w) \/ Launch(w) \/ Skip(w)
    \/ ReadActive(w) \/ ReadResult(w) \/ ReadMalformed(w) \/ ReadEnd(w)
    \/ Finish(w)

Next ==
    \/ \E w \in Workers : Worker(w) \/ Exit(w) \/ Kill(w) \/ TimeOut(w)
    \/ CloseDone
    \/ Cancel
    \/ StopAndSnapshot
    \/ Terminated

(***************************************************************************)
(* Goroutines are scheduled, request timeouts fire and kill the process.   *)
(* Nothing is assumed of the processes: one may say nothing and never end. *)
(* The stdout of a dead process ends if no child of its holds it open.     *)
(***************************************************************************)
Fairness ==
    /\ \A w \in Workers :
           /\ WF_vars(Take(w) \/ Leave(w) \/ Launch(w) \/ Skip(w) \/ Finish(w))
           /\ ~Orphans => WF_vars(ReadEnd(w) /\ exit[job[w]] # "none")
           /\ WF_vars(TimeOut(w))
           /\ WF_vars(Kill(w))
    /\ WF_vars(CloseDone)

SafeSpec == Init /\ [][Next]_vars
Spec == SafeSpec /\ Fairness

------------------------------------------------------------------------------
\* Properties

Begun == {id \in Ids : protocol[id] \in {"active", "ok", "failed"}}

\* The types of the variables.
TypeOK ==
    /\ next \in 1..Count + 1
    /\ pc \in [Workers -> {"idle", "taken", "reading", "waiting", "left"}]
    /\ job \in [Workers -> 0..Count]
    /\ {stopped, done, canceled} \subseteq BOOLEAN
    /\ active \subseteq Ids /\ timedOut \subseteq Ids
    /\ results \in [Ids -> {NoResult, "invalid", "timeout", "canceled",
                            "accepted", "rejected"}]
    /\ count \in 0..Count
    /\ protocol \in [Ids -> {"silent", "active", "ok", "failed", "error"}]
    /\ exit \in [Ids -> {"none", "zero", "nonzero", "killed"}]

(***************************************************************************)
(* command-probes.md: a non-zero exit, a protocol failure or a timeout is  *)
(* invalid evidence and satisfies neither post-signal policy.  An accepted *)
(* or rejected result comes from a process that said active, then result,  *)
(* and exited with status zero.                                            *)
(***************************************************************************)
EvidenceIsClean ==
    \A id \in Ids :
        results[id] \in {"accepted", "rejected"} =>
            /\ protocol[id] = IF results[id] = "accepted" THEN "ok" ELSE "failed"
            /\ exit[id] = "zero"

(***************************************************************************)
(* No process gets lost between two workers: once all workers are gone,    *)
(* nothing is active, and every process that was launched has a result,    *)
(* also the ones that were refused because they became active too late.    *)
(* Unless admission was stopped every request has one, also those whose    *)
(* process could not be started.                                           *)
(***************************************************************************)
LaunchedAreRecorded ==
    done =>
        /\ active = {}
        /\ {id \in Ids : exit[id] # "none"} \subseteq Recorded
        /\ ~stopped => Recorded = Ids

(***************************************************************************)
(* configuration.md, traffic.request_timeout: per-work-item timeout.       *)
(* Every work item ends, so that every phase ends.                         *)
(***************************************************************************)
WorkersLeave == <>done

(***************************************************************************)
(* The command driver keeps the contract of trafficExecution.  A launched  *)
(* process is queued until it says active, and may settle without it.      *)
(***************************************************************************)
StatusOf(id) ==
    IF id \in active THEN "active"
    ELSE IF results[id] # NoResult THEN "settled"
    ELSE IF id >= next \/ (\E w \in Workers : pc[w] = "taken" /\ job[w] = id)
                       \/ (\E w \in Workers : Watching(w, id)) THEN "queued"
    ELSE "dropped"

Execution == INSTANCE TrafficExecution WITH
    Requests <- Ids,
    SettlesUnstarted <- TRUE,
    status <- [id \in Ids |-> StatusOf(id)],
    admitting <- ~stopped

ImplementsExecution == Execution!Spec
=============================================================================
