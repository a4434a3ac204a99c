------------------------------- MODULE Receiver -------------------------------
(***************************************************************************)
(* The OTLP receiver of internal/telemetry and summarizeTelemetry of the   *)
(* verifier, which waits on it.  Every export of the application is        *)
(* handled by a goroutine of its own: it stamps the arrival, records under *)
(* the mutex and then signals the waiter over a channel with one slot.     *)
(*                                                                         *)
(* A span is named by the request it belongs to, so that a request has one *)
(* span; an export may repeat a span, as a retry does.  Time is the order  *)
(* of the events that the code stamps.                                     *)
(***************************************************************************)
EXTENDS Naturals, FiniteSets

CONSTANTS
    Requests,  \* the requests with a trace correlation
    Exports,   \* the export requests the application may send
    MinSpans,  \* telemetry.traces.minimum_correlated_spans
    MinPoints  \* telemetry.metrics.minimum_data_points, one point per export

ASSUME ReceiverAssumption ==
    /\ IsFiniteSet(Requests) /\ IsFiniteSet(Exports)
    /\ MinSpans \in Nat \ {0} /\ MinPoints \in Nat \ {0}

VARIABLES
    clock,       \* the stamps given so far
    handler,     \* each export: "unsent", "arrived", "notifying" or "answered"
    payload,     \* what it carries: a set of spans, or Metrics
    receivedAt,  \* the stamp of its arrival
    matched,     \* Receiver.matched: a span's stamp, 0 if there is none
    observed,    \* Receiver.metricObservations, by export
    updates,     \* the slot of the updates channel is full
    inflight,    \* the confirmed in-flight requests
    signalAt,    \* signalConfirmedAt
    completedAt, \* when each request got its result
    results,     \* the requests with a result when waitTraffic was over
    caller,      \* where the verifier is
    wait,        \* where it is in Receiver.wait: "check", "checked" or "select"
    satisfied,   \* the waits that ended because there was enough
    spans,       \* report.Telemetry.CorrelatedSpans
    points       \* report.Telemetry.Metrics.DataPoints

exporter == <<handler, payload, receivedAt>>
receiver == <<matched, observed, updates>>
traffic == <<inflight, signalAt, completedAt, results>>
verifier == <<caller, wait, satisfied, spans, points>>
vars == <<clock, exporter, receiver, traffic, verifier>>

Metrics == {"metrics"}

\* An export without a span or data point that counts leaves no trace here.
Payloads == (SUBSET Requests \ {{}}) \cup {Metrics}

\* The receiver is open; nothing that the report is made from comes later.
Open == caller \notin {"summarized", "failed"}

Init ==
    /\ clock = 0
    /\ handler = [e \in Exports |-> "unsent"]
    /\ payload = [e \in Exports |-> {}]
    /\ receivedAt = [e \in Exports |-> 0]
    /\ matched = [r \in Requests |-> 0] /\ observed = {} /\ updates = FALSE
    /\ inflight = {} /\ signalAt = 0 /\ results = {}
    /\ completedAt = [r \in Requests |-> 0]
    /\ caller = "signaling" /\ wait = "check" /\ satisfied = {}
    /\ spans = 0 /\ points = 0

Tick == clock' = clock + 1

------------------------------------------------------------------------------
\* The handlers

\* An export passes the checks of handle and readPayload; it is stamped.
Arrive(e) ==
    /\ handler[e] = "unsent"
    /\ Open
    /\ \E p \in Payloads : payload' = [payload EXCEPT ![e] = p]
    /\ Tick
    /\ receivedAt' = [receivedAt EXCEPT ![e] = clock']
    /\ handler' = [handler EXCEPT ![e] = "arrived"]
    /\ UNCHANGED <<receiver, traffic, verifier>>

\* Mutant: the span is stamped when it is recorded.
StampAtRecord(e) == clock

\* spans[spanID] = receivedAt
Stamp(e) == receivedAt[e]

\* Mutant: a repeated span is taken for a new one.
AddedAgain(e) == payload[e]

\* the spans that are no duplicates
Added(e) == {r \in payload[e] : matched[r] = 0}

RecordTraces(e) ==
    /\ handler[e] = "arrived"
    /\ payload[e] # Metrics
    /\ matched' = [r \in Requests |-> IF r \in Added(e) THEN Stamp(e) ELSE matched[r]]
    /\ handler' = [handler EXCEPT ![e] =
                      IF Added(e) = {} THEN "answered" ELSE "notifying"]
    /\ UNCHANGED <<clock, payload, receivedAt, observed, updates, traffic, verifier>>

RecordMetrics(e) ==
    /\ handler[e] = "arrived"
    /\ payload[e] = Metrics
    /\ observed' = observed \cup {e}
    /\ handler' = [handler EXCEPT ![e] = "notifying"]
    /\ UNCHANGED <<clock, payload, receivedAt, matched, updates, traffic, verifier>>

\* Mutant: the channel has no slot, and the signal is lost if nobody waits.
SlotUnbuffered == wait = "select"

\* a send to the channel, or the default case when its slot is full
Slot == TRUE

Notify(e) ==
    /\ handler[e] = "notifying"
    /\ updates' = Slot
    /\ handler' = [handler EXCEPT ![e] = "answered"]
    /\ UNCHANGED <<clock, payload, receivedAt, matched, observed, traffic, verifier>>

------------------------------------------------------------------------------
\* The traffic and the user

\* signal delivery is confirmed, with some requests still under way
ConfirmSignal ==
    /\ caller = "signaling"
    /\ inflight' \in SUBSET {r \in Requests : completedAt[r] = 0}
    /\ Tick /\ signalAt' = clock'
    /\ caller' = "draining"
    /\ UNCHANGED <<exporter, receiver, completedAt, results, wait,
                   satisfied, spans, points>>

Complete(r) ==
    /\ r \in inflight
    /\ Open
    /\ completedAt[r] = 0
    /\ Tick
    /\ completedAt' = [completedAt EXCEPT ![r] = clock']
    /\ UNCHANGED <<exporter, receiver, inflight, signalAt, results, verifier>>

\* waitTraffic is over; without in-flight requests no span is waited for
CollectResults ==
    /\ caller = "draining"
    /\ results' = {r \in inflight : completedAt[r] # 0}
    /\ caller' = IF inflight = {} THEN "metrics" ELSE "traces"
    /\ UNCHANGED <<clock, exporter, receiver, inflight, signalAt, completedAt,
                   wait, satisfied, spans, points>>

------------------------------------------------------------------------------
\* summarizeTelemetry

\* Mutant: spans of any request count.
EligibleAll == Requests

\* the requests whose spans count
Eligible == inflight

\* Receiver.Snapshot(eligible, after), spans and metric data points
SpansAfter(after) ==
    Cardinality({r \in Eligible : matched[r] # 0 /\ matched[r] >= after})
PointsAfter(after) == Cardinality({e \in observed : receivedAt[e] >= after})

\* Mutant: metrics count as soon as the signal is confirmed.
BoundaryAtSignal == signalAt

\* completedInflightBoundary
MetricBoundary ==
    LET stamps == {signalAt} \cup {completedAt[r] : r \in results} IN
    CHOOSE s \in stamps : \A t \in stamps : t <= s

\* Mutant: the report counts from the boundary of the metrics.
ReportBoundaryLate == MetricBoundary

\* the boundary of the snapshot that the report takes its spans from
ReportBoundary == signalAt

Enough ==
    \/ caller = "traces" /\ SpansAfter(signalAt) >= MinSpans
    \/ caller = "metrics" /\ PointsAfter(MetricBoundary) >= MinPoints

\* what follows when a wait is over
Proceed == caller' = IF caller = "traces" THEN "metrics" ELSE "report"

Waiting == caller \in {"traces", "metrics"}

\* current(), under the mutex
Check ==
    /\ Waiting /\ wait = "check"
    /\ \/ Enough /\ Proceed /\ satisfied' = satisfied \cup {caller} /\ UNCHANGED wait
       \/ ~Enough /\ wait' = "checked" /\ UNCHANGED <<caller, satisfied>>
    /\ UNCHANGED <<clock, exporter, receiver, traffic, spans, points>>

EnterSelect ==
    /\ Waiting /\ wait = "checked"
    /\ wait' = "select"
    /\ UNCHANGED <<clock, exporter, receiver, traffic, caller,
                   satisfied, spans, points>>

\* case <-r.updates
Wake ==
    /\ Waiting /\ wait = "select"
    /\ updates
    /\ updates' = FALSE
    /\ wait' = "check"
    /\ UNCHANGED <<clock, exporter, matched, observed, traffic, caller, satisfied, spans, points>>

\* case <-waitCtx.Done(): the flush timeout, or an interrupt, which fails it
GiveUp ==
    /\ Waiting /\ wait = "select"
    /\ wait' = "check"
    /\ Proceed \/ caller' = "failed"
    /\ UNCHANGED <<clock, exporter, receiver, traffic, satisfied,
                   spans, points>>

\* the snapshots that the report and its two assertions are made from
Summarize ==
    /\ caller = "report"
    /\ spans' = SpansAfter(ReportBoundary)
    /\ points' = PointsAfter(MetricBoundary)
    /\ caller' = "summarized"
    /\ UNCHANGED <<clock, exporter, receiver, traffic, wait, satisfied>>

\* the deferred Receiver.Close follows; handlers that are under way go on
Closed == caller \in {"summarized", "failed"} /\ UNCHANGED vars

Handler(e) == RecordTraces(e) \/ RecordMetrics(e) \/ Notify(e)

Next ==
    \/ \E e \in Exports : Arrive(e) \/ Handler(e)
    \/ ConfirmSignal \/ CollectResults
    \/ \E r \in Requests : Complete(r)
    \/ Check \/ EnterSelect \/ Wake \/ GiveUp
    \/ Summarize \/ Closed

\* Goroutines are scheduled; no timer is assumed to fire.
Fairness ==
    /\ \A e \in Exports : WF_vars(Handler(e))
    /\ WF_vars(Check \/ EnterSelect \/ Wake)

Spec == Init /\ [][Next]_vars /\ Fairness

------------------------------------------------------------------------------
\* Properties

\* The types of the variables; a span's stamp is the arrival of its export.
TypeOK ==
    /\ handler \in [Exports -> {"unsent", "arrived", "notifying", "answered"}]
    /\ \A r \in Requests : matched[r] # 0 =>
           \E e \in Exports : r \in payload[e] /\ receivedAt[e] = matched[r]
    /\ observed \subseteq {e \in Exports : payload[e] = Metrics}
    /\ updates \in BOOLEAN
    /\ results \subseteq inflight /\ inflight \subseteq Requests
    /\ caller \in {"signaling", "draining", "traces", "metrics", "report",
                   "summarized", "failed"}
    /\ wait \in {"check", "checked", "select"}
    /\ satisfied \subseteq {"traces", "metrics"}
    /\ spans \in 0..Cardinality(Requests) /\ points \in 0..Cardinality(Exports)

Reported == caller = "summarized"

(***************************************************************************)
(* telemetry.md: startup spans, unrelated work and earlier exports         *)
(* cannot satisfy telemetry.spans_exported.  If it passes, the minimum     *)
(* number of spans, here one per request, belong to requests that were in  *)
(* flight at the signal and to exports that arrived after its confirmation.*)
(***************************************************************************)
SpansPassIsEarned ==
    Reported /\ spans >= MinSpans =>
        Cardinality({r \in inflight : \E e \in Exports :
            r \in payload[e] /\ receivedAt[e] > signalAt}) >= MinSpans

(***************************************************************************)
(* telemetry.md: data points only count when their export arrives after    *)
(* every request that was in flight has completed.  The code goes by the   *)
(* results: what passes arrived after the signal was confirmed and after   *)
(* every in-flight request that has a result had completed.                *)
(***************************************************************************)
PointsPassIsFlush ==
    Reported /\ points >= MinPoints =>
        Cardinality({e \in observed :
            /\ receivedAt[e] > signalAt
            /\ \A r \in results : receivedAt[e] > completedAt[r]}) >= MinPoints

(***************************************************************************)
(* telemetry.md: startup spans and earlier exports cannot satisfy          *)
(* telemetry.spans_exported.  A span that was recorded before the signal   *)
(* was confirmed is never counted by the report, even if a retry repeats   *)
(* it after the confirmation, any number of times.                         *)
(***************************************************************************)
StartupSpansNeverCount ==
    \A r \in Requests :
        [](caller = "signaling" /\ matched[r] # 0
           => [](Reported => matched[r] < signalAt))

(***************************************************************************)
(* A wait that ended because enough had arrived is not contradicted by the *)
(* report, whose numbers come from later snapshots.                        *)
(***************************************************************************)
SatisfiedWaitPasses ==
    Reported =>
        /\ "traces" \in satisfied => spans >= MinSpans
        /\ "metrics" \in satisfied => points >= MinPoints

(***************************************************************************)
(* No wakeup is lost between the check and the select, or in the one slot  *)
(* that all exports and both waits share: once enough was recorded, the    *)
(* wait ends without its timeout.                                          *)
(***************************************************************************)
EnoughEndsWait ==
    /\ caller = "traces" /\ Enough ~> caller # "traces"
    /\ caller = "metrics" /\ Enough ~> caller # "metrics"
==============================================================================
