--------------------------- MODULE ReceiverProofs ----------------------------
(***************************************************************************)
(* What a passing telemetry assertion means, for any number of requests,   *)
(* exports and duplicates.  Every stamp is new when it is given, so that   *)
(* "not before" and "after" coincide; what the receiver holds only grows,  *)
(* and no boundary moves once it is used, so that no later snapshot shows  *)
(* less.                                                                   *)
(***************************************************************************)
EXTENDS Receiver, FiniteSetTheorems, WellFoundedInduction, TLAPS

------------------------------------------------------------------------------
\* The invariant

TypeInv ==
    /\ clock \in Nat
    /\ handler \in [Exports -> {"unsent", "arrived", "notifying", "answered"}]
    /\ payload \in [Exports -> Payloads \cup {{}}]
    /\ receivedAt \in [Exports -> Nat]
    /\ matched \in [Requests -> Nat]
    /\ observed \subseteq Exports /\ updates \in BOOLEAN
    /\ inflight \subseteq Requests /\ signalAt \in Nat
    /\ completedAt \in [Requests -> Nat] /\ results \subseteq inflight
    /\ caller \in {"signaling", "draining", "traces", "metrics", "report",
                   "summarized", "failed"}
    /\ wait \in {"check", "checked", "select"}
    /\ satisfied \subseteq {"traces", "metrics"}
    /\ spans \in 0..Cardinality(Requests) /\ points \in 0..Cardinality(Exports)
    /\ caller = "signaling" => results = {}

\* No stamp is given twice: what arrived after a stamp arrived strictly later.
StampInv ==
    /\ signalAt <= clock
    /\ \A r \in Requests : completedAt[r] <= clock
    /\ \A e \in Exports :
           /\ receivedAt[e] <= clock
           /\ handler[e] # "unsent" => /\ receivedAt[e] # 0
                                       /\ receivedAt[e] # signalAt
    /\ \A e \in Exports, r \in Requests :
           handler[e] # "unsent" => receivedAt[e] # completedAt[r]

\* Every stamp in the receiver is that of an export.
ExportInv ==
    /\ \A r \in Requests : matched[r] # 0 =>
           \E e \in Exports : /\ handler[e] # "unsent"
                              /\ r \in payload[e] /\ receivedAt[e] = matched[r]
    /\ \A e \in observed : handler[e] # "unsent" /\ payload[e] = Metrics

\* What ended a wait is still there.
WaitInv ==
    /\ \A r \in results : completedAt[r] # 0
    /\ "traces" \in satisfied =>
           /\ caller \in {"metrics", "report", "summarized", "failed"}
           /\ SpansAfter(signalAt) >= MinSpans
    /\ "metrics" \in satisfied =>
           /\ caller \in {"report", "summarized", "failed"}
           /\ PointsAfter(MetricBoundary) >= MinPoints

\* the requests and the exports that a passing report speaks of
Traced ==
    {r \in inflight : \E e \in Exports :
        r \in payload[e] /\ receivedAt[e] > signalAt}
Flushed ==
    {e \in observed : /\ receivedAt[e] > signalAt
                       /\ \A r \in results : receivedAt[e] > completedAt[r]}

ReportInv ==
    Reported =>
        /\ spans <= Cardinality(Traced)
        /\ points <= Cardinality(Flushed)
        /\ "traces" \in satisfied => spans >= MinSpans
        /\ "metrics" \in satisfied => points >= MinPoints

ReceiverInv == TypeInv /\ StampInv /\ ExportInv /\ WaitInv /\ ReportInv

------------------------------------------------------------------------------
\* The boundary of the metrics

\* The greatest of some bounded numbers: the mirror image of the least, which
\* the well-foundedness of < provides.
Less == {p \in Nat \X Nat : p[1] < p[2]}

LEMMA LessWellFounded == IsWellFoundedOn(Less, Nat)
  BY NatLessThanWellFounded DEF OpToRel, Less

\* Bounded numbers have a greatest.
LEMMA GreatestExists ==
    ASSUME NEW S \in SUBSET Nat, S # {}, NEW n \in Nat, \A s \in S : s <= n
    PROVE  \E m \in S : \A t \in S : t <= m
<1> DEFINE T == {k \in Nat : \E s \in S : k = n - s}
<1>1. T \subseteq Nat /\ T # {}
  <2>1. PICK s \in S : TRUE
    OBVIOUS
  <2>2. n - s \in T
    OBVIOUS
  <2>3. QED BY <2>2
<1>2. PICK x \in T : \A y \in T : <<y, x>> \notin Less
  <2> HIDE DEF T
  <2>1. QED BY <1>1, LessWellFounded, WFMin
<1>3. PICK m \in S : x = n - m
  BY <1>2
<1>4. ASSUME NEW t \in S PROVE t <= m
  <2>1. n - t \in T
    OBVIOUS
  <2>2. ~(n - t < x)
    BY <1>2, <2>1 DEF Less
  <2>3. QED BY <1>3, <2>2
<1>5. QED BY <1>4

Stamps == {signalAt} \cup {completedAt[r] : r \in results}

\* completedInflightBoundary is the signal or the last completion.
LEMMA BoundaryIsGreatest ==
    ASSUME TypeInv, StampInv
    PROVE  /\ MetricBoundary \in Stamps
           /\ \A t \in Stamps : t <= MetricBoundary
<1>1. Stamps \in SUBSET Nat /\ Stamps # {} /\ clock \in Nat
  BY DEF TypeInv, Stamps
<1>2. \A s \in Stamps : s <= clock
  BY DEF TypeInv, StampInv, Stamps
<1>3. \E m \in Stamps : \A t \in Stamps : t <= m
  BY <1>1, <1>2, GreatestExists
<1>4. MetricBoundary = CHOOSE m \in Stamps : \A t \in Stamps : t <= m
  BY DEF MetricBoundary, Stamps
<1>5. QED BY <1>3, <1>4

\* It does not move as long as its stamps do not.
LEMMA BoundaryStays ==
    ASSUME TypeInv, StampInv, TypeInv', StampInv', Stamps' = Stamps
    PROVE  MetricBoundary' = MetricBoundary
<1>1. /\ MetricBoundary \in Stamps
      /\ \A t \in Stamps : t <= MetricBoundary
  BY BoundaryIsGreatest
<1>2. /\ MetricBoundary' \in Stamps'
      /\ \A t \in Stamps' : t <= MetricBoundary'
  <2>1. (TypeInv /\ StampInv => /\ MetricBoundary \in Stamps
                                /\ \A t \in Stamps : t <= MetricBoundary)'
    BY BoundaryIsGreatest, PTL
  <2>2. QED BY <2>1
<1>3. Stamps \in SUBSET Nat
  BY DEF TypeInv, Stamps
<1>4. QED BY <1>1, <1>2, <1>3

------------------------------------------------------------------------------
\* Counting

\* A subset of a finite set does not count more.
LEMMA CountGrows ==
    ASSUME NEW T, IsFiniteSet(T), NEW S \in SUBSET T
    PROVE  /\ Cardinality(S) \in Nat /\ Cardinality(T) \in Nat
           /\ Cardinality(S) <= Cardinality(T)
<1>1. IsFiniteSet(S) /\ Cardinality(S) <= Cardinality(T)
  BY FS_Subset
<1>2. QED BY <1>1, FS_CardinalityType

SpanSet == {r \in inflight : matched[r] # 0 /\ matched[r] >= signalAt}
PointSet == {e \in observed : receivedAt[e] >= MetricBoundary}

\* The sets that the numbers are taken of are finite.
LEMMA Counts ==
    ASSUME TypeInv
    PROVE  /\ SpansAfter(signalAt) = Cardinality(SpanSet)
           /\ PointsAfter(MetricBoundary) = Cardinality(PointSet)
           /\ IsFiniteSet(SpanSet) /\ IsFiniteSet(PointSet)
           /\ IsFiniteSet(Traced) /\ IsFiniteSet(Flushed)
           /\ Cardinality(SpanSet) \in 0..Cardinality(Requests)
           /\ Cardinality(PointSet) \in 0..Cardinality(Exports)
           /\ Cardinality(Traced) \in Nat /\ Cardinality(Flushed) \in Nat
           /\ MinSpans \in Nat /\ MinPoints \in Nat
<1>1. /\ IsFiniteSet(Requests) /\ IsFiniteSet(Exports)
      /\ MinSpans \in Nat /\ MinPoints \in Nat
  BY ReceiverAssumption DEF ReceiverAssumption
<1>2. /\ SpanSet \in SUBSET Requests /\ Traced \in SUBSET Requests
      /\ PointSet \in SUBSET Exports /\ Flushed \in SUBSET Exports
  BY DEF TypeInv, SpanSet, Traced, PointSet, Flushed
<1>3. /\ IsFiniteSet(SpanSet) /\ IsFiniteSet(PointSet)
      /\ IsFiniteSet(Traced) /\ IsFiniteSet(Flushed)
  BY <1>1, <1>2, FS_Subset
<1>4. /\ Cardinality(SpanSet) \in Nat /\ Cardinality(Requests) \in Nat
      /\ Cardinality(SpanSet) <= Cardinality(Requests)
      /\ Cardinality(PointSet) \in Nat /\ Cardinality(Exports) \in Nat
      /\ Cardinality(PointSet) <= Cardinality(Exports)
      /\ Cardinality(Traced) \in Nat /\ Cardinality(Flushed) \in Nat
  BY <1>1, <1>2, CountGrows
<1>5. /\ SpansAfter(signalAt) = Cardinality(SpanSet)
      /\ PointsAfter(MetricBoundary) = Cardinality(PointSet)
  BY DEF SpansAfter, PointsAfter, SpanSet, PointSet, Eligible
<1>6. QED BY <1>1, <1>3, <1>4, <1>5

------------------------------------------------------------------------------
\* The steps

\* The types, and a wait leaves "signaling" once; Summarize counts in range.
LEMMA TypeNext == TypeInv /\ [Next]_vars => TypeInv'
<1> SUFFICES ASSUME TypeInv, [Next]_vars PROVE TypeInv'
  OBVIOUS
<1> USE DEF TypeInv, exporter, receiver, traffic, verifier, Tick, Proceed, Waiting
<1>1. ASSUME NEW e \in Exports, Arrive(e) PROVE TypeInv'
  BY <1>1 DEF Arrive
<1>2. ASSUME NEW e \in Exports, RecordTraces(e) PROVE TypeInv'
  BY <1>2 DEF RecordTraces, Stamp
<1>3. ASSUME NEW e \in Exports, RecordMetrics(e) PROVE TypeInv'
  BY <1>3 DEF RecordMetrics
<1>4. ASSUME NEW e \in Exports, Notify(e) PROVE TypeInv'
  BY <1>4 DEF Notify, Slot
<1>5. CASE ConfirmSignal
  <2>1. results' \subseteq inflight'
    BY <1>5 DEF ConfirmSignal
  <2>2. QED BY <1>5, <2>1 DEF ConfirmSignal
<1>6. CASE CollectResults
  BY <1>6 DEF CollectResults
<1>7. ASSUME NEW r \in Requests, Complete(r) PROVE TypeInv'
  BY <1>7 DEF Complete
<1>8. CASE Check
  BY <1>8 DEF Check
<1>9. CASE EnterSelect \/ Wake \/ GiveUp
  BY <1>9 DEF EnterSelect, Wake, GiveUp
<1>10. CASE Summarize
  BY <1>10, Counts DEF Summarize, ReportBoundary
<1>11. CASE UNCHANGED vars
  BY <1>11 DEF vars
<1>12. QED
  BY <1>1, <1>2, <1>3, <1>4, <1>5, <1>6, <1>7, <1>8, <1>9, <1>10, <1>11
  DEF Next, Handler, Closed

\* A new stamp is greater than every earlier one.
LEMMA StampNext == TypeInv /\ StampInv /\ [Next]_vars => StampInv'
<1> SUFFICES ASSUME TypeInv, StampInv, [Next]_vars PROVE StampInv'
  OBVIOUS
<1>0. /\ clock \in Nat /\ signalAt \in Nat
      /\ handler \in [Exports -> {"unsent", "arrived", "notifying", "answered"}]
      /\ receivedAt \in [Exports -> Nat] /\ completedAt \in [Requests -> Nat]
  BY DEF TypeInv
<1> USE DEF StampInv, exporter, receiver, traffic, verifier, Tick
<1>1. ASSUME NEW e \in Exports, Arrive(e) PROVE StampInv'
  BY <1>0, <1>1 DEF Arrive
<1>2. ASSUME NEW e \in Exports, Handler(e) PROVE StampInv'
  BY <1>0, <1>2 DEF Handler, RecordTraces, RecordMetrics, Notify
<1>3. CASE ConfirmSignal
  BY <1>0, <1>3 DEF ConfirmSignal
<1>4. ASSUME NEW r \in Requests, Complete(r) PROVE StampInv'
  BY <1>0, <1>4 DEF Complete
<1>5. CASE \/ CollectResults \/ Check \/ EnterSelect \/ Wake \/ GiveUp
           \/ Summarize \/ UNCHANGED vars
  BY <1>5
  DEF CollectResults, Check, EnterSelect, Wake, GiveUp, Summarize, vars
<1>6. QED BY <1>1, <1>2, <1>3, <1>4, <1>5 DEF Next, Closed

\* A span is recorded with the stamp of the export that carries it, and
\* neither the payload nor the stamp of an export changes after it arrived.
LEMMA ExportNext ==
    TypeInv /\ StampInv /\ ExportInv /\ [Next]_vars => ExportInv'
<1> SUFFICES ASSUME TypeInv, StampInv, ExportInv, [Next]_vars PROVE ExportInv'
  OBVIOUS
<1>0. /\ handler \in [Exports -> {"unsent", "arrived", "notifying", "answered"}]
      /\ payload \in [Exports -> Payloads \cup {{}}] /\ observed \subseteq Exports
      /\ receivedAt \in [Exports -> Nat] /\ matched \in [Requests -> Nat]
  BY DEF TypeInv
<1> USE DEF ExportInv, exporter, receiver, traffic, verifier
<1>1. ASSUME NEW e \in Exports, Arrive(e) PROVE ExportInv'
  <2>1. /\ handler[e] = "unsent" /\ handler'[e] # "unsent"
        /\ \A f \in Exports \ {e} : /\ handler'[f] = handler[f]
                                    /\ payload'[f] = payload[f]
                                    /\ receivedAt'[f] = receivedAt[f]
        /\ UNCHANGED <<matched, observed>>
    BY <1>0, <1>1 DEF Arrive
  <2>2. QED BY <1>0, <2>1
<1>2. ASSUME NEW e \in Exports, RecordTraces(e) PROVE ExportInv'
  <2>1. /\ handler[e] # "unsent"
        /\ \A f \in Exports : handler[f] # "unsent" => handler'[f] # "unsent"
        /\ UNCHANGED <<payload, receivedAt, observed>>
        /\ \A r \in Requests :
               \/ matched'[r] = matched[r]
               \/ r \in payload[e] /\ matched'[r] = receivedAt[e]
    BY <1>0, <1>2 DEF RecordTraces, Added, Stamp
  <2>2. QED BY <1>0, <2>1
<1>3. ASSUME NEW e \in Exports, RecordMetrics(e) PROVE ExportInv'
  <2>1. /\ handler[e] # "unsent" /\ payload[e] = Metrics
        /\ \A f \in Exports : handler[f] # "unsent" => handler'[f] # "unsent"
        /\ UNCHANGED <<payload, receivedAt, matched>>
        /\ observed' = observed \cup {e}
    BY <1>0, <1>3 DEF RecordMetrics
  <2>2. QED BY <1>0, <2>1
<1>4. ASSUME NEW e \in Exports, Notify(e) PROVE ExportInv'
  <2>1. /\ \A f \in Exports : handler[f] # "unsent" => handler'[f] # "unsent"
        /\ UNCHANGED <<payload, receivedAt, matched, observed>>
    BY <1>0, <1>4 DEF Notify
  <2>2. QED BY <1>0, <2>1
<1>5. CASE \/ ConfirmSignal \/ CollectResults \/ Check \/ EnterSelect \/ Wake
           \/ GiveUp \/ Summarize \/ UNCHANGED vars
           \/ \E r \in Requests : Complete(r)
  BY <1>5
  DEF ConfirmSignal, CollectResults, Check, EnterSelect, Wake, GiveUp,
      Summarize, Complete, vars
<1>6. QED BY <1>1, <1>2, <1>3, <1>4, <1>5 DEF Next, Handler, Closed

\* After the signal the sets behind the numbers only grow, and after the
\* traffic was waited for the boundary of the metrics stays where it is.
LEMMA SetsGrow ==
    ASSUME TypeInv, StampInv, ExportInv, WaitInv, TypeInv', StampInv', [Next]_vars
    PROVE  /\ caller # "signaling" => SpanSet \subseteq SpanSet'
           /\ caller \notin {"signaling", "draining"} => PointSet \subseteq PointSet'
<1>0. /\ handler \in [Exports -> {"unsent", "arrived", "notifying", "answered"}]
      /\ receivedAt \in [Exports -> Nat] /\ matched \in [Requests -> Nat]
      /\ observed \subseteq Exports /\ inflight \subseteq Requests
      /\ completedAt \in [Requests -> Nat] /\ results \subseteq inflight
  BY DEF TypeInv
<1>1. /\ caller # "signaling" => UNCHANGED <<inflight, signalAt>>
      /\ caller \notin {"signaling", "draining"} => UNCHANGED results
      /\ observed \subseteq observed'
  BY DEF Next, Arrive, Handler, RecordTraces, RecordMetrics, Notify,
         ConfirmSignal, CollectResults, Complete, Check, EnterSelect, Wake,
         GiveUp, Summarize, Closed, vars, exporter, receiver, traffic, verifier
<1>2. \A r \in Requests : matched[r] # 0 => matched'[r] = matched[r]
  BY <1>0
  DEF Next, Arrive, Handler, RecordTraces, RecordMetrics, Notify, Added,
      ConfirmSignal, CollectResults, Complete, Check, EnterSelect, Wake,
      GiveUp, Summarize, Closed, vars, exporter, receiver, traffic, verifier
<1>3. \A e \in Exports : handler[e] # "unsent" => receivedAt'[e] = receivedAt[e]
  BY <1>0
  DEF Next, Arrive, Handler, RecordTraces, RecordMetrics, Notify,
      ConfirmSignal, CollectResults, Complete, Check, EnterSelect, Wake,
      GiveUp, Summarize, Closed, vars, exporter, receiver, traffic, verifier
<1>4. \A r \in Requests : completedAt[r] # 0 => completedAt'[r] = completedAt[r]
  BY <1>0
  DEF Next, Arrive, Handler, RecordTraces, RecordMetrics, Notify,
      ConfirmSignal, CollectResults, Complete, Check, EnterSelect, Wake,
      GiveUp, Summarize, Closed, vars, exporter, receiver, traffic, verifier
<1>5. caller # "signaling" => SpanSet \subseteq SpanSet'
  BY <1>0, <1>1, <1>2 DEF SpanSet
<1>6. ASSUME caller \notin {"signaling", "draining"}
      PROVE  PointSet \subseteq PointSet'
  <2>1. Stamps' = Stamps
    <3>1. UNCHANGED <<signalAt, results>>
      BY <1>1, <1>6
    <3>2. \A r \in results : completedAt'[r] = completedAt[r]
      BY <1>0, <1>4 DEF WaitInv
    <3>3. {completedAt'[r] : r \in results} = {completedAt[r] : r \in results}
      BY <3>2
    <3>4. QED BY <3>1, <3>3 DEF Stamps
  <2>2. MetricBoundary' = MetricBoundary
    BY <2>1, BoundaryStays
  <2>3. \A e \in observed : receivedAt'[e] = receivedAt[e]
    BY <1>0, <1>3 DEF ExportInv
  <2>4. QED BY <1>1, <2>2, <2>3 DEF PointSet
<1>7. QED BY <1>5, <1>6

\* The sets only grow and the boundary stays, so what ended a wait is still
\* enough at every later step.
LEMMA WaitNext ==
    TypeInv /\ StampInv /\ ExportInv /\ WaitInv /\ [Next]_vars => WaitInv'
<1> SUFFICES ASSUME TypeInv, StampInv, ExportInv, WaitInv, [Next]_vars
    PROVE WaitInv'
  OBVIOUS
<1>0. TypeInv' /\ StampInv'
  BY TypeNext, StampNext
<1>1. \A r \in results' : completedAt'[r] # 0
  BY DEF TypeInv, WaitInv, Next, Arrive, Handler, RecordTraces, RecordMetrics,
         Notify, ConfirmSignal, CollectResults, Complete, Check, EnterSelect,
         Wake, GiveUp, Summarize, Closed, vars, exporter, receiver, traffic,
         verifier
<1>2. /\ SpansAfter(signalAt) = Cardinality(SpanSet)
      /\ PointsAfter(MetricBoundary) = Cardinality(PointSet)
  BY Counts
<1>3. /\ SpansAfter(signalAt)' = Cardinality(SpanSet')
      /\ PointsAfter(MetricBoundary)' = Cardinality(PointSet')
      /\ IsFiniteSet(SpanSet') /\ IsFiniteSet(PointSet')
  <2>1. (TypeInv => /\ SpansAfter(signalAt) = Cardinality(SpanSet)
                    /\ PointsAfter(MetricBoundary) = Cardinality(PointSet)
                    /\ IsFiniteSet(SpanSet) /\ IsFiniteSet(PointSet))'
    BY Counts, PTL
  <2>2. QED BY <1>0, <2>1
<1>4. MinSpans \in Nat /\ MinPoints \in Nat
  BY ReceiverAssumption DEF ReceiverAssumption
<1>5. ASSUME caller # "signaling", Cardinality(SpanSet) >= MinSpans
      PROVE  SpansAfter(signalAt)' >= MinSpans
  <2>1. SpanSet \subseteq SpanSet'
    BY <1>0, <1>5, SetsGrow
  <2>2. /\ Cardinality(SpanSet) <= Cardinality(SpanSet')
        /\ Cardinality(SpanSet) \in Nat /\ Cardinality(SpanSet') \in Nat
    BY <1>3, <2>1, CountGrows
  <2>3. QED BY <1>3, <1>4, <1>5, <2>2
<1>6. ASSUME caller \notin {"signaling", "draining"},
             Cardinality(PointSet) >= MinPoints
      PROVE  PointsAfter(MetricBoundary)' >= MinPoints
  <2>1. PointSet \subseteq PointSet'
    BY <1>0, <1>6, SetsGrow
  <2>2. /\ Cardinality(PointSet) <= Cardinality(PointSet')
        /\ Cardinality(PointSet) \in Nat /\ Cardinality(PointSet') \in Nat
    BY <1>3, <2>1, CountGrows
  <2>3. QED BY <1>3, <1>4, <1>6, <2>2
<1>7. ASSUME "traces" \in satisfied'
      PROVE  /\ caller' \in {"metrics", "report", "summarized", "failed"}
             /\ caller # "signaling" /\ Cardinality(SpanSet) >= MinSpans
  <2>1. CASE Check
    BY <1>2, <1>7, <2>1 DEF Check, Enough, Proceed, Waiting, WaitInv
  <2>2. CASE ~Check
    BY <1>2, <1>7, <2>2
    DEF WaitInv, Next, Arrive, Handler, RecordTraces, RecordMetrics, Notify,
        ConfirmSignal, CollectResults, Complete, EnterSelect, Wake, GiveUp,
        Summarize, Closed, vars, verifier, Proceed
  <2>3. QED BY <2>1, <2>2
<1>8. ASSUME "metrics" \in satisfied'
      PROVE  /\ caller' \in {"report", "summarized", "failed"}
             /\ caller \notin {"signaling", "draining"}
             /\ Cardinality(PointSet) >= MinPoints
  <2>1. CASE Check
    BY <1>2, <1>8, <2>1 DEF Check, Enough, Proceed, Waiting, WaitInv
  <2>2. CASE ~Check
    BY <1>2, <1>8, <2>2
    DEF WaitInv, Next, Arrive, Handler, RecordTraces, RecordMetrics, Notify,
        ConfirmSignal, CollectResults, Complete, EnterSelect, Wake, GiveUp,
        Summarize, Closed, vars, verifier, Proceed, Waiting
  <2>3. QED BY <2>1, <2>2
<1>9. QED BY <1>1, <1>5, <1>6, <1>7, <1>8 DEF WaitInv

\* What the snapshots count is what the assertions speak of.
LEMMA SnapshotIsEarned ==
    ASSUME TypeInv, StampInv, ExportInv, WaitInv
    PROVE  SpanSet \subseteq Traced /\ PointSet \subseteq Flushed
<1>1. ASSUME NEW r \in SpanSet PROVE r \in Traced
  <2>1. PICK e \in Exports : /\ handler[e] # "unsent"
                             /\ r \in payload[e] /\ receivedAt[e] = matched[r]
    BY DEF SpanSet, ExportInv, TypeInv
  <2>2. receivedAt[e] > signalAt
    BY <2>1 DEF SpanSet, StampInv, TypeInv
  <2>3. QED BY <2>1, <2>2 DEF SpanSet, Traced
<1>2. ASSUME NEW e \in PointSet PROVE e \in Flushed
  <2>1. e \in observed /\ e \in Exports /\ handler[e] # "unsent"
        /\ receivedAt[e] >= MetricBoundary
    BY DEF PointSet, ExportInv, TypeInv
  <2>2. ASSUME NEW r \in results PROVE receivedAt[e] > completedAt[r]
    <3>1. completedAt[r] <= MetricBoundary /\ MetricBoundary \in Stamps
      BY BoundaryIsGreatest DEF Stamps
    <3>2. Stamps \subseteq Nat
      BY DEF TypeInv, Stamps
    <3>3. receivedAt[e] # completedAt[r]
      BY <2>1 DEF StampInv, TypeInv
    <3>4. receivedAt[e] \in Nat /\ completedAt[r] \in Nat
      BY <2>1 DEF TypeInv
    <3>5. QED BY <2>1, <3>1, <3>2, <3>3, <3>4
  <2>3. receivedAt[e] > signalAt
    <3>1. signalAt <= MetricBoundary /\ MetricBoundary \in Stamps
      BY BoundaryIsGreatest DEF Stamps
    <3>2. Stamps \subseteq Nat
      BY DEF TypeInv, Stamps
    <3>3. receivedAt[e] # signalAt
      BY <2>1 DEF StampInv
    <3>4. receivedAt[e] \in Nat /\ signalAt \in Nat
      BY <2>1 DEF TypeInv
    <3>5. QED BY <2>1, <3>1, <3>2, <3>3, <3>4
  <2>4. QED BY <2>1, <2>2, <2>3 DEF Flushed
<1>3. QED BY <1>1, <1>2

\* The report counts sets that were large enough; what is counted stays so.
LEMMA ReportNext ==
    /\ TypeInv /\ StampInv /\ ExportInv /\ WaitInv /\ ReportInv /\ [Next]_vars
    => ReportInv'
<1> SUFFICES ASSUME TypeInv, StampInv, ExportInv, WaitInv, ReportInv, [Next]_vars,
                    Reported'
    PROVE  /\ spans' <= Cardinality(Traced')
           /\ points' <= Cardinality(Flushed')
           /\ "traces" \in satisfied' => spans' >= MinSpans
           /\ "metrics" \in satisfied' => points' >= MinPoints
  BY DEF ReportInv
<1>0. /\ IsFiniteSet(Traced') /\ IsFiniteSet(Flushed')
      /\ Cardinality(Traced') \in Nat /\ Cardinality(Flushed') \in Nat
  <2>1. TypeInv'
    BY TypeNext
  <2>2. (TypeInv => /\ IsFiniteSet(Traced) /\ IsFiniteSet(Flushed)
                    /\ Cardinality(Traced) \in Nat /\ Cardinality(Flushed) \in Nat)'
    BY Counts, PTL
  <2>3. QED BY <2>1, <2>2
<1>1. CASE Summarize
  <2>1. /\ spans' = Cardinality(SpanSet) /\ points' = Cardinality(PointSet)
        /\ UNCHANGED <<inflight, signalAt, payload, receivedAt, observed,
                       completedAt, results, satisfied>>
    BY <1>1, Counts
    DEF Summarize, ReportBoundary, exporter, receiver, traffic
  <2>2. Traced' = Traced /\ Flushed' = Flushed
    BY <2>1 DEF Traced, Flushed
  <2>3. /\ Cardinality(SpanSet) <= Cardinality(Traced)
        /\ Cardinality(PointSet) <= Cardinality(Flushed)
    BY Counts, CountGrows, SnapshotIsEarned
  <2>4. /\ "traces" \in satisfied => Cardinality(SpanSet) >= MinSpans
        /\ "metrics" \in satisfied => Cardinality(PointSet) >= MinPoints
    BY Counts DEF WaitInv
  <2>5. QED BY <2>1, <2>2, <2>3, <2>4
<1>2. CASE ~Summarize
  <2>1. /\ Reported
        /\ UNCHANGED <<inflight, signalAt, payload, receivedAt, completedAt,
                       results, satisfied, spans, points>>
        /\ observed \subseteq observed'
    BY <1>2
    DEF Reported, Next, Arrive, Open, Handler, RecordTraces, RecordMetrics,
        Notify, ConfirmSignal, CollectResults, Complete, Check, EnterSelect,
        Wake, GiveUp, Proceed, Waiting, Closed, vars, exporter, receiver,
        traffic, verifier
  <2>2. Traced' = Traced /\ Flushed \subseteq Flushed'
    BY <2>1 DEF Traced, Flushed
  <2>3. /\ Cardinality(Flushed) <= Cardinality(Flushed')
        /\ Cardinality(Flushed) \in Nat
    BY <1>0, <2>2, CountGrows
  <2>4. points \in Nat
    BY Counts DEF TypeInv
  <2>5. QED BY <1>0, <2>1, <2>2, <2>3, <2>4 DEF ReportInv
<1>3. QED BY <1>1, <1>2

------------------------------------------------------------------------------
\* The theorems

\* Before the first export.
LEMMA InitInv == Init => ReceiverInv
<1> SUFFICES ASSUME Init PROVE ReceiverInv
  OBVIOUS
<1>1. Cardinality(Requests) \in Nat /\ Cardinality(Exports) \in Nat
  BY ReceiverAssumption, FS_CardinalityType DEF ReceiverAssumption
<1>2. TypeInv
  <2>1. 0 \in 0..Cardinality(Requests) /\ 0 \in 0..Cardinality(Exports)
    BY <1>1
  <2>2. payload \in [Exports -> Payloads \cup {{}}]
    BY DEF Init
  <2>3. /\ handler \in [Exports -> {"unsent", "arrived", "notifying", "answered"}]
        /\ receivedAt \in [Exports -> Nat] /\ matched \in [Requests -> Nat]
        /\ completedAt \in [Requests -> Nat]
    BY DEF Init
  <2>4. /\ clock \in Nat /\ observed \subseteq Exports /\ updates \in BOOLEAN
        /\ inflight \subseteq Requests /\ signalAt \in Nat /\ results \subseteq inflight
        /\ results = {}
    BY DEF Init
  <2>5. /\ caller = "signaling" /\ wait = "check" /\ satisfied = {}
        /\ spans = 0 /\ points = 0
    BY DEF Init
  <2>6. QED BY <2>1, <2>2, <2>3, <2>4, <2>5 DEF TypeInv
<1>3. StampInv /\ ExportInv /\ WaitInv /\ ReportInv
  BY DEF Init, StampInv, ExportInv, WaitInv, ReportInv, Reported
<1>4. QED BY <1>2, <1>3 DEF ReceiverInv

\* Every part of the invariant is kept by every step.
LEMMA Inductive == ReceiverInv /\ [Next]_vars => ReceiverInv'
  BY TypeNext, StampNext, ExportNext, WaitNext, ReportNext DEF ReceiverInv

\* The invariant holds of every receiver and every wait on it.
THEOREM ReceiverInvariant == Spec => []ReceiverInv
<1>1. QED BY InitInv, Inductive, PTL DEF Spec

\* The types; and every stamp the receiver holds is the arrival of an export
\* that carried the span.
THEOREM ReceiverTypeCorrect == Spec => []TypeOK
<1>1. ReceiverInv => TypeOK
  BY DEF ReceiverInv, TypeInv, ExportInv, TypeOK
<1>2. QED BY ReceiverInvariant, <1>1, PTL

\* Spans that satisfy the assertion are those of confirmed in-flight requests,
\* in exports that arrived after the confirmation.
THEOREM SpansAreEarned == Spec => []SpansPassIsEarned
<1>1. ReceiverInv => SpansPassIsEarned
  <2> SUFFICES ASSUME ReceiverInv, Reported, spans >= MinSpans
      PROVE Cardinality(Traced) >= MinSpans
    BY DEF SpansPassIsEarned, Traced
  <2>1. /\ spans <= Cardinality(Traced) /\ Cardinality(Traced) \in Nat
        /\ spans \in Nat /\ MinSpans \in Nat
    BY Counts DEF ReceiverInv, ReportInv, TypeInv
  <2>2. QED BY <2>1
<1>2. QED BY ReceiverInvariant, <1>1, PTL

\* A span that was recorded before the confirmation keeps its stamp, and the
\* confirmation gets a later one.
THEOREM StartupSpansAreStale == Spec => StartupSpansNeverCount
<1> SUFFICES ASSUME NEW r \in Requests
             PROVE  Spec => [](caller = "signaling" /\ matched[r] # 0
                               => [](Reported => matched[r] < signalAt))
  BY DEF StartupSpansNeverCount
<1> DEFINE Early == caller = "signaling" /\ matched[r] # 0
           Stale == matched[r] # 0 /\ (caller = "signaling" \/ matched[r] < signalAt)
<1>1. ReceiverInv /\ Stale /\ [Next]_vars => Stale'
  <2> SUFFICES ASSUME ReceiverInv, Stale, [Next]_vars PROVE Stale'
    OBVIOUS
  <2>1. /\ matched \in [Requests -> Nat] /\ signalAt \in Nat /\ clock \in Nat
        /\ receivedAt \in [Exports -> Nat]
    BY DEF ReceiverInv, TypeInv
  <2>2. matched[r] <= clock
    BY <2>1 DEF ReceiverInv, StampInv, ExportInv
  <2>3. matched'[r] = matched[r]
    BY <2>1
    DEF Next, Arrive, Handler, RecordTraces, RecordMetrics, Notify, Added,
        ConfirmSignal, CollectResults, Complete, Check, EnterSelect, Wake,
        GiveUp, Summarize, Closed, vars, exporter, receiver, traffic, verifier
  <2>4. CASE ConfirmSignal
    <3>1. signalAt' = clock + 1
      BY <2>4 DEF ConfirmSignal, Tick
    <3>2. QED BY <2>1, <2>2, <2>3, <3>1
  <2>5. CASE ~ConfirmSignal
    <3>1. /\ signalAt' = signalAt
          /\ caller = "signaling" => caller' = "signaling"
      BY <2>5
      DEF Next, Arrive, Handler, RecordTraces, RecordMetrics, Notify,
          CollectResults, Complete, Check, EnterSelect, Wake, GiveUp, Summarize,
          Closed, Waiting, vars, exporter, receiver, traffic, verifier
    <3>2. QED BY <2>3, <3>1
  <2>6. QED BY <2>4, <2>5
<1>2. Early => Stale
  OBVIOUS
<1>3. Stale => (Reported => matched[r] < signalAt)
  BY DEF Reported
<1>4. QED BY <1>1, <1>2, <1>3, ReceiverInvariant, PTL DEF Spec

\* Data points that satisfy the assertion came in exports that arrived after
\* the confirmation and after every in-flight request that has a result.
THEOREM PointsAreFlushed == Spec => []PointsPassIsFlush
<1>1. ReceiverInv => PointsPassIsFlush
  <2> SUFFICES ASSUME ReceiverInv, Reported, points >= MinPoints
      PROVE Cardinality(Flushed) >= MinPoints
    BY DEF PointsPassIsFlush, Flushed
  <2>1. /\ points <= Cardinality(Flushed) /\ Cardinality(Flushed) \in Nat
        /\ points \in Nat /\ MinPoints \in Nat
    BY Counts DEF ReceiverInv, ReportInv, TypeInv
  <2>2. QED BY <2>1
<1>2. QED BY ReceiverInvariant, <1>1, PTL

\* The report never shows less than what ended a wait.
THEOREM WaitsAreKept == Spec => []SatisfiedWaitPasses
<1>1. ReceiverInv => SatisfiedWaitPasses
  BY DEF ReceiverInv, ReportInv, SatisfiedWaitPasses
<1>2. QED BY ReceiverInvariant, <1>1, PTL
==============================================================================
