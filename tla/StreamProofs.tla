---------------------------- MODULE StreamProofs -----------------------------
(***************************************************************************)
(* Proofs about an observed stream, for every set of protocols and every   *)
(* message limit: its evidence is earned, it is never cut early, and each  *)
(* reader implements the observation.                                      *)
(***************************************************************************)
EXTENDS Stream, TLAPS

\* How far the reader is says how much of the evidence there is.
ReaderInv ==
    /\ reader \in {"opening", "reading", "exceeded"} =>
        /\ snapshot.closedAt = NotYet
        /\ snapshot.proper = FALSE
        /\ snapshot.error = "none"
    /\ reader = "opening" => ~snapshot.established
    /\ reader \in {"closing", "leaving", "done"} => Ended

\* A proper end without an error is the peer's.  Before the gRPC reader has
\* looked at the context, it may also be that of a canceled call.
EndInv ==
    /\ snapshot.last = "overdue" => clock = "overdue"
    /\ snapshot.closedAt = "draining" => snapshot.last # "overdue"
    /\ reader = "closing" /\ snapshot.proper => canceled \/ peer = "proper"
    /\ reader \in {"leaving", "done"} /\ snapshot.proper /\ snapshot.error = "none"
        => peer = "proper"

\* What lifecycle.run knows where it is.
CallerInv ==
    /\ caller \in {"establishing", "established"} => clock = "running"
    /\ caller \notin {"establishing", "established", "returned"}
        => clock # "running"
    /\ caller \notin {"establishing", "returned"} => snapshot.established
    /\ caller = "grace" => Due \/ Ended
    /\ caller \notin {"summarized", "returned"} => ~summary.gracefully
    /\ active => /\ clock # "running"
                 /\ snapshot.established
                 /\ snapshot.closedAt # "running"

\* A summary is written once the reader cannot change the evidence any more.
SummaryInv ==
    summary.gracefully =>
        /\ reader \in {"leaving", "done"}
        /\ GracefulIsEarned

StreamInv ==
    TypeOK /\ ReaderInv /\ EndInv /\ CallerInv /\ SummaryInv /\ NeverCutEarly

------------------------------------------------------------------------------
\* Type correctness

LEMMA TypeInit == Init => TypeOK
<1> SUFFICES ASSUME Init PROVE TypeOK
  OBVIOUS
<1>1. 0 \in 0..(MaxMessages + 1) /\ 0 <= MaxMessages
  BY StreamAssumption
<1>2. snapshot \in Snapshots
  BY <1>1 DEF Init, Snapshots, Errors
<1>3. summary \in Summaries
  BY DEF Init, Unsummarized, Summaries
<1>4. QED
  BY <1>1, <1>2, <1>3 DEF Init, TypeOK, Times, Readers, Callers

LEMMA FailedType ==
    ASSUME TypeOK, NEW e \in Errors, NEW p \in BOOLEAN
    PROVE  Failed(e, p) \in Snapshots
  BY DEF TypeOK, Failed, Snapshots

LEMMA MessageCounted ==
    ASSUME TypeOK, WithinLimit
    PROVE  /\ snapshot.messages + 1 \in 0..(MaxMessages + 1)
           /\ snapshot.messages + 1 <= MaxMessages
  BY StreamAssumption DEF TypeOK, Snapshots, WithinLimit

LEMMA ReaderType == ASSUME TypeOK, Reader PROVE TypeOK'
<1>1. /\ snapshot' \in Snapshots
      /\ reader' \in Readers
      /\ reader' \in {"opening", "reading"} => snapshot'.messages <= MaxMessages
  <2> USE DEF Readers
  <2>1. CASE Opens
    BY <2>1 DEF Opens, TypeOK, Snapshots
  <2>2. CASE FailsToOpen
    BY <2>2, FailedType DEF FailsToOpen, OpenErrors, BrokenProper, Errors
  <2>3. CASE Receive
    <3>1. CASE SSEEvent
      BY <2>3, <3>1 DEF Receive, SSEEvent, TypeOK, Snapshots
    <3>2. CASE WebSocketMessage
      <4>1. /\ snapshot.messages + 1 \in 0..(MaxMessages + 1)
            /\ snapshot.messages + 1 <= MaxMessages
        BY <3>2, MessageCounted DEF WebSocketMessage
      <4>2. PICK last \in {snapshot.last} \cup IF needsLast THEN {clock} ELSE {} :
                snapshot' = [snapshot EXCEPT !.messages = @ + 1, !.last = last]
        BY <3>2 DEF WebSocketMessage
      <4>3. last \in Times \cup {NotYet}
        BY DEF TypeOK, Snapshots
      <4>4. QED
        BY <2>3, <4>1, <4>2, <4>3 DEF Receive, TypeOK, Snapshots
    <3>3. CASE GRPCMessage
      <4>1. /\ snapshot.messages + 1 \in 0..(MaxMessages + 1)
            /\ snapshot.messages + 1 <= MaxMessages
        BY <3>3, MessageCounted DEF GRPCMessage
      <4>2. (snapshot.established \/ snapshot.messages + 1 >= MinimumMessages)
                \in BOOLEAN
        BY DEF TypeOK, Snapshots
      <4>3. QED
        BY <2>3, <3>3, <4>1, <4>2 DEF Receive, GRPCMessage, TypeOK, Snapshots
    <3>4. QED BY <2>3, <3>1, <3>2, <3>3 DEF Receive
  <2>4. CASE ExceedLimit
    <3>1. snapshot.messages + 1 \in 0..(MaxMessages + 1)
      BY <2>4, StreamAssumption DEF ExceedLimit, TypeOK, Snapshots
    <3>2. QED
      BY <2>4, <3>1 DEF ExceedLimit, TypeOK, Snapshots
  <2>11. CASE FailLimit
    BY <2>11, FailedType DEF FailLimit, AfterLimit, BrokenProper, Errors
  <2>5. CASE ReadEnd
    BY <2>5, FailedType DEF ReadEnd, Errors
  <2>6. CASE ReadCanceled
    BY <2>6, FailedType DEF ReadCanceled, Errors
  <2>7. CASE ReceiveFails
    BY <2>7, FailedType DEF ReceiveFails, Errors
  <2>8. CASE FinishUpdate
    BY <2>8 DEF FinishUpdate, CloseError, TypeOK, Snapshots, Errors
  <2>9. CASE CloseDone
    BY <2>9 DEF CloseDone, TypeOK
  <2>10. QED
    BY <2>1, <2>2, <2>3, <2>4, <2>5, <2>6, <2>7, <2>8, <2>9, <2>11
    DEF Reader
<1>2. UNCHANGED outside
  BY DEF Reader, Opens, FailsToOpen, Receive, ExceedLimit, FailLimit, ReadEnd,
         ReadCanceled, ReceiveFails, FinishUpdate, CloseDone
<1>3. QED
  BY <1>1, <1>2 DEF TypeOK, outside, config

LEMMA SummaryType == ASSUME TypeOK, Summarize PROVE TypeOK'
<1>1. summary' \in Summaries
  BY DEF Summarize, Summaries, TypeOK, Snapshots, ClosedAfterSignal,
         ClosedWithinTimeout
<1>2. QED
  BY <1>1 DEF TypeOK, Summarize, config, Callers

LEMMA CallerType == ASSUME TypeOK, Caller PROVE TypeOK'
<1> USE DEF TypeOK, Callers, Times, config
<1>1. CASE Established \/ NotEstablished \/ RequestSignal \/ ArmTimer
  BY <1>1 DEF Established, NotEstablished, RequestSignal, ArmTimer
<1>2. CASE ReadActive
  BY <1>2 DEF ReadActive, IsActive, Ended, Snapshots
<1>3. CASE BeginWait \/ SelectDone \/ SelectTimer \/ GraceDone \/ GraceOver
  BY <1>3 DEF BeginWait, SelectDone, SelectTimer, GraceDone, GraceOver
<1>4. CASE Summarize
  BY <1>4, SummaryType
<1>5. CASE Return
  BY <1>5 DEF Return, DeferredCancel
<1>6. QED BY <1>1, <1>2, <1>3, <1>4, <1>5 DEF Caller

LEMMA TypeNext == TypeOK /\ [Next]_vars => TypeOK'
<1> SUFFICES ASSUME TypeOK, [Next]_vars PROVE TypeOK'
  OBVIOUS
<1>1. CASE PeerEnds \/ TimerFires \/ Overdue \/ Interrupt
  BY <1>1 DEF PeerEnds, TimerFires, Overdue, Interrupt, TypeOK, Times, config
<1>2. CASE Reader
  BY <1>2, ReaderType
<1>3. CASE Caller
  BY <1>3, CallerType
<1>4. CASE UNCHANGED vars
  BY <1>4 DEF vars, TypeOK, config
<1>5. QED BY <1>1, <1>2, <1>3, <1>4 DEF Next, Terminated

\* Every variable keeps its type; in particular, no reader counts on
\* after the first message over its limit.
THEOREM StreamTypeCorrect == SafeSpec => []TypeOK
<1>1. QED BY TypeInit, TypeNext, PTL DEF SafeSpec

------------------------------------------------------------------------------
\* The inductive invariant

LEMMA StreamInvInit == Init => StreamInv
<1> SUFFICES ASSUME Init PROVE StreamInv
  OBVIOUS
<1>1. TypeOK
  BY TypeInit
<1>2. QED
  BY <1>1
  DEF Init, StreamInv, ReaderInv, EndInv, CallerInv, SummaryInv, NeverCutEarly,
      Unsummarized, NotYet, Due, Ended

\* Reading has come to an end: the reader leaves or, in a gRPC call that is
\* about to look at its context, closes.
LEMMA EndingKeepsInv ==
    ASSUME StreamInv, reader \in {"opening", "reading", "exceeded"},
           UNCHANGED outside,
           NEW e \in Errors, NEW p \in BOOLEAN, snapshot' = Failed(e, p),
           reader' \in {"closing", "leaving"},
           reader' = "closing" /\ p => canceled \/ peer = "proper",
           reader' = "leaving" /\ p /\ e = "none" => peer = "proper"
    PROVE  ReaderInv' /\ EndInv' /\ CallerInv' /\ SummaryInv' /\ NeverCutEarly'
<1>1. /\ snapshot'.closedAt = clock
      /\ snapshot'.proper = p
      /\ snapshot'.error = e
      /\ snapshot'.last = snapshot.last
      /\ snapshot'.established = snapshot.established
  BY DEF Failed, StreamInv, TypeOK, Snapshots
<1>2. clock \in Times /\ clock # NotYet
  BY DEF StreamInv, TypeOK, Times, NotYet
<1>3. ReaderInv' /\ EndInv'
  BY <1>1, <1>2 DEF StreamInv, ReaderInv, EndInv, Ended, outside
<1>4. CallerInv' /\ NeverCutEarly'
  BY <1>1, <1>2
  DEF StreamInv, CallerInv, NeverCutEarly, Ended, Due, outside
<1>5. ~summary.gracefully
  BY DEF StreamInv, SummaryInv
<1>6. QED
  BY <1>3, <1>4, <1>5 DEF SummaryInv, outside

LEMMA ReaderKeepsInv ==
    ASSUME StreamInv, Reader
    PROVE  ReaderInv' /\ EndInv' /\ CallerInv' /\ SummaryInv' /\ NeverCutEarly'
<1>1. TypeOK
  BY DEF StreamInv
<1>2. CASE Opens \/ Receive \/ ExceedLimit
  <2>1. /\ reader \in {"opening", "reading"}
        /\ reader' \in {"reading", "exceeded"}
        /\ UNCHANGED outside
    BY <1>2 DEF Opens, Receive, ExceedLimit
  <2>2. /\ snapshot'.closedAt = snapshot.closedAt
        /\ snapshot'.proper = snapshot.proper
        /\ snapshot'.error = snapshot.error
        /\ snapshot'.last \in {snapshot.last, clock}
    BY <1>1, <1>2
    DEF Opens, Receive, SSEEvent, WebSocketMessage, GRPCMessage, ExceedLimit,
        TypeOK, Snapshots
  <2>3. snapshot.established => snapshot'.established
    BY <1>1, <1>2
    DEF Opens, Receive, SSEEvent, WebSocketMessage, GRPCMessage, ExceedLimit,
        TypeOK, Snapshots, StreamInv, ReaderInv
  <2>4. ReaderInv' /\ EndInv'
    BY <2>1, <2>2 DEF StreamInv, ReaderInv, EndInv, outside, NotYet
  <2>5. CallerInv' /\ NeverCutEarly'
    BY <2>1, <2>2, <2>3
    DEF StreamInv, ReaderInv, CallerInv, NeverCutEarly, Ended, Due, outside
  <2>6. ~summary.gracefully
    BY <2>1 DEF StreamInv, SummaryInv
  <2>7. QED
    BY <2>1, <2>4, <2>5, <2>6 DEF SummaryInv, outside
<1>3. CASE FailsToOpen \/ FailLimit
  <2>1. PICK e \in {"broken", "canceled"}, p \in BOOLEAN : snapshot' = Failed(e, p)
    BY <1>3 DEF FailsToOpen, FailLimit, OpenErrors, BrokenProper
  <2>2. /\ reader \in {"opening", "exceeded"}
        /\ reader' = "leaving"
        /\ UNCHANGED outside
    BY <1>3 DEF FailsToOpen, FailLimit, AfterLimit
  <2>3. QED
    BY <2>1, <2>2, EndingKeepsInv DEF Errors
<1>4. CASE ReadEnd \/ ReadCanceled
  <2>1. PICK e \in Errors, p \in BOOLEAN :
            /\ snapshot' = Failed(e, p)
            /\ p => peer = "proper"
    BY <1>4 DEF ReadEnd, ReadCanceled, Errors
  <2>2. reader = "reading" /\ reader' = "leaving" /\ UNCHANGED outside
    BY <1>4 DEF ReadEnd, ReadCanceled
  <2>3. QED
    BY <2>1, <2>2, EndingKeepsInv
<1>5. CASE ReceiveFails
  <2>1. PICK p \in BOOLEAN :
            /\ snapshot' = Failed("none", p)
            /\ p => canceled \/ peer = "proper"
    BY <1>5 DEF ReceiveFails
  <2>2. reader = "reading" /\ reader' = "closing" /\ UNCHANGED outside
    BY <1>5 DEF ReceiveFails
  <2>3. QED
    BY <2>1, <2>2, EndingKeepsInv DEF Errors
<1>6. CASE FinishUpdate
  <2>1. /\ snapshot'.closedAt = snapshot.closedAt
        /\ snapshot'.proper = snapshot.proper
        /\ snapshot'.error = CloseError
        /\ snapshot'.last = snapshot.last
        /\ snapshot'.established = snapshot.established
    BY <1>1, <1>6 DEF FinishUpdate, TypeOK, Snapshots
  <2>2. reader = "closing" /\ reader' = "leaving" /\ UNCHANGED outside
    BY <1>6 DEF FinishUpdate
  <2>3. QED
    BY <2>1, <2>2
    DEF StreamInv, ReaderInv, EndInv, CallerInv, SummaryInv, NeverCutEarly,
        Ended, Due, CloseError, outside
<1>7. CASE CloseDone
  BY <1>7
  DEF CloseDone, StreamInv, ReaderInv, EndInv, CallerInv, SummaryInv,
      NeverCutEarly, GracefulIsEarned, ActiveEndsAfterSignal, Ended, Due,
      outside, config
<1>8. QED
  BY <1>2, <1>3, <1>4, <1>5, <1>6, <1>7 DEF Reader

\* The steps of the caller leave the reader's evidence alone.
LEMMA CallerKeepsEvidence ==
    ASSUME StreamInv, Caller
    PROVE  /\ UNCHANGED <<snapshot, reader, peer, config, interrupted>>
           /\ ReaderInv' /\ EndInv'
<1> USE DEF Caller, Established, NotEstablished, RequestSignal, ReadActive,
            ArmTimer, BeginWait, SelectDone, SelectTimer, GraceDone, GraceOver,
            Summarize, Return, DeferredCancel
<1>1. UNCHANGED <<snapshot, reader, peer, config, interrupted>>
  OBVIOUS
<1>2. canceled => canceled'
  BY Zenon
<1>3. clock' = clock \/ (clock = "running" /\ clock' = "draining")
  BY DEF StreamInv, CallerInv
<1>4. QED
  BY <1>1, <1>2, <1>3 DEF StreamInv, ReaderInv, EndInv, Ended, config

LEMMA CallerKeepsInv ==
    ASSUME StreamInv, Caller
    PROVE  CallerInv' /\ SummaryInv' /\ NeverCutEarly'
<1>0. UNCHANGED <<snapshot, reader, peer, config, interrupted>>
  BY CallerKeepsEvidence
<1> USE <1>0
    DEF StreamInv, CallerInv, SummaryInv, NeverCutEarly, GracefulIsEarned,
        ActiveEndsAfterSignal, Ended, Due, config
<1>1. CASE Established
  BY <1>1 DEF Established
<1>10. CASE NotEstablished
  BY <1>10 DEF NotEstablished
<1>2. CASE RequestSignal
  BY <1>2 DEF RequestSignal
<1>3. CASE ReadActive
  <2>1. active' => snapshot.established /\ snapshot.closedAt = NotYet
    BY <1>3, Zenon DEF ReadActive, IsActive
  <2>2. caller = "requested" /\ caller' = "signaled" /\ canceled' = canceled
        /\ clock' = clock /\ summary' = summary
    BY <1>3 DEF ReadActive
  <2>3. ~summary.gracefully
    BY <2>2
  <2>4. QED
    BY <2>1, <2>2, <2>3 DEF NotYet
<1>4. CASE ArmTimer \/ BeginWait
  BY <1>4 DEF ArmTimer, BeginWait, IsActive
<1>5. CASE SelectDone \/ SelectTimer
  BY <1>5 DEF SelectDone, SelectTimer, ReaderInv
<1>6. CASE GraceDone \/ GraceOver
  BY <1>6 DEF GraceDone, GraceOver
<1>7. CASE Summarize
  <2>1. CallerInv' /\ NeverCutEarly'
    BY <1>7 DEF Summarize
  <2>2. ASSUME summary'.gracefully PROVE SummaryInv'
    <3>1. /\ active /\ ClosedWithinTimeout /\ snapshot.proper
          /\ LastSeen /\ snapshot.error = "none" /\ Unlocked
      BY <1>7, <2>2 DEF Summarize
    <3>2. snapshot.closedAt = "draining"
      BY <3>1 DEF ClosedWithinTimeout, ClosedAfterSignal
    <3>3. reader \in {"leaving", "done"}
      BY <3>1, <3>2 DEF ReaderInv, Unlocked, TypeOK, Readers, NotYet
    <3>4. peer = "proper"
      BY <3>1, <3>3 DEF EndInv
    <3>5. kind = "websocket" /\ needsLast => snapshot.last = "draining"
      BY <3>1, <3>2 DEF LastSeen, EndInv
    <3>6. QED
      BY <1>7, <3>1, <3>2, <3>3, <3>4, <3>5 DEF Summarize
  <2>3. QED BY <2>1, <2>2
<1>8. CASE Return
  BY <1>8 DEF Return, DeferredCancel
<1>9. QED
  BY <1>1, <1>10, <1>2, <1>3, <1>4, <1>5, <1>6, <1>7, <1>8 DEF Caller

LEMMA StreamInvNext == StreamInv /\ [Next]_vars => StreamInv'
<1> SUFFICES ASSUME StreamInv, [Next]_vars PROVE StreamInv'
  OBVIOUS
<1>1. TypeOK'
  BY TypeNext DEF StreamInv
<1>2. CASE Reader
  BY <1>1, <1>2, ReaderKeepsInv DEF StreamInv
<1>3. CASE Caller
  BY <1>1, <1>3, CallerKeepsEvidence, CallerKeepsInv DEF StreamInv
<1>4. CASE PeerEnds
  BY <1>1, <1>4
  DEF PeerEnds, StreamInv, ReaderInv, EndInv, CallerInv, SummaryInv,
      NeverCutEarly, GracefulIsEarned, ActiveEndsAfterSignal, Ended, Due, config
<1>5. CASE TimerFires \/ Interrupt
  BY <1>1, <1>5
  DEF TimerFires, Interrupt, StreamInv, ReaderInv, EndInv, CallerInv, SummaryInv,
      NeverCutEarly, GracefulIsEarned, ActiveEndsAfterSignal, Ended, Due, config
<1>6. CASE Overdue
  BY <1>1, <1>6
  DEF Overdue, StreamInv, ReaderInv, EndInv, CallerInv, SummaryInv,
      NeverCutEarly, GracefulIsEarned, ActiveEndsAfterSignal, Ended, Due, config
<1>7. CASE UNCHANGED vars
  BY <1>1, <1>7
  DEF vars, StreamInv, ReaderInv, EndInv, CallerInv, SummaryInv,
      NeverCutEarly, GracefulIsEarned, ActiveEndsAfterSignal, Ended, Due, config
<1>8. QED
  BY <1>2, <1>3, <1>4, <1>5, <1>6, <1>7 DEF Next, Terminated

\* A stream that counts as active at the signal did not end before it, and
\* one that counts as closed gracefully was closed properly, by the peer
\* itself, after the signal and in time.
THEOREM EvidenceIsEarned == SafeSpec => []GracefulIsEarned
<1>1. StreamInv => GracefulIsEarned
  BY DEF StreamInv, SummaryInv, CallerInv, GracefulIsEarned, ActiveEndsAfterSignal
<1>2. QED
  BY StreamInvInit, StreamInvNext, <1>1, PTL DEF SafeSpec

\* draincheck itself does not cut a stream before its close deadline.
THEOREM StreamIsGivenItsTime == SafeSpec => []NeverCutEarly
<1>1. StreamInv => NeverCutEarly
  BY DEF StreamInv
<1>2. QED
  BY StreamInvInit, StreamInvNext, <1>1, PTL DEF SafeSpec

------------------------------------------------------------------------------
\* The refinement

EndingNow == IF Unlocked THEN EndingOf(snapshot) ELSE NoEnding

LEMMA ObservationInit == Init => Observation!Init
  BY DEF Init, Observation!Init, Unlocked, EndingOf, NoEnding

\* An open stream has no ending.
LEMMA OpenHasNoEnding ==
    ASSUME StreamInv, reader \in {"opening", "reading", "exceeded", "closing"}
    PROVE  EndingNow = NoEnding
  BY DEF StreamInv, ReaderInv, EndingNow, EndingOf, NoEnding, Unlocked

LEMMA EndedHasEnding ==
    ASSUME StreamInv, reader \in {"leaving", "done"}
    PROVE  EndingNow = EndingOf(snapshot) /\ EndingNow # NoEnding
<1>1. EndingNow = EndingOf(snapshot)
  BY DEF EndingNow, Unlocked
<1>2. EndingOf(snapshot).closedAt # NoEnding.closedAt
  BY DEF StreamInv, ReaderInv, Ended, EndingOf, NoEnding
<1>3. QED BY <1>1, <1>2

\* Every step of a reader is a step of the observation.
LEMMA ReaderRefines ==
    ASSUME StreamInv, StreamInv', Reader
    PROVE  [Observation!Next]_(Observation!vars)
<1> USE DEF Observation!Next, Observation!vars
<1>1. CASE Opens \/ Receive \/ ExceedLimit
  <2>1. /\ reader \in {"opening", "reading"}
        /\ reader' \in {"reading", "exceeded"}
    BY <1>1 DEF Opens, Receive, ExceedLimit
  <2>2. EndingNow = NoEnding /\ EndingNow' = NoEnding
    BY <2>1, OpenHasNoEnding
    DEF StreamInv, ReaderInv, EndingNow, EndingOf, NoEnding, Unlocked
  <2>3. snapshot'.established = snapshot.established \/ snapshot'.established = TRUE
    BY <1>1
    DEF Opens, Receive, SSEEvent, WebSocketMessage, GRPCMessage, ExceedLimit,
        TypeOK, Snapshots, StreamInv, ReaderInv
  <2>4. QED
    BY <2>1, <2>2, <2>3 DEF Observation!Establish, EndingNow
<1>2. CASE FailsToOpen \/ FailLimit \/ ReadEnd \/ ReadCanceled \/ FinishUpdate
  <2>1. /\ reader \in {"opening", "reading", "exceeded", "closing"}
        /\ reader' = "leaving"
    BY <1>2
    DEF FailsToOpen, FailLimit, AfterLimit, ReadEnd, ReadCanceled, FinishUpdate
  <2>2. EndingNow = NoEnding
    BY <2>1, OpenHasNoEnding
  <2>3. EndingNow' = EndingOf(snapshot')
    BY <2>1 DEF EndingNow, Unlocked
  <2>4. EndingOf(snapshot') \in [closedAt : Times, proper : BOOLEAN, error : Errors]
    BY <2>1 DEF EndingOf, StreamInv, TypeOK, Snapshots, ReaderInv, Ended
  <2>5. snapshot'.established = snapshot.established
    BY <1>2
    DEF FailsToOpen, FailLimit, ReadEnd, ReadCanceled, FinishUpdate, Failed,
        StreamInv, TypeOK, Snapshots
  <2>6. QED
    BY <2>1, <2>2, <2>3, <2>4, <2>5 DEF Observation!End, EndingNow
<1>3. CASE ReceiveFails
  <2>1. reader = "reading" /\ reader' = "closing"
    BY <1>3 DEF ReceiveFails
  <2>2. EndingNow = NoEnding /\ EndingNow' = NoEnding
    BY <2>1, OpenHasNoEnding DEF EndingNow, Unlocked
  <2>3. snapshot'.established = snapshot.established
    BY <1>3 DEF ReceiveFails, Failed, StreamInv, TypeOK, Snapshots
  <2>4. QED
    BY <2>1, <2>2, <2>3 DEF EndingNow
<1>4. CASE CloseDone
  <2>1. reader = "leaving" /\ reader' = "done" /\ snapshot' = snapshot
    BY <1>4 DEF CloseDone
  <2>2. EndingNow # NoEnding /\ EndingNow' = EndingNow
    BY <2>1, EndedHasEnding DEF EndingNow, Unlocked
  <2>3. QED
    BY <2>1, <2>2 DEF Observation!CloseDone, EndingNow
<1>5. QED
  BY <1>1, <1>2, <1>3, <1>4 DEF Reader

LEMMA StepRefines ==
    StreamInv /\ StreamInv' /\ [Next]_vars
        => [Observation!Next]_(Observation!vars)
<1> SUFFICES ASSUME StreamInv, StreamInv', [Next]_vars
             PROVE  [Observation!Next]_(Observation!vars)
  OBVIOUS
<1>1. CASE Reader
  BY <1>1, ReaderRefines
<1>2. CASE UNCHANGED <<snapshot, reader>>
  BY <1>2 DEF Observation!vars, Unlocked
<1>3. CASE Caller
  BY <1>2, <1>3, CallerKeepsEvidence
<1>4. QED
  BY <1>1, <1>2, <1>3
  DEF Next, Terminated, PeerEnds, TimerFires, Overdue, Interrupt, vars

\* Each reader, whatever its protocol, is an observation: established at most
\* once and before its end, ended once, and done only after that.
THEOREM StreamImplementsObservation == SafeSpec => ImplementsObservation
<1>1. QED
  BY StreamInvInit, StreamInvNext, ObservationInit, StepRefines, PTL
  DEF SafeSpec, ImplementsObservation, Observation!Spec
=============================================================================
