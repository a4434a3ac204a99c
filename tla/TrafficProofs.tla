---------------------------- MODULE TrafficProofs ----------------------------
(***************************************************************************)
(* What Traffic promises for every Count, Concurrency, driver, phase and   *)
(* policy.  PoolInv says where each id is (in the channel, held by one     *)
(* worker, active, recorded) and is inductive by itself; CallerInv adds    *)
(* what lifecycle.run may conclude from its snapshots.                     *)
(***************************************************************************)
EXTENDS Traffic, FiniteSetTheorems, TLAPS

USE TrafficAssumption DEF TrafficAssumption, Ids, Workers, NoResult

\* A worker past the receive holds an id that has left the channel.
JobInv ==
    \A w \in Workers : pc[w] \in {"taken", "busy"} => job[w] \in 1..next - 1

DataInv == DataOK /\ JobInv

Holds(w) == pc[w] \in {"taken", "busy"}

\* no two workers hold the same id
HeldOnce ==
    \A v, w \in Workers : Holds(v) /\ Holds(w) /\ v # w => job[v] # job[w]

\* an id is begun once; the active ids are those of the busy workers
HeldState ==
    /\ \A w \in Workers : pc[w] = "taken" => job[w] \notin Begun
    /\ \A w \in Workers : pc[w] = "busy" => job[w] \in active
    /\ \A id \in active : \E w \in Workers : pc[w] = "busy" /\ job[w] = id
    /\ active \cap Recorded = {}

\* ids are begun after they left the channel, and none is lost before a stop
Received ==
    /\ \A id \in Begun : id < next
    /\ ~stopped => \A id \in 1..next - 1 :
                      \/ id \in Begun
                      \/ \E w \in Workers : pc[w] = "taken" /\ job[w] = id

\* workers leave an empty channel, and done follows the last of them
Leaving ==
    /\ \A w \in Workers : pc[w] = "left" => next = Count + 1
    /\ done => \A w \in Workers : pc[w] = "left"

PoolInv == HeldOnce /\ HeldState /\ Received /\ Leaving

\* lifecycle.run stops only the initial phase, and only after WaitStarted
StopOrder ==
    /\ caller \in {"starting", "running"} => ~stopped
    /\ phase = "post_signal" => ~stopped /\ caller # "stopped"
    /\ phase = "initial" /\ caller \in {"stopped", "draining", "cutting", "collected"}
        => stopped

\* what was collected stays the result
CollectedOK ==
    /\ caller # "collected" => \A id \in Ids : collected[id] = NoResult
    /\ \A id \in Ids : collected[id] # NoResult => results[id] = collected[id]

\* what is still active belongs to every snapshot taken so far
SnapshotsOK ==
    phase = "initial" =>
        /\ caller \in {"starting", "running", "stopped"} => confirmed = {}
        /\ caller = "stopped" => active \subseteq before
        /\ caller \in {"draining", "cutting", "collected"} => active \subseteq confirmed
        /\ confirmed \subseteq before
        /\ caller = "collected" =>
            \A id \in Begun : collected[id] = NoResult => id \in confirmed

CallerInv ==
    StopOrder /\ CollectedOK /\ SnapshotsOK /\ waited # "finished_first"

\* Ids and each of its subsets are finite, so the counts make sense.
LEMMA IdsFinite == \A S \in SUBSET Ids : IsFiniteSet(S)
<1>1. IsFiniteSet(Ids)
  BY FS_Interval
<1>2. QED BY <1>1, FS_Subset

------------------------------------------------------------------------------
\* Type correctness

LEMMA FlagsInit == Init => FlagsOK
  BY DEF Init, FlagsOK

LEMMA FlagsNext == FlagsOK /\ [Next]_vars => FlagsOK'
<1> SUFFICES ASSUME FlagsOK, [Next]_vars PROVE FlagsOK'
  OBVIOUS
<1> USE DEF FlagsOK, pool, contexts, snapshots
<1>1. ASSUME NEW w \in Workers, Worker(w) PROVE FlagsOK'
  BY <1>1, Zenon DEF Worker, Take, Leave, Begin, Skip, Finish
<1>2. CASE CloseDone \/ Interrupt \/ UNCHANGED vars
  BY <1>2, Zenon DEF CloseDone, Interrupt, vars
<1>3. CASE Caller
  BY <1>3, Zenon
  DEF Caller, WaitStarted, StopAndSnapshot, StopExited, ConfirmInflight,
      ConfirmExhausted, AwaitPostSignal, CutOff, Collect, Abandon
<1>4. QED
  BY <1>1, <1>2, <1>3 DEF Next, Terminated

LEMMA DataInit == Init => DataInv
  BY DEF Init, DataInv, JobInv, DataOK, ResultsMap, WorkerStates, CallerStates

LEMMA DataNext == DataInv /\ [Next]_vars => DataInv'
<1> SUFFICES ASSUME DataInv, [Next]_vars PROVE DataInv'
  OBVIOUS
<1> USE DEF DataInv, JobInv, DataOK, ResultsMap, WorkerStates, CallerStates,
            pool, contexts, snapshots
<1>1. ASSUME NEW w \in Workers, Take(w) PROVE DataInv'
  BY <1>1 DEF Take, HasJob
<1>2. ASSUME NEW w \in Workers, Leave(w) PROVE DataInv'
  BY <1>2 DEF Leave
<1>3. ASSUME NEW w \in Workers, Begin(w) PROVE DataInv'
  <2>1. job[w] \in Ids
    BY <1>3 DEF Begin
  <2>2. active' \in SUBSET Ids
    BY <1>3, <2>1 DEF Begin
  <2>3. pc' \in [Workers -> WorkerStates]
    BY <1>3 DEF Begin
  <2>4. JobInv'
    BY <1>3 DEF Begin
  <2>5. QED BY <1>3, <2>2, <2>3, <2>4 DEF Begin
<1>4. ASSUME NEW w \in Workers, Skip(w) PROVE DataInv'
  BY <1>4 DEF Skip, Idle
<1>5. ASSUME NEW w \in Workers, Finish(w) PROVE DataInv'
  <2>1. active' \in SUBSET Ids
    BY <1>5 DEF Finish, Deactivate
  <2>2. results' \in ResultsMap
    BY <1>5 DEF Finish, Record
  <2>3. pc' \in [Workers -> WorkerStates]
    BY <1>5 DEF Finish, Idle
  <2>4. JobInv'
    BY <1>5 DEF Finish, Idle
  <2>5. QED BY <1>5, <2>1, <2>2, <2>3, <2>4 DEF Finish
<1>6. CASE CloseDone \/ Interrupt
  BY <1>6 DEF CloseDone, Interrupt
<1>7. CASE Caller
  <2>1. CASE WaitStarted
    BY <2>1 DEF WaitStarted, WaitAnswers
  <2>2. CASE StopAndSnapshot \/ StopExited
    BY <2>2 DEF StopAndSnapshot, StopExited
  <2>3. CASE ConfirmInflight \/ ConfirmExhausted
    BY <2>3 DEF ConfirmInflight, ConfirmExhausted, ActiveSnapshot
  <2>4. CASE AwaitPostSignal \/ CutOff \/ Collect \/ Abandon
    BY <2>4 DEF AwaitPostSignal, CutOff, Collect, Abandon
  <2>5. QED BY <1>7, <2>1, <2>2, <2>3, <2>4 DEF Caller
<1>8. CASE UNCHANGED vars
  BY <1>8 DEF vars
<1>9. QED
  BY <1>1, <1>2, <1>3, <1>4, <1>5, <1>6, <1>7, <1>8
  DEF Next, Worker, Terminated

\* Every variable keeps its type: in particular results and snapshots only
\* ever name ids of the phase.
THEOREM TypeCorrect == SafeSpec => []TypeOK
<1>1. FlagsOK /\ DataInv => TypeOK
  BY DEF TypeOK, DataInv
<1>2. QED
  BY FlagsInit, FlagsNext, DataInit, DataNext, <1>1, PTL DEF SafeSpec

------------------------------------------------------------------------------
\* Where each id is

LEMMA PoolInit == Init => PoolInv
  BY DEF Init, PoolInv, HeldOnce, HeldState, Received, Leaving, Holds, Begun, Recorded

LEMMA PoolNext == DataInv /\ PoolInv /\ [Next]_vars => PoolInv'
<1> SUFFICES ASSUME DataInv, PoolInv, [Next]_vars PROVE PoolInv'
  OBVIOUS
<1> USE DEF DataInv, DataOK, JobInv, ResultsMap, WorkerStates,
            PoolInv, HeldOnce, HeldState, Received, Leaving, Holds, Begun, Recorded
<1>1. ASSUME NEW w \in Workers, Take(w) PROVE PoolInv'
  <2>1. HeldOnce'
    BY <1>1 DEF Take, HasJob
  <2>2. HeldState'
    BY <1>1 DEF Take, HasJob
  <2>3. Received'
    BY <1>1 DEF Take, HasJob
  <2>4. Leaving'
    BY <1>1 DEF Take, HasJob
  <2>5. QED BY <2>1, <2>2, <2>3, <2>4
<1>2. ASSUME NEW w \in Workers, Leave(w) PROVE PoolInv'
  <2>1. HeldOnce' /\ HeldState'
    BY <1>2 DEF Leave
  <2>2. Received' /\ Leaving'
    BY <1>2 DEF Leave
  <2>3. QED BY <2>1, <2>2
<1>3. ASSUME NEW w \in Workers, Begin(w) PROVE PoolInv'
  <2>1. HeldOnce'
    BY <1>3 DEF Begin
  <2>2. HeldState'
    BY <1>3 DEF Begin
  <2>3. Received'
    BY <1>3 DEF Begin
  <2>4. Leaving'
    BY <1>3 DEF Begin
  <2>5. QED BY <2>1, <2>2, <2>3, <2>4
<1>4. ASSUME NEW w \in Workers, Skip(w) PROVE PoolInv'
  <2>1. HeldOnce' /\ HeldState'
    BY <1>4 DEF Skip, Idle
  <2>2. Received'
    BY <1>4 DEF Skip, Idle
  <2>3. Leaving'
    BY <1>4 DEF Skip, Idle
  <2>4. QED BY <2>1, <2>2, <2>3
<1>5. ASSUME NEW w \in Workers, Finish(w) PROVE PoolInv'
  <2>1. HeldOnce'
    BY <1>5 DEF Finish, Idle
  <2>2. HeldState'
    BY <1>5 DEF Finish, Idle, Record, Deactivate, Endings
  <2>3. Received'
    BY <1>5 DEF Finish, Idle, Record, Deactivate, Endings
  <2>4. Leaving'
    BY <1>5 DEF Finish, Idle
  <2>5. QED BY <2>1, <2>2, <2>3, <2>4
<1>6. CASE CloseDone
  <2>1. HeldOnce' /\ HeldState' /\ Received'
    BY <1>6 DEF CloseDone
  <2>2. Leaving'
    BY <1>6 DEF CloseDone, AllLeft
  <2>3. QED BY <2>1, <2>2
<1>7. CASE StopAndSnapshot \/ StopExited
  <2>1. UNCHANGED <<next, pc, job, active, results, done>>
    BY <1>7, Zenon DEF StopAndSnapshot, StopExited
  <2>2. ~(~stopped')
    BY <1>7, Zenon DEF StopAndSnapshot, StopExited
  <2>3. HeldOnce' /\ HeldState' /\ Leaving'
    BY <2>1
  <2>4. Received'
    BY <2>1, <2>2
  <2>5. QED BY <2>3, <2>4
<1>8. CASE \/ WaitStarted \/ ConfirmInflight \/ ConfirmExhausted
           \/ AwaitPostSignal \/ CutOff \/ Collect \/ Abandon
           \/ Interrupt \/ UNCHANGED vars
  <2>1. UNCHANGED pool
    BY <1>8
    DEF WaitStarted, ConfirmInflight, ConfirmExhausted, AwaitPostSignal,
        CutOff, Collect, Abandon, Interrupt, vars
  <2>2. QED BY <2>1 DEF pool
<1>9. QED
  BY <1>1, <1>2, <1>3, <1>4, <1>5, <1>6, <1>7, <1>8
  DEF Next, Worker, Caller, Terminated

------------------------------------------------------------------------------
\* What the caller may conclude

\* The pool gives no second chance to a done phase that began nothing.
LEMMA DoneBegan == DataInv /\ PoolInv /\ ~stopped /\ done => Recorded = Ids
<1> SUFFICES ASSUME DataInv, PoolInv, ~stopped, done PROVE Recorded = Ids
  OBVIOUS
<1>1. next = Count + 1 /\ active = {}
  BY DEF DataInv, DataOK, PoolInv, HeldState, Leaving
<1>2. \A id \in 1..next - 1 : id \in Begun
  BY DEF PoolInv, Received, Leaving
<1>3. QED BY <1>1, <1>2 DEF Begun, Recorded

CountInv == count = Cardinality(Begun)

LEMMA CountInit == Init => CountInv
<1> SUFFICES ASSUME Init PROVE CountInv
  OBVIOUS
<1>1. Begun = {}
  BY DEF Init, Begun, Recorded
<1>2. QED BY <1>1, FS_EmptySet DEF Init, CountInv

LEMMA CountNext == DataInv /\ PoolInv /\ CountInv /\ [Next]_vars => CountInv'
<1> SUFFICES ASSUME DataInv, PoolInv, CountInv, [Next]_vars PROVE CountInv'
  OBVIOUS
<1> USE DEF CountInv
<1>1. ASSUME NEW w \in Workers, Begin(w) PROVE CountInv'
  <2>1. Begun \in SUBSET Ids /\ IsFiniteSet(Begun)
    BY IdsFinite DEF Begun, Recorded, DataInv, DataOK
  <2>2. job[w] \notin Begun
    BY <1>1 DEF Begin, PoolInv, HeldState
  <2>3. Begun' = Begun \cup {job[w]}
    BY <1>1 DEF Begin, Begun, Recorded
  <2>4. Cardinality(Begun') = Cardinality(Begun) + 1
    BY <2>1, <2>2, <2>3, FS_AddElement
  <2>5. count' = count + 1
    BY <1>1 DEF Begin
  <2>6. QED BY <2>4, <2>5
<1>2. ASSUME NEW w \in Workers, Finish(w) PROVE CountInv'
  <2>1. job[w] \in active
    BY <1>2 DEF Finish, PoolInv, HeldState
  <2>2. job[w] \in Ids
    BY <2>1 DEF DataInv, DataOK
  <2>3. Recorded' = Recorded \cup {job[w]}
    BY <1>2, <2>2 DEF Finish, Record, Recorded, Endings, DataInv, DataOK, ResultsMap
  <2>4. Begun' = Begun
    BY <1>2, <2>1, <2>3 DEF Finish, Deactivate, Begun
  <2>5. QED BY <1>2, <2>4 DEF Finish
<1>3. ASSUME UNCHANGED <<active, results, count>> PROVE CountInv'
  BY <1>3 DEF Begun, Recorded
<1>4. ASSUME NEW w \in Workers, Take(w) \/ Leave(w) \/ Skip(w)
      PROVE UNCHANGED <<active, results, count>>
  BY <1>4, Zenon DEF Take, Leave, Skip
<1>5. ASSUME CloseDone \/ Caller \/ Interrupt \/ UNCHANGED vars
      PROVE UNCHANGED <<active, results, count>>
  BY <1>5, Zenon
  DEF CloseDone, Caller, Interrupt, vars, pool, WaitStarted, StopAndSnapshot,
      StopExited, ConfirmInflight, ConfirmExhausted, AwaitPostSignal, CutOff,
      Collect, Abandon
<1>6. QED
  BY <1>1, <1>2, <1>3, <1>4, <1>5 DEF Next, Worker, Terminated

\* A pool serves one phase.
LEMMA PhaseKept == [Next]_vars => phase' = phase
<1>1. ASSUME NEW w \in Workers, Worker(w) PROVE phase' = phase
  BY <1>1, Zenon DEF Worker, Take, Leave, Begin, Skip, Finish
<1>2. Caller => phase' = phase
  BY Zenon
  DEF Caller, WaitStarted, StopAndSnapshot, StopExited, ConfirmInflight,
      ConfirmExhausted, AwaitPostSignal, CutOff, Collect, Abandon
<1>3. CloseDone \/ Interrupt \/ UNCHANGED vars => phase' = phase
  BY Zenon DEF CloseDone, Interrupt, vars
<1>4. QED BY <1>1, <1>2, <1>3 DEF Next, Terminated

LEMMA CallerInit == Init => CallerInv
<1> SUFFICES ASSUME Init PROVE CallerInv
  OBVIOUS
<1>1. StopOrder
  BY Zenon DEF Init, StopOrder
<1>2. CollectedOK
  BY DEF Init, CollectedOK
<1>3. SnapshotsOK
  BY DEF Init, SnapshotsOK
<1>4. QED BY <1>1, <1>2, <1>3 DEF Init, CallerInv

LEMMA StopOrderNext == StopOrder /\ [Next]_vars => StopOrder'
<1> SUFFICES ASSUME StopOrder, [Next]_vars PROVE StopOrder'
  OBVIOUS
<1> USE DEF StopOrder
<1>0. phase' = phase
  BY PhaseKept
<1>1. ASSUME UNCHANGED <<caller, stopped>> PROVE StopOrder'
  BY <1>0, <1>1
<1>2. ASSUME NEW w \in Workers, Worker(w) PROVE UNCHANGED <<caller, stopped>>
  BY <1>2, Zenon DEF Worker, Take, Leave, Begin, Skip, Finish
<1>3. CASE CloseDone \/ Interrupt \/ UNCHANGED vars
  BY <1>3, <1>1, Zenon DEF CloseDone, Interrupt, vars, pool
<1>4. CASE WaitStarted
  <2>1. UNCHANGED stopped /\ caller = "starting" /\ caller' \in {"running", "abandoned"}
    BY <1>4 DEF WaitStarted, pool
  <2>2. QED BY <2>1
<1>5. CASE StopAndSnapshot \/ StopExited
  <2>1. ~(~stopped') /\ phase = "initial" /\ caller' \in {"stopped", "draining"}
    BY <1>5, Zenon DEF StopAndSnapshot, StopExited
  <2>2. QED BY <1>0, <2>1
<1>6. CASE \/ ConfirmInflight \/ ConfirmExhausted \/ AwaitPostSignal
           \/ CutOff \/ Collect \/ Abandon
  <2>1. /\ UNCHANGED stopped
        /\ \/ caller = "stopped" /\ caller' = "draining"
           \/ phase = "post_signal" /\ caller' = "draining"
           \/ caller = "draining" /\ caller' = "cutting"
           \/ caller \in {"draining", "cutting"} /\ caller' = "collected"
           \/ caller' = "abandoned"
    BY <1>6
    DEF ConfirmInflight, ConfirmExhausted, AwaitPostSignal, CutOff, Collect,
        Abandon, pool
  <2>2. QED BY <1>0, <2>1
<1>7. QED
  BY <1>1, <1>2, <1>3, <1>4, <1>5, <1>6 DEF Next, Caller, Terminated

LEMMA CollectedNext ==
  DataInv /\ PoolInv /\ CollectedOK /\ [Next]_vars => CollectedOK'
<1> SUFFICES ASSUME DataInv, PoolInv, CollectedOK, [Next]_vars PROVE CollectedOK'
  OBVIOUS
<1> USE DEF CollectedOK
<1>1. ASSUME NEW w \in Workers, Finish(w) PROVE CollectedOK'
  <2>1. job[w] \in active /\ results[job[w]] = NoResult
    BY <1>1 DEF Finish, PoolInv, HeldState, Recorded, DataInv, DataOK
  <2>2. \A id \in Ids : id # job[w] => results'[id] = results[id]
    BY <1>1 DEF Finish, Record, DataInv, DataOK, ResultsMap
  <2>3. UNCHANGED <<caller, collected>>
    BY <1>1 DEF Finish
  <2>4. QED BY <2>1, <2>2, <2>3
<1>2. CASE Collect
  BY <1>2 DEF Collect, pool
<1>3. ASSUME UNCHANGED <<results, collected>>, caller # "collected"
      PROVE CollectedOK'
  BY <1>3
<1>4. ASSUME UNCHANGED <<caller, results, collected>> PROVE CollectedOK'
  BY <1>4
<1>5. ASSUME NEW w \in Workers, Take(w) \/ Leave(w) \/ Begin(w) \/ Skip(w)
      PROVE UNCHANGED <<caller, results, collected>>
  BY <1>5, Zenon DEF Take, Leave, Begin, Skip
<1>6. CASE CloseDone \/ Interrupt \/ UNCHANGED vars
  BY <1>6, <1>4, Zenon DEF CloseDone, Interrupt, vars, pool
<1>7. CASE \/ WaitStarted \/ StopAndSnapshot \/ StopExited \/ ConfirmInflight
           \/ ConfirmExhausted \/ AwaitPostSignal \/ CutOff \/ Abandon
  <2>1. UNCHANGED <<results, collected>> /\ caller # "collected"
    BY <1>7
    DEF WaitStarted, StopAndSnapshot, StopExited, ConfirmInflight,
        ConfirmExhausted, AwaitPostSignal, CutOff, Abandon, pool
  <2>2. QED BY <1>3, <2>1
<1>8. QED
  BY <1>1, <1>2, <1>4, <1>5, <1>6, <1>7 DEF Next, Worker, Caller, Terminated

LEMMA SnapshotsNext ==
  /\ DataInv /\ PoolInv /\ StopOrder /\ CollectedOK /\ SnapshotsOK
  /\ [Next]_vars
  => SnapshotsOK'
<1> SUFFICES ASSUME DataInv, PoolInv, StopOrder, CollectedOK, SnapshotsOK,
                    [Next]_vars, phase = "initial"
             PROVE SnapshotsOK'
  BY PhaseKept DEF SnapshotsOK
<1> USE DEF SnapshotsOK
\* Whatever the workers do, no request becomes active after the stop, and a
\* result that is there stays there.
<1>1. ASSUME UNCHANGED <<caller, before, confirmed, collected>>,
             \/ active' \subseteq active
             \/ caller \in {"starting", "running", "abandoned"},
             caller = "collected" => Begun' \subseteq Begun
      PROVE SnapshotsOK'
  BY <1>1
<1>2. ASSUME NEW w \in Workers, Begin(w) PROVE SnapshotsOK'
  <2>1. UNCHANGED <<caller, before, confirmed, collected>>
    BY <1>2 DEF Begin, snapshots
  <2>2. caller \in {"starting", "running", "abandoned"}
    BY <1>2 DEF Begin, Admits, StopOrder, DataInv, DataOK, CallerStates
  <2>3. QED BY <1>1, <2>1, <2>2
<1>3. ASSUME NEW w \in Workers, Finish(w) PROVE SnapshotsOK'
  <2>1. UNCHANGED <<caller, before, confirmed, collected>> /\ active' \subseteq active
    BY <1>3 DEF Finish, Deactivate, snapshots
  <2>2. job[w] \in active
    BY <1>3 DEF Finish, PoolInv, HeldState
  <2>3. Recorded' \subseteq Recorded \cup {job[w]}
    BY <1>3 DEF Finish, Record, Recorded, DataInv, DataOK, ResultsMap
  <2>4. Begun' \subseteq Begun
    BY <2>1, <2>2, <2>3 DEF Begun
  <2>5. QED BY <1>1, <2>1, <2>4
<1>4. ASSUME UNCHANGED <<active, results, caller, before, confirmed, collected>>
      PROVE SnapshotsOK'
  BY <1>1, <1>4 DEF Begun, Recorded
<1>5. ASSUME NEW w \in Workers, Take(w) \/ Leave(w) \/ Skip(w) PROVE SnapshotsOK'
  BY <1>4, <1>5, Zenon DEF Take, Leave, Skip, snapshots
<1>6. CASE CloseDone \/ Interrupt \/ UNCHANGED vars
  BY <1>4, <1>6, Zenon DEF CloseDone, Interrupt, vars, pool, snapshots
<1>7. CASE WaitStarted
  BY <1>7 DEF WaitStarted, pool, snapshots
<1>8. CASE StopAndSnapshot \/ StopExited
  BY <1>8 DEF StopAndSnapshot, StopExited
<1>9. CASE ConfirmInflight \/ ConfirmExhausted
  BY <1>9 DEF ConfirmInflight, ConfirmExhausted, ActiveSnapshot, pool
<1>10. CASE Collect
  <2>1. /\ caller \in {"draining", "cutting"} /\ caller' = "collected"
        /\ collected' = results
        /\ UNCHANGED <<active, results, before, confirmed>>
    BY <1>10 DEF Collect, pool, snapshots
  <2>2. active \subseteq confirmed
    BY <2>1
  <2>3. \A id \in Begun : results[id] = NoResult => id \in confirmed
    BY <2>2 DEF Begun, Recorded
  <2>4. UNCHANGED Begun
    BY <2>1 DEF Begun, Recorded
  <2>5. QED BY <2>1, <2>2, <2>3, <2>4
<1>11. CASE AwaitPostSignal \/ CutOff \/ Abandon
  BY <1>11 DEF AwaitPostSignal, CutOff, Abandon, pool, snapshots
<1>12. QED
  BY <1>2, <1>3, <1>5, <1>6, <1>7, <1>8, <1>9, <1>10, <1>11
  DEF Next, Worker, Caller, Terminated

\* WaitStarted runs before anything is stopped, so done implies a count.
LEMMA WaitedNext ==
  /\ DataInv /\ PoolInv /\ CountInv /\ StopOrder /\ waited # "finished_first"
  /\ [Next]_vars
  => waited' # "finished_first"
<1> SUFFICES ASSUME DataInv, PoolInv, CountInv, StopOrder,
                    waited # "finished_first", [Next]_vars
             PROVE waited' # "finished_first"
  OBVIOUS
<1>1. CASE WaitStarted
  <2>1. SUFFICES ASSUME done, count = 0 PROVE FALSE
    BY <1>1 DEF WaitStarted, WaitAnswers
  <2>2. ~stopped
    BY <1>1 DEF WaitStarted, StopOrder
  <2>3. Recorded = Ids
    BY <2>1, <2>2, DoneBegan
  <2>4. Begun \in SUBSET Ids /\ Begun # {} /\ IsFiniteSet(Begun)
    BY <2>3, IdsFinite DEF Begun, Recorded, DataInv, DataOK
  <2>5. count # 0
    BY <2>4, FS_EmptySet DEF CountInv
  <2>6. QED BY <2>1, <2>5
<1>2. CASE ~WaitStarted
  <2>1. UNCHANGED waited
    BY <1>2, Zenon
    DEF Next, Worker, Take, Leave, Begin, Skip, Finish, CloseDone, Caller,
        StopAndSnapshot, StopExited, ConfirmInflight, ConfirmExhausted,
        AwaitPostSignal, CutOff, Collect, Abandon, Interrupt, Terminated, vars
  <2>2. QED BY <2>1
<1>3. QED BY <1>1, <1>2

------------------------------------------------------------------------------
\* The theorems

IInv == FlagsOK /\ DataInv /\ PoolInv /\ CountInv /\ CallerInv

LEMMA Inductive == SafeSpec => []IInv
<1>1. Init => IInv
  BY FlagsInit, DataInit, PoolInit, CountInit, CallerInit DEF IInv
<1>2. IInv /\ [Next]_vars => IInv'
  BY FlagsNext, DataNext, PoolNext, CountNext, StopOrderNext, CollectedNext,
     SnapshotsNext, WaitedNext
  DEF IInv, CallerInv
<1>3. QED BY <1>1, <1>2, PTL DEF SafeSpec

\* report.Traffic.Started counts exactly the active and the recorded requests.
THEOREM StartedExact == SafeSpec => []StartedIsActivePlusRecorded
<1>1. IInv => StartedIsActivePlusRecorded
  BY DEF IInv, PoolInv, HeldState, CountInv, StartedIsActivePlusRecorded
<1>2. QED BY Inductive, <1>1, PTL

\* When the done channel is closed nothing is active, and a phase that was
\* never stopped has all its results.
THEOREM DoneIsSettled == SafeSpec => []DoneMeansSettled
<1>1. IInv => DoneMeansSettled
  <2> SUFFICES ASSUME IInv, done
               PROVE active = {} /\ (~stopped => Recorded = Ids)
    BY DEF DoneMeansSettled
  <2>1. active = {}
    BY DEF IInv, PoolInv, HeldState, Leaving
  <2>2. QED BY <2>1, DoneBegan DEF IInv
<1>2. QED BY Inductive, <1>1, PTL

\* WaitStarted never reports that the phase ended before a request started.
THEOREM WaitStartedSucceeds == SafeSpec => []WaitStartedFindsARequest
<1>1. IInv => WaitStartedFindsARequest
  BY DEF IInv, CallerInv, WaitStartedFindsARequest
<1>2. QED BY Inductive, <1>1, PTL

\* No request begins once admission is stopped.
THEOREM StopIsFinal == SafeSpec => NothingStartsAfterStop
<1>1. IInv /\ [Next]_vars => [stopped => Begun' = Begun]_vars
  <2> SUFFICES ASSUME IInv, [Next]_vars, stopped PROVE Begun' = Begun
    OBVIOUS
  <2>1. ASSUME NEW w \in Workers, Finish(w) PROVE Begun' = Begun
    <3>1. job[w] \in active /\ job[w] \in Ids
      BY <2>1 DEF Finish, IInv, PoolInv, HeldState, DataInv, DataOK
    <3>2. Recorded' = Recorded \cup {job[w]}
      BY <2>1, <3>1
      DEF Finish, Record, Recorded, Endings, IInv, DataInv, DataOK, ResultsMap
    <3>3. QED BY <2>1, <3>1, <3>2 DEF Finish, Deactivate, Begun
  <2>2. ASSUME NEW w \in Workers, Begin(w) PROVE FALSE
    BY <2>2, Zenon DEF Begin, Admits
  <2>3. ASSUME UNCHANGED <<active, results>> PROVE Begun' = Begun
    BY <2>3 DEF Begun, Recorded
  <2>4. ASSUME NEW w \in Workers, Take(w) \/ Leave(w) \/ Skip(w)
        PROVE UNCHANGED <<active, results>>
    BY <2>4, Zenon DEF Take, Leave, Skip
  <2>5. ASSUME CloseDone \/ Caller \/ Interrupt \/ UNCHANGED vars
        PROVE UNCHANGED <<active, results>>
    BY <2>5, Zenon
    DEF CloseDone, Caller, Interrupt, vars, pool, WaitStarted, StopAndSnapshot,
        StopExited, ConfirmInflight, ConfirmExhausted, AwaitPostSignal, CutOff,
        Collect, Abandon
  <2>6. QED BY <2>1, <2>2, <2>3, <2>4, <2>5 DEF Next, Worker, Terminated
<1>2. QED BY Inductive, <1>1, PTL DEF SafeSpec, NothingStartsAfterStop

\* An answer that never came is in the confirmed in-flight set.
THEOREM NoAnswerIsHidden == SafeSpec => []UnansweredIsConfirmed
<1>1. IInv => UnansweredIsConfirmed
  BY DEF IInv, CallerInv, SnapshotsOK, UnansweredIsConfirmed
<1>2. QED BY Inductive, <1>1, PTL

\* What is confirmed at signal delivery has not been answered yet.
THEOREM ConfirmedIsUnanswered == SafeSpec => ConfirmedSpansSignal
<1>1. IInv /\ [Next]_vars =>
        [caller = "stopped" /\ caller' = "draining"
         => confirmed' \cap Recorded' = {}]_vars
  <2> SUFFICES ASSUME IInv, [Next]_vars, caller = "stopped", caller' = "draining"
               PROVE confirmed' \cap Recorded' = {}
    OBVIOUS
  <2>1. ASSUME NEW w \in Workers, Worker(w) PROVE UNCHANGED caller
    BY <2>1, Zenon DEF Worker, Take, Leave, Begin, Skip, Finish
  <2>2. ASSUME CloseDone \/ Interrupt \/ UNCHANGED vars PROVE UNCHANGED caller
    BY <2>2, Zenon DEF CloseDone, Interrupt, vars
  <2>3. CASE ConfirmInflight \/ ConfirmExhausted
    <3>1. confirmed' = active /\ UNCHANGED results
      BY <2>3 DEF ConfirmInflight, ConfirmExhausted, ActiveSnapshot, pool
    <3>2. QED BY <3>1 DEF IInv, PoolInv, HeldState, Recorded
  <2>4. ASSUME \/ WaitStarted \/ StopAndSnapshot \/ StopExited
               \/ CutOff \/ Collect \/ Abandon \/ AwaitPostSignal
        PROVE FALSE
    BY <2>4
    DEF WaitStarted, StopAndSnapshot, StopExited, CutOff, Collect, Abandon,
        AwaitPostSignal
  <2>5. QED
    BY <2>1, <2>2, <2>3, <2>4 DEF Next, Caller, Terminated
<1>2. QED BY Inductive, <1>1, PTL DEF SafeSpec, ConfirmedSpansSignal

\* If both traffic assertions pass, every started request was served.
THEOREM PassIsEarned == SafeSpec => []PassMeansAllServed
<1>1. IInv => PassMeansAllServed
  <2> SUFFICES ASSUME IInv, phase = "initial", MaxFailed = 0, caller = "collected",
                      FailedRequestsPass, InflightCompletePass,
                      NEW id \in Begun
               PROVE results[id] = "accepted"
    BY DEF PassMeansAllServed
  <2>1. Failed \in SUBSET Ids /\ IsFiniteSet(Failed)
    BY IdsFinite DEF Failed, Completed
  <2>2. Cardinality(Failed) = 0
    BY <2>1, FS_CardinalityType DEF FailedRequestsPass
  <2>3. Failed = {}
    BY <2>1, <2>2, FS_EmptySet
  <2>4. id \in Ids
    BY DEF IInv, DataInv, DataOK, Begun, Recorded
  <2>5. collected[id] # NoResult
    <3>1. SUFFICES ASSUME collected[id] = NoResult PROVE FALSE
      OBVIOUS
    <3>2. id \in confirmed
      BY <3>1 DEF IInv, CallerInv, SnapshotsOK
    <3>3. id \notin Successful
      BY <3>1 DEF Successful
    <3>4. QED BY <3>2, <3>3 DEF InflightCompletePass, InflightBad
  <2>6. collected[id] = "accepted"
    BY <2>3, <2>4, <2>5 DEF Failed, Completed, Successful
  <2>7. QED BY <2>4, <2>5, <2>6 DEF IInv, CallerInv, CollectedOK
<1>2. QED BY Inductive, <1>1, PTL

LEMMA ActiveBounded == IInv => AtMostConcurrency
<1> SUFFICES ASSUME IInv PROVE Cardinality(active) <= Concurrency
  BY DEF AtMostConcurrency
<1> DEFINE Holder == [id \in active |->
                        CHOOSE w \in Workers : pc[w] = "busy" /\ job[w] = id]
<1>1. \A id \in active : /\ Holder[id] \in Workers
                         /\ job[Holder[id]] = id
  BY DEF IInv, PoolInv, HeldState
<1>2. Holder \in Injection(active, Workers)
  BY <1>1 DEF Injection, IsInjective
<1>3. IsFiniteSet(Workers) /\ Cardinality(Workers) = Concurrency
  BY FS_Interval
<1>4. Cardinality(active) <= Cardinality(Workers)
  BY <1>2, <1>3, FS_Injection
<1>5. QED BY <1>3, <1>4

\* Active requests are held by different workers.
THEOREM ConcurrencyRespected == SafeSpec => []AtMostConcurrency
<1>1. IInv => AtMostConcurrency
  BY ActiveBounded
<1>2. QED BY Inductive, <1>1, PTL

\* A passed post-signal policy is about every configured request, and no
\* later answer contradicts it.
THEOREM PolicyIsFinal == SafeSpec => []PolicyVerdictIsFinal
<1>1. IInv => PolicyVerdictIsFinal
  <2> SUFFICES ASSUME IInv, NEW policy \in {"accept", "reject"},
                      PolicyPass(policy), NEW id \in Ids
               PROVE /\ results[id] # NoResult
                     /\ (results[id] = "accepted") = (policy = "accept")
    BY DEF PolicyVerdictIsFinal
  <2>1. id \in Completed
    BY DEF PolicyPass, AcceptPass, RejectPass
  <2>2. results[id] = collected[id] /\ collected[id] # NoResult
    BY <2>1 DEF Completed, IInv, CallerInv, CollectedOK
  <2>3. CASE policy = "accept"
    BY <2>2, <2>3 DEF PolicyPass, AcceptPass, Successful
  <2>4. CASE policy # "accept"
    <3>1. id \in Failed
      BY <2>4 DEF PolicyPass, RejectPass, Rejected
    <3>2. collected[id] # "accepted"
      BY <3>1 DEF Failed, Successful
    <3>3. QED BY <2>2, <2>4, <3>2
  <2>5. QED BY <2>3, <2>4
<1>2. QED BY Inductive, <1>1, PTL

------------------------------------------------------------------------------
\* Traffic implements TrafficExecution

Status == [id \in Ids |-> StatusOf(id)]

\* A request's abstract status, read off the pool's state.
LEMMA StatusMeaning ==
  ASSUME DataInv, PoolInv, NEW id \in Ids
  PROVE  /\ StatusOf(id) \in Execution!Statuses
         /\ StatusOf(id) = "active" <=> id \in active
         /\ StatusOf(id) = "settled" <=> id \in Recorded
         /\ StatusOf(id) = "queued" <=>
              id \notin Begun /\ (id >= next \/ id \in Held)
<1>1. ~(id \in active /\ id \in Recorded)
  BY DEF PoolInv, HeldState
<1>2. results[id] # NoResult <=> id \in Recorded
  BY DEF Recorded
<1>3. QED
  BY <1>1, <1>2 DEF StatusOf, Execution!Statuses, Begun

\* A step that changes the status of one id changes the function at one point.
LEMMA FunctionUpdate ==
  ASSUME NEW S, NEW T, NEW f \in [S -> T], NEW g \in [S -> T], NEW j \in S, NEW v,
         g[j] = v, \A i \in S : i # j => g[i] = f[i]
  PROVE  g = [f EXCEPT ![j] = v]
  OBVIOUS

LEMMA StatusType ==
  /\ Status \in [Ids -> Execution!Statuses]
  /\ Status' \in [Ids -> Execution!Statuses]
  BY DEF Status, StatusOf, Execution!Statuses

\* The instance has its own copy of Cardinality.
LEMMA SameCardinality == \A S : Execution!Cardinality(S) = Cardinality(S)
  BY Zenon DEF Execution!Cardinality, Cardinality

LEMMA RefinesInit == Init => Execution!Init
<1> SUFFICES ASSUME Init PROVE Execution!Init
  OBVIOUS
<1>1. \A id \in Ids : StatusOf(id) = "queued"
  BY DEF Init, StatusOf
<1>2. QED BY <1>1, Zenon DEF Execution!Init, Init

LEMMA RefinesNext == IInv /\ AtMostConcurrency' /\ [Next]_vars => [Execution!Next]_(Execution!vars)
<1> SUFFICES ASSUME IInv, AtMostConcurrency', [Next]_vars
             PROVE Execution!Next \/ UNCHANGED Execution!vars
  BY DEF Execution!vars
<1> USE DEF IInv
<1>1. ASSUME NEW w \in Workers, Take(w) PROVE UNCHANGED Execution!vars
  <2>1. \A id \in Ids : (id >= next \/ id \in Held) <=> (id >= next \/ id \in Held)'
    BY <1>1 DEF Take, Held, HasJob, DataInv, DataOK
  <2>2. UNCHANGED <<active, results, stopped>>
    BY <1>1 DEF Take
  <2>3. \A id \in Ids : StatusOf(id)' = StatusOf(id)
    BY <2>1, <2>2 DEF StatusOf
  <2>4. QED BY <2>2, <2>3, Zenon DEF Execution!vars
<1>2. ASSUME NEW w \in Workers, Begin(w) PROVE Execution!Begin(job[w])
  <2>1. job[w] \in Ids /\ job[w] \notin Begun /\ job[w] \in Held
    BY <1>2 DEF Begin, DataInv, DataOK, JobInv, PoolInv, HeldState, Held
  <2>2. ~stopped /\ active' = active \cup {job[w]} /\ UNCHANGED <<next, job, results, stopped>>
    BY <1>2, Zenon DEF Begin, Admits
  <2>3. pc' = [pc EXCEPT ![w] = "busy"] /\ pc[w] = "taken"
    BY <1>2 DEF Begin
  <2>4. \A id \in Ids : id # job[w] => (id \in Held <=> id \in Held')
    BY <2>2, <2>3 DEF Held, DataInv, DataOK, WorkerStates
  <2>5. \A id \in Ids : id # job[w] => StatusOf(id)' = StatusOf(id)
    BY <2>2, <2>4 DEF StatusOf
  <2>6. Status'[job[w]] = "active"
    BY <2>1, <2>2 DEF Status, StatusOf
  <2>7. StatusOf(job[w]) = "queued"
    BY <2>1, StatusMeaning
  <2>8. Status' = [Status EXCEPT ![job[w]] = "active"]
    <3>1. \A id \in Ids : id # job[w] => Status'[id] = Status[id]
      BY <2>5 DEF Status
    <3>2. QED BY <2>1, <2>6, <3>1, StatusType, FunctionUpdate
  <2>9. Execution!Cardinality(Execution!InStatus("active")) < Concurrency
    <3>1. Execution!InStatus("active") = active
      BY StatusMeaning DEF Execution!InStatus, DataInv, DataOK
    <3>2. IsFiniteSet(active) /\ job[w] \notin active
      BY <2>1, IdsFinite DEF DataInv, DataOK, Begun
    <3>3. Cardinality(active') = Cardinality(active) + 1
      BY <2>2, <3>2, FS_AddElement
    <3>4. Cardinality(active') <= Concurrency
      BY DEF AtMostConcurrency
    <3>5. Cardinality(active) \in Nat
      BY <3>2, FS_CardinalityType
    <3>6. QED BY <3>1, <3>3, <3>4, <3>5, SameCardinality
  <2>10. Status[job[w]] = "queued"
    BY <2>1, <2>7 DEF Status
  <2>11. QED
    BY <2>1, <2>2, <2>8, <2>9, <2>10, Zenon DEF Execution!Begin, Status
<1>3. ASSUME NEW w \in Workers, Skip(w) PROVE Execution!Drop(job[w])
  <2>1. job[w] \in Ids /\ job[w] \notin Begun /\ job[w] \in Held /\ job[w] < next
    BY <1>3 DEF Skip, DataInv, DataOK, JobInv, PoolInv, HeldState, Held
  <2>2. stopped /\ UNCHANGED <<next, job, active, results, stopped>>
    BY <1>3, Zenon DEF Skip
  <2>3. pc' = [pc EXCEPT ![w] = "idle"] /\ pc[w] = "taken"
    BY <1>3 DEF Skip, Idle
  <2>4. \A id \in Ids : id # job[w] => (id \in Held <=> id \in Held')
    BY <2>2, <2>3 DEF Held, DataInv, DataOK, WorkerStates
  <2>5. \A id \in Ids : id # job[w] => StatusOf(id)' = StatusOf(id)
    BY <2>2, <2>4 DEF StatusOf
  <2>6. job[w] \notin Held'
    BY <2>1, <2>2, <2>3 DEF Held, PoolInv, HeldOnce, Holds, DataInv, DataOK, WorkerStates
  <2>7. ~(job[w] >= next)
    BY <2>1 DEF DataInv, DataOK
  <2>8. Status'[job[w]] = "dropped"
    BY <2>1, <2>2, <2>6, <2>7 DEF Status, StatusOf, Begun, Recorded
  <2>9. StatusOf(job[w]) = "queued"
    BY <2>1, StatusMeaning
  <2>10. Status' = [Status EXCEPT ![job[w]] = "dropped"]
    <3>1. \A id \in Ids : id # job[w] => Status'[id] = Status[id]
      BY <2>5 DEF Status
    <3>2. QED BY <2>1, <2>8, <3>1, StatusType, FunctionUpdate
  <2>11. QED
    BY <2>1, <2>2, <2>9, <2>10, Zenon DEF Execution!Drop, Status
<1>4. ASSUME NEW w \in Workers, Finish(w) PROVE Execution!Settle(job[w])
  <2>1. job[w] \in Ids /\ job[w] \in active
    BY <1>4 DEF Finish, DataInv, DataOK, PoolInv, HeldState
  <2>2. active' = active \ {job[w]} /\ UNCHANGED <<next, job, stopped>>
    BY <1>4, Zenon DEF Finish, Deactivate
  <2>3. /\ results'[job[w]] # NoResult
        /\ \A id \in Ids : id # job[w] => results'[id] = results[id]
    BY <1>4, <2>1 DEF Finish, Record, Endings, DataInv, DataOK, ResultsMap
  <2>4. pc' = [pc EXCEPT ![w] = "idle"] /\ pc[w] = "busy"
    BY <1>4 DEF Finish, Idle
  <2>5. \A id \in Ids : id \in Held <=> id \in Held'
    BY <2>2, <2>4 DEF Held, DataInv, DataOK, WorkerStates
  <2>6. \A id \in Ids : id # job[w] => StatusOf(id)' = StatusOf(id)
    BY <2>2, <2>3, <2>5 DEF StatusOf
  <2>7. Status'[job[w]] = "settled"
    BY <2>1, <2>2, <2>3 DEF Status, StatusOf
  <2>8. StatusOf(job[w]) = "active"
    BY <2>1 DEF StatusOf
  <2>9. Status' = [Status EXCEPT ![job[w]] = "settled"]
    <3>1. \A id \in Ids : id # job[w] => Status'[id] = Status[id]
      BY <2>6 DEF Status
    <3>2. QED BY <2>1, <2>7, <3>1, StatusType, FunctionUpdate
  <2>10. QED
    BY <2>1, <2>2, <2>8, <2>9, Zenon DEF Execution!Settle, Status
<1>5. ASSUME UNCHANGED <<next, pc, job, active, results>> PROVE UNCHANGED Status
  BY <1>5 DEF Status, StatusOf, Held
<1>6. CASE StopAndSnapshot \/ StopExited
  <2>1. UNCHANGED <<next, pc, job, active, results>> /\ stopped'
    BY <1>6, Zenon DEF StopAndSnapshot, StopExited
  <2>2. Execution!StopAndSnapshot
    BY <2>1, <1>5, Zenon DEF Execution!StopAndSnapshot, Status
  <2>3. QED BY <2>2 DEF Execution!Next
<1>7. ASSUME NEW w \in Workers, Leave(w) PROVE UNCHANGED Execution!vars
  <2>1. UNCHANGED <<next, job, active, results, stopped>>
    BY <1>7, Zenon DEF Leave
  <2>2. \A v \in Workers : pc'[v] = "taken" <=> pc[v] = "taken"
    BY <1>7 DEF Leave, DataInv, DataOK
  <2>3. \A id \in Ids : id \in Held <=> id \in Held'
    BY <2>1, <2>2 DEF Held
  <2>4. \A id \in Ids : StatusOf(id)' = StatusOf(id)
    BY <2>1, <2>3 DEF StatusOf
  <2>5. QED BY <2>1, <2>4, Zenon DEF Execution!vars
<1>8. CASE \/ CloseDone \/ Interrupt \/ WaitStarted \/ ConfirmInflight
           \/ ConfirmExhausted \/ AwaitPostSignal \/ CutOff \/ Collect \/ Abandon
           \/ UNCHANGED vars
  <2>1. UNCHANGED <<next, pc, job, active, results, stopped>>
    BY <1>8, Zenon
    DEF CloseDone, Interrupt, WaitStarted, ConfirmInflight, ConfirmExhausted,
        AwaitPostSignal, CutOff, Collect, Abandon, pool, vars
  <2>2. QED BY <2>1, <1>5, Zenon DEF Execution!vars, Status
<1>9. ASSUME NEW w \in Workers, Worker(w)
      PROVE Execution!Next \/ UNCHANGED Execution!vars
  <2>1. Begin(w) \/ Skip(w) \/ Finish(w) => job[w] \in Ids
    BY DEF Begin, Skip, Finish, DataInv, DataOK, JobInv
  <2>2. QED
    BY <1>1, <1>2, <1>3, <1>4, <1>7, <1>9, <2>1, Zenon DEF Worker, Execution!Next
<1>10. QED
  BY <1>6, <1>8, <1>9, Zenon DEF Next, Caller, Terminated

\* The HTTP and gRPC drivers keep the contract of trafficExecution.
THEOREM ImplementsTrafficExecution == SafeSpec => ImplementsExecution
<1>1. IInv /\ AtMostConcurrency' /\ [Next]_vars => [Execution!Next]_(Execution!vars)
  BY RefinesNext
<1>2. QED
  BY RefinesInit, Inductive, ConcurrencyRespected, <1>1, PTL
     DEF SafeSpec, ImplementsExecution, Execution!Spec
==============================================================================
