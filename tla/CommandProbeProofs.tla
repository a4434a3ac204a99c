------------------------- MODULE CommandProbeProofs --------------------------
(***************************************************************************)
(* What the command driver promises for every Count and Concurrency,       *)
(* whatever the processes write and however they end.  PoolInv says who    *)
(* watches which process, and that an id nobody watches is fresh, recorded *)
(* or was never launched.  EvidenceIsClean is inductive next to it: what a *)
(* result says of its process cannot change, because nobody watches it any *)
(* more.                                                                   *)
(***************************************************************************)
EXTENDS CommandProbe, FiniteSetTheorems, TLAPS

USE ProbeAssumption DEF ProbeAssumption, Ids, Workers, NoResult

------------------------------------------------------------------------------
\* The invariant

Holding(w) == pc[w] \in {"taken", "reading", "waiting"}
Held == {id \in Ids : \E w \in Workers : Holding(w) /\ job[w] = id}
Watched == {id \in Ids : \E w \in Workers : Watching(w, id)}

\* The types but for the count, and a worker that holds an id took it.
DataInv ==
    /\ next \in 1..Count + 1
    /\ pc \in [Workers -> {"idle", "taken", "reading", "waiting", "left"}]
    /\ job \in [Workers -> 0..Count]
    /\ \A w \in Workers : Holding(w) => job[w] \in 1..next - 1
    /\ stopped \in BOOLEAN /\ done \in BOOLEAN /\ canceled \in BOOLEAN
    /\ active \in SUBSET Ids /\ timedOut \in SUBSET Ids
    /\ results \in [Ids -> {NoResult, "invalid", "timeout", "canceled",
                            "accepted", "rejected"}]
    /\ protocol \in [Ids -> {"silent", "active", "ok", "failed", "error"}]
    /\ exit \in [Ids -> {"none", "zero", "nonzero", "killed"}]

\* no two workers hold the same id
HeldOnce ==
    \A v, w \in Workers : Holding(v) /\ Holding(w) /\ v # w => job[v] # job[w]

\* what a process that was never launched looks like
Fresh(id) ==
    /\ id \notin active /\ results[id] = NoResult
    /\ protocol[id] = "silent" /\ exit[id] = "none"

FreshInv ==
    /\ \A id \in Ids : id >= next => Fresh(id)
    /\ \A w \in Workers : pc[w] = "taken" => Fresh(job[w])

\* a held id has no result yet, and a process stays watched until it has one
WatchInv ==
    /\ \A w \in Workers : Holding(w) => results[job[w]] = NoResult
    /\ active \subseteq Watched
    /\ \A id \in Ids : exit[id] # "none" => id \in Watched \/ id \in Recorded

LeaveInv == done => \A w \in Workers : pc[w] = "left"

\* Workers leave an empty channel, and as long as admission goes on an id that
\* was taken is held or has a result.
KeptInv ==
    /\ \A w \in Workers : pc[w] = "left" => next = Count + 1
    /\ ~stopped => \A id \in 1..next - 1 : id \in Held \/ id \in Recorded

PoolInv == HeldOnce /\ FreshInv /\ WatchInv /\ LeaveInv /\ KeptInv

\* Every admission is that of a process that said something.
Spoke == {id \in Ids : protocol[id] # "silent"}
CountInv == count \in Nat /\ count <= Cardinality(Spoke)

ProbeInv == DataInv /\ PoolInv /\ EvidenceIsClean /\ CountInv

\* Ids and each of its subsets are finite.
LEMMA IdsFinite ==
    ASSUME NEW S \in SUBSET Ids
    PROVE  /\ IsFiniteSet(S) /\ Cardinality(S) \in Nat
           /\ Cardinality(S) <= Count
<1>1. IsFiniteSet(Ids) /\ Cardinality(Ids) = Count
  BY FS_Interval
<1>2. IsFiniteSet(S) /\ Cardinality(S) <= Cardinality(Ids)
  BY <1>1, FS_Subset
<1>3. QED BY <1>1, <1>2, FS_CardinalityType

------------------------------------------------------------------------------
\* The steps

\* The steps of a worker that speak of the id it holds, and those that the
\* rest of the system takes, leave all else alone.
LEMMA DataNext == DataInv /\ [Next]_vars => DataInv'
<1> SUFFICES ASSUME DataInv, [Next]_vars PROVE DataInv'
  OBVIOUS
<1> USE DEF DataInv, Holding, pool, run, process
<1>1. ASSUME NEW w \in Workers, Take(w) PROVE DataInv'
  BY <1>1 DEF Take, HasJob
<1>2. ASSUME NEW w \in Workers, Leave(w) PROVE DataInv'
  BY <1>2 DEF Leave
<1>3. ASSUME NEW w \in Workers, Launch(w) PROVE DataInv'
  BY <1>3 DEF Launch
<1>4. ASSUME NEW w \in Workers, Skip(w) PROVE DataInv'
  BY <1>4 DEF Skip
<1>5. ASSUME NEW w \in Workers, ReadActive(w) PROVE DataInv'
  <2>1. job[w] \in Ids
    BY <1>5 DEF ReadActive
  <2>2. active' \in SUBSET Ids
    <3>1. active' = active \/ active' = active \cup {job[w]}
      BY <1>5 DEF ReadActive, ProtocolError
    <3>2. QED BY <2>1, <3>1
  <2>3. protocol' \in [Ids -> {"silent", "active", "ok", "failed", "error"}]
    <3>1. PICK said \in {"active", "error"} :
              protocol' = [protocol EXCEPT ![job[w]] = said]
      BY <1>5, Zenon DEF ReadActive, ProtocolError
    <3>2. protocol \in [Ids -> {"silent", "active", "ok", "failed", "error"}]
      OBVIOUS
    <3>3. QED BY <3>1, <3>2
  <2>4. /\ pc' \in [Workers -> {"idle", "taken", "reading", "waiting", "left"}]
        /\ \A v \in Workers : Holding(v)' => Holding(v)
    BY <1>5 DEF ReadActive, ProtocolError
  <2>5. UNCHANGED <<next, job, stopped, results, done, canceled, timedOut, exit>>
    BY <1>5 DEF ReadActive
  <2>6. QED BY <2>2, <2>3, <2>4, <2>5
<1>6. ASSUME NEW w \in Workers, ReadResult(w) PROVE DataInv'
  <2>1. protocol' \in [Ids -> {"silent", "active", "ok", "failed", "error"}]
    <3>1. PICK said \in {"ok", "failed", "error"} :
              protocol' = [protocol EXCEPT ![job[w]] = said]
      BY <1>6, Zenon DEF ReadResult, ProtocolError
    <3>2. protocol \in [Ids -> {"silent", "active", "ok", "failed", "error"}]
      OBVIOUS
    <3>3. QED BY <3>1, <3>2
  <2>2. /\ pc' \in [Workers -> {"idle", "taken", "reading", "waiting", "left"}]
        /\ \A v \in Workers : Holding(v)' => Holding(v)
    BY <1>6 DEF ReadResult, ProtocolError
  <2>3. /\ UNCHANGED <<next, job, stopped, results, done, canceled, timedOut>>
        /\ UNCHANGED <<exit, active>>
    BY <1>6 DEF ReadResult, ProtocolError
  <2>4. QED BY <2>1, <2>2, <2>3
<1>7. ASSUME NEW w \in Workers, ReadMalformed(w) \/ ReadEnd(w) PROVE DataInv'
  <2>1. protocol' \in [Ids -> {"silent", "active", "ok", "failed", "error"}]
    BY <1>7 DEF ReadMalformed, ReadEnd, ProtocolError
  <2>2. /\ pc' \in [Workers -> {"idle", "taken", "reading", "waiting", "left"}]
        /\ \A v \in Workers : Holding(v)' => Holding(v)
    BY <1>7 DEF ReadMalformed, ReadEnd, ProtocolError
  <2>3. /\ UNCHANGED <<next, job, stopped, results, done, canceled, timedOut>>
        /\ UNCHANGED <<exit, active>>
    BY <1>7 DEF ReadMalformed, ReadEnd, ProtocolError
  <2>4. QED BY <2>1, <2>2, <2>3
<1>8. ASSUME NEW w \in Workers, Finish(w) PROVE DataInv'
  <2>1. results' \in [Ids -> {NoResult, "invalid", "timeout", "canceled",
                              "accepted", "rejected"}]
    BY <1>8 DEF Finish, Record, Verdict
  <2>2. active' \in SUBSET Ids
    BY <1>8 DEF Finish
  <2>3. QED BY <1>8, <2>1, <2>2 DEF Finish
<1>9. ASSUME NEW w \in Workers, Exit(w) \/ Kill(w) PROVE DataInv'
  <2>1. PICK e \in {"zero", "nonzero", "killed"} :
            exit' = [exit EXCEPT ![job[w]] = e]
    BY <1>9, Zenon DEF Exit, Kill
  <2>2. UNCHANGED <<pool, run, canceled, timedOut, protocol>>
    BY <1>9 DEF Exit, Kill
  <2>3. QED BY <2>1, <2>2
<1>10. ASSUME NEW w \in Workers, TimeOut(w) PROVE DataInv'
  <2>1. timedOut' \in SUBSET Ids
    <3>1. job[w] \in Ids /\ timedOut' = timedOut \cup {job[w]}
      BY <1>10 DEF TimeOut
    <3>2. QED BY <3>1
  <2>2. QED BY <1>10, <2>1 DEF TimeOut
<1>11. CASE CloseDone \/ Cancel \/ StopAndSnapshot \/ UNCHANGED vars
  BY <1>11 DEF CloseDone, Cancel, StopAndSnapshot, vars
<1>12. QED
  BY <1>1, <1>2, <1>3, <1>4, <1>5, <1>6, <1>7, <1>8, <1>9, <1>10, <1>11
  DEF Next, Worker, Terminated

\* An id is dropped only by Skip, after the stop: every other step that ends
\* the work on it leaves a result.
LEMMA KeptNext == DataInv /\ KeptInv /\ [Next]_vars => KeptInv'
<1> SUFFICES ASSUME DataInv, KeptInv, [Next]_vars PROVE KeptInv'
  OBVIOUS
<1>0. /\ next \in 1..Count + 1
      /\ pc \in [Workers -> {"idle", "taken", "reading", "waiting", "left"}]
      /\ job \in [Workers -> 0..Count]
      /\ \A w \in Workers : Holding(w) => job[w] \in 1..next - 1
      /\ results \in [Ids -> {NoResult, "invalid", "timeout", "canceled",
                              "accepted", "rejected"}]
  BY DEF DataInv
<1>1. ASSUME NEW w \in Workers, Take(w) PROVE KeptInv'
  <2>1. /\ next \in Ids /\ next' = next + 1 /\ pc[w] = "idle"
        /\ job' = [job EXCEPT ![w] = next] /\ pc' = [pc EXCEPT ![w] = "taken"]
        /\ UNCHANGED <<stopped, results>>
    BY <1>0, <1>1 DEF Take, HasJob, run
  <2>2. Held \subseteq Held' /\ next \in Held'
    BY <1>0, <2>1 DEF Held, Holding
  <2>3. \A v \in Workers : pc'[v] # "left"
    BY <1>0, <2>1 DEF KeptInv
  <2>4. \A id \in 1..next' - 1 : id \in 1..next - 1 \/ id = next
    BY <1>0, <2>1
  <2>5. QED BY <2>1, <2>2, <2>3, <2>4 DEF KeptInv, Recorded
<1>2. ASSUME NEW w \in Workers, Leave(w) PROVE KeptInv'
  <2>1. /\ next = Count + 1 /\ pc[w] = "idle" /\ pc' = [pc EXCEPT ![w] = "left"]
        /\ UNCHANGED <<next, job, stopped, results>>
    BY <1>0, <1>2 DEF Leave, run
  <2>2. Held' = Held
    BY <1>0, <2>1 DEF Held, Holding
  <2>3. QED BY <1>0, <2>1, <2>2 DEF KeptInv, Recorded
<1>3. ASSUME NEW w \in Workers, Skip(w) PROVE KeptInv'
  <2>1. /\ stopped /\ stopped' /\ next' = next
        /\ \A v \in Workers : pc'[v] = "left" => pc[v] = "left"
    BY <1>0, <1>3 DEF Skip, run
  <2>2. QED BY <2>1 DEF KeptInv
<1>4. ASSUME NEW w \in Workers, Launch(w) \/ Finish(w) PROVE KeptInv'
  <2>1. /\ pc[w] \in {"taken", "waiting"} /\ UNCHANGED <<next, job, stopped>>
        /\ \A v \in Workers : v # w => pc'[v] = pc[v]
        /\ pc'[w] \in {"idle", "reading"}
    BY <1>0, <1>4 DEF Launch, Finish
  <2>2. /\ \A id \in Ids : id # job[w] => results'[id] = results[id]
        /\ pc'[w] = "reading" \/ results'[job[w]] # NoResult
    BY <1>0, <1>4 DEF Launch, Finish, Record, Verdict, Holding
  <2>3. \A v \in Workers : pc'[v] = "left" => pc[v] = "left"
    BY <2>1
  <2>4. ASSUME NEW id \in 1..next - 1, id \in Held \/ id \in Recorded
        PROVE  id \in Held' \/ id \in Recorded'
    <3>1. id \in Ids
      BY <1>0
    <3>2. CASE id = job[w]
      BY <2>1, <2>2, <3>1, <3>2 DEF Held, Recorded, Holding
    <3>3. CASE id # job[w]
      BY <2>1, <2>2, <2>4, <3>1, <3>3 DEF Held, Recorded, Holding
    <3>4. QED BY <3>2, <3>3
  <2>5. QED BY <2>1, <2>3, <2>4 DEF KeptInv
<1>5. ASSUME NEW w \in Workers,
             \/ ReadActive(w) \/ ReadResult(w) \/ ReadMalformed(w) \/ ReadEnd(w)
             \/ Exit(w) \/ Kill(w) \/ TimeOut(w)
      PROVE  KeptInv'
  <2>1. /\ UNCHANGED <<next, job, stopped, results>>
        /\ \A v \in Workers : Holding(v) => Holding(v)'
        /\ \A v \in Workers : pc'[v] = "left" => pc[v] = "left"
    BY <1>0, <1>5
    DEF ReadActive, ReadResult, ReadMalformed, ReadEnd, Exit, Kill, TimeOut,
        ProtocolError, pool, run, Holding
  <2>2. Held \subseteq Held'
    BY <2>1 DEF Held
  <2>3. QED BY <2>1, <2>2 DEF KeptInv, Recorded
<1>6. CASE CloseDone \/ Cancel \/ StopAndSnapshot \/ UNCHANGED vars
  <2>1. UNCHANGED <<next, pc, job, results>> /\ (stopped => stopped')
    BY <1>6 DEF CloseDone, Cancel, StopAndSnapshot, vars, pool, run
  <2>2. Held' = Held /\ Recorded' = Recorded
    BY <2>1 DEF Held, Holding, Recorded
  <2>3. QED BY <2>1, <2>2 DEF KeptInv
<1>7. QED BY <1>1, <1>2, <1>3, <1>4, <1>5, <1>6 DEF Next, Worker, Terminated

\* Only Take gives a worker an id, and it is one that nobody has had.
LEMMA HeldOnceNext ==
    DataInv /\ HeldOnce /\ LeaveInv /\ [Next]_vars => HeldOnce' /\ LeaveInv'
<1> SUFFICES ASSUME DataInv, HeldOnce, LeaveInv, [Next]_vars
             PROVE  HeldOnce' /\ LeaveInv'
  OBVIOUS
<1>0. /\ next \in 1..Count + 1
      /\ pc \in [Workers -> {"idle", "taken", "reading", "waiting", "left"}]
      /\ job \in [Workers -> 0..Count]
      /\ \A w \in Workers : Holding(w) => job[w] \in 1..next - 1
  BY DEF DataInv
<1> USE DEF HeldOnce, LeaveInv, Holding
<1>1. ASSUME NEW w \in Workers, Take(w) PROVE HeldOnce' /\ LeaveInv'
  <2>1. HeldOnce'
    BY <1>0, <1>1 DEF Take
  <2>2. LeaveInv'
    BY <1>0, <1>1 DEF Take, run
  <2>3. QED BY <2>1, <2>2
<1>2. ASSUME NEW w \in Workers,
             \/ Leave(w) \/ Launch(w) \/ Skip(w)
             \/ ReadActive(w) \/ ReadResult(w) \/ ReadMalformed(w) \/ ReadEnd(w)
             \/ Finish(w) \/ Exit(w) \/ Kill(w) \/ TimeOut(w)
      PROVE  HeldOnce' /\ LeaveInv'
  <2>1. /\ \A v \in Workers : Holding(v)' => Holding(v)
        /\ \A v \in Workers : pc[v] = "left" => pc'[v] = "left"
        /\ UNCHANGED <<job, done>>
    BY <1>0, <1>2
    DEF Leave, Launch, Skip, ReadActive, ReadResult, ReadMalformed, ReadEnd,
        Finish, Exit, Kill, TimeOut, ProtocolError, pool, run, process
  <2>2. QED BY <2>1
<1>3. CASE CloseDone \/ Cancel \/ StopAndSnapshot \/ UNCHANGED vars
  BY <1>0, <1>3 DEF CloseDone, Cancel, StopAndSnapshot, vars, pool, run, process
<1>4. QED BY <1>1, <1>2, <1>3 DEF Next, Worker, Terminated

\* An id is fresh until its process is launched.
LEMMA FreshNext ==
    DataInv /\ HeldOnce /\ FreshInv /\ [Next]_vars => FreshInv'
<1> SUFFICES ASSUME DataInv, HeldOnce, FreshInv, [Next]_vars PROVE FreshInv'
  OBVIOUS
<1>0. /\ next \in 1..Count + 1
      /\ pc \in [Workers -> {"idle", "taken", "reading", "waiting", "left"}]
      /\ job \in [Workers -> 0..Count]
      /\ \A w \in Workers : Holding(w) => job[w] \in 1..next - 1
      /\ active \in SUBSET Ids
      /\ results \in [Ids -> {NoResult, "invalid", "timeout", "canceled",
                              "accepted", "rejected"}]
      /\ protocol \in [Ids -> {"silent", "active", "ok", "failed", "error"}]
      /\ exit \in [Ids -> {"none", "zero", "nonzero", "killed"}]
  BY DEF DataInv
<1> USE DEF HeldOnce, FreshInv, Holding
<1>1. ASSUME NEW w \in Workers, Take(w) PROVE FreshInv'
  <2>1. UNCHANGED <<active, results, protocol, exit>> /\ next' = next + 1
    BY <1>1 DEF Take, run, process
  <2>2. \A id \in Ids : Fresh(id)' <=> Fresh(id)
    BY <2>1 DEF Fresh
  <2>3. QED BY <1>0, <1>1, <2>1, <2>2 DEF Take, HasJob
<1>2. ASSUME NEW w \in Workers, Leave(w) \/ Skip(w) PROVE FreshInv'
  <2>1. UNCHANGED <<next, job, active, results, protocol, exit>>
    BY <1>2 DEF Leave, Skip, run, process
  <2>2. \A v \in Workers : pc'[v] = "taken" => pc[v] = "taken"
    BY <1>0, <1>2 DEF Leave, Skip
  <2>3. QED BY <2>1, <2>2 DEF Fresh
<1>3. ASSUME NEW w \in Workers,
             \/ Launch(w)
             \/ ReadActive(w) \/ ReadResult(w) \/ ReadMalformed(w) \/ ReadEnd(w)
             \/ Finish(w) \/ Exit(w) \/ Kill(w) \/ TimeOut(w)
      PROVE  FreshInv'
  <2>1. /\ Holding(w) /\ UNCHANGED <<next, job>>
        /\ \A v \in Workers : pc'[v] = "taken" => pc[v] = "taken" /\ v # w
    BY <1>0, <1>3
    DEF Launch, ReadActive, ReadResult, ReadMalformed, ReadEnd, Finish, Exit,
        Kill, TimeOut, ProtocolError, pool
  <2>2. \A id \in Ids : id # job[w] =>
            /\ results'[id] = results[id]
            /\ protocol'[id] = protocol[id]
            /\ exit'[id] = exit[id]
    BY <1>0, <1>3
    DEF Launch, ReadActive, ReadResult, ReadMalformed, ReadEnd, Finish, Record,
        Exit, Kill, TimeOut, ProtocolError, run, process
  <2>3. active' \subseteq active \cup {job[w]}
    BY <1>0, <1>3
    DEF Launch, ReadActive, ReadResult, ReadMalformed, ReadEnd, Finish,
        Exit, Kill, TimeOut, ProtocolError, run
  <2>4. \A id \in Ids : id # job[w] /\ Fresh(id) => Fresh(id)'
    BY <2>2, <2>3 DEF Fresh
  <2>5. ASSUME NEW id \in Ids, id >= next' PROVE Fresh(id)'
    BY <1>0, <2>1, <2>4, <2>5
  <2>6. ASSUME NEW v \in Workers, pc'[v] = "taken" PROVE Fresh(job[v])'
    <3>1. job[v] \in Ids /\ job[v] # job[w] /\ Fresh(job[v])
      BY <1>0, <2>1, <2>6
    <3>2. QED BY <2>1, <2>4, <3>1
  <2>7. QED BY <2>1, <2>5, <2>6
<1>4. CASE CloseDone \/ Cancel \/ StopAndSnapshot \/ UNCHANGED vars
  <2>1. UNCHANGED <<next, job, pc, active, results, protocol, exit>>
    BY <1>4 DEF CloseDone, Cancel, StopAndSnapshot, vars, pool, run, process
  <2>2. QED BY <2>1 DEF Fresh
<1>5. QED BY <1>1, <1>2, <1>3, <1>4 DEF Next, Worker, Terminated

\* Finish is the only step that ends the watch, and it leaves a result.
LEMMA WatchNext ==
    DataInv /\ HeldOnce /\ FreshInv /\ WatchInv /\ [Next]_vars => WatchInv'
<1> SUFFICES ASSUME DataInv, HeldOnce, FreshInv, WatchInv, [Next]_vars
             PROVE  WatchInv'
  OBVIOUS
<1>0. /\ next \in 1..Count + 1
      /\ pc \in [Workers -> {"idle", "taken", "reading", "waiting", "left"}]
      /\ job \in [Workers -> 0..Count]
      /\ \A w \in Workers : Holding(w) => job[w] \in Ids
      /\ active \in SUBSET Ids
      /\ results \in [Ids -> {NoResult, "invalid", "timeout", "canceled",
                              "accepted", "rejected"}]
      /\ exit \in [Ids -> {"none", "zero", "nonzero", "killed"}]
  BY DEF DataInv
<1>1. ASSUME NEW w \in Workers, Take(w) PROVE WatchInv'
  <2>1. /\ pc[w] = "idle" /\ next \in Ids /\ results[next] = NoResult
        /\ UNCHANGED <<active, results, exit>>
        /\ job' = [job EXCEPT ![w] = next] /\ pc' = [pc EXCEPT ![w] = "taken"]
    BY <1>0, <1>1 DEF Take, HasJob, FreshInv, Fresh, run, process
  <2>2. \A v \in Workers : Holding(v)' => results'[job'[v]] = NoResult
    BY <1>0, <2>1 DEF WatchInv, Holding
  <2>3. Watched' = Watched
    BY <1>0, <2>1 DEF Watched, Watching
  <2>4. QED BY <2>1, <2>2, <2>3 DEF WatchInv, Recorded
<1>2. ASSUME NEW w \in Workers, Leave(w) \/ Skip(w) PROVE WatchInv'
  <2>1. /\ UNCHANGED <<job, active, results, exit>>
        /\ \A v \in Workers : Holding(v)' => Holding(v)
        /\ \A v \in Workers, id \in Ids : Watching(v, id)' <=> Watching(v, id)
    BY <1>0, <1>2 DEF Leave, Skip, run, process, Holding, Watching
  <2>2. Watched' = Watched
    BY <2>1 DEF Watched
  <2>3. QED BY <2>1, <2>2 DEF WatchInv, Recorded
<1>3. ASSUME NEW w \in Workers, Launch(w) PROVE WatchInv'
  <2>1. /\ Holding(w) /\ job[w] \in Ids /\ Fresh(job[w])
        /\ UNCHANGED <<job, active, exit>>
        /\ \A id \in Ids : id # job[w] => results'[id] = results[id]
        /\ \A v \in Workers : v # w => pc'[v] = pc[v]
        /\ pc[w] = "taken" /\ (pc'[w] = "idle" \/ results' = results)
    BY <1>0, <1>3 DEF Launch, FreshInv, process, Holding
  <2>2. ASSUME NEW v \in Workers, Holding(v)' PROVE (results[job[v]] = NoResult)'
    <3>1. v # w \/ results' = results
      BY <2>1, <2>2 DEF Holding
    <3>2. Holding(v)
      BY <2>1, <2>2 DEF Holding
    <3>3. v # w => job[v] # job[w]
      BY <2>1, <3>2 DEF HeldOnce
    <3>4. QED BY <1>0, <2>1, <3>1, <3>2, <3>3 DEF WatchInv
  <2>3. Watched \subseteq Watched'
    BY <1>0, <2>1 DEF Watched, Watching
  <2>4. \A id \in Ids : exit'[id] # "none" => id \in Watched' \/ id \in Recorded'
    <3>1. \A id \in Ids : exit[id] # "none" => id # job[w]
      BY <2>1 DEF Fresh
    <3>2. QED BY <2>1, <2>3, <3>1 DEF WatchInv, Recorded
  <2>5. QED BY <2>1, <2>2, <2>3, <2>4 DEF WatchInv
<1>4. ASSUME NEW w \in Workers,
             \/ ReadActive(w) \/ ReadResult(w) \/ ReadMalformed(w) \/ ReadEnd(w)
             \/ Exit(w) \/ Kill(w) \/ TimeOut(w)
      PROVE  WatchInv'
  <2>1. /\ pc[w] \in {"reading", "waiting"} /\ UNCHANGED <<job, results>>
        /\ pc'[w] \in {"reading", "waiting"}
        /\ \A v \in Workers : v # w => pc'[v] = pc[v]
    BY <1>0, <1>4
    DEF ReadActive, ReadResult, ReadMalformed, ReadEnd, Exit, Kill, TimeOut,
        ProtocolError, pool, run, process
  <2>2. active' \subseteq active \cup {job[w]}
    BY <1>0, <1>4
    DEF ReadActive, ReadResult, ReadMalformed, ReadEnd, Exit, Kill, TimeOut,
        ProtocolError, pool, run, process
  <2>3. \A id \in Ids : id # job[w] => exit'[id] = exit[id]
    BY <1>0, <1>4
    DEF ReadActive, ReadResult, ReadMalformed, ReadEnd, Exit, Kill, TimeOut,
        ProtocolError, process
  <2>4. Watched' = Watched /\ job[w] \in Watched
    BY <1>0, <2>1 DEF Watched, Watching, Holding
  <2>5. \A v \in Workers : Holding(v)' => results'[job'[v]] = NoResult
    BY <2>1 DEF WatchInv, Holding
  <2>6. \A id \in Ids : exit'[id] # "none" => id \in Watched' \/ id \in Recorded'
    BY <2>1, <2>3, <2>4 DEF WatchInv, Recorded
  <2>7. active' \subseteq Watched'
    BY <2>2, <2>4 DEF WatchInv
  <2>8. QED BY <2>5, <2>6, <2>7 DEF WatchInv
<1>5. ASSUME NEW w \in Workers, Finish(w) PROVE WatchInv'
  <2>1. /\ pc[w] = "waiting" /\ Holding(w) /\ job[w] \in Ids
        /\ UNCHANGED <<job, exit>>
        /\ pc' = [pc EXCEPT ![w] = "idle"]
        /\ active' = active \ {job[w]}
        /\ results'[job[w]] # NoResult
        /\ \A id \in Ids : id # job[w] => results'[id] = results[id]
    BY <1>0, <1>5 DEF Finish, Record, Verdict, process, Holding
  <2>2. \A v \in Workers : Holding(v)' => Holding(v) /\ v # w
    BY <1>0, <2>1 DEF Holding
  <2>3. \A v \in Workers : Holding(v)' => results'[job'[v]] = NoResult
    BY <1>0, <2>1, <2>2 DEF WatchInv, HeldOnce
  <2>4. \A id \in Watched : id # job[w] => id \in Watched'
    BY <1>0, <2>1 DEF Watched, Watching
  <2>5. \A id \in Ids : exit'[id] # "none" => id \in Watched' \/ id \in Recorded'
    BY <2>1, <2>4 DEF WatchInv, Recorded
  <2>6. active' \subseteq Watched'
    BY <2>1, <2>4 DEF WatchInv
  <2>7. QED BY <2>3, <2>5, <2>6 DEF WatchInv
<1>6. CASE CloseDone \/ Cancel \/ StopAndSnapshot \/ UNCHANGED vars
  <2>1. UNCHANGED <<job, pc, active, results, exit>>
    BY <1>6 DEF CloseDone, Cancel, StopAndSnapshot, vars, pool, run, process
  <2>2. QED BY <2>1 DEF WatchInv, Holding, Watched, Watching, Recorded
<1>7. QED
  BY <1>1, <1>2, <1>3, <1>4, <1>5, <1>6 DEF Next, Worker, Terminated

\* Finish copies the verdict from a process that nobody else reads; a result
\* that is there already belongs to an id that nobody holds.
LEMMA EvidenceNext ==
    DataInv /\ WatchInv /\ EvidenceIsClean /\ [Next]_vars => EvidenceIsClean'
<1> SUFFICES ASSUME DataInv, WatchInv, EvidenceIsClean, [Next]_vars
             PROVE  EvidenceIsClean'
  OBVIOUS
<1>0. /\ \A w \in Workers : Holding(w) => job[w] \in Ids
      /\ results \in [Ids -> {NoResult, "invalid", "timeout", "canceled",
                              "accepted", "rejected"}]
      /\ protocol \in [Ids -> {"silent", "active", "ok", "failed", "error"}]
      /\ exit \in [Ids -> {"none", "zero", "nonzero", "killed"}]
  BY DEF DataInv
<1>1. ASSUME NEW w \in Workers,
             \/ Launch(w)
             \/ ReadActive(w) \/ ReadResult(w) \/ ReadMalformed(w) \/ ReadEnd(w)
             \/ Exit(w) \/ Kill(w) \/ TimeOut(w)
      PROVE  EvidenceIsClean'
  <2>1. Holding(w) /\ job[w] \in Ids /\ results[job[w]] = NoResult
    BY <1>0, <1>1
    DEF Launch, ReadActive, ReadResult, ReadMalformed, ReadEnd, Exit, Kill,
        TimeOut, Holding, WatchInv
  <2>2. \A id \in Ids : id # job[w] => /\ results'[id] = results[id]
                                       /\ protocol'[id] = protocol[id]
                                       /\ exit'[id] = exit[id]
    BY <1>0, <1>1
    DEF Launch, ReadActive, ReadResult, ReadMalformed, ReadEnd, Exit, Kill,
        TimeOut, ProtocolError, run, process
  <2>3. results'[job[w]] \in {NoResult, "invalid"}
    BY <1>0, <1>1, <2>1
    DEF Launch, ReadActive, ReadResult, ReadMalformed, ReadEnd, Exit, Kill,
        TimeOut, run
  <2>4. QED BY <2>1, <2>2, <2>3 DEF EvidenceIsClean
<1>2. ASSUME NEW w \in Workers, Finish(w) PROVE EvidenceIsClean'
  <2>1. /\ job[w] \in Ids /\ UNCHANGED <<protocol, exit>>
        /\ results' = [results EXCEPT ![job[w]] = Verdict(job[w])]
    BY <1>0, <1>2 DEF Finish, Record, process, Holding
  <2>2. \A id \in Ids : Verdict(id) \in {"accepted", "rejected"} =>
            /\ protocol[id] = IF Verdict(id) = "accepted" THEN "ok" ELSE "failed"
            /\ exit[id] = "zero"
    BY <1>0 DEF Verdict
  <2>3. QED BY <1>0, <2>1, <2>2 DEF EvidenceIsClean
<1>3. ASSUME NEW w \in Workers, Take(w) \/ Leave(w) \/ Skip(w)
      PROVE  UNCHANGED <<results, protocol, exit>>
  BY <1>3 DEF Take, Leave, Skip, run, process
<1>4. CASE CloseDone \/ Cancel \/ StopAndSnapshot \/ UNCHANGED vars
  <2>1. UNCHANGED <<results, protocol, exit>>
    BY <1>4 DEF CloseDone, Cancel, StopAndSnapshot, vars, pool, run, process
  <2>2. QED BY <2>1 DEF EvidenceIsClean
<1>5. ASSUME UNCHANGED <<results, protocol, exit>> PROVE EvidenceIsClean'
  BY <1>5 DEF EvidenceIsClean
<1>6. QED BY <1>1, <1>2, <1>3, <1>4, <1>5 DEF Next, Worker, Terminated

\* A process is admitted at its first word.
LEMMA CountNext == DataInv /\ CountInv /\ [Next]_vars => CountInv'
<1> SUFFICES ASSUME DataInv, CountInv, [Next]_vars PROVE CountInv'
  OBVIOUS
<1>0. /\ \A w \in Workers : Holding(w) => job[w] \in Ids
      /\ protocol \in [Ids -> {"silent", "active", "ok", "failed", "error"}]
  BY DEF DataInv
<1>1. Spoke \in SUBSET Ids /\ Spoke' \in SUBSET Ids
  BY DEF Spoke
<1>2. /\ IsFiniteSet(Spoke) /\ IsFiniteSet(Spoke')
      /\ Cardinality(Spoke) \in Nat /\ Cardinality(Spoke') \in Nat
  BY <1>1, IdsFinite
<1>3. ASSUME count' = count, Spoke \subseteq Spoke' PROVE CountInv'
  <2>1. Cardinality(Spoke) <= Cardinality(Spoke')
    BY <1>2, <1>3, FS_Subset
  <2>2. QED BY <1>2, <1>3, <2>1 DEF CountInv
<1>4. ASSUME NEW w \in Workers, ReadActive(w), count' # count PROVE CountInv'
  <2>1. /\ job[w] \in Ids /\ protocol[job[w]] = "silent" /\ count' = count + 1
        /\ protocol' = [protocol EXCEPT ![job[w]] = "active"]
    BY <1>0, <1>4 DEF ReadActive, ProtocolError, Holding
  <2>2. Spoke' = Spoke \cup {job[w]} /\ job[w] \notin Spoke
    BY <1>0, <2>1 DEF Spoke
  <2>3. Cardinality(Spoke') = Cardinality(Spoke) + 1
    BY <1>2, <2>2, FS_AddElement
  <2>4. QED BY <1>2, <2>1, <2>3 DEF CountInv
<1>5. ASSUME NEW w \in Workers, Worker(w) \/ Exit(w) \/ Kill(w) \/ TimeOut(w),
             count' = count
      PROVE  CountInv'
  <2>1. Spoke \subseteq Spoke'
    BY <1>0, <1>5
    DEF Worker, Take, Leave, Launch, Skip, ReadActive, ReadResult,
        ReadMalformed, ReadEnd, Finish, Exit, Kill, TimeOut, ProtocolError,
        run, process, Holding, Spoke
  <2>2. QED BY <1>3, <1>5, <2>1
<1>6. ASSUME NEW w \in Workers,
             \/ Take(w) \/ Leave(w) \/ Launch(w) \/ Skip(w)
             \/ ReadResult(w) \/ ReadMalformed(w) \/ ReadEnd(w)
             \/ Finish(w) \/ Exit(w) \/ Kill(w) \/ TimeOut(w)
      PROVE  count' = count
  BY <1>6
  DEF Take, Leave, Launch, Skip, ReadResult, ReadMalformed, ReadEnd, Finish,
      Exit, Kill, TimeOut, ProtocolError, run
<1>7. CASE CloseDone \/ Cancel \/ StopAndSnapshot \/ UNCHANGED vars
  <2>1. UNCHANGED <<count, protocol>>
    BY <1>7 DEF CloseDone, Cancel, StopAndSnapshot, vars, pool, run, process
  <2>2. QED BY <1>3, <2>1 DEF Spoke
<1>8. QED BY <1>4, <1>5, <1>6, <1>7 DEF Next, Worker, Terminated

------------------------------------------------------------------------------
\* The theorems

\* Before the first process.
LEMMA InitInv == Init => ProbeInv
<1> SUFFICES ASSUME Init PROVE ProbeInv
  OBVIOUS
<1>1. DataInv
  <2>1. next \in 1..Count + 1 /\ job \in [Workers -> 0..Count]
    BY DEF Init
  <2>2. /\ pc \in [Workers -> {"idle", "taken", "reading", "waiting", "left"}]
        /\ results \in [Ids -> {NoResult, "invalid", "timeout", "canceled",
                                "accepted", "rejected"}]
        /\ protocol \in [Ids -> {"silent", "active", "ok", "failed", "error"}]
        /\ exit \in [Ids -> {"none", "zero", "nonzero", "killed"}]
    BY DEF Init
  <2>3. \A w \in Workers : ~Holding(w)
    BY DEF Init, Holding
  <2>4. /\ stopped \in BOOLEAN /\ done \in BOOLEAN /\ canceled \in BOOLEAN
        /\ active \in SUBSET Ids /\ timedOut \in SUBSET Ids
    BY DEF Init
  <2>5. QED BY <2>1, <2>2, <2>3, <2>4 DEF DataInv
<1>2. PoolInv
  BY DEF Init, PoolInv, HeldOnce, FreshInv, Fresh, WatchInv, LeaveInv, KeptInv,
         Holding, Watched
<1>3. EvidenceIsClean
  BY DEF Init, EvidenceIsClean
<1>4. CountInv
  <2>1. Spoke \in SUBSET Ids
    BY DEF Spoke
  <2>2. QED BY <2>1, IdsFinite DEF Init, CountInv
<1>5. QED BY <1>1, <1>2, <1>3, <1>4 DEF ProbeInv

\* Every part of the invariant is kept by every step.
LEMMA Inductive == ProbeInv /\ [Next]_vars => ProbeInv'
  BY DataNext, HeldOnceNext, FreshNext, WatchNext, KeptNext, EvidenceNext,
     CountNext
  DEF ProbeInv, PoolInv

\* The invariant holds of every pool of probe processes.
THEOREM ProbeInvariant == SafeSpec => []ProbeInv
<1>1. QED BY InitInv, Inductive, PTL DEF SafeSpec

\* The types of the pool and of its processes; no more of them are admitted
\* than the phase has requests.
THEOREM ProbeTypeCorrect == SafeSpec => []TypeOK
<1>1. ProbeInv => TypeOK
  <2> SUFFICES ASSUME ProbeInv PROVE TypeOK
    OBVIOUS
  <2>1. count \in 0..Count
    <3>1. Spoke \in SUBSET Ids
      BY DEF Spoke
    <3>2. QED BY <3>1, IdsFinite DEF ProbeInv, CountInv
  <2>2. QED BY <2>1 DEF ProbeInv, DataInv, TypeOK
<1>2. QED BY ProbeInvariant, <1>1, PTL

\* An accepted or rejected result tells what its process wrote and how it
\* ended, at the end of the phase as at the moment it was recorded.
THEOREM EvidenceStaysClean == SafeSpec => []EvidenceIsClean
<1>1. ProbeInv => EvidenceIsClean
  BY DEF ProbeInv
<1>2. QED BY ProbeInvariant, <1>1, PTL

\* When the workers are gone every process that was launched has a result, and
\* every request if admission was never stopped.
THEOREM NoProcessIsLost == SafeSpec => []LaunchedAreRecorded
<1>1. ProbeInv => LaunchedAreRecorded
  <2> SUFFICES ASSUME ProbeInv, done
               PROVE  /\ active = {}
                      /\ {id \in Ids : exit[id] # "none"} \subseteq Recorded
                      /\ ~stopped => Recorded = Ids
    BY DEF LaunchedAreRecorded
  <2>1. \A w \in Workers : pc[w] = "left"
    BY DEF ProbeInv, PoolInv, LeaveInv
  <2>2. Watched = {} /\ Held = {}
    BY <2>1 DEF Watched, Watching, Held, Holding
  <2>3. ASSUME ~stopped PROVE Recorded = Ids
    <3>1. 1 \in Workers
      OBVIOUS
    <3>2. next = Count + 1
      BY <2>1, <3>1 DEF ProbeInv, PoolInv, KeptInv
    <3>3. \A id \in Ids : id \in Recorded
      BY <2>2, <2>3, <3>2 DEF ProbeInv, PoolInv, KeptInv
    <3>4. QED BY <3>3 DEF Recorded
  <2>4. QED BY <2>2, <2>3 DEF ProbeInv, PoolInv, WatchInv
<1>2. QED BY ProbeInvariant, <1>1, PTL

------------------------------------------------------------------------------
\* The command driver implements TrafficExecution

Status == [id \in Ids |-> StatusOf(id)]

\* Active processes are watched by different workers.
LEMMA ActiveBounded == ProbeInv => Cardinality(active) <= Concurrency
<1> SUFFICES ASSUME ProbeInv PROVE Cardinality(active) <= Concurrency
  OBVIOUS
<1> DEFINE Watcher == [id \in active |-> CHOOSE w \in Workers : Watching(w, id)]
<1>1. ASSUME NEW id \in active
      PROVE  Watcher[id] \in Workers /\ job[Watcher[id]] = id
  <2>1. \E w \in Workers : Watching(w, id)
    BY <1>1 DEF ProbeInv, PoolInv, WatchInv, Watched
  <2>2. Watcher[id] \in Workers /\ Watching(Watcher[id], id)
    BY <1>1, <2>1
  <2>3. QED BY <2>2 DEF Watching
<1>2. Watcher \in Injection(active, Workers)
  BY <1>1 DEF Injection, IsInjective
<1>3. IsFiniteSet(Workers) /\ Cardinality(Workers) = Concurrency
  BY FS_Interval
<1>4. Cardinality(active) <= Cardinality(Workers)
  BY <1>2, <1>3, FS_Injection
<1>5. QED BY <1>3, <1>4

\* execute never has more probes active than traffic.concurrency allows,
\* though a process decides by itself when it says that it is active.
THEOREM ProbesRespectConcurrency ==
    SafeSpec => [](Cardinality(active) <= Concurrency)
BY ActiveBounded, ProbeInvariant, PTL

\* A launched process without a result is queued until it says active.
LEMMA StatusMeaning ==
    ASSUME ProbeInv, NEW id \in Ids
    PROVE  /\ StatusOf(id) = "active" <=> id \in active
           /\ StatusOf(id) = "settled" <=> results[id] # NoResult
           /\ StatusOf(id) = "queued" <=> /\ id \notin active
                                          /\ results[id] = NoResult
                                          /\ id >= next \/ id \in Held
<1>1. id \in active => results[id] = NoResult
  <2>1. id \in active => \E w \in Workers : Watching(w, id)
    BY DEF ProbeInv, PoolInv, WatchInv, Watched
  <2>2. QED BY <2>1 DEF ProbeInv, PoolInv, WatchInv, Watching, Holding
<1>2. id \in Held <=> \/ \E w \in Workers : pc[w] = "taken" /\ job[w] = id
                      \/ \E w \in Workers : Watching(w, id)
  BY DEF Held, Holding, Watching
<1>3. QED BY <1>1, <1>2 DEF StatusOf

\* What the status is made of.
LEMMA SameStatus ==
    ASSUME NEW id \in Ids,
           id \in active' <=> id \in active, results'[id] = results[id],
           (id >= next' \/ id \in Held') <=> (id >= next \/ id \in Held)
    PROVE  StatusOf(id)' = StatusOf(id)
<1>1. id \in Held <=> \/ \E w \in Workers : pc[w] = "taken" /\ job[w] = id
                      \/ \E w \in Workers : Watching(w, id)
  BY DEF Held, Holding, Watching
<1>2. id \in Held' <=> \/ \E w \in Workers : pc'[w] = "taken" /\ job'[w] = id
                       \/ \E w \in Workers : Watching(w, id)'
  BY DEF Held, Holding, Watching
<1>3. QED BY <1>1, <1>2 DEF StatusOf

\* A step that changes the status of one id changes the function at one point.
LEMMA StatusUpdate ==
    ASSUME NEW j \in Ids, NEW v, StatusOf(j)' = v,
           \A id \in Ids : id # j => StatusOf(id)' = StatusOf(id)
    PROVE  Status' = [Status EXCEPT ![j] = v]
  BY DEF Status

\* The instance has its own copy of Cardinality.
LEMMA SameCardinality == \A S : Execution!Cardinality(S) = Cardinality(S)
  BY Zenon DEF Execution!Cardinality, Cardinality

\* Nothing was launched: all are queued.
LEMMA RefinesInit == Init => Execution!Init
<1> SUFFICES ASSUME Init PROVE Execution!Init
  OBVIOUS
<1>1. \A id \in Ids : StatusOf(id) = "queued"
  BY DEF Init, StatusOf
<1>2. QED BY <1>1, Zenon DEF Execution!Init, Init

\* Every step of the pool and its processes is a step of the contract, or
\* changes nothing that the contract speaks of.
LEMMA RefinesNext ==
    ProbeInv /\ ProbeInv' /\ [Next]_vars => [Execution!Next]_(Execution!vars)
<1> SUFFICES ASSUME ProbeInv, ProbeInv', [Next]_vars
             PROVE  Execution!Next \/ UNCHANGED Execution!vars
  BY DEF Execution!vars
<1>0. /\ next \in 1..Count + 1
      /\ pc \in [Workers -> {"idle", "taken", "reading", "waiting", "left"}]
      /\ job \in [Workers -> 0..Count]
      /\ \A w \in Workers : Holding(w) =>
            /\ job[w] \in Ids /\ job[w] < next /\ results[job[w]] = NoResult
            /\ job[w] \in Held
      /\ active \in SUBSET Ids
      /\ results \in [Ids -> {NoResult, "invalid", "timeout", "canceled",
                              "accepted", "rejected"}]
      /\ exit \in [Ids -> {"none", "zero", "nonzero", "killed"}]
  BY DEF ProbeInv, DataInv, PoolInv, WatchInv, Held
<1>1. ASSUME \A id \in Ids : StatusOf(id)' = StatusOf(id), stopped' = stopped
      PROVE  UNCHANGED Execution!vars
  BY <1>1, Zenon DEF Execution!vars
<1>2. ASSUME UNCHANGED <<next, active, results, stopped>>, Held' = Held
      PROVE  UNCHANGED Execution!vars
  <2>1. \A id \in Ids : StatusOf(id)' = StatusOf(id)
    BY <1>2, SameStatus
  <2>2. QED BY <1>1, <1>2, <2>1
<1>3. ASSUME NEW w \in Workers, Take(w) PROVE UNCHANGED Execution!vars
  <2>1. /\ next' = next + 1 /\ next \in Ids /\ pc[w] = "idle"
        /\ job' = [job EXCEPT ![w] = next] /\ pc' = [pc EXCEPT ![w] = "taken"]
        /\ UNCHANGED <<active, results, stopped>>
    BY <1>0, <1>3 DEF Take, HasJob, run
  <2>2. Held' = Held \cup {next}
    BY <1>0, <2>1 DEF Held, Holding
  <2>3. \A id \in Ids : (id >= next' \/ id \in Held') <=> (id >= next \/ id \in Held)
    BY <1>0, <2>1, <2>2
  <2>4. \A id \in Ids : StatusOf(id)' = StatusOf(id)
    BY <2>1, <2>3, SameStatus
  <2>5. QED BY <1>1, <2>1, <2>4
<1>4. ASSUME NEW w \in Workers,
             \/ Leave(w) \/ ReadResult(w) \/ ReadMalformed(w) \/ ReadEnd(w)
             \/ Exit(w) \/ Kill(w) \/ TimeOut(w)
             \/ ReadActive(w) /\ active' = active
             \/ Launch(w) /\ results' = results
      PROVE  UNCHANGED Execution!vars
  <2>1. /\ UNCHANGED <<next, job, active, results, stopped>>
        /\ \A v \in Workers : Holding(v)' <=> Holding(v)
    BY <1>0, <1>4
    DEF Leave, Launch, ReadActive, ReadResult, ReadMalformed, ReadEnd, Exit,
        Kill, TimeOut, ProtocolError, pool, run, Holding
  <2>2. Held' = Held
    BY <2>1 DEF Held
  <2>3. QED BY <1>2, <2>1, <2>2
<1>5. ASSUME NEW w \in Workers, \/ Launch(w) /\ results' # results
                                \/ Finish(w)
      PROVE  Execution!Settle(job[w])
  <2>1. /\ Holding(w) /\ job[w] \in Ids
        /\ UNCHANGED <<next, job, stopped>>
        /\ pc' = [pc EXCEPT ![w] = "idle"]
        /\ active' = active \ {job[w]}
        /\ results'[job[w]] # NoResult
        /\ \A id \in Ids : id # job[w] => results'[id] = results[id]
    <3>1. CASE Launch(w)
      <4>1. job[w] \notin active
        BY <3>1 DEF Launch, ProbeInv, PoolInv, FreshInv, Fresh
      <4>2. QED BY <1>0, <1>5, <3>1, <4>1 DEF Launch, Finish, Holding
    <3>2. CASE Finish(w)
      BY <1>0, <3>2 DEF Finish, Record, Verdict, Holding
    <3>3. QED BY <1>5, <3>1, <3>2
  <2>2. Held' = Held \ {job[w]}
    BY <1>0, <2>1 DEF Held, Holding, ProbeInv, PoolInv, HeldOnce
  <2>3. \A id \in Ids : id # job[w] => StatusOf(id)' = StatusOf(id)
    BY <2>1, <2>2, SameStatus
  <2>4. StatusOf(job[w])' = "settled"
    BY <2>1 DEF StatusOf
  <2>5. Status' = [Status EXCEPT ![job[w]] = "settled"]
    BY <2>1, <2>3, <2>4, StatusUpdate
  <2>6. Status[job[w]] = "active" \/ Status[job[w]] = "queued"
    BY <1>0, <2>1, StatusMeaning DEF Status
  <2>7. QED BY <2>1, <2>5, <2>6, Zenon DEF Execution!Settle, Status
<1>6. ASSUME NEW w \in Workers, Skip(w) PROVE Execution!Drop(job[w])
  <2>1. /\ Holding(w) /\ job[w] \in Ids /\ job[w] < next /\ job[w] \notin active
        /\ UNCHANGED <<next, job, active, results, stopped>> /\ stopped
        /\ pc' = [pc EXCEPT ![w] = "idle"]
    BY <1>0, <1>6
    DEF Skip, run, Holding, ProbeInv, PoolInv, FreshInv, Fresh
  <2>2. Held' = Held \ {job[w]}
    BY <1>0, <2>1 DEF Held, Holding, ProbeInv, PoolInv, HeldOnce
  <2>3. \A id \in Ids : id # job[w] => StatusOf(id)' = StatusOf(id)
    BY <2>1, <2>2, SameStatus
  <2>4. StatusOf(job[w])' = "dropped"
    <3>1. job[w] \notin Held' /\ job[w] \notin active' /\ results'[job[w]] = NoResult
      BY <1>0, <2>1, <2>2
    <3>2. ~(\E v \in Workers : pc'[v] = "taken" /\ job'[v] = job[w])
      BY <2>1, <3>1 DEF Held, Holding
    <3>3. ~(\E v \in Workers : Watching(v, job[w])')
      BY <2>1, <3>1 DEF Held, Holding, Watching
    <3>4. ~(job[w] >= next')
      BY <1>0, <2>1
    <3>5. job'[w] = job[w]
      BY <2>1
    <3>6. QED BY <3>1, <3>2, <3>3, <3>4, <3>5 DEF StatusOf
  <2>5. Status' = [Status EXCEPT ![job[w]] = "dropped"]
    BY <2>1, <2>3, <2>4, StatusUpdate
  <2>6. Status[job[w]] = "queued"
    BY <1>0, <2>1, StatusMeaning DEF Status
  <2>7. QED BY <2>1, <2>5, <2>6, Zenon DEF Execution!Drop, Status
<1>7. ASSUME NEW w \in Workers, ReadActive(w), active' # active
      PROVE  Execution!Begin(job[w])
  <2>1. /\ Holding(w) /\ job[w] \in Ids /\ ~stopped /\ job[w] \notin active
        /\ active' = active \cup {job[w]}
        /\ UNCHANGED <<next, pc, job, results, stopped>>
    BY <1>0, <1>7 DEF ReadActive, ProtocolError, Activates, Holding
  <2>2. Held' = Held
    BY <2>1 DEF Held, Holding
  <2>3. \A id \in Ids : id # job[w] => StatusOf(id)' = StatusOf(id)
    BY <2>1, <2>2, SameStatus
  <2>4. StatusOf(job[w])' = "active"
    BY <2>1 DEF StatusOf
  <2>5. Status' = [Status EXCEPT ![job[w]] = "active"]
    BY <2>1, <2>3, <2>4, StatusUpdate
  <2>6. Status[job[w]] = "queued"
    BY <1>0, <2>1, StatusMeaning DEF Status
  <2>7. Execution!Cardinality(Execution!InStatus("active")) < Concurrency
    <3>1. Execution!InStatus("active") = active
      BY <1>0, StatusMeaning DEF Execution!InStatus
    <3>2. IsFiniteSet(active) /\ Cardinality(active) \in Nat
      BY <1>0, IdsFinite
    <3>3. Cardinality(active') = Cardinality(active) + 1
      BY <2>1, <3>2, FS_AddElement
    <3>4. Cardinality(active') <= Concurrency
      <4>1. (ProbeInv => Cardinality(active) <= Concurrency)'
        BY ActiveBounded, PTL
      <4>2. QED BY <4>1
    <3>5. QED BY <3>1, <3>2, <3>3, <3>4, SameCardinality
  <2>8. QED BY <2>1, <2>5, <2>6, <2>7, Zenon DEF Execution!Begin, Status
<1>8. CASE StopAndSnapshot
  <2>1. UNCHANGED <<next, pc, job, active, results>> /\ stopped' = TRUE
    BY <1>8 DEF StopAndSnapshot, pool
  <2>2. Held' = Held
    BY <2>1 DEF Held, Holding
  <2>3. \A id \in Ids : StatusOf(id)' = StatusOf(id)
    BY <2>1, <2>2, SameStatus
  <2>4. Execution!StopAndSnapshot
    BY <2>1, <2>3, Zenon DEF Execution!StopAndSnapshot
  <2>5. QED BY <2>4 DEF Execution!Next
<1>9. CASE CloseDone \/ Cancel \/ UNCHANGED vars
  <2>1. UNCHANGED <<next, pc, job, active, results, stopped>>
    BY <1>9 DEF CloseDone, Cancel, vars, pool, run
  <2>2. QED BY <1>2, <2>1 DEF Held, Holding
<1>10. ASSUME NEW w \in Workers, Worker(w) \/ Exit(w) \/ Kill(w) \/ TimeOut(w)
       PROVE  Execution!Next \/ UNCHANGED Execution!vars
  <2>1. Launch(w) \/ Skip(w) \/ ReadActive(w) \/ Finish(w) => job[w] \in Ids
    BY <1>0 DEF Launch, Skip, ReadActive, Finish, Holding
  <2>2. QED
    BY <1>3, <1>4, <1>5, <1>6, <1>7, <1>10, <2>1, Zenon
    DEF Worker, Execution!Next
<1>11. QED BY <1>8, <1>9, <1>10, Zenon DEF Next, Terminated

\* The command driver keeps the contract that the HTTP and gRPC drivers keep.
THEOREM ProbesImplementExecution == SafeSpec => ImplementsExecution
<1>1. QED
  BY RefinesInit, RefinesNext, ProbeInvariant, PTL
  DEF SafeSpec, ImplementsExecution, Execution!Spec
==============================================================================
