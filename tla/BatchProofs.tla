----------------------------- MODULE BatchProofs ------------------------------
(***************************************************************************)
(* What repeat and suite promise, for any number of runs, scenarios,       *)
(* budgets, invocations and failures of writeAtomic.  Every file is        *)
(* written through writeAtomic, so that the sequence implements its        *)
(* contract.  The invariant says what the reports written so far hold,     *)
(* that no later report of the sequence is written to their place, and     *)
(* that the counters are counts of the runs.                               *)
(***************************************************************************)
EXTENDS PercentileProofs, ReportFileProofs

------------------------------------------------------------------------------
\* The invariant

BudgetResults == [evaluated : BOOLEAN, passed : BOOLEAN]
RunResults == [passed : BOOLEAN, error : BOOLEAN]

SummaryType ==
    [completed : Nat, passed : Nat, failed : Nat, errors : Nat,
     runs : Seq(RunResults), samples : Seq([Budgets -> Nat]),
     budgets : UNION {[S -> BudgetResults] : S \in SUBSET Budgets},
     budgetFailures : Nat, verdict : BOOLEAN]

DataInv ==
    /\ at \in Stopped \cup {"verifying", "reporting", "finishing", "summarizing"}
    /\ pull \in BOOLEAN /\ problem \in BOOLEAN
    /\ primaryErr \in BOOLEAN /\ interrupted \in BOOLEAN
    /\ code \in {0, 1, 2, 3, 130}
    /\ run \in Answers \cup {NoRun}
    /\ summary \in SummaryType

\* The plan is one of an invocation that the bound allows.
PlanInv ==
    /\ at = "off" => plan = Blank /\ invocation = 0
    /\ at # "off" => plan \in Plans /\ invocation \in 1..Bound(plan.command)
    /\ at \notin Stopped /\ plan.command = "suite" => Unique(plan.runs)

\* What is left to be written, and what is being written now.
PendingInv ==
    /\ at = "reporting" =>
           /\ run \in Answers
           /\ pending \in {Artifacts, Tail(Artifacts), Tail(Tail(Artifacts)), <<>>}
    /\ at = "summarizing" => pending \in {Summaries, Tail(Summaries), <<>>}
    /\ at \notin {"reporting", "summarizing"} => pending = <<>>

CallInv ==
    /\ writer.at # "idle" => /\ at \in {"reporting", "summarizing"}
                             /\ pending # <<>>
                             /\ writer.path = Target /\ writer.value = Report
    /\ writer.at = "returned" /\ ~writer.error =>
           disk[writer.path].value = writer.value

\* The counters are counts of the runs, and the sequence stops at an error.
CountInv ==
    /\ summary.completed = Len(summary.runs)
    /\ summary.completed = summary.passed + summary.failed
    /\ summary.errors <= summary.failed
    /\ summary.passed = Len(summary.samples)
    /\ summary.failed =
           Cardinality({i \in 1..summary.completed : ~summary.runs[i].passed})
    /\ summary.errors =
           Cardinality({i \in 1..summary.completed : summary.runs[i].error})
    /\ \A i \in 1..summary.completed :
           summary.runs[i].error => ~summary.runs[i].passed

LoopInv ==
    /\ at \notin Stopped => index \in 1..Requested
    /\ at \in {"verifying", "reporting"} =>
           summary.completed = index - 1 /\ summary.errors = 0
    /\ at \in {"finishing", "summarizing"} =>
           /\ summary.completed = index
           /\ ~primaryErr => summary.completed = Requested /\ summary.errors = 0
    /\ at = "summarizing" => summary = Finished(summary)

\* The files of the current run, or the summaries, that are done.
DoneInv ==
    /\ at = "reporting" /\ ~problem /\ run.result # "none" =>
           \A file \in ToSet(Artifacts) \ ToSet(pending) :
               disk[<<Directory(index), file>>].value = Report
    /\ at = "summarizing" /\ ~problem =>
           \A file \in ToSet(Summaries) \ ToSet(pending) :
               disk[<<TopDirectory, file>>].value = Report

BatchInv ==
    /\ FileInv /\ DataInv /\ PlanInv /\ PendingInv /\ CallInv
    /\ CountInv /\ LoopInv /\ DoneInv
    /\ EvidenceIsCurrent /\ ExitCodeIsEarned

------------------------------------------------------------------------------
\* The plan and the paths

\* What Plans and Bound allow.
LEMMA PlanFacts ==
    ASSUME NEW p \in Plans
    PROVE  /\ p.command \in Commands /\ p.command \in {"repeat", "suite"}
           /\ Len(p.runs) \in 2..MaxRuns /\ DOMAIN p.runs = 1..Len(p.runs)
           /\ p.command = "suite" =>
                  \A i \in 1..Len(p.runs) : p.runs[i] \in UNION SameNames
           /\ p.limits \in [Budgets -> Limits \cup {0}]
<1>1. CASE p \in Repeats /\ "repeat" \in Commands
  <2>1. PICK n \in 2..MaxRuns : p.runs = [i \in 1..n |-> i]
    BY <1>1 DEF Repeats
  <2>2. n \in Nat
    BY <2>1, BatchAssumption DEF BatchAssumption
  <2>3. Len(p.runs) = n /\ DOMAIN p.runs = 1..n
    BY <2>1, <2>2
  <2>4. p.command = "repeat" /\ p.limits \in [Budgets -> Limits]
    BY <1>1 DEF Repeats
  <2>5. QED BY <1>1, <2>1, <2>3, <2>4
<1>2. CASE p \in Suites /\ "suite" \in Commands
  <2>1. PICK n \in 2..MaxRuns : p.runs \in [1..n -> UNION SameNames]
    BY <1>2 DEF Suites
  <2>2. n \in Nat
    BY <2>1, BatchAssumption DEF BatchAssumption
  <2>3. Len(p.runs) = n /\ DOMAIN p.runs = 1..n
    BY <2>1, <2>2
  <2>4. p.command = "suite" /\ p.limits = NoLimits
    BY <1>2 DEF Suites
  <2>5. NoLimits \in [Budgets -> Limits \cup {0}]
    BY DEF NoLimits
  <2>6. QED BY <1>2, <2>1, <2>3, <2>4, <2>5
<1>3. QED BY <1>1, <1>2 DEF Plans

\* No command is started more often than Invocations.
LEMMA BoundFacts == \A c : Bound(c) \in Nat /\ Bound(c) <= Invocations
  BY BatchAssumption DEF BatchAssumption, Bound

\* The files that a run and the summary have.
LEMMA FileNames ==
    /\ ToSet(Artifacts) =
           {"draincheck.json", "draincheck.xml", "draincheck-debug.zip"}
    /\ ToSet(Summaries) = {"summary.json", "summary.xml"}
  BY DEF ToSet, Artifacts, Summaries

\* The head of what is pending is the file that is done when it is dropped.
LEMMA PendingFacts ==
    ASSUME PendingInv, at \in {"reporting", "summarizing"}, pending # <<>>
    PROVE  /\ at = "reporting" => Head(pending) \in ToSet(Artifacts)
           /\ at = "summarizing" => Head(pending) \in ToSet(Summaries)
           /\ ToSet(pending) = ToSet(Tail(pending)) \cup {Head(pending)}
           /\ at = "reporting" =>
                  Tail(pending) \in {Tail(Artifacts), Tail(Tail(Artifacts)), <<>>}
           /\ at = "summarizing" => Tail(pending) \in {Tail(Summaries), <<>>}
<1>1. CASE at = "reporting"
  <2>1. CASE pending = Artifacts
    BY <1>1, <2>1 DEF Artifacts, ToSet
  <2>2. CASE pending = Tail(Artifacts)
    BY <1>1, <2>2 DEF Artifacts, ToSet
  <2>3. CASE pending = Tail(Tail(Artifacts))
    BY <1>1, <2>3 DEF Artifacts, ToSet
  <2>4. QED BY <1>1, <2>1, <2>2, <2>3 DEF PendingInv
<1>2. CASE at = "summarizing"
  <2>1. CASE pending = Summaries
    BY <1>2, <2>1 DEF Summaries, ToSet
  <2>2. CASE pending = Tail(Summaries)
    BY <1>2, <2>2 DEF Summaries, ToSet
  <2>3. QED BY <1>2, <2>1, <2>2 DEF PendingInv
<1>3. QED BY <1>1, <1>2

\* The files of a run have their place on the disk.
LEMMA RunFilesArePaths ==
    ASSUME plan \in Plans, invocation \in 1..Bound(plan.command),
           NEW i \in 1..Requested, NEW file \in ToSet(Artifacts)
    PROVE  <<Directory(i), file>> \in ReportPaths /\ <<Directory(i), file>> \in Paths
<1>1. CASE plan.command = "repeat"
  <2>1. Directory(i) = RunDirectory(invocation, i)
    BY <1>1 DEF Directory
  <2>2. invocation \in 1..Bound("repeat") /\ i \in 1..MaxRuns
    BY <1>1, PlanFacts, BatchAssumption DEF Requested, BatchAssumption
  <2>3. QED BY <2>1, <2>2, EvidenceAssumption DEF ReportPaths, EvidenceAssumption
<1>2. CASE plan.command = "suite"
  <2>1. Directory(i) = ScenarioDirectory(plan.runs[i])
    BY <1>2 DEF Directory
  <2>2. plan.runs[i] \in UNION SameNames
    BY <1>2, PlanFacts DEF Requested
  <2>3. QED BY <2>1, <2>2, EvidenceAssumption DEF ReportPaths, EvidenceAssumption
<1>3. QED BY <1>1, <1>2, PlanFacts

\* So have the summaries.
LEMMA SummariesArePaths ==
    \A file \in ToSet(Summaries) :
        <<TopDirectory, file>> \in ReportPaths /\ <<TopDirectory, file>> \in Paths
  BY EvidenceAssumption DEF ReportPaths, EvidenceAssumption

\* The report in turn has its place among the reports of the report directory.
LEMMA TargetFacts ==
    ASSUME DataInv, PlanInv, PendingInv, LoopInv,
           at \in {"reporting", "summarizing"}, pending # <<>>
    PROVE  Target \in Paths /\ Report \in Values
<1>1. plan \in Plans /\ invocation \in 1..Bound(plan.command)
  BY DEF PlanInv
<1>2. index \in 1..Requested /\ Requested \in 2..MaxRuns /\ MaxRuns \in Nat
  BY <1>1, PlanFacts, BatchAssumption DEF LoopInv, Requested, Stopped, BatchAssumption
<1>3. invocation \in 1..Invocations /\ index \in 0..MaxRuns
  BY <1>1, <1>2, BoundFacts, BatchAssumption DEF BatchAssumption
<1>4. Report \in ReportValues
  <2>1. summary.verdict \in BOOLEAN
    BY DEF DataInv, SummaryType
  <2>2. ASSUME NEW i \in 0..MaxRuns, NEW v \in BOOLEAN
        PROVE  [by |-> invocation, run |-> i, passed |-> v] \in ReportValues
    BY <1>3 DEF ReportValues
  <2>3. (run.result = "passed") \in BOOLEAN /\ 0 \in 0..MaxRuns
    BY <1>2
  <2>4. QED BY <1>3, <2>1, <2>2, <2>3, Zenon DEF Report
<1>5. Target \in Paths
  <2>1. CASE at = "summarizing"
    BY <2>1, PendingFacts, SummariesArePaths DEF Target
  <2>2. CASE at = "reporting"
    BY <1>1, <1>2, <2>2, PendingFacts, RunFilesArePaths DEF Target
  <2>3. QED BY <2>1, <2>2
<1>6. QED BY <1>4, <1>5, EvidenceAssumption DEF EvidenceAssumption

------------------------------------------------------------------------------
\* Everything is written through writeAtomic

\* The sequence moves the files in no other way than by calls of writeAtomic.
LEMMA FileStep ==
    ASSUME DataInv, PlanInv, PendingInv, LoopInv, [Next]_vars
    PROVE  [FileNext]_fileVars
<1>1. CASE BeginFile
  <2>1. Write(Target, Report) /\ Target \in Paths /\ Report \in Values
    BY <1>1, TargetFacts DEF BeginFile
  <2>2. QED BY <2>1, Zenon DEF FileNext
<1>2. CASE WriterMoves
  BY <1>2, Zenon DEF WriterMoves, FileNext
<1>3. CASE EndFile
  BY <1>3, Zenon DEF EndFile, FileNext
<1>4. CASE Crash
  BY <1>4, Zenon DEF Crash, FileNext
<1>5. CASE \/ Start \/ Verify \/ AddRun \/ Finish \/ Exit \/ Interrupt
           \/ UNCHANGED vars
  <2>1. UNCHANGED fileVars
    BY <1>5 DEF Start, Verify, AddRun, Finish, Exit, Interrupt, vars
  <2>2. QED BY <2>1
<1>6. QED
  BY <1>1, <1>2, <1>3, <1>4, <1>5, Zenon DEF Next, Terminated

\* The files keep the invariant that ReportFileProofs has of them.
LEMMA FilesNext ==
    FileInv /\ DataInv /\ PlanInv /\ PendingInv /\ LoopInv /\ [Next]_vars => FileInv'
  BY FileStep, FileInvNext

------------------------------------------------------------------------------
\* The summary

\* The summary that a sequence starts with.
LEMMA NewIsSummary ==
    ASSUME NEW p
    PROVE  /\ New(p) \in SummaryType
           /\ New(p).runs = <<>> /\ New(p).samples = <<>>
           /\ New(p).completed = 0 /\ New(p).passed = 0 /\ New(p).failed = 0
           /\ New(p).errors = 0
<1>1. [b \in {} |-> FALSE] \in [{} -> BudgetResults] /\ {} \in SUBSET Budgets
  OBVIOUS
<1>2. [b \in {} |-> FALSE] \in UNION {[S -> BudgetResults] : S \in SUBSET Budgets}
  BY <1>1
<1>3. <<>> \in Seq(RunResults) /\ <<>> \in Seq([Budgets -> Nat])
  OBVIOUS
<1>4. QED BY <1>2, <1>3 DEF New, SummaryType

\* What verification returns is a sample of every budget.
LEMMA AnswerFacts ==
    ASSUME NEW a \in Answers
    PROVE  /\ a.result \in {"none", "failed", "passed"} /\ a.error \in BOOLEAN
           /\ a.timing \in [Budgets -> Nat]
           /\ a.result = "none" => a.error
<1>1. /\ NoLimits \in [Budgets -> Nat]
      /\ [Budgets -> Durations] \subseteq [Budgets -> Nat]
  BY BatchAssumption DEF BatchAssumption, NoLimits
<1>2. Timings \subseteq [Budgets -> Nat]
  BY <1>1 DEF Timings
<1>3. CASE a \in [result : {"failed"}, error : BOOLEAN, timing : {NoLimits}]
  BY <1>1, <1>3
<1>4. CASE a = [result |-> "none", error |-> TRUE, timing |-> NoLimits]
  BY <1>1, <1>4
<1>5. CASE a \in [result : {"passed"}, error : {FALSE}, timing : Timings]
  BY <1>2, <1>5
<1>6. QED BY <1>3, <1>4, <1>5 DEF Answers

\* One more run is one more in the count, if it counts.
LEMMA CountOneMore ==
    ASSUME NEW n \in Nat, NEW P, NEW Q, P \in [1..n -> BOOLEAN],
           Q \in [1..(n + 1) -> BOOLEAN], \A i \in 1..n : Q[i] = P[i]
    PROVE  Cardinality({i \in 1..(n + 1) : Q[i]}) =
               Cardinality({i \in 1..n : P[i]}) + IF Q[n + 1] THEN 1 ELSE 0
<1> DEFINE old == {i \in 1..n : P[i]}
           new == {i \in 1..(n + 1) : Q[i]}
<1>1. IsFiniteSet(old) /\ Cardinality(old) \in Nat /\ n + 1 \notin old
  <2>1. IsFiniteSet(1..n)
    BY FS_Interval
  <2>2. old \subseteq 1..n /\ n + 1 \notin old
    OBVIOUS
  <2>3. QED BY <2>1, <2>2, FS_Subset, FS_CardinalityType
<1>2. CASE Q[n + 1]
  <2>1. new = old \cup {n + 1}
    BY <1>2
  <2>2. QED BY <1>1, <1>2, <2>1, FS_AddElement
<1>3. CASE ~Q[n + 1]
  <2>1. new = old
    BY <1>3
  <2>2. Cardinality(new) = Cardinality(old)
    BY <2>1
  <2> HIDE DEF new, old
  <2>3. Cardinality(new) = Cardinality(old) + 0
    BY <1>1, <2>2
  <2>4. QED BY <1>3, <2>3 DEF new, old
<1>4. QED BY <1>2, <1>3

\* What is counted is a matter of the list of runs.
Failed(runs) == {i \in 1..Len(runs) : ~runs[i].passed}
Erred(runs) == {i \in 1..Len(runs) : runs[i].error}

\* Appending a run counts it.
LEMMA CountAppend ==
    ASSUME NEW runs \in Seq(RunResults), NEW r \in RunResults
    PROVE  /\ Cardinality(Failed(Append(runs, r))) =
                  Cardinality(Failed(runs)) + IF r.passed THEN 0 ELSE 1
           /\ Cardinality(Erred(Append(runs, r))) =
                  Cardinality(Erred(runs)) + IF r.error THEN 1 ELSE 0
<1> DEFINE n == Len(runs)
           s == Append(runs, r)
<1>1. n \in Nat /\ Len(s) = n + 1 /\ s[n + 1] = r /\ \A i \in 1..n : s[i] = runs[i]
  OBVIOUS
<1>2. \A i \in 1..n : runs[i] \in RunResults
  OBVIOUS
<1> HIDE DEF n, s
<1>3. \A i \in 1..(n + 1) : s[i] \in RunResults
  BY <1>1, <1>2
<1>4. Cardinality(Failed(s)) = Cardinality(Failed(runs)) + IF r.passed THEN 0 ELSE 1
  <2> DEFINE P == [i \in 1..n |-> ~runs[i].passed]
             Q == [i \in 1..(n + 1) |-> ~s[i].passed]
  <2>1. P \in [1..n -> BOOLEAN] /\ Q \in [1..(n + 1) -> BOOLEAN]
    OBVIOUS
  <2>2. \A i \in 1..n : Q[i] = P[i]
    BY <1>1
  <2>3. Q[n + 1] = ~r.passed
    BY <1>1
  <2>4. Failed(runs) = {i \in 1..n : P[i]} /\ Failed(s) = {i \in 1..(n + 1) : Q[i]}
    BY <1>1 DEF Failed, n
  <2> HIDE DEF P, Q
  <2>5. Cardinality({i \in 1..(n + 1) : Q[i]}) =
            Cardinality({i \in 1..n : P[i]}) + IF Q[n + 1] THEN 1 ELSE 0
    BY <1>1, <2>1, <2>2, CountOneMore
  <2>6. QED BY <2>3, <2>4, <2>5
<1>5. Cardinality(Erred(s)) = Cardinality(Erred(runs)) + IF r.error THEN 1 ELSE 0
  <2> DEFINE P == [i \in 1..n |-> runs[i].error]
             Q == [i \in 1..(n + 1) |-> s[i].error]
  <2>1. P \in [1..n -> BOOLEAN] /\ Q \in [1..(n + 1) -> BOOLEAN]
    BY <1>2, <1>3 DEF RunResults
  <2>2. \A i \in 1..n : Q[i] = P[i]
    BY <1>1
  <2>3. Q[n + 1] = r.error
    BY <1>1
  <2>4. Erred(runs) = {i \in 1..n : P[i]} /\ Erred(s) = {i \in 1..(n + 1) : Q[i]}
    BY <1>1 DEF Erred, n
  <2> HIDE DEF P, Q
  <2>5. Cardinality({i \in 1..(n + 1) : Q[i]}) =
            Cardinality({i \in 1..n : P[i]}) + IF Q[n + 1] THEN 1 ELSE 0
    BY <1>1, <2>1, <2>2, CountOneMore
  <2>6. QED BY <2>3, <2>4, <2>5
<1>6. QED BY <1>4, <1>5 DEF s

\* The counters of a summary, and that no run with an error passed.
Counts(s) ==
    /\ s.completed = Len(s.runs)
    /\ s.completed = s.passed + s.failed
    /\ s.errors <= s.failed
    /\ s.passed = Len(s.samples)
    /\ s.failed = Cardinality(Failed(s.runs))
    /\ s.errors = Cardinality(Erred(s.runs))
    /\ \A i \in 1..s.completed : s.runs[i].error => ~s.runs[i].passed

\* Add appends one run, counts it, and takes a sample of it if it passed.
LEMMA AddFacts ==
    ASSUME NEW s \in SummaryType, NEW result, NEW err \in BOOLEAN,
           NEW timing \in [Budgets -> Nat]
    PROVE  LET t == Add(s, result, err, timing)
           IN  /\ t \in SummaryType
               /\ Counts(s) => Counts(t)
<1> DEFINE t == Add(s, result, err, timing)
<1>1. PICK passed \in BOOLEAN : passed = (result = "passed" /\ ~err)
  OBVIOUS
<1>2. PICK r \in RunResults : r = [passed |-> passed, error |-> err]
  BY DEF RunResults
<1>3. r.passed = passed /\ r.error = err /\ (passed => ~err)
  BY <1>1, <1>2
<1>4. PICK c \in Nat, p \in Nat, f \in Nat, e \in Nat :
          s.completed = c /\ s.passed = p /\ s.failed = f /\ s.errors = e
  BY DEF SummaryType
<1>5. PICK runs \in Seq(RunResults), samples \in Seq([Budgets -> Nat]) :
          s.runs = runs /\ s.samples = samples
  BY DEF SummaryType
<1>6. PICK more : more = Append(runs, r)
  OBVIOUS
<1>7. /\ more \in Seq(RunResults) /\ Len(more) = Len(runs) + 1
      /\ more[Len(runs) + 1] = r
      /\ \A i \in 1..Len(runs) : more[i] = runs[i]
  BY <1>6
<1>8. PICK taken : taken = IF passed THEN Append(samples, timing) ELSE samples
  OBVIOUS
<1>9. /\ taken \in Seq([Budgets -> Nat])
      /\ Len(taken) = Len(samples) + IF passed THEN 1 ELSE 0
  BY <1>8
<1>10. t = [s EXCEPT
        !.completed = c + 1,
        !.passed = p + IF passed THEN 1 ELSE 0,
        !.failed = f + IF passed THEN 0 ELSE 1,
        !.errors = e + IF err THEN 1 ELSE 0,
        !.runs = more,
        !.samples = taken]
  BY <1>1, <1>2, <1>4, <1>5, <1>6, <1>8, Zenon DEF Add
<1>11. /\ c + 1 \in Nat
       /\ p + (IF passed THEN 1 ELSE 0) \in Nat
       /\ f + (IF passed THEN 0 ELSE 1) \in Nat
       /\ e + (IF err THEN 1 ELSE 0) \in Nat
  OBVIOUS
<1> HIDE DEF t
<1>12. t \in SummaryType
  BY <1>7, <1>9, <1>10, <1>11 DEF SummaryType
<1>13. /\ t.completed = c + 1
       /\ t.passed = p + IF passed THEN 1 ELSE 0
       /\ t.failed = f + IF passed THEN 0 ELSE 1
       /\ t.errors = e + IF err THEN 1 ELSE 0
       /\ t.runs = more /\ t.samples = taken
  BY <1>10 DEF SummaryType
<1>14. ASSUME Counts(s) PROVE Counts(t)
  <2>1. /\ c = Len(runs) /\ c = p + f /\ e <= f /\ p = Len(samples)
        /\ f = Cardinality(Failed(runs)) /\ e = Cardinality(Erred(runs))
        /\ \A i \in 1..c : runs[i].error => ~runs[i].passed
    BY <1>4, <1>5, <1>14, Zenon DEF Counts
  <2>2. /\ Cardinality(Failed(more)) = f + IF passed THEN 0 ELSE 1
        /\ Cardinality(Erred(more)) = e + IF err THEN 1 ELSE 0
    BY <1>3, <1>6, <2>1, CountAppend
  <2>3. /\ c + 1 = Len(more) /\ p + (IF passed THEN 1 ELSE 0) = Len(taken)
        /\ c + 1 = p + (IF passed THEN 1 ELSE 0) + (f + IF passed THEN 0 ELSE 1)
        /\ e + (IF err THEN 1 ELSE 0) <= f + IF passed THEN 0 ELSE 1
    <3>1. c = p + f /\ e <= f /\ (passed => ~err)
      BY <1>3, <2>1
    <3>2. c + 1 = Len(more)
      BY <1>7, <2>1
    <3>3. p + (IF passed THEN 1 ELSE 0) = Len(taken)
      BY <1>9, <2>1
    <3>4. c + 1 = p + (IF passed THEN 1 ELSE 0) + (f + IF passed THEN 0 ELSE 1)
      BY <3>1
    <3>5. e + (IF err THEN 1 ELSE 0) <= f + IF passed THEN 0 ELSE 1
      BY <3>1
    <3>6. QED BY <3>2, <3>3, <3>4, <3>5, Zenon
  <2>4. \A i \in 1..(c + 1) : more[i].error => ~more[i].passed
    <3>1. ASSUME NEW i \in 1..(c + 1) PROVE more[i].error => ~more[i].passed
      <4>1. CASE i \in 1..c
        <5>1. more[i] = runs[i] /\ (runs[i].error => ~runs[i].passed)
          BY <1>7, <2>1, <4>1
        <5>2. QED BY <5>1, Zenon
      <4>2. CASE i = c + 1
        <5>1. more[i] = r
          BY <1>7, <2>1, <4>2
        <5>2. QED BY <1>3, <5>1, Zenon
      <4>3. QED BY <4>1, <4>2
    <3>2. QED BY <3>1
  <2>5. QED BY <1>13, <2>2, <2>3, <2>4, Zenon DEF Counts
<1>15. QED BY <1>12, <1>14, Zenon DEF t

\* Add makes a summary of a summary.
LEMMA AddIsSummary ==
    ASSUME NEW s \in SummaryType, NEW result, NEW err \in BOOLEAN,
           NEW timing \in [Budgets -> Nat]
    PROVE  Add(s, result, err, timing) \in SummaryType
  BY AddFacts

\* Add keeps the counters right.
LEMMA AddCounts ==
    ASSUME NEW s \in SummaryType, NEW result, NEW err \in BOOLEAN,
           NEW timing \in [Budgets -> Nat], Counts(s)
    PROVE  Counts(Add(s, result, err, timing))
  BY AddFacts

\* Add appends the result and the error of the run.
LEMMA AddRuns ==
    ASSUME NEW s \in SummaryType, NEW result, NEW err \in BOOLEAN, NEW timing
    PROVE  Add(s, result, err, timing).runs =
               Append(s.runs, [passed |-> result = "passed" /\ ~err, error |-> err])
<1>1. PICK c, p, f, e, samples :
          Add(s, result, err, timing) =
              [s EXCEPT !.completed = c, !.passed = p, !.failed = f,
                        !.errors = e,
                        !.runs = Append(s.runs, [passed |-> result = "passed" /\ ~err,
                                                 error |-> err]),
                        !.samples = samples]
  BY Zenon DEF Add
<1>2. QED BY <1>1 DEF SummaryType

\* Add counts one more run, and no error unless there was one.
LEMMA AddOneMore ==
    ASSUME NEW s \in SummaryType, NEW c \in Nat, s.completed = c,
           NEW result, NEW err \in BOOLEAN, NEW timing
    PROVE  /\ Add(s, result, err, timing).completed = c + 1
           /\ ~err => Add(s, result, err, timing).errors = s.errors
<1>1. PICK e \in Nat : s.errors = e
  BY DEF SummaryType
<1>2. PICK p, f, e2, runs, samples :
          Add(s, result, err, timing) =
              [s EXCEPT !.completed = c + 1, !.passed = p, !.failed = f,
                        !.errors = e2, !.runs = runs, !.samples = samples]
          /\ e2 = e + IF err THEN 1 ELSE 0
  BY <1>1, Zenon DEF Add
<1>3. QED BY <1>1, <1>2 DEF SummaryType

Evaluated(s) == [b \in Configured |-> Budget(s, b, LifecyclePassed(s))]
OverBudget(s) ==
    {b \in Configured : Evaluated(s)[b].evaluated /\ ~Evaluated(s)[b].passed}

\* Finish adds the budgets and the verdict and could do so again.
LEMMA FinishedFacts ==
    ASSUME NEW s \in SummaryType
    PROVE  LET t == Finished(s)
           IN  /\ t \in SummaryType /\ Finished(t) = t
               /\ t.completed = s.completed /\ t.passed = s.passed
               /\ t.failed = s.failed /\ t.errors = s.errors
               /\ t.runs = s.runs /\ t.samples = s.samples
               /\ t.budgets = Evaluated(t)
               /\ t.budgetFailures = Cardinality(OverBudget(t))
               /\ t.verdict <=> LifecyclePassed(t) /\ OverBudget(t) = {}
<1> DEFINE t == Finished(s)
           verdict == LifecyclePassed(s) /\ OverBudget(s) = {}
<1>1. t = [s EXCEPT !.budgets = Evaluated(s),
                    !.budgetFailures = Cardinality(OverBudget(s)),
                    !.verdict = verdict]
  BY Zenon DEF Finished, Evaluated, OverBudget
<1>2. Evaluated(s) \in UNION {[S -> BudgetResults] : S \in SUBSET Budgets}
  <2>1. ASSUME NEW b \in Configured
        PROVE  Budget(s, b, LifecyclePassed(s)) \in BudgetResults
    <3>1. LifecyclePassed(s) \in BOOLEAN
      BY DEF LifecyclePassed
    <3>2. QED BY <3>1 DEF Budget, BudgetResults
  <2>2. Evaluated(s) \in [Configured -> BudgetResults]
    BY <2>1 DEF Evaluated
  <2>3. Configured \in SUBSET Budgets
    BY DEF Configured
  <2>4. QED BY <2>2, <2>3
<1>3. Cardinality(OverBudget(s)) \in Nat /\ verdict \in BOOLEAN
  <2>1. OverBudget(s) \in SUBSET Budgets
    BY DEF OverBudget, Configured
  <2>2. QED
    BY <2>1, BatchAssumption, FS_Subset, FS_CardinalityType DEF BatchAssumption
<1> HIDE DEF t, verdict
<1>4. t \in SummaryType
  BY <1>1, <1>2, <1>3 DEF SummaryType
<1>5. /\ t.completed = s.completed /\ t.passed = s.passed
      /\ t.failed = s.failed /\ t.errors = s.errors
      /\ t.runs = s.runs /\ t.samples = s.samples
      /\ t.budgets = Evaluated(s)
      /\ t.budgetFailures = Cardinality(OverBudget(s))
      /\ t.verdict = verdict
  BY <1>1 DEF SummaryType
<1>6. LifecyclePassed(t) = LifecyclePassed(s)
  BY <1>5 DEF LifecyclePassed
<1>7. Evaluated(t) = Evaluated(s)
  <2>1. \A b : Budget(t, b, LifecyclePassed(t)) = Budget(s, b, LifecyclePassed(s))
    BY <1>5, <1>6, Zenon DEF Budget
  <2>2. QED BY <2>1, Zenon DEF Evaluated
<1>8. OverBudget(t) = OverBudget(s)
  BY <1>7, Zenon DEF OverBudget
<1>9. Finished(t) = t
  <2>1. Finished(t) = [t EXCEPT !.budgets = Evaluated(t),
                                !.budgetFailures = Cardinality(OverBudget(t)),
                                !.verdict = LifecyclePassed(t) /\ OverBudget(t) = {}]
    BY Zenon DEF Finished, Evaluated, OverBudget
  <2>2. (LifecyclePassed(t) /\ OverBudget(t) = {}) = verdict
    BY <1>6, <1>8, Zenon DEF verdict
  <2>3. Finished(t) = [t EXCEPT !.budgets = t.budgets,
                                !.budgetFailures = t.budgetFailures,
                                !.verdict = t.verdict]
    BY <1>5, <1>7, <1>8, <2>1, <2>2, Zenon
  <2>4. QED BY <1>4, <2>3 DEF SummaryType
<1>10. t.verdict <=> LifecyclePassed(t) /\ OverBudget(t) = {}
  BY <1>5, <1>6, <1>8, Zenon DEF verdict
<1>11. QED BY <1>4, <1>5, <1>7, <1>8, <1>9, <1>10, Zenon DEF t

------------------------------------------------------------------------------
\* The steps

\* What verification may answer is a matter of the plan.
LEMMA SameAnswers == plan' = plan => Answers' = Answers
  BY DEF Answers, Timings

\* The steps that only move the files and what is left to be written.
Quiet == BeginFile \/ WriterMoves \/ EndFile \/ Interrupt \/ UNCHANGED vars

\* They leave the sequence alone.
LEMMA QuietFrame ==
    ASSUME Quiet
    PROVE  UNCHANGED <<sequence, at, code>>
  BY DEF Quiet, BeginFile, WriterMoves, EndFile, Interrupt, vars

\* Every step is one of these.
LEMMA StepCases ==
    [Next]_vars => Quiet \/ Start \/ Verify \/ AddRun \/ Finish \/ Exit \/ Crash
  BY Zenon DEF Next, Quiet, Terminated

\* Every step keeps the types.
LEMMA DataNext ==
    FileInv /\ DataInv /\ PendingInv /\ LoopInv /\ [Next]_vars => DataInv'
<1> SUFFICES ASSUME FileInv, DataInv, PendingInv, LoopInv, [Next]_vars
             PROVE  DataInv'
  OBVIOUS
<1>0. /\ at \in Stopped \cup {"verifying", "reporting", "finishing", "summarizing"}
      /\ pull \in BOOLEAN /\ problem \in BOOLEAN
      /\ primaryErr \in BOOLEAN /\ interrupted \in BOOLEAN
      /\ code \in {0, 1, 2, 3, 130}
      /\ run \in Answers \cup {NoRun}
      /\ summary \in SummaryType
  BY DEF DataInv
<1>1. CASE Quiet
  <2>1. UNCHANGED <<invocation, plan, at, index, pull, run, summary, primaryErr, code>>
    BY <1>1, QuietFrame DEF sequence
  <2>2. problem' \in BOOLEAN
    BY <1>0, <1>1
    DEF Quiet, BeginFile, WriterMoves, EndFile, Interrupt, vars, FileInv, FileTypeOK
  <2>3. interrupted' \in BOOLEAN
    BY <1>0, <1>1 DEF Quiet, BeginFile, WriterMoves, EndFile, Interrupt, vars
  <2>4. QED BY <1>0, <2>1, <2>2, <2>3, SameAnswers DEF DataInv, SummaryType
<1>2. CASE Start
  <2>1. summary' \in SummaryType
    BY <1>2, NewIsSummary DEF Start
  <2>2. at' \in {"verifying", "exited"} /\ code' \in {0, 2, 3}
    BY <1>2 DEF Start
  <2>3. /\ pull' \in BOOLEAN /\ problem' \in BOOLEAN /\ primaryErr' \in BOOLEAN
        /\ interrupted' \in BOOLEAN /\ run' = NoRun
    BY <1>2 DEF Start
  <2>4. QED BY <2>1, <2>2, <2>3 DEF DataInv, Stopped
<1>3. CASE Verify
  <2>1. run' \in Answers /\ plan' = plan
    BY <1>3 DEF Verify
  <2>2. /\ UNCHANGED <<pull, summary, primaryErr, interrupted, code>>
        /\ at' = "reporting" /\ problem' = FALSE
    BY <1>3 DEF Verify
  <2>3. QED BY <1>0, <2>1, <2>2, SameAnswers DEF DataInv
<1>4. CASE AddRun
  <2>1. run \in Answers
    BY <1>4 DEF AddRun, PendingInv
  <2>2. summary' \in SummaryType
    <3>1. run.error \/ problem \in BOOLEAN
      BY <1>0, <2>1, AnswerFacts
    <3>2. summary' = Add(summary, run.result, run.error \/ problem, run.timing)
      BY <1>4 DEF AddRun
    <3>3. QED BY <1>0, <2>1, <3>1, <3>2, AnswerFacts, AddIsSummary
  <2>3. /\ primaryErr' = (run.error \/ problem)
        /\ pull' = (pull /\ (run.error \/ problem))
        /\ at' \in {"finishing", "verifying"}
        /\ UNCHANGED <<plan, run, problem, interrupted, code>>
    BY <1>4 DEF AddRun
  <2>4. primaryErr' \in BOOLEAN /\ pull' \in BOOLEAN
    BY <1>0, <2>1, <2>3, AnswerFacts
  <2>5. QED BY <1>0, <2>2, <2>3, <2>4, SameAnswers DEF DataInv
<1>5. CASE Finish
  <2>1. summary' \in SummaryType
    BY <1>0, <1>5, FinishedFacts DEF Finish
  <2>2. /\ UNCHANGED <<plan, pull, run, primaryErr, interrupted, code>>
        /\ at' = "summarizing" /\ problem' = FALSE
    BY <1>5 DEF Finish
  <2>3. QED BY <1>0, <2>1, <2>2, SameAnswers DEF DataInv
<1>6. CASE Exit
  <2>1. /\ UNCHANGED <<plan, pull, run, summary, primaryErr, problem, interrupted>>
        /\ at' = "exited" /\ code' \in {0, 1, 3, 130}
    BY <1>6 DEF Exit, ExitCode, sequence
  <2>2. QED BY <1>0, <2>1, SameAnswers DEF DataInv, Stopped
<1>7. CASE Crash
  <2>1. summary' \in SummaryType
    BY <1>7, NewIsSummary DEF Crash
  <2>2. /\ pull' \in BOOLEAN /\ problem' \in BOOLEAN /\ primaryErr' \in BOOLEAN
        /\ interrupted' \in BOOLEAN /\ run' = NoRun /\ at' = "dead" /\ code' = 0
    BY <1>7 DEF Crash
  <2>3. QED BY <2>1, <2>2 DEF DataInv, Stopped
<1>8. QED BY <1>1, <1>2, <1>3, <1>4, <1>5, <1>6, <1>7, StepCases

\* Start makes a plan of its own command; nothing else changes it.
LEMMA PlanNext == PlanInv /\ [Next]_vars => PlanInv'
<1> SUFFICES ASSUME PlanInv, [Next]_vars PROVE PlanInv'
  OBVIOUS
<1>1. CASE Start
  <2>1. plan' \in Plans /\ at' \in {"verifying", "exited"} /\ invocation' = invocation + 1
    BY <1>1 DEF Start
  <2>2. invocation \in Nat /\ invocation < Bound(plan'.command)
    BY <1>1, BoundFacts DEF Start, PlanInv
  <2>3. invocation' \in 1..Bound(plan'.command)
    BY <2>1, <2>2, BoundFacts
  <2>4. at' \notin Stopped /\ plan'.command = "suite" => Unique(plan'.runs)
    BY <1>1 DEF Start, Stopped
  <2>5. Plans' = Plans /\ Bound(plan'.command) = Bound(plan.command)'
    OBVIOUS
  <2>6. Unique(plan'.runs) <=> Unique(plan.runs)'
    OBVIOUS
  <2>7. QED BY <2>1, <2>3, <2>4, <2>5, <2>6 DEF PlanInv
<1>2. CASE Quiet \/ Verify \/ AddRun \/ Finish \/ Exit \/ Crash
  <2>1. UNCHANGED <<plan, invocation>>
    BY <1>2, QuietFrame DEF Verify, AddRun, Finish, Exit, Crash, sequence
  <2>2. /\ at' = "off" => at = "off"
        /\ at = "off" => at' = "off"
        /\ at' \notin Stopped => at \notin Stopped
    BY <1>2, QuietFrame DEF Verify, AddRun, Finish, Exit, Crash, Stopped
  <2>3. QED BY <2>1, <2>2 DEF PlanInv
<1>3. QED BY <1>1, <1>2, StepCases


\* Verify and Finish say what is to be written, and EndFile drops the first of
\* it.
LEMMA PendingNext ==
    DataInv /\ PendingInv /\ CallInv /\ [Next]_vars => PendingInv'
<1> SUFFICES ASSUME DataInv, PendingInv, CallInv, [Next]_vars
             PROVE  PendingInv'
  OBVIOUS
<1>1. CASE BeginFile \/ WriterMoves \/ Interrupt \/ UNCHANGED vars
  <2>1. UNCHANGED <<plan, at, run, pending>>
    BY <1>1 DEF BeginFile, WriterMoves, Interrupt, vars, sequence
  <2>2. QED BY <2>1, SameAnswers DEF PendingInv
<1>2. CASE EndFile
  <2>1. at \in {"reporting", "summarizing"} /\ pending # <<>>
    BY <1>2 DEF EndFile, Collect, CallInv
  <2>2. UNCHANGED <<plan, at, run>> /\ pending' = Tail(pending)
    BY <1>2 DEF EndFile, sequence
  <2>3. /\ at = "reporting" =>
               Tail(pending) \in {Tail(Artifacts), Tail(Tail(Artifacts)), <<>>}
        /\ at = "summarizing" => Tail(pending) \in {Tail(Summaries), <<>>}
    BY <2>1, PendingFacts
  <2>4. QED BY <2>1, <2>2, <2>3, SameAnswers DEF PendingInv
<1>3. CASE Verify
  <2>1. run' \in Answers /\ plan' = plan /\ pending' \in {<<>>, Artifacts}
    BY <1>3 DEF Verify
  <2>2. at' = "reporting"
    BY <1>3 DEF Verify
  <2>3. QED BY <2>1, <2>2, SameAnswers DEF PendingInv
<1>4. CASE Finish
  BY <1>4 DEF Finish, PendingInv
<1>5. CASE Start \/ AddRun \/ Exit \/ Crash
  <2>1. /\ pending' = <<>>
        /\ at' \in {"verifying", "exited", "finishing", "dead"}
    BY <1>5 DEF Start, AddRun, Exit, Crash, Written
  <2>2. QED BY <2>1 DEF PendingInv
<1>6. QED BY <1>1, <1>2, <1>3, <1>4, <1>5, StepCases DEF Quiet

\* A system call of writeAtomic moves no other path than that of the call.
LEMMA WriterFacts ==
    ASSUME FileInv, WriterStep
    PROVE  /\ writer.at # "idle" /\ writer'.at # "idle"
           /\ writer'.path = writer.path /\ writer'.value = writer.value
           /\ \A p \in Paths : p # writer.path => disk'[p] = disk[p]
           /\ writer'.at = "returned" /\ ~writer'.error =>
                  disk'[writer'.path].value = writer'.value
<1>0. /\ writer.at # "idle" => writer.path \in Paths
      /\ disk \in [Paths -> [value : Values \cup {Absent, Torn}, synced : BOOLEAN]]
      /\ writer \in [at : WriterAt, path : Paths \cup {NoPath},
                     value : Values \cup {Absent}, synced : BOOLEAN,
                     error : BOOLEAN]
  BY DEF FileInv, FileTypeOK
<1>1. writer.at # "idle"
  BY DEF WriterStep, CreateTemp, WriteTemp, Sync, Close, Rename, Stat,
         RemoveOld, RetryRename
<1>2. CASE Place
  BY <1>0, <1>1, <1>2 DEF Place
<1>3. CASE /\ writer' = [writer EXCEPT !.at = "returned", !.error = TRUE]
            /\ disk' = disk
  BY <1>0, <1>1, <1>3
<1>4. CASE \E at_ \in WriterAt \ {"idle", "returned"} :
               writer' = [writer EXCEPT !.at = at_] /\ disk' = disk
  BY <1>0, <1>1, <1>4
<1>5. CASE writer' = [writer EXCEPT !.at = "close", !.synced = Synced] /\ disk' = disk
  BY <1>0, <1>1, <1>5
<1>6. CASE /\ disk' = [disk EXCEPT ![writer.path] =
                           [value |-> Absent, synced |-> TRUE]]
           /\ writer' = [writer EXCEPT !.at = "retry"]
  BY <1>0, <1>1, <1>6
<1>7. QED
  BY <1>2, <1>3, <1>4, <1>5, <1>6
  DEF WriterStep, CreateTemp, WriteTemp, Sync, Close, Rename, Stat, RemoveOld,
      RetryRename, Continue, Fails, WriterAt

\* A report in place stays there, but for the one whose turn it is.
LEMMA DiskFacts ==
    ASSUME FileInv, CallInv, [Next]_vars
    PROVE  \/ disk' = disk
           \/ /\ WriterMoves
              /\ at \in {"reporting", "summarizing"} /\ pending # <<>>
              /\ \A p \in Paths : p # Target => disk'[p] = disk[p]
<1>1. CASE WriterMoves
  <2>1. WriterStep
    BY <1>1 DEF WriterMoves
  <2>2. writer.at # "idle" /\ \A p \in Paths : p # writer.path => disk'[p] = disk[p]
    BY <2>1, WriterFacts
  <2>3. QED BY <1>1, <2>2 DEF CallInv
<1>2. CASE Crash
  BY <1>2, NothingToTear DEF Crash, FileCrash
<1>3. CASE ~WriterMoves /\ ~Crash
  BY <1>3, StepCases
  DEF Quiet, BeginFile, EndFile, Write, Collect, Interrupt, vars, fileVars, Start,
      Verify, AddRun, Finish, Exit
<1>4. QED BY <1>1, <1>2, <1>3

\* A call of writeAtomic is about the first file that is pending.
LEMMA CallNext ==
    FileInv /\ DataInv /\ PendingInv /\ CallInv /\ [Next]_vars => CallInv'
<1> SUFFICES ASSUME FileInv, DataInv, PendingInv, CallInv, [Next]_vars
             PROVE  CallInv'
  OBVIOUS
<1>1. CASE Interrupt \/ UNCHANGED vars
  <2>1. UNCHANGED <<fileVars, sequence, at, pending>>
    BY <1>1 DEF Interrupt, vars
  <2>2. UNCHANGED <<disk, writer, invocation, plan, at, index, run, summary, pending>>
    BY <2>1 DEF fileVars, sequence
  <2>3. Target' = Target /\ Report' = Report
    BY <2>2 DEF Target, Report, Directory
  <2>4. QED BY <2>2, <2>3 DEF CallInv
<1>2. CASE BeginFile
  <2>1. UNCHANGED <<invocation, plan, at, index, run, summary, pending>>
    BY <1>2 DEF BeginFile, sequence
  <2>2. Target' = Target /\ Report' = Report
    BY <2>1 DEF Target, Report, Directory
  <2>3. writer'.at = "directory" /\ writer'.path = Target /\ writer'.value = Report
    BY <1>2 DEF BeginFile, Write, Idle
  <2>4. at \in {"reporting", "summarizing"} /\ pending # <<>>
    BY <1>2 DEF BeginFile
  <2>5. QED BY <2>1, <2>2, <2>3, <2>4 DEF CallInv
<1>3. CASE WriterMoves
  <2>1. UNCHANGED <<invocation, plan, at, index, run, summary, pending>>
    BY <1>3 DEF WriterMoves, sequence
  <2>2. Target' = Target /\ Report' = Report
    BY <2>1 DEF Target, Report, Directory
  <2>3. /\ writer.at # "idle" /\ writer'.at # "idle"
        /\ writer'.path = writer.path /\ writer'.value = writer.value
        /\ writer'.at = "returned" /\ ~writer'.error =>
               disk'[writer'.path].value = writer'.value
    BY <1>3, WriterFacts DEF WriterMoves
  <2>4. QED BY <2>1, <2>2, <2>3 DEF CallInv
<1>4. CASE EndFile \/ Crash
  <2>1. writer'.at = "idle"
    BY <1>4 DEF EndFile, Collect, Crash, FileCrash, Idle
  <2>2. QED BY <2>1 DEF CallInv
<1>5. CASE Start \/ Verify \/ AddRun \/ Finish \/ Exit
  <2>1. writer.at = "idle" /\ writer' = writer
    BY <1>5
    DEF Start, Verify, AddRun, Finish, Exit, fileVars, CallInv, Written, Stopped
  <2>2. QED BY <2>1 DEF CallInv
<1>6. QED BY <1>1, <1>2, <1>3, <1>4, <1>5, StepCases DEF Quiet

\* The invariant is about the counters of the summary.
LEMMA CountsAreThese == CountInv <=> Counts(summary)
  BY DEF CountInv, Counts, Failed, Erred

\* The steps that leave the summary as it is, and those that do not.
LEMMA SummarySteps ==
    ASSUME [Next]_vars
    PROVE  \/ summary' = summary /\ ~Start /\ ~AddRun /\ ~Finish /\ ~Crash
           \/ Start \/ AddRun \/ Finish \/ Crash
  BY StepCases, QuietFrame, Zenon DEF Verify, Exit, sequence

\* An empty summary counts nothing.
LEMMA NothingCounted == ASSUME NEW p PROVE Counts(New(p))
<1>1. /\ New(p).runs = <<>> /\ New(p).samples = <<>>
      /\ New(p).completed = 0 /\ New(p).passed = 0 /\ New(p).failed = 0
      /\ New(p).errors = 0
  BY NewIsSummary
<1>2. Failed(<<>>) = {} /\ Erred(<<>>) = {} /\ 1..0 = {}
  BY DEF Failed, Erred
<1>3. QED BY <1>1, <1>2, FS_EmptySet DEF Counts

\* Only Add counts; Finish leaves the counters alone.
LEMMA CountNext ==
    DataInv /\ PendingInv /\ CountInv /\ [Next]_vars => CountInv'
<1> SUFFICES ASSUME DataInv, PendingInv, CountInv, [Next]_vars
             PROVE  CountInv'
  OBVIOUS
<1>0. Counts(summary) /\ summary \in SummaryType
  BY CountsAreThese DEF DataInv
<1>1. CASE summary' = summary
  BY <1>1 DEF CountInv
<1>2. CASE Start \/ Crash
  <2>1. \E p : summary' = New(p)
    BY <1>2 DEF Start, Crash
  <2>2. Counts(summary')
    BY <2>1, NothingCounted
  <2>3. QED BY <2>2 DEF Counts, Failed, Erred, CountInv
<1>3. CASE AddRun
  <2>1. run \in Answers
    BY <1>3 DEF AddRun, PendingInv
  <2>2. run.error \/ problem \in BOOLEAN
    BY <2>1, AnswerFacts DEF DataInv
  <2>3. summary' = Add(summary, run.result, run.error \/ problem, run.timing)
    BY <1>3 DEF AddRun
  <2>4. Counts(summary')
    BY <1>0, <2>1, <2>2, <2>3, AnswerFacts, AddCounts
  <2>5. QED BY <2>4 DEF Counts, Failed, Erred, CountInv
<1>4. CASE Finish
  <2>1. summary' = Finished(summary)
    BY <1>4 DEF Finish
  <2>2. /\ summary'.completed = summary.completed /\ summary'.passed = summary.passed
        /\ summary'.failed = summary.failed /\ summary'.errors = summary.errors
        /\ summary'.runs = summary.runs /\ summary'.samples = summary.samples
    BY <1>0, <2>1, FinishedFacts
  <2>3. QED BY <2>2 DEF CountInv
<1>5. QED BY <1>1, <1>2, <1>3, <1>4, SummarySteps

\* What Finish makes of a summary is a matter of the plan.
LEMMA SameFinished == plan' = plan => Finished(summary)' = Finished(summary')
  BY Zenon DEF Finished, Configured, Budget, LifecyclePassed, Requested

\* The loop goes from one run to the next, and stops at the last or an error.
LEMMA LoopNext ==
    DataInv /\ PlanInv /\ PendingInv /\ LoopInv /\ [Next]_vars => LoopInv'
<1> SUFFICES ASSUME DataInv, PlanInv, PendingInv, LoopInv, [Next]_vars
             PROVE  LoopInv'
  OBVIOUS
<1>1. CASE Quiet
  <2>1. UNCHANGED <<plan, at, index, summary, primaryErr>>
    BY <1>1, QuietFrame DEF sequence
  <2>2. Finished(summary)' = Finished(summary)
    BY <2>1, SameFinished
  <2>3. QED BY <2>1, <2>2 DEF LoopInv, Requested
<1>2. CASE Start
  <2>1. plan' \in Plans /\ index' = 1 /\ summary' = New(plan')
        /\ at' \in {"verifying", "exited"}
    BY <1>2 DEF Start
  <2>2. Len(plan'.runs) \in 2..MaxRuns /\ MaxRuns \in Nat
    BY <2>1, PlanFacts, BatchAssumption DEF BatchAssumption
  <2>3. summary'.completed = 0 /\ summary'.errors = 0
    BY <2>1, NewIsSummary
  <2>4. QED BY <2>1, <2>2, <2>3 DEF LoopInv, Requested, Stopped
<1>3. CASE Verify
  <2>1. /\ at = "verifying" /\ at' = "reporting"
        /\ UNCHANGED <<plan, index, summary>>
    BY <1>3 DEF Verify
  <2>2. QED BY <2>1 DEF LoopInv, Requested, Stopped
<1>4. CASE AddRun
  <2>1. at = "reporting" /\ run \in Answers /\ plan' = plan
    BY <1>4 DEF AddRun, PendingInv
  <2>2. PICK runErr \in BOOLEAN : runErr = (run.error \/ problem)
    OBVIOUS
  <2>3. /\ summary' = Add(summary, run.result, runErr, run.timing)
        /\ primaryErr' = runErr
        /\ IF runErr \/ LastRun
           THEN at' = "finishing" /\ index' = index
           ELSE at' = "verifying" /\ index' = index + 1
    BY <1>4, <2>2 DEF AddRun
  <2>4. /\ summary \in SummaryType /\ run.timing \in [Budgets -> Nat]
    BY <2>1, AnswerFacts DEF DataInv
  <2>5. PICK t : t = Add(summary, run.result, runErr, run.timing)
    OBVIOUS
  <2>6. /\ \E c \in Nat : summary.completed = c /\ t.completed = c + 1
        /\ ~runErr => t.errors = summary.errors
    <3>1. PICK c \in Nat : summary.completed = c
      BY <2>4 DEF SummaryType
    <3>2. t.completed = c + 1 /\ (~runErr => t.errors = summary.errors)
      BY <2>4, <2>5, <3>1, AddOneMore
    <3>3. QED BY <3>1, <3>2, Zenon
  <2>7. PICK c \in Nat : summary.completed = c /\ summary'.completed = c + 1
    BY <2>3, <2>5, <2>6, Zenon
  <2>8. ~runErr => summary'.errors = summary.errors
    BY <2>3, <2>5, <2>6, Zenon
  <2>9. plan \in Plans
    BY <2>1 DEF PlanInv
  <2>10. Requested \in Nat /\ index \in 1..Requested
    BY <2>1, <2>9, PlanFacts, BatchAssumption
    DEF LoopInv, Stopped, Requested, BatchAssumption
  <2>11. c = index - 1 /\ summary.errors = 0
    BY <2>1, <2>7 DEF LoopInv
  <2>12. c + 1 = index
    BY <2>10, <2>11
  <2>13. Requested' = Requested
    BY <2>1 DEF Requested
  <2>14. CASE runErr \/ LastRun
    <3>1. at' = "finishing" /\ index' = index /\ summary'.completed = index'
      BY <2>3, <2>7, <2>12, <2>14
    <3>2. ~runErr => summary'.completed = Requested' /\ summary'.errors = 0
      BY <2>8, <2>11, <2>13, <2>14, <3>1 DEF LastRun
    <3>3. index' \in 1..Requested'
      BY <2>10, <2>13, <3>1
    <3>4. QED BY <2>3, <3>1, <3>2, <3>3 DEF LoopInv
  <2>15. CASE ~(runErr \/ LastRun)
    <3>1. at' = "verifying" /\ index' = index + 1 /\ summary'.errors = 0
      BY <2>3, <2>8, <2>11, <2>15
    <3>2. index' \in 1..Requested' /\ summary'.completed = index' - 1
      BY <2>7, <2>10, <2>12, <2>13, <2>15, <3>1 DEF LastRun
    <3>3. QED BY <3>1, <3>2 DEF LoopInv
  <2>16. QED BY <2>14, <2>15
<1>5. CASE Finish
  <2>1. /\ at = "finishing" /\ at' = "summarizing"
        /\ UNCHANGED <<plan, index, primaryErr>> /\ summary' = Finished(summary)
    BY <1>5 DEF Finish
  <2>2. /\ summary'.completed = summary.completed /\ summary'.errors = summary.errors
        /\ Finished(summary') = summary'
    BY <2>1, FinishedFacts DEF DataInv
  <2>3. Finished(summary)' = summary'
    BY <2>1, <2>2, SameFinished
  <2>4. QED BY <2>1, <2>2, <2>3 DEF LoopInv, Requested, Stopped
<1>6. CASE Exit \/ Crash
  <2>1. at' \in Stopped /\ at' \notin {"verifying", "reporting", "finishing", "summarizing"}
    BY <1>6 DEF Exit, Crash, Stopped
  <2>2. QED BY <2>1 DEF LoopInv, Stopped
<1>7. QED BY <1>1, <1>2, <1>3, <1>4, <1>5, <1>6, StepCases

\* A file that is done keeps its report while the others are written.
LEMMA DoneNext ==
    /\ FileInv /\ DataInv /\ PlanInv /\ PendingInv /\ CallInv /\ LoopInv
    /\ DoneInv /\ [Next]_vars
    => DoneInv'
<1> SUFFICES ASSUME FileInv, DataInv, PlanInv, PendingInv, CallInv, LoopInv,
                    DoneInv, [Next]_vars
             PROVE  DoneInv'
  OBVIOUS
<1>1. CASE BeginFile \/ Interrupt \/ UNCHANGED vars
  <2>1. UNCHANGED <<disk, invocation, plan, at, index, run, summary, pending, problem>>
    BY <1>1 DEF BeginFile, Write, Interrupt, vars, fileVars, sequence
  <2>2. Report' = Report /\ Directory(index)' = Directory(index)
    BY <2>1 DEF Report, Directory
  <2>3. QED BY <2>1, <2>2 DEF DoneInv
<1>2. CASE WriterMoves
  <2>1. UNCHANGED <<invocation, plan, at, index, run, summary, pending, problem>>
    BY <1>2 DEF WriterMoves, sequence
  <2>2. Report' = Report /\ Directory(index)' = Directory(index)
    BY <2>1 DEF Report, Directory
  <2>3. /\ at \in {"reporting", "summarizing"} /\ pending # <<>>
        /\ \A p \in Paths : p # Target => disk'[p] = disk[p]
    <3>1. at \in {"reporting", "summarizing"} /\ pending # <<>>
      BY <1>2, WriterFacts DEF WriterMoves, CallInv
    <3>2. QED BY <3>1, DiskFacts
  <2>4. Head(pending) \in ToSet(pending)
    BY <2>3, PendingFacts
  <2>5. ASSUME at = "reporting", NEW file \in ToSet(Artifacts) \ ToSet(pending)
        PROVE  disk'[<<Directory(index), file>>] = disk[<<Directory(index), file>>]
    <3>1. Target = <<Directory(index), Head(pending)>>
      BY <2>5 DEF Target
    <3>2. <<Directory(index), file>> # Target
      BY <2>4, <3>1
    <3>3. <<Directory(index), file>> \in Paths
      BY <2>5, RunFilesArePaths DEF LoopInv, Stopped, PlanInv
    <3>4. QED BY <2>3, <3>2, <3>3
  <2>6. ASSUME at = "summarizing", NEW file \in ToSet(Summaries) \ ToSet(pending)
        PROVE  disk'[<<TopDirectory, file>>] = disk[<<TopDirectory, file>>]
    <3>1. Target = <<TopDirectory, Head(pending)>>
      BY <2>6 DEF Target
    <3>2. <<TopDirectory, file>> # Target
      BY <2>4, <3>1
    <3>3. <<TopDirectory, file>> \in Paths
      BY SummariesArePaths
    <3>4. QED BY <2>3, <3>2, <3>3
  <2>7. QED BY <2>1, <2>2, <2>5, <2>6 DEF DoneInv
<1>3. CASE EndFile
  <2>1. /\ UNCHANGED <<disk, invocation, plan, at, index, run, summary>>
        /\ pending' = Tail(pending) /\ problem' = (problem \/ writer.error)
        /\ writer.at = "returned"
    BY <1>3 DEF EndFile, Collect, sequence
  <2>2. Report' = Report /\ Directory(index)' = Directory(index)
    BY <2>1 DEF Report, Directory
  <2>3. /\ at \in {"reporting", "summarizing"} /\ pending # <<>>
        /\ writer.path = Target /\ writer.value = Report
        /\ ~writer.error => disk[writer.path].value = writer.value
    BY <2>1 DEF CallInv
  <2>4. ToSet(pending) = ToSet(Tail(pending)) \cup {Head(pending)}
    BY <2>3, PendingFacts
  <2>5. ~problem' => ~problem /\ disk[Target].value = Report
    BY <2>1, <2>3
  <2>6. ASSUME at = "reporting", ~problem', run.result # "none",
               NEW file \in ToSet(Artifacts) \ ToSet(Tail(pending))
        PROVE  disk[<<Directory(index), file>>].value = Report
    <3>1. Target = <<Directory(index), Head(pending)>>
      BY <2>6 DEF Target
    <3>2. CASE file = Head(pending)
      BY <2>5, <2>6, <3>1, <3>2
    <3>3. CASE file # Head(pending)
      BY <2>4, <2>5, <2>6, <3>3 DEF DoneInv
    <3>4. QED BY <3>2, <3>3
  <2>7. ASSUME at = "summarizing", ~problem',
               NEW file \in ToSet(Summaries) \ ToSet(Tail(pending))
        PROVE  disk[<<TopDirectory, file>>].value = Report
    <3>1. Target = <<TopDirectory, Head(pending)>>
      BY <2>7 DEF Target
    <3>2. CASE file = Head(pending)
      BY <2>5, <2>7, <3>1, <3>2
    <3>3. CASE file # Head(pending)
      BY <2>4, <2>5, <2>7, <3>3 DEF DoneInv
    <3>4. QED BY <3>2, <3>3
  <2>8. QED BY <2>1, <2>2, <2>6, <2>7 DEF DoneInv
<1>4. CASE Verify
  <2>1. /\ at' = "reporting"
        /\ pending' = IF run'.result = "none" THEN <<>> ELSE Artifacts
    BY <1>4 DEF Verify
  <2>2. QED BY <2>1 DEF DoneInv
<1>5. CASE Finish
  <2>1. at' = "summarizing" /\ pending' = Summaries
    BY <1>5 DEF Finish
  <2>2. QED BY <2>1 DEF DoneInv
<1>6. CASE Start \/ AddRun \/ Exit \/ Crash
  <2>1. at' \notin {"reporting", "summarizing"}
    BY <1>6 DEF Start, AddRun, Exit, Crash
  <2>2. QED BY <2>1 DEF DoneInv
<1>7. QED BY <1>1, <1>2, <1>3, <1>4, <1>5, <1>6, StepCases DEF Quiet

\* No two runs of a sequence have the same directory.
LEMMA DirectoriesDiffer ==
    ASSUME PlanInv, at \notin Stopped, NEW i \in 1..Requested, NEW j \in 1..Requested,
           i # j
    PROVE  Directory(i) # Directory(j)
<1>1. plan \in Plans
  BY DEF PlanInv, Stopped
<1>2. CASE plan.command = "repeat"
  BY <1>2 DEF Directory, RunDirectory
<1>3. CASE plan.command = "suite"
  <2>1. Unique(plan.runs) /\ DOMAIN plan.runs = 1..Requested
    BY <1>1, <1>3, PlanFacts DEF PlanInv, Requested
  <2>2. Key(plan.runs[i]) # Key(plan.runs[j])
    BY <2>1 DEF Unique
  <2>3. /\ Directory(i) = ScenarioDirectory(plan.runs[i])
        /\ Directory(j) = ScenarioDirectory(plan.runs[j])
    BY <1>3 DEF Directory
  <2>4. QED BY <2>2, <2>3 DEF ScenarioDirectory
<1>4. QED BY <1>1, <1>2, <1>3, PlanFacts

\* The summaries are not among the files of a run.
LEMMA TopDiffers == \A i : Directory(i) # TopDirectory
<1>1. ASSUME NEW i PROVE Directory(i) # TopDirectory
  <2>1. \/ Directory(i) = RunDirectory(invocation, i)
        \/ Directory(i) = ScenarioDirectory(plan.runs[i])
    BY DEF Directory
  <2>2. Len(TopDirectory) = 1
    BY DEF TopDirectory
  <2>3. Len(RunDirectory(invocation, i)) = 3
    BY DEF RunDirectory
  <2>4. Len(ScenarioDirectory(plan.runs[i])) = 2
    BY DEF ScenarioDirectory
  <2>5. QED BY <2>1, <2>2, <2>3, <2>4
<1>2. QED BY <1>1

\* What the summary lists was asked for.
LEMMA CompletedFacts ==
    ASSUME DataInv, PlanInv, LoopInv, at \notin Stopped
    PROVE  /\ Requested \in Nat /\ index \in 1..Requested /\ summary.completed \in Nat
           /\ at \in {"verifying", "reporting"} => summary.completed = index - 1
           /\ at \in {"finishing", "summarizing"} => summary.completed = index
<1>1. plan \in Plans
  BY DEF PlanInv, Stopped
<1>2. Requested \in Nat
  BY <1>1, PlanFacts, BatchAssumption DEF Requested, BatchAssumption
<1>3. summary.completed \in Nat
  BY DEF DataInv, SummaryType
<1>4. QED BY <1>2, <1>3 DEF LoopInv

\* The evidence of a run that was added is not written again.
LEMMA EvidenceNext ==
    /\ FileInv /\ DataInv /\ PlanInv /\ PendingInv /\ CallInv /\ CountInv
    /\ LoopInv /\ DoneInv /\ EvidenceIsCurrent /\ [Next]_vars
    => EvidenceIsCurrent'
<1> SUFFICES ASSUME FileInv, DataInv, PlanInv, PendingInv, CallInv, CountInv,
                    LoopInv, DoneInv, EvidenceIsCurrent, [Next]_vars
             PROVE  EvidenceIsCurrent'
  OBVIOUS
<1>1. CASE Quiet \/ Verify \/ Exit
  <2>1. UNCHANGED <<invocation, plan, index, summary>>
    BY <1>1, QuietFrame DEF Verify, Exit, sequence
  <2>2. \A i : Directory(i)' = Directory(i)
    BY <2>1 DEF Directory
  <2>3. ASSUME NEW i \in 1..summary.completed, NEW file \in ToSet(Artifacts)
        PROVE  disk'[<<Directory(i), file>>] = disk[<<Directory(i), file>>]
    <3>1. CASE disk' = disk
      BY <3>1
    <3>2. CASE disk' # disk
      <4>1. /\ WriterMoves
            /\ at \in {"reporting", "summarizing"} /\ pending # <<>>
            /\ \A p \in Paths : p # Target => disk'[p] = disk[p]
        BY <3>2, DiskFacts
      <4>2. plan \in Plans /\ invocation \in 1..Bound(plan.command) /\ at \notin Stopped
        BY <4>1 DEF PlanInv, Stopped
      <4>3. i \in 1..Requested /\ (at = "reporting" => i # index)
        BY <4>1, <4>2, CompletedFacts
      <4>4. index \in 1..Requested
        BY <4>2, CompletedFacts
      <4>5. <<Directory(i), file>> # Target
        <5>1. CASE at = "reporting"
          BY <4>2, <4>3, <4>4, <5>1, DirectoriesDiffer DEF Target
        <5>2. CASE at = "summarizing"
          BY <5>2, TopDiffers DEF Target
        <5>3. QED BY <4>1, <5>1, <5>2
      <4>6. <<Directory(i), file>> \in Paths
        BY <4>2, <4>3, RunFilesArePaths
      <4>7. QED BY <4>1, <4>5, <4>6
    <3>3. QED BY <3>1, <3>2
  <2>4. QED BY <2>1, <2>2, <2>3 DEF EvidenceIsCurrent, Holds
<1>2. CASE Start \/ Crash
  <2>1. summary'.completed = 0
    BY <1>2, NewIsSummary DEF Start, Crash
  <2>2. QED BY <2>1 DEF EvidenceIsCurrent
<1>3. CASE Finish
  <2>1. UNCHANGED <<disk, invocation, plan>> /\ summary' = Finished(summary)
    BY <1>3 DEF Finish, fileVars
  <2>2. summary'.completed = summary.completed /\ summary'.runs = summary.runs
    BY <2>1, FinishedFacts DEF DataInv
  <2>3. QED BY <2>1, <2>2 DEF EvidenceIsCurrent, Holds, Directory
<1>4. CASE AddRun
  <2>1. /\ at = "reporting" /\ pending = <<>> /\ run \in Answers
        /\ UNCHANGED <<disk, invocation, plan>>
    BY <1>4 DEF AddRun, Written, PendingInv, fileVars
  <2>2. PICK runErr \in BOOLEAN : runErr = (run.error \/ problem)
    OBVIOUS
  <2>3. PICK passed \in BOOLEAN : passed = (run.result = "passed" /\ ~runErr)
    OBVIOUS
  <2>4. PICK r \in RunResults : r = [passed |-> passed, error |-> runErr]
    BY DEF RunResults
  <2>5. summary' = Add(summary, run.result, runErr, run.timing)
    BY <1>4, <2>2 DEF AddRun
  <2>6. summary \in SummaryType /\ run.timing \in [Budgets -> Nat]
    BY <2>1, AnswerFacts DEF DataInv
  <2>7. PICK c \in Nat : summary.completed = c
    BY <2>6 DEF SummaryType
  <2>8. PICK runs \in Seq(RunResults) : summary.runs = runs
    BY <2>6 DEF SummaryType
  <2>9. summary'.completed = c + 1
    BY <2>5, <2>6, <2>7, AddOneMore
  <2>10. summary'.runs = Append(runs, r)
    <3>1. summary'.runs =
              Append(summary.runs, [passed |-> run.result = "passed" /\ ~runErr,
                                    error |-> runErr])
      BY <2>5, <2>6, AddRuns
    <3>2. QED BY <2>3, <2>4, <2>8, <3>1, Zenon
  <2>11. c = Len(runs) /\ c = index - 1 /\ index \in 1..Requested /\ Requested \in Nat
    <3>1. at \notin Stopped
      BY <2>1 DEF Stopped
    <3>2. /\ index \in 1..Requested /\ Requested \in Nat
          /\ summary.completed = index - 1 /\ summary.completed = Len(summary.runs)
      BY <2>1, <3>1, CompletedFacts DEF CountInv
    <3>3. QED BY <2>7, <2>8, <3>2, Zenon
  <2>12. PICK more : more = Append(runs, r)
    OBVIOUS
  <2>13. more[c + 1] = r /\ \A i \in 1..c : more[i] = runs[i]
    <3>1. /\ more[Len(runs) + 1] = r
          /\ \A i \in 1..Len(runs) : more[i] = runs[i]
      BY <2>12
    <3>2. QED BY <2>11, <3>1, Zenon
  <2>14. ASSUME NEW i \in 1..(c + 1), ~more[i].error, NEW file \in ToSet(Artifacts)
         PROVE  disk[<<Directory(i), file>>].value =
                    [by |-> invocation, run |-> i, passed |-> more[i].passed]
    <3>1. CASE i \in 1..c
      <4>1. more[i] = runs[i]
        BY <2>13, <3>1
      <4>2. i \in 1..summary.completed /\ ~summary.runs[i].error
        BY <2>7, <2>8, <2>14, <3>1, <4>1
      <4>3. Holds(Directory(i), file, i, summary.runs[i].passed)
        BY <2>14, <4>2 DEF EvidenceIsCurrent
      <4>4. QED BY <2>8, <4>1, <4>3 DEF Holds
    <3>2. CASE i = c + 1
      <4>1. more[i] = r /\ i = index
        BY <2>11, <2>13, <3>2
      <4>2. ~runErr /\ r.passed = passed
        BY <2>4, <2>14, <4>1
      <4>3. ~problem /\ run.result # "none"
        BY <2>1, <2>2, <4>2, AnswerFacts
      <4>4. file \in ToSet(Artifacts) \ ToSet(pending)
        BY <2>1, <2>14 DEF ToSet
      <4>5. disk[<<Directory(index), file>>].value = Report
        BY <2>1, <4>3, <4>4 DEF DoneInv
      <4>6. Report = [by |-> invocation, run |-> index, passed |-> passed]
        BY <2>1, <2>3, <4>2 DEF Report
      <4>7. QED BY <4>1, <4>2, <4>5, <4>6
    <3>3. QED BY <2>14, <3>1, <3>2
  <2>15. \A i : Directory(i)' = Directory(i)
    BY <2>1 DEF Directory
  <2>16. QED BY <2>1, <2>9, <2>10, <2>12, <2>14, <2>15 DEF EvidenceIsCurrent, Holds
<1>5. QED BY <1>1, <1>2, <1>3, <1>4, StepCases

\* The counters tell what they count.
LEMMA CountedFacts ==
    ASSUME NEW s \in SummaryType, Counts(s)
    PROVE  /\ s.failed = 0 <=> \A i \in 1..s.completed : s.runs[i].passed
           /\ s.errors = 0 <=> \A i \in 1..s.completed : ~s.runs[i].error
<1>1. PICK runs \in Seq(RunResults) : runs = s.runs
  BY DEF SummaryType
<1>2. /\ s.completed = Len(runs)
      /\ s.failed = Cardinality(Failed(runs)) /\ s.errors = Cardinality(Erred(runs))
  BY <1>1, Zenon DEF Counts
<1>3. IsFiniteSet(Failed(runs)) /\ IsFiniteSet(Erred(runs))
  <2>1. IsFiniteSet(1..Len(runs))
    BY FS_Interval
  <2>2. Failed(runs) \in SUBSET (1..Len(runs)) /\ Erred(runs) \in SUBSET (1..Len(runs))
    BY DEF Failed, Erred
  <2>3. QED BY <2>1, <2>2, FS_Subset
<1>4. (s.failed = 0 <=> Failed(runs) = {}) /\ (s.errors = 0 <=> Erred(runs) = {})
  BY <1>2, <1>3, FS_EmptySet, Zenon
<1>5. Failed(runs) = {} <=> \A i \in 1..Len(runs) : runs[i].passed
  BY DEF Failed
<1>6. Erred(runs) = {} <=> \A i \in 1..Len(runs) : ~runs[i].error
  BY DEF Erred
<1>7. QED BY <1>1, <1>2, <1>4, <1>5, <1>6, Zenon

\* If all runs passed, there is a sample of each.
LEMMA SampledFacts ==
    ASSUME PlanInv, NEW s \in SummaryType, Counts(s), at # "off", LifecyclePassed(s)
    PROVE  Len(s.samples) = Requested /\ Requested \in Nat \ {0}
<1>1. plan \in Plans
  BY DEF PlanInv
<1>2. Requested \in Nat \ {0}
  BY <1>1, PlanFacts, BatchAssumption DEF Requested, BatchAssumption
<1>3. PICK p \in Nat, f \in Nat : s.passed = p /\ s.failed = f
  BY DEF SummaryType
<1>4. s.completed = p + f /\ p = Len(s.samples)
  BY <1>3, Zenon DEF Counts
<1>5. f = 0 /\ s.completed = Requested
  BY <1>3 DEF LifecyclePassed
<1>6. p + f = Requested
  BY <1>4, <1>5
<1>7. QED BY <1>2, <1>4, <1>5, <1>6

\* If all runs passed, every budget is evaluated, and its result is right.
LEMMA VerdictFacts ==
    ASSUME DataInv, PlanInv, LoopInv, CountInv, at = "summarizing"
    PROVE  summary.verdict <=>
               /\ summary.completed = Requested
               /\ \A i \in 1..summary.completed : summary.runs[i].passed
               /\ \A b \in Configured : WithinBudget(b)
<1>1. summary \in SummaryType /\ Counts(summary) /\ summary = Finished(summary)
  BY CountsAreThese DEF DataInv, LoopInv
<1>2. summary.verdict <=> LifecyclePassed(summary) /\ OverBudget(summary) = {}
  BY <1>1, FinishedFacts
<1>3. LifecyclePassed(summary) <=>
          /\ summary.completed = Requested
          /\ \A i \in 1..summary.completed : summary.runs[i].passed
  BY <1>1, CountedFacts DEF LifecyclePassed
<1>4. ASSUME LifecyclePassed(summary)
      PROVE  OverBudget(summary) = {} <=> \A b \in Configured : WithinBudget(b)
  <2>1. PICK samples \in Seq([Budgets -> Nat]) : samples = summary.samples
    BY <1>1 DEF SummaryType
  <2>2. plan \in Plans
    BY DEF PlanInv, Stopped
  <2>3. Requested \in Nat \ {0}
    BY <2>2, PlanFacts, BatchAssumption DEF Requested, BatchAssumption
  <2>4. Len(samples) = Requested
    BY <1>1, <1>4, <2>1, SampledFacts
  <2>5. samples \in [1..Requested -> [Budgets -> Nat]] /\ DOMAIN samples = 1..Requested
    BY <2>3, <2>4
  <2>6. ASSUME NEW b \in Configured
        PROVE  Evaluated(summary)[b].evaluated
               /\ (Evaluated(summary)[b].passed <=> WithinBudget(b))
    <3>1. PICK limit \in Nat : limit = plan.limits[b]
      <4>1. PICK limits \in [Budgets -> Limits \cup {0}] : limits = plan.limits
        BY <2>2, PlanFacts
      <4>2. b \in Budgets
        BY DEF Configured
      <4>3. limits[b] \in Limits \cup {0} /\ Limits \subseteq Nat
        BY <4>1, <4>2, BatchAssumption DEF BatchAssumption
      <4>4. QED BY <4>1, <4>3
    <3>2. b \in Budgets
      BY DEF Configured
    <3>3. PICK n \in Nat \ {0} : n = Requested
      BY <2>3
    <3>4. P95(samples, b) <= limit <=> MostWithin(n, samples, b, limit)
      <4>1. samples \in [1..n -> [Budgets -> Nat]]
        BY <2>5, <3>3
      <4>2. QED BY <3>2, <4>1, BudgetIsRight, Zenon
    <3>5. WithinBudget(b) <=> MostWithin(n, samples, b, limit)
      BY <2>1, <2>5, <3>1, <3>3, Zenon DEF WithinBudget, MostWithin
    <3>6. Evaluated(summary)[b] = Budget(summary, b, LifecyclePassed(summary))
      BY Zenon DEF Evaluated
    <3>7. CASE P95(samples, b) <= limit
      <4>1. Budget(summary, b, LifecyclePassed(summary)) =
                [evaluated |-> TRUE, passed |-> TRUE]
        BY <1>4, <2>1, <2>4, <3>1, <3>7, Zenon DEF Budget
      <4>2. QED BY <3>4, <3>5, <3>6, <3>7, <4>1
    <3>8. CASE ~(P95(samples, b) <= limit)
      <4>1. Budget(summary, b, LifecyclePassed(summary)) =
                [evaluated |-> TRUE, passed |-> FALSE]
        BY <1>4, <2>1, <2>4, <3>1, <3>8, Zenon DEF Budget
      <4>2. QED BY <3>4, <3>5, <3>6, <3>8, <4>1
    <3>9. QED BY <3>7, <3>8
  <2>7. QED BY <2>6 DEF OverBudget
<1>5. QED BY <1>2, <1>3, <1>4

\* What the exit code says was so when it was chosen, and stays so.
LEMMA ExitNext ==
    /\ FileInv /\ DataInv /\ PlanInv /\ PendingInv /\ CallInv /\ CountInv
    /\ LoopInv /\ DoneInv /\ EvidenceIsCurrent /\ ExitCodeIsEarned /\ [Next]_vars
    => ExitCodeIsEarned'
<1> SUFFICES ASSUME FileInv, DataInv, PlanInv, PendingInv, CallInv, CountInv,
                    LoopInv, DoneInv, EvidenceIsCurrent, ExitCodeIsEarned,
                    [Next]_vars
             PROVE  ExitCodeIsEarned'
  OBVIOUS
<1>1. CASE Quiet
  <2>1. CASE at = "exited"
    <3>1. UNCHANGED <<plan, invocation, summary, at, code>>
      BY <1>1, QuietFrame DEF sequence
    <3>2. disk' = disk
      BY <2>1, DiskFacts
    <3>3. interrupted => interrupted'
      BY <1>1 DEF Quiet, BeginFile, WriterMoves, EndFile, Interrupt, vars
    <3>4. \A i : Directory(i)' = Directory(i)
      BY <3>1, <2>1 DEF Directory
    <3>5. QED
      BY <2>1, <3>1, <3>2, <3>3, <3>4
      DEF ExitCodeIsEarned, Holds, Requested, Configured, WithinBudget
  <2>2. CASE at # "exited"
    <3>1. at' # "exited"
      BY <1>1, <2>2, QuietFrame
    <3>2. QED BY <3>1 DEF ExitCodeIsEarned
  <2>3. QED BY <2>1, <2>2
<1>2. CASE Start
  <2>1. at' = "exited" => code' \in {2, 3}
    BY <1>2 DEF Start
  <2>2. QED BY <2>1 DEF ExitCodeIsEarned
<1>3. CASE Verify \/ AddRun \/ Finish \/ Crash
  <2>1. at' # "exited"
    BY <1>3 DEF Verify, AddRun, Finish, Crash
  <2>2. QED BY <2>1 DEF ExitCodeIsEarned
<1>4. CASE Exit
  <2>1. /\ at = "summarizing" /\ pending = <<>> /\ code' = ExitCode(primaryErr \/ problem)
        /\ UNCHANGED <<disk, invocation, plan, summary, interrupted>>
    BY <1>4 DEF Exit, Written, fileVars, sequence
  <2>2. code' = 130 => interrupted'
    BY <2>1 DEF ExitCode
  <2>3. ASSUME code' \in {0, 1}
        PROVE  /\ summary.completed = Requested /\ summary.errors = 0
               /\ \A i \in 1..Requested : \A file \in ToSet(Artifacts) :
                      Holds(Directory(i), file, i, summary.runs[i].passed)
               /\ \A file \in ToSet(Summaries) :
                      Holds(TopDirectory, file, 0, code' = 0)
               /\ code' = 0 <=> /\ \A i \in 1..Requested : summary.runs[i].passed
                                /\ \A b \in Configured : WithinBudget(b)
    <3>1. ~primaryErr /\ ~problem
      BY <2>1, <2>3 DEF ExitCode
    <3>2. summary.completed = Requested /\ summary.errors = 0
      BY <2>1, <3>1 DEF LoopInv
    <3>3. summary \in SummaryType /\ Counts(summary)
      BY CountsAreThese DEF DataInv
    <3>4. \A i \in 1..Requested : ~summary.runs[i].error
      BY <3>2, <3>3, CountedFacts
    <3>5. \A i \in 1..Requested : \A file \in ToSet(Artifacts) :
              Holds(Directory(i), file, i, summary.runs[i].passed)
      BY <3>2, <3>4 DEF EvidenceIsCurrent
    <3>6. code' = IF summary.verdict THEN 0 ELSE 1
      BY <2>1, <3>1 DEF ExitCode
    <3>7. summary.verdict \in BOOLEAN
      BY <3>3 DEF SummaryType
    <3>8. (code' = 0) = summary.verdict
      BY <3>6, <3>7
    <3>9. ASSUME NEW file \in ToSet(Summaries)
          PROVE  Holds(TopDirectory, file, 0, code' = 0)
      <4>1. file \in ToSet(Summaries) \ ToSet(pending)
        BY <2>1 DEF ToSet
      <4>2. disk[<<TopDirectory, file>>].value = Report
        BY <2>1, <3>1, <4>1 DEF DoneInv
      <4>3. Report = [by |-> invocation, run |-> 0, passed |-> summary.verdict]
        BY <2>1 DEF Report
      <4>4. QED BY <3>8, <4>2, <4>3, Zenon DEF Holds
    <3>10. code' = 0 <=> /\ \A i \in 1..Requested : summary.runs[i].passed
                         /\ \A b \in Configured : WithinBudget(b)
      BY <2>1, <3>2, <3>8, VerdictFacts
    <3>11. QED BY <3>2, <3>5, <3>9, <3>10
  <2>4. \A i : Directory(i)' = Directory(i)
    BY <2>1 DEF Directory
  <2>5. QED
    BY <2>1, <2>2, <2>3, <2>4
    DEF ExitCodeIsEarned, Holds, Requested, Configured, WithinBudget
<1>5. QED BY <1>1, <1>2, <1>3, <1>4, StepCases

------------------------------------------------------------------------------
\* JUnit and JSON

\* The cases of the runs, counted by what they say.
LEMMA RunCases ==
    ASSUME DataInv, PlanInv, CountInv, LoopInv, at = "summarizing"
    PROVE  LET Cases(kind) == {i \in 1..Requested : RunCase(summary, i) = kind}
           IN  /\ Cardinality(Cases("error")) = summary.errors
               /\ Cardinality(Cases("failure")) = summary.failed - summary.errors
               /\ Cardinality(Cases("skipped")) = Requested - summary.completed
               /\ \A kind \in {"error", "failure", "skipped", "passed"} :
                      Cardinality(Cases(kind)) \in 0..Requested
               /\ Cardinality(Cases("passed")) = Requested
                      <=> LifecyclePassed(summary)
<1> DEFINE Cases(kind) == {i \in 1..Requested : RunCase(summary, i) = kind}
<1>1. summary \in SummaryType /\ Counts(summary)
  BY CountsAreThese DEF DataInv
<1>2. PICK runs \in Seq(RunResults) : runs = summary.runs
  BY <1>1 DEF SummaryType
<1>3. PICK c \in Nat, p \in Nat, f \in Nat, e \in Nat :
          /\ summary.completed = c /\ summary.passed = p
          /\ summary.failed = f /\ summary.errors = e
  BY <1>1 DEF SummaryType
<1>4. PICK n \in Nat : n = Requested /\ c \in 1..n
  <2>1. at \notin Stopped
    BY DEF Stopped
  <2>2. Requested \in Nat /\ index \in 1..Requested /\ summary.completed = index
    BY <2>1, CompletedFacts
  <2>3. QED BY <1>3, <2>2
<1>5. /\ c = Len(runs) /\ f = Cardinality(Failed(runs)) /\ e = Cardinality(Erred(runs))
      /\ \A i \in 1..c : runs[i].error => ~runs[i].passed
  BY <1>1, <1>2, <1>3, Zenon DEF Counts
<1>6. \A i : RunCase(summary, i) =
                 IF i > c THEN "skipped"
                 ELSE IF runs[i].error THEN "error"
                 ELSE IF runs[i].passed THEN "passed" ELSE "failure"
  BY <1>2, <1>3, Zenon DEF RunCase
<1>7. /\ Cases("error") = Erred(runs)
      /\ Cases("failure") = Failed(runs) \ Erred(runs)
      /\ Cases("skipped") = (c + 1)..n
      /\ Cases("passed") = 1..c \ Failed(runs)
  <2>1. Cases("error") = Erred(runs)
    BY <1>4, <1>5, <1>6 DEF Erred
  <2>2. Cases("failure") = Failed(runs) \ Erred(runs)
    BY <1>4, <1>5, <1>6 DEF Erred, Failed
  <2>3. Cases("skipped") = (c + 1)..n
    BY <1>4, <1>5, <1>6
  <2>4. Cases("passed") = 1..c \ Failed(runs)
    BY <1>4, <1>5, <1>6 DEF Failed
  <2>5. QED BY <2>1, <2>2, <2>3, <2>4
<1>8. /\ Erred(runs) \subseteq Failed(runs) /\ Failed(runs) \subseteq 1..c
      /\ IsFiniteSet(1..c) /\ Cardinality(1..c) = c
      /\ IsFiniteSet(1..n) /\ Cardinality(1..n) = n
  <2>1. Erred(runs) \subseteq Failed(runs) /\ Failed(runs) \subseteq 1..c
    BY <1>5 DEF Erred, Failed
  <2>2. ASSUME NEW m \in Nat PROVE IsFiniteSet(1..m) /\ Cardinality(1..m) = m
    BY FS_Interval
  <2>3. QED BY <2>1, <2>2
<1>9. IsFiniteSet(Failed(runs)) /\ IsFiniteSet(Erred(runs))
  BY <1>8, FS_Subset
<1>10. Cardinality(Cases("failure")) = f - e
  <2>1. Failed(runs) \cap Erred(runs) = Erred(runs)
    BY <1>8
  <2>2. Cardinality(Failed(runs) \ Erred(runs)) =
            Cardinality(Failed(runs)) - Cardinality(Failed(runs) \cap Erred(runs))
    BY <1>9, FS_Difference
  <2>3. QED BY <1>5, <1>7, <2>1, <2>2
<1>11. Cardinality(Cases("skipped")) = n - c
  <2>1. ASSUME NEW from \in Int, NEW to \in Int
        PROVE  Cardinality(from..to) = IF from > to THEN 0 ELSE to - from + 1
    BY FS_Interval
  <2>2. PICK first \in Int : first = c + 1
    BY <1>4
  <2>3. Cardinality(first..n) = IF first > n THEN 0 ELSE n - first + 1
    BY <2>1
  <2>4. Cardinality((c + 1)..n) = n - c
    BY <1>4, <2>2, <2>3
  <2>5. QED BY <1>7, <2>4
<1>12. ASSUME NEW kind PROVE Cardinality(Cases(kind)) \in 0..n
  <2>1. Cases(kind) \in SUBSET (1..n)
    BY <1>4
  <2>2. QED BY <1>8, <2>1, FS_Subset, FS_CardinalityType
<1>13. Cardinality(Cases("passed")) = n <=> LifecyclePassed(summary)
  <2>1. Cardinality(Cases("passed")) = c - f
    <3>1. 1..c \cap Failed(runs) = Failed(runs)
      BY <1>8
    <3>2. Cardinality(1..c \ Failed(runs)) =
              Cardinality(1..c) - Cardinality(1..c \cap Failed(runs))
      BY <1>8, FS_Difference
    <3>3. QED BY <1>5, <1>7, <1>8, <3>1, <3>2
  <2>2. c - f = n <=> c = n /\ f = 0
    BY <1>4
  <2>3. QED BY <1>3, <1>4, <2>1, <2>2, Zenon DEF LifecyclePassed
<1> HIDE DEF Cases
<1>14. /\ Cardinality(Cases("error")) = summary.errors
       /\ Cardinality(Cases("failure")) = summary.failed - summary.errors
       /\ Cardinality(Cases("skipped")) = Requested - summary.completed
       /\ \A kind \in {"error", "failure", "skipped", "passed"} :
              Cardinality(Cases(kind)) \in 0..Requested
       /\ Cardinality(Cases("passed")) = Requested <=> LifecyclePassed(summary)
  BY <1>3, <1>4, <1>5, <1>7, <1>10, <1>11, <1>12, <1>13
<1>15. QED BY <1>14, Zenon DEF Cases

\* The cases of the budgets, counted by what they say.
LEMMA BudgetCases ==
    ASSUME DataInv, PlanInv, CountInv, LoopInv, at = "summarizing"
    PROVE  LET Cases(kind) == {b \in Configured : BudgetCase(summary, b) = kind}
           IN  /\ DOMAIN summary.budgets = Configured
               /\ Cardinality(Cases("error")) = 0
               /\ Cardinality(Cases("failure")) = summary.budgetFailures
               /\ Cases("skipped") = Unevaluated(summary)
               /\ \A kind \in {"error", "failure", "skipped", "passed"} :
                      /\ Cardinality(Cases(kind)) \in Nat
                      /\ Cardinality(Cases(kind)) <= Cardinality(Configured)
               /\ Cardinality(Configured) \in Nat
               /\ LifecyclePassed(summary) =>
                      (Cardinality(Cases("passed")) = Cardinality(Configured)
                           <=> OverBudget(summary) = {})
<1> DEFINE Cases(kind) == {b \in Configured : BudgetCase(summary, b) = kind}
<1>1. summary \in SummaryType /\ Counts(summary) /\ summary = Finished(summary)
  BY CountsAreThese DEF DataInv, LoopInv
<1>2. summary.budgets = Evaluated(summary)
      /\ summary.budgetFailures = Cardinality(OverBudget(summary))
  BY <1>1, FinishedFacts
<1>3. Evaluated(summary) \in [Configured -> BudgetResults]
  <2>1. ASSUME NEW b \in Configured
        PROVE  Budget(summary, b, LifecyclePassed(summary)) \in BudgetResults
    <3>1. LifecyclePassed(summary) \in BOOLEAN
      BY DEF LifecyclePassed
    <3>2. QED BY <3>1 DEF Budget, BudgetResults
  <2>2. QED BY <2>1 DEF Evaluated
<1>4. PICK budgets \in [Configured -> BudgetResults] : budgets = Evaluated(summary)
  BY <1>3
<1>5. \A b : BudgetCase(summary, b) =
                 IF ~budgets[b].evaluated THEN "skipped"
                 ELSE IF budgets[b].passed THEN "passed" ELSE "failure"
  BY <1>2, <1>4, Zenon DEF BudgetCase
<1>6. /\ Cases("error") = {}
      /\ Cases("failure") = OverBudget(summary)
      /\ Cases("skipped") = Unevaluated(summary)
      /\ DOMAIN summary.budgets = Configured
  <2>1. OverBudget(summary) =
            {b \in Configured : budgets[b].evaluated /\ ~budgets[b].passed}
    BY <1>4 DEF OverBudget
  <2>2. DOMAIN summary.budgets = Configured
    BY <1>2, <1>4
  <2>3. Unevaluated(summary) = {b \in Configured : ~budgets[b].evaluated}
    BY <1>2, <1>4, <2>2, Zenon DEF Unevaluated
  <2>4. Cases("error") = {} /\ Cases("failure") = OverBudget(summary)
        /\ Cases("skipped") = Unevaluated(summary)
    BY <1>5, <2>1, <2>3
  <2>5. QED BY <2>2, <2>4
<1>7. IsFiniteSet(Configured)
  <2>1. Configured \in SUBSET Budgets /\ IsFiniteSet(Budgets)
    BY BatchAssumption DEF Configured, BatchAssumption
  <2>2. QED BY <2>1, FS_Subset
<1>8. ASSUME NEW kind
      PROVE  /\ IsFiniteSet(Cases(kind)) /\ Cardinality(Cases(kind)) \in Nat
             /\ Cardinality(Cases(kind)) <= Cardinality(Configured)
             /\ Cardinality(Cases(kind)) = Cardinality(Configured)
                    <=> Cases(kind) = Configured
  <2>1. Cases(kind) \in SUBSET Configured
    OBVIOUS
  <2> HIDE DEF Cases
  <2>2. QED BY <1>7, <2>1, FS_Subset, FS_CardinalityType
<1>9. ASSUME LifecyclePassed(summary)
      PROVE  Cases("passed") = Configured <=> OverBudget(summary) = {}
  <2>1. Len(summary.samples) = Requested
    BY <1>1, <1>9, SampledFacts
  <2>2. ASSUME NEW b \in Configured PROVE budgets[b].evaluated
    <3>1. budgets[b] = Budget(summary, b, LifecyclePassed(summary))
      BY <1>4 DEF Evaluated
    <3>2. Budget(summary, b, LifecyclePassed(summary)).evaluated
      BY <1>9, <2>1 DEF Budget
    <3>3. QED BY <3>1, <3>2, Zenon
  <2>3. OverBudget(summary) =
            {b \in Configured : budgets[b].evaluated /\ ~budgets[b].passed}
    BY <1>4 DEF OverBudget
  <2>4. \A b \in Configured : BudgetCase(summary, b) = "passed" <=> budgets[b].passed
    BY <1>5, <2>2
  <2>5. Cases("passed") = Configured <=> \A b \in Configured : budgets[b].passed
    BY <2>4
  <2>6. OverBudget(summary) = {} <=> \A b \in Configured : budgets[b].passed
    BY <2>2, <2>3
  <2>7. QED BY <2>5, <2>6, Zenon
<1> HIDE DEF Cases
<1>10. Cardinality(Configured) \in Nat
  BY <1>7, FS_CardinalityType
<1>11. Cardinality(Cases("error")) = 0
  BY <1>6, FS_EmptySet
<1>12. /\ DOMAIN summary.budgets = Configured
       /\ Cardinality(Cases("error")) = 0
       /\ Cardinality(Cases("failure")) = summary.budgetFailures
       /\ Cases("skipped") = Unevaluated(summary)
       /\ \A kind \in {"error", "failure", "skipped", "passed"} :
              /\ Cardinality(Cases(kind)) \in Nat
              /\ Cardinality(Cases(kind)) <= Cardinality(Configured)
       /\ Cardinality(Configured) \in Nat
       /\ LifecyclePassed(summary) =>
              (Cardinality(Cases("passed")) = Cardinality(Configured)
                   <=> OverBudget(summary) = {})
  BY <1>2, <1>6, <1>8, <1>9, <1>10, <1>11, Zenon
<1>13. QED BY <1>12, Zenon DEF Cases

\* The attributes of the test suite count its cases.
LEMMA JUnitCounts ==
    DataInv /\ PlanInv /\ CountInv /\ LoopInv => JUnitAgrees
<1> SUFFICES ASSUME DataInv, PlanInv, CountInv, LoopInv, at = "summarizing"
             PROVE  JUnitAgrees
  BY DEF JUnitAgrees
<1> DEFINE junit == JUnit(summary)
           Runs(kind) ==
               Cardinality({i \in 1..Requested : RunCase(summary, i) = kind})
           Checks(kind) ==
               Cardinality({b \in Configured : BudgetCase(summary, b) = kind})
           All == Cardinality(Configured)
<1>1. /\ Runs("error") = summary.errors
      /\ Runs("failure") = summary.failed - summary.errors
      /\ Runs("skipped") = Requested - summary.completed
      /\ Runs("passed") \in 0..Requested
      /\ Runs("passed") = Requested <=> LifecyclePassed(summary)
  BY RunCases, Zenon
<1>2. /\ Checks("error") = 0
      /\ Checks("failure") = summary.budgetFailures
      /\ Checks("skipped") = Cardinality(Unevaluated(summary))
      /\ Checks("passed") \in Nat /\ Checks("passed") <= All /\ All \in Nat
      /\ LifecyclePassed(summary) =>
             (Checks("passed") = All <=> OverBudget(summary) = {})
  BY BudgetCases, Zenon
<1>3. DOMAIN summary.budgets = Configured
  BY BudgetCases, Zenon
<1>4. /\ junit["failure"] = summary.failed - summary.errors + summary.budgetFailures
      /\ junit["error"] = summary.errors
      /\ junit["skipped"] = Requested - summary.completed
                                + Cardinality(Unevaluated(summary))
      /\ junit.tests = Requested + All
  BY <1>3, Zenon DEF JUnit, Skipped
<1>5. summary.verdict <=> LifecyclePassed(summary) /\ OverBudget(summary) = {}
  BY FinishedFacts DEF LoopInv, DataInv
<1>6. Requested \in Nat /\ summary.errors \in Nat
  <2>1. at \notin Stopped
    BY DEF Stopped
  <2>2. QED BY <2>1, CompletedFacts DEF DataInv, SummaryType
<1> HIDE DEF junit, Runs, Checks, All
<1>7. \A kind \in {"failure", "error", "skipped"} :
          junit[kind] = Runs(kind) + Checks(kind)
  <2>1. junit["error"] = Runs("error") + Checks("error")
    BY <1>1, <1>2, <1>4, <1>6
  <2>2. junit["failure"] = Runs("failure") + Checks("failure")
    BY <1>1, <1>2, <1>4, Zenon
  <2>3. junit["skipped"] = Runs("skipped") + Checks("skipped")
    BY <1>1, <1>2, <1>4, Zenon
  <2>4. QED BY <2>1, <2>2, <2>3, Zenon
<1>8. summary.verdict <=> Runs("passed") + Checks("passed") = junit.tests
  <2>1. Runs("passed") + Checks("passed") = Requested + All
            <=> Runs("passed") = Requested /\ Checks("passed") = All
    BY <1>1, <1>2, <1>6
  <2>2. QED BY <1>1, <1>2, <1>4, <1>5, <2>1, Zenon
<1>9. QED
  BY <1>4, <1>7, <1>8, Zenon DEF JUnitAgrees, junit, Runs, Checks, All

------------------------------------------------------------------------------
\* The invariant is inductive

\* It holds when nothing was started yet.
LEMMA InitInv == Init => BatchInv
<1> SUFFICES ASSUME Init PROVE BatchInv
  OBVIOUS
<1>1. FileInv
  BY FileInvInit DEF Init
<1>2. /\ at = "off" /\ plan = Blank /\ invocation = 0 /\ pending = <<>>
      /\ summary = New(Blank) /\ run = NoRun /\ code = 0
      /\ pull = FALSE /\ problem = FALSE /\ primaryErr = FALSE /\ interrupted = FALSE
      /\ writer = Idle
  BY DEF Init, FileInit
<1>3. summary \in SummaryType /\ summary.completed = 0
  BY <1>2, NewIsSummary
<1>4. DataInv
  BY <1>2, <1>3 DEF DataInv, Stopped
<1>5. PlanInv
  BY <1>2 DEF PlanInv, Stopped
<1>6. PendingInv
  BY <1>2 DEF PendingInv
<1>7. CallInv
  BY <1>2 DEF CallInv, Idle
<1>8. CountInv
  BY <1>2, NothingCounted, CountsAreThese
<1>9. LoopInv
  BY <1>2 DEF LoopInv, Stopped
<1>10. DoneInv
  BY <1>2 DEF DoneInv
<1>11. EvidenceIsCurrent
  BY <1>3 DEF EvidenceIsCurrent
<1>12. ExitCodeIsEarned
  BY <1>2 DEF ExitCodeIsEarned
<1>13. QED
  BY <1>1, <1>4, <1>5, <1>6, <1>7, <1>8, <1>9, <1>10, <1>11, <1>12 DEF BatchInv

\* Every step keeps it.
LEMMA Inductive == BatchInv /\ [Next]_vars => BatchInv'
<1> SUFFICES ASSUME BatchInv, [Next]_vars PROVE BatchInv'
  OBVIOUS
<1>1. FileInv /\ DataInv /\ PlanInv /\ PendingInv /\ CallInv
  BY DEF BatchInv
<1>2. CountInv /\ LoopInv /\ DoneInv /\ EvidenceIsCurrent /\ ExitCodeIsEarned
  BY DEF BatchInv
<1>3. FileInv'
  BY <1>1, <1>2, FilesNext
<1>4. DataInv'
  BY <1>1, <1>2, DataNext
<1>5. PlanInv'
  BY <1>1, PlanNext
<1>6. PendingInv'
  BY <1>1, PendingNext
<1>7. CallInv'
  BY <1>1, CallNext
<1>8. CountInv'
  BY <1>1, <1>2, CountNext
<1>9. LoopInv'
  BY <1>1, <1>2, LoopNext
<1>10. DoneInv'
  BY <1>1, <1>2, DoneNext
<1>11. EvidenceIsCurrent'
  BY <1>1, <1>2, EvidenceNext
<1>12. ExitCodeIsEarned'
  BY <1>1, <1>2, ExitNext
<1>13. QED
  BY <1>3, <1>4, <1>5, <1>6, <1>7, <1>8, <1>9, <1>10, <1>11, <1>12 DEF BatchInv

\* The invariant holds in every state of repeat and suite.
THEOREM BatchInvariant == Spec => []BatchInv
  BY InitInv, Inductive, PTL DEF Spec

\* The files that are pending are a sequence of file names.
LEMMA PendingType ==
    PendingInv => pending \in {<<>>} \cup Seq(ToSet(Artifacts)) \cup Seq(ToSet(Summaries))
<1> SUFFICES ASSUME PendingInv
             PROVE  pending \in {<<>>} \cup Seq(ToSet(Artifacts)) \cup Seq(ToSet(Summaries))
  OBVIOUS
<1>1. \/ pending = <<>>
      \/ pending \in {Artifacts, Tail(Artifacts), Tail(Tail(Artifacts))}
      \/ pending \in {Summaries, Tail(Summaries)}
  BY DEF PendingInv
<1>2. Artifacts \in Seq(ToSet(Artifacts)) /\ Summaries \in Seq(ToSet(Summaries))
  BY FileNames DEF Artifacts, Summaries
<1>3. /\ Tail(Artifacts) \in Seq(ToSet(Artifacts))
      /\ Tail(Tail(Artifacts)) \in Seq(ToSet(Artifacts))
      /\ Tail(Summaries) \in Seq(ToSet(Summaries))
  BY <1>2, FileNames DEF Artifacts, Summaries
<1>4. QED BY <1>1, <1>2, <1>3

\* The types of the variables; in particular the loop makes no more runs than
\* were requested, and the counters of the summary add up.
THEOREM BatchTypeCorrect == Spec => []TypeOK
<1>1. BatchInv => TypeOK
  <2> SUFFICES ASSUME BatchInv PROVE TypeOK
    OBVIOUS
  <2>1. FileInv /\ DataInv /\ PlanInv /\ PendingInv /\ CountInv /\ LoopInv
    BY DEF BatchInv
  <2>2. FileTypeOK
    BY <2>1 DEF FileInv
  <2>3. /\ plan.command \in Commands \cup {"none"} /\ Requested <= MaxRuns
        /\ plan.limits \in [Budgets -> Limits \cup {0}]
        /\ invocation \in 0..Invocations
    <3>1. CASE at = "off"
      <4>1. plan = Blank /\ invocation = 0
        BY <2>1, <3>1 DEF PlanInv
      <4>2. NoLimits \in [Budgets -> Limits \cup {0}]
        BY DEF NoLimits
      <4>3. QED
        BY <4>1, <4>2, BatchAssumption DEF Blank, Requested, BatchAssumption
    <3>2. CASE at # "off"
      <4>1. plan \in Plans /\ invocation \in 1..Bound(plan.command)
        BY <2>1, <3>2 DEF PlanInv
      <4>2. plan.command \in Commands /\ plan.limits \in [Budgets -> Limits \cup {0}]
        BY <4>1, PlanFacts
      <4>3. Requested <= MaxRuns
        BY <4>1, PlanFacts, BatchAssumption DEF Requested, BatchAssumption
      <4>4. invocation \in 0..Invocations
        BY <4>1, BoundFacts, BatchAssumption DEF BatchAssumption
      <4>5. QED BY <4>2, <4>3, <4>4
    <3>3. QED BY <3>1, <3>2
  <2>4. pending \in {<<>>} \cup Seq(ToSet(Artifacts)) \cup Seq(ToSet(Summaries))
    BY <2>1, PendingType
  <2>5. /\ at \in Stopped \cup {"verifying", "reporting", "finishing", "summarizing"}
        /\ pull \in BOOLEAN /\ run \in Answers \cup {NoRun} /\ problem \in BOOLEAN
        /\ primaryErr \in BOOLEAN /\ interrupted \in BOOLEAN
        /\ code \in {0, 1, 2, 3, 130}
    BY <2>1 DEF DataInv
  <2>6. /\ summary.completed = summary.passed + summary.failed
        /\ summary.errors <= summary.failed
    BY <2>1 DEF CountInv
  <2>7. at \notin Stopped => index \in 1..Requested
    BY <2>1 DEF LoopInv
  <2>8. QED BY <2>2, <2>3, <2>4, <2>5, <2>6, <2>7 DEF TypeOK
<1>2. QED BY <1>1, BatchInvariant, PTL

\* The evidence on disk is that of the runs that the summary lists.
THEOREM EvidenceIsKept == Spec => []EvidenceIsCurrent
<1>1. BatchInv => EvidenceIsCurrent
  BY DEF BatchInv
<1>2. QED BY <1>1, BatchInvariant, PTL

\* 0, 1 and 130 mean what the documentation says.
THEOREM ExitCodesAreEarned == Spec => []ExitCodeIsEarned
<1>1. BatchInv => ExitCodeIsEarned
  BY DEF BatchInv
<1>2. QED BY <1>1, BatchInvariant, PTL

\* JUnit and JSON tell the same.
THEOREM JUnitTellsTheSame == Spec => []JUnitAgrees
<1>1. BatchInv => JUnitAgrees
  BY JUnitCounts DEF BatchInv
<1>2. QED BY <1>1, BatchInvariant, PTL

\* repeat and suite write files as writeAtomic does, hence atomically.
THEOREM BatchIsAtomic == Spec => ImplementsAtomicFile
<1>1. Init => FileInit
  BY DEF Init
<1>2. BatchInv /\ [Next]_vars => [FileNext]_fileVars
  BY FileStep DEF BatchInv
<1>3. Spec => FileSpec
  BY <1>1, <1>2, BatchInvariant, PTL DEF Spec, FileSpec
<1>4. QED BY <1>3, WriteAtomicIsAtomic
==============================================================================
