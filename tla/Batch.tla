-------------------------------- MODULE Batch --------------------------------
(***************************************************************************)
(* draincheck repeat and draincheck suite: a sequence of verifications     *)
(* whose evidence is written through writeAtomic (ReportFile), the summary *)
(* and its budgets, and the exit code.  The process may be interrupted or  *)
(* killed anywhere, and started again on the same report directory.  Of    *)
(* lifecycle.Verify only its answer is modelled here; Lifecycle models the *)
(* rest.                                                                   *)
(***************************************************************************)
EXTENDS ReportFile, FiniteSets, Sequences, SequencesExt

CONSTANTS
    Commands,    \* the commands to be run
    SameNames,   \* scenario names, those that differ only in case together
    MaxRuns,     \* bound on --runs and on the number of --config
    Budgets,     \* the budgets of repeat.budgets
    Limits,      \* their limits; 0 means not configured
    Durations,   \* what a passing run may take
    Again,       \* bound: the commands that are started again, on the same
                 \* report directory, after they ended or were killed
    Invocations  \* bound on how often such a command is started

\* runs and scenarios: at least two; Validate: limits are 0 or at least 1ms
ASSUME BatchAssumption ==
    /\ Commands \subseteq {"repeat", "suite"}
    /\ Again \subseteq Commands
    /\ \A c, d \in SameNames : c = d \/ c \cap d = {}
    /\ MaxRuns \in Nat \ {0, 1}
    /\ Limits \subseteq Nat
    /\ Durations \subseteq Nat
    /\ Invocations \in Nat \ {0}
    /\ IsFiniteSet(Budgets)

VARIABLES
    invocation,  \* how often draincheck was started
    plan,        \* what this invocation was asked to do
    at,          \* where it is
    index,       \* the current run or scenario
    pull,        \* the image may be pulled
    run,         \* what lifecycle.Verify returned
    pending,     \* the files still to be written
    problem,     \* one of the files could not be written
    summary,     \* the summary
    primaryErr,  \* the error that ends the sequence
    interrupted, \* the context of the command is canceled
    code         \* the exit code

sequence == <<invocation, plan, index, pull, run, summary, primaryErr>>
vars == <<fileVars, sequence, at, pending, problem, interrupted, code>>

------------------------------------------------------------------------------
\* The plan and the paths

\* strings.ToLower(name), the key of seenNames; and, where the file system
\* ignores case, the directory
Key(name) == CHOOSE c \in SameNames : name \in c

\* how often a command is started
Bound(command) == IF command \in Again THEN Invocations ELSE 1

NoLimits == [b \in Budgets |-> 0]

Repeats ==
    [command : {"repeat"}, runs : {[i \in 1..n |-> i] : n \in 2..MaxRuns},
     limits : [Budgets -> Limits]]

Suites ==
    [command : {"suite"},
     runs : UNION {[1..n -> UNION SameNames] : n \in 2..MaxRuns},
     limits : {NoLimits}]

Plans ==
    (IF "repeat" \in Commands THEN Repeats ELSE {})
        \cup (IF "suite" \in Commands THEN Suites ELSE {})

\* Mutant: names are compared as they are written.
UniqueAsWritten(names) ==
    \A i, j \in DOMAIN names : i # j => names[i] # names[j]

\* loadSuiteScenarios
Unique(names) ==
    \A i, j \in DOMAIN names : i # j => Key(names[i]) # Key(names[j])

Requested == Len(plan.runs)

\* A run directory is named after its index and its fresh run ID, a scenario
\* directory after the scenario alone.
RunDirectory(inv, i) == <<"runs", inv, i>>
ScenarioDirectory(name) == <<"scenarios", Key(name)>>

Directory(i) ==
    IF plan.command = "repeat" THEN RunDirectory(invocation, i)
    ELSE ScenarioDirectory(plan.runs[i])

Artifacts == <<"draincheck.json", "draincheck.xml", "draincheck-debug.zip">>
Summaries == <<"summary.json", "summary.xml">>

TopDirectory == <<"report-dir">>

ReportPaths ==
    ({RunDirectory(inv, i) : inv \in 1..Bound("repeat"), i \in 1..MaxRuns}
        \cup {ScenarioDirectory(name) : name \in UNION SameNames})
            \X ToSet(Artifacts)
    \cup {TopDirectory} \X ToSet(Summaries)

\* A report names its run, or is the summary (run 0), and has a verdict.
ReportValues ==
    [by : 1..Invocations, run : 0..MaxRuns, passed : BOOLEAN]

ASSUME EvidenceAssumption ==
    /\ ReportPaths \subseteq Paths
    /\ ReportValues \subseteq Values

NoReport == [by |-> 0, run |-> 0, passed |-> FALSE]
TornReport == [by |-> 0, run |-> 0, passed |-> TRUE]
Nowhere == <<>>

------------------------------------------------------------------------------
\* The summary

\* repetition.New and suite.New
New(p) ==
    [completed |-> 0, passed |-> 0, failed |-> 0, errors |-> 0,
     runs |-> <<>>, samples |-> <<>>,
     budgets |-> [b \in {} |-> FALSE], budgetFailures |-> 0,
     verdict |-> FALSE]

\* Add
Add(s, result, err, timing) ==
    LET passed == result = "passed" /\ ~err IN
    [s EXCEPT
        !.completed = @ + 1,
        !.passed = @ + IF passed THEN 1 ELSE 0,
        !.failed = @ + IF passed THEN 0 ELSE 1,
        !.errors = @ + IF err THEN 1 ELSE 0,
        !.runs = Append(@, [passed |-> passed, error |-> err]),
        !.samples = IF passed THEN Append(@, timing) ELSE @]

\* Mutant: the rank is rounded down.
RankDown(n) == (95 * n) \div 100

\* int(math.Ceil(0.95 * n)); for n in 1..100 the product in floating point has
\* the same ceiling
Rank(n) == (95 * n + 99) \div 100

Larger(m, n) == IF m > n THEN m ELSE n
Smaller(m, n) == IF m < n THEN m ELSE n

\* sort.Slice
Sorted(s) ==
    LET order == CHOOSE p \in Bijection(DOMAIN s, DOMAIN s) :
                     \A i, j \in DOMAIN s : i < j => s[p[i]] <= s[p[j]]
    IN  [i \in DOMAIN s |-> s[order[i]]]

\* nearestRank, on sorted values
NearestRank(sorted) ==
    LET i == Larger(0, Smaller(Rank(Len(sorted)) - 1, Len(sorted) - 1))
    IN  sorted[i + 1]

\* calculateStats, of which the p95 of one timing is used
P95(samples, b) ==
    IF samples = <<>> THEN 0
    ELSE NearestRank(Sorted([i \in DOMAIN samples |-> samples[i][b]]))

\* addBudget
Budget(s, b, lifecyclePassed) ==
    LET evaluated == lifecyclePassed /\ Len(s.samples) = Requested
    IN  [evaluated |-> evaluated,
         passed |-> evaluated /\ P95(s.samples, b) <= plan.limits[b]]

LifecyclePassed(s) == s.completed = Requested /\ s.failed = 0

Configured == {b \in Budgets : plan.limits[b] > 0}

\* Finish and evaluateBudgets; a suite has no budgets
Finished(s) ==
    LET budgets == [b \in Configured |-> Budget(s, b, LifecyclePassed(s))]
        failures ==
            {b \in Configured : budgets[b].evaluated /\ ~budgets[b].passed}
    IN  [s EXCEPT
            !.budgets = budgets,
            !.budgetFailures = Cardinality(failures),
            !.verdict = LifecyclePassed(s) /\ failures = {}]

\* the cases that WriteJUnit writes
RunCase(s, i) ==
    IF i > s.completed THEN "skipped"
    ELSE IF s.runs[i].error THEN "error"
    ELSE IF s.runs[i].passed THEN "passed" ELSE "failure"

BudgetCase(s, b) ==
    IF ~s.budgets[b].evaluated THEN "skipped"
    ELSE IF s.budgets[b].passed THEN "passed" ELSE "failure"

Unevaluated(s) == {b \in DOMAIN s.budgets : ~s.budgets[b].evaluated}

\* Mutant: budgets that were not evaluated are not counted.
SkippedRuns(s) == Requested - s.completed

Skipped(s) == Requested - s.completed + Cardinality(Unevaluated(s))

\* the attributes of its testsuite element
JUnit(s) ==
    [tests |-> Requested + Cardinality(DOMAIN s.budgets),
     failure |-> s.failed - s.errors + s.budgetFailures,
     error |-> s.errors,
     skipped |-> Skipped(s)]

------------------------------------------------------------------------------
Blank ==
    [command |-> "none", runs |-> <<>>, limits |-> NoLimits]

NoRun == [result |-> "none", error |-> FALSE, timing |-> NoLimits]

Stopped == {"off", "exited", "dead"}

Init ==
    /\ FileInit
    /\ invocation = 0
    /\ plan = Blank
    /\ at = "off"
    /\ index = 0
    /\ pull = FALSE
    /\ run = NoRun
    /\ pending = <<>>
    /\ problem = FALSE
    /\ summary = New(Blank)
    /\ primaryErr = FALSE
    /\ interrupted = FALSE
    /\ code = 0

\* draincheck is started.  A bad option or configuration ends it with 2, a
\* runtime that cannot be resolved with 3, before anything is written.  Each
\* command has a report directory of its own, as the defaults have it.
Start ==
    /\ at \in Stopped
    /\ plan' \in {p \in Plans : plan.command \in {"none", p.command}}
    /\ invocation < Bound(plan'.command)
    /\ invocation' = invocation + 1
    /\ \/ /\ plan'.command = "suite" => Unique(plan'.runs)
          /\ at' = "verifying"
          /\ code' = 0
       \/ /\ at' = "exited"
          /\ code' \in {2, 3}
    /\ index' = 1
    /\ pull' = TRUE
    /\ run' = NoRun
    /\ pending' = <<>>
    /\ problem' = FALSE
    /\ summary' = New(plan')
    /\ primaryErr' = FALSE
    /\ interrupted' = FALSE
    /\ UNCHANGED fileVars

Timings ==
    IF plan.command = "repeat" THEN [Budgets -> Durations] ELSE {NoLimits}

\* What lifecycle.Verify may return: there is no report if no run ID could be
\* made, and with an error or an interrupt the report never passes.
Answers ==
    [result : {"failed"}, error : BOOLEAN, timing : {NoLimits}]
        \cup {[result |-> "none", error |-> TRUE, timing |-> NoLimits]}
        \cup [result : {"passed"}, error : {FALSE}, timing : Timings]

\* the call of lifecycle.Verify
Verify ==
    /\ at = "verifying"
    /\ run' \in {a \in Answers : interrupted => a.error}
    /\ pending' = IF run'.result = "none" THEN <<>> ELSE Artifacts
    /\ problem' = FALSE
    /\ at' = "reporting"
    /\ UNCHANGED <<fileVars, invocation, plan, index, pull, summary, primaryErr,
                   interrupted, code>>

\* the report that is written next
Target ==
    <<IF at = "reporting" THEN Directory(index) ELSE TopDirectory, Head(pending)>>

Report ==
    IF at = "reporting"
    THEN [by |-> invocation, run |-> index, passed |-> run.result = "passed"]
    ELSE [by |-> invocation, run |-> 0, passed |-> summary.verdict]

\* writeReports, and the two summaries: one file after the other, also after
\* an error; errors.Join
BeginFile ==
    /\ at \in {"reporting", "summarizing"}
    /\ pending # <<>>
    /\ Write(Target, Report)
    /\ UNCHANGED <<sequence, at, pending, problem, interrupted, code>>

EndFile ==
    /\ Collect
    /\ problem' = (problem \/ writer.error)
    /\ pending' = Tail(pending)
    /\ UNCHANGED <<sequence, at, interrupted, code>>

\* The reports of a run are written, or there are none.
Written == writer.at = "idle" /\ pending = <<>>

\* Mutant: the loop runs once too often.
LastRunPassed == index > Requested

LastRun == index = Requested

\* summary.Add; the first error ends the sequence
AddRun ==
    /\ at = "reporting"
    /\ Written
    /\ LET runErr == run.error \/ problem IN
        /\ summary' = Add(summary, run.result, runErr, run.timing)
        /\ primaryErr' = runErr
        /\ pull' = (pull /\ runErr)
        /\ IF runErr \/ LastRun
           THEN at' = "finishing" /\ UNCHANGED index
           ELSE at' = "verifying" /\ index' = index + 1
    /\ UNCHANGED <<fileVars, invocation, plan, run, pending, problem,
                   interrupted, code>>

\* summary.Finish
Finish ==
    /\ at = "finishing"
    /\ summary' = Finished(summary)
    /\ pending' = Summaries
    /\ problem' = FALSE
    /\ at' = "summarizing"
    /\ UNCHANGED <<fileVars, invocation, plan, index, pull, run, primaryErr,
                   interrupted, code>>

ExitCode(err) ==
    IF err THEN IF interrupted THEN 130 ELSE 3
    ELSE IF summary.verdict THEN 0 ELSE 1

Exit ==
    /\ at = "summarizing"
    /\ Written
    /\ code' = ExitCode(primaryErr \/ problem)
    /\ at' = "exited"
    /\ UNCHANGED <<fileVars, sequence, pending, problem, interrupted>>

\* SIGINT or SIGTERM cancels the context of the command.
Interrupt ==
    /\ at \notin Stopped
    /\ ~interrupted
    /\ interrupted' = TRUE
    /\ UNCHANGED <<fileVars, sequence, at, pending, problem, code>>

\* The process or the machine dies, also after an exit.
Crash ==
    /\ at \notin {"off", "dead"}
    /\ FileCrash
    /\ at' = "dead"
    /\ index' = 0
    /\ pull' = FALSE
    /\ run' = NoRun
    /\ pending' = <<>>
    /\ problem' = FALSE
    /\ summary' = New(Blank)
    /\ primaryErr' = FALSE
    /\ interrupted' = FALSE
    /\ code' = 0
    /\ UNCHANGED <<invocation, plan>>

WriterMoves ==
    /\ WriterStep
    /\ UNCHANGED <<sequence, at, pending, problem, interrupted, code>>

Terminated ==
    /\ at \in Stopped
    /\ invocation = Bound(plan.command)
    /\ UNCHANGED vars

Next ==
    \/ Start \/ Verify \/ BeginFile \/ WriterMoves \/ EndFile
    \/ AddRun \/ Finish \/ Exit
    \/ Interrupt \/ Crash
    \/ Terminated

Spec == Init /\ [][Next]_vars

------------------------------------------------------------------------------
\* Properties

\* The types of the variables; in particular the loop makes no more runs than
\* were requested, and the counters of the summary add up.
TypeOK ==
    /\ FileTypeOK
    /\ invocation \in 0..Invocations
    /\ plan.command \in Commands \cup {"none"}
    /\ Requested <= MaxRuns
    /\ plan.limits \in [Budgets -> Limits \cup {0}]
    /\ at \in Stopped \cup {"verifying", "reporting", "finishing", "summarizing"}
    /\ at \notin Stopped => index \in 1..Requested
    /\ pull \in BOOLEAN
    /\ run \in Answers \cup {NoRun}
    /\ pending \in {<<>>} \cup Seq(ToSet(Artifacts)) \cup Seq(ToSet(Summaries))
    /\ problem \in BOOLEAN
    /\ summary.completed = summary.passed + summary.failed
    /\ summary.errors <= summary.failed
    /\ primaryErr \in BOOLEAN
    /\ interrupted \in BOOLEAN
    /\ code \in {0, 1, 2, 3, 130}

Holds(directory, file, r, passed) ==
    disk[<<directory, file>>].value =
        [by |-> invocation, run |-> r, passed |-> passed]

(***************************************************************************)
(* The files in the artifact directory of every run or scenario that the   *)
(* summary lists without an error are of that run, all three, and tell its *)
(* verdict: also when an earlier invocation used the same directory or was *)
(* killed while it wrote there, and when scenario names differ in case     *)
(* only.                                                                   *)
(***************************************************************************)
EvidenceIsCurrent ==
    \A i \in 1..summary.completed : ~summary.runs[i].error =>
        \A file \in ToSet(Artifacts) :
            Holds(Directory(i), file, i, summary.runs[i].passed)

WithinBudget(b) ==
    LET over == {i \in DOMAIN summary.samples :
                    summary.samples[i][b] > plan.limits[b]}
    IN  20 * Cardinality(over) <= Requested

(***************************************************************************)
(* The table of exit codes (docs/repeat.md, docs/suite.md).  0 and 1: every *)
(* requested run executed and its evidence and both summaries are on disk; *)
(* and 0 exactly if they all passed and, for each configured budget, at    *)
(* least 95% of the runs were within its limit.  130: only if interrupted. *)
(***************************************************************************)
ExitCodeIsEarned ==
    at = "exited" =>
        /\ code \in {0, 1} =>
            /\ summary.completed = Requested
            /\ summary.errors = 0
            /\ \A i \in 1..Requested : \A file \in ToSet(Artifacts) :
                   Holds(Directory(i), file, i, summary.runs[i].passed)
            /\ \A file \in ToSet(Summaries) :
                   Holds(TopDirectory, file, 0, code = 0)
            /\ code = 0 <=> /\ \A i \in 1..Requested : summary.runs[i].passed
                            /\ \A b \in Configured : WithinBudget(b)
        /\ code = 130 => interrupted

(***************************************************************************)
(* JUnit and JSON tell the same: the attributes of the test suite count    *)
(* the cases that follow, and they are all green exactly if the summary    *)
(* passes.  A run that was never made counts as skipped, not as passed.    *)
(***************************************************************************)
JUnitAgrees ==
    at = "summarizing" =>
        LET junit == JUnit(summary)
            Number(kind) ==
                Cardinality({i \in 1..Requested : RunCase(summary, i) = kind})
                + Cardinality({b \in Configured : BudgetCase(summary, b) = kind})
        IN  /\ \A kind \in {"failure", "error", "skipped"} :
                   junit[kind] = Number(kind)
            /\ junit.tests = Requested + Cardinality(Configured)
            /\ summary.verdict <=> Number("passed") = junit.tests
=============================================================================
