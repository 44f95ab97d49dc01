----------------------------- MODULE RunVerdict -----------------------------
(***************************************************************************)
(* How a run with a workload is judged: the coverage and health of the     *)
(* collection (sat/health.py), the verdict of the report, the policy of    *)
(* the CI gate (sat/policy.py, as it is by default), the JUnit file        *)
(* (sat/reporter/junit.py), and the exit code and redaction of `python -m  *)
(* sat' (sat/cli.py), which join the thread of the workload                *)
(* (sat/workloads/).                                                       *)
(*                                                                         *)
(* Times are in hundred-thousandths of the planned duration, so that       *)
(* covered is also the coverage ratio before it is rounded.                *)
(***************************************************************************)
EXTENDS Integers, FiniteSets

CONSTANTS Gaps,       \* how long logcat may be down at a time
          MaxFound,   \* bound on the incidents
          Options     \* the options of the command line, a set of records

ASSUME VerdictAssumption ==
    /\ Gaps \subseteq Nat /\ MaxFound \in Nat
    /\ Options \subseteq [workload : {"none", "external", "monkey", "launch"},
                          ci : BOOLEAN, ignore : BOOLEAN, redact : BOOLEAN]

VARIABLES covered,    \* for how long logcat collected
          found,      \* the incidents of the report, each [type, expected]
          warned,     \* reading the journal back gave a warning
          options,
          phase,      \* of the main thread
          workload,   \* what the workload thread does, or its result
          stopping,   \* the workload was asked to stop
          seen,       \* the result the main thread read
          exit,       \* the exit code
          artefacts   \* [junit, redacted]: what is written after the report
verdictVars == <<covered, found, warned, options, phase, workload, stopping,
                 seen, exit, artefacts>>

Planned == 100000
MinCoverage == 99000
FatalTypes == {"java_crash", "native_crash", "anr", "other"}
Results == {"ok", "failed", "interrupted"}
Nothing == "none"
Running == -1

VerdictInit ==
    /\ covered = Planned
    /\ found = {}
    /\ warned = FALSE
    /\ options \in Options
    /\ phase = "waiting"
    /\ workload = IF options.workload = Nothing THEN Nothing ELSE "running"
    /\ stopping = FALSE
    /\ seen = Nothing
    /\ exit = Running
    /\ artefacts = [junit |-> Nothing, redacted |-> FALSE]

-----------------------------------------------------------------------------
\* round(coverage, 4); no coverage of the model is half way between two.
Rounded(c) == ((c + 5) \div 10) * 10

CollectorHealth ==
    IF covered = 0 THEN "inconclusive"
    ELSE IF covered < MinCoverage THEN "degraded"
    ELSE "healthy"

HealthOfRun ==
    IF warned /\ CollectorHealth = "healthy" THEN "degraded" ELSE CollectorHealth

Failures == {i \in found : ~i.expected /\ i.type \in FatalTypes}

\* Mutant of VerdictOfRun: incomplete observation is looked at first.
VerdictHealthFirst ==
    IF HealthOfRun # "healthy" THEN "inconclusive"
    ELSE IF Failures # {} THEN "unstable" ELSE "stable"

VerdictOfRun ==
    IF Failures # {} THEN "unstable"
    ELSE IF HealthOfRun # "healthy" THEN "inconclusive"
    ELSE "stable"

\* The rules fail_on, max_anr = 0 and min_coverage_ratio, of the rounded coverage.
PolicyPassed ==
    /\ ~\E i \in found : i.type \in FatalTypes /\ ~i.expected
    /\ Rounded(covered) >= MinCoverage

GateFailed == options.ci /\ ~PolicyPassed

Junit ==
    CASE VerdictOfRun = "unstable" -> "failure"
      [] VerdictOfRun = "inconclusive" -> "error"
      [] OTHER -> IF GateFailed THEN "failure" ELSE "pass"

WorkloadFailed == seen = "failed" /\ ~options.ignore

ExitCode ==
    IF WorkloadFailed THEN 1
    ELSE IF VerdictOfRun = "inconclusive" THEN 4
    ELSE IF GateFailed THEN 1
    ELSE 0

-----------------------------------------------------------------------------
\* (Once the run is degraded a further gap tells nothing new: a bound.)
LogcatDown(gap) ==
    /\ phase = "waiting"
    /\ covered >= MinCoverage
    /\ covered' = IF covered > gap THEN covered - gap ELSE 0
    /\ UNCHANGED <<found, warned, options, phase, workload, stopping, seen, exit, artefacts>>

FindIncident(type, expected) ==
    /\ phase = "waiting"
    /\ Cardinality(found) < MaxFound
    /\ found' = found \cup {[type |-> type, expected |-> expected]}
    /\ UNCHANGED <<covered, warned, options, phase, workload, stopping, seen, exit, artefacts>>

JournalWarns ==
    /\ phase = "waiting"
    /\ warned' = TRUE
    /\ UNCHANGED <<covered, found, options, phase, workload, stopping, seen, exit, artefacts>>

\* The workload ends by itself; "external" polls for a stop, and is killed then.
WorkloadEnds(result) ==
    /\ workload = "running"
    /\ result = "interrupted" => stopping /\ options.workload = "external"
    /\ options.workload = "launch" => result = "ok"
    /\ workload' = result
    /\ UNCHANGED <<covered, found, warned, options, phase, stopping, seen, exit, artefacts>>

\* wait() returns; a workload still running is asked to stop.
Deadline ==
    /\ phase = "waiting"
    /\ phase' = "joining"
    /\ stopping' = (workload = "running")
    /\ UNCHANGED <<covered, found, warned, options, workload, seen, exit, artefacts>>

\* join(30 s) ends with the workload, or without; its result is read once.
JoinWorkload ==
    /\ phase = "joining"
    /\ phase' = "reporting"
    /\ seen' = IF workload = "running" THEN Nothing ELSE workload
    /\ UNCHANGED <<covered, found, warned, options, workload, stopping, exit, artefacts>>

\* After stop() has written the report.
Exits ==
    /\ phase = "reporting"
    /\ phase' = "exited"
    /\ exit' = ExitCode
    /\ artefacts' = IF WorkloadFailed THEN artefacts
                    ELSE [junit |-> Junit, redacted |-> options.redact]
    /\ UNCHANGED <<covered, found, warned, options, workload, stopping, seen>>

VerdictNext ==
    \/ \E gap \in Gaps : LogcatDown(gap)
    \/ \E type \in FatalTypes, expected \in BOOLEAN : FindIncident(type, expected)
    \/ JournalWarns
    \/ \E result \in Results : WorkloadEnds(result)
    \/ Deadline
    \/ JoinWorkload
    \/ Exits

VerdictSpec == VerdictInit /\ [][VerdictNext]_verdictVars

-----------------------------------------------------------------------------
\* In CI, exit code 0 is only given to a run that is fully observed and without
\* failure (cli.py:1095-1140): not where the coverage is below the threshold and
\* rounds up to it, nor where the journal had to be repaired.
ZeroMeansStable ==
    (exit = 0 /\ options.ci) =>
        Failures = {} /\ covered >= MinCoverage /\ ~warned

\* A confirmed failure is never hidden by a bad observation: no gate passes, and
\* the exit code is never that of an inconclusive run (health.py:127-187).
FailureWins ==
    (exit # Running /\ Failures # {}) => ~PolicyPassed /\ exit # 4

\* The JUnit file and the exit code tell CI the same (junit.py:58-146).
JunitTellsExit ==
    (artefacts.junit # Nothing /\ options.ci) =>
        /\ artefacts.junit = "failure" <=> exit = 1
        /\ artefacts.junit = "error" <=> exit = 4

\* A workload that failed while it was waited for is never swallowed: a run exits
\* with 0 only if the workload was given up first (cli.py:1048-1052, 1095-1111).
WorkloadFailureSurfaces ==
    (exit = 0 /\ workload = "failed" /\ ~options.ignore) => seen = Nothing /\ stopping

\* Exit code, verdict and JUnit file agree, and success is only given to a run that
\* was observed and free of failures.
VerdictSound ==
    /\ ZeroMeansStable /\ FailureWins
    /\ JunitTellsExit /\ WorkloadFailureSurfaces
=============================================================================
