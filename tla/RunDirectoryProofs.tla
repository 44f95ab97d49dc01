------------------------- MODULE RunDirectoryProofs -------------------------
(***************************************************************************)
(* Proofs about what a run leaves in its directory: RunSession, for any    *)
(* number of dashboards and interrupts, JournalFile, for any number of     *)
(* appends and kills, and LogFiles, for any writers, limits and kills.     *)
(***************************************************************************)
EXTENDS RunSession, JournalFile, LogFiles, FiniteSetTheorems, SequenceTheorems, TLAPS

Pcs == {"lock", "preflight", "processes", "ready", "observe", "abort", "workload", "wait",
        "endWorkload", "finally", "stopping", "after", "release", "exited"}
InStop == {"live", "join", "pool", "report", "release"}
ExitReasons ==
    {"none", "duration_elapsed", "setup_failed", "adb_unavailable", "wait_timeout",
     "logcat_not_ready", "device_fail_fast", "interrupted", "workload_failed"}
SessionReport ==
    [reason : ExitReasons, verdict : AnyVerdict \cup {"none"}, passed : BOOLEAN,
     pool : {"none", "running", "closed"}, work : {"none", "running", "over"}]

MainType == [pc : Pcs, raised : BOOLEAN, sigint : BOOLEAN, interrupted : BOOLEAN, code : Nat]
TestType == [stopped : BOOLEAN, stopEvent : BOOLEAN, failFast : BOOLEAN, reason : ExitReasons,
             lock : {"nobody", "ours", "rival"}, pool : {"none", "running", "closed"},
             report : SessionReport, failed : SUBSET {"pool", "report"}]
StopAtType == [Stoppers -> InStop \cup {"idle", "check", "set", "done"}]
BeatType == [at : {"none", "waiting", "writing", "over"}, stop : BOOLEAN,
             file : {"none", "running", "ended"}, late : BOOLEAN]
WorkType == [kind : {"external", "monkey", "launch"}, at : {"none", "running", "over"},
             result : {"none", "ok", "failed", "interrupted"}, stop : BOOLEAN]
SessionTypes ==
    /\ main \in MainType /\ test \in TestType /\ stopAt \in StopAtType
    /\ beat \in BeatType /\ work \in WorkType /\ ctrlC \in Nat

\* A report is typed, and tells what it was built from.
LEMMA ReportsTyped ==
    ASSUME SessionTypes, NEW reason \in ExitReasons, NEW verdicts \in SUBSET AnyVerdict
    PROVE  /\ Reports(reason, verdicts) \subseteq SessionReport
           /\ \A r \in Reports(reason, verdicts) :
                 /\ r.reason = reason /\ r.verdict \in verdicts
                 /\ r.pool = test.pool /\ r.work = work.at
BY DEF SessionTypes, Reports, SessionReport, TestType, WorkType

LEMMA SessionTypesStep ==
    ASSUME SessionAssumption, SessionTypes, [SessionNext]_sessionVars PROVE SessionTypes'
<1> USE DEF Pcs, InStop, ExitReasons, Stoppers
<1>1. ASSUME AcquireLock PROVE SessionTypes'
  <2>1. main' \in MainType  BY <1>1 DEF AcquireLock, Goto, SessionTypes, MainType
  <2>2. test' \in TestType  BY <1>1 DEF AcquireLock, Goto, SessionTypes, TestType
  <2> QED BY <1>1, <2>1, <2>2 DEF AcquireLock, Goto, SessionTypes
<1>2. ASSUME Preflight PROVE SessionTypes'
  <2>1. main' \in MainType  BY <1>2 DEF Preflight, Goto, SessionTypes, MainType
  <2>2. test' \in TestType  BY <1>2 DEF Preflight, Goto, SessionTypes, TestType
  <2> QED BY <1>2, <2>1, <2>2 DEF Preflight, Goto, SessionTypes
<1>3. ASSUME StartPool PROVE SessionTypes'
  <2>1. main' \in MainType  BY <1>3 DEF StartPool, Goto, SessionTypes, MainType
  <2>2. test' \in TestType  BY <1>3 DEF StartPool, Goto, SessionTypes, TestType
  <2> QED BY <1>3, <2>1, <2>2 DEF StartPool, Goto, SessionTypes
<1>4. ASSUME LogcatReady PROVE SessionTypes'
  <2>1. main' \in MainType  BY <1>4 DEF LogcatReady, Goto, SessionTypes, MainType
  <2>2. test' \in TestType  BY <1>4 DEF LogcatReady, Goto, SessionTypes, TestType
  <2> QED BY <1>4, <2>1, <2>2 DEF LogcatReady, Goto, SessionTypes
<1>5. ASSUME Observe PROVE SessionTypes'
  <2>1. main' \in MainType  BY <1>5 DEF Observe, Goto, SessionTypes, MainType
  <2>2. beat' \in BeatType  BY <1>5 DEF Observe, Goto, SessionTypes, BeatType
  <2> QED BY <1>5, <2>1, <2>2 DEF Observe, Goto, SessionTypes
<1>6. ASSUME AbortReport PROVE SessionTypes'
  <2>1. main' \in MainType  BY <1>6 DEF AbortReport, Goto, SessionTypes, MainType
  <2>a. test.reason \in ExitReasons  BY DEF SessionTypes, TestType
  <2>b. {"inconclusive"} \subseteq AnyVerdict  BY DEF AnyVerdict
  <2>c. Reports(test.reason, {"inconclusive"}) \subseteq SessionReport
    BY <2>a, <2>b, ReportsTyped
  <2>d. \/ \E r \in SessionReport : test' = [test EXCEPT !.stopped = TRUE, !.report = r]
        \/ test' = [test EXCEPT !.stopped = TRUE, !.failed = @ \cup {"report"}]
    BY <1>6, <2>c DEF AbortReport
  <2>2. test' \in TestType
    <3>1. CASE \E r \in SessionReport : test' = [test EXCEPT !.stopped = TRUE, !.report = r]
      BY <3>1 DEF SessionTypes, TestType
    <3>2. CASE test' = [test EXCEPT !.stopped = TRUE, !.failed = @ \cup {"report"}]
      BY <3>2 DEF SessionTypes, TestType
    <3> QED BY <2>d, <3>1, <3>2
  <2> QED BY <1>6, <2>1, <2>2 DEF AbortReport, SessionTypes
<1>7. ASSUME BeginWorkload PROVE SessionTypes'
  <2>1. main' \in MainType  BY <1>7 DEF BeginWorkload, Goto, SessionTypes, MainType
  <2>2. work' \in WorkType  BY <1>7 DEF BeginWorkload, Goto, SessionTypes, WorkType
  <2> QED BY <1>7, <2>1, <2>2 DEF BeginWorkload, Goto, SessionTypes
<1>8. ASSUME WaitEnds PROVE SessionTypes'
  <2>1. main' \in MainType  BY <1>8 DEF WaitEnds, Goto, SessionTypes, MainType
  <2>2. test' \in TestType  BY <1>8 DEF WaitEnds, Goto, SessionTypes, TestType
  <2> QED BY <1>8, <2>1, <2>2 DEF WaitEnds, Goto, SessionTypes
<1>9. ASSUME EndWorkload PROVE SessionTypes'
  <2>1. main' \in MainType  BY <1>9 DEF EndWorkload, Goto, SessionTypes, MainType
  <2>2. work' \in WorkType  BY <1>9 DEF EndWorkload, Goto, SessionTypes, WorkType
  <2> QED BY <1>9, <2>1, <2>2 DEF EndWorkload, Goto, SessionTypes
<1>10. ASSUME Finally PROVE SessionTypes'
  <2>a. \/ main' = main
        \/ main' = [main EXCEPT !.pc = "exited", !.code = 1]
        \/ main' = [main EXCEPT !.pc = "after"]
        \/ main' = [main EXCEPT !.pc = "stopping"]
    BY <1>10 DEF Finally, Goto, Exit
  <2>1. main' \in MainType
    <3>1. CASE main' = [main EXCEPT !.pc = "exited", !.code = 1]
      BY <3>1 DEF SessionTypes, MainType
    <3>2. CASE main' = [main EXCEPT !.pc = "after"]  BY <3>2 DEF SessionTypes, MainType
    <3>3. CASE main' = [main EXCEPT !.pc = "stopping"]  BY <3>3 DEF SessionTypes, MainType
    <3> QED BY <2>a, <3>1, <3>2, <3>3 DEF SessionTypes
  <2>2. work' \in WorkType  BY <1>10 DEF Finally, Goto, Exit, SessionTypes, WorkType
  <2>3. test' \in TestType  BY <1>10 DEF Finally, Goto, SessionTypes, TestType
  <2>4. stopAt' \in StopAtType  BY <1>10 DEF Finally, Goto, SessionTypes, StopAtType
  <2> QED BY <1>10, <2>1, <2>2, <2>3, <2>4 DEF Finally, Goto, SessionTypes
<1>11. ASSUME Stopped PROVE SessionTypes'
  <2>a. \/ main' = main
        \/ main' = [main EXCEPT !.pc = "exited", !.code = 130]
        \/ main' = [main EXCEPT !.pc = "exited", !.code = 1]
        \/ main' = [main EXCEPT !.pc = "after"]
    BY <1>11 DEF Stopped, Exit, Goto
  <2>1. main' \in MainType
    <3>1. CASE main' = [main EXCEPT !.pc = "exited", !.code = 130]
      BY <3>1 DEF SessionTypes, MainType
    <3>2. CASE main' = [main EXCEPT !.pc = "exited", !.code = 1]
      BY <3>2 DEF SessionTypes, MainType
    <3>3. CASE main' = [main EXCEPT !.pc = "after"]  BY <3>3 DEF SessionTypes, MainType
    <3> QED BY <2>a, <3>1, <3>2, <3>3 DEF SessionTypes
  <2> QED BY <1>11, <2>1 DEF Stopped, Exit, SessionTypes
<1>12. ASSUME Leave PROVE SessionTypes'
  <2>1. main' \in MainType
    BY <1>12 DEF Leave, Exit, WorkloadFailed, SessionTypes, MainType
  <2> QED BY <1>12, <2>1 DEF Leave, Exit, SessionTypes
<1>13. ASSUME LeaveWorkloadFailed PROVE SessionTypes'
  <2>1. main' \in MainType
    BY <1>13 DEF LeaveWorkloadFailed, Exit, WorkloadFailed, Reports, AnyVerdict,
       SessionTypes, MainType
  <2>a. Reports("workload_failed", AnyVerdict) \subseteq SessionReport  BY ReportsTyped
  <2>b. \/ \E r \in SessionReport :
              test' = [test EXCEPT !.reason = "workload_failed", !.report = r]
        \/ test' = [test EXCEPT !.reason = "workload_failed", !.failed = @ \cup {"report"}]
    BY <1>13, <2>a DEF LeaveWorkloadFailed
  <2>2. test' \in TestType
    <3>1. CASE \E r \in SessionReport :
                  test' = [test EXCEPT !.reason = "workload_failed", !.report = r]
      BY <3>1 DEF SessionTypes, TestType
    <3>2. CASE test' = [test EXCEPT !.reason = "workload_failed", !.failed = @ \cup {"report"}]
      BY <3>2 DEF SessionTypes, TestType
    <3> QED BY <2>b, <3>1, <3>2
  <2> QED BY <1>13, <2>1, <2>2 DEF LeaveWorkloadFailed, Exit, SessionTypes
<1>14. ASSUME Interrupt PROVE SessionTypes'
  <2> USE DEF InterruptRun, InterruptAbort, InterruptStop, InterruptAfter, InterruptTo
  <2>a. \/ main' = [main EXCEPT !.pc = "finally", !.interrupted = TRUE]
        \/ main' = [main EXCEPT !.pc = "endWorkload", !.interrupted = TRUE]
        \/ main' = [main EXCEPT !.pc = "finally", !.interrupted = TRUE, !.sigint = TRUE]
        \/ main' = [main EXCEPT !.sigint = TRUE]
        \/ main' = [main EXCEPT !.pc = "exited", !.code = 130, !.sigint = TRUE]
        \/ main' = [main EXCEPT !.pc = "exited", !.code = 130]
    BY <1>14 DEF Interrupt, Exit
  <2>1. main' \in MainType
    <3>1. CASE main' = [main EXCEPT !.pc = "finally", !.interrupted = TRUE]
      BY <3>1 DEF SessionTypes, MainType
    <3>2. CASE main' = [main EXCEPT !.pc = "endWorkload", !.interrupted = TRUE]
      BY <3>2 DEF SessionTypes, MainType
    <3>3. CASE main' = [main EXCEPT !.pc = "finally", !.interrupted = TRUE, !.sigint = TRUE]
      BY <3>3 DEF SessionTypes, MainType
    <3>4. CASE main' = [main EXCEPT !.sigint = TRUE]  BY <3>4 DEF SessionTypes, MainType
    <3>5. CASE main' = [main EXCEPT !.pc = "exited", !.code = 130, !.sigint = TRUE]
      BY <3>5 DEF SessionTypes, MainType
    <3>6. CASE main' = [main EXCEPT !.pc = "exited", !.code = 130]
      BY <3>6 DEF SessionTypes, MainType
    <3> QED BY <2>a, <3>1, <3>2, <3>3, <3>4, <3>5, <3>6
  <2>2. test' \in TestType  BY <1>14 DEF Interrupt, SessionTypes, TestType
  <2>3. stopAt' \in StopAtType  BY <1>14 DEF Interrupt, SessionTypes, StopAtType
  <2>4. ctrlC' \in Nat  BY <1>14 DEF Interrupt, SessionTypes
  <2> QED BY <1>14, <2>1, <2>2, <2>3, <2>4 DEF Interrupt, SessionTypes
<1>15. ASSUME FailFast PROVE SessionTypes'
  <2>1. test' \in TestType  BY <1>15 DEF FailFast, Running, SessionTypes, TestType
  <2> QED BY <1>15, <2>1 DEF FailFast, Running, SessionTypes
<1>16. ASSUME CommandEnds PROVE SessionTypes'
  <2>1. work' \in WorkType
    BY <1>16 DEF CommandEnds, WorkloadOver, Running, SessionTypes, WorkType
  <2> QED BY <1>16, <2>1 DEF CommandEnds, WorkloadOver, SessionTypes
<1>17. ASSUME MonkeyEnds PROVE SessionTypes'
  <2>1. work' \in WorkType
    BY <1>17 DEF MonkeyEnds, WorkloadOver, Running, SessionTypes, WorkType
  <2> QED BY <1>17, <2>1 DEF MonkeyEnds, WorkloadOver, SessionTypes
<1>18. ASSUME LaunchEnds PROVE SessionTypes'
  <2>1. work' \in WorkType
    BY <1>18 DEF LaunchEnds, WorkloadOver, Running, SessionTypes, WorkType
  <2> QED BY <1>18, <2>1 DEF LaunchEnds, WorkloadOver, SessionTypes
<1>19. ASSUME WorkloadStopped PROVE SessionTypes'
  <2>1. work' \in WorkType  BY <1>19 DEF WorkloadStopped, Running, SessionTypes, WorkType
  <2> QED BY <1>19, <2>1 DEF WorkloadStopped, Running, SessionTypes
<1>20. ASSUME BeatWaits PROVE SessionTypes'
  <2>1. beat' \in BeatType  BY <1>20 DEF BeatWaits, Running, SessionTypes, BeatType
  <2> QED BY <1>20, <2>1 DEF BeatWaits, Running, SessionTypes
<1>21. ASSUME BeatWrites PROVE SessionTypes'
  <2>1. beat' \in BeatType  BY <1>21 DEF BeatWrites, Running, SessionTypes, BeatType
  <2> QED BY <1>21, <2>1 DEF BeatWrites, Running, SessionTypes
<1>22. ASSUME NEW d \in Dashboards, PostStop(d) PROVE SessionTypes'
  <2>1. stopAt' \in StopAtType  BY <1>22 DEF PostStop, Running, SessionTypes, StopAtType
  <2> QED BY <1>22, <2>1 DEF PostStop, Running, SessionTypes
<1>23. ASSUME NEW t \in Stoppers, StopCheck(t) PROVE SessionTypes'
  <2>1. stopAt' \in StopAtType
    BY <1>23 DEF StopCheck, StopperGoto, SessionTypes, StopAtType
  <2> QED BY <1>23, <2>1 DEF StopCheck, StopperGoto, SessionTypes
<1>24. ASSUME NEW t \in Stoppers, StopSet(t) PROVE SessionTypes'
  <2>1. stopAt' \in StopAtType
    BY <1>24 DEF StopSet, StopperGoto, SessionTypes, StopAtType
  <2>2. test' \in TestType
    BY <1>24 DEF StopSet, StopperGoto, Running, SessionTypes, TestType
  <2> QED BY <1>24, <2>1, <2>2 DEF StopSet, StopperGoto, SessionTypes
<1>25. ASSUME NEW t \in Stoppers, StopLive(t) PROVE SessionTypes'
  <2>1. stopAt' \in StopAtType
    BY <1>25 DEF StopLive, StopperGoto, SessionTypes, StopAtType
  <2>2. beat' \in BeatType
    BY <1>25 DEF StopLive, StopperGoto, Running, SessionTypes, BeatType
  <2> QED BY <1>25, <2>1, <2>2 DEF StopLive, StopperGoto, SessionTypes
<1>26. ASSUME NEW t \in Stoppers, StopJoinBeat(t) PROVE SessionTypes'
  <2>1. stopAt' \in StopAtType
    BY <1>26 DEF StopJoinBeat, StopperGoto, SessionTypes, StopAtType
  <2>2. beat' \in BeatType
    BY <1>26 DEF StopJoinBeat, StopperGoto, Running, SessionTypes, BeatType
  <2> QED BY <1>26, <2>1, <2>2 DEF StopJoinBeat, StopperGoto, SessionTypes
<1>27. ASSUME NEW t \in Stoppers, StopPool(t) PROVE SessionTypes'
  <2>1. stopAt' \in StopAtType
    BY <1>27 DEF StopPool, StopperGoto, SessionTypes, StopAtType
  <2>2. test' \in TestType  BY <1>27 DEF StopPool, StopperGoto, SessionTypes, TestType
  <2> QED BY <1>27, <2>1, <2>2 DEF StopPool, StopperGoto, SessionTypes
<1>28. ASSUME NEW t \in Stoppers, StopReport(t) PROVE SessionTypes'
  <2>1. stopAt' \in StopAtType
    BY <1>28 DEF StopReport, StopperGoto, SessionTypes, StopAtType
  <2>a. test.reason \in ExitReasons  BY DEF SessionTypes, TestType
  <2>b. Reports(test.reason, AnyVerdict) \subseteq SessionReport  BY <2>a, ReportsTyped
  <2>c. PICK r \in SessionReport : test' = [test EXCEPT !.report = r]
    BY <1>28, <2>b DEF StopReport
  <2>2. test' \in TestType  BY <2>c DEF SessionTypes, TestType
  <2> QED BY <1>28, <2>1, <2>2 DEF StopReport, StopperGoto, SessionTypes
<1>29. ASSUME NEW t \in Stoppers, StopRelease(t) PROVE SessionTypes'
  <2>1. stopAt' \in StopAtType
    BY <1>29 DEF StopRelease, StopperGoto, SessionTypes, StopAtType
  <2>2. test' \in TestType  BY <1>29 DEF StopRelease, StopperGoto, SessionTypes, TestType
  <2> QED BY <1>29, <2>1, <2>2 DEF StopRelease, StopperGoto, SessionTypes
<1>30. CASE UNCHANGED sessionVars  BY <1>30 DEF sessionVars, SessionTypes
<1>31. ASSUME AbortRelease PROVE SessionTypes'
  <2>1. main' \in MainType  BY <1>31 DEF AbortRelease, Exit, SetupCode, SessionTypes, MainType
  <2>2. test' \in TestType  BY <1>31 DEF AbortRelease, SessionTypes, TestType
  <2> QED BY <1>31, <2>1, <2>2 DEF AbortRelease, SessionTypes
<1>32. ASSUME StartRaises PROVE SessionTypes'
  <2>1. main' \in MainType  BY <1>32 DEF StartRaises, SessionTypes, MainType
  <2>2. test' \in TestType  BY <1>32 DEF StartRaises, SessionTypes, TestType
  <2>3. beat' \in BeatType  BY <1>32 DEF StartRaises, SessionTypes, BeatType
  <2> QED BY <1>32, <2>1, <2>2, <2>3 DEF StartRaises, SessionTypes
<1>33. ASSUME NEW t \in Stoppers, StopRaises(t) PROVE SessionTypes'
  <2>1. stopAt' \in StopAtType
    BY <1>33 DEF StopRaises, StopperGoto, SessionTypes, StopAtType
  <2>2. test' \in TestType  BY <1>33 DEF StopRaises, SessionTypes, TestType
  <2> QED BY <1>33, <2>1, <2>2 DEF StopRaises, StopperGoto, SessionTypes
<1>34. ASSUME NEW t \in Stoppers, StopReportRaises(t) PROVE SessionTypes'
  <2>1. stopAt' \in StopAtType  BY <1>34 DEF StopReportRaises, SessionTypes, StopAtType
  <2>2. test' \in TestType  BY <1>34 DEF StopReportRaises, SessionTypes, TestType
  <2>3. main' \in MainType  BY <1>34 DEF StopReportRaises, SessionTypes, MainType
  <2> QED BY <1>34, <2>1, <2>2, <2>3 DEF StopReportRaises, SessionTypes
<1> QED
  BY <1>1, <1>2, <1>3, <1>4, <1>5, <1>6, <1>7, <1>8, <1>9, <1>10, <1>11, <1>12, <1>13,
     <1>14,
     <1>15, <1>16, <1>17, <1>18, <1>19, <1>20, <1>21, <1>22, <1>23, <1>24, <1>25, <1>26,
     <1>27, <1>28, <1>29, <1>30, <1>31, <1>32, <1>33, <1>34
  DEF SessionNext, Main, StopStep, Stoppers

\* Where main is says what has begun.
Before == {"lock", "preflight", "processes", "ready", "observe", "abort"}
PhaseInv ==
    /\ main.pc \in Before =>
          /\ beat.at = "none" /\ work.at = "none" /\ ~ test.stopped /\ test.report = NotBuilt
    /\ main.pc \in {"release", "workload"} => work.at = "none"
    /\ main.pc \in Before \cup {"release", "workload", "wait"} =>
          ~ main.interrupted /\ ~ main.raised
    /\ main.pc \in {"lock", "preflight", "processes"} => test.pool = "none"
    /\ main.pc \notin {"lock", "preflight", "processes", "abort", "release", "exited"} =>
          test.pool # "none" \/ main.interrupted \/ main.raised
    /\ main.pc \notin {"stopping", "after", "exited"} => stopAt["main"] = "idle"
    /\ main.sigint => main.interrupted \/ main.pc \in {"stopping", "exited"}
    /\ main.interrupted \/ main.sigint => ctrlC > 0
    /\ beat.at = "none" => beat.file = "none" /\ \A d \in Dashboards : stopAt[d] = "idle"
    /\ beat.at # "none" => test.pool # "none"

LEMMA PhaseStep ==
    ASSUME SessionAssumption, SessionTypes, PhaseInv, [SessionNext]_sessionVars PROVE PhaseInv'
<1> USE DEF Before, Stoppers, SessionAssumption
<1>1. ASSUME AcquireLock PROVE PhaseInv'
  BY <1>1 DEF AcquireLock, Goto, SessionTypes, MainType, TestType, PhaseInv
<1>2. ASSUME Preflight PROVE PhaseInv'
  <2>1. /\ main.pc = "preflight" /\ main'.pc \in {"processes", "abort"}
        /\ main'.interrupted = main.interrupted /\ main'.sigint = main.sigint
        /\ main'.raised = main.raised
    BY <1>2 DEF Preflight, Goto, SessionTypes, MainType
  <2>2. test'.stopped = test.stopped /\ test'.pool = test.pool /\ test'.report = test.report
    BY <1>2 DEF Preflight, SessionTypes, TestType
  <2> QED BY <1>2, <2>1, <2>2 DEF Preflight, PhaseInv
<1>3. ASSUME StartPool PROVE PhaseInv'
  BY <1>3 DEF StartPool, Goto, SessionTypes, MainType, TestType, PhaseInv
<1>4. ASSUME LogcatReady PROVE PhaseInv'
  <2>1. /\ main.pc = "ready" /\ main'.pc \in {"observe", "abort"}
        /\ main'.interrupted = main.interrupted /\ main'.sigint = main.sigint
        /\ main'.raised = main.raised
    BY <1>4 DEF LogcatReady, Goto, SessionTypes, MainType
  <2>2. /\ test'.stopped = test.stopped /\ test'.report = test.report
        /\ test'.pool = test.pool \/ test'.pool = "closed"
    BY <1>4 DEF LogcatReady, SessionTypes, TestType
  <2> QED BY <1>4, <2>1, <2>2 DEF LogcatReady, PhaseInv
<1>5. ASSUME Observe PROVE PhaseInv'
  <2>1. /\ main.pc = "observe" /\ main'.pc = "workload"
        /\ main'.interrupted = main.interrupted /\ beat'.at = "waiting"
        /\ main'.raised = main.raised /\ main'.sigint = main.sigint
    BY <1>5 DEF Observe, Goto, SessionTypes, MainType, BeatType
  <2> QED BY <1>5, <2>1 DEF Observe, PhaseInv
<1>6. ASSUME AbortReport PROVE PhaseInv'
  BY <1>6 DEF AbortReport, Goto, Reports, SessionTypes, MainType, TestType, PhaseInv
<1>7. ASSUME BeginWorkload PROVE PhaseInv'
  <2>1. /\ main.pc = "workload" /\ main'.pc \in {"wait", "finally"}
        /\ main'.interrupted = main.interrupted /\ main'.sigint = main.sigint
        /\ main'.pc = "wait" => main'.raised = main.raised
    BY <1>7 DEF BeginWorkload, Goto, SessionTypes, MainType
  <2> QED BY <1>7, <2>1 DEF BeginWorkload, PhaseInv
<1>8. ASSUME WaitEnds PROVE PhaseInv'
  BY <1>8 DEF WaitEnds, Goto, PhaseInv
<1>9. ASSUME EndWorkload PROVE PhaseInv'
  BY <1>9 DEF EndWorkload, Goto, SessionTypes, MainType, PhaseInv
<1>10. ASSUME Finally PROVE PhaseInv'
  <2>1. /\ main.pc = "finally" /\ main'.pc \in {"exited", "after", "stopping"}
        /\ main'.interrupted = main.interrupted /\ main'.sigint = main.sigint
        /\ main'.raised = main.raised
        /\ main'.pc # "stopping" => UNCHANGED <<test, stopAt>>
    BY <1>10 DEF Finally, Goto, Exit, SessionTypes, MainType
  <2>2. test'.pool = test.pool /\ \A d \in Dashboards : stopAt'[d] = stopAt[d]
    BY <1>10 DEF Finally, SessionTypes, TestType, StopAtType
  <2> QED BY <1>10, <2>1, <2>2 DEF Finally, PhaseInv
<1>11. ASSUME Stopped PROVE PhaseInv'
  BY <1>11 DEF Stopped, Exit, Goto, SessionTypes, MainType, PhaseInv
<1>12. ASSUME Leave PROVE PhaseInv'
  BY <1>12 DEF Leave, Exit, PhaseInv
<1>13. ASSUME LeaveWorkloadFailed PROVE PhaseInv'
  <2>1. /\ main.pc = "after" /\ main'.pc = "exited"
        /\ main'.interrupted = main.interrupted /\ main'.sigint = main.sigint
    BY <1>13 DEF LeaveWorkloadFailed, Exit, SessionTypes, MainType
  <2>2. test'.pool = test.pool  BY <1>13 DEF LeaveWorkloadFailed, SessionTypes, TestType
  <2> QED BY <1>13, <2>1, <2>2 DEF LeaveWorkloadFailed, PhaseInv
<1>14. ASSUME Interrupt PROVE PhaseInv'
  <2> USE DEF InterruptRun, InterruptAbort, InterruptStop, InterruptAfter, InterruptTo
  <2>1. /\ main'.pc \in {"finally", "endWorkload", "stopping", "exited"}
        /\ main'.pc = "finally" => main.pc \in Before \cup {"release", "workload", "endWorkload"}
        /\ main'.pc = "endWorkload" => main.pc = "wait"
        /\ main'.pc = "stopping" => main.pc = "stopping"
        /\ main'.pc \in {"finally", "endWorkload"} => stopAt' = stopAt /\ main'.interrupted
        /\ main'.sigint => main.sigint \/ main'.interrupted \/ main'.pc \in {"stopping", "exited"}
        /\ main.interrupted => main'.interrupted
        /\ main'.raised = main.raised
    BY <1>14 DEF Interrupt, Exit, SessionTypes, MainType
  <2>2. test'.pool = test.pool /\ \A d \in Dashboards : stopAt'[d] = stopAt[d]
    BY <1>14 DEF Interrupt, SessionTypes, TestType, StopAtType
  <2>3. ctrlC' > 0 /\ UNCHANGED <<beat, work>>  BY <1>14 DEF Interrupt, SessionTypes
  <2> QED BY <2>1, <2>2, <2>3 DEF PhaseInv
<1>15. ASSUME FailFast PROVE PhaseInv'
  BY <1>15 DEF FailFast, Running, PhaseInv
<1>16. ASSUME CommandEnds PROVE PhaseInv'
  BY <1>16 DEF CommandEnds, WorkloadOver, PhaseInv
<1>17. ASSUME MonkeyEnds PROVE PhaseInv'
  BY <1>17 DEF MonkeyEnds, WorkloadOver, PhaseInv
<1>18. ASSUME LaunchEnds PROVE PhaseInv'
  BY <1>18 DEF LaunchEnds, WorkloadOver, PhaseInv
<1>19. ASSUME WorkloadStopped PROVE PhaseInv'
  BY <1>19 DEF WorkloadStopped, Running, PhaseInv
<1>20. ASSUME BeatWaits PROVE PhaseInv'
  BY <1>20 DEF BeatWaits, Running, SessionTypes, BeatType, PhaseInv
<1>21. ASSUME BeatWrites PROVE PhaseInv'
  BY <1>21 DEF BeatWrites, Running, PhaseInv
<1>22. ASSUME NEW d \in Dashboards, PostStop(d) PROVE PhaseInv'
  BY <1>22 DEF PostStop, Running, PhaseInv
<1>23. ASSUME NEW t \in Stoppers, StopCheck(t) PROVE PhaseInv'
  BY <1>23 DEF StopCheck, StopperGoto, PhaseInv
<1>24. ASSUME NEW t \in Stoppers, StopSet(t) PROVE PhaseInv'
  BY <1>24 DEF StopSet, StopperGoto, PhaseInv
<1>25. ASSUME NEW t \in Stoppers, StopLive(t) PROVE PhaseInv'
  BY <1>25 DEF StopLive, StopperGoto, PhaseInv
<1>26. ASSUME NEW t \in Stoppers, StopJoinBeat(t) PROVE PhaseInv'
  BY <1>26 DEF StopJoinBeat, StopperGoto, PhaseInv
<1>27. ASSUME NEW t \in Stoppers, StopPool(t) PROVE PhaseInv'
  BY <1>27 DEF StopPool, StopperGoto, PhaseInv
<1>28. ASSUME NEW t \in Stoppers, StopReport(t) PROVE PhaseInv'
  BY <1>28 DEF StopReport, StopperGoto, PhaseInv
<1>29. ASSUME NEW t \in Stoppers, StopRelease(t) PROVE PhaseInv'
  BY <1>29 DEF StopRelease, StopperGoto, PhaseInv
<1>30. CASE UNCHANGED sessionVars  BY <1>30 DEF sessionVars, PhaseInv
<1>31. ASSUME AbortRelease PROVE PhaseInv'
  BY <1>31 DEF AbortRelease, Exit, SetupCode, SessionTypes, MainType, TestType, PhaseInv
<1>32. ASSUME StartRaises PROVE PhaseInv'
  <2>1. /\ main.pc \in {"lock", "preflight", "processes", "ready", "observe"}
        /\ main'.pc = "finally" /\ main'.raised
        /\ main'.interrupted = main.interrupted /\ main'.sigint = main.sigint
    BY <1>32 DEF StartRaises, SessionTypes, MainType
  <2>2. /\ test'.pool = test.pool \/ test'.pool = "running"
        /\ UNCHANGED <<stopAt, work, ctrlC>>
        /\ \/ beat' = beat
           \/ beat'.at = "waiting" /\ main.pc = "observe"
    BY <1>32 DEF StartRaises, SessionTypes, TestType, BeatType
  <2> QED BY <2>1, <2>2 DEF PhaseInv
<1>33. ASSUME NEW t \in Stoppers, StopRaises(t) PROVE PhaseInv'
  BY <1>33 DEF StopRaises, StopperGoto, Running, SessionTypes, TestType, StopAtType,
     PhaseInv
<1>34. ASSUME NEW t \in Stoppers, StopReportRaises(t) PROVE PhaseInv'
  BY <1>34 DEF StopReportRaises, Running, SessionTypes, MainType, TestType, StopAtType,
     PhaseInv
<1> QED
  BY <1>1, <1>2, <1>3, <1>4, <1>5, <1>6, <1>7, <1>8, <1>9, <1>10, <1>11, <1>12, <1>13,
     <1>14,
     <1>15, <1>16, <1>17, <1>18, <1>19, <1>20, <1>21, <1>22, <1>23, <1>24, <1>25, <1>26,
     <1>27, <1>28, <1>29, <1>30, <1>31, <1>32, <1>33, <1>34
  DEF SessionNext, Main, StopStep, Stoppers

\* A run whose stop() or _abort began either has its report and a free lock, or
\* somebody is in there still, or building the report raised, or a Ctrl-C came
\* into _abort; without either, a Ctrl-C took main out of everything.
Complete == test.report # NotBuilt /\ test.lock # "ours"
StoppedInv ==
    /\ \A t \in Stoppers : stopAt[t] \in InStop \cup {"done"} => test.stopped
    /\ \A t \in Stoppers : stopAt[t] = "release" => test.report # NotBuilt
    /\ test.stopped =>
          \/ Complete \/ "report" \in test.failed
          \/ \E t \in Stoppers : stopAt[t] \in InStop
          \/ main.pc = "release"
          \/ main.sigint /\ stopAt["main"] = "idle"
    /\ main.pc = "release" =>
          test.stopped /\ (test.report # NotBuilt \/ "report" \in test.failed)
    /\ main.pc = "after" => test.stopped /\ ~ main.raised /\ stopAt["main"] \in {"idle", "done"}
    /\ Exited /\ stopAt["main"] \notin {"idle", "done"} => main.sigint
    /\ Exited /\ ~ test.stopped => main.sigint /\ stopAt["main"] \in {"idle", "check", "set"}

\* What is in a report was built.
LEMMA ReportIsBuilt ==
    ASSUME SessionTypes, NEW reason \in ExitReasons, NEW verdicts \in SUBSET AnyVerdict,
           NEW r \in Reports(reason, verdicts)
    PROVE  r # NotBuilt
<1>1. r.verdict \in AnyVerdict  BY ReportsTyped
<1> QED BY <1>1 DEF NotBuilt, AnyVerdict

LEMMA StoppedStep ==
    ASSUME SessionAssumption, SessionTypes, PhaseInv, StoppedInv, [SessionNext]_sessionVars
    PROVE  StoppedInv'
<1> USE DEF Before, InStop, Stoppers, SessionAssumption, Exited, Complete
<1>1. ASSUME AcquireLock PROVE StoppedInv'
  BY <1>1 DEF AcquireLock, Goto, SessionTypes, MainType, TestType, PhaseInv, StoppedInv
<1>2. ASSUME Preflight PROVE StoppedInv'
  BY <1>2 DEF Preflight, Goto, SessionTypes, MainType, TestType, StoppedInv
<1>3. ASSUME StartPool PROVE StoppedInv'
  BY <1>3 DEF StartPool, Goto, SessionTypes, MainType, TestType, StoppedInv
<1>4. ASSUME LogcatReady PROVE StoppedInv'
  BY <1>4 DEF LogcatReady, Goto, SessionTypes, MainType, TestType, PhaseInv, StoppedInv
<1>5. ASSUME Observe PROVE StoppedInv'
  BY <1>5 DEF Observe, Goto, StoppedInv
<1>6. ASSUME AbortReport PROVE StoppedInv'
  <2>1. test.reason \in ExitReasons  BY DEF SessionTypes, TestType
  <2>2. {"inconclusive"} \subseteq AnyVerdict  BY DEF AnyVerdict
  <2>3. \A r \in Reports(test.reason, {"inconclusive"}) : r # NotBuilt
    BY <2>1, <2>2, ReportIsBuilt
  <2>4. /\ test'.stopped
        /\ test'.report # NotBuilt \/ "report" \in test'.failed
    <3>1. CASE \E r \in Reports(test.reason, {"inconclusive"}) :
                  test' = [test EXCEPT !.stopped = TRUE, !.report = r]
      BY <2>3, <3>1 DEF SessionTypes, TestType
    <3>2. CASE test' = [test EXCEPT !.stopped = TRUE, !.failed = @ \cup {"report"}]
      BY <3>2 DEF SessionTypes, TestType
    <3> QED BY <1>6, <3>1, <3>2 DEF AbortReport
  <2>5. main.pc = "abort" /\ main'.pc = "release" /\ stopAt' = stopAt
    BY <1>6 DEF AbortReport, Goto, SessionTypes, MainType
  <2> QED BY <2>4, <2>5 DEF PhaseInv, StoppedInv
<1>7. ASSUME BeginWorkload PROVE StoppedInv'
  BY <1>7 DEF BeginWorkload, Goto, SessionTypes, MainType, WorkType, PhaseInv, StoppedInv
<1>8. ASSUME WaitEnds PROVE StoppedInv'
  BY <1>8 DEF WaitEnds, Goto, StoppedInv
<1>9. ASSUME EndWorkload PROVE StoppedInv'
  BY <1>9 DEF EndWorkload, Goto, SessionTypes, MainType, StoppedInv
<1>10. ASSUME Finally PROVE StoppedInv'
  <2>1. /\ main.pc = "finally" /\ main'.raised = main.raised /\ main'.sigint = main.sigint
        /\ \/ test.stopped /\ UNCHANGED <<test, stopAt>> /\ main'.pc = "exited" /\ main.raised
           \/ test.stopped /\ UNCHANGED <<test, stopAt>> /\ main'.pc = "after" /\ ~ main.raised
           \/ ~ test.stopped /\ main'.pc = "stopping"
              /\ stopAt' = [stopAt EXCEPT !["main"] = "check"]
    BY <1>10 DEF Finally, Goto, Exit, SessionTypes, MainType
  <2>2. /\ test'.stopped = test.stopped /\ test'.report = test.report
        /\ test'.lock = test.lock /\ test'.failed = test.failed
    BY <1>10 DEF Finally, SessionTypes, TestType
  <2> QED BY <2>1, <2>2 DEF PhaseInv, StoppedInv, SessionTypes, StopAtType
<1>11. ASSUME Stopped PROVE StoppedInv'
  BY <1>11 DEF Stopped, Exit, Goto, SessionTypes, MainType, PhaseInv, StoppedInv
<1>12. ASSUME Leave PROVE StoppedInv'
  <2>1. main.pc = "after" /\ main'.pc = "exited" /\ main'.sigint = main.sigint
    BY <1>12 DEF Leave, Exit, SessionTypes, MainType
  <2>2. UNCHANGED <<test, stopAt>>  BY <1>12 DEF Leave
  <2> QED BY <2>1, <2>2 DEF StoppedInv
<1>13. ASSUME LeaveWorkloadFailed PROVE StoppedInv'
  <2>1. main.pc = "after" /\ main'.pc = "exited" /\ main'.sigint = main.sigint
    BY <1>13 DEF LeaveWorkloadFailed, Exit, SessionTypes, MainType
  <2>2. "workload_failed" \in ExitReasons  BY DEF ExitReasons
  <2>3. \A r \in Reports("workload_failed", AnyVerdict) : r # NotBuilt
    BY <2>2, ReportIsBuilt
  <2>4. /\ test'.stopped = test.stopped /\ test'.lock = test.lock
        /\ \/ test'.report # NotBuilt /\ test'.failed = test.failed
           \/ test'.report = test.report /\ "report" \in test'.failed
    <3>1. CASE \E r \in Reports("workload_failed", AnyVerdict) :
                  test' = [test EXCEPT !.reason = "workload_failed", !.report = r]
      BY <2>3, <3>1 DEF SessionTypes, TestType
    <3>2. CASE test' = [test EXCEPT !.reason = "workload_failed", !.failed = @ \cup {"report"}]
      BY <3>2 DEF SessionTypes, TestType
    <3> QED BY <1>13, <3>1, <3>2 DEF LeaveWorkloadFailed
  <2>5. stopAt' = stopAt  BY <1>13 DEF LeaveWorkloadFailed
  <2> QED BY <2>1, <2>4, <2>5 DEF StoppedInv
<1>14. ASSUME Interrupt PROVE StoppedInv'
  <2>1. ASSUME InterruptRun PROVE StoppedInv'
    <3>1. /\ main'.pc \in {"finally", "endWorkload"} /\ main'.sigint = main.sigint
          /\ main'.raised = main.raised /\ main.pc # "release" /\ stopAt' = stopAt
      BY <2>1 DEF InterruptRun, InterruptTo, SessionTypes, MainType
    <3>2. /\ test'.stopped = test.stopped /\ test'.report = test.report
          /\ test'.lock = test.lock /\ test'.failed = test.failed
      BY <2>1 DEF InterruptRun, SessionTypes, TestType
    <3> QED BY <3>1, <3>2 DEF StoppedInv
  <2>2. ASSUME InterruptAbort PROVE StoppedInv'
    <3>1. main'.pc = "finally" /\ main'.sigint /\ stopAt' = stopAt
          /\ main.pc \in {"abort", "release"}
      BY <2>2 DEF InterruptAbort, SessionTypes, MainType
    <3>2. test'.stopped /\ test'.report = test.report
      BY <2>2 DEF InterruptAbort, SessionTypes, TestType
    <3> QED BY <3>1, <3>2 DEF StoppedInv, PhaseInv
  <2>3. ASSUME InterruptStop PROVE StoppedInv'
    <3>1. test' = test /\ main'.sigint /\ main'.raised = main.raised
      BY <2>3 DEF InterruptStop, SessionTypes, MainType
    <3>2. \/ /\ main.pc = "stopping" /\ main'.pc = "stopping"
             /\ stopAt["main"] \in {"live", "join", "pool"}
             /\ stopAt' = [stopAt EXCEPT !["main"] = "report"]
          \/ /\ main.pc \in {"stopping", "finally"} /\ main'.pc = "exited" /\ stopAt' = stopAt
             /\ main.pc = "stopping" => stopAt["main"] \notin {"live", "join", "pool"}
      BY <2>3 DEF InterruptStop, SessionTypes, MainType
    <3>3. stopAt["main"] \in InStop \cup {"idle", "check", "set", "done"}
      BY DEF SessionTypes, StopAtType
    <3> QED BY <3>1, <3>2, <3>3 DEF StoppedInv, PhaseInv, SessionTypes, StopAtType
  <2>4. ASSUME InterruptAfter PROVE StoppedInv'
    <3>1. main.pc = "after" /\ main'.pc = "exited" /\ main'.sigint = main.sigint
          /\ UNCHANGED <<test, stopAt>>
      BY <2>4 DEF InterruptAfter, Exit, SessionTypes, MainType
    <3> QED BY <3>1 DEF StoppedInv
  <2> QED BY <1>14, <2>1, <2>2, <2>3, <2>4 DEF Interrupt
<1>15. ASSUME FailFast PROVE StoppedInv'
  BY <1>15 DEF FailFast, Running, StoppedInv
<1>16. ASSUME CommandEnds PROVE StoppedInv'
  BY <1>16 DEF CommandEnds, WorkloadOver, StoppedInv
<1>17. ASSUME MonkeyEnds PROVE StoppedInv'
  BY <1>17 DEF MonkeyEnds, WorkloadOver, StoppedInv
<1>18. ASSUME LaunchEnds PROVE StoppedInv'
  BY <1>18 DEF LaunchEnds, WorkloadOver, StoppedInv
<1>19. ASSUME WorkloadStopped PROVE StoppedInv'
  BY <1>19 DEF WorkloadStopped, Running, StoppedInv
<1>20. ASSUME BeatWaits PROVE StoppedInv'
  BY <1>20 DEF BeatWaits, Running, StoppedInv
<1>21. ASSUME BeatWrites PROVE StoppedInv'
  BY <1>21 DEF BeatWrites, Running, StoppedInv
<1>22. ASSUME NEW d \in Dashboards, PostStop(d) PROVE StoppedInv'
  BY <1>22 DEF PostStop, Running, StoppedInv
<1>23. ASSUME NEW t \in Stoppers, StopCheck(t) PROVE StoppedInv'
  BY <1>23 DEF StopCheck, StopperGoto, StoppedInv
<1>24. ASSUME NEW t \in Stoppers, StopSet(t) PROVE StoppedInv'
  BY <1>24 DEF StopSet, StopperGoto, SessionTypes, StopAtType, StoppedInv
<1>25. ASSUME NEW t \in Stoppers, StopLive(t) PROVE StoppedInv'
  BY <1>25 DEF StopLive, StopperGoto, StoppedInv
<1>26. ASSUME NEW t \in Stoppers, StopJoinBeat(t) PROVE StoppedInv'
  BY <1>26 DEF StopJoinBeat, StopperGoto, StoppedInv
<1>27. ASSUME NEW t \in Stoppers, StopPool(t) PROVE StoppedInv'
  BY <1>27 DEF StopPool, StopperGoto, StoppedInv
<1>28. ASSUME NEW t \in Stoppers, StopReport(t) PROVE StoppedInv'
  <2>1. test.reason \in ExitReasons  BY DEF SessionTypes, TestType
  <2>2. PICK r \in Reports(test.reason, AnyVerdict) : test' = [test EXCEPT !.report = r]
    BY <1>28 DEF StopReport
  <2>3. r # NotBuilt  BY <2>1, ReportIsBuilt
  <2>4. test'.stopped = test.stopped /\ test'.report = r /\ test'.lock = test.lock
    BY <2>2 DEF SessionTypes
  <2>5. stopAt[t] = "report" /\ stopAt' = [stopAt EXCEPT ![t] = "release"] /\ main' = main
        /\ main.pc # "exited"
    BY <1>28 DEF StopReport, StopperGoto, Running
  <2> QED BY <2>3, <2>4, <2>5 DEF StoppedInv, SessionTypes
<1>29. ASSUME NEW t \in Stoppers, StopRelease(t) PROVE StoppedInv'
  BY <1>29 DEF StopRelease, StopperGoto, StoppedInv
<1>30. CASE UNCHANGED sessionVars  BY <1>30 DEF sessionVars, PhaseInv, StoppedInv
<1>31. ASSUME AbortRelease PROVE StoppedInv'
  <2>1. main.pc = "release" /\ main'.pc = "exited" /\ stopAt' = stopAt
    BY <1>31 DEF AbortRelease, Exit, SessionTypes, MainType
  <2>2. /\ test'.stopped = test.stopped /\ test'.report = test.report
        /\ test'.lock # "ours" /\ test'.failed = test.failed
    BY <1>31 DEF AbortRelease, SessionTypes, TestType
  <2> QED BY <2>1, <2>2 DEF PhaseInv, StoppedInv
<1>32. ASSUME StartRaises PROVE StoppedInv'
  <2>1. main.pc \in Before /\ main'.pc = "finally" /\ stopAt' = stopAt
    BY <1>32 DEF StartRaises, SessionTypes, MainType
  <2>2. test'.stopped = test.stopped /\ test'.report = test.report
    BY <1>32 DEF StartRaises, SessionTypes, TestType
  <2> QED BY <2>1, <2>2 DEF PhaseInv, StoppedInv
<1>33. ASSUME NEW t \in Stoppers, StopRaises(t) PROVE StoppedInv'
  <2>1. /\ test'.stopped = test.stopped /\ test'.report = test.report
        /\ test'.lock = test.lock /\ test.failed \subseteq test'.failed
    BY <1>33 DEF StopRaises, SessionTypes, TestType
  <2>2. stopAt[t] \in InStop /\ stopAt' = [stopAt EXCEPT ![t] = "report"] /\ main' = main
        /\ main.pc # "exited"
    BY <1>33 DEF StopRaises, StopperGoto, Running
  <2> QED BY <2>1, <2>2 DEF StoppedInv, SessionTypes, StopAtType
<1>34. ASSUME NEW t \in Stoppers, StopReportRaises(t) PROVE StoppedInv'
  <2>1. /\ test'.stopped = test.stopped /\ test'.report = test.report
        /\ "report" \in test'.failed
    BY <1>34 DEF StopReportRaises, SessionTypes, TestType
  <2>2. stopAt[t] = "report" /\ stopAt' = [stopAt EXCEPT ![t] = "done"]
        /\ main'.pc = main.pc /\ main'.raised = main.raised /\ main.pc # "exited"
    BY <1>34 DEF StopReportRaises, Running, SessionTypes, MainType
  <2> QED BY <2>1, <2>2 DEF StoppedInv, SessionTypes, StopAtType
<1> QED
  BY <1>1, <1>2, <1>3, <1>4, <1>5, <1>6, <1>7, <1>8, <1>9, <1>10, <1>11, <1>12, <1>13,
     <1>14,
     <1>15, <1>16, <1>17, <1>18, <1>19, <1>20, <1>21, <1>22, <1>23, <1>24, <1>25, <1>26,
     <1>27, <1>28, <1>29, <1>30, <1>31, <1>32, <1>33, <1>34
  DEF SessionNext, Main, StopStep, Stoppers

\* What the report and the exit reason may say: of what main was told, of the
\* pool that was closed before, and of the workload.
ReasonInv ==
    /\ test.reason # "none"
    /\ ~ Exited => "workload_failed" \notin {test.reason, test.report.reason}
    /\ "interrupted" \in {test.reason, test.report.reason} => main.interrupted

Seen(pool) == pool = "closed" \/ "pool" \in test.failed
PoolInv ==
    /\ ~ main.interrupted /\ ~ main.raised => \A t \in Stoppers :
          stopAt[t] \in {"report", "release"} =>
             Seen(test.pool) \/ (t = "main" /\ main.sigint)
    /\ /\ ~ main.interrupted /\ ~ main.raised /\ ~ Exited
       /\ ~ (main.sigint /\ stopAt["main"] \in {"release", "done"})
       /\ test.report.verdict \in {"stable", "unstable"}
       => Seen(test.report.pool)
    /\ test.report # NotBuilt => test.report.verdict \in AnyVerdict

LEMMA ReasonStep ==
    ASSUME SessionAssumption, SessionTypes, ReasonInv, [SessionNext]_sessionVars
    PROVE  ReasonInv'
<1> USE DEF Exited
<1>1. ASSUME AcquireLock PROVE ReasonInv'
  BY <1>1 DEF AcquireLock, Goto, SessionTypes, MainType, TestType, ReasonInv
<1>2. ASSUME Preflight PROVE ReasonInv'
  BY <1>2 DEF Preflight, Goto, SessionTypes, MainType, TestType, ReasonInv
<1>3. ASSUME StartPool PROVE ReasonInv'
  BY <1>3 DEF StartPool, Goto, SessionTypes, MainType, TestType, ReasonInv
<1>4. ASSUME LogcatReady PROVE ReasonInv'
  BY <1>4 DEF LogcatReady, Goto, SessionTypes, MainType, TestType, ReasonInv
<1>5. ASSUME Observe PROVE ReasonInv'
  BY <1>5 DEF Observe, Goto, ReasonInv
<1>6. ASSUME AbortReport PROVE ReasonInv'
  BY <1>6 DEF AbortReport, Goto, Reports, SessionTypes, MainType, TestType, ReasonInv
<1>7. ASSUME BeginWorkload PROVE ReasonInv'
  BY <1>7 DEF BeginWorkload, Goto, SessionTypes, MainType, WorkType, ReasonInv
<1>8. ASSUME WaitEnds PROVE ReasonInv'
  BY <1>8 DEF WaitEnds, Goto, ReasonInv
<1>9. ASSUME EndWorkload PROVE ReasonInv'
  BY <1>9 DEF EndWorkload, Goto, SessionTypes, MainType, ReasonInv
<1>10. ASSUME Finally PROVE ReasonInv'
  <2>1. main.pc = "finally" /\ main'.interrupted = main.interrupted
    BY <1>10 DEF Finally, Goto, Exit, SessionTypes, MainType
  <2>2. /\ test'.report = test.report
        /\ test'.reason = test.reason \/ (test'.reason = "interrupted" /\ main.interrupted)
    BY <1>10 DEF Finally, SessionTypes, TestType
  <2> QED BY <2>1, <2>2 DEF ReasonInv
<1>11. ASSUME Stopped PROVE ReasonInv'
  BY <1>11 DEF Stopped, Exit, Goto, SessionTypes, MainType, ReasonInv
<1>12. ASSUME Leave PROVE ReasonInv'
  BY <1>12 DEF Leave, Exit, ReasonInv
<1>13. ASSUME LeaveWorkloadFailed PROVE ReasonInv'
  <2>1. main'.pc = "exited" /\ main'.interrupted = main.interrupted
    BY <1>13 DEF LeaveWorkloadFailed, Exit, SessionTypes, MainType
  <2>2. /\ test'.reason = "workload_failed"
        /\ test'.report.reason \in {"workload_failed", test.report.reason}
    <3>1. CASE \E r \in Reports("workload_failed", AnyVerdict) :
                  test' = [test EXCEPT !.reason = "workload_failed", !.report = r]
      BY <3>1, ReportsTyped DEF SessionTypes, TestType, ExitReasons
    <3>2. CASE test' = [test EXCEPT !.reason = "workload_failed", !.failed = @ \cup {"report"}]
      BY <3>2 DEF SessionTypes, TestType
    <3> QED BY <1>13, <3>1, <3>2 DEF LeaveWorkloadFailed
  <2> QED BY <2>1, <2>2 DEF ReasonInv
<1>14. ASSUME Interrupt PROVE ReasonInv'
  <2> USE DEF InterruptRun, InterruptAbort, InterruptStop, InterruptAfter, InterruptTo
  <2>1. /\ main.pc # "exited" /\ (main.interrupted => main'.interrupted)
        /\ main.pc = "wait" => main'.interrupted /\ main'.pc # "exited"
    BY <1>14 DEF Interrupt, Exit, SessionTypes, MainType
  <2>2. /\ test'.report = test.report
        /\ \/ test'.reason = test.reason
           \/ test'.reason = "interrupted" /\ main.pc = "wait"
    BY <1>14 DEF Interrupt, SessionTypes, TestType
  <2> QED BY <2>1, <2>2 DEF ReasonInv
<1>15. ASSUME FailFast PROVE ReasonInv'
  BY <1>15 DEF FailFast, Running, ReasonInv
<1>16. ASSUME CommandEnds PROVE ReasonInv'
  BY <1>16 DEF CommandEnds, WorkloadOver, ReasonInv
<1>17. ASSUME MonkeyEnds PROVE ReasonInv'
  BY <1>17 DEF MonkeyEnds, WorkloadOver, ReasonInv
<1>18. ASSUME LaunchEnds PROVE ReasonInv'
  BY <1>18 DEF LaunchEnds, WorkloadOver, ReasonInv
<1>19. ASSUME WorkloadStopped PROVE ReasonInv'
  BY <1>19 DEF WorkloadStopped, Running, ReasonInv
<1>20. ASSUME BeatWaits PROVE ReasonInv'
  BY <1>20 DEF BeatWaits, Running, ReasonInv
<1>21. ASSUME BeatWrites PROVE ReasonInv'
  BY <1>21 DEF BeatWrites, Running, ReasonInv
<1>22. ASSUME NEW d \in Dashboards, PostStop(d) PROVE ReasonInv'
  BY <1>22 DEF PostStop, Running, ReasonInv
<1>23. ASSUME NEW t \in Stoppers, StopCheck(t) PROVE ReasonInv'
  BY <1>23 DEF StopCheck, StopperGoto, ReasonInv
<1>24. ASSUME NEW t \in Stoppers, StopSet(t) PROVE ReasonInv'
  BY <1>24 DEF StopSet, StopperGoto, ReasonInv
<1>25. ASSUME NEW t \in Stoppers, StopLive(t) PROVE ReasonInv'
  BY <1>25 DEF StopLive, StopperGoto, ReasonInv
<1>26. ASSUME NEW t \in Stoppers, StopJoinBeat(t) PROVE ReasonInv'
  BY <1>26 DEF StopJoinBeat, StopperGoto, ReasonInv
<1>27. ASSUME NEW t \in Stoppers, StopPool(t) PROVE ReasonInv'
  BY <1>27 DEF StopPool, StopperGoto, ReasonInv
<1>28. ASSUME NEW t \in Stoppers, StopReport(t) PROVE ReasonInv'
  BY <1>28 DEF StopReport, StopperGoto, Reports, ReasonInv
<1>29. ASSUME NEW t \in Stoppers, StopRelease(t) PROVE ReasonInv'
  BY <1>29 DEF StopRelease, StopperGoto, ReasonInv
<1>30. CASE UNCHANGED sessionVars  BY <1>30 DEF sessionVars, ReasonInv
<1>31. ASSUME AbortRelease PROVE ReasonInv'
  BY <1>31 DEF AbortRelease, Exit, SessionTypes, MainType, TestType, ReasonInv
<1>32. ASSUME StartRaises PROVE ReasonInv'
  BY <1>32 DEF StartRaises, SessionTypes, MainType, TestType, ReasonInv
<1>33. ASSUME NEW t \in Stoppers, StopRaises(t) PROVE ReasonInv'
  BY <1>33 DEF StopRaises, StopperGoto, SessionTypes, TestType, ReasonInv
<1>34. ASSUME NEW t \in Stoppers, StopReportRaises(t) PROVE ReasonInv'
  BY <1>34 DEF StopReportRaises, SessionTypes, MainType, TestType, ReasonInv
<1> QED
  BY <1>1, <1>2, <1>3, <1>4, <1>5, <1>6, <1>7, <1>8, <1>9, <1>10, <1>11, <1>12, <1>13,
     <1>14,
     <1>15, <1>16, <1>17, <1>18, <1>19, <1>20, <1>21, <1>22, <1>23, <1>24, <1>25, <1>26,
     <1>27, <1>28, <1>29, <1>30, <1>31, <1>32, <1>33, <1>34
  DEF SessionNext, Main, StopStep, Stoppers

LEMMA PoolStep ==
    ASSUME SessionAssumption, SessionTypes, PhaseInv, PoolInv, [SessionNext]_sessionVars
    PROVE  PoolInv'
<1> USE DEF Exited, Stoppers, SessionAssumption, Before, Seen
<1>1. ASSUME AcquireLock PROVE PoolInv'
  BY <1>1 DEF AcquireLock, Goto, SessionTypes, TestType, PhaseInv, PoolInv
<1>2. ASSUME Preflight PROVE PoolInv'
  BY <1>2 DEF Preflight, Goto, SessionTypes, TestType, PhaseInv, PoolInv
<1>3. ASSUME StartPool PROVE PoolInv'
  BY <1>3 DEF StartPool, Goto, SessionTypes, TestType, PhaseInv, PoolInv
<1>4. ASSUME LogcatReady PROVE PoolInv'
  BY <1>4 DEF LogcatReady, Goto, SessionTypes, MainType, TestType, PhaseInv, PoolInv
<1>5. ASSUME Observe PROVE PoolInv'
  BY <1>5 DEF Observe, Goto, PoolInv
<1>6. ASSUME AbortReport PROVE PoolInv'
  <2>1. main.pc = "abort" /\ main'.pc = "release" /\ stopAt' = stopAt
        /\ main'.interrupted = main.interrupted /\ main'.raised = main.raised
        /\ main'.sigint = main.sigint
    BY <1>6 DEF AbortReport, Goto, SessionTypes, MainType
  <2>2. {"inconclusive"} \subseteq AnyVerdict /\ test.reason \in ExitReasons
    BY DEF AnyVerdict, SessionTypes, TestType
  <2>3. /\ test'.pool = test.pool /\ test.failed \subseteq test'.failed
        /\ test'.report.verdict = "inconclusive" \/ test'.report = test.report
    <3>1. CASE \E r \in Reports(test.reason, {"inconclusive"}) :
                  test' = [test EXCEPT !.stopped = TRUE, !.report = r]
      BY <2>2, <3>1, ReportsTyped DEF SessionTypes, TestType
    <3>2. CASE test' = [test EXCEPT !.stopped = TRUE, !.failed = @ \cup {"report"}]
      BY <3>2 DEF SessionTypes, TestType
    <3> QED BY <1>6, <3>1, <3>2 DEF AbortReport
  <2> QED BY <2>1, <2>2, <2>3 DEF PoolInv
<1>7. ASSUME BeginWorkload PROVE PoolInv'
  <2>1. main'.interrupted = main.interrupted /\ (main.raised => main'.raised)
        /\ main'.sigint = main.sigint /\ main.pc # "exited"
    BY <1>7 DEF BeginWorkload, Goto, SessionTypes, MainType
  <2> QED BY <1>7, <2>1 DEF BeginWorkload, PoolInv
<1>8. ASSUME WaitEnds PROVE PoolInv'
  BY <1>8 DEF WaitEnds, Goto, PoolInv
<1>9. ASSUME EndWorkload PROVE PoolInv'
  BY <1>9 DEF EndWorkload, Goto, SessionTypes, MainType, PoolInv
<1>10. ASSUME Finally PROVE PoolInv'
  <2>1. /\ main.pc = "finally" /\ main'.interrupted = main.interrupted
        /\ main'.raised = main.raised /\ main'.sigint = main.sigint
        /\ \/ UNCHANGED stopAt
           \/ stopAt' = [stopAt EXCEPT !["main"] = "check"]
    BY <1>10 DEF Finally, Goto, Exit, SessionTypes, MainType
  <2>2. test'.pool = test.pool /\ test'.report = test.report /\ test'.failed = test.failed
    BY <1>10 DEF Finally, SessionTypes, TestType
  <2>3. stopAt["main"] = "idle"  BY <2>1 DEF PhaseInv
  <2> QED BY <2>1, <2>2, <2>3 DEF PoolInv, SessionTypes, StopAtType
<1>11. ASSUME Stopped PROVE PoolInv'
  <2>1. main.pc = "stopping" /\ main'.interrupted = main.interrupted
        /\ main'.raised = main.raised /\ main'.sigint = main.sigint
    BY <1>11 DEF Stopped, Exit, Goto, SessionTypes, MainType
  <2>2. UNCHANGED test /\ UNCHANGED stopAt  BY <1>11 DEF Stopped
  <2> QED BY <2>1, <2>2 DEF PoolInv
<1>12. ASSUME Leave PROVE PoolInv'
  <2>1. main.pc = "after" /\ main'.interrupted = main.interrupted
        /\ main'.raised = main.raised /\ main'.sigint = main.sigint
    BY <1>12 DEF Leave, Exit, SessionTypes, MainType
  <2>2. UNCHANGED test /\ UNCHANGED stopAt  BY <1>12 DEF Leave
  <2> QED BY <2>1, <2>2 DEF PoolInv
<1>13. ASSUME LeaveWorkloadFailed PROVE PoolInv'
  <2>1. /\ main'.pc = "exited" /\ main'.interrupted = main.interrupted
        /\ main'.raised = main.raised /\ main'.sigint = main.sigint /\ stopAt' = stopAt
    BY <1>13 DEF LeaveWorkloadFailed, Exit, SessionTypes, MainType
  <2>2. /\ test'.pool = test.pool /\ test.failed \subseteq test'.failed
        /\ test'.report.verdict \in AnyVerdict \/ test'.report = test.report
    <3>1. CASE \E r \in Reports("workload_failed", AnyVerdict) :
                  test' = [test EXCEPT !.reason = "workload_failed", !.report = r]
      BY <3>1, ReportsTyped DEF SessionTypes, TestType, ExitReasons
    <3>2. CASE test' = [test EXCEPT !.reason = "workload_failed", !.failed = @ \cup {"report"}]
      BY <3>2 DEF SessionTypes, TestType
    <3> QED BY <1>13, <3>1, <3>2 DEF LeaveWorkloadFailed
  <2> QED BY <2>1, <2>2 DEF PoolInv
<1>14. ASSUME Interrupt PROVE PoolInv'
  <2> USE DEF InterruptRun, InterruptAbort, InterruptStop, InterruptAfter, InterruptTo
  <2>1. /\ main.pc # "exited" /\ (main.interrupted => main'.interrupted)
        /\ main'.raised = main.raised /\ (main.sigint => main'.sigint)
        /\ \/ stopAt' = stopAt
           \/ stopAt' = [stopAt EXCEPT !["main"] = "report"] /\ main'.sigint
              /\ stopAt["main"] \in {"live", "join", "pool"}
    BY <1>14 DEF Interrupt, Exit, SessionTypes, MainType
  <2>2. test'.pool = test.pool /\ test'.report = test.report /\ test'.failed = test.failed
    BY <1>14 DEF Interrupt, SessionTypes, TestType
  <2> QED BY <2>1, <2>2 DEF PoolInv, SessionTypes, StopAtType
<1>15. ASSUME FailFast PROVE PoolInv'
  BY <1>15 DEF FailFast, Running, PoolInv
<1>16. ASSUME CommandEnds PROVE PoolInv'
  BY <1>16 DEF CommandEnds, WorkloadOver, PoolInv
<1>17. ASSUME MonkeyEnds PROVE PoolInv'
  BY <1>17 DEF MonkeyEnds, WorkloadOver, PoolInv
<1>18. ASSUME LaunchEnds PROVE PoolInv'
  BY <1>18 DEF LaunchEnds, WorkloadOver, PoolInv
<1>19. ASSUME WorkloadStopped PROVE PoolInv'
  BY <1>19 DEF WorkloadStopped, Running, PoolInv
<1>20. ASSUME BeatWaits PROVE PoolInv'
  BY <1>20 DEF BeatWaits, Running, PoolInv
<1>21. ASSUME BeatWrites PROVE PoolInv'
  BY <1>21 DEF BeatWrites, Running, PoolInv
<1>22. ASSUME NEW d \in Dashboards, PostStop(d) PROVE PoolInv'
  BY <1>22 DEF PostStop, Running, PoolInv
<1>23. ASSUME NEW t \in Stoppers, StopCheck(t) PROVE PoolInv'
  BY <1>23 DEF StopCheck, StopperGoto, PoolInv
<1>24. ASSUME NEW t \in Stoppers, StopSet(t) PROVE PoolInv'
  BY <1>24 DEF StopSet, StopperGoto, PoolInv
<1>25. ASSUME NEW t \in Stoppers, StopLive(t) PROVE PoolInv'
  BY <1>25 DEF StopLive, StopperGoto, PoolInv
<1>26. ASSUME NEW t \in Stoppers, StopJoinBeat(t) PROVE PoolInv'
  BY <1>26 DEF StopJoinBeat, StopperGoto, PoolInv
<1>27. ASSUME NEW t \in Stoppers, StopPool(t) PROVE PoolInv'
  BY <1>27 DEF StopPool, StopperGoto, Running, PhaseInv, PoolInv
<1>28. ASSUME NEW t \in Stoppers, StopReport(t) PROVE PoolInv'
  <2>1. test.reason \in ExitReasons  BY DEF SessionTypes, TestType
  <2>2. PICK r \in Reports(test.reason, AnyVerdict) : test' = [test EXCEPT !.report = r]
    BY <1>28 DEF StopReport
  <2>3. r.pool = test.pool /\ r.verdict \in AnyVerdict  BY <2>1, ReportsTyped
  <2>4. test'.pool = test.pool /\ test'.report = r /\ test'.failed = test.failed
    BY <2>2 DEF SessionTypes, TestType
  <2>5. /\ stopAt[t] = "report" /\ stopAt' = [stopAt EXCEPT ![t] = "release"]
        /\ main' = main
    BY <1>28 DEF StopReport, StopperGoto
  <2>6. ~ main.interrupted /\ ~ main.raised =>
           Seen(test.pool) \/ (t = "main" /\ main.sigint)
    BY <2>5 DEF PoolInv
  <2> QED BY <2>3, <2>4, <2>5, <2>6 DEF PoolInv, SessionTypes, StopAtType
<1>29. ASSUME NEW t \in Stoppers, StopRelease(t) PROVE PoolInv'
  BY <1>29 DEF StopRelease, StopperGoto, PoolInv
<1>30. CASE UNCHANGED sessionVars  BY <1>30 DEF sessionVars, PhaseInv, PoolInv
<1>31. ASSUME AbortRelease PROVE PoolInv'
  <2>1. /\ main'.pc = "exited" /\ main'.interrupted = main.interrupted
        /\ main'.raised = main.raised /\ main'.sigint = main.sigint /\ stopAt' = stopAt
    BY <1>31 DEF AbortRelease, Exit, SessionTypes, MainType
  <2>2. test'.pool = test.pool /\ test'.report = test.report /\ test'.failed = test.failed
    BY <1>31 DEF AbortRelease, SessionTypes, TestType
  <2> QED BY <2>1, <2>2 DEF PoolInv
<1>32. ASSUME StartRaises PROVE PoolInv'
  <2>1. main'.raised  BY <1>32 DEF StartRaises, SessionTypes, MainType
  <2>2. test'.report = test.report  BY <1>32 DEF StartRaises, SessionTypes, TestType
  <2> QED BY <2>1, <2>2 DEF PoolInv
<1>33. ASSUME NEW t \in Stoppers, StopRaises(t) PROVE PoolInv'
  <2>1. /\ test'.report = test.report /\ "pool" \in test'.failed
    BY <1>33 DEF StopRaises, SessionTypes, TestType
  <2> QED BY <2>1 DEF PoolInv
<1>34. ASSUME NEW t \in Stoppers, StopReportRaises(t) PROVE PoolInv'
  <2>1. /\ test'.pool = test.pool /\ test'.report = test.report
        /\ test.failed \subseteq test'.failed
    BY <1>34 DEF StopReportRaises, SessionTypes, TestType
  <2>2. /\ main'.pc = main.pc /\ main'.raised = main.raised
        /\ main'.interrupted = main.interrupted
        /\ main'.sigint = (main.sigint /\ t # "main")
    BY <1>34 DEF StopReportRaises, SessionTypes, MainType
  <2>3. stopAt[t] = "report" /\ stopAt' = [stopAt EXCEPT ![t] = "done"]
    BY <1>34 DEF StopReportRaises
  <2> QED BY <2>1, <2>2, <2>3 DEF PoolInv, SessionTypes, StopAtType
<1> QED
  BY <1>1, <1>2, <1>3, <1>4, <1>5, <1>6, <1>7, <1>8, <1>9, <1>10, <1>11, <1>12, <1>13,
     <1>14,
     <1>15, <1>16, <1>17, <1>18, <1>19, <1>20, <1>21, <1>22, <1>23, <1>24, <1>25, <1>26,
     <1>27, <1>28, <1>29, <1>30, <1>31, <1>32, <1>33, <1>34
  DEF SessionNext, Main, StopStep, Stoppers

\* The exit status tells how the run ended.
CodeInv == Exited =>
    /\ main.code = 0 => /\ test.report.verdict \in {"stable", "unstable"}
                        /\ Seen(test.report.pool)
                        /\ test.report.reason # "interrupted"
    /\ test.report.reason = "workload_failed" => main.code = 1
    /\ main.code = 130 => ctrlC > 0

LEMMA CodeStep ==
    ASSUME SessionAssumption, SessionTypes, PhaseInv, StoppedInv, ReasonInv, PoolInv, CodeInv,
           [SessionNext]_sessionVars
    PROVE  CodeInv'
<1> USE DEF Exited, Seen
<1>1. ASSUME AcquireLock PROVE CodeInv'
  BY <1>1 DEF AcquireLock, Goto, SessionTypes, MainType, CodeInv
<1>2. ASSUME Preflight PROVE CodeInv'
  BY <1>2 DEF Preflight, Goto, SessionTypes, MainType, CodeInv
<1>3. ASSUME StartPool PROVE CodeInv'
  BY <1>3 DEF StartPool, Goto, SessionTypes, MainType, CodeInv
<1>4. ASSUME LogcatReady PROVE CodeInv'
  BY <1>4 DEF LogcatReady, Goto, SessionTypes, MainType, CodeInv
<1>5. ASSUME Observe PROVE CodeInv'
  BY <1>5 DEF Observe, Goto, CodeInv
<1>6. ASSUME AbortReport PROVE CodeInv'
  BY <1>6 DEF AbortReport, Goto, SessionTypes, MainType, CodeInv
<1>7. ASSUME BeginWorkload PROVE CodeInv'
  <2>1. main.pc = "workload" /\ main'.pc \in {"wait", "finally"}
    BY <1>7 DEF BeginWorkload, Goto, SessionTypes, MainType
  <2> QED BY <2>1 DEF CodeInv
<1>8. ASSUME WaitEnds PROVE CodeInv'
  BY <1>8 DEF WaitEnds, Goto, CodeInv
<1>9. ASSUME EndWorkload PROVE CodeInv'
  BY <1>9 DEF EndWorkload, Goto, SessionTypes, MainType, CodeInv
<1>10. ASSUME Finally PROVE CodeInv'
  <2>1. \/ main'.pc # "exited"
        \/ main'.code = 1
    BY <1>10 DEF Finally, Exit, Goto, SessionTypes, MainType
  <2>2. main.pc # "exited"  BY <1>10 DEF Finally
  <2> QED BY <2>1, <2>2 DEF CodeInv
<1>11. ASSUME Stopped PROVE CodeInv'
  <2>1. \/ main'.pc # "exited"
        \/ main'.code = 1
        \/ main'.code = 130 /\ main.sigint
    BY <1>11 DEF Stopped, Exit, Goto, SessionTypes, MainType
  <2>2. main.pc # "exited" /\ test' = test /\ ctrlC' = ctrlC  BY <1>11 DEF Stopped
  <2>3. test.report.reason # "workload_failed"  BY <2>2 DEF ReasonInv
  <2>4. main.sigint => ctrlC > 0  BY DEF PhaseInv
  <2> QED BY <2>1, <2>2, <2>3, <2>4 DEF CodeInv
<1>12. ASSUME Leave PROVE CodeInv'
  <2>1. main.pc = "after" /\ test' = test /\ ctrlC' = ctrlC  BY <1>12 DEF Leave
  <2>2. test.report.reason # "workload_failed"  BY <2>1 DEF ReasonInv
  <2>3. main'.code = 130 => main.interrupted
    BY <1>12 DEF Leave, Exit, SessionTypes, MainType
  <2>4. main'.code = 0 => /\ ~ main.interrupted /\ test.report # NotBuilt
                          /\ test.report.verdict # "inconclusive"
    BY <1>12 DEF Leave, Exit, SessionTypes, MainType
  <2>5. test.report # NotBuilt /\ test.report.verdict # "inconclusive" =>
           test.report.verdict \in {"stable", "unstable"}
    BY DEF PoolInv, AnyVerdict
  <2>6. ~ main.raised /\ (~ main.interrupted => ~ main.sigint)
        /\ (main.interrupted => ctrlC > 0)
    BY <2>1 DEF StoppedInv, PhaseInv
  <2>7. main'.code = 0 => Seen(test.report.pool) /\ test.report.reason # "interrupted"
    BY <2>1, <2>4, <2>5, <2>6 DEF PoolInv, ReasonInv
  <2> QED BY <2>1, <2>2, <2>3, <2>4, <2>5, <2>6, <2>7 DEF CodeInv
<1>13. ASSUME LeaveWorkloadFailed PROVE CodeInv'
  <2>1. main'.code = 1  BY <1>13 DEF LeaveWorkloadFailed, Exit, SessionTypes, MainType
  <2> QED BY <2>1 DEF CodeInv
<1>14. ASSUME Interrupt PROVE CodeInv'
  <2> USE DEF InterruptRun, InterruptAbort, InterruptStop, InterruptAfter, InterruptTo
  <2>1. main.pc # "exited" /\ (main'.pc # "exited" \/ main'.code = 130)
    BY <1>14 DEF Interrupt, Exit, SessionTypes, MainType
  <2>2. test'.report = test.report  BY <1>14 DEF Interrupt, SessionTypes, TestType
  <2>3. ctrlC' > 0  BY <1>14 DEF Interrupt, SessionTypes
  <2>4. test.report.reason # "workload_failed"  BY <2>1 DEF ReasonInv
  <2> QED BY <2>1, <2>2, <2>3, <2>4 DEF CodeInv
<1>15. ASSUME FailFast PROVE CodeInv'
  BY <1>15 DEF FailFast, Running, CodeInv
<1>16. ASSUME CommandEnds PROVE CodeInv'
  BY <1>16 DEF CommandEnds, WorkloadOver, CodeInv
<1>17. ASSUME MonkeyEnds PROVE CodeInv'
  BY <1>17 DEF MonkeyEnds, WorkloadOver, CodeInv
<1>18. ASSUME LaunchEnds PROVE CodeInv'
  BY <1>18 DEF LaunchEnds, WorkloadOver, CodeInv
<1>19. ASSUME WorkloadStopped PROVE CodeInv'
  BY <1>19 DEF WorkloadStopped, Running, CodeInv
<1>20. ASSUME BeatWaits PROVE CodeInv'
  BY <1>20 DEF BeatWaits, Running, CodeInv
<1>21. ASSUME BeatWrites PROVE CodeInv'
  BY <1>21 DEF BeatWrites, Running, CodeInv
<1>22. ASSUME NEW d \in Dashboards, PostStop(d) PROVE CodeInv'
  BY <1>22 DEF PostStop, Running, CodeInv
<1>23. ASSUME NEW t \in Stoppers, StopCheck(t) PROVE CodeInv'
  BY <1>23 DEF StopCheck, StopperGoto, CodeInv
<1>24. ASSUME NEW t \in Stoppers, StopSet(t) PROVE CodeInv'
  BY <1>24 DEF StopSet, StopperGoto, CodeInv
<1>25. ASSUME NEW t \in Stoppers, StopLive(t) PROVE CodeInv'
  BY <1>25 DEF StopLive, StopperGoto, CodeInv
<1>26. ASSUME NEW t \in Stoppers, StopJoinBeat(t) PROVE CodeInv'
  BY <1>26 DEF StopJoinBeat, StopperGoto, CodeInv
<1>27. ASSUME NEW t \in Stoppers, StopPool(t) PROVE CodeInv'
  BY <1>27 DEF StopPool, StopperGoto, CodeInv
<1>28. ASSUME NEW t \in Stoppers, StopReport(t) PROVE CodeInv'
  BY <1>28 DEF StopReport, StopperGoto, Running, CodeInv
<1>29. ASSUME NEW t \in Stoppers, StopRelease(t) PROVE CodeInv'
  BY <1>29 DEF StopRelease, StopperGoto, CodeInv
<1>30. CASE UNCHANGED sessionVars  BY <1>30 DEF sessionVars, ReasonInv, CodeInv
<1>31. ASSUME AbortRelease PROVE CodeInv'
  <2>1. main.pc = "release" /\ main'.code \in {2, 3}
    BY <1>31 DEF AbortRelease, Exit, SetupCode, SessionTypes, MainType
  <2>2. test'.report = test.report  BY <1>31 DEF AbortRelease, SessionTypes, TestType
  <2>3. test.report.reason # "workload_failed"  BY <2>1 DEF ReasonInv
  <2> QED BY <2>1, <2>2, <2>3 DEF CodeInv
<1>32. ASSUME StartRaises PROVE CodeInv'
  BY <1>32 DEF StartRaises, SessionTypes, MainType, CodeInv
<1>33. ASSUME NEW t \in Stoppers, StopRaises(t) PROVE CodeInv'
  BY <1>33 DEF StopRaises, StopperGoto, Running, CodeInv
<1>34. ASSUME NEW t \in Stoppers, StopReportRaises(t) PROVE CodeInv'
  BY <1>34 DEF StopReportRaises, Running, SessionTypes, MainType, CodeInv
<1> QED
  BY <1>1, <1>2, <1>3, <1>4, <1>5, <1>6, <1>7, <1>8, <1>9, <1>10, <1>11, <1>12, <1>13,
     <1>14,
     <1>15, <1>16, <1>17, <1>18, <1>19, <1>20, <1>21, <1>22, <1>23, <1>24, <1>25, <1>26,
     <1>27, <1>28, <1>29, <1>30, <1>31, <1>32, <1>33, <1>34
  DEF SessionNext, Main, StopStep, Stoppers

\* A command that main waited for does not run any more, and no report was built
\* beside one, unless a dashboard stopped the test.
CommandInv ==
    ctrlC = 0 /\ work.kind = "external" =>
        /\ main.pc \in {"finally", "stopping", "after", "exited"} => work.at # "running"
        /\ test.report.work = "running" => \E d \in Dashboards : stopAt[d] # "idle"

\* Once status.json says that the run ended, the heartbeat is over or is late.
BeatInv == beat.file = "ended" => beat.at = "over" \/ beat.late

LEMMA CommandStep ==
    ASSUME SessionAssumption, SessionTypes, PhaseInv, CommandInv, [SessionNext]_sessionVars
    PROVE  CommandInv'
<1> USE DEF Before, Stoppers, SessionAssumption
<1>1. ASSUME AcquireLock PROVE CommandInv'
  BY <1>1 DEF AcquireLock, Goto, SessionTypes, TestType, PhaseInv, CommandInv
<1>2. ASSUME Preflight PROVE CommandInv'
  BY <1>2 DEF Preflight, Goto, SessionTypes, TestType, PhaseInv, CommandInv
<1>3. ASSUME StartPool PROVE CommandInv'
  BY <1>3 DEF StartPool, Goto, SessionTypes, TestType, PhaseInv, CommandInv
<1>4. ASSUME LogcatReady PROVE CommandInv'
  BY <1>4 DEF LogcatReady, Goto, SessionTypes, MainType, TestType, PhaseInv, CommandInv
<1>5. ASSUME Observe PROVE CommandInv'
  BY <1>5 DEF Observe, Goto, CommandInv
<1>6. ASSUME AbortReport PROVE CommandInv'
  BY <1>6 DEF AbortReport, Goto, Reports, SessionTypes, MainType, TestType, PhaseInv, CommandInv
<1>7. ASSUME BeginWorkload PROVE CommandInv'
  BY <1>7 DEF BeginWorkload, Goto, SessionTypes, MainType, WorkType, PhaseInv, CommandInv
<1>8. ASSUME WaitEnds PROVE CommandInv'
  BY <1>8 DEF WaitEnds, Goto, CommandInv
<1>9. ASSUME EndWorkload PROVE CommandInv'
  BY <1>9 DEF EndWorkload, Goto, SessionTypes, WorkType, CommandInv
<1>10. ASSUME Finally PROVE CommandInv'
  BY <1>10 DEF Finally, Goto, SessionTypes, TestType, StopAtType, CommandInv
<1>11. ASSUME Stopped PROVE CommandInv'
  BY <1>11 DEF Stopped, Exit, CommandInv
<1>12. ASSUME Leave PROVE CommandInv'
  BY <1>12 DEF Leave, Exit, CommandInv
<1>13. ASSUME LeaveWorkloadFailed PROVE CommandInv'
  <2>1. main.pc = "after" /\ UNCHANGED <<stopAt, work, ctrlC>>
    BY <1>13 DEF LeaveWorkloadFailed
  <2>2. test'.report.work \in {work.at, test.report.work}
    <3>1. CASE \E r \in Reports("workload_failed", AnyVerdict) :
                  test' = [test EXCEPT !.reason = "workload_failed", !.report = r]
      BY <3>1, ReportsTyped DEF SessionTypes, TestType, ExitReasons
    <3>2. CASE test' = [test EXCEPT !.reason = "workload_failed", !.failed = @ \cup {"report"}]
      BY <3>2 DEF SessionTypes, TestType
    <3> QED BY <1>13, <3>1, <3>2 DEF LeaveWorkloadFailed
  <2> QED BY <2>1, <2>2 DEF CommandInv
<1>14. ASSUME Interrupt PROVE CommandInv'
  BY <1>14 DEF Interrupt, InterruptTo, SessionTypes, CommandInv
<1>15. ASSUME FailFast PROVE CommandInv'
  BY <1>15 DEF FailFast, Running, CommandInv
<1>16. ASSUME CommandEnds PROVE CommandInv'
  BY <1>16 DEF CommandEnds, WorkloadOver, CommandInv
<1>17. ASSUME MonkeyEnds PROVE CommandInv'
  BY <1>17 DEF MonkeyEnds, WorkloadOver, CommandInv
<1>18. ASSUME LaunchEnds PROVE CommandInv'
  BY <1>18 DEF LaunchEnds, WorkloadOver, CommandInv
<1>19. ASSUME WorkloadStopped PROVE CommandInv'
  BY <1>19 DEF WorkloadStopped, Running, CommandInv
<1>20. ASSUME BeatWaits PROVE CommandInv'
  BY <1>20 DEF BeatWaits, Running, CommandInv
<1>21. ASSUME BeatWrites PROVE CommandInv'
  BY <1>21 DEF BeatWrites, Running, CommandInv
<1>22. ASSUME NEW d \in Dashboards, PostStop(d) PROVE CommandInv'
  BY <1>22 DEF PostStop, Running, CommandInv
<1>23. ASSUME NEW t \in Stoppers, StopCheck(t) PROVE CommandInv'
  BY <1>23 DEF StopCheck, StopperGoto, CommandInv
<1>24. ASSUME NEW t \in Stoppers, StopSet(t) PROVE CommandInv'
  BY <1>24 DEF StopSet, StopperGoto, CommandInv
<1>25. ASSUME NEW t \in Stoppers, StopLive(t) PROVE CommandInv'
  BY <1>25 DEF StopLive, StopperGoto, CommandInv
<1>26. ASSUME NEW t \in Stoppers, StopJoinBeat(t) PROVE CommandInv'
  BY <1>26 DEF StopJoinBeat, StopperGoto, CommandInv
<1>27. ASSUME NEW t \in Stoppers, StopPool(t) PROVE CommandInv'
  BY <1>27 DEF StopPool, StopperGoto, CommandInv
<1>28. ASSUME NEW t \in Stoppers, StopReport(t) PROVE CommandInv'
  BY <1>28 DEF StopReport, StopperGoto, Reports, PhaseInv, CommandInv
<1>29. ASSUME NEW t \in Stoppers, StopRelease(t) PROVE CommandInv'
  BY <1>29 DEF StopRelease, StopperGoto, CommandInv
<1>30. CASE UNCHANGED sessionVars  BY <1>30 DEF sessionVars, PhaseInv, CommandInv
<1>31. ASSUME AbortRelease PROVE CommandInv'
  BY <1>31 DEF AbortRelease, Exit, SetupCode, SessionTypes, MainType, TestType, PhaseInv, CommandInv
<1>32. ASSUME StartRaises PROVE CommandInv'
  BY <1>32 DEF StartRaises, SessionTypes, MainType, TestType, BeatType, PhaseInv, CommandInv
<1>33. ASSUME NEW t \in Stoppers, StopRaises(t) PROVE CommandInv'
  BY <1>33 DEF StopRaises, StopperGoto, Running, SessionTypes, TestType, StopAtType,
     PhaseInv, CommandInv
<1>34. ASSUME NEW t \in Stoppers, StopReportRaises(t) PROVE CommandInv'
  BY <1>34 DEF StopReportRaises, Running, SessionTypes, MainType, TestType, StopAtType,
     PhaseInv, CommandInv
<1> QED
  BY <1>1, <1>2, <1>3, <1>4, <1>5, <1>6, <1>7, <1>8, <1>9, <1>10, <1>11, <1>12, <1>13,
     <1>14,
     <1>15, <1>16, <1>17, <1>18, <1>19, <1>20, <1>21, <1>22, <1>23, <1>24, <1>25, <1>26,
     <1>27, <1>28, <1>29, <1>30, <1>31, <1>32, <1>33, <1>34
  DEF SessionNext, Main, StopStep, Stoppers

LEMMA BeatStep ==
    ASSUME SessionAssumption, SessionTypes, PhaseInv, BeatInv, [SessionNext]_sessionVars
    PROVE  BeatInv'
<1> USE DEF Before
<1>1. ASSUME AcquireLock PROVE BeatInv'
  BY <1>1 DEF AcquireLock, Goto, BeatInv
<1>2. ASSUME Preflight PROVE BeatInv'
  BY <1>2 DEF Preflight, Goto, BeatInv
<1>3. ASSUME StartPool PROVE BeatInv'
  BY <1>3 DEF StartPool, Goto, BeatInv
<1>4. ASSUME LogcatReady PROVE BeatInv'
  BY <1>4 DEF LogcatReady, Goto, BeatInv
<1>5. ASSUME Observe PROVE BeatInv'
  BY <1>5 DEF Observe, Goto, BeatInv
<1>6. ASSUME AbortReport PROVE BeatInv'
  BY <1>6 DEF AbortReport, BeatInv
<1>7. ASSUME BeginWorkload PROVE BeatInv'
  BY <1>7 DEF BeginWorkload, Goto, BeatInv
<1>8. ASSUME WaitEnds PROVE BeatInv'
  BY <1>8 DEF WaitEnds, Goto, BeatInv
<1>9. ASSUME EndWorkload PROVE BeatInv'
  BY <1>9 DEF EndWorkload, Goto, BeatInv
<1>10. ASSUME Finally PROVE BeatInv'
  BY <1>10 DEF Finally, Goto, BeatInv
<1>11. ASSUME Stopped PROVE BeatInv'
  BY <1>11 DEF Stopped, Exit, BeatInv
<1>12. ASSUME Leave PROVE BeatInv'
  BY <1>12 DEF Leave, Exit, BeatInv
<1>13. ASSUME LeaveWorkloadFailed PROVE BeatInv'
  BY <1>13 DEF LeaveWorkloadFailed, Exit, BeatInv
<1>14. ASSUME Interrupt PROVE BeatInv'
  BY <1>14 DEF Interrupt, InterruptTo, BeatInv
<1>15. ASSUME FailFast PROVE BeatInv'
  BY <1>15 DEF FailFast, Running, BeatInv
<1>16. ASSUME CommandEnds PROVE BeatInv'
  BY <1>16 DEF CommandEnds, WorkloadOver, BeatInv
<1>17. ASSUME MonkeyEnds PROVE BeatInv'
  BY <1>17 DEF MonkeyEnds, WorkloadOver, BeatInv
<1>18. ASSUME LaunchEnds PROVE BeatInv'
  BY <1>18 DEF LaunchEnds, WorkloadOver, BeatInv
<1>19. ASSUME WorkloadStopped PROVE BeatInv'
  BY <1>19 DEF WorkloadStopped, Running, BeatInv
<1>20. ASSUME BeatWaits PROVE BeatInv'
  BY <1>20 DEF BeatWaits, Running, SessionTypes, BeatType, BeatInv
<1>21. ASSUME BeatWrites PROVE BeatInv'
  BY <1>21 DEF BeatWrites, Running, BeatInv
<1>22. ASSUME NEW d \in Dashboards, PostStop(d) PROVE BeatInv'
  BY <1>22 DEF PostStop, Running, BeatInv
<1>23. ASSUME NEW t \in Stoppers, StopCheck(t) PROVE BeatInv'
  BY <1>23 DEF StopCheck, StopperGoto, BeatInv
<1>24. ASSUME NEW t \in Stoppers, StopSet(t) PROVE BeatInv'
  BY <1>24 DEF StopSet, StopperGoto, BeatInv
<1>25. ASSUME NEW t \in Stoppers, StopLive(t) PROVE BeatInv'
  BY <1>25 DEF StopLive, StopperGoto, BeatInv
<1>26. ASSUME NEW t \in Stoppers, StopJoinBeat(t) PROVE BeatInv'
  BY <1>26 DEF StopJoinBeat, StopperGoto, Running, SessionTypes, StopAtType, BeatType,
     PhaseInv, BeatInv
<1>27. ASSUME NEW t \in Stoppers, StopPool(t) PROVE BeatInv'
  BY <1>27 DEF StopPool, StopperGoto, BeatInv
<1>28. ASSUME NEW t \in Stoppers, StopReport(t) PROVE BeatInv'
  BY <1>28 DEF StopReport, StopperGoto, BeatInv
<1>29. ASSUME NEW t \in Stoppers, StopRelease(t) PROVE BeatInv'
  BY <1>29 DEF StopRelease, StopperGoto, BeatInv
<1>30. CASE UNCHANGED sessionVars  BY <1>30 DEF sessionVars, PhaseInv, BeatInv
<1>31. ASSUME AbortRelease PROVE BeatInv'
  BY <1>31 DEF AbortRelease, BeatInv
<1>32. ASSUME StartRaises PROVE BeatInv'
  BY <1>32 DEF StartRaises, SessionTypes, BeatType, BeatInv
<1>33. ASSUME NEW t \in Stoppers, StopRaises(t) PROVE BeatInv'
  BY <1>33 DEF StopRaises, BeatInv
<1>34. ASSUME NEW t \in Stoppers, StopReportRaises(t) PROVE BeatInv'
  BY <1>34 DEF StopReportRaises, BeatInv
<1> QED
  BY <1>1, <1>2, <1>3, <1>4, <1>5, <1>6, <1>7, <1>8, <1>9, <1>10, <1>11, <1>12, <1>13,
     <1>14,
     <1>15, <1>16, <1>17, <1>18, <1>19, <1>20, <1>21, <1>22, <1>23, <1>24, <1>25, <1>26,
     <1>27, <1>28, <1>29, <1>30, <1>31, <1>32, <1>33, <1>34
  DEF SessionNext, Main, StopStep, Stoppers

LockKept == test.lock = "rival" => test'.lock = "rival"
EndedKept == beat.file = "ended" => beat'.file = "ended" \/ beat.late

LEMMA LockAndStatusStep ==
    ASSUME SessionTypes, PhaseInv, BeatInv, [SessionNext]_sessionVars PROVE LockKept /\ EndedKept
<1>1. ASSUME AcquireLock PROVE LockKept /\ EndedKept
  BY <1>1 DEF AcquireLock, Goto, SessionTypes, TestType, LockKept, EndedKept
<1>2. ASSUME Preflight PROVE LockKept /\ EndedKept
  BY <1>2 DEF Preflight, Goto, SessionTypes, TestType, LockKept, EndedKept
<1>3. ASSUME StartPool PROVE LockKept /\ EndedKept
  BY <1>3 DEF StartPool, Goto, SessionTypes, TestType, LockKept, EndedKept
<1>4. ASSUME LogcatReady PROVE LockKept /\ EndedKept
  BY <1>4 DEF LogcatReady, Goto, SessionTypes, MainType, TestType, LockKept, EndedKept,
     BeatInv, PhaseInv, Before
<1>5. ASSUME Observe PROVE LockKept /\ EndedKept
  BY <1>5 DEF Observe, Goto, LockKept, EndedKept, PhaseInv, Before
<1>6. ASSUME AbortReport PROVE LockKept /\ EndedKept
  BY <1>6 DEF AbortReport, SessionTypes, TestType, LockKept, EndedKept
<1>7. ASSUME BeginWorkload PROVE LockKept /\ EndedKept
  BY <1>7 DEF BeginWorkload, Goto, LockKept, EndedKept
<1>8. ASSUME WaitEnds PROVE LockKept /\ EndedKept
  BY <1>8 DEF WaitEnds, Goto, LockKept, EndedKept
<1>9. ASSUME EndWorkload PROVE LockKept /\ EndedKept
  BY <1>9 DEF EndWorkload, Goto, LockKept, EndedKept
<1>10. ASSUME Finally PROVE LockKept /\ EndedKept
  BY <1>10 DEF Finally, Goto, SessionTypes, TestType, LockKept, EndedKept
<1>11. ASSUME Stopped PROVE LockKept /\ EndedKept
  BY <1>11 DEF Stopped, Exit, LockKept, EndedKept
<1>12. ASSUME Leave PROVE LockKept /\ EndedKept
  BY <1>12 DEF Leave, Exit, LockKept, EndedKept
<1>13. ASSUME LeaveWorkloadFailed PROVE LockKept /\ EndedKept
  BY <1>13 DEF LeaveWorkloadFailed, Exit, SessionTypes, TestType, LockKept, EndedKept
<1>14. ASSUME Interrupt PROVE LockKept /\ EndedKept
  BY <1>14 DEF Interrupt, InterruptRun, InterruptAbort, InterruptStop, InterruptAfter,
     SessionTypes, TestType, LockKept, EndedKept
<1>15. ASSUME FailFast PROVE LockKept /\ EndedKept
  BY <1>15 DEF FailFast, Running, LockKept, EndedKept
<1>16. ASSUME CommandEnds PROVE LockKept /\ EndedKept
  BY <1>16 DEF CommandEnds, WorkloadOver, LockKept, EndedKept
<1>17. ASSUME MonkeyEnds PROVE LockKept /\ EndedKept
  BY <1>17 DEF MonkeyEnds, WorkloadOver, LockKept, EndedKept
<1>18. ASSUME LaunchEnds PROVE LockKept /\ EndedKept
  BY <1>18 DEF LaunchEnds, WorkloadOver, LockKept, EndedKept
<1>19. ASSUME WorkloadStopped PROVE LockKept /\ EndedKept
  BY <1>19 DEF WorkloadStopped, Running, LockKept, EndedKept
<1>20. ASSUME BeatWaits PROVE LockKept /\ EndedKept
  BY <1>20 DEF BeatWaits, Running, LockKept, EndedKept, BeatInv
<1>21. ASSUME BeatWrites PROVE LockKept /\ EndedKept
  BY <1>21 DEF BeatWrites, Running, LockKept, EndedKept, BeatInv
<1>22. ASSUME NEW d \in Dashboards, PostStop(d) PROVE LockKept /\ EndedKept
  BY <1>22 DEF PostStop, Running, LockKept, EndedKept
<1>23. ASSUME NEW t \in Stoppers, StopCheck(t) PROVE LockKept /\ EndedKept
  BY <1>23 DEF StopCheck, StopperGoto, LockKept, EndedKept
<1>24. ASSUME NEW t \in Stoppers, StopSet(t) PROVE LockKept /\ EndedKept
  BY <1>24 DEF StopSet, StopperGoto, LockKept, EndedKept
<1>25. ASSUME NEW t \in Stoppers, StopLive(t) PROVE LockKept /\ EndedKept
  BY <1>25 DEF StopLive, StopperGoto, LockKept, EndedKept
<1>26. ASSUME NEW t \in Stoppers, StopJoinBeat(t) PROVE LockKept /\ EndedKept
  BY <1>26 DEF StopJoinBeat, StopperGoto, LockKept, EndedKept
<1>27. ASSUME NEW t \in Stoppers, StopPool(t) PROVE LockKept /\ EndedKept
  BY <1>27 DEF StopPool, StopperGoto, LockKept, EndedKept
<1>28. ASSUME NEW t \in Stoppers, StopReport(t) PROVE LockKept /\ EndedKept
  BY <1>28 DEF StopReport, StopperGoto, LockKept, EndedKept
<1>29. ASSUME NEW t \in Stoppers, StopRelease(t) PROVE LockKept /\ EndedKept
  BY <1>29 DEF StopRelease, StopperGoto, LockKept, EndedKept
<1>30. CASE UNCHANGED sessionVars  BY <1>30 DEF sessionVars, LockKept, EndedKept
<1>31. ASSUME AbortRelease PROVE LockKept /\ EndedKept
  BY <1>31 DEF AbortRelease, SessionTypes, TestType, LockKept, EndedKept
<1>32. ASSUME StartRaises PROVE LockKept /\ EndedKept
  <2>1. LockKept  BY <1>32 DEF StartRaises, SessionTypes, TestType, LockKept
  <2>2. beat' = beat \/ main.pc = "observe"  BY <1>32 DEF StartRaises
  <2>3. main.pc = "observe" => beat.file = "none"  BY DEF PhaseInv, Before
  <2> QED BY <2>1, <2>2, <2>3 DEF EndedKept
<1>33. ASSUME NEW t \in Stoppers, StopRaises(t) PROVE LockKept /\ EndedKept
  BY <1>33 DEF StopRaises, StopperGoto, SessionTypes, TestType, LockKept, EndedKept
<1>34. ASSUME NEW t \in Stoppers, StopReportRaises(t) PROVE LockKept /\ EndedKept
  BY <1>34 DEF StopReportRaises, SessionTypes, TestType, LockKept, EndedKept
<1> QED
  BY <1>1, <1>2, <1>3, <1>4, <1>5, <1>6, <1>7, <1>8, <1>9, <1>10, <1>11, <1>12, <1>13,
     <1>14,
     <1>15, <1>16, <1>17, <1>18, <1>19, <1>20, <1>21, <1>22, <1>23, <1>24, <1>25, <1>26,
     <1>27, <1>28, <1>29, <1>30, <1>31, <1>32, <1>33, <1>34
  DEF SessionNext, Main, StopStep, Stoppers
-----------------------------------------------------------------------------
SessionInv ==
    SessionTypes /\ PhaseInv /\ StoppedInv /\ ReasonInv /\ PoolInv /\ CodeInv
    /\ CommandInv /\ BeatInv

LEMMA SessionInvInit ==
    ASSUME SessionAssumption, SessionInit PROVE SessionInv
<1> USE DEF SessionInit, NotBuilt, Stoppers, NoCode
<1>1. SessionTypes
  <2>1. main \in MainType  BY DEF MainType, Pcs
  <2>2. NotBuilt \in SessionReport  BY DEF SessionReport, ExitReasons
  <2>3. test \in TestType  BY <2>2 DEF TestType, ExitReasons
  <2>4. stopAt \in StopAtType  BY DEF StopAtType
  <2>5. beat \in BeatType /\ work \in WorkType  BY DEF BeatType, WorkType
  <2> QED BY <2>1, <2>3, <2>4, <2>5 DEF SessionTypes
<1>2. PhaseInv /\ StoppedInv
  BY SessionAssumption DEF PhaseInv, StoppedInv, Exited, InStop
<1>3. ReasonInv /\ PoolInv /\ CodeInv  BY DEF ReasonInv, PoolInv, CodeInv
<1>4. CommandInv /\ BeatInv  BY DEF CommandInv, BeatInv
<1> QED BY <1>1, <1>2, <1>3, <1>4 DEF SessionInv

LEMMA SessionInvHolds ==
    ASSUME SessionAssumption PROVE SessionSpec => []SessionInv
<1>1. SessionInit => SessionInv  BY SessionInvInit
<1>2. SessionInv /\ [SessionNext]_sessionVars => SessionInv'
  BY SessionTypesStep, PhaseStep, StoppedStep, ReasonStep, PoolStep, CodeStep,
     CommandStep,
     BeatStep DEF SessionInv
<1> QED BY <1>1, <1>2, PTL DEF SessionSpec

\* However a run of the command line ends, whoever called stop() and whatever
\* interrupted it: its report is there and its lock is free, the exit status and
\* the report tell one story, and the command that drove the app had ended before
\* the report was built.
THEOREM SessionIsSound == SessionSpec => []SessionSound
<1>1. ASSUME StoppedInv PROVE ExitLeavesReport
  BY <1>1 DEF StoppedInv, ExitLeavesReport, Exited, CutShort, Broken, Complete, InStop,
     Stoppers
<1>2. ASSUME CodeInv PROVE ExitAgreesWithReport
  BY <1>2 DEF CodeInv, Seen, ExitAgreesWithReport
<1>3. ASSUME CommandInv PROVE CommandEndsFirst
  BY <1>3 DEF CommandInv, CommandEndsFirst
<1>4. SessionInv => SessionSound  BY <1>1, <1>2, <1>3 DEF SessionInv, SessionSound
<1>5. SessionSpec => []SessionInv  BY SessionAssumption, SessionInvHolds
<1> QED BY <1>4, <1>5, PTL

\* No step of a run takes the lock of another run, and once status.json says that
\* the run ended no later heartbeat says otherwise, unless it outlived its join.
THEOREM LockAndStatusAreKept == SessionSpec => SessionKeeps
<1>1. SessionInv /\ [SessionNext]_sessionVars => LockKept /\ EndedKept
  BY LockAndStatusStep DEF SessionInv
<1>2. SessionSpec => []SessionInv  BY SessionAssumption, SessionInvHolds
<1>3. SessionSpec => [][LockKept]_sessionVars  BY <1>1, <1>2, PTL DEF SessionSpec
<1>4. SessionSpec => [][EndedKept]_sessionVars  BY <1>1, <1>2, PTL DEF SessionSpec
<1> QED
  BY <1>3, <1>4 DEF SessionKeeps, RivalKeepsLock, StatusStaysEnded, LockKept, EndedKept

-----------------------------------------------------------------------------
(* JournalFile *)

JournalTypes ==
    /\ text \in Seq(Seq(Int)) /\ ended \in BOOLEAN /\ fresh \in BOOLEAN
    /\ appends \in Nat /\ journalKills \in Nat
    /\ acked \subseteq 1..appends /\ firsts \subseteq acked
    /\ split \subseteq 1..appends /\ cut \subseteq 1..appends

\* A record stands whole on line i, and nothing can be added to that line.
StandsOn(r, i) == text[i] = <<r>> /\ (ended \/ i < Len(text))

JournalInv ==
    /\ ~ended => fresh /\ Len(text) > 0 /\ Len(text[Len(text)]) > 0
    /\ IsFiniteSet(firsts)
    /\ Cardinality(firsts) <= journalKills - (IF fresh THEN 1 ELSE 0)
    /\ \A r \in acked :
          \/ \E i \in DOMAIN text : StandsOn(r, i)
          \/ r \in firsts /\ \E i \in DOMAIN text : Len(text[i]) > 1

\* Writing a piece changes no line that has its newline, and shortens none.
LEMMA WrittenEffect ==
    ASSUME JournalTypes, JournalInv, NEW piece \in Int
    PROVE  /\ Written(piece) \in Seq(Seq(Int))
           /\ Len(Written(piece)) = IF ended THEN Len(text) + 1 ELSE Len(text)
           /\ \A i \in 1..Len(text) : (ended \/ i < Len(text)) => Written(piece)[i] = text[i]
           /\ \A i \in 1..Len(text) : Len(Written(piece)[i]) >= Len(text[i])
           /\ ended => Written(piece)[Len(text) + 1] = <<piece>>
           /\ ~ended => Len(Written(piece)[Len(text)]) > 1
<1> DEFINE L == Len(text)
<1>0. L \in Nat /\ \A i \in 1..L : text[i] \in Seq(Int) /\ Len(text[i]) \in Nat
  BY ElementOfSeq, LenProperties DEF JournalTypes
<1>1. CASE ended
  <2>1. Written(piece) = Append(text, <<piece>>)
    BY <1>1 DEF Written
  <2>2. <<piece>> \in Seq(Int)
    OBVIOUS
  <2>3. /\ Append(text, <<piece>>) \in Seq(Seq(Int))
        /\ Len(Append(text, <<piece>>)) = L + 1
        /\ \A i \in 1..L : Append(text, <<piece>>)[i] = text[i]
        /\ Append(text, <<piece>>)[L + 1] = <<piece>>
    BY <2>2, AppendProperties DEF JournalTypes
  <2> HIDE DEF L
  <2> QED
    BY <1>0, <1>1, <2>1, <2>3 DEF L
<1>2. CASE ~ended
  <2> DEFINE last == text[L]
             line == Append(last, piece)
  <2>1. Written(piece) = [text EXCEPT ![L] = line]
    BY <1>2 DEF Written
  <2>2. L \in 1..L /\ last \in Seq(Int) /\ Len(last) > 0
    BY <1>0, <1>2 DEF JournalInv
  <2>3. line \in Seq(Int) /\ Len(line) = Len(last) + 1
    BY <2>2, AppendProperties
  <2> HIDE DEF line
  <2>4. /\ Written(piece) \in Seq(Seq(Int)) /\ Len(Written(piece)) = L
        /\ \A i \in 1..L : Written(piece)[i] = IF i = L THEN line ELSE text[i]
    BY <2>1, <2>2, <2>3, ExceptSeq DEF JournalTypes
  <2>5. \A i \in 1..L : i < L => Written(piece)[i] = text[i]
    <3> HIDE DEF L, line
    <3> TAKE i \in 1..L
    <3>1. i < L => i # L
      BY <1>0
    <3> QED
      BY <2>4, <3>1
  <2>6. Len(Written(piece)[L]) = Len(text[L]) + 1
    BY <2>2, <2>3, <2>4
  <2>7. \A i \in 1..L : Len(Written(piece)[i]) >= Len(text[i])
    <3> TAKE i \in 1..L
    <3>1. CASE i = L
      BY <1>0, <2>6, <3>1
    <3>2. CASE i # L
      BY <1>0, <2>5, <3>2
    <3> QED
      BY <3>1, <3>2
  <2>8. Len(Written(piece)[L]) > 1
    BY <1>0, <2>2, <2>6
  <2> QED
    BY <1>0, <1>2, <2>4, <2>5, <2>7, <2>8
<1> QED
  BY <1>1, <1>2

LEMMA JournalStep ==
    ASSUME JournalTypes, JournalInv, [JournalFileNext]_journalFileVars
    PROVE  JournalTypes' /\ JournalInv'
<1>0. /\ Len(text) \in Nat /\ DOMAIN text = 1..Len(text)
      /\ \A i \in 1..Len(text) : text[i] \in Seq(Int) /\ Len(text[i]) \in Nat
  BY ElementOfSeq, LenProperties DEF JournalTypes
<1>1. CASE AppendLine
  <2>1. /\ appends' = appends + 1 /\ ended' = TRUE /\ fresh' = FALSE
        /\ acked' = acked \cup {appends + 1} /\ journalKills' = journalKills
        /\ firsts' = IF fresh THEN firsts \cup {appends + 1} ELSE firsts
        /\ text' = Written(appends + 1) /\ appends + 1 \in Int
        /\ split' \subseteq split \cup {appends + 1} /\ cut' = cut
    BY <1>1 DEF AppendLine, JournalTypes
  <2>2. /\ text' \in Seq(Seq(Int))
        /\ Len(text') = IF ended THEN Len(text) + 1 ELSE Len(text)
        /\ \A i \in 1..Len(text) : (ended \/ i < Len(text)) => text'[i] = text[i]
        /\ \A i \in 1..Len(text) : Len(text'[i]) >= Len(text[i])
        /\ ended => text'[Len(text) + 1] = <<appends + 1>>
        /\ ~ended => Len(text'[Len(text)]) > 1
    BY <2>1, WrittenEffect
  <2>3. /\ Len(text') \in Nat /\ DOMAIN text' = 1..Len(text')
        /\ \A i \in 1..Len(text') : Len(text'[i]) \in Nat
    BY <2>2, ElementOfSeq, LenProperties
  <2>4. JournalTypes'
    <3>1. appends' \in Nat /\ acked' \subseteq 1..appends' /\ firsts' \subseteq acked'
          /\ split' \subseteq 1..appends' /\ cut' \subseteq 1..appends'
      BY <2>1 DEF JournalTypes
    <3> QED
      BY <2>1, <2>2, <3>1 DEF JournalTypes
  <2>5. IsFiniteSet(firsts') /\ Cardinality(firsts') <= journalKills'
    <3>1. appends + 1 \notin firsts
      BY DEF JournalTypes
    <3>2. IsFiniteSet(firsts) /\ Cardinality(firsts) \in Nat
      BY FS_CardinalityType DEF JournalInv
    <3>3. /\ IsFiniteSet(firsts \cup {appends + 1})
          /\ Cardinality(firsts \cup {appends + 1}) = Cardinality(firsts) + 1
      BY <3>1, <3>2, FS_AddElement
    <3> QED
      BY <2>1, <3>2, <3>3 DEF JournalInv, JournalTypes
  <2>6. ASSUME NEW r \in acked'
        PROVE  \/ \E i \in DOMAIN text' : StandsOn(r, i)'
               \/ r \in firsts' /\ \E i \in DOMAIN text' : Len(text'[i]) > 1
    <3>1. CASE r = appends + 1 /\ ended
      <4>1. Len(text) + 1 \in DOMAIN text'
        BY <1>0, <2>2, <2>3, <3>1
      <4> QED
        BY <2>1, <2>2, <3>1, <4>1 DEF StandsOn
    <3>2. CASE r = appends + 1 /\ ~ended
      <4>1. r \in firsts'
        BY <2>1, <3>2 DEF JournalInv
      <4>2. Len(text) \in DOMAIN text'
        BY <1>0, <2>2, <2>3, <3>2 DEF JournalInv
      <4> QED
        BY <2>2, <3>2, <4>1, <4>2
    <3>3. CASE r \in acked
      <4>1. CASE \E i \in DOMAIN text : StandsOn(r, i)
        <5>1. PICK i \in DOMAIN text : StandsOn(r, i)
          BY <4>1
        <5>2. i \in DOMAIN text' /\ text'[i] = text[i]
          BY <1>0, <2>2, <2>3, <5>1 DEF StandsOn
        <5> QED
          BY <2>1, <5>1, <5>2 DEF StandsOn
      <4>2. CASE r \in firsts /\ \E i \in DOMAIN text : Len(text[i]) > 1
        <5>1. PICK i \in DOMAIN text : Len(text[i]) > 1
          BY <4>2
        <5>2. i \in DOMAIN text' /\ Len(text'[i]) > 1
          BY <1>0, <2>2, <2>3, <5>1
        <5> QED
          BY <2>1, <4>2, <5>2
      <4> QED
        BY <3>3, <4>1, <4>2 DEF JournalInv
    <3> QED
      BY <2>1, <3>1, <3>2, <3>3
  <2> QED
    BY <2>1, <2>4, <2>5, <2>6 DEF JournalInv, JournalTypes
<1>2. CASE KillInAppend
  <2>1. /\ appends' = appends + 1 /\ journalKills' = journalKills + 1 /\ fresh' = TRUE
        /\ acked' = acked /\ firsts' = firsts
        /\ split' \subseteq split \cup {appends + 1} /\ cut' \subseteq cut \cup {appends + 1}
    BY <1>2 DEF KillInAppend
  <2>2. Cardinality(firsts) \in Nat
    BY FS_CardinalityType DEF JournalInv
  <2>3. CASE UNCHANGED <<text, ended>>
    BY <2>1, <2>2, <2>3 DEF JournalTypes, JournalInv, StandsOn
  <2>4. CASE ~ UNCHANGED <<text, ended>>
    <3>1. PICK piece \in {appends + 1, -(appends + 1)} : text' = Written(piece)
      BY <1>2, <2>4 DEF KillInAppend
    <3>2. ended' = FALSE /\ piece \in Int
      BY <1>2, <2>4 DEF KillInAppend, JournalTypes
    <3>3. /\ text' \in Seq(Seq(Int))
          /\ Len(text') = IF ended THEN Len(text) + 1 ELSE Len(text)
          /\ \A i \in 1..Len(text) : (ended \/ i < Len(text)) => text'[i] = text[i]
          /\ \A i \in 1..Len(text) : Len(text'[i]) >= Len(text[i])
          /\ ended => text'[Len(text) + 1] = <<piece>>
          /\ ~ended => Len(text'[Len(text)]) > 1
      BY <3>1, <3>2, WrittenEffect
    <3>4. /\ Len(text') \in Nat /\ DOMAIN text' = 1..Len(text')
          /\ \A i \in 1..Len(text') : Len(text'[i]) \in Nat
      BY <3>3, ElementOfSeq, LenProperties
    <3>5. JournalTypes'
      <4>1. appends' \in Nat /\ acked' \subseteq 1..appends' /\ firsts' \subseteq acked'
            /\ journalKills' \in Nat /\ split' \subseteq 1..appends' /\ cut' \subseteq 1..appends'
        BY <2>1 DEF JournalTypes
      <4> QED
        BY <2>1, <3>2, <3>3, <4>1 DEF JournalTypes
    <3>6. Len(text') > 0 /\ Len(text'[Len(text')]) > 0
      <4>1. CASE ended
        <5>1. text'[Len(text')] = <<piece>>
          BY <3>3, <4>1
        <5>2. Len(<<piece>>) = 1
          OBVIOUS
        <5>3. Len(text'[Len(text')]) = 1
          BY <5>1, <5>2
        <5>4. Len(text') = Len(text) + 1
          BY <3>3, <4>1
        <5>5. Len(text') > 0
          BY <1>0, <5>4
        <5> QED
          BY <5>3, <5>5
      <4>2. CASE ~ended
        BY <1>0, <3>3, <4>2 DEF JournalInv
      <4> QED
        BY <4>1, <4>2
    <3>7. ASSUME NEW r \in acked
          PROVE  \/ \E i \in DOMAIN text' : StandsOn(r, i)'
                 \/ r \in firsts /\ \E i \in DOMAIN text' : Len(text'[i]) > 1
      <4>1. CASE \E i \in DOMAIN text : StandsOn(r, i)
        <5>1. PICK i \in DOMAIN text : StandsOn(r, i)
          BY <4>1
        <5>2. i \in DOMAIN text' /\ text'[i] = text[i] /\ i < Len(text')
          BY <1>0, <3>3, <3>4, <5>1 DEF StandsOn
        <5> QED
          BY <5>1, <5>2 DEF StandsOn
      <4>2. CASE r \in firsts /\ \E i \in DOMAIN text : Len(text[i]) > 1
        <5>1. PICK i \in DOMAIN text : Len(text[i]) > 1
          BY <4>2
        <5>2. i \in DOMAIN text' /\ Len(text'[i]) > 1
          BY <1>0, <3>3, <3>4, <5>1
        <5> QED
          BY <4>2, <5>2
      <4> QED
        BY <4>1, <4>2 DEF JournalInv
    <3> QED
      BY <2>1, <2>2, <3>2, <3>5, <3>6, <3>7 DEF JournalInv, JournalTypes
  <2> QED
    BY <2>3, <2>4
<1>3. CASE UNCHANGED journalFileVars
  BY <1>3 DEF journalFileVars, JournalTypes, JournalInv, StandsOn
<1> QED
  BY <1>1, <1>2, <1>3 DEF JournalFileNext

\* A kill in the middle of an append to the journal, however often, costs one
\* acknowledged record besides those whose text splits their lines, and the reader says
\* so, as long as no kill cuts a character (IncidentJournal.append, read_journal).
THEOREM JournalSurvivesKills == JournalFileSpec => []JournalSurvives
<1>1. JournalFileInit => JournalTypes /\ JournalInv
  <2>1. <<>> \in Seq(Seq(Int))
    BY EmptySeq
  <2>2. IsFiniteSet({}) /\ Cardinality({}) = 0
    BY FS_EmptySet
  <2> SUFFICES ASSUME JournalFileInit PROVE JournalTypes /\ JournalInv
    OBVIOUS
  <2>3. JournalTypes
    BY <2>1 DEF JournalFileInit, JournalTypes
  <2>4. JournalInv
    BY <2>2 DEF JournalFileInit, JournalInv
  <2> QED
    BY <2>3, <2>4
<1>2. JournalTypes /\ JournalInv /\ [JournalFileNext]_journalFileVars
      => JournalTypes' /\ JournalInv'
  BY JournalStep
<1>3. JournalTypes /\ JournalInv => JournalSurvives
  <2> SUFFICES ASSUME JournalTypes, JournalInv, Decodes
               PROVE  KillCostsOneRecord /\ LossIsWarned
    BY DEF JournalSurvives
  <2>1. ASSUME NEW r \in acked, NEW i \in DOMAIN text, StandsOn(r, i)
        PROVE  IF r \in split THEN ~Parses(text[i]) ELSE r \in ReadRecords
    <3>1. text[i] = <<r>> /\ r > 0
      BY <2>1 DEF StandsOn, JournalTypes
    <3>2. text[i][1] = r /\ (r \notin split => Parses(text[i])) /\ (r \in split => ~Parses(text[i]))
      BY <3>1 DEF Parses
    <3> QED
      BY <3>2 DEF ReadRecords
  <2>2. \A r \in Missing : \/ r \in split /\ \E i \in DOMAIN text : ~Parses(text[i])
                           \/ r \in firsts /\ \E i \in DOMAIN text : Len(text[i]) > 1
    <3> SUFFICES ASSUME NEW r \in acked, r \notin ReadRecords
                 PROVE  \/ r \in split /\ \E i \in DOMAIN text : ~Parses(text[i])
                        \/ r \in firsts /\ \E i \in DOMAIN text : Len(text[i]) > 1
      BY DEF Missing
    <3>1. CASE \E i \in DOMAIN text : StandsOn(r, i)
      <4>1. PICK i \in DOMAIN text : StandsOn(r, i)  BY <3>1
      <4>2. r \in split /\ ~Parses(text[i])  BY <2>1, <4>1
      <4> QED BY <4>2
    <3>2. CASE r \in firsts /\ \E i \in DOMAIN text : Len(text[i]) > 1
      BY <3>2
    <3> QED BY <3>1, <3>2 DEF JournalInv
  <2>3. KillCostsOneRecord
    <3>1. Missing \ split \subseteq firsts
      BY <2>2
    <3>2. Cardinality(Missing \ split) <= Cardinality(firsts) /\ Cardinality(firsts) \in Nat
          /\ Cardinality(Missing \ split) \in Nat
      BY <3>1, FS_Subset, FS_CardinalityType DEF JournalInv
    <3> QED
      BY <3>1, <3>2 DEF KillCostsOneRecord, JournalInv, JournalTypes
  <2>4. LossIsWarned
    <3>1. \A i \in DOMAIN text : Len(text[i]) > 1 => ~ Parses(text[i])
      <4> SUFFICES ASSUME NEW i \in DOMAIN text, Len(text[i]) > 1, Len(text[i]) = 1
                   PROVE  FALSE
        BY DEF Parses
      <4> HIDE DEF JournalTypes
      <4> QED
        OBVIOUS
    <3> QED
      BY <2>2, <3>1 DEF LossIsWarned, Warnings
  <2> QED
    BY <2>3, <2>4
<1> QED
  BY <1>1, <1>2, <1>3, PTL DEF JournalFileSpec
-----------------------------------------------------------------------------
(* The log files *)

LogFileType == [linked : BOOLEAN, headers : Nat, lines : Seq(Nat), flushed : Nat, mtime : Nat]
Hours == 0 .. (MaxTicks \div Hour)

\* A file that was begun has one header, and at most what is not flushed can be lost;
\* it is deleted only when nobody writes to its hour any more.
FileSound(f, file, t, n) ==
    /\ file.headers <= 1
    /\ file.headers = 0 => ~ file.linked /\ file.lines = <<>>
    /\ Len(file.lines) <= MaxFileLines /\ Len(file.lines) <= n
    /\ file.flushed <= Len(file.lines) /\ Len(file.lines) < file.flushed + FlushEvery
    /\ file.headers = 1 => f[1] * Hour <= file.mtime /\ file.mtime <= t
    /\ file.headers = 1 /\ ~ file.linked => f[1] * Hour + Hour < t
DirSound(dir, t, n) ==
    dir \in [FileNames -> LogFileType] /\ \A f \in FileNames : FileSound(f, dir[f], t, n)

\* The segments of an hour are numbered from 0 on, without a gap.
Dense(dir, n) ==
    \A h \in Hours : \E k \in 0 .. n :
        \A s \in 0 .. MaxLogLines : dir[<<h, s>>].headers = 1 <=> s < k

LEMMA HourOf ==
    ASSUME NEW a \in Nat, NEW b \in Nat, a <= b
    PROVE  /\ a \div Hour \in Nat /\ (a \div Hour) * Hour <= a /\ a < (a \div Hour) * Hour + Hour
           /\ a \div Hour <= b \div Hour
<1>1. Hour \in Nat /\ Hour > 0
  BY LogFilesAssumption
<1>2. ASSUME NEW c \in Nat
      PROVE  c \div Hour \in Nat /\ (c \div Hour) * Hour <= c /\ c < (c \div Hour) * Hour + Hour
  BY <1>1
<1> DEFINE q == a \div Hour
           r == b \div Hour
<1>2a. q \in Nat /\ q * Hour <= a /\ r \in Nat /\ b < r * Hour + Hour
  BY <1>2
<1>2b. q * Hour \in Nat /\ r * Hour \in Nat
  BY <1>1, <1>2a
<1>3. q \in Nat /\ r \in Nat /\ q * Hour <= b /\ b < r * Hour + Hour
  BY <1>2a, <1>2b, <1>1
<1> HIDE DEF q, r
<1>4. ASSUME q > r PROVE FALSE
  <2>1. PICK d \in Nat : q = r + 1 + d
    <3>1. q - r - 1 \in Nat /\ q = r + 1 + (q - r - 1)
      BY <1>3, <1>4
    <3> QED
      BY <3>1
  <2>2. q * Hour = r * Hour + Hour + d * Hour /\ d * Hour >= 0
    BY <2>1, <1>1, <1>3
  <2> QED
    BY <2>2, <1>1, <1>3
<1>5. q <= r
  BY <1>3, <1>4
<1> QED
  BY <1>2, <1>5 DEF q, r

LEMMA FlushSound ==
    ASSUME NEW dir, NEW n \in Nat, DirSound(dir, ticks, n), NEW f, f = Closed \/ (f \in FileNames /\ dir[f].headers = 1),
           ticks \in Nat
    PROVE  /\ DirSound(Flush(dir, f), ticks, n)
           /\ \A g \in FileNames : /\ Flush(dir, f)[g].lines = dir[g].lines
                                   /\ Flush(dir, f)[g].linked = dir[g].linked
                                   /\ Flush(dir, f)[g].headers = dir[g].headers
<1>1. CASE Flush(dir, f) = dir
  BY <1>1
<1>2. CASE Flush(dir, f) # dir
  <2> DEFINE file == [[dir[f] EXCEPT !.flushed = Len(dir[f].lines)] EXCEPT !.mtime = ticks]
  <2>1. f \in FileNames /\ dir[f].headers = 1 /\ dir[f] \in LogFileType
    BY <1>2 DEF Flush, DirSound
  <2>2. Flush(dir, f) = [dir EXCEPT ![f] = file]
    BY <1>2, <2>1 DEF Flush, DirSound
  <2>3. Len(dir[f].lines) \in Nat
    BY <2>1 DEF LogFileType
  <2>4. /\ file \in LogFileType /\ file.lines = dir[f].lines /\ file.linked = dir[f].linked
        /\ file.headers = dir[f].headers /\ file.flushed = Len(dir[f].lines) /\ file.mtime = ticks
    BY <2>1, <2>3 DEF LogFileType
  <2> HIDE DEF file
  <2>5. FileSound(f, file, ticks, n)
    <3>1. FileSound(f, dir[f], ticks, n) /\ dir[f].mtime \in Nat /\ f[1] * Hour \in Int
      BY <2>1, LogFilesAssumption DEF DirSound, LogFileType, FileNames
    <3>2. FlushEvery \in Nat /\ FlushEvery > 0
      BY LogFilesAssumption
    <3> QED
      BY <3>1, <3>2, <2>1, <2>3, <2>4 DEF FileSound
  <2> QED
    BY <2>1, <2>2, <2>4, <2>5 DEF DirSound
<1> QED
  BY <1>1, <1>2

Begin(dir, f) == [dir EXCEPT ![f] = WithHeader(Unwritten)]

LEMMA BeginSound ==
    ASSUME NEW dir, NEW n \in Nat, DirSound(dir, ticks, n), NEW f \in FileNames, dir[f].headers = 0,
           ticks \in Nat, f[1] * Hour <= ticks
    PROVE  /\ DirSound(Begin(dir, f), ticks, n)
           /\ Begin(dir, f)[f].headers = 1 /\ Begin(dir, f)[f].linked /\ Begin(dir, f)[f].lines = <<>>
           /\ \A g \in FileNames \ {f} : Begin(dir, f)[g] = dir[g]
           /\ dir[f].lines = <<>>
<1> DEFINE file == WithHeader(Unwritten)
<1>1. /\ file \in LogFileType /\ file.linked /\ file.headers = 1 /\ file.lines = <<>>
      /\ file.flushed = 0 /\ file.mtime = ticks
  <2> DEFINE none == Unwritten
             a == [none EXCEPT !.linked = TRUE]
             b == [a EXCEPT !.headers = 1]
  <2>1. none \in LogFileType /\ none.lines = <<>> /\ none.flushed = 0 /\ none.headers = 0
    BY DEF Unwritten, LogFileType
  <2> HIDE DEF none
  <2>2. a \in LogFileType /\ a.lines = <<>> /\ a.flushed = 0 /\ a.linked /\ a.headers = 0
    BY <2>1 DEF LogFileType
  <2> HIDE DEF a
  <2>3. b \in LogFileType /\ b.lines = <<>> /\ b.flushed = 0 /\ b.linked /\ b.headers = 1
    BY <2>2 DEF LogFileType
  <2>4. file = [b EXCEPT !.mtime = ticks]
    BY <2>1, <2>2 DEF WithHeader, a, none
  <2> HIDE DEF b, file
  <2> QED
    BY <2>3, <2>4 DEF LogFileType
<1>3. FileSound(f, file, ticks, n)
  <2>1. f[1] * Hour \in Int /\ FlushEvery > 0 /\ MaxFileLines > 0 /\ {FlushEvery, MaxFileLines} \subseteq Nat
    BY LogFilesAssumption DEF FileNames
  <2>2. Len(file.lines) = 0
    BY <1>1
  <2> HIDE DEF file
  <2> QED
    BY <1>1, <2>1, <2>2 DEF FileSound
<1> HIDE DEF file
<1>4. Begin(dir, f) = [dir EXCEPT ![f] = file]
  BY DEF Begin, file
<1>5. dir[f].lines = <<>>
  BY DEF DirSound, FileSound
<1>6. /\ Begin(dir, f) \in [FileNames -> LogFileType] /\ Begin(dir, f)[f] = file
      /\ \A g \in FileNames \ {f} : Begin(dir, f)[g] = dir[g]
  BY <1>1, <1>4 DEF DirSound
<1>7. file.headers = 1 /\ file.linked /\ file.lines = <<>>
  BY <1>1
<1>8. DirSound(Begin(dir, f), ticks, n)
  BY <1>3, <1>6 DEF DirSound
<1> QED
  BY <1>5, <1>6, <1>7, <1>8

\* The number of the next segment is the number of segments there are.
LEMMA NextIsNew ==
    ASSUME NEW dir, NEW n \in Nat, DirSound(dir, ticks, n), NEW h \in Hours, NEW k \in 0 .. MaxLogLines,
           \A s \in 0 .. MaxLogLines : dir[<<h, s>>].headers = 1 <=> s < k,
           \A s \in 0 .. MaxLogLines : dir[<<h, s>>].headers = 1 => dir[<<h, s>>].linked
    PROVE  NextSegment(dir, h) = <<h, k>> /\ <<h, k>> \in FileNames /\ dir[<<h, k>>].headers = 0
<1> DEFINE S == {f \in FileNames : f[1] = h /\ dir[f].linked}
           N == 0 .. k - 1
           g == [s \in N |-> <<h, s>>]
<1>0. MaxLogLines \in Nat
  BY LogFilesAssumption
<1>1. FileNames = Hours \X (0 .. MaxLogLines)
  BY DEF FileNames, Hours
<1>2. ASSUME NEW s \in 0 .. MaxLogLines PROVE dir[<<h, s>>].linked <=> s < k
  <2>1. <<h, s>> \in FileNames
    BY <1>1
  <2>2. dir[<<h, s>>] \in LogFileType /\ FileSound(<<h, s>>, dir[<<h, s>>], ticks, n)
    BY <2>1 DEF DirSound
  <2>3. dir[<<h, s>>].headers \in {0, 1}
    BY <2>2 DEF FileSound, LogFileType
  <2> QED
    BY <2>2, <2>3 DEF FileSound
<1>3. \A f \in S : f = <<h, f[2]>> /\ f[2] \in N
  BY <1>1, <1>2
<1>4. \A s \in N : <<h, s>> \in S
  BY <1>0, <1>1, <1>2
<1>5. g \in Bijection(N, S)
  <2>1. g \in [N -> S]
    BY <1>4
  <2>2. \A s, t \in N : g[s] = g[t] => s = t
    OBVIOUS
  <2>3. \A f \in S : \E s \in N : g[s] = f
    BY <1>3
  <2> QED
    BY <2>1, <2>2, <2>3 DEF Bijection, Injection, Surjection, IsInjective
<1>6. IsFiniteSet(N) /\ Cardinality(N) = k
  <2>1. k - 1 \in Int /\ 0 \in Int /\ k \in Nat
    BY <1>0
  <2>2. IsFiniteSet(0 .. k - 1) /\ Cardinality(0 .. k - 1) = IF 0 > k - 1 THEN 0 ELSE k - 1 - 0 + 1
    BY ONLY <2>1, FS_Interval
  <2> QED
    BY <2>1, <2>2
<1>7. Cardinality(S) = k
  BY <1>5, <1>6, FS_Bijection DEF ExistsBijection
<1>8. dir[<<h, k>>].headers # 1 /\ <<h, k>> \in FileNames
  BY <1>0, <1>1
<1>9. dir[<<h, k>>].headers = 0
  BY <1>8 DEF DirSound, FileSound, LogFileType
<1> QED
  BY <1>7, <1>8, <1>9 DEF NextSegment

LEMMA BeginDense ==
    ASSUME NEW dir, NEW n \in Nat, DirSound(dir, ticks, n), Dense(dir, n), NEW h \in Hours,
           NEW k \in 0 .. n, <<h, k>> \in FileNames,
           \A s \in 0 .. MaxLogLines : dir[<<h, s>>].headers = 1 <=> s < k
    PROVE  Dense([dir EXCEPT ![<<h, k>>] = WithHeader(Unwritten)], n + 1)
<1> DEFINE to == [dir EXCEPT ![<<h, k>>] = WithHeader(Unwritten)]
<1>0. MaxLogLines \in Nat /\ DOMAIN dir = FileNames /\ FileNames = Hours \X (0 .. MaxLogLines)
  BY LogFilesAssumption DEF DirSound, FileNames, Hours
<1>1. to[<<h, k>>].headers = 1 /\ \A g \in FileNames : g # <<h, k>> => to[g] = dir[g]
  BY <1>0 DEF WithHeader, Unwritten
<1> HIDE DEF to
<1>2. SUFFICES ASSUME NEW i \in Hours
               PROVE  \E m \in 0 .. n + 1 : \A s \in 0 .. MaxLogLines : to[<<i, s>>].headers = 1 <=> s < m
  BY DEF Dense, to
<1>3. CASE i = h
  <2>1. ASSUME NEW s \in 0 .. MaxLogLines PROVE to[<<i, s>>].headers = 1 <=> s < k + 1
    <3>1. CASE s = k
      BY <1>1, <1>3, <3>1
    <3>2. CASE s # k
      <4>1. to[<<i, s>>] = dir[<<i, s>>]
        BY <1>0, <1>1, <3>2
      <4> QED
        BY <4>1, <1>3, <3>2
    <3> QED
      BY <3>1, <3>2
  <2>2. k + 1 \in 0 .. n + 1
    OBVIOUS
  <2> QED
    BY <2>1, <2>2
<1>4. CASE i # h
  <2>1. PICK m \in 0 .. n : \A s \in 0 .. MaxLogLines : dir[<<i, s>>].headers = 1 <=> s < m
    BY DEF Dense
  <2>2. \A s \in 0 .. MaxLogLines : to[<<i, s>>] = dir[<<i, s>>]
    BY <1>0, <1>1, <1>4
  <2>3. m \in 0 .. n + 1
    OBVIOUS
  <2> QED
    BY <2>1, <2>2, <2>3
<1> QED
  BY <1>3, <1>4

\* The parts of a write_line.
HourFor(w) == taken[w] \div Hour
SameHour(w) == handle # Closed /\ handle[1] = HourFor(w)
FirstFile(w) == IF SameHour(w) THEN handle ELSE <<HourFor(w), 0>>
OpenedDir(w) == IF SameHour(w) THEN files ELSE OpenFor(CloseFile(files, handle), FirstFile(w))
Rotates(w) == IsFull(OpenedDir(w)[FirstFile(w)])
TargetFile(w) == IF Rotates(w) THEN NextSegment(OpenedDir(w), HourFor(w)) ELSE FirstFile(w)
ReadyDir(w) ==
    IF Rotates(w) THEN OpenSegment(CloseFile(OpenedDir(w), FirstFile(w)), TargetFile(w)) ELSE OpenedDir(w)
WrittenDir(w) == [ReadyDir(w) EXCEPT ![TargetFile(w)].lines = Append(@, Len(stamps) + 1)]

Takers == {w \in LogThreads : taken[w] # NoTime}
LogTypes ==
    /\ ticks \in 0 .. MaxTicks /\ stamps \in Seq(Nat) /\ logKills \in Nat
    /\ Len(stamps) + Cardinality(Takers) <= MaxLogLines
    /\ taken \in [LogThreads -> Nat \cup {NoTime}]
    /\ \A w \in Takers : taken[w] <= ticks /\ ticks <= taken[w] + 1
    /\ handle = Closed \/ (handle \in FileNames /\ files[handle].headers = 1)
    /\ DirSound(files, ticks, Len(stamps)) /\ Dense(files, Len(stamps))

\* Another directory with the same lines and the same files.
SameFiles(dir, to) ==
    \A g \in FileNames :
        to[g].lines = dir[g].lines /\ to[g].linked = dir[g].linked /\ to[g].headers = dir[g].headers

LEMMA SameDense ==
    ASSUME NEW dir, NEW to, NEW n, Dense(dir, n), SameFiles(dir, to)
    PROVE  Dense(to, n)
<1>1. \A h \in Hours, s \in 0 .. MaxLogLines : to[<<h, s>>].headers = dir[<<h, s>>].headers
  <2>1. \A h \in Hours, s \in 0 .. MaxLogLines : <<h, s>> \in FileNames
    BY DEF FileNames, Hours
  <2> QED
    BY <2>1 DEF SameFiles
<1>2. SUFFICES ASSUME NEW h \in Hours
               PROVE  \E k \in 0 .. n : \A s \in 0 .. MaxLogLines : to[<<h, s>>].headers = 1 <=> s < k
  BY DEF Dense
<1>3. PICK k \in 0 .. n : \A s \in 0 .. MaxLogLines : dir[<<h, s>>].headers = 1 <=> s < k
  BY DEF Dense
<1> QED
  BY <1>1, <1>3

\* The file that write_line gets for its line is one of its hour that is there, is not
\* full, and whatever was opened and closed before, every other line is where it was.
LEMMA FileIsReady ==
    ASSUME LogTypes, NEW w \in Takers
    PROVE  /\ TargetFile(w) \in FileNames /\ TargetFile(w)[1] = HourFor(w)
           /\ DirSound(ReadyDir(w), ticks, Len(stamps)) /\ Dense(ReadyDir(w), Len(stamps) + 1)
           /\ ReadyDir(w)[TargetFile(w)].linked /\ ReadyDir(w)[TargetFile(w)].headers = 1
           /\ Len(ReadyDir(w)[TargetFile(w)].lines) < MaxFileLines
           /\ \A g \in FileNames : ReadyDir(w)[g].lines = files[g].lines
           /\ \A g \in FileNames : files[g].headers <= ReadyDir(w)[g].headers
           /\ \A g \in FileNames \ {TargetFile(w)} : ReadyDir(w)[g].linked = files[g].linked
           /\ files[TargetFile(w)].linked \/ files[TargetFile(w)].lines = <<>>
           /\ Len(stamps) < MaxLogLines /\ HourFor(w) \in Hours
           /\ HourFor(w) * Hour <= ticks /\ ticks <= HourFor(w) * Hour + Hour
<1> DEFINE h == HourFor(w)
           n == Len(stamps)
           first == FirstFile(w)
           D == IF SameHour(w) THEN files ELSE CloseFile(files, handle)
<1>0. /\ MaxLogLines \in Nat /\ MaxFileLines \in Nat /\ MaxFileLines > 0 /\ MaxTicks \in Nat
      /\ Hour \in Nat /\ ticks \in Nat /\ ticks <= MaxTicks /\ n \in Nat /\ IsFiniteSet(LogThreads)
  BY LogFilesAssumption DEF LogTypes
<1>1. n < MaxLogLines
  <2>1. IsFiniteSet(Takers)
    BY <1>0, FS_Subset DEF Takers
  <2>2. Cardinality(Takers) \in Nat /\ Cardinality(Takers) # 0
    BY <2>1, FS_CardinalityType, FS_EmptySet
  <2> QED
    BY <1>0, <2>2 DEF LogTypes
<1>2. taken[w] \in Nat /\ taken[w] <= ticks /\ ticks <= taken[w] + 1 /\ taken[w] <= MaxTicks
  BY <1>0 DEF LogTypes, Takers
<1>3. h \in Nat /\ h * Hour <= taken[w] /\ taken[w] < h * Hour + Hour /\ h <= MaxTicks \div Hour
      /\ MaxTicks \div Hour \in Nat
  <2> DEFINE a == taken[w]
  <2>1. a \in Nat /\ MaxTicks \in Nat /\ a <= MaxTicks /\ MaxTicks <= MaxTicks
    BY <1>0, <1>2
  <2> HIDE DEF a
  <2>2. /\ a \div Hour \in Nat /\ (a \div Hour) * Hour <= a /\ a < (a \div Hour) * Hour + Hour
        /\ a \div Hour <= MaxTicks \div Hour
    BY ONLY <2>1, HourOf
  <2>3. MaxTicks \div Hour \in Nat
    BY ONLY <2>1, HourOf
  <2> QED
    BY <2>2, <2>3 DEF a, HourFor
<1>4. h \in Hours /\ h * Hour <= ticks /\ ticks <= h * Hour + Hour /\ h * Hour \in Nat
  <2> HIDE DEF h
  <2>1. h * Hour \in Nat
    BY <1>0, <1>3
  <2> QED
    BY <2>1, <1>0, <1>2, <1>3 DEF Hours
<1> HIDE DEF h
<1>5. FileNames = Hours \X (0 .. MaxLogLines)
  BY DEF FileNames, Hours
<1>6. handle = Closed \/ (handle \in FileNames /\ files[handle].headers = 1)
  BY DEF LogTypes
<1>7. DirSound(D, ticks, n) /\ SameFiles(files, D)
  <2>1. DirSound(files, ticks, n)
    BY DEF LogTypes
  <2>2. CASE SameHour(w)
    BY <2>1, <2>2 DEF SameFiles
  <2>3. CASE ~ SameHour(w)
    BY <2>1, <2>3, <1>0, <1>6, FlushSound DEF SameFiles, CloseFile
  <2> QED
    BY <2>2, <2>3
<1>8. PICK k \in 0 .. n : \A s \in 0 .. MaxLogLines : files[<<h, s>>].headers = 1 <=> s < k
  BY <1>4 DEF LogTypes, Dense
<1>9. k \in 0 .. MaxLogLines /\ <<h, k>> \in FileNames /\ <<h, 0>> \in FileNames
  BY <1>0, <1>1, <1>4, <1>5
<1>10. \A g \in FileNames : g[1] = h /\ files[g].headers = 1 => files[g].linked
  BY <1>0, <1>4, <1>5 DEF LogTypes, DirSound, FileSound
<1>11. first \in FileNames /\ first[1] = h
  BY <1>6, <1>9 DEF FirstFile, SameHour, h
<1>12. Dense(D, n)
  BY <1>7, SameDense DEF LogTypes
<1>12a. \A g \in FileNames : files[g].headers \in Nat /\ D[g].headers = files[g].headers
  BY <1>7 DEF LogTypes, DirSound, LogFileType, SameFiles
<1> HIDE DEF D, n, first
<1>13. ASSUME NEW dir, SameFiles(files, dir)
       PROVE  /\ \A s \in 0 .. MaxLogLines : dir[<<h, s>>].headers = 1 <=> s < k
              /\ \A s \in 0 .. MaxLogLines : dir[<<h, s>>].headers = 1 => dir[<<h, s>>].linked
  BY <1>4, <1>5, <1>8, <1>10, <1>13 DEF SameFiles
<1>14. CASE D[first].linked
  <2>1. OpenedDir(w) = D
    BY <1>14 DEF OpenedDir, OpenFor, D, first
  <2>2. D[first].headers = 1
    BY <1>7, <1>11, <1>14 DEF DirSound, FileSound, LogFileType
  <2>3. CASE ~ Rotates(w)
    <3>1. ReadyDir(w) = D /\ TargetFile(w) = first
      BY <2>1, <2>3 DEF ReadyDir, TargetFile, first
    <3>2. Len(D[first].lines) < MaxFileLines
      <4>1. Len(D[first].lines) \in Nat
        BY <1>7, <1>11 DEF DirSound, LogFileType
      <4> QED
        BY <4>1, <1>0, <2>1, <2>3 DEF Rotates, IsFull, first
    <3>3. Dense(D, n + 1)
      BY <1>12, <1>0 DEF Dense, n
    <3>4. \A g \in FileNames : files[g].headers <= D[g].headers
      BY <1>12a
    <3> QED
      BY <3>1, <3>2, <3>3, <3>4, <2>2, <1>1, <1>4, <1>7, <1>11, <1>14 DEF SameFiles, h, n
  <2>4. CASE Rotates(w)
    <3> DEFINE C == CloseFile(D, first)
               target == <<h, k>>
    <3>1. DirSound(C, ticks, n) /\ SameFiles(files, C)
      BY <1>0, <1>7, <1>11, <2>2, FlushSound DEF CloseFile, SameFiles, n
    <3>2. NextSegment(D, h) = target /\ D[target].headers = 0
      BY <1>0, <1>4, <1>7, <1>9, <1>13, NextIsNew DEF n
    <3>3. C[target].headers = 0 /\ ~ C[target].linked
      BY <3>1, <3>2, <1>7, <1>9 DEF SameFiles, DirSound, FileSound
    <3> HIDE DEF C
    <3>4. TargetFile(w) = target /\ ReadyDir(w) = Begin(C, target)
      BY <2>1, <2>4, <3>2, <3>3 DEF TargetFile, ReadyDir, OpenSegment, Begin, C, h, first
    <3>5. /\ DirSound(Begin(C, target), ticks, n) /\ Begin(C, target)[target].headers = 1
          /\ Begin(C, target)[target].linked /\ Begin(C, target)[target].lines = <<>>
          /\ \A g \in FileNames \ {target} : Begin(C, target)[g] = C[g]
          /\ C[target].lines = <<>>
      BY <3>1, <3>3, <1>0, <1>4, <1>9, BeginSound DEF n
    <3>6. Dense(C, n)
      BY <3>1, SameDense DEF LogTypes, n
    <3>7. Dense(Begin(C, target), n + 1)
      BY <3>1, <3>6, <1>0, <1>4, <1>9, <1>13, BeginDense DEF Begin, n
    <3>8. \A g \in FileNames : files[g].headers <= Begin(C, target)[g].headers
      BY <3>1, <3>3, <3>5, <1>9, <1>12a DEF SameFiles
    <3>9. files[target].lines = <<>> /\ \A g \in FileNames : Begin(C, target)[g].lines = files[g].lines
      BY <3>1, <3>5, <1>9 DEF SameFiles
    <3>10. \A g \in FileNames \ {target} : Begin(C, target)[g].linked = files[g].linked
      BY <3>1, <3>5 DEF SameFiles
    <3>11. Len(Begin(C, target)[target].lines) < MaxFileLines
      BY <3>5, <1>0
    <3> QED
      BY <3>4, <3>5, <3>7, <3>8, <3>9, <3>10, <3>11, <1>1, <1>4, <1>9 DEF h, n
  <2> QED
    BY <2>3, <2>4
<1>15. CASE ~ D[first].linked
  <2>1. files[first].headers = 0 /\ D[first].headers = 0
    BY <1>7, <1>10, <1>11, <1>15 DEF SameFiles, DirSound, FileSound, LogFileType
  <2>2. ~ SameHour(w) /\ first = <<h, 0>>
    BY <1>6, <2>1 DEF FirstFile, first, SameHour, h
  <2>3. k = 0
    BY <1>0, <1>8, <2>1, <2>2
  <2>4. OpenedDir(w) = Begin(D, first)
    BY <2>2, <1>15 DEF OpenedDir, OpenFor, Begin, D, first
  <2>5. /\ DirSound(Begin(D, first), ticks, n) /\ Begin(D, first)[first].headers = 1
        /\ Begin(D, first)[first].linked /\ Begin(D, first)[first].lines = <<>>
        /\ \A g \in FileNames \ {first} : Begin(D, first)[g] = D[g]
        /\ D[first].lines = <<>>
    BY <2>1, <1>0, <1>4, <1>7, <1>11, BeginSound DEF n
  <2>6. ~ Rotates(w) /\ Len(Begin(D, first)[first].lines) < MaxFileLines
    BY <2>4, <2>5, <1>0 DEF Rotates, IsFull, first
  <2>7. TargetFile(w) = first /\ ReadyDir(w) = Begin(D, first)
    BY <2>4, <2>6 DEF TargetFile, ReadyDir, first
  <2>8. Dense(Begin(D, first), n + 1)
    BY <1>0, <1>4, <1>7, <1>9, <1>12, <1>13, <2>2, <2>3, BeginDense DEF Begin, n
  <2>9. \A g \in FileNames : files[g].headers <= Begin(D, first)[g].headers
    BY <2>1, <2>5, <1>11, <1>12a
  <2>10. files[first].lines = <<>> /\ \A g \in FileNames : Begin(D, first)[g].lines = files[g].lines
    BY <1>7, <2>5, <1>11 DEF SameFiles
  <2>11. \A g \in FileNames \ {first} : Begin(D, first)[g].linked = files[g].linked
    BY <1>7, <2>5 DEF SameFiles
  <2> QED
    BY <2>5, <2>6, <2>7, <2>8, <2>9, <2>10, <2>11, <1>1, <1>4, <1>11 DEF h, n
<1> QED
  BY <1>14, <1>15

\* Each line is in one place of one file, or gone: with a file that was deleted, or
\* with a kill.  A file has no line that is younger than the end of its hour.
Gone(n, dead, deleted) == n \in dead \/ \E r \in deleted : r[1] = n
LinesPlaced(dir, st, dead, deleted) ==
    /\ \A f \in FileNames : \A i \in DOMAIN dir[f].lines :
          dir[f].lines[i] \in 1 .. Len(st) /\ st[dir[f].lines[i]] <= f[1] * Hour + Hour
    /\ \A f, g \in FileNames : \A i \in DOMAIN dir[f].lines, j \in DOMAIN dir[g].lines :
          dir[f].lines[i] = dir[g].lines[j] => f = g /\ i = j
    /\ \A f \in FileNames : dir[f].linked =>
          \A i \in DOMAIN dir[f].lines : ~ Gone(dir[f].lines[i], dead, deleted)
    /\ \A n \in 1 .. Len(st) : \/ Gone(n, dead, deleted)
                               \/ \E f \in FileNames : /\ dir[f].linked
                                                       /\ \E i \in DOMAIN dir[f].lines : dir[f].lines[i] = n
    /\ dead \subseteq 1 .. Len(st)
    /\ \A r \in deleted : r[1] \in 1 .. Len(st) /\ r[2] > Retention - Hour

LEMMA SamePlaces ==
    ASSUME NEW dir, NEW to, NEW st, NEW dead, NEW deleted, SameFiles(dir, to),
           LinesPlaced(dir, st, dead, deleted)
    PROVE  LinesPlaced(to, st, dead, deleted)
BY DEF SameFiles, LinesPlaced

LEMMA LinePlaced ==
    ASSUME NEW dir \in [FileNames -> LogFileType], NEW to, NEW st \in Seq(Nat), NEW dead, NEW deleted,
           LinesPlaced(dir, st, dead, deleted),
           NEW T \in FileNames, NEW t \in Nat, t <= T[1] * Hour + Hour,
           \A g \in FileNames \ {T} : to[g].lines = dir[g].lines /\ to[g].linked = dir[g].linked,
           to[T].lines = Append(dir[T].lines, Len(st) + 1), to[T].linked,
           dir[T].linked \/ dir[T].lines = <<>>
    PROVE  LinesPlaced(to, Append(st, t), dead, deleted)
<1> DEFINE N == Len(st) + 1
           old == dir[T].lines
           L == Len(old)
           stt == Append(st, t)
<1>0. /\ Len(st) \in Nat /\ N \in Nat /\ Len(stt) = N /\ stt[N] = t
      /\ \A n \in 1 .. Len(st) : stt[n] = st[n] /\ n # N
      /\ 1 .. N = (1 .. Len(st)) \cup {N} /\ N \notin 1 .. Len(st)
  OBVIOUS
<1>1. old \in Seq(Nat) /\ L \in Nat /\ DOMAIN old = 1 .. L
  BY DEF LogFileType
<1>2. /\ DOMAIN to[T].lines = (DOMAIN old) \cup {L + 1} /\ L + 1 \notin DOMAIN old /\ to[T].lines[L + 1] = N
      /\ \A i \in DOMAIN old : to[T].lines[i] = old[i]
  BY <1>1
<1> HIDE DEF N, old, L, stt
<1>3. \A f \in FileNames : \A i \in DOMAIN to[f].lines :
         \/ i \in DOMAIN dir[f].lines /\ to[f].lines[i] = dir[f].lines[i]
         \/ f = T /\ i = L + 1 /\ to[f].lines[i] = N
  BY <1>2 DEF old
<1>4. \A f \in FileNames : \A i \in DOMAIN dir[f].lines :
         i \in DOMAIN to[f].lines /\ to[f].lines[i] = dir[f].lines[i] /\ dir[f].lines[i] # N
  BY <1>0, <1>2 DEF old, LinesPlaced
<1>5. ~ Gone(N, dead, deleted)
  BY <1>0 DEF LinesPlaced, Gone
<1>6. ASSUME NEW f \in FileNames, NEW i \in DOMAIN to[f].lines
      PROVE  to[f].lines[i] \in 1 .. N /\ stt[to[f].lines[i]] <= f[1] * Hour + Hour
  <2>1. CASE f = T /\ i = L + 1
    BY <2>1, <1>0, <1>2
  <2>2. CASE i \in DOMAIN dir[f].lines /\ to[f].lines[i] = dir[f].lines[i]
    <3>1. dir[f].lines[i] \in 1 .. Len(st) /\ st[dir[f].lines[i]] <= f[1] * Hour + Hour
      BY <2>2 DEF LinesPlaced
    <3>2. stt[dir[f].lines[i]] = st[dir[f].lines[i]]
      BY <1>0, <3>1
    <3> QED
      BY <1>0, <2>2, <3>1, <3>2
  <2> QED
    BY <1>3, <2>1, <2>2
<1>7. ASSUME NEW f \in FileNames, NEW g \in FileNames, NEW i \in DOMAIN to[f].lines,
             NEW j \in DOMAIN to[g].lines, to[f].lines[i] = to[g].lines[j]
      PROVE  f = g /\ i = j
  BY <1>3, <1>4, <1>7 DEF LinesPlaced
<1>8. ASSUME NEW f \in FileNames, to[f].linked, NEW i \in DOMAIN to[f].lines
      PROVE  ~ Gone(to[f].lines[i], dead, deleted)
  <2>1. CASE f = T /\ i = L + 1
    BY <2>1, <1>2, <1>5
  <2>2. CASE i \in DOMAIN dir[f].lines /\ to[f].lines[i] = dir[f].lines[i]
    <3>1. dir[f].linked
      BY <1>8, <2>2
    <3> QED
      BY <2>2, <3>1 DEF LinesPlaced
  <2> QED
    BY <1>3, <2>1, <2>2
<1>9. ASSUME NEW n \in 1 .. N, ~ Gone(n, dead, deleted)
      PROVE  \E f \in FileNames : to[f].linked /\ \E i \in DOMAIN to[f].lines : to[f].lines[i] = n
  <2>1. CASE n = N
    BY <2>1, <1>2
  <2>2. CASE n \in 1 .. Len(st)
    <3>0. PICK f \in FileNames : dir[f].linked /\ \E i \in DOMAIN dir[f].lines : dir[f].lines[i] = n
      BY <2>2, <1>9 DEF LinesPlaced
    <3>1. PICK i \in DOMAIN dir[f].lines : dir[f].lines[i] = n
      BY <3>0
    <3>2. to[f].linked /\ i \in DOMAIN to[f].lines /\ to[f].lines[i] = n
      <4>1. i \in DOMAIN to[f].lines /\ to[f].lines[i] = n
        BY <3>1, <1>4
      <4> QED
        BY <3>0, <4>1
    <3> QED
      BY <3>2
  <2> QED
    BY <1>0, <2>1, <2>2
<1>10. dead \subseteq 1 .. N /\ \A r \in deleted : r[1] \in 1 .. N /\ r[2] > Retention - Hour
  BY <1>0 DEF LinesPlaced
<1>11. Len(stt) = N
  BY <1>0
<1> QED
  BY <1>6, <1>7, <1>8, <1>9, <1>10, <1>11 DEF LinesPlaced, stt

LEMMA NamesAreNotClosed == Closed \notin FileNames
<1> SUFFICES ASSUME Closed \in FileNames PROVE FALSE
  OBVIOUS
<1>1. PICK a \in Hours, b \in 0 .. MaxLogLines : Closed = <<a, b>>
  BY DEF FileNames, Hours
<1>2. Len(Closed) = 0 /\ Len(<<a, b>>) = 2
  BY DEF Closed
<1> QED
  BY <1>1, <1>2

\* What a write_line does to the directory.
LEMMA LineWritten ==
    ASSUME LogTypes, NEW w \in Takers, WriteLine(w)
    PROVE  /\ DirSound(files', ticks, Len(stamps) + 1) /\ Dense(files', Len(stamps) + 1)
           /\ handle' = TargetFile(w) /\ files'[TargetFile(w)].headers = 1
           /\ files'[TargetFile(w)].lines = Append(files[TargetFile(w)].lines, Len(stamps) + 1)
           /\ files'[TargetFile(w)].linked
           /\ \A g \in FileNames \ {TargetFile(w)} :
                 files'[g].lines = files[g].lines /\ files'[g].linked = files[g].linked
           /\ stamps' = Append(stamps, ticks) /\ removed' = removed
<1> DEFINE T == TargetFile(w)
           R == ReadyDir(w)
           n == Len(stamps)
           old == R[T].lines
           full == Append(old, n + 1)
           V == WrittenDir(w)
           last == files'[T]
<1>1. /\ handle' = T /\ stamps' = Append(stamps, ticks)
      /\ files' = IF FlushDue(V[T]) THEN Flush(V, T) ELSE V
      /\ removed' = removed \cup IF V[T].linked THEN {} ELSE {<<n + 1, 0>>}
  BY DEF WriteLine, HourFor, SameHour, FirstFile, OpenedDir, Rotates, TargetFile, ReadyDir, WrittenDir
<1>2. /\ T \in FileNames /\ DirSound(R, ticks, n) /\ Dense(R, n + 1)
      /\ R[T].linked /\ R[T].headers = 1 /\ Len(R[T].lines) < MaxFileLines
      /\ \A g \in FileNames : R[g].lines = files[g].lines
      /\ \A g \in FileNames \ {T} : R[g].linked = files[g].linked
  BY FileIsReady
<1>3. /\ n \in Nat /\ ticks \in Nat /\ FlushEvery \in Nat /\ FlushEvery > 0 /\ MaxFileLines \in Nat
  BY LogFilesAssumption DEF LogTypes
<1>4. V = [R EXCEPT ![T].lines = Append(@, n + 1)]
  BY DEF WrittenDir
<1> HIDE DEF T, R, V, n
<1>5. R[T] \in LogFileType /\ R \in [FileNames -> LogFileType] /\ FileSound(T, R[T], ticks, n)
  BY <1>2 DEF DirSound
<1>6. full \in Seq(Nat) /\ Len(full) = Len(old) + 1 /\ Len(old) \in Nat
  BY <1>3, <1>5 DEF LogFileType
<1>7. /\ V[T] = [R[T] EXCEPT !.lines = full] /\ DOMAIN V = FileNames
      /\ \A g \in FileNames \ {T} : V[g] = R[g]
  BY <1>2, <1>4, <1>5
<1> HIDE DEF full, old
<1>8. /\ V[T] \in LogFileType /\ V[T].linked /\ V[T].headers = 1 /\ V[T].lines = full
      /\ V[T].flushed = R[T].flushed /\ V[T].mtime = R[T].mtime
  BY <1>2, <1>5, <1>6, <1>7 DEF LogFileType
<1>9. V \in [FileNames -> LogFileType]
  <2>1. V = [R EXCEPT ![T] = V[T]]
    BY <1>4, <1>5, <1>2
  <2> QED
    BY <2>1, <1>5, <1>8
<1>10. removed' = removed
  BY <1>1, <1>8
<1>11. /\ last \in LogFileType /\ last.linked /\ last.headers = 1 /\ last.lines = full
       /\ \/ last.flushed = Len(full) /\ last.mtime = ticks
          \/ /\ last.flushed = R[T].flushed /\ last.mtime = R[T].mtime
             /\ Len(full) < R[T].flushed + FlushEvery
       /\ \A g \in FileNames \ {T} : files'[g] = R[g]
       /\ files' \in [FileNames -> LogFileType]
  <2>0. R[T].flushed \in Nat /\ V[T].flushed \in Nat
    BY <1>5, <1>8 DEF LogFileType
  <2>1. CASE ~ FlushDue(V[T])
    <3>1. files' = V
      BY <1>1, <2>1
    <3>2. Len(full) < R[T].flushed + FlushEvery
      BY <1>3, <1>6, <1>8, <2>0, <2>1 DEF FlushDue
    <3> QED
      BY <3>1, <3>2, <1>7, <1>8, <1>9
  <2>2. CASE FlushDue(V[T])
    <3> DEFINE a == [V[T] EXCEPT !.flushed = Len(full)]
               b == [a EXCEPT !.mtime = ticks]
    <3>0. T # Closed
      BY <1>2, NamesAreNotClosed
    <3>1. V[T].flushed # Len(V[T].lines) /\ T # Closed
      BY <1>3, <1>6, <1>8, <2>0, <2>2, <3>0 DEF FlushDue
    <3>2. files' = [V EXCEPT ![T].flushed = Len(V[T].lines), ![T].mtime = ticks]
      BY <1>1, <2>2, <3>1 DEF Flush
    <3>3. files' = [V EXCEPT ![T] = b]
      BY <3>2, <1>2, <1>8, <1>9
    <3>4. a \in LogFileType /\ a.linked /\ a.headers = 1 /\ a.lines = full /\ a.flushed = Len(full)
      BY <1>6, <1>8 DEF LogFileType
    <3> HIDE DEF a
    <3>5. b \in LogFileType /\ b.linked /\ b.headers = 1 /\ b.lines = full /\ b.flushed = Len(full)
          /\ b.mtime = ticks
      BY <1>3, <3>4 DEF LogFileType
    <3> HIDE DEF b
    <3> QED
      BY <3>3, <3>5, <1>2, <1>7, <1>9
  <2> QED
    BY <2>1, <2>2
<1>12. FileSound(T, last, ticks, n + 1)
  <2>1. T[1] * Hour \in Int
    BY <1>2, LogFilesAssumption DEF FileNames
  <2>2. R[T].flushed \in Nat /\ R[T].mtime \in Nat
    BY <1>5 DEF LogFileType
  <2>3. Len(old) < MaxFileLines /\ Len(old) <= n /\ R[T].flushed <= Len(old)
        /\ T[1] * Hour <= R[T].mtime /\ R[T].mtime <= ticks
    BY <1>2, <1>5 DEF FileSound, old
  <2>4. /\ last.headers = 1 /\ last.linked /\ last.lines = full
        /\ \/ last.flushed = Len(full) /\ last.mtime = ticks
           \/ /\ last.flushed = R[T].flushed /\ last.mtime = R[T].mtime
              /\ Len(full) < R[T].flushed + FlushEvery
    BY <1>11
  <2>5. Len(full) <= MaxFileLines /\ Len(full) <= n + 1 /\ R[T].flushed <= Len(full) /\ Len(full) \in Nat
    BY <2>2, <2>3, <1>3, <1>6
  <2> HIDE DEF last
  <2>6. last.flushed <= Len(full) /\ Len(full) < last.flushed + FlushEvery
    BY <2>2, <2>4, <2>5, <1>3
  <2>7. T[1] * Hour <= last.mtime /\ last.mtime <= ticks
    BY <2>1, <2>2, <2>3, <2>4, <1>3
  <2> QED
    BY <2>4, <2>5, <2>6, <2>7 DEF FileSound
<1>13. ASSUME NEW g \in FileNames PROVE FileSound(g, files'[g], ticks, n + 1)
  <2>1. CASE g = T
    BY <2>1, <1>12
  <2>2. CASE g # T
    <3>1. files'[g] = R[g] /\ FileSound(g, R[g], ticks, n) /\ R[g] \in LogFileType
      BY <2>2, <1>2, <1>11 DEF DirSound
    <3>2. Len(R[g].lines) \in Nat
      BY <3>1 DEF LogFileType
    <3> QED
      BY <3>1, <3>2, <1>3 DEF FileSound
  <2> QED
    BY <2>1, <2>2
<1>14. DirSound(files', ticks, n + 1)
  BY <1>11, <1>13 DEF DirSound
<1>15. Dense(files', n + 1)
  <2>1. \A g \in FileNames : files'[g].headers = R[g].headers
    BY <1>2, <1>11
  <2>2. \A h \in Hours, s \in 0 .. MaxLogLines : <<h, s>> \in FileNames
    BY DEF FileNames, Hours
  <2>3. \A h \in Hours, s \in 0 .. MaxLogLines : files'[<<h, s>>].headers = R[<<h, s>>].headers
    BY <2>1, <2>2
  <2>4. SUFFICES ASSUME NEW h \in Hours
                 PROVE  \E k \in 0 .. n + 1 : \A s \in 0 .. MaxLogLines : files'[<<h, s>>].headers = 1 <=> s < k
    BY DEF Dense
  <2>5. PICK k \in 0 .. n + 1 : \A s \in 0 .. MaxLogLines : R[<<h, s>>].headers = 1 <=> s < k
    BY <1>2 DEF Dense
  <2> QED
    BY <2>3, <2>5
<1>16. files'[T].lines = Append(files[T].lines, n + 1)
  BY <1>2, <1>11 DEF full, old
<1>17. \A g \in FileNames \ {T} : files'[g].lines = files[g].lines /\ files'[g].linked = files[g].linked
  BY <1>2, <1>11
<1> QED
  BY <1>1, <1>10, <1>11, <1>14, <1>15, <1>16, <1>17 DEF T, n

LogInv ==
    /\ LogTypes /\ LinesPlaced(files, stamps, lost, removed)
    /\ IsFiniteSet(lost) /\ LossBounded

\* An hour on the clock is an hour more for those who are late.
LEMMA SoundLater ==
    ASSUME NEW dir, NEW t \in Nat, NEW n \in Nat, DirSound(dir, t, n)
    PROVE  DirSound(dir, t + 1, n)
<1> SUFFICES ASSUME NEW f \in FileNames PROVE FileSound(f, dir[f], t + 1, n)
  BY DEF DirSound
<1>1. FileSound(f, dir[f], t, n) /\ dir[f].mtime \in Nat /\ f[1] * Hour \in Int /\ Hour \in Nat
  BY LogFilesAssumption DEF DirSound, LogFileType, FileNames
<1> QED
  BY <1>1 DEF FileSound

LEMMA TypesFinite == LogTypes => IsFiniteSet(Takers) /\ Cardinality(Takers) \in Nat /\ Len(stamps) \in Nat
BY LogFilesAssumption, FS_Subset, FS_CardinalityType DEF Takers, LogTypes

LEMMA PassKeeps == LogInv /\ Pass => LogInv'
<1> SUFFICES ASSUME LogInv, Pass PROVE LogInv'
  OBVIOUS
<1>1. /\ UNCHANGED <<taken, handle, files, stamps, removed, lost, logKills>>
      /\ ticks' = ticks + 1 /\ ticks \in Nat /\ ticks' \in 0 .. MaxTicks
      /\ \A w \in LogThreads : taken[w] \in {NoTime, ticks}
  BY LogFilesAssumption DEF Pass, LogInv, LogTypes
<1>2. Takers' = Takers
  BY <1>1 DEF Takers
<1>3. DirSound(files', ticks', Len(stamps'))
  BY <1>1, SoundLater, TypesFinite DEF LogInv, LogTypes
<1>4. \A w \in Takers' : taken'[w] <= ticks' /\ ticks' <= taken'[w] + 1
  BY <1>1 DEF Takers
<1>5. LogTypes'
  BY <1>1, <1>2, <1>3, <1>4 DEF LogInv, LogTypes, Dense
<1> QED
  BY <1>1, <1>5 DEF LogInv, LinesPlaced, LossBounded

LEMMA TakeTimeKeeps == ASSUME LogInv, NEW w \in LogThreads, TakeTime(w) PROVE LogInv'
<1>1. /\ UNCHANGED <<ticks, handle, files, stamps, removed, lost, logKills>>
      /\ taken' = [taken EXCEPT ![w] = ticks] /\ taken[w] = NoTime /\ ticks \in Nat
      /\ taken \in [LogThreads -> Nat \cup {NoTime}] /\ taken' \in [LogThreads -> Nat \cup {NoTime}]
      /\ Len(stamps) + Cardinality(Takers) < MaxLogLines
  BY LogFilesAssumption DEF TakeTime, Takers, LogInv, LogTypes
<1>2. Takers' = Takers \cup {w} /\ w \notin Takers
  BY <1>1 DEF Takers, NoTime
<1>3. IsFiniteSet(Takers) /\ Cardinality(Takers) \in Nat /\ Len(stamps) \in Nat /\ MaxLogLines \in Nat
  BY TypesFinite, LogFilesAssumption DEF LogInv
<1>4. Cardinality(Takers') = Cardinality(Takers) + 1
  BY <1>2, <1>3, FS_AddElement
<1>5. Len(stamps') + Cardinality(Takers') <= MaxLogLines
  BY <1>1, <1>3, <1>4
<1>6. \A v \in Takers' : taken'[v] <= ticks' /\ ticks' <= taken'[v] + 1
  BY <1>1, <1>2 DEF LogInv, LogTypes, Takers
<1>7. LogTypes'
  BY <1>1, <1>5, <1>6 DEF LogInv, LogTypes, Dense
<1> QED
  BY <1>1, <1>7 DEF LogInv, LinesPlaced, LossBounded

LEMMA WriteLineKeeps == ASSUME LogInv, NEW w \in LogThreads, WriteLine(w) PROVE LogInv'
<1>0. LogTypes /\ w \in Takers
  BY DEF LogInv, WriteLine, Takers
<1>1. /\ DirSound(files', ticks, Len(stamps) + 1) /\ Dense(files', Len(stamps) + 1)
      /\ handle' = TargetFile(w) /\ files'[TargetFile(w)].headers = 1
      /\ files'[TargetFile(w)].lines = Append(files[TargetFile(w)].lines, Len(stamps) + 1)
      /\ files'[TargetFile(w)].linked
      /\ \A g \in FileNames \ {TargetFile(w)} :
            files'[g].lines = files[g].lines /\ files'[g].linked = files[g].linked
      /\ stamps' = Append(stamps, ticks) /\ removed' = removed
  BY <1>0, LineWritten
<1>2. /\ TargetFile(w) \in FileNames /\ TargetFile(w)[1] = HourFor(w)
      /\ ticks <= HourFor(w) * Hour + Hour
      /\ files[TargetFile(w)].linked \/ files[TargetFile(w)].lines = <<>>
  BY <1>0, FileIsReady
<1>3. /\ ticks' = ticks /\ lost' = lost /\ logKills' = logKills /\ taken' = [taken EXCEPT ![w] = NoTime]
      /\ stamps \in Seq(Nat) /\ ticks \in Nat /\ taken \in [LogThreads -> Nat \cup {NoTime}]
      /\ files \in [FileNames -> LogFileType]
  <2>1. ticks' = ticks /\ lost' = lost /\ logKills' = logKills /\ taken' = [taken EXCEPT ![w] = NoTime]
    BY DEF WriteLine
  <2>2. /\ stamps \in Seq(Nat) /\ ticks \in Nat /\ taken \in [LogThreads -> Nat \cup {NoTime}]
        /\ files \in [FileNames -> LogFileType]
    BY <1>0, LogFilesAssumption DEF LogTypes, DirSound
  <2> QED
    BY <2>1, <2>2
<1>4. LinesPlaced(files', stamps', lost', removed')
  <2>1. LinesPlaced(files, stamps, lost, removed)
    BY DEF LogInv
  <2>2. LinesPlaced(files', Append(stamps, ticks), lost, removed)
    BY <2>1, <1>1, <1>2, <1>3, LinePlaced
  <2> QED
    BY <2>2, <1>1, <1>3
<1>5. Len(stamps') = Len(stamps) + 1 /\ stamps' \in Seq(Nat)
  BY <1>1, <1>3
<1>6. Takers' = Takers \ {w}
  BY <1>3 DEF Takers
<1>7. IsFiniteSet(Takers) /\ Cardinality(Takers) \in Nat /\ Len(stamps) \in Nat /\ MaxLogLines \in Nat
  BY TypesFinite, LogFilesAssumption DEF LogInv
<1>8. Cardinality(Takers') = Cardinality(Takers) - 1
  BY <1>0, <1>6, <1>7, FS_RemoveElement
<1>9. Len(stamps') + Cardinality(Takers') <= MaxLogLines
  BY <1>0, <1>5, <1>7, <1>8 DEF LogTypes
<1>10. \A v \in Takers' : taken'[v] <= ticks' /\ ticks' <= taken'[v] + 1
  BY <1>0, <1>3, <1>6 DEF LogTypes, Takers
<1>11. taken' \in [LogThreads -> Nat \cup {NoTime}]
  BY <1>3
<1>12. LogTypes'
  BY <1>0, <1>1, <1>2, <1>3, <1>5, <1>9, <1>10, <1>11 DEF LogTypes
<1> QED
  BY <1>3, <1>4, <1>12 DEF LogInv, LossBounded

LEMMA CloseWriterKeeps == LogInv /\ CloseWriter => LogInv'
<1> SUFFICES ASSUME LogInv, CloseWriter PROVE LogInv'
  OBVIOUS
<1>1. /\ UNCHANGED <<ticks, taken, stamps, removed, lost, logKills>> /\ handle' = Closed
      /\ files' = Flush(files, handle) /\ ticks \in Nat /\ Len(stamps) \in Nat
      /\ handle = Closed \/ (handle \in FileNames /\ files[handle].headers = 1)
      /\ DirSound(files, ticks, Len(stamps)) /\ Dense(files, Len(stamps))
  BY LogFilesAssumption, TypesFinite DEF CloseWriter, CloseFile, LogInv, LogTypes
<1>2. DirSound(files', ticks, Len(stamps)) /\ SameFiles(files, files')
  BY <1>1, FlushSound DEF SameFiles
<1>3. Dense(files', Len(stamps)) /\ LinesPlaced(files', stamps, lost, removed)
  BY <1>1, <1>2, SameDense, SamePlaces DEF LogInv
<1>4. Takers' = Takers
  BY <1>1 DEF Takers
<1>5. LogTypes'
  BY <1>1, <1>2, <1>3, <1>4 DEF LogInv, LogTypes
<1> QED
  BY <1>1, <1>3, <1>5 DEF LogInv, LossBounded

\* A file that is deleted was last flushed more than an hour ago: nobody writes to its
\* hour, and its lines are older than the window less an hour.
LEMMA RetentionKeeps == LogInv /\ EnforceRetention => LogInv'
<1> SUFFICES ASSUME LogInv, EnforceRetention PROVE LogInv'
  OBVIOUS
<1> DEFINE expired == {f \in FileNames : Expired(f)}
           n == Len(stamps)
<1>1. /\ UNCHANGED <<ticks, taken, handle, stamps, lost, logKills>>
      /\ files' = [f \in FileNames |->
              IF f \in expired THEN [files[f] EXCEPT !.linked = FALSE] ELSE files[f]]
      /\ removed' = removed \cup
              UNION {{<<files[f].lines[i], ticks - stamps[files[f].lines[i]]>> :
                         i \in DOMAIN files[f].lines} : f \in expired}
      /\ Retention > 0
  BY DEF EnforceRetention
<1>2. /\ ticks \in Nat /\ n \in Nat /\ stamps \in Seq(Nat) /\ Retention \in Nat /\ Retention >= Hour /\ Hour \in Nat
      /\ DirSound(files, ticks, n) /\ Dense(files, n) /\ LinesPlaced(files, stamps, lost, removed)
  BY <1>1, LogFilesAssumption, TypesFinite DEF LogInv, LogTypes
<1>3. \A f \in FileNames : files[f] \in LogFileType /\ FileSound(f, files[f], ticks, n) /\ f[1] * Hour \in Int
  BY <1>2 DEF DirSound, FileNames
<1>4. ASSUME NEW f \in FileNames
      PROVE  /\ files'[f] \in LogFileType /\ files'[f].lines = files[f].lines /\ files'[f].headers = files[f].headers
             /\ files'[f].flushed = files[f].flushed /\ files'[f].mtime = files[f].mtime
             /\ files'[f].linked <=> files[f].linked /\ f \notin expired
  <2>1. CASE f \in expired
    BY <1>1, <1>3, <2>1 DEF LogFileType
  <2>2. CASE f \notin expired
    BY <1>1, <1>3, <2>2
  <2> QED
    BY <2>1, <2>2
<1>5. \A f \in expired : /\ f \in FileNames /\ files[f].linked /\ files[f].headers = 1
                         /\ files[f].mtime < ticks - Retention /\ f[1] * Hour <= files[f].mtime
                         /\ files[f].mtime \in Nat
  BY <1>3 DEF Expired, FileSound, LogFileType
<1>6. ASSUME NEW f \in FileNames PROVE FileSound(f, files'[f], ticks, n)
  <2>1. CASE f \in expired
    <3>1. f[1] * Hour + Hour < ticks
      BY <1>2, <1>3, <1>5, <2>1
    <3> QED
      BY <1>3, <1>4, <1>5, <2>1, <3>1 DEF FileSound
  <2>2. CASE f \notin expired
    BY <1>1, <1>3, <2>2
  <2> QED
    BY <2>1, <2>2
<1>7. DirSound(files', ticks, n)
  <2>1. files' \in [FileNames -> LogFileType]
    BY <1>1, <1>4
  <2> QED
    BY <1>6, <2>1 DEF DirSound
<1>8. Dense(files', n)
  <2>1. \A h \in Hours, s \in 0 .. MaxLogLines : <<h, s>> \in FileNames
    BY DEF FileNames, Hours
  <2>2. \A h \in Hours, s \in 0 .. MaxLogLines : files'[<<h, s>>].headers = files[<<h, s>>].headers
    BY <1>4, <2>1
  <2>3. SUFFICES ASSUME NEW h \in Hours
                 PROVE  \E k \in 0 .. n : \A s \in 0 .. MaxLogLines : files'[<<h, s>>].headers = 1 <=> s < k
    BY DEF Dense
  <2>4. PICK k \in 0 .. n : \A s \in 0 .. MaxLogLines : files[<<h, s>>].headers = 1 <=> s < k
    BY <1>2 DEF Dense
  <2> QED
    BY <2>2, <2>4
<1>9. \A m : (\E r \in removed' : r[1] = m) <=>
                \/ \E r \in removed : r[1] = m
                \/ \E f \in expired : \E i \in DOMAIN files[f].lines : files[f].lines[i] = m
  <2> SUFFICES ASSUME NEW m
               PROVE  (\E r \in removed' : r[1] = m) <=>
                          \/ \E r \in removed : r[1] = m
                          \/ \E f \in expired : \E i \in DOMAIN files[f].lines : files[f].lines[i] = m
    OBVIOUS
  <2>1. ASSUME NEW f \in expired, NEW i \in DOMAIN files[f].lines, files[f].lines[i] = m
        PROVE  \E r \in removed' : r[1] = m
    <3>1. <<files[f].lines[i], ticks - stamps[files[f].lines[i]]>> \in removed'
      BY <1>1
    <3> QED
      BY <2>1, <3>1
  <2>2. ASSUME NEW r \in removed', r \notin removed, r[1] = m
        PROVE  \E f \in expired : \E i \in DOMAIN files[f].lines : files[f].lines[i] = m
    <3>1. PICK f \in expired : \E i \in DOMAIN files[f].lines :
                                  r = <<files[f].lines[i], ticks - stamps[files[f].lines[i]]>>
      BY <1>1, <2>2
    <3> QED
      BY <2>2, <3>1
  <2>3. removed \subseteq removed'
    BY <1>1
  <2> QED
    BY <2>1, <2>2, <2>3
<1> HIDE DEF expired, n
<1>10. ASSUME NEW r \in removed' PROVE r[1] \in 1 .. n /\ r[2] > Retention - Hour
  <2>1. CASE r \in removed
    BY <1>2, <2>1 DEF LinesPlaced, n
  <2>2. CASE r \notin removed
    <3>1. PICK f \in expired : \E i \in DOMAIN files[f].lines :
                                  r = <<files[f].lines[i], ticks - stamps[files[f].lines[i]]>>
      BY <1>1, <1>10, <2>2
    <3>2. PICK i \in DOMAIN files[f].lines : r = <<files[f].lines[i], ticks - stamps[files[f].lines[i]]>>
      BY <3>1
    <3> DEFINE m == files[f].lines[i]
    <3>3. m \in 1 .. n /\ stamps[m] <= f[1] * Hour + Hour
      BY <1>2, <1>5, <3>2 DEF LinesPlaced, n
    <3>4. stamps[m] \in Nat
      BY <1>2, <3>3 DEF n
    <3> HIDE DEF m
    <3>5. ticks - stamps[m] > Retention - Hour
      <4> DEFINE a == f[1] * Hour
                 b == files[f].mtime
                 c == stamps[m]
      <4>1. a \in Int /\ b \in Nat /\ a <= b /\ b < ticks - Retention /\ c \in Nat /\ c <= a + Hour
        BY <1>3, <1>5, <3>3, <3>4
      <4> HIDE DEF a, b, c
      <4>2. ticks - c > Retention - Hour
        BY <1>2, <4>1
      <4> QED
        BY <4>2 DEF c
    <3> QED
      BY <3>2, <3>3, <3>5 DEF m
  <2> QED
    BY <2>1, <2>2
<1>11. LinesPlaced(files', stamps, lost, removed')
  <2>1. \A m : Gone(m, lost, removed') <=>
                  \/ Gone(m, lost, removed)
                  \/ \E f \in expired : \E i \in DOMAIN files[f].lines : files[f].lines[i] = m
    BY <1>9 DEF Gone
  <2>2. ASSUME NEW f \in FileNames, files'[f].linked, NEW i \in DOMAIN files'[f].lines
        PROVE  ~ Gone(files'[f].lines[i], lost, removed')
    <3>1. files[f].linked /\ f \notin expired /\ files'[f].lines = files[f].lines
      BY <1>4, <2>2
    <3>2. ~ Gone(files[f].lines[i], lost, removed)
      BY <1>2, <2>2, <3>1 DEF LinesPlaced
    <3>3. \A g \in expired : \A j \in DOMAIN files[g].lines : files[g].lines[j] # files[f].lines[i]
      BY <1>2, <1>5, <2>2, <3>1 DEF LinesPlaced
    <3> QED
      BY <2>1, <3>1, <3>2, <3>3
  <2>3. ASSUME NEW m \in 1 .. Len(stamps), ~ Gone(m, lost, removed')
        PROVE  \E f \in FileNames : files'[f].linked /\ \E i \in DOMAIN files'[f].lines : files'[f].lines[i] = m
    <3>1. PICK f \in FileNames : files[f].linked /\ \E i \in DOMAIN files[f].lines : files[f].lines[i] = m
      BY <1>2, <2>1, <2>3 DEF LinesPlaced
    <3>2. f \notin expired
      BY <2>1, <2>3, <3>1
    <3> QED
      BY <1>4, <3>1, <3>2
  <2>4. /\ \A f \in FileNames : \A i \in DOMAIN files'[f].lines :
              files'[f].lines[i] \in 1 .. n /\ stamps[files'[f].lines[i]] <= f[1] * Hour + Hour
        /\ \A f, g \in FileNames : \A i \in DOMAIN files'[f].lines, j \in DOMAIN files'[g].lines :
              files'[f].lines[i] = files'[g].lines[j] => f = g /\ i = j
    <3>1. \A f \in FileNames : files'[f].lines = files[f].lines
      BY <1>4
    <3>2. ASSUME NEW f \in FileNames, NEW i \in DOMAIN files'[f].lines
          PROVE  files'[f].lines[i] \in 1 .. n /\ stamps[files'[f].lines[i]] <= f[1] * Hour + Hour
      <4>1. files[f].lines[i] \in 1 .. n /\ stamps[files[f].lines[i]] <= f[1] * Hour + Hour
        BY <1>2, <3>1, <3>2 DEF LinesPlaced, n
      <4> QED
        BY <3>1, <4>1
    <3>3. ASSUME NEW f \in FileNames, NEW g \in FileNames, NEW i \in DOMAIN files'[f].lines,
                 NEW j \in DOMAIN files'[g].lines, files'[f].lines[i] = files'[g].lines[j]
          PROVE  f = g /\ i = j
      <4>1. i \in DOMAIN files[f].lines /\ j \in DOMAIN files[g].lines /\ files[f].lines[i] = files[g].lines[j]
        BY <3>1, <3>3
      <4>2. \A a, b \in FileNames : \A k \in DOMAIN files[a].lines, l \in DOMAIN files[b].lines :
               files[a].lines[k] = files[b].lines[l] => a = b /\ k = l
        BY <1>2 DEF LinesPlaced
      <4> QED
        BY <4>1, <4>2
    <3> QED
      BY <3>2, <3>3
  <2>5. lost \subseteq 1 .. n
    BY <1>2 DEF LinesPlaced, n
  <2> QED
    BY <1>10, <2>2, <2>3, <2>4, <2>5 DEF LinesPlaced, n
<1>12. Takers' = Takers
  BY <1>1 DEF Takers
<1>13. handle' = Closed \/ (handle' \in FileNames /\ files'[handle'].headers = 1)
  BY <1>1, <1>4 DEF LogInv, LogTypes
<1>14. LogTypes'
  BY <1>1, <1>7, <1>8, <1>12, <1>13 DEF LogInv, LogTypes, n
<1> QED
  BY <1>1, <1>11, <1>14 DEF LogInv, LossBounded

LEMMA KillKeeps == LogInv /\ KillLogger => LogInv'
<1> SUFFICES ASSUME LogInv, KillLogger PROVE LogInv'
  OBVIOUS
<1> DEFINE open == files[handle]
           old == open.lines
           kept == SubSeq(old, 1, open.flushed)
           dead == {old[i] : i \in (open.flushed + 1) .. Len(old)}
           n == Len(stamps)
<1>1. /\ UNCHANGED <<ticks, stamps, removed>> /\ handle # Closed /\ handle' = Closed
      /\ files' = [files EXCEPT ![handle].lines = kept] /\ lost' = lost \cup dead
      /\ taken' = [w \in LogThreads |-> NoTime] /\ logKills' = logKills + 1
  BY DEF KillLogger
<1>2. /\ ticks \in Nat /\ n \in Nat /\ handle \in FileNames /\ open.headers = 1
      /\ DirSound(files, ticks, n) /\ Dense(files, n) /\ LinesPlaced(files, stamps, lost, removed)
      /\ logKills \in Nat /\ IsFiniteSet(lost) /\ LossBounded /\ MaxLogLines \in Nat
      /\ FlushEvery \in Nat /\ FlushEvery > 0
  BY <1>1, LogFilesAssumption, TypesFinite DEF LogInv, LogTypes
<1>3. open \in LogFileType /\ FileSound(handle, open, ticks, n)
  BY <1>2 DEF DirSound
<1>4. /\ old \in Seq(Nat) /\ Len(old) \in Nat /\ open.flushed \in Nat /\ open.flushed <= Len(old)
      /\ Len(old) < open.flushed + FlushEvery /\ DOMAIN old = 1 .. Len(old)
  BY <1>3 DEF LogFileType, FileSound
<1> HIDE DEF open, old
<1>5. /\ kept \in Seq(Nat) /\ Len(kept) = open.flushed /\ DOMAIN kept = 1 .. open.flushed
      /\ \A i \in 1 .. open.flushed : kept[i] = old[i]
  <2>1. \A i \in 1 .. open.flushed : old[i] \in Nat
    BY <1>4
  <2>2. /\ SubSeq(old, 1, open.flushed) \in Seq(Nat)
        /\ Len(SubSeq(old, 1, open.flushed)) = IF 1 <= open.flushed THEN open.flushed - 1 + 1 ELSE 0
        /\ \A i \in 1 .. open.flushed - 1 + 1 : SubSeq(old, 1, open.flushed)[i] = old[1 + i - 1]
    BY <1>4, <2>1, SubSeqProperties
  <2>3. Len(kept) = open.flushed
    BY <1>4, <2>2
  <2>4. \A i \in 1 .. open.flushed : kept[i] = old[i]
    BY <1>4, <2>2
  <2>5. kept \in Seq(Nat)
    BY <2>2
  <2> HIDE DEF kept
  <2> QED
    BY <2>3, <2>4, <2>5
<1> HIDE DEF kept
<1>6. /\ files'[handle] = [open EXCEPT !.lines = kept] /\ DOMAIN files' = FileNames
      /\ \A g \in FileNames \ {handle} : files'[g] = files[g]
  BY <1>1, <1>2 DEF DirSound, open
<1>7. /\ files'[handle] \in LogFileType /\ files'[handle].lines = kept
      /\ files'[handle].linked = open.linked /\ files'[handle].headers = 1
      /\ files'[handle].flushed = open.flushed /\ files'[handle].mtime = open.mtime
  BY <1>2, <1>3, <1>5, <1>6 DEF LogFileType
<1>8. FileSound(handle, files'[handle], ticks, n)
  <2>1. /\ open.mtime \in Nat /\ handle[1] * Hour <= open.mtime /\ open.mtime <= ticks
        /\ ~ open.linked => handle[1] * Hour + Hour < ticks
        /\ Len(old) <= MaxFileLines /\ Len(old) <= n
    BY <1>2, <1>3 DEF FileSound, LogFileType, old
  <2>2. MaxFileLines \in Nat
    BY LogFilesAssumption
  <2>3. Len(kept) <= MaxFileLines /\ Len(kept) <= n /\ Len(kept) < open.flushed + FlushEvery
    BY <2>1, <2>2, <1>2, <1>4, <1>5
  <2> QED
    BY <2>1, <2>3, <1>5, <1>7 DEF FileSound
<1>9. DirSound(files', ticks, n)
  <2>1. files' = [files EXCEPT ![handle] = files'[handle]]
    BY <1>1, <1>2, <1>6 DEF DirSound, open
  <2>2. files' \in [FileNames -> LogFileType]
    BY <1>2, <1>7, <2>1 DEF DirSound
  <2>3. \A g \in FileNames : FileSound(g, files'[g], ticks, n)
    BY <1>2, <1>6, <1>8 DEF DirSound
  <2> QED
    BY <2>2, <2>3 DEF DirSound
<1>10. \A g \in FileNames : files'[g].headers = files[g].headers /\ files'[g].linked = files[g].linked
  BY <1>2, <1>6, <1>7 DEF open
<1>11. Dense(files', n)
  <2>1. \A h \in Hours, s \in 0 .. MaxLogLines : <<h, s>> \in FileNames
    BY DEF FileNames, Hours
  <2>2. \A h \in Hours, s \in 0 .. MaxLogLines : files'[<<h, s>>].headers = files[<<h, s>>].headers
    BY <1>10, <2>1
  <2>3. SUFFICES ASSUME NEW h \in Hours
                 PROVE  \E k \in 0 .. n : \A s \in 0 .. MaxLogLines : files'[<<h, s>>].headers = 1 <=> s < k
    BY DEF Dense
  <2>4. PICK k \in 0 .. n : \A s \in 0 .. MaxLogLines : files[<<h, s>>].headers = 1 <=> s < k
    BY <1>2 DEF Dense
  <2> QED
    BY <2>2, <2>4
<1>11a. /\ files'[handle].lines = kept /\ files[handle].lines = old
        /\ \A f \in FileNames : f # handle => files'[f].lines = files[f].lines
  BY <1>6, <1>7 DEF old, open
<1>12. \A f \in FileNames : \A i \in DOMAIN files'[f].lines :
          i \in DOMAIN files[f].lines /\ files'[f].lines[i] = files[f].lines[i]
          /\ (f = handle => i <= open.flushed)
  <2> SUFFICES ASSUME NEW f \in FileNames, NEW i \in DOMAIN files'[f].lines
               PROVE  i \in DOMAIN files[f].lines /\ files'[f].lines[i] = files[f].lines[i]
                      /\ (f = handle => i <= open.flushed)
    OBVIOUS
  <2>1. CASE f = handle
    <3>1. i \in 1 .. open.flushed
      BY <1>5, <1>11a, <2>1
    <3>2. i \in 1 .. Len(old) /\ i <= open.flushed /\ kept[i] = old[i]
      BY <1>4, <1>5, <3>1
    <3> QED
      BY <1>4, <1>11a, <2>1, <3>2
  <2>2. CASE f # handle
    BY <1>11a, <2>2
  <2> QED
    BY <2>1, <2>2
<1>13. \A f \in FileNames : \A i \in DOMAIN files[f].lines :
          \/ i \in DOMAIN files'[f].lines /\ files'[f].lines[i] = files[f].lines[i]
          \/ files[f].lines[i] \in dead
  <2> SUFFICES ASSUME NEW f \in FileNames, NEW i \in DOMAIN files[f].lines
               PROVE  \/ i \in DOMAIN files'[f].lines /\ files'[f].lines[i] = files[f].lines[i]
                      \/ files[f].lines[i] \in dead
    OBVIOUS
  <2>1. CASE f = handle
    <3>1. i \in 1 .. open.flushed \/ i \in (open.flushed + 1) .. Len(old)
      BY <1>4, <1>11a, <2>1
    <3> QED
      BY <1>5, <1>11a, <2>1, <3>1
  <2>2. CASE f # handle
    BY <1>11a, <2>2
  <2> QED
    BY <2>1, <2>2
<1>14. \A m \in dead : \E i \in DOMAIN old : i > open.flushed /\ old[i] = m
  BY <1>4
<1> HIDE DEF dead
<1>15. dead \subseteq 1 .. n
  BY <1>2, <1>14 DEF LinesPlaced, n, old, open
<1>16. LinesPlaced(files', stamps, lost \cup dead, removed)
  <2>1. ASSUME NEW f \in FileNames, files'[f].linked, NEW i \in DOMAIN files'[f].lines
        PROVE  ~ Gone(files'[f].lines[i], lost \cup dead, removed)
    <3>1. files[f].linked /\ i \in DOMAIN files[f].lines /\ files'[f].lines[i] = files[f].lines[i]
          /\ (f = handle => i <= open.flushed)
      BY <1>10, <1>12, <2>1
    <3>2. ~ Gone(files[f].lines[i], lost, removed)
      BY <1>2, <3>1 DEF LinesPlaced
    <3>3. ASSUME files[f].lines[i] \in dead PROVE FALSE
      <4>1. PICK j \in DOMAIN old : j > open.flushed /\ old[j] = files[f].lines[i]
        BY <1>14, <3>3
      <4>2. f = handle /\ i = j
        BY <1>2, <3>1, <4>1 DEF LinesPlaced, old, open
      <4> QED
        BY <1>4, <3>1, <4>1, <4>2
    <3> QED
      BY <3>1, <3>2, <3>3 DEF Gone
  <2>2. ASSUME NEW m \in 1 .. n, ~ Gone(m, lost \cup dead, removed)
        PROVE  \E f \in FileNames : files'[f].linked /\ \E i \in DOMAIN files'[f].lines : files'[f].lines[i] = m
    <3>1. ~ Gone(m, lost, removed) /\ m \notin dead
      BY <2>2 DEF Gone
    <3>2. PICK f \in FileNames : files[f].linked /\ \E i \in DOMAIN files[f].lines : files[f].lines[i] = m
      BY <1>2, <3>1 DEF LinesPlaced, n
    <3>3. PICK i \in DOMAIN files[f].lines : files[f].lines[i] = m
      BY <3>2
    <3> QED
      BY <1>10, <1>13, <3>1, <3>2, <3>3
  <2>3. \A f \in FileNames : \A i \in DOMAIN files'[f].lines :
           files'[f].lines[i] \in 1 .. n /\ stamps[files'[f].lines[i]] <= f[1] * Hour + Hour
    BY <1>2, <1>12 DEF LinesPlaced, n
  <2>4. \A f, g \in FileNames : \A i \in DOMAIN files'[f].lines, j \in DOMAIN files'[g].lines :
           files'[f].lines[i] = files'[g].lines[j] => f = g /\ i = j
    BY <1>2, <1>12 DEF LinesPlaced
  <2>5. lost \cup dead \subseteq 1 .. n /\ \A r \in removed : r[1] \in 1 .. n /\ r[2] > Retention - Hour
    BY <1>2, <1>15 DEF LinesPlaced, n
  <2> QED
    BY <2>1, <2>2, <2>3, <2>4, <2>5 DEF LinesPlaced, n
<1>17. IsFiniteSet(dead) /\ Cardinality(dead) <= FlushEvery - 1 /\ Cardinality(dead) \in Nat
  <2> DEFINE I == (open.flushed + 1) .. Len(old)
             g == [i \in I |-> old[i]]
  <2>1. g \in Surjection(I, dead)
    BY DEF dead, Surjection
  <2>2. IsFiniteSet(I) /\ Cardinality(I) = IF open.flushed + 1 > Len(old) THEN 0 ELSE Len(old) - (open.flushed + 1) + 1
    <3>1. open.flushed + 1 \in Int /\ Len(old) \in Int
      BY <1>4
    <3> QED
      BY ONLY <3>1, FS_Interval DEF I
  <2>3. Cardinality(I) <= FlushEvery - 1 /\ Cardinality(I) \in Nat
    BY <1>2, <1>4, <2>2
  <2> HIDE DEF I, g
  <2>4. IsFiniteSet(dead) /\ Cardinality(dead) <= Cardinality(I)
    BY <2>1, <2>2, FS_Surjection
  <2>5. Cardinality(dead) \in Nat
    BY <2>4, FS_CardinalityType
  <2> QED
    BY <1>2, <2>3, <2>4, <2>5
<1>18. IsFiniteSet(lost \cup dead) /\ Cardinality(lost \cup dead) <= (logKills + 1) * (FlushEvery - 1)
  <2>1. /\ IsFiniteSet(lost \cup dead) /\ IsFiniteSet(lost \cap dead) /\ Cardinality(lost \cap dead) \in Nat
        /\ Cardinality(lost \cup dead) = Cardinality(lost) + Cardinality(dead) - Cardinality(lost \cap dead)
        /\ Cardinality(lost) \in Nat
    BY <1>2, <1>17, FS_Union, FS_Intersection, FS_CardinalityType
  <2>2. (logKills + 1) * (FlushEvery - 1) = logKills * (FlushEvery - 1) + (FlushEvery - 1)
    BY <1>2
  <2> DEFINE p == logKills * (FlushEvery - 1)
  <2>3. p \in Int /\ Cardinality(lost) <= p
    BY <1>2 DEF LossBounded
  <2> HIDE DEF p
  <2>4. Cardinality(lost \cup dead) <= p + (FlushEvery - 1)
    BY <1>2, <1>17, <2>1, <2>3
  <2> QED
    BY <2>1, <2>2, <2>4 DEF p
<1>19. Takers' = {}
  BY <1>1 DEF Takers
<1>20. Len(stamps) + Cardinality({}) <= MaxLogLines
  <2>1. Cardinality({}) = 0
    BY FS_EmptySet
  <2>2. Cardinality(Takers) \in Nat /\ Len(stamps) + Cardinality(Takers) <= MaxLogLines
    BY TypesFinite DEF LogInv, LogTypes
  <2> QED
    BY <1>2, <2>1, <2>2 DEF n
<1>21. LogTypes'
  BY <1>1, <1>2, <1>9, <1>11, <1>19, <1>20 DEF LogInv, LogTypes, n
<1> QED
  BY <1>1, <1>16, <1>18, <1>21 DEF LogInv, LossBounded

\* For any writers, limits and number of kills: each line is in one file, once, unless
\* a kill or its age took it, a kill takes fewer than flush_every lines, no segment is
\* begun twice or too long, and no line is deleted much before its time
\* (LogStreamWriter of storage.py and enforce_log_retention of quota.py).
THEOREM LogIsKept == LogFilesSpec => []LogKept
<1>1. LogFilesInit => LogInv
  <2> SUFFICES ASSUME LogFilesInit PROVE LogInv
    OBVIOUS
  <2>1. /\ ticks = 0 /\ taken = [w \in LogThreads |-> NoTime] /\ handle = Closed
        /\ files = [f \in FileNames |-> Unwritten] /\ stamps = <<>> /\ removed = {} /\ lost = {}
        /\ logKills = 0 /\ Takers = {}
    BY DEF LogFilesInit, Takers
  <2>2. /\ MaxTicks \in Nat /\ MaxLogLines \in Nat /\ FlushEvery \in Nat /\ FlushEvery > 0 /\ MaxFileLines \in Nat
        /\ IsFiniteSet({}) /\ Cardinality({}) = 0
    BY LogFilesAssumption, FS_EmptySet
  <2>3. /\ Unwritten \in LogFileType /\ Unwritten.headers = 0 /\ ~ Unwritten.linked /\ Unwritten.lines = <<>>
        /\ Unwritten.flushed = 0 /\ Len(Unwritten.lines) = 0 /\ DOMAIN Unwritten.lines = {}
    BY DEF Unwritten, LogFileType
  <2>4. \A f \in FileNames : files[f] = Unwritten
    BY <2>1
  <2>5. DirSound(files, 0, 0)
    <3>1. files \in [FileNames -> LogFileType]
      BY <2>1, <2>3
    <3>2. \A f \in FileNames : FileSound(f, Unwritten, 0, 0)
      BY <2>2, <2>3 DEF FileSound
    <3> QED
      BY <2>4, <3>1, <3>2 DEF DirSound
  <2>6. Dense(files, 0)
    <3>1. \A h \in Hours, s \in 0 .. MaxLogLines : <<h, s>> \in FileNames
      BY DEF FileNames, Hours
    <3>2. \A h \in Hours, s \in 0 .. MaxLogLines : files[<<h, s>>].headers = 0
      BY <2>3, <2>4, <3>1
    <3>3. 0 \in 0 .. 0 /\ \A s \in 0 .. MaxLogLines : ~ (s < 0)
      BY <2>2
    <3> QED
      BY <3>2, <3>3 DEF Dense
  <2>7. LogTypes
    <3>1. Len(stamps) = 0 /\ stamps \in Seq(Nat)
      BY <2>1
    <3> QED
      BY <2>1, <2>2, <2>5, <2>6, <3>1 DEF LogTypes
  <2>8. LinesPlaced(files, stamps, lost, removed)
    <3>1. Len(stamps) = 0 /\ 1 .. 0 = {}
      BY <2>1
    <3> QED
      BY <2>1, <2>3, <2>4, <3>1 DEF LinesPlaced
  <2> QED
    BY <2>1, <2>2, <2>7, <2>8 DEF LogInv, LossBounded
<1>2. LogInv /\ [LogFilesNext]_logFileVars => LogInv'
  <2> SUFFICES ASSUME LogInv, [LogFilesNext]_logFileVars PROVE LogInv'
    OBVIOUS
  <2>1. CASE UNCHANGED logFileVars
    <3>1. UNCHANGED <<ticks, taken, handle, files, stamps, removed, lost, logKills>>
      BY <2>1 DEF logFileVars
    <3>2. Takers' = Takers
      BY <3>1 DEF Takers
    <3> QED
      BY <3>1, <3>2 DEF LogInv, LogTypes, LossBounded
  <2>2. CASE \E w \in LogThreads : TakeTime(w) \/ WriteLine(w)
    BY <2>2, TakeTimeKeeps, WriteLineKeeps
  <2> QED
    BY <2>1, <2>2, PassKeeps, CloseWriterKeeps, RetentionKeeps, KillKeeps DEF LogFilesNext
<1>3. LogInv => LogKept
  <2> SUFFICES ASSUME LogInv PROVE LogKept
    OBVIOUS
  <2>0. /\ DirSound(files, ticks, Len(stamps)) /\ LinesPlaced(files, stamps, lost, removed)
        /\ Len(stamps) \in Nat /\ Len(stamps) <= MaxLogLines /\ MaxLogLines \in Nat /\ DOMAIN stamps = 1 .. Len(stamps)
    <3>1. Cardinality(Takers) \in Nat /\ Len(stamps) \in Nat /\ Len(stamps) + Cardinality(Takers) <= MaxLogLines
          /\ MaxLogLines \in Nat /\ stamps \in Seq(Nat)
      BY TypesFinite, LogFilesAssumption DEF LogInv, LogTypes
    <3> QED
      BY <3>1 DEF LogInv, LogTypes
  <2>1. SegmentsSound
    BY <2>0 DEF SegmentsSound, DirSound, FileSound, LogFileType
  <2>2. RetentionKeepsRecent
    BY <2>0 DEF RetentionKeepsRecent, LinesPlaced
  <2>3. ASSUME NEW n \in DOMAIN stamps
        PROVE  Cardinality(Copies(n)) = IF n \in lost \/ \E r \in removed : r[1] = n THEN 0 ELSE 1
    <3>1. \A c \in Copies(n) : /\ c = <<c[1], c[2]>> /\ c[1] \in FileNames /\ files[c[1]].linked
                               /\ c[2] \in DOMAIN files[c[1]].lines /\ files[c[1]].lines[c[2]] = n
      BY DEF Copies
    <3>2. CASE Gone(n, lost, removed)
      <4>1. Copies(n) = {}
        BY <2>0, <3>1, <3>2 DEF LinesPlaced
      <4> QED
        BY <3>2, <4>1, FS_EmptySet DEF Gone
    <3>3. CASE ~ Gone(n, lost, removed)
      <4>1. PICK f \in FileNames : files[f].linked /\ \E i \in DOMAIN files[f].lines : files[f].lines[i] = n
        BY <2>0, <2>3, <3>3 DEF LinesPlaced
      <4>2. PICK i \in DOMAIN files[f].lines : files[f].lines[i] = n
        BY <4>1
      <4>3. i \in 1 .. MaxLogLines
        <5>1. files[f].lines \in Seq(Nat) /\ Len(files[f].lines) <= Len(stamps)
          BY <2>0 DEF DirSound, FileSound, LogFileType
        <5> QED
          BY <2>0, <5>1
      <4>4. <<f, i>> \in Copies(n)
        BY <4>1, <4>2, <4>3 DEF Copies
      <4>5. \A c \in Copies(n) : c = <<f, i>>
        <5> SUFFICES ASSUME NEW c \in Copies(n) PROVE c = <<f, i>>
          OBVIOUS
        <5>1. c[1] = f /\ c[2] = i
          BY <2>0, <3>1, <4>2 DEF LinesPlaced
        <5> QED
          BY <3>1, <5>1
      <4>6. Copies(n) = {<<f, i>>}
        BY <4>4, <4>5
      <4>7. Cardinality({<<f, i>>}) = 1
        BY FS_Singleton
      <4> QED
        BY <3>3, <4>6, <4>7 DEF Gone
    <3> QED
      BY <3>2, <3>3
  <2> QED
    BY <2>1, <2>2, <2>3 DEF LogKept, LinesKept, LogInv
<1> QED
  BY <1>1, <1>2, <1>3, PTL DEF LogFilesSpec
=============================================================================
