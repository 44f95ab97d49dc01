----------------------------- MODULE RunSession -----------------------------
(***************************************************************************)
(* One run of the command line (sat/cli.py, main): the main thread starts  *)
(* a StabilityTest (sat/api.py), lets a workload run beside it (the        *)
(* workload thread and sat/workloads), waits, and stops everything.  The   *)
(* heartbeat thread (sat/status.py) and the threads that POST /api/stop of *)
(* the dashboard starts (sat/live.py) are daemons: they die when main      *)
(* ends.  The pool is IncidentPipeline seen from far away, and the lock    *)
(* RunLock: here only the order of things matters, and what a step that    *)
(* raises leaves undone.                                                   *)
(***************************************************************************)
EXTENDS Naturals

CONSTANTS
    Dashboards,     \* threads of the dashboard that call stop()
    MaxInterrupts,  \* how often the user presses Ctrl-C
    CiMode          \* config.ci_mode

ASSUME SessionAssumption == "main" \notin Dashboards /\ MaxInterrupts \in Nat

Stoppers == Dashboards \cup {"main"}
NotBuilt == [reason |-> "none", verdict |-> "none", passed |-> TRUE,
             pool |-> "none", work |-> "none"]
NoCode == 999

VARIABLES
    main,    \* the main thread: where it is, whether an exception is on its way
             \* through the finally clause (raised), whether a Ctrl-C cut stop(),
             \* _abort or the clause itself short (sigint), `interrupted', and
             \* the exit status
    test,    \* the StabilityTest: _stopped, stop_event, _fail_fast_event,
             \* _exit_reason (_exit_code is a function of it), the owner of the
             \* directory's lock, the pool, and _result; and as history what
             \* raised an exception: stopping the pool, building the reports
    stopAt,  \* where each caller of stop() is
    beat,    \* the heartbeat: its thread, its _stop, `running' in status.json,
             \* and as history whether a join of the thread timed out
    work,    \* the workload: its kind, its thread, its result, and _stop
    ctrlC    \* interrupts so far

sessionVars == <<main, test, stopAt, beat, work, ctrlC>>

SessionInit ==
    /\ main = [pc |-> "lock", raised |-> FALSE, sigint |-> FALSE, interrupted |-> FALSE,
               code |-> NoCode]
    /\ \E owner \in {"nobody", "rival"} :
          test = [stopped |-> FALSE, stopEvent |-> FALSE, failFast |-> FALSE,
                  reason |-> "duration_elapsed", lock |-> owner, pool |-> "none",
                  report |-> NotBuilt, failed |-> {}]
    /\ stopAt = [t \in Stoppers |-> "idle"]
    /\ beat = [at |-> "none", stop |-> FALSE, file |-> "none", late |-> FALSE]
    /\ \E kind \in {"external", "monkey", "launch"} :
          work = [kind |-> kind, at |-> "none", result |-> "none", stop |-> FALSE]
    /\ ctrlC = 0

Goto(from, to) == main.pc = from /\ main' = [main EXCEPT !.pc = to]
Exit(status) == main' = [main EXCEPT !.pc = "exited", !.code = status]
Running == main.pc # "exited"

\* _build_and_write_reports sets _result when everything is written.  What
\* verdict and gate turn out to be is the matter of ReportFold; without an
\* observation the verdict is inconclusive, and nobody looks at the gate.
Reports(reason, verdicts) ==
    {r \in [reason : {reason}, verdict : verdicts, passed : BOOLEAN,
            pool : {test.pool}, work : {work.at}] : r.verdict = "inconclusive" => r.passed}
AnyVerdict == {"stable", "unstable", "inconclusive"}

-----------------------------------------------------------------------------
(* start() *)

AcquireLock ==
    /\ IF test.lock = "nobody"
         THEN Goto("lock", "preflight") /\ test' = [test EXCEPT !.lock = "ours"]
         ELSE Goto("lock", "abort") /\ test' = [test EXCEPT !.reason = "setup_failed"]
    /\ UNCHANGED <<stopAt, beat, work, ctrlC>>

Preflight ==
    /\ \/ Goto("preflight", "processes") /\ UNCHANGED test
       \/ /\ Goto("preflight", "abort")
          /\ \E why \in {"setup_failed", "adb_unavailable"} :
                test' = [test EXCEPT !.reason = why]
    /\ UNCHANGED <<stopAt, beat, work, ctrlC>>

\* wait_for_processes, then CollectorPool.start.
StartPool ==
    /\ \/ Goto("processes", "ready") /\ test' = [test EXCEPT !.pool = "running"]
       \/ Goto("processes", "abort") /\ test' = [test EXCEPT !.reason = "wait_timeout"]
    /\ UNCHANGED <<stopAt, beat, work, ctrlC>>

\* The barrier on logcat's first line.
LogcatReady ==
    /\ \/ Goto("ready", "observe") /\ UNCHANGED test
       \/ /\ Goto("ready", "abort")
          /\ test' = [test EXCEPT !.reason = "logcat_not_ready", !.pool = "closed"]
    /\ UNCHANGED <<stopAt, beat, work, ctrlC>>

\* StatusWriter.start; the dashboard listens from here on.
Observe ==
    /\ Goto("observe", "workload")
    /\ beat' = [beat EXCEPT !.at = "waiting", !.file = "running"]
    /\ UNCHANGED <<test, stopAt, work, ctrlC>>

SetupCode == IF test.reason = "wait_timeout" THEN 3 ELSE 2

\* _abort sets _stopped and writes its reports, whoever has the lock; what
\* raises there is logged.
AbortReport ==
    /\ Goto("abort", "release")
    /\ \/ \E report \in Reports(test.reason, {"inconclusive"}) :
             test' = [test EXCEPT !.stopped = TRUE, !.report = report]
       \/ test' = [test EXCEPT !.stopped = TRUE, !.failed = @ \cup {"report"}]
    /\ UNCHANGED <<stopAt, beat, work, ctrlC>>

\* It releases only its own lock; main returns the status of the exception.
AbortRelease ==
    /\ main.pc = "release"
    /\ test' = [test EXCEPT !.lock = IF @ = "ours" THEN "nobody" ELSE @]
    /\ Exit(SetupCode)
    /\ UNCHANGED <<stopAt, beat, work, ctrlC>>

\* Any other exception of start() goes to main's finally clause, and then on.
StartRaises ==
    /\ main' = [main EXCEPT !.pc = "finally", !.raised = TRUE]
    /\ \/ /\ main.pc \in {"lock", "preflight", "processes", "ready", "observe"}
          /\ UNCHANGED <<test, beat>>
       \/ /\ main.pc = "processes"
          /\ test' = [test EXCEPT !.pool = "running"] /\ UNCHANGED beat
       \/ /\ main.pc = "observe"
          /\ beat' = [beat EXCEPT !.at = "waiting", !.file = "running"] /\ UNCHANGED test
    /\ UNCHANGED <<stopAt, work, ctrlC>>

-----------------------------------------------------------------------------
(* The workload thread *)

\* _build_workload: none, a thread, or a ValueError.
BeginWorkload ==
    /\ \/ Goto("workload", "wait") /\ work' \in {work, [work EXCEPT !.at = "running"]}
       \/ /\ main.pc = "workload"
          /\ main' = [main EXCEPT !.pc = "finally", !.raised = TRUE]
          /\ UNCHANGED work
    /\ UNCHANGED <<test, stopAt, beat, ctrlC>>

WorkloadOver(kind, results) ==
    /\ Running /\ work.at = "running" /\ work.kind = kind
    /\ \E result \in results : work' = [work EXCEPT !.at = "over", !.result = result]
    /\ UNCHANGED <<main, test, stopAt, beat, ctrlC>>

\* A command exits, or is killed when it reaches its own timeout.
CommandEnds == WorkloadOver("external", {"ok", "failed"})
\* adb shell monkey returns.
MonkeyEnds == WorkloadOver("monkey", {"ok", "failed"})
\* Launching is ok whatever am start says, unless adb raises.
LaunchEnds == WorkloadOver("launch", {"ok", "failed"})

\* Only ExternalWorkload looks at _stop: it terminates or kills its command.
WorkloadStopped ==
    /\ Running /\ work.at = "running" /\ work.kind = "external" /\ work.stop
    /\ work' = [work EXCEPT !.at = "over", !.result = "interrupted"]
    /\ UNCHANGED <<main, test, stopAt, beat, ctrlC>>

-----------------------------------------------------------------------------
(* wait() and what main does until it stops the test *)

\* The pool gives the device up: wait() is the last to look at the event.
FailFast ==
    /\ main.pc \in {"ready", "observe", "workload", "wait"}
    /\ test.pool = "running" /\ ~test.failFast
    /\ test' = [test EXCEPT !.failFast = TRUE]
    /\ UNCHANGED <<main, stopAt, beat, work, ctrlC>>

\* wait() returns: the device gave up, stop was asked for, or the time is up.
WaitEnds ==
    /\ Goto("wait", "endWorkload")
    /\ test' = [test EXCEPT !.reason = IF test.failFast THEN "device_fail_fast" ELSE @]
    /\ UNCHANGED <<stopAt, beat, work, ctrlC>>

\* Mutant of EndWorkload: main waits until its workload has ended.
EndWorkloadJoins ==
    /\ \/ main.pc = "endWorkload" /\ work.at = "running" /\ ~work.stop
          /\ work' = [work EXCEPT !.stop = TRUE] /\ UNCHANGED main
       \/ work.at # "running"
          /\ Goto("endWorkload", "finally") /\ UNCHANGED work
    /\ UNCHANGED <<test, stopAt, beat, ctrlC>>

\* Mutant of EndWorkload: the workload is told to stop and left alone.
EndWorkloadNoJoin ==
    /\ Goto("endWorkload", "finally")
    /\ work' = [work EXCEPT !.stop = @ \/ work.at = "running"]
    /\ UNCHANGED <<test, stopAt, beat, ctrlC>>

\* A workload that still runs is told to stop, and joined for 30 s: enough for
\* a command to be killed and cleaned up, not for an adb call to return.
EndWorkload ==
    /\ \/ main.pc = "endWorkload" /\ work.at = "running" /\ ~work.stop
          /\ work' = [work EXCEPT !.stop = TRUE] /\ UNCHANGED main
       \/ (work.at = "running" => work.stop /\ work.kind # "external")
          /\ Goto("endWorkload", "finally") /\ UNCHANGED work
    /\ UNCHANGED <<test, stopAt, beat, ctrlC>>

\* The finally clause: again the workload; then stop(), unless it was called
\* already: main does not wait for a dashboard thread that is still in it.  An
\* exception on its way through then leaves main.
Finally ==
    /\ main.pc = "finally"
    /\ work' = [work EXCEPT !.stop = @ \/ work.at = "running"]
    /\ IF test.stopped
         THEN /\ IF main.raised THEN Exit(1) ELSE Goto("finally", "after")
              /\ UNCHANGED <<test, stopAt>>
         ELSE /\ Goto("finally", "stopping")
              /\ stopAt' = [stopAt EXCEPT !["main"] = "check"]
              /\ test' = [test EXCEPT !.reason = IF main.interrupted THEN "interrupted" ELSE @]
    /\ UNCHANGED <<beat, ctrlC>>

-----------------------------------------------------------------------------
(* stop() *)

\* POST /api/stop: the dashboard listens until the first stop() shuts it down.
PostStop(d) ==
    /\ Running /\ stopAt[d] = "idle"
    /\ beat.at # "none"
    /\ \A t \in Stoppers : stopAt[t] \in {"idle", "check", "set", "live"}
    /\ stopAt' = [stopAt EXCEPT ![d] = "check"]
    /\ UNCHANGED <<main, test, beat, work, ctrlC>>

StopperGoto(t, from, to) ==
    /\ Running
    /\ stopAt[t] = from /\ stopAt' = [stopAt EXCEPT ![t] = to]
    /\ UNCHANGED <<main, work, ctrlC>>

\* `if self._stopped: return' and `self._stopped = True' are two steps.
StopCheck(t) ==
    /\ StopperGoto(t, "check", IF test.stopped THEN "done" ELSE "set")
    /\ UNCHANGED <<test, beat>>
StopSet(t) ==
    /\ StopperGoto(t, "set", "live")
    /\ test' = [test EXCEPT !.stopped = TRUE, !.stopEvent = TRUE]
    /\ UNCHANGED beat
StopLive(t) ==
    /\ StopperGoto(t, "live", "join")
    /\ beat' = [beat EXCEPT !.stop = TRUE]
    /\ UNCHANGED test

\* StatusWriter.stop: joins its thread for five seconds, which a query that
\* waits for the pool can outlast, and writes the last snapshot.
StopJoinBeat(t) ==
    /\ StopperGoto(t, "join", "pool")
    /\ beat.at # "waiting"
    /\ beat' = [beat EXCEPT !.file = IF beat.at = "none" THEN @ ELSE "ended",
                            !.late = @ \/ beat.at = "writing"]
    /\ UNCHANGED test

\* pool.stop(), pool.close(), and the writers.
StopPool(t) ==
    /\ StopperGoto(t, "pool", "report")
    /\ test' = [test EXCEPT !.pool = IF @ = "none" THEN @ ELSE "closed"]
    /\ UNCHANGED beat

\* An exception skips to the finally clause of stop(), with the pool open: the
\* reader clears _logcat_stream between its test and its use in pool.stop(), or
\* another stopper clears _server in LiveServer.stop().
StopRaises(t) ==
    /\ \/ /\ StopperGoto(t, "live", "report")
          /\ \E s \in Stoppers \ {t} : stopAt[s] \notin {"idle", "check", "set"}
       \/ StopperGoto(t, "pool", "report") /\ test.pool # "none"
    /\ test' = [test EXCEPT !.failed = @ \cup {"pool"}]
    /\ UNCHANGED beat

\* The finally clause of stop().
StopReport(t) ==
    /\ StopperGoto(t, "report", "release")
    /\ \E report \in Reports(test.reason, AnyVerdict) : test' = [test EXCEPT !.report = report]
    /\ UNCHANGED beat

\* What raises while the reports are built leaves the lock, and main swallows it:
\* with it a Ctrl-C that was on its way through.
StopReportRaises(t) ==
    /\ Running
    /\ stopAt[t] = "report" /\ stopAt' = [stopAt EXCEPT ![t] = "done"]
    /\ main' = [main EXCEPT !.sigint = @ /\ t # "main"]
    /\ test' = [test EXCEPT !.failed = @ \cup {"report"}]
    /\ UNCHANGED <<beat, work, ctrlC>>

StopRelease(t) ==
    /\ StopperGoto(t, "release", "done")
    /\ test' = [test EXCEPT !.lock = IF @ = "ours" THEN "nobody" ELSE @]
    /\ UNCHANGED beat

StopStep(t) ==
    \/ StopCheck(t) \/ StopSet(t) \/ StopLive(t) \/ StopJoinBeat(t)
    \/ StopPool(t) \/ StopRaises(t)
    \/ StopReport(t) \/ StopReportRaises(t) \/ StopRelease(t)

\* The heartbeat: wait for the interval or _stop, then write a snapshot.
BeatWaits ==
    /\ Running /\ beat.at = "waiting"
    /\ \/ beat' = [beat EXCEPT !.at = "over"] /\ beat.stop
       \/ beat' = [beat EXCEPT !.at = "writing"] /\ ~beat.stop
    /\ UNCHANGED <<main, test, stopAt, work, ctrlC>>
BeatWrites ==
    /\ Running /\ beat.at = "writing"
    /\ beat' = [beat EXCEPT !.at = "waiting", !.file = "running"]
    /\ UNCHANGED <<main, test, stopAt, work, ctrlC>>

-----------------------------------------------------------------------------
(* The end of main *)

\* stop() has returned to main; a Ctrl-C, or an exception from before, goes on.
Stopped ==
    /\ main.pc = "stopping" /\ stopAt["main"] = "done"
    /\ IF main.sigint THEN Exit(130)
       ELSE IF main.raised THEN Exit(1)
       ELSE Goto("stopping", "after")
    /\ UNCHANGED <<test, stopAt, beat, work, ctrlC>>

WorkloadFailed == test.report # NotBuilt /\ ~main.interrupted /\ work.result = "failed"
                  /\ work.at = "over"

\* The exit status, when no workload failed.
Leave ==
    /\ main.pc = "after"
    /\ ~WorkloadFailed
    /\ Exit(IF main.interrupted THEN 130
            ELSE IF test.report = NotBuilt THEN 2
            ELSE IF test.report.verdict = "inconclusive" THEN 4
            ELSE IF CiMode /\ ~test.report.passed THEN 1
            ELSE 0)
    /\ UNCHANGED <<test, stopAt, beat, work, ctrlC>>

\* A failed workload fails the run: the reports are written once more, or the
\* attempt ends main with its exception and the same status.
LeaveWorkloadFailed ==
    /\ main.pc = "after"
    /\ WorkloadFailed
    /\ \/ \E report \in Reports("workload_failed", AnyVerdict) :
             test' = [test EXCEPT !.reason = "workload_failed", !.report = report]
       \/ test' = [test EXCEPT !.reason = "workload_failed", !.failed = @ \cup {"report"}]
    /\ Exit(1)
    /\ UNCHANGED <<stopAt, beat, work, ctrlC>>

\* Ctrl-C reaches the main thread.  Before stop() main goes to its finally
\* clause; wait() leaves the exit reason to it.
InterruptTo(pc) == main' = [main EXCEPT !.pc = pc, !.interrupted = TRUE]
InterruptRun ==
    \/ /\ main.pc \in {"lock", "preflight", "processes", "ready", "observe", "abort",
                       "workload", "endWorkload"}
       /\ InterruptTo("finally") /\ UNCHANGED <<test, stopAt>>
    \/ /\ main.pc = "wait"
       /\ InterruptTo("endWorkload")
       /\ test' = [test EXCEPT !.reason = "interrupted"] /\ UNCHANGED stopAt

\* In _abort, _stopped is set, and nobody will call stop() any more.
InterruptAbort ==
    /\ main.pc \in {"abort", "release"}
    /\ main' = [main EXCEPT !.pc = "finally", !.interrupted = TRUE, !.sigint = TRUE]
    /\ test' = [test EXCEPT !.stopped = TRUE] /\ UNCHANGED stopAt

\* In stop() it skips to the finally clause of stop(), and inside that clause or
\* outside of the try, as in main's own finally clause, it ends the process.
InterruptStop ==
    \/ /\ main.pc = "stopping" /\ stopAt["main"] \in {"live", "join", "pool"}
       /\ main' = [main EXCEPT !.sigint = TRUE]
       /\ stopAt' = [stopAt EXCEPT !["main"] = "report"] /\ UNCHANGED test
    \/ /\ \/ main.pc = "stopping" /\ stopAt["main"] \notin {"live", "join", "pool"}
          \/ main.pc = "finally"
       /\ main' = [main EXCEPT !.pc = "exited", !.code = 130, !.sigint = TRUE]
       /\ UNCHANGED <<test, stopAt>>

\* What main does after stop() has no handler.
InterruptAfter == main.pc = "after" /\ Exit(130) /\ UNCHANGED <<test, stopAt>>

Interrupt ==
    /\ ctrlC < MaxInterrupts /\ ctrlC' = ctrlC + 1
    /\ InterruptRun \/ InterruptAbort \/ InterruptStop \/ InterruptAfter
    /\ UNCHANGED <<beat, work>>

Main ==
    \/ AcquireLock \/ Preflight \/ StartPool \/ LogcatReady \/ Observe
    \/ StartRaises \/ AbortReport \/ AbortRelease
    \/ BeginWorkload \/ WaitEnds \/ EndWorkload \/ Finally
    \/ StopStep("main") \/ Stopped \/ Leave \/ LeaveWorkloadFailed

SessionNext ==
    \/ Main \/ Interrupt \/ FailFast
    \/ CommandEnds \/ MonkeyEnds \/ LaunchEnds \/ WorkloadStopped
    \/ BeatWaits \/ BeatWrites
    \/ \E d \in Dashboards : PostStop(d) \/ StopStep(d)

SessionSpec == SessionInit /\ [][SessionNext]_sessionVars

\* The main thread and the heartbeat are scheduled, and a command that is killed
\* ends; any other workload or a dashboard thread may hang.
SessionFairness ==
    /\ WF_sessionVars(Main) /\ WF_sessionVars(BeatWaits \/ BeatWrites)
    /\ WF_sessionVars(WorkloadStopped)
-----------------------------------------------------------------------------
(* Properties *)

Exited == main.pc = "exited"
\* A dashboard thread began to stop the test and died with the process.
CutShort == \E d \in Dashboards : stopAt[d] \notin {"idle", "check", "set", "done"}
\* A Ctrl-C ended main, or its call of _abort, outside of a stop() of its own.
Broken == main.sigint /\ stopAt["main"] # "done"

\* However a run ends, it leaves a report and frees its lock, unless building the
\* report raised, main did not wait for the dashboard's stop(), or a Ctrl-C found
\* main in _abort, in its finally clause, or once more in stop().
ExitLeavesReport ==
    Exited /\ ~CutShort /\ ~Broken /\ "report" \notin test.failed =>
        test.report # NotBuilt /\ test.lock # "ours"

\* The exit status and the report tell one story: success was concluded by a
\* report of a closed pool, or one that could not be stopped, and never of an
\* interrupted run; a workload's failure in the report is in the status; and 130
\* means Ctrl-C.
ExitAgreesWithReport ==
    Exited =>
        /\ main.code = 0 => /\ test.report.verdict \in {"stable", "unstable"}
                            /\ test.report.pool = "closed" \/ "pool" \in test.failed
                            /\ test.report.reason # "interrupted"
        /\ test.report.reason = "workload_failed" => main.code = 1
        /\ main.code = 130 => ctrlC > 0

\* Unless it was cut short, a run that ends has waited for its command: none is
\* still driving the app when the report is built.
CommandEndsFirst ==
    /\ test.report # NotBuilt /\ work.kind = "external"
    /\ ctrlC = 0 /\ \A d \in Dashboards : stopAt[d] = "idle"
    => test.report.work # "running"

\* Once status.json says that the run ended, no heartbeat on its way says
\* otherwise, unless the heartbeat outlived its join.
StatusStaysEnded == [][beat.file = "ended" => beat'.file = "ended" \/ beat.late]_sessionVars

\* A run that is refused never takes the lock of the run that is there.
RivalKeepsLock == [][test.lock = "rival" => test'.lock = "rival"]_sessionVars

\* Every run comes to an end, with a hanging workload or dashboard too.
RunEnds == <>Exited

\* However a run ends, outside of the exceptions its parts name, its report is
\* there, agrees with its exit status, and was built when its command had ended.
SessionSound == ExitLeavesReport /\ ExitAgreesWithReport /\ CommandEndsFirst

\* No step takes another run's lock, or makes an ended run look alive.
SessionKeeps == RivalKeepsLock /\ StatusStaysEnded
=============================================================================
