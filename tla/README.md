# A verification project for the stability and performance test tools

The repository holds two Python tools that watch an Android application from a
host machine over `adb`: `stability_auto_test/scripts/sat` (crashes, ANRs,
native crashes, a stability verdict) and `perf_auto_test/scripts/pat` (CPU and
memory samples with threshold dumps), and a runner for its own test plans
(`.agents/skills/project-test/scripts/testctl.py`). This directory holds TLA+ modules that
model the parts whose correctness depends on interleavings, crashes, limits and
folds over recorded data, the TLC configurations that check them on small
instances, and proofs that TLAPS checks for every instance. Paths below are
relative to `stability_auto_test/scripts/sat/` unless they name `pat`.

## Inventory

| component | state | operations | interacts with | hard behaviour |
| --- | --- | --- | --- | --- |
| incident pipeline (`pool.py`, `backpressure.py`, `tasks.py`) | `_accepting`, `_event_counts`, `_tasks`, backpressure counter, staged and published files | dispatch, cap, acquire, submit, dump, publish, claim, `stop()`, `close()` | logcat thread and `stop()` dispatch into it; dumpers run in it; the report reads its journal and files | two locks, three kinds of threads, timeouts, publication that is not atomic |
| incident journal (`journal.py`) | the text of a file | append, read back | written by the pipeline, read by reports and recovery | a kill inside an append, a second run on the same file |
| report fold (`reporter/result.py`, `health.py`) | none: a function of journal and files | counts, incidents, placeholders, orphans, verdict | reads what the pipeline left | several or missing records, lost files |
| recovery (`recovery.py`) | `report.json` | `recover_report` | reads journal and files of a dead run | every crash point |
| run lock (`runlock.py`) | lock file, `_held` | acquire, release, stale detection | API, `sat recover` | several processes, dead owners |
| API lifecycle (`api.py`, `status.py`, `live.py`, `bookmark.py`) | started/stopped flags, exit code, reports | start, stop, wait, abort, rewrite | owns lock, pool, status thread, dashboard | stop from several threads, partial start, Ctrl-C |
| workloads (`workloads/`) | stop flag, child process, result | run, stop, cleanup | a thread beside the test; the exit code | a command that hangs or ends late |
| logcat collector (`collectors/logcat.py`) | connection, queue, up and gap intervals | `lines()`, `stop()` | read by the logcat thread, stopped by `stop()` and by device gaps | reconnects, stale connections, unlocked sharing |
| device health (`collectors/device_health.py`) | active gap, epoch | poll, gap, recovery | stops and restarts the logcat thread | restart racing the old thread |
| process watcher (`pool.py`, `discovery.py`) | tracked processes, start times, lifecycle rows | discover, reconcile | logcat thread, device recovery | restarts between polls, cut names, adb outages |
| event parser (`detection.py`) | one open block of each kind | feed line, flush | logcat thread | lines of several processes interleaved |
| fusion (`fusion.py`, `observations.py`) | occurrences by key and window | observe, find, garbage collection | dispatch, ExitInfo records at the stop | one crash reported by several sources |
| context buffer (`context.py`) | ring of lines | append, evict, snapshot | logcat thread and dump tasks | three limits at once, a task that waits |
| system evidence (`collectors/exit_info.py`, `dropbox.py`) | watermark, cache | query, fuse | `start()`, `stop()`, dumpers | late records, local time, failing queries |
| dumpers and trace matching (`dumpers/`, `evidence/`) | none | list, match, pull, verify, fall back | run inside a dump task | files rewritten meanwhile, reused pids |
| analyzers (`analyzers/`) | clusters of one report | fingerprint, cluster | report, comparison | greedy clustering |
| resource risk (`collectors/resource_risk.py`) | baselines, armed keys, inbox | sample, submit, evaluate | report | several sources of samples, hysteresis |
| storage and quota (`storage.py`, `quota.py`, `atomic_io.py`) | open file, segment number | write, rotate, close, retention | every writer | writes after close, rotation at the limit |
| policy, comparison, matrix (`policy.py`, `compare.py`, `aggregate.py`, `indexer.py`, `matrix.py`, `replay.py`, `offline.py`) | index, results of workers | gate, compare, aggregate, trend, join | command line | thresholds, missing reports, late workers |
| redaction (`redaction.py`) | run directory, staging directory, bundle | redact in place, export | command line | kills between two files |
| adb client (`adb.py`) | semaphore, counters | run with retries | everyone | shared slots, pauses, a missing adb |
| performance pool (`pat/pool.py`, `pat/alerting.py`, `pat/discovery.py`) | workers per process, threshold windows, dump semaphore | reconcile, sample, feed, fire, dump, stop | collectors, reports | worker restart, debounce, limits |
| performance run (`pat/api.py`, `pat/cli.py`, `pat/status.py`, `pat/storage.py`) | flags, exit code, CSV files, `status.json` | start, stop, heartbeat, write row, report | pool, report | Ctrl-C anywhere, change of the hour |
| performance dumps and numbers (`pat/dumpers/`, `pat/collectors/`, `pat/reporter/result.py`) | files on device and host, last counters | dump, sample, fold | dump threads, loops, report | files that grow, reused pids |
| project test skill (`.agents/.../testctl.py`) | plan, snapshots, evidence | validate, resolve, run, judge, inventory | working tree | edits while commands run |
| webhook, self-monitor, plugins; HTML; configuration; demos; Fault Lab | - | - | - | presentation, text, side channels |

What makes each component correct:

- pipeline and journal: every event that was let in gets one detected record and
  one terminal record, the terminal record says what really became of it, slots
  and caps are kept, `stop()` returns and leaves nothing open, and a kill costs at
  most one record;
- report fold and recovery: no recorded issue vanishes, nothing counts twice, a
  run with an issue or with lost evidence never looks stable;
- run lock and lifecycle: one run per directory, no run kept out by a dead one, a
  report that tells the exit status, written before the process ends;
- logcat and device health: no line is skipped over a reconnect, one thread reads
  outside a gap and none in it, every reboot advances the epoch;
- parser and fusion: one crash is one incident whatever the order of lines and
  however many sources report it, and two crashes are two;
- context, dumps, ExitInfo: what an incident shows is its own, and what it lacks
  is explained;
- process watcher, resource risk: what is told of a process is of its present life;
- storage, quota, redaction: no line is lost or written twice, nothing recent is
  deleted, nothing secret leaves;
- groups, comparison, verdict, matrix: alike is grouped, unlike is not, and no way
  through thresholds and missing parts turns a worse run into a pass;
- performance tools: the lifecycle file tells which process was sampled, one
  worker samples per process, an alert is raised exactly when it is due, limits are
  kept, threads end after `stop()`, and the report has the rows and the end of the run;
- test skill: PASS means every suite ran, on one tree as far as its digests can tell.

The hazards in `PROJECT.json` give, for each, the line where it bites and the
properties that cover it.

## The modules

| module | models | composes |
| --- | --- | --- |
| `IncidentPipeline` | `_dispatch_inner`, `_submit_dump`, `_DumpTask.run`, `_run_dump`, `_publish`, backpressure, journal, `stop()`, `close()` | `IncidentLedger` (refinement) |
| `IncidentLedger` | what a pipeline promises: an incident is opened once, settled once, and not after the end | - |
| `AdbCalls` | `Adb.run`: slots, retries, counters | - |
| `ReportFold`, `ReportFoldCheck` | the report's counts, orphans, placeholders and verdict; the same over every small journal | - |
| `CrashRecovery` | the pipeline, a kill at any step, the ordinary report and `recover_report` | `IncidentPipeline`, `ReportFold` |
| `RunSession` | one run: the command line, `StabilityTest`, heartbeat, dashboard, workload, Ctrl-C | - |
| `LogFiles` | `LogStreamWriter`, retention, kills | - |
| `JournalFile` | the text of the journal, `read_journal`, kills | - |
| `RunLock` | `OutputDirLock`, its use by `StabilityTest` and `sat recover` | - |
| `DeviceHealth` | the health monitor, gaps, epochs, the logcat threads it stops and starts, `stop()` | - |
| `LogcatStream` | `LogcatStream.lines()` with its reader thread, and `stop()` | - |
| `LogcatParser` | `LogcatLineParser` | - |
| `Fusion` | `FusionEngine` and the ExitInfo fusion of the pool | - |
| `ContextBuffer` | `LogcatContextBuffer` and the dump task that waits for its slice | - |
| `ProcessWatch` | `discover`, `_reconcile`, lifecycle rows, start times | - |
| `ResourceRisk` | `ResourceRiskMonitor`, `ResourceRiskDetector` | - |
| `IncidentDump` | dumpers, trace matching, DropBox and its cache, evidence sampling | - |
| `ExitRecords` | watermark, the queries of `stop()`, what a record comes to | - |
| `IssueGroups` | fingerprints, similarity, clustering | - |
| `RunCompare` | comparison, aggregate, index, trend | `IssueGroups` |
| `RunVerdict` | coverage, health, verdict, policy, JUnit, exit code | - |
| `MatrixRun` | `run_matrix` and the joins of its main thread | - |
| `Redaction` | redaction in place, `sat export` | - |
| `PerfPool` | `pat` pool: watcher, reconcile, loops, threshold trackers, dumps, `stop()` | - |
| `PerfRun` | `pat` command line and script, `PerfTest`, heartbeat, CSV files by the hour | - |
| `PerfDumps`, `PerfReport` | heap and thread dumps; CPU percentages and the report of a directory | - |
| `TestPlan` | `testctl.py`: validate, resolve, run, judge, inventory | - |
| `MCIncidentPipeline`, `MCLogcatStream`, `MCPerfPool` | the constants of instances TLC checks | one each |
| `MCPipeline`, `MCCollectors`, `MCRunDirectory`, `MCDevices`, `MCAnalysis`, `MCPerfTest` | several components side by side, each a *subject* | see below |
| `IncidentPipelineProofs` | theorems about the pipeline and its ledger | `IncidentPipeline` |
| `CrashRecoveryProofs` | theorems about recovery after a kill | `IncidentPipelineProofs`, `CrashRecovery` |
| `RunLockProofs` | theorems about the run lock | `RunLock` |
| `CollectorProofs` | theorems about the logcat stream, the event parser, fusion, the process watcher, resource risks and the adb client | `LogcatStream`, `LogcatParser`, `Fusion`, `ProcessWatch`, `ResourceRisk`, `AdbCalls` |
| `DeviceProofs` | theorems about device health, ExitInfo records, dumps and context | `DeviceHealth`, `ExitRecords`, `IncidentDump`, `ContextBuffer` |
| `RunDirectoryProofs` | theorems about the session, the log files and the text of the journal | `RunSession`, `LogFiles`, `JournalFile` |
| `PerfPoolProofs` | theorems about the performance pool, run and dumps | `PerfPool`, `PerfRun`, `PerfDumps` |
| `AnalysisProofs` | theorems about what follows a run, of both tools | `ReportFoldCheck`, `RunCompare`, `MatrixRun`, `RunVerdict`, `Redaction`, `TestPlan`, `PerfReport` |

The modules with several subjects add one variable, `subject`: a behaviour picks
one, its variables change, the others keep the value they begin with. The
behaviours of a subject are exactly those of its module, since the components are
joined by a promise and not by their steps; one run of TLC then answers the
questions of a whole phase. Where components really share state they are one
module: the journal, the files and the fold in `CrashRecovery`; monitor, logcat
threads and `stop()` in `DeviceHealth`; command line, test, heartbeat, dashboard
and workload in `RunSession`.

A variable marked *history* in its module is not in the code and appears in no
guard; properties need it to speak of earlier states.

### IncidentPipeline

An event is a new occurrence that the detector reported. `dpc[e]` is where its
dispatcher is in `_dispatch_inner` and `_submit_dump` (`Admit`,
`JournalDetected`, `Acquire`, `AppendTask`, `SubmitTask`, ...), and `by[e]` who
dispatches it: the logcat thread, or `stop()` itself, which flushes the parser
and adds the incidents only ExitInfo saw. `wpc[e]` is where the future of its
dump task is: queued, `dumping`, `checking` (the last look at
`_terminal_written`), `publishing` file by file, `claiming` an end under
`_task_lock`, `to_journal` (the append comes after the lock), `releasing` the
slot. `spc` is where `stop()` is: it joins the logcat thread, flushes, drains,
cancels, marks every unfinished task as timed out in one locked section, and
shuts the executor down; `close()` closes the journal. `DispatchLockFree` and
`TaskLockFree` are the two locks. Steps that the code takes without holding a
lock are steps of their own. `DumpFails`, `PublishFails` and `ClaimFailed`
are the error paths. Statistics that decide nothing are left out, and so is the
content of the evidence: an incident is `FilesPerIncident` files.

### AdbCalls

`call[c]` is where a thread stands in `Adb.run`: it `waits` for a slot, the
command `executes`, it `pauses` between attempts with the slot given back, or
`gives up`. A missing `adb` ends a call like a result does, without a retry.

### ReportFold, ReportFoldCheck, CrashRecovery

`ReportFold` is a set of operators without state: from the records of each event
and the set of incident files to the counts, the incidents (from files, from
records without a file, orphans) and the verdict. Of an event it keeps whether
it is reportable, a process death, or an ExitInfo crash without a signature.
Events do not interact in the fold, so the order of their records relative to
each other is left out. `ReportFoldCheck` appends records and writes files in
any order, so that every small journal is a state: also those of a second run in
one directory. `CrashRecovery` runs the real pipeline, may be killed before any
step, and then recovers; or ends and builds the ordinary report.

### RunSession, LogFiles, JournalFile

`RunSession` follows `main.pc` through `cli.main`: preflight, lock, start, wait,
stop. Every caller of `StabilityTest.stop()` has its own place in it (`stopAt`), as
the code lets two in: the test-and-set of `_stopped` has no lock. An exception is on
its way (`main`), is caught where the code catches it, and its `finally` clauses
run. What may raise raises: any stage of `start()` (`StartRaises`), the dashboard's
or the pool's stop (`StopRaises`), the building of a report, in `stop()`, in
`_abort` and after a failed workload (`StopReportRaises`, `AbortReport`,
`LeaveWorkloadFailed`); `test.failed` remembers it. Ctrl-C may come wherever `main`
is, also inside `_abort` and inside `stop()` (`InterruptRun`, `InterruptAbort`,
`InterruptStop`, `InterruptAfter`). The heartbeat, the workload thread and the
dashboard's threads are daemons: when `main` has exited, nothing of them moves. In
`LogFiles` a thread takes its time before the lock (`TakeTime`), so that a line of
the old hour may come after the rotation; the retention unlinks a file that is
perhaps open. `JournalFile` keeps lines as sequences of pieces, since half a record
and the next record share a line after a kill. Records are written unescaped: a kill
may leave half a character (`cut`), with which the file cannot be decoded
(`Decodes`), and a record may hold a character that `splitlines()` splits at
(`split`).

### RunLock

`lock` is the owner in the lock file. `Link` is `os.link` (atomic), then the
conflict path reads the lock (`Look`, `Text`), decides whether its owner is dead
(`Check`), reads it again (`Clear`), and unlinks and links (`Unlink`, `Relink`).
`sat recover` only looks. A run whose lock was refused still writes reports
(`Abort`). `Die` may follow any step; a dead process leaves its lock. Pids are
not reused in the model; `_is_pid_alive` is then exact.

### LogcatStream, DeviceHealth

In `LogcatStream` lines are numbered; `Stamp` gives their device timestamps, not
necessarily distinct. `head` and `next` bound what the reader thread has put in the
queue, `lastTs` is the resume position. The consumer, the reader, the device, the
clock, the pool (which sets the global stop) and `stop()` interleave; `stop()`
and the consumer share `_conn_started_at` and `_proc` without a lock, and every
read and write of them is a step (`UpCheck`, `UpAppend`, `UpClear`).

`DeviceHealth` is one level up: the monitor polls (`Poll`), its callbacks test
`_logcat_stream` and use it in a later step (`GapTest`, `GapStop`), a recovery
starts the next thread (`RecoverStart`), which creates its stream, reads, leaves
and sets the shared field to `None` (`ReaderCloses`), also when the field is the
next thread's. `met.unsettled` remembers that a callback met a thread in the
middle of that: `OneReaderOutsideGaps` and `UnsettledIsTheOnlyHarm` say that
nothing else can leave two readers, none, or one that outlives `stop()`.

### LogcatParser, Fusion, ContextBuffer, ProcessWatch, ResourceRisk

The parser gets the lines of up to three writers in every interleaving; a line is
what it says and whose it is. Of a line that cannot be parsed the parser does
not know whose it is: a few go to every open block, which counts them (`noise`), and
more of them end the blocks. `Fusion` lets a failure be reported by logcat, with
or without its marker, again after a reconnect, on either side of a time bucket,
and by ExitInfo at the stop, with time and garbage collection between.
`ContextBuffer` appends, evicts and lets a task wait and take its slice at any
later time. `ProcessWatch` lets processes die and return under new pids between
two reconciliations, with adb failing or listing only part. In `ResourceRisk` each
adb call of a sample is a step (`BeginTurn`, `ReadStart`, `ProbeDescriptors`,
`CountDescriptors`, `CountThreads`): the process may die between any two, and the
device may deny a listing. The samples of a turn are then observed one by one
(`ObserveSample`); meanwhile the app submits
samples of its own, and the address space, which is part of the key, may change.
In the instance only the death comes between the calls, and the samples of a turn
are observed before anything else moves.

### IncidentDump, ExitRecords

A dump is a chain of adb calls; between any two of them the device may write a
trace, over the file a listing has just named, or give the pid to another
process. `MatchTrace` scores what it read before, `PullTrace` pulls what is there
now, and the local check decides. `ExitRecords` has a device whose local time is
off, which prints a record some time after the exit, and a host that may not
learn the zone, the clock or the records at any of its queries.

### IssueGroups, RunCompare, RunVerdict, MatrixRun, Redaction

`IssueGroups` has no variables: it is the clustering as an operator on a sequence
of incidents, with the similarity of stacks a constant. In the code it also depends
on how rare a frame is in the report; the theorems hold for every such constant, and
what they say of two reports together is about equal fingerprints, not similarity.
`RunCompare` applies the clustering to two reports that grow by one incident at a
time, whichever a run may contain.
`RunVerdict` goes from what was observed to the exit code; its times are fractions
of the planned duration fine enough to meet the rounding of the ratio. `MatrixRun`
has one thread per device; `Tick` is the clock of every timeout. The list of results
is the one the threads append to: what is there when the aggregate is made
(`ReadReports`) and when the failures are counted (`CountFailed`) may differ.
`Redaction` may be killed between any two files. Among them is one that an export
may hold and that has no text suffix, the JUnit file.

### PerfPool, PerfRun, PerfDumps, PerfReport

`workers` is every `_ProcessWorker` ever created, `current` the dictionary
`_workers`, `lifecycle` the rows of the lifecycle file. `Discover` and
`Reconcile` are separate, since discovery happens before the lock is taken.
Every loop has the threshold tracker it feeds; `Feed` is `ThresholdTracker.feed`
and is one step with the sample. `dumpCounts`, `waiting` and `running` are the
dump threads of each kind. `stop()` sets the pool's event, marks the workers
that are there, joins the watcher and the loops with timeouts, and closes.
A tracker carries two history fields the code has not (`run`, `fired`), and a
loop one (`late`): they appear only in properties.

`PerfRun` drives `PerfTest` from the command line or from a `with` block, with
Ctrl-C before any step, while the heartbeat overwrites `status.json` and two
loops write rows over a change of the hour. `PerfDumps` polls a file that grows,
and every adb call may fail; the `rm` on the device is that of a dump that was
accepted (`heap.py:166-183`). The report may be built at any point of it. The
output of top is parsed line by line.
`PerfReport` feeds the calculator the counters of a pid that is given away, read one
after the other: ticks may pass between `ReadProcess` and `ReadTotal` (`lag`). It
folds every small directory.

### TestPlan

A plan of two suites and a feature is any plan that the loader accepts; it is
validated, resolved (`Reached`, through `Relation`), and run command by command,
while others work in the repository between any two reads (`Edit`, `Undo`, `Commit`,
`Checkout`). The digest of a tree (`TreeDigest`) is that of the difference to `HEAD`
and of unknown files: it has nothing of a file that is as in `HEAD`. `Judge`
compares the two snapshots and gives the verdict.

## What the runs check

| run | subjects | question | result |
| --- | --- | --- | --- |
| `pipeline` | pipeline, adb | are all incidents settled, is the ledger implemented, does `stop()` return? does every adb call end, with its slot given back? | yes |
| `pipeline_races` | pipeline, parser, fusion, context, watch, risk | can two workers, a dispatcher that `stop()` gave up on, and `stop()` disagree about an end? can what feeds the pipeline lose, double or mix up failures? | no |
| `late_publication` | pipeline | may files appear after `stop()` claimed a task? (`tasks.py` says never) | yes, see findings |
| `report_fold` | fold, compare, verdict, matrix, redact, plan | does anything after the run lose, duplicate or whitewash an issue, or leak a secret? is PASS of the test skill earned? | no; yes |
| `crash_recovery` | recovery, session, log, journal | does a kill at any step lose an issue or give a stable verdict? does every session end with a report that tells its exit status? are lines and records kept? | no; yes, with the exceptions the properties name |
| `exit_info_verdict` | recovery | does a failure only ExitInfo saw prevent a stable verdict? | no, see findings |
| `logcat_stream` | stream | is a line skipped, coverage invented, a process left behind? | no |
| `logcat_stale` | stream | is only a silent connection killed? | no, see findings |
| `run_lock` | lock, health, dump, exits | one winner of a fresh race? one reader outside gaps? evidence of its own for each incident? this run's exits and no others? | yes |
| `lock_exclusion` | lock | does one run win also when there is a stale lock? | no, see findings |
| `perf_pool` | pool, run, heap, top, cpu, stats | do the lifecycle file, the workers, the alerts, the dumps, the files and the report agree under restarts, failed discovery, Ctrl-C and `stop()`? | yes |
| `perf_gone` | pool | does a gone row mean that the process has ended? | no, see findings |

Most properties are conjunctions of parts that make sense on their own; each part
is defined, with the behaviour of the code it is about, above the conjunction:

| property | parts |
| --- | --- |
| `IncidentPipeline`: `LimitsKept` | `CapKept`, `SlotsAccounted` |
| `IncidentPipeline`: `JournalIsTrue` | `JournalWellFormed`, `JournalAgreesWithTask`, `PersistedIsComplete` |
| `IncidentPipeline`: `StopLeavesNothing` | `StopResolvesAll`, `MissingRecordWasClaimed` |
| `IncidentPipeline`: `StopSettles` | `StopReturns`, `SettlesEveryIncident` |
| `AdbCalls`: `AdbServes` | `SlotsMatchCommands`, `FailuresAreLostCalls`, `CallsEnd` |
| `LogcatParser`: `CrashesParsed` | `OnlyOwnEvents`, `JavaCrashOnce`, `JavaEvidenceOwn` |
| `Fusion`: `CrashesCounted` | `DifferentCrashesApart`, `ReplaysAbsorbed`, `CrashCountedOnce`, `FailuresSurface` |
| `ContextBuffer`: `SliceExplained` | `MemoryBounded`, `SliceInWindow`, `MissingContextExplained` |
| `ProcessWatch`: `WatchTruthful` | `OnlyOwnProcesses`, `RowsTellTable`, `RestartsFollowALife`, `StartNotStale` |
| `ResourceRisk`: `EpisodesReported` | `OneEventPerEpisode`, `GrowthReported`, `ZeroExplained`, `GrowthReal` |
| `ReportFoldCheck`: `ReportFaithful` | `CountsBalance`, `SettledOnce`, `FactsSurface`, `NeverFalselyStable` |
| `CrashRecovery`: `KillLosesNothing` | `RecoveredNeverStable`, `LogcatIssuesSurface`, `PersistedIsTruthful` |
| `RunCompare`: `GroupsSound` | `GroupsPartition`, `CompleteLink`, `WeakStayApart`, `RepeatsAreGrouped` |
| `RunCompare`: `ComparisonSound` | `PassMeansNoMore`, `AggregateConserves`, `NewInOneRun` |
| `RunVerdict`: `VerdictSound` | `ZeroMeansStable`, `FailureWins`, `JunitTellsExit`, `WorkloadFailureSurfaces` |
| `MatrixRun`: `MatrixComplete` | `MissingWasOvertaken`, `ZeroMeansAllRan` |
| `Redaction`: `SecretsKept` | `BundleClean`, `AbortLeavesNothing`, `RunDirectoryRedacted` |
| `TestPlan`: `PlanRunSound` | `ValidPlanResolves`, `PassIsEarned`, `VerdictOfOneTree`, `StillTreeIsNotStale`, `InventoryExact` |
| `RunSession`: `SessionSound` | `ExitLeavesReport`, `ExitAgreesWithReport`, `CommandEndsFirst` |
| `LogFiles`: `LogKept` | `LinesKept`, `LossBounded`, `SegmentsSound`, `RetentionKeepsRecent` |
| `JournalFile`: `JournalSurvives` | `KillCostsOneRecord`, `LossIsWarned` |
| `DeviceHealth`: `ReadersFollowDevice` | `EpochCountsReboots`, `GapsMatchPolls`, `OneReaderOutsideGaps`, `UnsettledIsTheOnlyHarm` |
| `IncidentDump`: `EvidenceSound` | `EvidenceIsOwn`, `TraceNotStale`, `FallbackExplains`, `DropboxOfThisCrash` |
| `ExitRecords`: `RecordsOfTheRun` | `NoEarlierRecords`, `RunsRecordsTaken`, `OnlyFailuresCounted` |
| `PerfPool`: `PoolSound` | `LifecycleTellsWorkers`, `OnlyCurrentSamples`, `QuietAfterStop`, `DumpsBounded` |
| `PerfPool`: `PoolLive` | `WatcherCatchesUp`, `PoolEnds` |
| `PerfRun`: `PerfRunSound` | `ReportHasRows`, `HeaderOnce`, `StatusEndsLast`, `ExitTellsRun` |
| `PerfDumps`: `DumpsSound` | `HeapIsWhole`, `IncidentNamesFiles`, `DeviceLeftClean`, `ThreadsAtPeak` |
| `PerfReport`: `NumbersSound` | `PercentagesBounded`, `NothingLost`, `UptimeMeasured` |
| `MCRunDirectory`: `SessionEnds` | `RivalKeepsLock`, `StatusStaysEnded`, `RunEnds` |

Where the code has a weakness (below), a property names the state that exposes it
and says that nothing else does harm. `ExitLeavesReport` excludes a dashboard stop
that was cut short, a report whose building raised, and a Ctrl-C in `_abort`, in the
`finally` clause of `main`, or a second one in `stop()`; `ExitAgreesWithReport` a pool
whose stop raised; `JournalSurvives` a journal with half a character;
`ReplaysAbsorbed` an occurrence that was already forgotten, `CrashCountedOnce` also
a death in front of the crash; `NoEarlierRecords` a device
whose zone was not told; `ZeroExplained` a process that died between two calls and
threads that may not be listed; `MissingWasOvertaken` a thread that got its slot before
one that is joined earlier; `BundleClean` and `RunDirectoryRedacted` the JUnit file;
`VerdictOfOneTree` a `HEAD` that moved and an edit that was undone;
`PercentagesBounded` the ticks between two reads. Each of
these exclusions is a reachable state of the run (but a second Ctrl-C, which only
the theorem has), and the mutant of the property shows that the rest of it is not
empty.

### Bounds

- `pipeline`: two crashes and an ANR, a cap of one, one queue slot, one worker,
  two files. Two events of one type are the least that meet the cap, and a third
  of another type the least that meets a full queue. The join succeeds. Three
  threads on two adb slots, two attempts, five calls: a thread waits while two
  commands run, and some thread calls again after giving up.
- `pipeline_races`: the same events with room for all, two workers, and a join that
  may give up. Two workers and the dispatcher are all pairs of actors that can race
  for a task. An incident is one file here, since `pipeline` and `crash_recovery`
  have those that are published in part. Three writers of log lines, of a crash, a
  stranger's and a system block, and lines that cannot be parsed; three reports of
  at most two failures with windows of ten seconds; four context lines of two sizes
  around one event; four pids for two processes of the package, a sibling and a
  lookalike; three samples, in which the process may die between any two calls.
- `late_publication`: one event, the least that shows it.
- `report_fold`: two events, up to three records each and four together: a detected
  record, an end, and one more from a second run. Three incidents in two reports, of
  ten kinds that differ in one feature each, with stacks whose likeness is not
  transitive. Gaps of coverage on either side of the threshold and of its rounding;
  the baseline is the report written first. Three devices on two slots, with a
  timeout of two and a grace of one, in which a thread is overtaken and its join
  gives up. Two exports, the second after a kill of the first, of a directory with
  two secrets, or one and a broken file, in one file of each kind the code treats
  differently, the JUnit file among them; a kind of secret that two kinds of files
  treat alike is in one of them. Two suites, two commands; one edit, which may be
  committed or undone, or a checkout.
- `crash_recovery`: two crashes, cap one, a kill at any step; one of them may be
  unsigned, which is what distinguishes an ExitInfo crash. One dashboard and one
  Ctrl-C (a monkey, which differs from a launch in its name, has none); four log
  lines in files of two lines over three hours, one kill; five journal records and
  two kills, so that a kill hits the line a kill left.
- `logcat_stream`: three lines stamped 1, 1, 2; a queue of two; two spawns; time
  to three with `StaleTicks` of two. Two lines with a stamp in common, and one
  after, meet the resume position from each side, and two spawns reconnect once.
- `run_lock`: any three of three symmetric runs and a recovery: a clearing race
  needs two; the third comes while they are at it. One outage with three polls: a gap, its
  recovery, and what follows. One crash of each type with two trace files and two
  writes of the device, which is a file rewritten between listing and pull and one
  more. Two exits in three units of time, each unit the tolerance of the code.
- `perf_pool`: one process with one kind of loop (the kinds differ only in name,
  cap, and the CPU's first sample, which has no value), two dumps, one at a
  time, `Sustain` and `Cooldown` of one. `Bounds` says which troubles (restarts
  and failed discoveries) and clocks go together: a clock to three without
  trouble, which is a rise, an alert, a cooldown and a second alert; or one
  trouble with a clock to one, which is every interleaving of a restart. Two loops
  and one change of the hour; two Ctrl-C; a heap of three units and three polls,
  one more than a stable size needs; two cores, three ticks, two lives of a pid.

Deadlock is checked only where a stopped system is not the normal end
(`PerfPool` says so with `Ended`); elsewhere the subjects end.

### Fairness

- `MCPipeline`: the thread in `stop()` and each dispatch go on (`ThreadFairness`).
  Nothing is assumed of dumps, which may hang on `adb`, and `stop()` must return
  all the same. That dumps end (`WorkerFairness`) is only a hypothesis of
  `SettlesEveryIncident`; the code gives every `adb` call of a dump a timeout. For
  that reason each thread inside `Adb.run` makes progress. A thread may lose the
  race for a slot as often as another calls; the bound on calls keeps that finite.
- `LogcatStream!FairSpec`: the clock, the consumer and the stopping thread. The
  device need not log anything, and a connection need not die.
- `RunSession!SessionFairness`: the main thread and the heartbeat are scheduled,
  and a command that was sent a signal ends, as it is killed after five seconds.
  Other workloads and the dashboard's threads may hang: the joins have timeouts.
- `PerfPool!Fairness`: the start of the pool, the watcher, the steps of `stop()`
  once it is called, and every loop, whose `adb` calls have timeouts. Nothing
  is assumed of the clock, the device, the dumps, or of a call of `stop()`.

## What is proved

TLAPS checks these theorems for every value of the constants that satisfies the
named assumption of the module; TLC evaluates the assumption on each instance.
`property` is the definition that the theorem states and a run checks.

| module | theorem | property | says |
| --- | --- | --- | --- |
| `IncidentPipelineProofs` | `InvariantHolds`, `TypeCorrect` | `TypeOK` | the inductive invariant and the types |
| | `JournalTellsOneStory`, `JournalTellsTheTruth`, `PersistedHasItsFiles`, `JournalHoldsTrue` | `JournalIsTrue` | a detected record first, then at most one terminal record, which is the state the task ended in; a persisted task has all its files |
| | `ClaimsAreFinal` | `TerminalIsFinal` | no step changes a terminal state |
| | `LimitsAreKept` | `LimitsKept` | the cap of a type and the slots of the dumps are counted exactly |
| | `StopLeavesNothingOpen` | `StopLeavesNothing` | after `stop()` no task is open, and a record is missing only of a task whose worker had claimed its end |
| | `PipelineImplementsLedger` | `ImplementsLedger` | every step is a step of the ledger or a stutter |
| `CrashRecoveryProofs` | `RecoveryIsHonest` | - | a recovered report is never stable, and what it calls persisted has its files |
| | `KillsLoseNothing` | `KillLosesNothing` | and it shows every issue of the log but those the cap hides |
| `RunLockProofs` | `LockInvariant`, `LockTypeCorrect` | - | the inductive invariant and the types |
| | `FreshRaceHasOneWinner` | `OneWinner` | of any number of runs racing on a fresh directory one wins |
| | `LonersAreNotRefused` | `NoFalseRefusal` | a run without rivals gets the lock, whatever dead runs left |
| `CollectorProofs` | `NothingIsLeftOut` | `NoLineSkipped` | no yielded line has an earlier line that was not |
| | `IntervalsAreCoverage` | `CoverageBeforeStop` | the up intervals are disjoint and hold the last line until `stop()` comes in |
| | `WatchIsTruthful` | `WatchTruthful` | table and rows tell the present life of the package's processes |
| | `EpisodesAreReported` | `EpisodesReported` | growth is reported, once per episode; a denied listing of descriptors is no value, a zero that was not read has its reason, and no growth is reported over it |
| | `CrashesAreParsed` | `CrashesParsed` | the package's Java crash is one event, of the lines that can be parsed with its own only, however lines interleave |
| | `CrashesAreCounted` | `CrashesCounted` | one crash is one incident, whoever reports it, two are two, and no recorded failure is missing |
| | `SlotsAndFailuresAreTrue` | - | the safety part of `AdbServes`: slots and failures of the adb client are counted exactly |
| `DeviceProofs` | `ReadersFollowTheDevice` | `ReadersFollowDevice` | epochs, gaps and logcat threads follow the device |
| | `RecordsAreOfTheRun` | `RecordsOfTheRun` | the ExitInfo records of this run, and no others |
| | `EvidenceIsSound` | `EvidenceSound` | a trace is of its incident's own process life, or its absence is explained |
| | `SlicesAreExplained` | `SliceExplained` | a context slice is of its window, and what it lacks is explained |
| `RunDirectoryProofs` | `SessionIsSound` | `SessionSound` | a run leaves its report, agrees with its exit status, and ends its command first, whatever raises, outside of the exceptions named |
| | `LockAndStatusAreKept` | - | the two action properties of `SessionEnds` |
| | `JournalSurvivesKills` | `JournalSurvives` | of a journal that can be decoded a kill costs one acknowledged record at most, and loss is warned of |
| | `LogIsKept` | `LogKept` | a line is in one file, once, unless a kill or its age took it, and a kill takes fewer than `flush_every` |
| `PerfPoolProofs` | `OneSampleLate` | `OverrunBounded` | a loop told to stop writes at most one sample more |
| | `AlertsRaisedWhenDue` | `AlertsExactlyWhenDue` | a sample raises an alert exactly when one is due |
| | `PoolIsSound` | `PoolSound` | lifecycle rows, workers, samples and dumps fit together |
| | `PerfRunIsSound` | `PerfRunSound` | rows, headers, status, report and exit status fit together |
| | `DumpsAreSound` | `DumpsSound` | a heap dump called ok is whole but for the three reasons it keeps, its files exist, an accepted dump leaves nothing on the device unless its rm failed, threads are at their peak |
| `AnalysisProofs` | `ReportIsFaithful` | `ReportFaithful` | counts balance, each issue is settled once, none is lost but to the cap, stable hides none |
| | `MatrixIsComplete` | `MatrixComplete` | a device is missing only after slots were taken in another order than that of the joins, and exit 0 means success of every device that is not missing |
| | `VerdictIsSound` | `VerdictSound` | exit code, verdict and JUnit file agree, and success is earned |
| | `SecretsAreKept` | `SecretsKept` | no text file of a bundle or of a redacted directory has a secret the patterns know, and an export that stops leaves no bundle |
| | `PlanRunIsSound` | `PlanRunSound` | a valid plan resolves, PASS is earned, a verdict is of one tree unless `HEAD` moved or an edit was undone |
| | `GroupsHold` | `GroupsSound` | the groups hold each issue once, every pair of a group is alike, little evidence stays apart, a repeat opens no group |
| | `ComparisonHolds` | `ComparisonSound` | a comparison that passes hides no more frequent failure, the aggregate counts each issue once, a trend lists a fingerprint as new in one run, with each group it has there |
| | `PercentagesAreBounded` | - | `PercentagesBounded` of `NumbersSound`: 0 to 100 for each core, but for the ticks between two reads, also when the pid changes hands |
| | `NumbersHold` | `NumbersSound` | and no sample, alert or failed process is lost in the report, and an uptime is the time the process was there |

### Assumptions and hypotheses

The assumptions on constants say what the configuration or the type of the constant
says: limits and bounds are natural numbers, and not 0 where the configuration
forbids 0 (`PipelineAssumption`, `PoolAssumption`, `ContextAssumption`,
`PerfRunAssumption`, `PerfDumpsAssumption`, `AdbAssumption`, `SessionAssumption`,
`JournalFileAssumption`, `HealthAssumption`, `DumpAssumption`, `ExitAssumption`,
`RedactAssumption`, `VerdictAssumption`, `TestPlanAssumption`,
`PerfReportAssumption`); names that stand for different things are different
(`LockAssumption`, `WatchAssumption`: a package's own names are not a lookalike's);
timestamps of one device's log do not go back (`StreamAssumption`); a matrix has any
number of devices, at least one slot, and a grace of its joins, 60 seconds in the
code, that is not 0 (`MatrixAssumption`); the retention of the log is 0, for none,
or whole hours (`LogFilesAssumption`); the thresholds of resource growth are numbers
and an app may use more than nothing (`RiskAssumption`); the events of a report are
finitely many (`FoldAssumption`), and so are the processes of a performance test
(`PerfReportAssumption`); the likeness of two stacks is a percentage that does not
depend on which comes first, and a stack's name stands for its frames, since one
function of the frames computes the likeness (`CompareAssumption`); the time window
of fusion is at least a second, as `fusion_key_for` sees to (`FusionAssumption`); a
process belongs to the package or not, and the log has one Java crash of the package
at most (`ParserAssumption`): the parser keeps no state from one crash to the next
but the block, which another `FATAL EXCEPTION` line closes, and one crash is what
`JavaCrashOnce` counts.

Some theorems carry a hypothesis besides:

- `~JoinMayTimeOut` in `PipelineImplementsLedger` and `KillsLoseNothing`: the join of
  the logcat thread in `stop()` succeeds. Without it both are false, and TLC
  shows why: a thread that was given up on may still open an incident after the
  ledger has closed, or count an event towards the cap and be killed before it
  journals it. `StopLeavesNothing` has the same case in its own text, and
  `RecoveryIsHonest` needs no hypothesis.
- `PreSec > 0` in `SlicesAreExplained`: see the known weaknesses for 0.
- `Cooldown > 0` in `OneSampleLate` and `AlertsRaisedWhenDue`: with a cooldown of 0
  the second of two samples of one moment starts another rise.
- the assumption of the module in `RunLockProofs` and in the stream's theorems, which
  is stated there rather than cited.

### The arguments

- Pipeline. That the journal tells one story is not inductive: it must be known who
  may still append. `StageInv` says how far the dispatcher, the worker and the
  published files can be apart; `JournalInv` says that an event no one has recorded
  yet has an empty journal, and that as long as an appender is on its way
  (`Underway`, a task that is queued or running, a worker at `to_journal`) there is
  no terminal record (`Quiet`). `Quiet` allows for a journal closed early, because a
  closed journal takes no record at all. For the limits the slots are the
  cardinality of `SlotHolders`, and each step adds or removes one event of that set
  (`CallerInv` says which way each caller's events go). For `stop()`, `JoinedInv`
  says the logcat thread has returned once the join is over, so that no task is made
  while the rest is marked (`ResolvedInv`), and `SettledInv` that an incident that
  was turned away, settled by ExitInfo or timed out has both its records. The
  ledger's step is then read off the outcome of the one event that changed.
- Recovery. `CappedInv` says that an event over the cap stands behind an event of its
  type that logcat reported and the dispatcher has let through, and `RecordsInv`
  that this one has a record; the fold keeps every event that has a record
  (`IssueIsReported`). The order of the callers (`OrderInv`) is what makes the event in
  front visible to the one behind.
- Run lock. Mutual exclusion is false with a stale lock. While the directory is
  `fresh`, the lock belongs to its holder (`LockIsHolder`) and no one has read a
  lock that may be cleared (`NothingStaleSeen`), so no one unlinks. For a process
  without rivals, `AloneInv` says that what it read is still there.
- Logcat. What makes up for the lost queue is `Resumable`: the resume timestamp is
  that of a yielded line, so that every line left out by the next connection is
  older than a yielded one. The intervals need the consumer's place in the close of
  one (`ClosingInv`), where a start is already recorded and not yet reset.
- Process watcher. Almost inductive as it stands; what is missing is that a process
  the monitor cleared is in neither table (`ClearedIsUnknown`), so that its next
  row is a new one.
- Resource risk. What a key remembers is enough (`DetectorSound`): a key that is armed
  has an event, and one that is not armed and has an event came back to the
  margin since.
- Event parser. `CrashInv` says where the package's crash is: not yet named, in the
  open block, or in exactly one event. A line of the log changes that only in the
  Java stage (`ParsedIs`); the other stages add events of other types
  (`StageFollows`), and what a writer still has to write has no second head
  (`NoCrashLeft`).
- Fusion. The keys of an occurrence are those of its first observation, and tell its
  process, type and time bucket (`Origin`); its members agree in these and name
  one signature (`OneMarker`). Why a replay finds the occurrence it joined before:
  of two that both match its origin, the later one was made because the earlier one,
  which was remembered then, has another signature, and never takes a member
  without one (`PairsApart`). For an ExitInfo record, what is about to be
  forgotten is everything or nothing (`aged`), so that the crash it was given
  the type of is still found when an older occurrence is.
- Adb client. The calls that execute are as many as slots are taken, and a step adds
  or removes one; a call pauses only before an attempt is left (`AttemptsCounted`).
- Device health. `ReaderInv` says of the newest thread alone what state the others,
  the monitor and `stop()` may be in; all older threads have ended. It is
  assumed only while `met.unsettled` is false, which is the exception of the
  property. `EpochInv` says what a monitor that has seen a reboot still owes.
- ExitInfo. `WatermarkInv` relates the watermark to the start of the run as far as
  the start has come; `QueryInv` says that what the last query left behind is
  before the watermark or was not printed yet.
- Dumps. Two times matter: what was listed is what it was, or was written since
  the event (`ListedInv`), and a cached entry was an answer for its key (`CacheInv`).
- Context. A line that left the buffer is too old or counted (`EvictionsCounted`); the
  eviction stops at the first line from which the rest fits (`EvictToFirst`).
- Session. Of any number of threads in `stop()`, the run has its report and no lock, or
  one is in `stop()` still (`StoppedInv`), unless what raised is in `test.failed` or a
  Ctrl-C in `main.sigint`; `CodeInv` and `ReasonInv` follow the exit
  code to the report, `CommandInv` the workload.
- Journal file. `JournalInv` counts: the acknowledged records that do not stand alone
  on a line are the first after a kill, and there are no more of these than kills;
  records that split their line are counted apart.
- Log files. What keeps a rotation from opening a segment a second time is that the
  segments of an hour are numbered without a gap (`Dense`), also after a kill,
  when the next run probes for the first free number. A line is in the segment its
  writer had open, once, or gone (`LinesPlaced`), and files are deleted only of
  hours that no one writes to any more (`FileSound`).
- Performance pool. The invariant of a loop is local: `Tracks` relates the state
  of a tracker to the samples it was fed (in a rise, `since` is the first sample
  of the run that counts), and `LoopInv` says that a late loop no longer samples.
  `CurrentInv` and `RowsInv` tie the dictionary of workers to the rows, `StopInv` says
  what is marked at each place of `stop()`.
- Performance run. What a report lacks is what the writer has not flushed
  (`MissedIsUnflushed`), and a stopped pool has nothing unflushed; the heartbeat
  is over before the pool is stopped, or late (`BeatFollowsRun`).
- Performance dumps. `RemoteFollowsHeap` says at each place of the dump what the file on
  the device can be: a size that did not grow between two polls is of a file that
  is whole, dead or stalled. For the threads, `AtPeak` holds after each line.
- Report. `ReportFaithful` is about any journal, so the invariant is its type alone
  and the work is in the fold: a journal that has a terminal record has a last one,
  and the detected events are split by theirs, so that their numbers add up.
- Matrix. As long as nobody is overtaken (`InOrder`), a worker waits for its slot only
  with all behind it, and the one that is joined has run for as long as it has been
  joined: its own timeout ends it before the join gives up. It finds its slot free,
  as the workers before it have ended and those behind it wait (`SlotIsFree`).
- Redaction. `StagedSoFar` follows the bundle through its steps, `PassedRedacted` the files
  behind the one that is being redacted.
- Verdict and plan. `ToldAsJudged` says that exit code and JUnit file are what the
  judgement gives; `SuitesRun` says of each suite of the target whether it has not
  begun, is the one that runs, or is complete. While a tree is only edited, it never
  goes back, and each thing read is between the one before and the present tree
  (`OnlyEdited`); with `HEAD` where it was, equal digests are of equal trees
  (`DigestTells`).
- Folds. Clustering, uptimes and sums are folds, over a report or a set of any size.
  They are followed by induction, with the library's fact that the naturals are
  well-founded: a set of numbers that has 0 and every successor has all numbers
  (`ByInduction`), a statement about a fold becomes the set of lengths for which
  it holds, and `FoldExists` shows that the function chosen by the definition of
  a fold exists and takes one element at a time. `SumCounts` then says what a sum
  is: the number of pairs of a thing and a position of it, whatever the order.
- Groups. The clustering is greedy, so what is inductive is said of a list of
  clusters and not of a report: any two members of a cluster fit, and no cluster
  begins with the incident, or with little evidence the fingerprint, of another
  (`WellMade`). An incident that fits the first of a cluster with its own
  fingerprint is admitted (`WeakAdmits`), and of the admitting clusters one is
  best because averages are ordered (`BestCluster`, `RatioTrans`). The count is of every
  kind of incident at once (`HoldsAll`): one part of it is the partition.
- Comparison. With little evidence a fingerprint has one cluster, which holds all its
  occurrences (`WeakGroups`), so that the map by fingerprint loses nothing that
  `PassMeansNoMore` speaks of, although it may lose other groups. The aggregate does not
  go through that map: it adds what the groups count (`AggregateIsCount`).
- Performance report. What the pid used since the last read of the same pid is not
  more than what all cores had since that read, which is the distance of the two totals
  and the lag of the earlier sample (`CpuInv`): a new process begins at 0. For the uptimes,
  `LifeInv` says of the first k lifecycle rows what they cover: intervals that do
  not overlap (`Tidy`), and one that is open. A process has one entry
  (`SetAsSeq`), so that the rows, and the alerts, of all entries are those of all
  files and of all incidents.

### Only model-checked

- liveness (`StopSettles`, `CallsEnd` of `AdbServes`, `StopEndsStream`, `RunEnds` of
  `SessionEnds`, `PoolLive`): fairness is stated with `ENABLED`, which is out of the
  prover's reach;
- mutual exclusion of the lock with a stale lock, and the other four properties
  under findings: they are false.

## Findings

1. `late_publication`. `tasks.py:13-14` promises that the files of a task that
   `stop()` claimed are never published. `_run_dump` looks at the claim under
   the lock and publishes without it (`pool.py:1708`): the claim may come in
   between, and the files also after `stop()` returned.
2. `exit_info_verdict`. `pool.py:1292-1293` says a crash during a logcat gap can
   never give a false stable verdict. An incident made from ExitInfo carries no
   exception, signal or frame, the report filters it (`reporter/result.py:198`),
   and the verdict is stable.
3. `logcat_stale`. A connection is killed after `stale_sec` of silence, says
   `collectors/logcat.py:194`. The last success is not reset for a new
   connection (`:284`): after a long outage its first empty poll kills it.
4. `lock_exclusion`. "Only one wins" (`tests/test_runlock.py:12`) is not so with a
   stale lock: of two runs that found it, the second unlinks the lock the first
   has linked (`runlock.py:154`).
5. `perf_gone`. The comment at `pat/pool.py:176-178` distinguishes a process that is
   gone from broken sampling. A discovery whose `adb` calls fail returns no
   process (`pat/discovery.py:194`), and a gone row is written for one that lives.

## Known weaknesses

What the models show besides. A property of a passing run either excludes the state
by name or says how far the harm goes. A document of the repository says otherwise of
some of these:

- "A broken device can never silently disappear" (`cli.py:396-397`): that is so of a
  worker that ended without a report. One whose thread was overtaken at the slots may
  still run when its join gives up; it is then in neither the aggregate nor the exit
  code, which may be 0 (`MissingWasOvertaken`, `ZeroMeansAllRan`).
- A denial is "never silently written as a real 0" (`collectors/resource_risk.py:5-9`):
  the threads are counted without a probe, and a process that dies between the probe
  and the count has 0 descriptors (`ZeroExplained`).
- "The same physical failure is counted exactly once" (`fusion.py:3-4`): not when its
  occurrence is forgotten, or the process has another one in front of it
  (`CrashCountedOnce`).
- Earlier complete events of a journal "are recovered" (`journal.py:14-16`, `:124-126`):
  the file is read as UTF-8 as a whole (`:135`), and records are written unescaped
  (`:100`). A kill inside a character loses every record, in later runs too, with an
  exception and no warning (`Decodes` in `JournalSurvives`).
- A process that saturates N cores reports 100*N% (`pat/collectors/cpu.py:6-7`): the one
  command runs two `cat`s, and what passes between them can add to it
  (`PercentagesBounded` says how much).
- "0 on timeout" (`pat/dumpers/heap.py:88-89`): the last size is returned, and a file
  that may still grow is pulled (`HeapIsWhole` names the deadline).
- STALE means that code changed during execution (`references/execute-tests.md:35` of
  the skill): an edit that is committed or undone before the second digest, and a
  checkout, are not seen (`VerdictOfOneTree`, `testctl.py:316-325`).

Pipeline and evidence:

- An incident is published one file at a time (`pool.py:1608`), the JSON first: a
  kill in between leaves an incident with part of its evidence. A kill between
  publication and terminal record shows one incident twice, from its file and as
  an orphan (`reporter/result.py:305`, `:114`).
- A task whose worker claimed its end may journal it after `close()`
  (`pool.py:1133`); the record is lost, and the counts of `reporter/result.py:107-110`
  do not balance. `MissingRecordWasClaimed` bounds the damage to such tasks.
- `adb.py:76-134`: the timeout is that of one attempt out of `retries + 1`.
- A later trace of the same pid can bind, and without a known zone a stale one;
  DropBox is asked for the base package; `verify_local_trace` accepts a file
  without pid and name; an ExitInfo record annotates an incident only if its JSON
  was published (`pool.py:1394`).
- `stop()` asks ExitInfo twice and stops at the first answer with a record
  (`pool.py:479-500`); a reason it does not know counts as a process death.
- A line at exactly the time of the event is in neither half of its context
  slice; eviction by age leaves no reason, and `dropped_by_cap` counts all evictions
  of the run (`context.py`). With a `pre_context_sec` of 0, which `config.py:196-197`
  allows, the slice of a task that waited says nothing of the lines after the event that the
  buffer evicted meanwhile: the reason is only given for the window before (`pool.py:1559`).
- After a join of the logcat thread that gave up, that thread may count an event
  towards the cap and be killed before it journals it: the next event of the type is
  then dropped by the cap behind an incident that no report shows.

What feeds the pipeline:

- A gap that ends while the old logcat thread still leaves lets that thread set
  `_logcat_stream` to `None` under the new one (`pool.py:831`): the new stream can
  no longer be stopped, a second reader may start, and `stop()` may raise between
  test and use. An empty boot id misses an epoch, and an unreadable uptime looks
  like a reboot. `pid_epoch` advances after the watchers were started again.
- `stop()` and `lines()` both close the up interval (`collectors/logcat.py:116`,
  `:321`): it can be recorded twice, or with a start that is already reset. The mute
  time before a connection is found stale counts as coverage (`:320`).
- A line that cannot be parsed enters the evidence of every open block, whoever wrote
  it, up to a run of `MAX_UNPARSEABLE_RUN` (`detection.py:266-270`).
- The parser closes an ANR block that did not get to its `PID:` line with pid 0;
  a `pid:` line of another process discards the native block that is open; a line
  between `FATAL EXCEPTION` and `Process:` loses the Java crash.
- Fusion forgets an occurrence after 600 seconds, and the ExitInfo record of an
  older crash counts again; a replay of a forgotten one, too; records on both sides
  of a bucket boundary may count twice (`fusion.py:154`); the key of a fault has
  neither epoch nor process.
- An `adb` outage writes gone rows for every process and `recover` clears what is
  known of them; a name that `ps` cuts is dropped when its command line cannot be
  read; the start time of an older life may stay (`pool.py:980`).
- `collectors/resource_risk.py`: `fields[20]` is the size of the address space,
  not a start time; samples submitted before
  `start()` are dropped; the status never returns to normal.

After and around a run:

- Two groups may share a fingerprint and one of them is lost in `_group_map`
  (`compare.py:44`); the aggregate takes first and last time from its first report;
  `sat trend` does not rescan (`cli.py:950-956`); the policy option
  `fail_on_new_regression_only` is read by nobody (`policy.py:40-85`).
- In a matrix, a report of an earlier run stands for a worker that failed, and a thread
  that ends between the two reads of the list is in the exit code only
  (`cli.py:388-417`).
- Two groups of a run with one fingerprint, new in it, are both on the trend's list of
  new fingerprints, which then has it twice, and in its count (`indexer.py:89-128`).
- `--redact` and `--junit` are skipped when the workload failed or was interrupted
  (`cli.py:1106-1111`); a file that is not JSON ends the redaction with the
  later files as they are, and the exit code stays 0 (`cli.py:1124-1129`); keys of
  JSON objects and secrets split over lines are not found. A `junit.xml` in the run
  directory may be in a bundle, but has no text suffix: it is neither redacted nor
  scanned (`redaction.py:158-184`, `:212-214`, `:285-287`).
- The dashboard's `POST /api/stop` and the caller of `stop()` are not serialised
  (`api.py:471-493`): the process may end before the report of the other thread is
  written. A second Ctrl-C inside `stop()` skips the rest of it, and one inside `_abort`
  all of it: `_stopped` is set, so that `main` does not call `stop()` (`api.py:565-570`,
  `cli.py:1071`). A workload that is
  running 30 seconds after its stop is left alone.
- An exception of `pool.stop()` (`pool.py:461-462`) leaves the pool open while the report
  is built; one in building the report leaves neither a report nor a free lock
  (`api.py:488-493`). `main` swallows both, and with the second a Ctrl-C that was on its
  way: the exit status is then that of the report, or 2 if there is none
  (`cli.py:1087`). An exception of `start()` that is none of its
  own ends in a report that says `duration_elapsed`, and in the exit status 1.
- A record of the journal whose text holds a U+2028, U+2029 or U+0085 is split by
  `splitlines()` (`journal.py:135`), and lost with a warning.
- `sat recover` never holds the lock it looks at (`recovery.py:36`), and a run that
  was refused the lock still writes reports into the directory (`api.py:558`).
- `storage.py`: a write after `close()` opens the file again; retention goes by
  modification time; `files()` puts numbered segments before the first one.

Performance tool and test skill:

- The loops of a worker that a restart removed are not joined by `stop()`; a sample
  they write after `close()` opens the CSV file again after the report was built
  (`pat/storage.py:84`). Dump threads are neither joined nor told to stop, and a
  dump that gave up on the semaphore stays counted (`pat/pool.py:377`). A process
  that restarts gets new trackers, so that an alert may follow the last one
  within the cooldown.
- The command line never calls `set_exit`: an interrupted run exits with 130 and
  its report says 0. An interrupt in `start()` of a `with` block leaves no
  report. A heartbeat that is stuck says running after the end (`pat/status.py:54-65`).
- A dump whose `am dumpheap` timed out, or was refused and wrote all the same,
  leaves its file on the device: the `rm` is for an accepted one
  (`pat/dumpers/heap.py:166-183`). Rows of a CSV file that cannot be read are
  dropped silently.
- `testctl.py`: a feature without suites passes; a report directory inside the
  repository makes the verdict STALE; an edit of the plan before the first
  snapshot is not seen.

## What is not modelled

- The content of evidence, of log lines and of reports; wording and layout;
  both HTML reports, a fifth of the lines, without state. The device,
  `adb` and the file system appear only through what the code can see of them: an
  answer, no answer, a failure.
- Webhook, plugins and the self-monitor: best effort, no component waits for
  them; the memory collector: it reads one number.
- Loading of YAML and profiles, `doctor`, device metadata, watermarks of the disk,
  the drivers of offline import and replay: checks and glue in sequence, without
  state that outlives a call.
- The endurance script, demonstrations, and the Fault Lab application with its
  Java side.
- In `PerfRun`, exceptions of `start()` other than a failed setup, a missing adb and the
  timeout of the wait for a process. In `PerfPool`, a clock that goes back: the pool uses
  `time.time()`, which the model takes as monotone.
- Threads of the interpreter switch between the steps of the models only; a step
  is what a lock protects, or one read or write of a shared field.

## Plan

The remaining components have no state worth a module, and every invariant that a
passing run checks is a theorem. A change of the code begins with the lines `map`
names in `PROJECT.json`: change the definition, run TLC on the configuration of its
component, then the module of its theorems. What is left to be found is in the code: the
five findings and the weaknesses above. A fix of one of these removes an exclusion
from a property, or turns a run that expects a violation into one that passes.
