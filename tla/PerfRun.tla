------------------------------ MODULE PerfRun ------------------------------
(***************************************************************************)
(* One run of the performance test: the command line (pat/cli.py) or a     *)
(* `with PerfTest(...)' of a script drive PerfTest (pat/api.py), whose     *)
(* heartbeat (pat/status.py) overwrites status.json and whose loops write  *)
(* CSV files by the hour (pat/storage.py), which the report is built from. *)
(* The pool is PerfPool seen from far away.  start() fails as its code     *)
(* expects, in preflight or in the wait; what else it may raise, which the *)
(* command line passes on after its finally clause has called stop(), is   *)
(* left out.                                                               *)
(***************************************************************************)
EXTENDS Naturals, FiniteSets, Sequences

CONSTANTS
    Callers,      \* who uses PerfTest: "cli", "script"
    Loops,        \* threads that write to the same CSV writer
    LastHour,     \* hours of the run: 0 .. LastHour
    MaxRows,      \* rows written in all
    FlushBatch,   \* CsvStreamWriter.flush_every
    MaxSigints    \* how often the user presses Ctrl-C

NoReport == [reason |-> "none", exit |-> 0, missed |-> 0]
NoStatus == 99
NoHour == 99

ASSUME PerfRunAssumption ==
    LastHour \in 0 .. NoHour - 1 /\ {MaxRows, FlushBatch, MaxSigints} \subseteq Nat

VARIABLES
    cli,        \* the caller: who it is, where it is, whether Ctrl-C was seen, whether
                \* an exception goes on, its exit status, and Ctrl-C left
    perf,       \* PerfTest: _stopped, _exit_reason, _exit_code, the pool,
                \* _result, and as history whether a report could not be written
    heartbeat,  \* the thread of StatusWriter, its _stop, `running' in the file, and
                \* as history whether its join timed out
    sheet       \* one CsvStreamWriter: the hour of the open file, rows that are not
                \* flushed, the hour each loop has read, and the files on disk

perfRunVars == <<cli, perf, heartbeat, sheet>>

PerfRunInit ==
    /\ cli \in [who : Callers, pc : {"preflight"}, interrupted : {FALSE}, raised : {"no"},
                status : {NoStatus}, sigints : {0}]
    /\ perf = [stopped |-> FALSE, reason |-> "duration_elapsed", exit |-> 0, pool |-> "none",
               result |-> NoReport, broken |-> FALSE]
    /\ heartbeat = [at |-> "none", stop |-> FALSE, file |-> "none", late |-> FALSE]
    /\ sheet = [open |-> NoHour, unflushed |-> 0, now |-> 0, key |-> [l \in Loops |-> NoHour],
                file |-> [h \in 0 .. LastHour |-> <<>>]]

Step(from, to) == cli.pc = from /\ cli' = [cli EXCEPT !.pc = to]
Leaves(status) == cli' = [cli EXCEPT !.pc = "exited", !.status = status]
Alive == cli.pc # "exited"

-----------------------------------------------------------------------------
(* The CSV writer *)

\* What a reader finds: all but the rows that are not flushed, which are the last
\* of the open file.
Lengths == [h \in 0 .. LastHour |-> Len(sheet.file[h])]
OnDisk == [h \in 0 .. LastHour |-> Lengths[h] - (IF h = sheet.open THEN sheet.unflushed ELSE 0)]
RowsUpTo(length) ==
    Cardinality({p \in (0 .. LastHour) \X (1 .. MaxRows + 2) :
                    p[2] <= length[p[1]] /\ sheet.file[p[1]][p[2]] = "row"})
Written == RowsUpTo(Lengths)
Unread == Written - RowsUpTo(OnDisk)

\* _open_for_key: a file that is new or empty gets its header.
Header(h) == IF sheet.file[h] = <<>> THEN <<"header">> ELSE <<>>

\* The hour is read before the lock is taken.
ReadHour(l) ==
    /\ Alive /\ perf.pool \in {"running", "overrun"} /\ sheet.key[l] = NoHour
    /\ Written < MaxRows
    /\ sheet' = [sheet EXCEPT !.key[l] = sheet.now]
    /\ UNCHANGED <<cli, perf, heartbeat>>

\* write_row under the lock: another hour closes the open file first; a writer
\* that was closed opens again.
WriteRow(l) ==
    LET h == sheet.key[l]
        batch == IF sheet.open = h THEN sheet.unflushed + 1 ELSE 1
        opened == IF sheet.open = h THEN sheet.file[h] ELSE sheet.file[h] \o Header(h)
    IN
    /\ Alive /\ h # NoHour /\ Written < MaxRows
    /\ sheet' = [sheet EXCEPT !.key[l] = NoHour, !.open = h, !.file[h] = Append(opened, "row"),
                              !.unflushed = IF batch >= FlushBatch THEN 0 ELSE batch]
    /\ UNCHANGED <<cli, perf, heartbeat>>

NextHour ==
    /\ Alive /\ sheet.now < LastHour
    /\ sheet' = [sheet EXCEPT !.now = @ + 1]
    /\ UNCHANGED <<cli, perf, heartbeat>>

-----------------------------------------------------------------------------
(* start() *)

Report(reason, code) == [reason |-> reason, exit |-> code, missed |-> Unread]

\* _abort, which swallows what building a report raises; then start() raises, and
\* the command line turns the exception into a status.
Abort(reason, code) ==
    /\ \E broken \in BOOLEAN :
          perf' = [perf EXCEPT !.stopped = TRUE, !.reason = reason, !.exit = code,
                              !.broken = broken,
                              !.result = IF broken THEN @ ELSE Report(reason, code)]
    /\ Leaves(IF cli.who = "cli" THEN code ELSE 1)
    /\ UNCHANGED <<heartbeat, sheet>>

\* adb is not usable, no device or more than one, the package is not installed; a
\* device list that fails is an AdbError.
Preflight ==
    \/ Step("preflight", "wait") /\ UNCHANGED <<perf, heartbeat, sheet>>
    \/ cli.pc = "preflight" /\ \E why \in {"setup_failed", "adb_unavailable"} : Abort(why, 2)

WaitForProcesses ==
    \/ Step("wait", "startPool") /\ UNCHANGED <<perf, heartbeat, sheet>>
    \/ cli.pc = "wait" /\ Abort("wait_timeout", 3)

StartPool ==
    /\ Step("startPool", "startStatus") /\ perf' = [perf EXCEPT !.pool = "running"]
    /\ UNCHANGED <<heartbeat, sheet>>
StartStatus ==
    /\ Step("startStatus", "body")
    /\ heartbeat' = [heartbeat EXCEPT !.at = "waiting", !.file = "running"]
    /\ UNCHANGED <<perf, sheet>>

-----------------------------------------------------------------------------
(* What the caller does with a running test *)

DurationOver == Step("body", "stop") /\ UNCHANGED <<perf, heartbeat, sheet>>

\* __exit__ with an exception, unless the script said how the run ended.
Excepted(p) ==
    IF p.reason = "duration_elapsed" THEN [p EXCEPT !.reason = "exception", !.exit = 1] ELSE p

BodyRaises ==
    /\ cli.who = "script" /\ cli.pc = "body"
    /\ cli' = [cli EXCEPT !.pc = "stop", !.raised = "body"]
    /\ perf' = Excepted(perf)
    /\ UNCHANGED <<heartbeat, sheet>>

\* set_exit() in the body; or after it, with rewrite_reports().
ScriptSetsExit ==
    /\ cli.who = "script"
    /\ \/ cli.pc = "body" /\ perf' = [perf EXCEPT !.exit = 5, !.reason = "own"]
       \/ /\ cli.pc = "after" /\ cli.raised = "no"
          /\ perf' = [perf EXCEPT !.exit = 5, !.reason = "own", !.result = Report("own", 5)]
    /\ UNCHANGED <<cli, heartbeat, sheet>>

-----------------------------------------------------------------------------
(* stop() *)

StopBegins ==
    /\ Step("stop", "joinBeat")
    /\ perf' = [perf EXCEPT !.stopped = TRUE] /\ heartbeat' = [heartbeat EXCEPT !.stop = TRUE]
    /\ UNCHANGED sheet

EndedFile == IF heartbeat.at = "none" THEN "none" ELSE "ended"

\* A heartbeat that is writing may outlast the join of five seconds.
JoinBeat ==
    /\ Step("joinBeat", "stopPool") /\ heartbeat.at # "waiting"
    /\ heartbeat' = [heartbeat EXCEPT !.file = EndedFile, !.late = @ \/ heartbeat.at = "writing"]
    /\ UNCHANGED <<perf, sheet>>

\* The joins of PerfPool time out, or no loop is left in a write.
StopPool ==
    /\ Step("stopPool", "close")
    /\ \/ perf.pool = "none" /\ UNCHANGED perf
       \/ perf.pool = "running" /\ perf' = [perf EXCEPT !.pool = "overrun"]
       \/ /\ perf.pool = "running" /\ \A l \in Loops : sheet.key[l] = NoHour
          /\ perf' = [perf EXCEPT !.pool = "stopped"]
    /\ UNCHANGED <<heartbeat, sheet>>

CloseWriters ==
    /\ Step("close", "report")
    /\ sheet' = [sheet EXCEPT !.open = NoHour, !.unflushed = 0]
    /\ UNCHANGED <<perf, heartbeat>>

\* The finally clause builds the report; what that raises, the command line logs.
BuildReport ==
    /\ cli.pc = "report"
    /\ \/ perf' = [perf EXCEPT !.result = Report(perf.reason, perf.exit)]
          /\ cli' = [cli EXCEPT !.pc = "after"]
       \/ perf' = [perf EXCEPT !.broken = TRUE]
          /\ cli' = [cli EXCEPT !.pc = "after",
                                !.raised = IF cli.who = "script" /\ @ = "no" THEN "body" ELSE @]
    /\ UNCHANGED <<heartbeat, sheet>>

\* Mutant of Leave: the end of the wait alone decides.
LeaveUnseen ==
    /\ cli.pc = "after"
    /\ Leaves(IF cli.raised = "sigint" \/ cli.interrupted THEN 130
              ELSE IF cli.raised = "body" THEN 1 ELSE 0)
    /\ UNCHANGED <<perf, heartbeat, sheet>>

Leave ==
    /\ cli.pc = "after"
    /\ Leaves(IF cli.raised = "sigint" \/ cli.interrupted THEN 130
              ELSE IF cli.raised = "body" THEN 1
              ELSE IF perf.result = NoReport THEN 2 ELSE 0)
    /\ UNCHANGED <<perf, heartbeat, sheet>>

\* Ctrl-C: in start() a script has no __exit__ yet; in the body it is an exception
\* for a script; in stop() it goes on to the report, and past the command line.
Sigint ==
    /\ cli.sigints < MaxSigints
    /\ \/ /\ cli.pc \in {"preflight", "wait", "startPool", "startStatus"}
          /\ cli' = [cli EXCEPT !.sigints = @ + 1, !.interrupted = TRUE,
                                !.pc = IF cli.who = "cli" THEN "stop" ELSE "exited",
                                !.status = IF cli.who = "cli" THEN @ ELSE 130]
          /\ UNCHANGED perf
       \/ /\ cli.pc = "body"
          /\ cli' = [cli EXCEPT !.sigints = @ + 1, !.interrupted = TRUE, !.pc = "stop",
                                !.raised = IF cli.who = "cli" THEN @ ELSE "body"]
          /\ perf' = IF cli.who = "cli" THEN perf ELSE Excepted(perf)
       \/ /\ cli.pc \in {"joinBeat", "stopPool", "close"}
          /\ cli' = [cli EXCEPT !.sigints = @ + 1, !.interrupted = TRUE, !.pc = "report",
                                !.raised = "sigint"]
          /\ UNCHANGED perf
       \/ /\ cli.pc = "report"
          /\ cli' = [cli EXCEPT !.sigints = @ + 1, !.interrupted = TRUE, !.pc = "exited",
                                !.raised = "sigint", !.status = 130]
          /\ UNCHANGED perf
    /\ UNCHANGED <<heartbeat, sheet>>

\* The loop of StatusWriter: wait for the interval or _stop, then write.
BeatWakes ==
    /\ Alive /\ heartbeat.at = "waiting"
    /\ heartbeat' = [heartbeat EXCEPT !.at = IF heartbeat.stop THEN "over" ELSE "writing"]
    /\ UNCHANGED <<cli, perf, sheet>>
BeatWrites ==
    /\ Alive /\ heartbeat.at = "writing"
    /\ heartbeat' = [heartbeat EXCEPT !.at = "waiting", !.file = "running"]
    /\ UNCHANGED <<cli, perf, sheet>>

PerfRunNext ==
    \/ Preflight \/ WaitForProcesses \/ StartPool \/ StartStatus
    \/ DurationOver \/ BodyRaises \/ ScriptSetsExit
    \/ StopBegins \/ JoinBeat \/ StopPool \/ CloseWriters \/ BuildReport \/ Leave
    \/ Sigint \/ BeatWakes \/ BeatWrites \/ NextHour
    \/ \E l \in Loops : ReadHour(l) \/ WriteRow(l)

PerfRunSpec == PerfRunInit /\ [][PerfRunNext]_perfRunVars

-----------------------------------------------------------------------------
(* Properties *)

\* The report is built from every row that was written, unless a loop outlived its
\* join or Ctrl-C cut stop() short.
ReportHasRows == perf.result.missed > 0 => perf.pool = "overrun" \/ cli.raised = "sigint"

\* However late a row comes, behind the turn of an hour or a close, every file has
\* one header, first: a second would be read as a sample.
HeaderOnce ==
    \A h \in 0 .. LastHour : \A i \in DOMAIN sheet.file[h] : (sheet.file[h][i] = "header") = (i = 1)

\* The last word of status.json is that the run has ended, unless the heartbeat
\* outlived its join or Ctrl-C cut start() or stop() short.
StatusEndsLast ==
    ~Alive /\ heartbeat.file = "running" =>
        heartbeat.late \/ cli.raised = "sigint" \/ (cli.who = "script" /\ cli.interrupted)

\* The exit status and the report agree, unless the run was interrupted: success was
\* reported; a run that could not start says so in both; a script's exception is in
\* the report.
ExitTellsRun ==
    ~Alive /\ ~cli.interrupted =>
        /\ cli.status \in {0, 2, 3} /\ ~perf.broken => perf.result # NoReport
        /\ cli.status = 0 => perf.result # NoReport /\ perf.pool # "running"
        /\ cli.who = "cli" /\ perf.result # NoReport => perf.result.exit = cli.status
        /\ cli.raised = "body" /\ perf.result # NoReport => perf.result.exit # 0

\* Report, CSV files, status file and exit status agree on the run, wherever it was
\* interrupted.
PerfRunSound == ReportHasRows /\ HeaderOnce /\ StatusEndsLast /\ ExitTellsRun
=============================================================================
