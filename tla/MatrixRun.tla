----------------------------- MODULE MatrixRun -----------------------------
(***************************************************************************)
(* A run on several devices (run_matrix of sat/matrix.py and               *)
(* _run_matrix_mode of sat/cli.py): a thread a device, each waiting for    *)
(* one of max_parallel slots and then for its process, killed after        *)
(* DeviceTimeout; the main thread joins them in order, each for at most    *)
(* DeviceTimeout + Grace. The list of results it returns is the one the    *)
(* threads append to: a thread that is late still does, while the main     *)
(* thread makes the aggregate of the list and then counts the failures on  *)
(* it. A worker is named by the position of its device.                    *)
(***************************************************************************)
EXTENDS Naturals, FiniteSets

CONSTANTS Devices,        \* how many
          MaxParallel, DeviceTimeout, Grace

ASSUME MatrixAssumption ==
    /\ Devices \in Nat /\ MaxParallel \in Nat \ {0}
    /\ DeviceTimeout \in Nat /\ Grace \in Nat \ {0}

VARIABLES worker,    \* "waiting" for a slot, "running", or the returncode
          runs,      \* how long the process of a device may still run
          joining,   \* the worker that is joined
          joined,    \* for how long
          main,      \* "joining", "reading" the results, "counting" failures, "over"
          aggregate, \* the workers in the aggregate
          matrixExit, \* the exit code, or NoCode
          killed,    \* history: the workers whose process was killed
          overtaken  \* history: a worker got its slot before one that is joined earlier
matrixVars == <<worker, runs, joining, joined, main, aggregate, matrixExit, killed, overtaken>>

Workers == 1 .. Devices
NoCode == 2
RunningDevices == {k \in Workers : worker[k] = "running"}
ReturnCodes == {"ok", "failed", "timed out"}

\* The list of results: a worker is on it from its end on.
Ended == {k \in Workers : worker[k] \in ReturnCodes}

MatrixInit ==
    /\ worker = [k \in Workers |-> "waiting"]
    /\ runs = [k \in Workers |-> DeviceTimeout]
    /\ joining = 1
    /\ joined = 0
    /\ main = "joining"
    /\ aggregate = {}
    /\ matrixExit = NoCode
    /\ killed = {}
    /\ overtaken = FALSE

\* Mutant of JoinTimeout: the join has no grace.
NoGrace == DeviceTimeout

JoinTimeout == DeviceTimeout + Grace

FreeSlot(k) ==
    /\ worker[k] = "waiting"
    /\ Cardinality(RunningDevices) < MaxParallel

\* The threads ask for a slot in an order nobody fixes.
GetSlot(k) ==
    /\ FreeSlot(k)
    /\ worker' = [worker EXCEPT ![k] = "running"]
    /\ overtaken' = (overtaken \/ \E j \in 1 .. k - 1 : worker[j] = "waiting")
    /\ UNCHANGED <<runs, joining, joined, main, aggregate, matrixExit, killed>>

CodeOfTimeout == "timed out"

ProcessEnds(k, code) ==
    /\ worker[k] = "running"
    /\ worker' = [worker EXCEPT ![k] = code]
    /\ UNCHANGED <<runs, joining, joined, main, aggregate, matrixExit, killed, overtaken>>

ProcessKilled(k) ==
    /\ worker[k] = "running"
    /\ runs[k] = 0
    /\ worker' = [worker EXCEPT ![k] = CodeOfTimeout]
    /\ killed' = killed \cup {k}
    /\ UNCHANGED <<runs, joining, joined, main, aggregate, matrixExit, overtaken>>

Join ==
    /\ main = "joining" /\ joining \in Workers
    /\ worker[joining] \in ReturnCodes \/ joined = JoinTimeout
    /\ joining' = joining + 1
    /\ joined' = 0
    /\ UNCHANGED <<worker, runs, main, aggregate, matrixExit, killed, overtaken>>

Returned ==
    /\ main = "joining" /\ joining \notin Workers
    /\ main' = "reading"
    /\ UNCHANGED <<worker, runs, joining, joined, aggregate, matrixExit, killed, overtaken>>

\* The loop over the results reads what is appended meanwhile, too: it ends with all
\* there are. A worker without a report.json gets an entry of its own.
ReadReports ==
    /\ main = "reading"
    /\ main' = "counting"
    /\ aggregate' = Ended
    /\ UNCHANGED <<worker, runs, joining, joined, matrixExit, killed, overtaken>>

\* The same list again, after the aggregate is written.
CountFailed ==
    /\ main = "counting"
    /\ main' = "over"
    /\ matrixExit' = IF \A k \in Ended : worker[k] = "ok" THEN 0 ELSE 1
    /\ UNCHANGED <<worker, runs, joining, joined, aggregate, killed, overtaken>>

\* Time passes when no thread is about to take a slot, to kill its process or, with
\* the worker ended or the timeout over, to return from its join.
Tick ==
    /\ \A k \in Workers : ~FreeSlot(k)
    /\ \A k \in RunningDevices : runs[k] > 0
    /\ runs' = [k \in Workers |-> IF k \in RunningDevices THEN runs[k] - 1 ELSE runs[k]]
    /\ IF main = "joining"
       THEN /\ joining \in Workers /\ worker[joining] \notin ReturnCodes
            /\ joined < JoinTimeout /\ joined' = joined + 1
       ELSE UNCHANGED joined
    /\ UNCHANGED <<worker, joining, main, aggregate, matrixExit, killed, overtaken>>

MatrixNext ==
    \/ \E k \in Workers :
          GetSlot(k) \/ ProcessEnds(k, "ok") \/ ProcessEnds(k, "failed") \/ ProcessKilled(k)
    \/ Join
    \/ Returned
    \/ ReadReports
    \/ CountFailed
    \/ Tick

MatrixSpec == MatrixInit /\ [][MatrixNext]_matrixVars

-----------------------------------------------------------------------------
AggregateIsMade == main \in {"counting", "over"}

\* A device is missing from the aggregate (matrix.py:113-118, cli.py:389-417) only if
\* the slots went to the threads in another order than that of the joins: then a join
\* may time out before its worker had the time it was given, and the device disappears
\* without a word in the exit code, against the comment at cli.py:396-397.
MissingWasOvertaken == AggregateIsMade /\ ~overtaken => aggregate = Workers

\* Exit code 0 means that every device of the aggregate ran to its end with success, a
\* killed process being none, also when it left the report of an earlier run; and that
\* all devices did, if no thread was overtaken.
ZeroMeansAllRan ==
    matrixExit = 0 =>
        /\ \A k \in aggregate : worker[k] = "ok" /\ k \notin killed
        /\ ~overtaken => aggregate = Workers

\* A device is missing from the aggregate only after threads got their slots out of
\* order, and exit code 0 means success of all devices that are not missing.
MatrixComplete == MissingWasOvertaken /\ ZeroMeansAllRan
=============================================================================
