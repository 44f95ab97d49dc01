---------------------------- MODULE ProcessWatch ----------------------------
(***************************************************************************)
(* The processes of the package: how discover() finds them over adb        *)
(* (sat/discovery.py), and the table, the lifecycle rows and the start     *)
(* times the watcher, the logcat thread and the device monitor keep of     *)
(* them (sat/pool.py).                                                     *)
(*                                                                         *)
(* A pid is one life of a process.  A process has the same name in every   *)
(* life; ps cuts a long name, so that the one of another package may look  *)
(* like it.  Which of the three listings answers makes no difference here. *)
(***************************************************************************)
EXTENDS Integers, Sequences, SequencesExt

CONSTANTS
    OwnNames,     \* process names of the package
    LongNames,    \* those of at least COMM_MAX characters
    Lookalikes,   \* of other packages, not to be told apart in ps
    MaxPid,       \* bound: lives
    MaxRows       \* bound: rows of one process

ASSUME WatchAssumption == OwnNames \cap Lookalikes = {}

WatchNames == OwnNames \cup Lookalikes

VARIABLES
    lives,      \* the pid of each running process, or 0
    lastPid,    \* pids given so far
    table,      \* _procs: the pid of each process that is in it, or 0
    goneAt,     \* _gone_at: names
    startOf,    \* _proc_started_monotonic: the pid whose start it is, or 0
    rows,       \* the lifecycle rows of each process
    wiped       \* history: names without a row since the table was cleared
watchVars == <<lives, lastPid, table, goneAt, startOf, rows, wiped>>

None0 == [n \in WatchNames |-> 0]

\* The pool is started with the processes that were found; they get a `new' row.
WatchInit ==
    /\ lives = [n \in WatchNames |-> IF n \in LongNames THEN 1 ELSE 0] /\ lastPid = 1
    /\ table = [n \in WatchNames |-> IF n \in OwnNames THEN lives[n] ELSE 0]
    /\ goneAt = {} /\ startOf = None0 /\ wiped = {}
    /\ rows = [n \in WatchNames |->
                 IF table[n] = 0 THEN <<>> ELSE
                 <<[event |-> "new", old |-> 0, pid |-> table[n], after |-> FALSE]>>]

-----------------------------------------------------------------------------
(* The device *)

\* A process starts; logcat may show it: the first start that was seen stays.
ProcessStarts ==
    /\ lastPid < MaxPid /\ lastPid' = lastPid + 1
    /\ \E n \in WatchNames, shown \in BOOLEAN :
         /\ lives[n] = 0
         /\ lives' = [lives EXCEPT ![n] = lastPid']
         /\ startOf' = IF shown /\ n \in OwnNames /\ startOf[n] = 0
                       THEN [startOf EXCEPT ![n] = lastPid'] ELSE startOf
    /\ UNCHANGED <<table, goneAt, rows, wiped>>

ProcessDies ==
    /\ \E n \in WatchNames : lives[n] # 0 /\ lives' = [lives EXCEPT ![n] = 0]
    /\ UNCHANGED <<lastPid, table, goneAt, startOf, rows, wiped>>

-----------------------------------------------------------------------------
(* discover() *)

\* A candidate is taken by its cmdline, or by its ps name if that is not cut.
Discovered(readable) ==
    {n \in WatchNames : /\ lives[n] # 0
                        /\ \/ n \in readable /\ n \in OwnNames
                           \/ n \notin readable /\ n \in OwnNames \ LongNames}

\* adb answers, and the cmdlines of some processes can be read; or every
\* listing failed, which looks like no process at all.
Discoveries == {Discovered(readable) : readable \in SUBSET WatchNames} \cup {{}}

-----------------------------------------------------------------------------
(* _reconcile *)

\* `after' is history: the table was cleared since the row before.
Row(n, event, old, pid) ==
    [event |-> event, old |-> old, pid |-> pid, after |-> n \in wiped]

NewRow(n) == Row(n, IF n \in goneAt THEN "restart" ELSE "new", 0, lives[n])

\* The rows one pass adds for a process.
RowsOf(n, found) ==
    CASE n \notin found /\ table[n] # 0 -> <<Row(n, "gone", table[n], 0)>>
      [] n \in found /\ table[n] # 0 /\ table[n] # lives[n] -> <<Row(n, "restart", table[n], lives[n])>>
      [] n \in found /\ table[n] = 0 -> <<NewRow(n)>>
      [] OTHER -> <<>>

\* Mutant of StartNow: only a process that was not in the table.
StartNowIfNew(n, found) == n \in found /\ table[n] = 0

\* The watcher takes its own clock for the start of what it had not seen.
StartNow(n, found) == n \in found /\ table[n] # lives[n]

\* The listing and the lock that applies it are one step: a process that starts or
\* dies between them does so after it, and the next listing finds out.
Reconcile ==
    /\ \A n \in WatchNames : Len(rows[n]) < MaxRows
    /\ \E found \in Discoveries :
         /\ rows' = [n \in WatchNames |-> rows[n] \o RowsOf(n, found)]
         /\ table' = [n \in WatchNames |-> IF n \in found THEN lives[n] ELSE 0]
         /\ goneAt' = (goneAt \ found) \cup {n \in WatchNames \ found : table[n] # 0}
         /\ startOf' = [n \in WatchNames |-> IF StartNow(n, found) THEN lives[n] ELSE startOf[n]]
         /\ wiped' = wiped \ found
    /\ UNCHANGED <<lives, lastPid>>

\* _on_device_recovered clears what was known of the processes.
Recovered ==
    /\ \E n \in WatchNames : table[n] # 0 \/ n \in goneAt
    /\ table' = None0 /\ goneAt' = {} /\ wiped' = {n \in WatchNames : Len(rows[n]) > 0}
    /\ UNCHANGED <<lives, lastPid, startOf, rows>>

WatchNext == ProcessStarts \/ ProcessDies \/ Reconcile \/ Recovered

WatchSpec == WatchInit /\ [][WatchNext]_watchVars

-----------------------------------------------------------------------------
(* Properties *)

\* A process of another package is never taken for one of this package, however
\* its name is cut and whether or not its cmdline can be read.
OnlyOwnProcesses == \A n \in Lookalikes : table[n] = 0 /\ rows[n] = <<>>

\* The rows tell the table: the last row of a process names its pid, or that it
\* is gone; only what the device monitor cleared has no row of its own.
RowsTellTable ==
    \A n \in WatchNames \ wiped :
        LET told == IF rows[n] = <<>> THEN 0 ELSE Last(rows[n]).pid IN
        table[n] = told /\ (n \in goneAt <=> rows[n] # <<>> /\ told = 0)

\* A restart row follows the life it says ended, and only a process without
\* history since the table was cleared is new.
RestartsFollowALife ==
    \A n \in WatchNames : \A i \in 2..Len(rows[n]) :
        LET row == rows[n][i]  before == rows[n][i - 1] IN
        /\ row.event = "restart" => row.old = before.pid
        /\ row.event = "gone" => before.pid = row.old
        /\ row.event = "new" => row.after

\* The start time of a process in the table is not of an earlier life.
StartNotStale ==
    \A n \in WatchNames : table[n] # 0 => startOf[n] = 0 \/ startOf[n] >= table[n]

\* What rows and table tell of a process is of its present life, and of the
\* package.
WatchTruthful ==
    /\ OnlyOwnProcesses /\ RowsTellTable
    /\ RestartsFollowALife /\ StartNotStale
=============================================================================
