----------------------------- MODULE PerfReport -----------------------------
(***************************************************************************)
(* Numbers of the performance test.  CpuPercentCalculator                  *)
(* (pat/collectors/cpu.py) makes percentages of the tick counters of a     *)
(* pid, which may be given to another process between two samples; build   *)
(* of pat/reporter/result.py makes the report of the CSV files, the        *)
(* incidents and the failures that a run leaves.                           *)
(***************************************************************************)
EXTENDS Integers, FiniteSets, Sequences, SequencesExt, FiniteSetsExt

CONSTANTS
    Cores,        \* of the device
    Ticks,        \* clock ticks of the CPU's life
    Processes,    \* names of processes
    RunEnd,       \* the run lasts from 0 to RunEnd
    MaxEvents     \* lifecycle rows of a process

ASSUME PerfReportAssumption ==
    /\ Cores \in Nat \ {0} /\ {Ticks, RunEnd, MaxEvents} \subseteq Nat
    /\ IsFiniteSet(Processes)

Unset == -1

VARIABLES
    cpu,    \* the device: ticks that passed, the life of the pid and its ticks; the
            \* sampler: what it read of the process and not yet of all cores, _prev, and
            \* the last percentage. History: how far all cores were at a read of the
            \* process, and how far they went between the two reads (lag)
    stats   \* the run directory: CPU rows by file, the lifecycle of one process,
            \* incidents and failures; and the report

perfReportVars == <<cpu, stats>>

NoReading == [pid |-> 0, used |-> 0, at |-> 0]
NoSample == [pid |-> 0, used |-> 0, total |-> 0, lag |-> 0]
NoValue == [num |-> 0, den |-> 1, lag |-> 0]

CpuInit ==
    cpu = [passed |-> 0, life |-> 1, pid |-> 1, used |-> 0,
           reading |-> NoReading, prev |-> NoSample, value |-> NoValue]

-----------------------------------------------------------------------------
(* The device and CpuPercentCalculator *)

\* A tick passes on every core, of which the process uses some.
Burn ==
    /\ cpu.passed < Ticks
    /\ \E used \in 0 .. Cores :
          cpu' = [cpu EXCEPT !.passed = @ + 1, !.used = @ + used]
    /\ UNCHANGED stats

\* The process is replaced, by one that starts now, with its pid or another one; or
\* by one that has been there from the beginning.
Replace ==
    /\ cpu.life < 3
    /\ \E pid \in {1, 2} :
          \E used \in IF pid = 2 /\ cpu.life = 1 THEN 0 .. cpu.passed * Cores ELSE {0} :
             cpu' = [cpu EXCEPT !.life = @ + 1, !.pid = pid, !.used = used]
    /\ UNCHANGED stats

\* update() yields a percentage.
Trusted(prev, s) ==
    /\ prev.pid = s.pid
    /\ s.total > prev.total /\ s.used >= prev.used

\* One command reads /proc/<pid>/stat and then /proc/stat: ticks may pass in between,
\* and the process may be replaced.
ReadProcess ==
    /\ cpu.reading = NoReading
    /\ cpu' = [cpu EXCEPT !.reading =
                  [pid |-> cpu.pid, used |-> cpu.used, at |-> cpu.passed * Cores]]
    /\ UNCHANGED stats
ReadTotal ==
    LET total == cpu.passed * Cores
        s == [pid |-> cpu.reading.pid, used |-> cpu.reading.used,
              total |-> total, lag |-> total - cpu.reading.at] IN
    /\ cpu.reading # NoReading
    /\ cpu' = [cpu EXCEPT !.reading = NoReading, !.prev = s,
                          !.value = IF Trusted(cpu.prev, s)
                                      THEN [num |-> (s.used - cpu.prev.used) * Cores,
                                            den |-> s.total - cpu.prev.total,
                                            lag |-> cpu.prev.lag]
                                      ELSE NoValue]
    /\ UNCHANGED stats
\* The call times out, or its output is cut.
ReadFails ==
    /\ cpu.reading # NoReading
    /\ cpu' = [cpu EXCEPT !.reading = NoReading]
    /\ UNCHANGED stats

-----------------------------------------------------------------------------
(* What is on disk when the report is built *)

\* A file of CPU rows, each of a process, may be empty or, if a row was cut, such
\* that pandas cannot parse it.
CpuFiles == [state : {"ok", "garbled"}, rows : UNION {[1 .. n -> Processes] : n \in 0 .. 2}]

\* The rows that PerfPool writes of one name, at increasing times.
LifeFollows(a, b) == IF b = "new" THEN FALSE ELSE IF b = "gone" THEN a # "gone" ELSE TRUE
Lifecycle ==
    {l \in UNION {[1 .. n -> [at : 0 .. RunEnd, event : {"new", "restart", "gone"}]]
                  : n \in 0 .. MaxEvents} :
        \A i \in DOMAIN l :
           IF i = 1 THEN l[1].event = "new"
           ELSE l[i - 1].at < l[i].at /\ LifeFollows(l[i - 1].event, l[i].event)}

StatsInit ==
    stats \in [files : CpuFiles \X CpuFiles, life : Lifecycle,
               incidents : [Processes -> [cpu : 0 .. 1, mem : 0 .. 1]],
               failed : SUBSET Processes, built : {FALSE}, report : {<<>>}]

-----------------------------------------------------------------------------
(* reporter/result.py *)

Readable == {f \in {1, 2} : stats.files[f].state = "ok"}
RowsOf(p) ==
    {r \in Readable \X (1 .. 2) :
        LET rows == stats.files[r[1]].rows IN r[2] \in DOMAIN rows /\ rows[r[2]] = p}

\* Everything that left a row, an incident or a failure is in the report.
Reported ==
    {p \in Processes : \/ RowsOf(p) # {}
                       \/ stats.incidents[p].cpu + stats.incidents[p].mem > 0
                       \/ p \in stats.failed}

\* Mutant of Lives: a restart begins anew what was not over.
LivesRestarted(state, row) ==
    IF row.event = "gone"
      THEN IF state.since = Unset THEN state
           ELSE [state EXCEPT !.since = Unset, !.last = row.at,
                              !.intervals = Append(@, <<state.since, row.at>>)]
      ELSE [state EXCEPT !.first = IF @ = Unset THEN row.at ELSE @, !.since = row.at]

\* One lifecycle row of _alive_intervals.
Lives(state, row) ==
    IF row.event = "gone"
      THEN IF state.since = Unset THEN state
           ELSE [state EXCEPT !.since = Unset, !.last = row.at,
                              !.intervals = Append(@, <<state.since, row.at>>)]
      ELSE [state EXCEPT !.first = IF @ = Unset THEN row.at ELSE @,
                         !.since = IF @ = Unset THEN row.at ELSE @]

\* The rows in the order of their times; the last interval lasts to the run's end.
AliveIntervals(rows) ==
    LET state == FoldLeft(Lives, [first |-> Unset, last |-> Unset, since |-> Unset,
                                  intervals |-> <<>>], rows) IN
    IF state.since = Unset THEN state
    ELSE [state EXCEPT !.last = RunEnd, !.intervals = Append(@, <<state.since, RunEnd>>)]

Length(interval) == interval[2] - interval[1]
AliveSec(intervals) == FoldLeft(+, 0, [k \in DOMAIN intervals |-> Length(intervals[k])])

\* _build_process: the lifecycle is that of every process here.
BuildProcess(p) ==
    [name |-> p, samples |-> Cardinality(RowsOf(p)), alerts |-> stats.incidents[p],
     alive |-> AliveIntervals(stats.life),
     restarts |-> Cardinality({i \in DOMAIN stats.life : stats.life[i].event = "restart"})]

Build ==
    /\ ~stats.built
    /\ stats' = [stats EXCEPT !.built = TRUE,
                              !.report = SetToSeq({BuildProcess(p) : p \in Reported})]
    /\ UNCHANGED cpu

CpuStep == Burn \/ Replace \/ ReadProcess \/ ReadTotal \/ ReadFails
PerfReportNext == CpuStep \/ Build
PerfReportSpec == CpuInit /\ StatsInit /\ [][PerfReportNext]_perfReportVars

-----------------------------------------------------------------------------
(* Properties *)

\* A percentage exceeds 100 for each core, what a process that saturates all cores has
\* (cpu.py:6-7), by no more than the ticks account for that passed between the two
\* reads of the earlier sample; and it is never negative. That holds when the pid was
\* given to another process between the two samples or the two reads.
PercentagesBounded ==
    0 <= cpu.value.num /\ cpu.value.num <= Cores * (cpu.value.den + cpu.value.lag)

\* No sample of a readable file and no incident is lost on the way to the report, or
\* counted for two processes; and who only ever failed is in it too.
ReportSum(f(_)) == FoldLeft(+, 0, [i \in DOMAIN stats.report |-> f(stats.report[i])])
Triggered(p) == stats.incidents[p].cpu + stats.incidents[p].mem
NothingLost ==
    stats.built =>
        /\ ReportSum(LAMBDA p : p.samples) =
              Cardinality({r \in Readable \X (1 .. 2) : r[2] \in DOMAIN stats.files[r[1]].rows})
        /\ ReportSum(LAMBDA p : p.alerts.cpu + p.alerts.mem) = MapThenSumSet(Triggered, Processes)
        /\ stats.failed \subseteq {stats.report[i].name : i \in DOMAIN stats.report}

\* The time a process is reported alive is the time at which the last lifecycle row
\* did not say that it was gone, and lies between its first and last sight.
AliveAt(t) ==
    \E i \in DOMAIN stats.life :
        /\ stats.life[i].at <= t /\ stats.life[i].event # "gone"
        /\ \A j \in DOMAIN stats.life : stats.life[j].at <= t => j <= i
UptimeMeasured ==
    stats.built => \A i \in DOMAIN stats.report :
        LET alive == stats.report[i].alive IN
        /\ AliveSec(alive.intervals) = Cardinality({t \in 0 .. RunEnd - 1 : AliveAt(t)})
        /\ alive.intervals # <<>> =>
              alive.first = alive.intervals[1][1] /\ alive.last = Last(alive.intervals)[2]

\* Percentages and uptimes are of one process, a percentage within the error of its
\* two reads, and nothing is lost on the way to the report.
NumbersSound == PercentagesBounded /\ NothingLost /\ UptimeMeasured
=============================================================================
