---------------------------- MODULE ExitRecords ----------------------------
(***************************************************************************)
(* The ExitInfo records of a run (sat/collectors/exit_info.py, and start() *)
(* and stop() in sat/pool.py): the watermark taken at the start, the two   *)
(* queries at the stop, and what a record comes to.  The framework writes  *)
(* a record some time after the exit; dumpsys prints local times, and the  *)
(* query of the zone may fail.  A unit of time is the tolerance of 7 s.    *)
(***************************************************************************)
EXTENDS Integers, Sequences, FiniteSets, FiniteSetsExt

CONSTANTS
    Zones,          \* offsets of local time from UTC
    Reasons,        \* what dumpsys may print as the reason of an exit
    MaxExitTime, MaxExits     \* bounds

ASSUME ExitAssumption == Zones \subseteq Int /\ {MaxExitTime, MaxExits} \subseteq Nat

\* _normalize_reason and _normalize_cached_recycle, up to the classes that matter
\* here: a known failure, an exit on demand, the kill of a cached process, a
\* reason without a verdict, or one this version does not know.
KnownFailures == {"APP CRASH(EXCEPTION)", "APP CRASH(NATIVE)", "ANR", "LOW_MEMORY", "SIGNALED"}
Demanded == {"EXIT_SELF", "USER_REQUESTED"}
Recycled == {"OTHER KILLS BY SYSTEM", "PACKAGE UPDATED", "OTHER, cached"}

ReasonClass(r) == IF r \in KnownFailures THEN "failure"
                  ELSE IF r \in Demanded \cup Recycled THEN "expected" ELSE "unknown"

VARIABLES
    now,        \* device time, UTC
    zone,       \* the offset of the device
    records,    \* [at, written, reason]: an exit, and when its record is there
    starting,   \* start(); history becomes the watermark
    stopping,   \* stop(): what the queries returned, and how the last one went
    counted     \* reasons of the records that became events
exitVars == <<now, zone, records, starting, stopping, counted>>

NoTime == -99
Tolerance == 1

ExitInit ==
    /\ now = 0 /\ zone \in Zones
    /\ records = {}
    /\ starting = [pc |-> "waiting", capable |-> FALSE, zoned |-> FALSE, history |-> NoTime, at |-> NoTime,
                epoch |-> NoTime]
    /\ stopping = [pc |-> "waiting", first |-> {}, taken |-> {}, zoned |-> TRUE, failed |-> FALSE,
               at |-> NoTime]
    /\ counted = {}

ExitTick ==
    /\ now < MaxExitTime /\ stopping.pc \notin {"fuse", "done"}
    /\ now' = now + 1
    /\ UNCHANGED <<zone, records, starting, stopping, counted>>

\* A process of the package ends; one exit per unit of time.
ProcessExits ==
    /\ Cardinality(records) < MaxExits /\ stopping.pc \notin {"fuse", "done"}
    /\ \A r \in records : r.at # now
    /\ \E reason \in Reasons, delay \in {0, 1} :
          records' = records \cup {[at |-> now, written |-> now + delay, reason |-> reason]}
    /\ UNCHANGED <<now, zone, starting, stopping, counted>>

-----------------------------------------------------------------------------
(* query_exit_info *)

\* The time of a record: UTC, or the local time if the zone was not told.
EpochOf(r, zoned) == IF zoned THEN r.at ELSE r.at + zone

Visible == {r \in records : r.written <= now}
Since(watermark, zoned) ==
    {r \in Visible : watermark = NoTime \/ EpochOf(r, zoned) > watermark}

-----------------------------------------------------------------------------
(* start() *)

\* The capability, once; the newest record before the run, if dumpsys answers.
StartProbes ==
    /\ starting.pc = "waiting"
    /\ \E capable, answers, zoned \in BOOLEAN :
          starting' = [starting EXCEPT !.pc = "probed", !.capable = capable, !.zoned = zoned, !.at = now,
                      !.history = IF capable /\ answers /\ Visible # {}
                                  THEN Max({EpochOf(r, zoned) : r \in Visible}) ELSE NoTime]
    /\ UNCHANGED <<now, zone, records, stopping, counted>>

\* Mutant of Watermark: the device's clock is only the replacement of a history.
WatermarkHistoryFirst(history, epoch) == IF history # NoTime THEN history ELSE epoch

\* The later of the newest record and the device's clock (-99 is before both).
Watermark(history, epoch) == IF history > epoch THEN history ELSE epoch

\* `date +%s', then the tolerance.
StartReadsClock ==
    /\ starting.pc = "probed"
    /\ \E answers \in BOOLEAN :
         LET epoch == IF answers THEN now ELSE NoTime
             mark == Watermark(starting.history, epoch) IN
         starting' = [starting EXCEPT !.pc = "started",
                     !.epoch = epoch,
                     !.history = IF mark = NoTime THEN NoTime ELSE mark - Tolerance]
    /\ UNCHANGED <<now, zone, records, stopping, counted>>

-----------------------------------------------------------------------------
(* stop() *)

\* What a query returns: nothing without the capability, or when dumpsys fails
\* twice.
Answer(zoned, answers) ==
    IF starting.capable /\ answers THEN Since(starting.history, zoned) ELSE {}

StopQuery ==
    /\ starting.pc = "started" /\ stopping.pc = "waiting"
    /\ \E zoned, answers \in BOOLEAN :
         LET found == Answer(zoned, answers) IN
         stopping' = [stopping EXCEPT !.first = found, !.taken = found, !.zoned = zoned,
                    !.failed = ~answers, !.at = now,
                    !.pc = IF found # {} THEN "fuse" ELSE "again"]
    /\ UNCHANGED <<now, zone, records, starting, counted>>

\* The second query, only if the first found nothing.
StopQueryAgain ==
    /\ stopping.pc = "again"
    /\ \E zoned, answers \in BOOLEAN :
         stopping' = [stopping EXCEPT !.taken = Answer(zoned, answers), !.zoned = zoned,
                    !.failed = ~answers, !.at = now, !.pc = "fuse"]
    /\ UNCHANGED <<now, zone, records, starting, counted>>

\* Every record that was not expected becomes an event or a second source of one.
Fuse ==
    /\ stopping.pc = "fuse"
    /\ counted' = {r.reason : r \in {t \in stopping.taken : ReasonClass(t.reason) # "expected"}}
    /\ stopping' = [stopping EXCEPT !.pc = "done"]
    /\ UNCHANGED <<now, zone, records, starting>>

ExitNext ==
    \/ ExitTick \/ ProcessExits \/ StartProbes \/ StartReadsClock
    \/ StopQuery \/ StopQueryAgain \/ Fuse

ExitSpec == ExitInit /\ [][ExitNext]_exitVars

-----------------------------------------------------------------------------
(* Properties *)

\* Records of an earlier run do not get into this one, once the device's clock was
\* read at the start, unless the zone is ahead and was not told at the stop.
NoEarlierRecords ==
    starting.epoch # NoTime /\ (stopping.zoned \/ zone <= 0) =>
        \A r \in stopping.taken : r.at >= starting.epoch - Tolerance

\* An exit of the run is among the records if its record was there before the last
\* query, provided the device answered and told its zone each time it
\* could matter.
RunsRecordsTaken ==
    stopping.pc = "fuse" /\ starting.capable /\ ~stopping.failed
    /\ (zone = 0 \/ (stopping.zoned /\ starting.zoned))
    => {r \in records : r.written < stopping.at /\ r.at >= starting.at} \ stopping.taken
         \subseteq {r \in records : starting.epoch # NoTime /\ r.at <= starting.epoch - Tolerance}

\* What the system does to processes it only caches, and what was asked for, is
\* never counted; what is called a failure always is.
OnlyFailuresCounted ==
    stopping.pc = "done" =>
        /\ counted \cap (Demanded \cup Recycled) = {}
        /\ {r.reason : r \in stopping.taken} \cap KnownFailures \subseteq counted

\* Of the ExitInfo records, those of this run count, and only those that are
\* failures.
RecordsOfTheRun == NoEarlierRecords /\ RunsRecordsTaken /\ OnlyFailuresCounted
=============================================================================
