---------------------------- MODULE DeviceProofs ----------------------------
(***************************************************************************)
(* Proofs about what a run does at the device: the ExitInfo records it     *)
(* counts, for any zone, any reasons and any number of exits; the health   *)
(* monitor and the logcat threads it restarts, for any number of outages   *)
(* and polls; the dump of an incident, for any traces, files and events,   *)
(* and its slice of the log, for any limits of the buffer.                 *)
(***************************************************************************)
EXTENDS ExitRecords, DeviceHealth, IncidentDump, ContextBuffer,
        FiniteSetTheorems, SequenceTheorems, WellFoundedInduction, TLAPS

-----------------------------------------------------------------------------
(* Maxima *)

\* A finite set of numbers has a largest element, which Max is.
LEMMA FiniteMax ==
    ASSUME NEW S, IsFiniteSet(S), S \subseteq Int, S # {}
    PROVE  Max(S) \in S /\ \A y \in S : y <= Max(S)
<1> DEFINE Above(x) == {y \in S : y > x}
           T == {Above(x) : x \in S}
<1>1. PICK t \in T : \A u \in T : ~(<<u, t>> \in StrictSubsetOrdering(S))
  <2>1. IsWellFoundedOn(StrictSubsetOrdering(S), FiniteSubsetsOf(S))
    BY FS_StrictSubsetOrderingWellFounded
  <2>2. T \subseteq FiniteSubsetsOf(S) /\ T # {}
    <3>1. \A x \in S : Above(x) \in SUBSET S /\ IsFiniteSet(Above(x))
      BY FS_Subset
    <3> QED
      BY <3>1 DEF FiniteSubsetsOf
  <2> HIDE DEF T
  <2> QED
    BY <2>1, <2>2, WFMin
<1>2. PICK x \in S : t = Above(x)
  BY <1>1
<1>3. ASSUME NEW y \in S, y > x PROVE FALSE
  <2>1. x \in Int /\ y \in Int
    OBVIOUS
  <2>2. \A z \in S : z > y => z > x
    BY <1>3, <2>1
  <2>a. Above(y) \subseteq Above(x)
    BY <2>2
  <2>b. y \in Above(x)
    BY <1>3
  <2>c. y \notin Above(y)
    <3>1. ~ (y > y)
      BY <2>1
    <3> QED
      BY <3>1
  <2>3. Above(y) \subseteq Above(x) /\ y \in Above(x) /\ y \notin Above(y)
    BY <2>a, <2>b, <2>c
  <2>4. <<Above(y), Above(x)>> \in StrictSubsetOrdering(S)
    BY <2>3 DEF StrictSubsetOrdering
  <2> QED
    BY <1>1, <1>2, <2>4
<1>4. \A y \in S : x >= y
  BY <1>3
<1> QED
  BY <1>4 DEF Max

\* A finite set of numbers has a smallest element, which Min is.
LEMMA FiniteMin ==
    ASSUME NEW S, IsFiniteSet(S), S \subseteq Int, S # {}
    PROVE  Min(S) \in S /\ \A y \in S : Min(S) <= y
<1> DEFINE Below(x) == {y \in S : y < x}
           T == {Below(x) : x \in S}
<1>1. PICK t \in T : \A u \in T : ~(<<u, t>> \in StrictSubsetOrdering(S))
  <2>1. IsWellFoundedOn(StrictSubsetOrdering(S), FiniteSubsetsOf(S))
    BY FS_StrictSubsetOrderingWellFounded
  <2>2. T \subseteq FiniteSubsetsOf(S) /\ T # {}
    <3>1. \A x \in S : Below(x) \in SUBSET S /\ IsFiniteSet(Below(x))
      BY FS_Subset
    <3> QED
      BY <3>1 DEF FiniteSubsetsOf
  <2> HIDE DEF T
  <2> QED
    BY <2>1, <2>2, WFMin
<1>2. PICK x \in S : t = Below(x)
  BY <1>1
<1>3. ASSUME NEW y \in S, y < x PROVE FALSE
  <2>1. x \in Int /\ y \in Int
    OBVIOUS
  <2>2. \A z \in S : z < y => z < x
    BY <1>3, <2>1
  <2>a. Below(y) \subseteq Below(x)
    BY <2>2
  <2>b. y \in Below(x)
    BY <1>3
  <2>c. y \notin Below(y)
    <3>1. ~ (y < y)
      BY <2>1
    <3> QED
      BY <3>1
  <2>3. Below(y) \subseteq Below(x) /\ y \in Below(x) /\ y \notin Below(y)
    BY <2>a, <2>b, <2>c
  <2>4. <<Below(y), Below(x)>> \in StrictSubsetOrdering(S)
    BY <2>3 DEF StrictSubsetOrdering
  <2> QED
    BY <1>1, <1>2, <2>4
<1>4. \A y \in S : x <= y
  BY <1>3
<1> QED
  BY <1>4 DEF Min

-----------------------------------------------------------------------------
(* ExitRecords *)

StartingType == [pc : {"waiting", "probed", "started"}, capable : BOOLEAN, zoned : BOOLEAN,
                 history : Int, at : Int, epoch : Int]
StoppingType == [pc : {"waiting", "again", "fuse", "done"}, first : SUBSET records,
                 taken : SUBSET records, zoned : BOOLEAN, failed : BOOLEAN, at : Int]
ExitTypes ==
    /\ now \in Nat /\ zone \in Int
    /\ IsFiniteSet(records) /\ records \subseteq [at : Int, written : Int, reason : Reasons]
    /\ starting \in StartingType /\ stopping \in StoppingType

\* The times the run can tell are those of the device.
TellsZone(zoned) == zoned \/ zone = 0

\* What the watermark is, as far as the start has come.
WatermarkInv ==
    /\ starting.pc # "waiting" => starting.at \in Nat /\ starting.at <= now
    /\ starting.pc \in {"waiting", "probed"} =>
          starting.epoch = NoTime /\ stopping.pc = "waiting"
    /\ starting.pc = "probed" /\ TellsZone(starting.zoned) => starting.history <= starting.at
    /\ starting.epoch # NoTime => starting.epoch \in Nat /\ starting.epoch - 1 <= starting.history
    /\ starting.pc = "started" /\ TellsZone(starting.zoned) =>
          \/ starting.history < starting.at
          \/ starting.epoch # NoTime /\ starting.history = starting.epoch - 1

\* A record was there when it happened; what the last query took is behind the
\* watermark, and what it left is before it, or was not there yet.
QueryInv ==
    /\ \A r \in records : r.at <= now
    /\ stopping.pc # "waiting" => stopping.at <= now
    /\ \A r \in stopping.taken :
          starting.history = NoTime \/ EpochOf(r, stopping.zoned) > starting.history
    /\ stopping.pc = "waiting" => stopping.taken = {}
    /\ stopping.pc = "fuse" /\ starting.capable /\ ~stopping.failed =>
          \A r \in records \ stopping.taken :
             \/ r.written >= stopping.at
             \/ starting.history # NoTime /\ EpochOf(r, stopping.zoned) <= starting.history

\* The newest record in the history of the device.
LEMMA NewestRecord ==
    ASSUME ExitTypes, QueryInv, NEW zoned \in BOOLEAN, Visible # {}
    PROVE  LET times == {EpochOf(r, zoned) : r \in Visible} IN
           /\ Max(times) \in Int
           /\ TellsZone(zoned) => Max(times) <= now
<1> DEFINE times == {EpochOf(r, zoned) : r \in Visible}
<1>1. IsFiniteSet(Visible) /\ Visible \subseteq records
  BY FS_Subset DEF Visible, ExitTypes
<1>2. IsFiniteSet(times)
  <2> DEFINE epoch == [r \in Visible |-> EpochOf(r, zoned)]
  <2>1. epoch \in Surjection(Visible, times)
    BY DEF Surjection
  <2> HIDE DEF epoch
  <2> QED
    BY <1>1, <2>1, FS_Surjection
<1>3. times \subseteq Int /\ times # {}
  BY <1>1 DEF EpochOf, ExitTypes
<1>4. Max(times) \in times
  BY <1>2, <1>3, FiniteMax
<1>5. TellsZone(zoned) => \A t \in times : t <= now
  BY <1>1 DEF TellsZone, EpochOf, ExitTypes, QueryInv
<1> QED
  BY <1>3, <1>4, <1>5

LEMMA ProbeEffect ==
    ASSUME ExitTypes, QueryInv, StartProbes
    PROVE  \E capable, zoned \in BOOLEAN, history \in Int :
              /\ starting' = [starting EXCEPT !.pc = "probed", !.capable = capable, !.zoned = zoned,
                                              !.at = now, !.history = history]
              /\ history = NoTime \/ (TellsZone(zoned) => history <= now)
<1>1. PICK capable, answers, zoned \in BOOLEAN :
         starting' = [starting EXCEPT !.pc = "probed", !.capable = capable, !.zoned = zoned,
                        !.at = now,
                        !.history = IF capable /\ answers /\ Visible # {}
                                    THEN Max({EpochOf(r, zoned) : r \in Visible}) ELSE NoTime]
  BY DEF StartProbes
<1>2. NoTime \in Int
  BY DEF NoTime
<1>3. CASE capable /\ answers /\ Visible # {}
  BY <1>1, <1>3, NewestRecord
<1>4. CASE ~(capable /\ answers /\ Visible # {})
  BY <1>1, <1>2, <1>4
<1> QED
  BY <1>3, <1>4

LEMMA ExitTypesStep ==
    ASSUME ExitTypes, QueryInv, [ExitNext]_exitVars PROVE ExitTypes'
<1>1. ASSUME ExitTick PROVE ExitTypes'
  BY <1>1 DEF ExitTick, ExitTypes, StartingType, StoppingType
<1>2. ASSUME ProcessExits PROVE ExitTypes'
  <2>1. PICK reason \in Reasons, delay \in {0, 1} :
           records' = records \cup {[at |-> now, written |-> now + delay, reason |-> reason]}
    BY <1>2 DEF ProcessExits
  <2>2. IsFiniteSet(records')
    BY <2>1, FS_AddElement DEF ExitTypes
  <2> QED
    BY <1>2, <2>1, <2>2 DEF ProcessExits, ExitTypes, StartingType, StoppingType
<1>3. ASSUME StartProbes PROVE ExitTypes'
  <2>1. PICK capable, zoned \in BOOLEAN, history \in Int :
           /\ starting' = [starting EXCEPT !.pc = "probed", !.capable = capable, !.zoned = zoned,
                                           !.at = now, !.history = history]
           /\ history = NoTime \/ (TellsZone(zoned) => history <= now)
    BY <1>3, ProbeEffect
  <2>a. now \in Int /\ starting \in StartingType
    BY DEF ExitTypes
  <2>2. starting' \in StartingType
    BY <2>1, <2>a, Zenon DEF StartingType
  <2>3. UNCHANGED <<now, zone, records, stopping>>
    BY <1>3 DEF StartProbes
  <2>4. stopping' \in StoppingType'
    BY <2>3 DEF ExitTypes, StoppingType
  <2> QED
    BY <2>2, <2>3, <2>4 DEF ExitTypes, StartingType
<1>4. ASSUME StartReadsClock PROVE ExitTypes'
  <2>1. PICK epoch \in {now, NoTime} :
           starting' = [starting EXCEPT !.pc = "started", !.epoch = epoch,
              !.history = IF Watermark(starting.history, epoch) = NoTime THEN NoTime
                          ELSE Watermark(starting.history, epoch) - Tolerance]
    BY <1>4 DEF StartReadsClock
  <2>2. epoch \in Int /\ starting.history \in Int /\ NoTime \in Int /\ Tolerance \in Int
    BY DEF ExitTypes, StartingType, NoTime, Tolerance
  <2>3. Watermark(starting.history, epoch) \in Int
    BY <2>2 DEF Watermark
  <2>4. UNCHANGED <<now, zone, records, stopping>>
    BY <1>4 DEF StartReadsClock
  <2> DEFINE mark == Watermark(starting.history, epoch)
             history == IF mark = NoTime THEN NoTime ELSE mark - Tolerance
  <2>5. history \in Int
    BY <2>2, <2>3
  <2> HIDE DEF history, mark
  <2>6. starting' = [starting EXCEPT !.pc = "started", !.epoch = epoch, !.history = history]
    BY <2>1 DEF history, mark
  <2>7. starting' \in StartingType
    BY <2>2, <2>5, <2>6 DEF ExitTypes, StartingType
  <2>8. stopping' \in StoppingType'
    BY <2>4 DEF ExitTypes, StoppingType
  <2> QED
    BY <2>4, <2>7, <2>8 DEF ExitTypes, StartingType
<1>5. ASSUME StopQuery PROVE ExitTypes'
  <2>1. PICK zoned, answers \in BOOLEAN :
           stopping' = [stopping EXCEPT
              !.first = Answer(zoned, answers), !.taken = Answer(zoned, answers),
              !.zoned = zoned, !.failed = ~answers, !.at = now,
              !.pc = IF Answer(zoned, answers) # {} THEN "fuse" ELSE "again"]
    BY <1>5 DEF StopQuery
  <2>2. Answer(zoned, answers) \subseteq records /\ now \in Int
    BY DEF Answer, Since, Visible, ExitTypes
  <2>3. stopping' \in StoppingType
    BY <2>1, <2>2 DEF ExitTypes, StoppingType
  <2> QED
    BY <1>5, <2>3 DEF StopQuery, ExitTypes, StartingType, StoppingType
<1>6. ASSUME StopQueryAgain PROVE ExitTypes'
  <2>1. PICK zoned, answers \in BOOLEAN :
           stopping' = [stopping EXCEPT !.taken = Answer(zoned, answers), !.zoned = zoned,
                          !.failed = ~answers, !.at = now, !.pc = "fuse"]
    BY <1>6 DEF StopQueryAgain
  <2>2. Answer(zoned, answers) \subseteq records /\ now \in Int
    BY DEF Answer, Since, Visible, ExitTypes
  <2>3. stopping' \in StoppingType
    BY <2>1, <2>2 DEF ExitTypes, StoppingType
  <2> QED
    BY <1>6, <2>3 DEF StopQueryAgain, ExitTypes, StartingType, StoppingType
<1>7. ASSUME Fuse PROVE ExitTypes'
  BY <1>7 DEF Fuse, ExitTypes, StartingType, StoppingType
<1>8. CASE UNCHANGED exitVars
  BY <1>8 DEF exitVars, ExitTypes, StartingType, StoppingType
<1> QED
  BY <1>1, <1>2, <1>3, <1>4, <1>5, <1>6, <1>7, <1>8 DEF ExitNext

LEMMA WatermarkStep ==
    ASSUME ExitTypes, WatermarkInv, QueryInv, [ExitNext]_exitVars PROVE WatermarkInv'
<1>1. ASSUME ExitTick PROVE WatermarkInv'
  BY <1>1 DEF ExitTick, ExitTypes, StartingType, StoppingType, WatermarkInv, TellsZone
<1>2. ASSUME ProcessExits PROVE WatermarkInv'
  BY <1>2 DEF ProcessExits, ExitTypes, StartingType, StoppingType, WatermarkInv, TellsZone
<1>3. ASSUME StartProbes PROVE WatermarkInv'
  <2>1. PICK capable, zoned \in BOOLEAN, history \in Int :
           /\ starting' = [starting EXCEPT !.pc = "probed", !.capable = capable, !.zoned = zoned,
                                           !.at = now, !.history = history]
           /\ history = NoTime \/ (TellsZone(zoned) => history <= now)
    BY <1>3, ProbeEffect
  <2>2. /\ starting'.pc = "probed" /\ starting'.at = now /\ starting'.epoch = starting.epoch
        /\ starting'.history = history /\ starting'.zoned = zoned
        /\ starting.pc = "waiting" /\ now' = now /\ zone' = zone /\ stopping' = stopping
    BY <1>3, <2>1 DEF StartProbes, ExitTypes, StartingType
  <2>3. starting.epoch = NoTime /\ stopping.pc = "waiting"
    BY <2>2 DEF WatermarkInv
  <2>4. TellsZone(starting.zoned)' => history <= now
    BY <2>1, <2>2 DEF TellsZone, ExitTypes, NoTime
  <2> QED
    BY <2>2, <2>3, <2>4 DEF ExitTypes, WatermarkInv
<1>4. ASSUME StartReadsClock PROVE WatermarkInv'
  BY <1>4 DEF StartReadsClock, ExitTypes, StartingType, StoppingType, WatermarkInv, TellsZone, Watermark, NoTime, Tolerance
<1>5. ASSUME StopQuery PROVE WatermarkInv'
  BY <1>5 DEF StopQuery, ExitTypes, StartingType, StoppingType, WatermarkInv, TellsZone
<1>6. ASSUME StopQueryAgain PROVE WatermarkInv'
  BY <1>6 DEF StopQueryAgain, ExitTypes, StartingType, StoppingType, WatermarkInv, TellsZone
<1>7. ASSUME Fuse PROVE WatermarkInv'
  BY <1>7 DEF Fuse, ExitTypes, StartingType, StoppingType, WatermarkInv, TellsZone
<1>8. CASE UNCHANGED exitVars
  BY <1>8 DEF exitVars, WatermarkInv, TellsZone
<1> QED
  BY <1>1, <1>2, <1>3, <1>4, <1>5, <1>6, <1>7, <1>8 DEF ExitNext

LEMMA QueryStep ==
    ASSUME ExitTypes, WatermarkInv, QueryInv, [ExitNext]_exitVars PROVE QueryInv'
<1>1. ASSUME ExitTick PROVE QueryInv'
  BY <1>1 DEF ExitTick, ExitTypes, StartingType, StoppingType, QueryInv, EpochOf
<1>2. ASSUME ProcessExits PROVE QueryInv'
  BY <1>2 DEF ProcessExits, ExitTypes, StartingType, StoppingType, QueryInv, EpochOf
<1>3. ASSUME StartProbes PROVE QueryInv'
  BY <1>3 DEF StartProbes, ExitTypes, StartingType, StoppingType, WatermarkInv, QueryInv, EpochOf
<1>4. ASSUME StartReadsClock PROVE QueryInv'
  BY <1>4 DEF StartReadsClock, ExitTypes, StartingType, StoppingType, WatermarkInv, QueryInv, EpochOf
<1>5. ASSUME StopQuery PROVE QueryInv'
  BY <1>5 DEF StopQuery, ExitTypes, StartingType, StoppingType, QueryInv, EpochOf, Answer, Since, Visible
<1>6. ASSUME StopQueryAgain PROVE QueryInv'
  BY <1>6 DEF StopQueryAgain, ExitTypes, StartingType, StoppingType, QueryInv, EpochOf, Answer, Since, Visible
<1>7. ASSUME Fuse PROVE QueryInv'
  BY <1>7 DEF Fuse, ExitTypes, StartingType, StoppingType, QueryInv, EpochOf
<1>8. CASE UNCHANGED exitVars
  BY <1>8 DEF exitVars, QueryInv, EpochOf
<1> QED
  BY <1>1, <1>2, <1>3, <1>4, <1>5, <1>6, <1>7, <1>8 DEF ExitNext

\* Of the ExitInfo records the run takes its own, with any zone and whatever the
\* queries return: none from before the watermark, and none of its own left out that
\* a query could see and place.
THEOREM RecordsAreOfTheRun == ExitSpec => []RecordsOfTheRun
<1> DEFINE ExitInv == ExitTypes /\ WatermarkInv /\ QueryInv /\ OnlyFailuresCounted
<1>1. ExitInit => ExitInv
  BY FS_EmptySet, ExitAssumption
  DEF ExitInit, ExitTypes, StartingType, StoppingType, WatermarkInv, QueryInv, OnlyFailuresCounted, ExitAssumption, NoTime
<1>2. ExitInv /\ [ExitNext]_exitVars => ExitInv'
  <2> SUFFICES ASSUME ExitInv, [ExitNext]_exitVars PROVE ExitInv'
    OBVIOUS
  <2>1. ExitTypes' /\ WatermarkInv' /\ QueryInv'
    BY ExitTypesStep, WatermarkStep, QueryStep
  <2>2. OnlyFailuresCounted'
    <3>1. CASE Fuse
      <4>1. stopping'.taken = stopping.taken
            /\ counted' = {r.reason : r \in {t \in stopping.taken : ReasonClass(t.reason) # "expected"}}
        BY <3>1 DEF Fuse, ExitTypes, StartingType, StoppingType
      <4> QED
        BY <4>1 DEF OnlyFailuresCounted, ReasonClass, KnownFailures, Demanded, Recycled
    <3>2. CASE stopping'.pc = stopping.pc /\ stopping'.taken = stopping.taken /\ counted' = counted
      BY <3>2 DEF OnlyFailuresCounted
    <3>3. CASE stopping'.pc # "done"
      BY <3>3 DEF OnlyFailuresCounted
    <3> QED
      BY <3>1, <3>2, <3>3 DEF ExitNext, exitVars, ExitTick, ProcessExits, StartProbes,
         StartReadsClock, StopQuery, StopQueryAgain, ExitTypes, StoppingType
  <2> QED
    BY <2>1, <2>2
<1>3. ExitInv => RecordsOfTheRun
  <2> SUFFICES ASSUME ExitInv PROVE RecordsOfTheRun
    OBVIOUS
  <2>1. NoEarlierRecords
    BY DEF NoEarlierRecords, ExitTypes, StartingType, StoppingType, WatermarkInv, QueryInv, EpochOf, NoTime, Tolerance
  <2>2. RunsRecordsTaken
    BY DEF RunsRecordsTaken, ExitTypes, StartingType, StoppingType, WatermarkInv, QueryInv, EpochOf, TellsZone, Tolerance
  <2> QED
    BY <2>1, <2>2 DEF RecordsOfTheRun
<1> QED
  BY <1>1, <1>2, <1>3, PTL DEF ExitSpec

-----------------------------------------------------------------------------
(* DeviceHealth *)

DeviceType == [boot : Nat \ {0}, online : BOOLEAN, readable : BOOLEAN, outages : Nat]
SnapType == [state : {"none", "online", "offline"}, boot : Nat]
MonitorPcs == {"idle", "begin", "test", "stop", "end", "recover", "start", "epoch", "died", "ended"}
LogType == Seq({"gap", "recovered"})
MonitorType == [pc : MonitorPcs, last : SnapType, gap : BOOLEAN, epoch : Nat, reboot : BOOLEAN,
                polls : Nat, log : LogType]
ReaderType == [pc : {"starting", "created", "reading", "closing", "ended"}, stream : Nat]
PoolStopType == [pc : {"running", "test", "stop", "joining", "joined", "raised"},
                 global : BOOLEAN, policy : GapPolicies]
MetType == [boot : Nat, changes : Nat, blurred : BOOLEAN, unsettled : BOOLEAN]
HealthTypes ==
    /\ device \in DeviceType /\ monitor \in MonitorType /\ readers \in Seq(ReaderType)
    /\ current \in Nat /\ stopped \subseteq Nat
    /\ poolStop \in PoolStopType /\ met \in MetType

\* What the monitor still owes the epoch.
EpochInv ==
    /\ monitor.pc = "idle" => ~monitor.reboot
    /\ ~met.blurred =>
          /\ monitor.last.boot = met.boot
          /\ met.changes = monitor.epoch + (IF monitor.reboot THEN 1 ELSE 0)

GapInv ==
    /\ monitor.last.state = "online" => met.boot # 0
    /\ monitor.last.state = "none" => met.boot = 0 /\ monitor.last.boot = 0
    /\ monitor.pc \in {"idle", "ended"} =>
          (monitor.gap <=> (monitor.last.state = "offline" /\ met.boot # 0))
    /\ monitor.pc = "begin" => ~monitor.gap
    /\ monitor.pc \in {"test", "stop", "died"} => monitor.gap
    /\ monitor.pc \in {"begin", "test", "stop"} =>
          IF monitor.reboot THEN monitor.last.state = "online"
          ELSE monitor.last.state = "offline" /\ met.boot # 0
    /\ monitor.pc \in {"end", "recover", "start", "epoch"} => monitor.last.state = "online"
    /\ monitor.pc \in {"recover", "start", "epoch"} => ~monitor.gap

LogInv ==
    /\ monitor.log = [i \in 1..Len(monitor.log) |-> IF i % 2 = 1 THEN "gap" ELSE "recovered"]
    /\ monitor.gap <=> Len(monitor.log) % 2 = 1

Newest == Len(readers)
Quiet == readers[Newest].pc \in {"closing", "ended"}
         \/ (readers[Newest].pc = "reading" /\ Newest \in stopped)

ReaderInv ==
    /\ Newest > 0
    /\ \A i \in 1..Newest : i < Newest => readers[i].pc = "ended"
    /\ current = IF readers[Newest].pc \in {"starting", "ended"} THEN 0 ELSE Newest
    /\ readers[Newest].pc \in {"reading", "closing"} => readers[Newest].stream = Newest
    /\ stopped \subseteq 1..Newest
    /\ readers[Newest].pc \in {"starting", "created"} => Newest \notin stopped
    /\ poolStop.pc # "running" => poolStop.global
    /\ monitor.pc = "stop" \/ poolStop.pc = "stop" =>
          readers[Newest].pc \notin {"starting", "created"}
    /\ monitor.gap /\ monitor.pc \notin {"test", "stop"} => Quiet
    /\ ~poolStop.global /\ (IF monitor.gap THEN monitor.pc \in {"test", "stop"}
                            ELSE monitor.pc \notin {"recover", "start"}) => ~Quiet
    /\ monitor.pc = "died" => poolStop.global
    /\ poolStop.pc \in {"joining", "joined", "raised"} => Quiet

-----------------------------------------------------------------------------
(* Types *)

LEMMA PollEffect ==
    ASSUME HealthTypes, Poll
    PROVE  \E snap \in SnapType, v \in {"quiet", "begin", "end", "reboot"} :
              /\ snap = Remembers(Snapshot) /\ v \in Verdicts(monitor.last, snap)
              /\ monitor' = [monitor EXCEPT
                    !.last = snap, !.polls = monitor.polls + 1,
                    !.pc = IF v = "quiet" THEN "idle" ELSE IF v = "end" THEN "end" ELSE "begin",
                    !.reboot = v = "reboot" \/ (v = "end" /\ BootChanged(monitor.last, snap))]
<1>1. Snapshot \in SnapType
  BY DEF Snapshot, SnapType, HealthTypes, DeviceType
<1>2. monitor.last \in SnapType
  BY DEF HealthTypes, MonitorType
<1>3. Remembers(Snapshot) \in SnapType
  BY <1>1, <1>2 DEF Remembers, SnapType
<1>4. Verdicts(monitor.last, Remembers(Snapshot)) \subseteq {"quiet", "begin", "end", "reboot"}
  BY DEF Verdicts
<1>5. PICK v \in Verdicts(monitor.last, Remembers(Snapshot)) :
         monitor' = [monitor EXCEPT
            !.last = Remembers(Snapshot), !.polls = @ + 1,
            !.pc = CASE v = "quiet" -> "idle" [] v = "end" -> "end" [] OTHER -> "begin",
            !.reboot = v = "reboot" \/ (v = "end" /\ BootChanged(monitor.last, Remembers(Snapshot)))]
  BY DEF Poll
<1>6. (CASE v = "quiet" -> "idle" [] v = "end" -> "end" [] OTHER -> "begin")
      = IF v = "quiet" THEN "idle" ELSE IF v = "end" THEN "end" ELSE "begin"
  BY <1>4
<1> QED
  BY <1>3, <1>4, <1>5, <1>6, Zenon

LEMMA HealthTypesStep ==
    ASSUME HealthTypes, [HealthNext]_healthVars PROVE HealthTypes'
<1> USE DEF HealthTypes
<1>1. ASSUME DeviceFails PROVE HealthTypes'
  <2>1. device' \in DeviceType
    BY <1>1 DEF DeviceFails, DeviceType
  <2> QED
    BY <1>1, <2>1 DEF DeviceFails
<1>2. ASSUME DeviceReturns PROVE HealthTypes'
  BY <1>2 DEF DeviceReturns, DeviceType
<1>3. ASSUME Poll PROVE HealthTypes'
  <2>1. monitor' \in MonitorType
    <3>1. PICK snap \in SnapType, v \in {"quiet", "begin", "end", "reboot"} :
              monitor' = [monitor EXCEPT
                    !.last = snap, !.polls = monitor.polls + 1,
                    !.pc = IF v = "quiet" THEN "idle" ELSE IF v = "end" THEN "end" ELSE "begin",
                    !.reboot = v = "reboot" \/ (v = "end" /\ BootChanged(monitor.last, snap))]
      BY <1>3, PollEffect
    <3>2. (v = "reboot" \/ (v = "end" /\ BootChanged(monitor.last, snap))) \in BOOLEAN
      BY DEF BootChanged
    <3>3. (IF v = "quiet" THEN "idle" ELSE IF v = "end" THEN "end" ELSE "begin") \in MonitorPcs
      BY DEF MonitorPcs
    <3>4. monitor.polls + 1 \in Nat
      BY DEF MonitorType
    <3> QED
      BY <3>1, <3>2, <3>3, <3>4, Zenon DEF MonitorType
  <2>2. met' \in MetType
    <3>1. CASE ~device.online
      BY <1>3, <3>1 DEF Poll
    <3>2. CASE device.online
      <4> DEFINE more == met.changes + (IF met.boot \notin {0, device.boot} THEN 1 ELSE 0)
                 blur == met.blurred \/ ~device.readable
      <4>1. met' = [met EXCEPT !.boot = device.boot, !.changes = more, !.blurred = blur]
        BY <1>3, <3>2 DEF Poll
      <4>2. more \in Nat /\ device.boot \in Nat
        BY DEF MetType, DeviceType
      <4>3. blur \in BOOLEAN
        BY Zenon DEF MetType, DeviceType
      <4> HIDE DEF more, blur
      <4> QED
        BY <4>1, <4>2, <4>3, Zenon DEF MetType
    <3> QED
      BY <3>1, <3>2
  <2> QED
    BY <1>3, <2>1, <2>2 DEF Poll
<1>4. ASSUME BeginGap PROVE HealthTypes'
  <2>1. Append(monitor.log, "gap") \in LogType
    BY AppendProperties DEF MonitorType, LogType
  <2>2. monitor' \in MonitorType
    BY <1>4, <2>1 DEF BeginGap, MonitorType, MonitorPcs
  <2>3. poolStop' \in PoolStopType
    BY <1>4 DEF BeginGap, PoolStopType
  <2> QED
    BY <1>4, <2>2, <2>3 DEF BeginGap
<1>5. ASSUME GapTest PROVE HealthTypes'
  <2>1. monitor' \in MonitorType
    BY <1>5 DEF GapTest, MonitorType, MonitorPcs
  <2>2. met' \in MetType
    <3>1. Starting \in BOOLEAN
      BY DEF Starting
    <3> QED
      BY <1>5, <3>1, Zenon DEF GapTest, MetType
  <2> QED
    BY <1>5, <2>1, <2>2 DEF GapTest
<1>6. ASSUME GapStop PROVE HealthTypes'
  <2>1. monitor' \in MonitorType
    BY <1>6 DEF GapStop, MonitorType, MonitorPcs
  <2> QED
    BY <1>6, <2>1 DEF GapStop
<1>7. ASSUME EndGap PROVE HealthTypes'
  <2>1. Append(monitor.log, "recovered") \in LogType
    BY AppendProperties DEF MonitorType, LogType
  <2>2. monitor' \in MonitorType
    BY <1>7, <2>1 DEF EndGap, MonitorType, MonitorPcs
  <2> QED
    BY <1>7, <2>2 DEF EndGap
<1>8. ASSUME RecoverTest PROVE HealthTypes'
  <2>1. monitor' \in MonitorType
    BY <1>8 DEF RecoverTest, MonitorType, MonitorPcs
  <2> QED
    BY <1>8, <2>1 DEF RecoverTest
<1>9. ASSUME RecoverStart PROVE HealthTypes'
  <2>1. [pc |-> "starting", stream |-> 0] \in ReaderType
    BY DEF ReaderType
  <2>2. readers' \in Seq(ReaderType)
    BY <1>9, <2>1, AppendProperties DEF RecoverStart
  <2>3. monitor' \in MonitorType
    BY <1>9 DEF RecoverStart, MonitorType, MonitorPcs
  <2>4. met' \in MetType
    <3> DEFINE late == poolStop.global \/ \E i \in DOMAIN readers : readers[i].pc # "ended"
    <3>1. met' = [met EXCEPT !.unsettled = met.unsettled \/ late]
      BY <1>9 DEF RecoverStart
    <3>2. (met.unsettled \/ late) \in BOOLEAN
      OBVIOUS
    <3> HIDE DEF late
    <3> QED
      BY <3>1, <3>2, Zenon DEF MetType
  <2> QED
    BY <1>9, <2>2, <2>3, <2>4 DEF RecoverStart
<1>10. ASSUME Epoch PROVE HealthTypes'
  <2>1. monitor' \in MonitorType
    <3> DEFINE epoch == monitor.epoch + (IF monitor.reboot THEN 1 ELSE 0)
    <3>1. monitor' = [monitor EXCEPT !.pc = "idle", !.epoch = epoch, !.reboot = FALSE]
      BY <1>10 DEF Epoch
    <3>2. epoch \in Nat
      BY DEF MonitorType
    <3> HIDE DEF epoch
    <3> QED
      BY <3>1, <3>2 DEF MonitorType, MonitorPcs
  <2> QED
    BY <1>10, <2>1 DEF Epoch
<1>11. ASSUME MonitorEnds PROVE HealthTypes'
  <2>1. monitor' \in MonitorType
    BY <1>11 DEF MonitorEnds, MonitorType, MonitorPcs
  <2> QED
    BY <1>11, <2>1 DEF MonitorEnds
<1>12. ASSUME NEW i \in DOMAIN readers,
              ReaderCreates(i) \/ ReaderReads(i) \/ ReaderLeaves(i) \/ ReaderCloses(i)
       PROVE  HealthTypes'
  <2>1. i \in Nat /\ readers[i] \in ReaderType /\ i \in 1..Len(readers)
    BY ElementOfSeq
  <2>2. \E r \in ReaderType : readers' = [readers EXCEPT ![i] = r]
    <3>1. CASE ReaderCreates(i)
      BY <2>1, <3>1 DEF ReaderCreates, Reader, ReaderType
    <3>2. CASE ReaderReads(i)
      BY <2>1, <3>2 DEF ReaderReads, ReaderType
    <3>3. CASE ReaderLeaves(i)
      BY <2>1, <3>3 DEF ReaderLeaves, Reader, ReaderType
    <3>4. CASE ReaderCloses(i)
      BY <2>1, <3>4 DEF ReaderCloses, ReaderType
    <3> QED
      BY <1>12, <3>1, <3>2, <3>3, <3>4
  <2>3. readers' \in Seq(ReaderType)
    BY <2>1, <2>2, ExceptSeq
  <2> QED
    BY <1>12, <2>1, <2>3 DEF ReaderCreates, ReaderReads, ReaderLeaves, ReaderCloses
<1>13. ASSUME StopBegins PROVE HealthTypes'
  BY <1>13 DEF StopBegins, PoolStopType
<1>14. ASSUME StopTest PROVE HealthTypes'
  <2>1. Starting \in BOOLEAN
    BY DEF Starting
  <2>2. met' \in MetType
    BY <1>14, <2>1, Zenon DEF StopTest, MetType
  <2>3. poolStop' \in PoolStopType
    BY <1>14 DEF StopTest, PoolStopType
  <2> QED
    BY <1>14, <2>2, <2>3 DEF StopTest
<1>15. ASSUME StopStream PROVE HealthTypes'
  <2>1. poolStop' \in PoolStopType
    BY <1>15 DEF StopStream, PoolStopType
  <2> QED
    BY <1>15, <2>1 DEF StopStream
<1>16. ASSUME StopJoins PROVE HealthTypes'
  BY <1>16 DEF StopJoins, PoolStopType
<1>17. CASE UNCHANGED healthVars
  BY <1>17 DEF healthVars
<1> QED
  BY <1>1, <1>2, <1>3, <1>4, <1>5, <1>6, <1>7, <1>8, <1>9, <1>10, <1>11, <1>12, <1>13, <1>14,
     <1>15, <1>16, <1>17 DEF HealthNext

-----------------------------------------------------------------------------
(* Epochs and gaps *)

\* What a poll does, field by field.
LEMMA PollFields ==
    ASSUME HealthTypes, Poll
    PROVE  LET last == monitor.last  snap == monitor'.last IN
           /\ monitor.pc = "idle" /\ snap \in SnapType
           /\ monitor'.gap = monitor.gap /\ monitor'.epoch = monitor.epoch
           /\ monitor'.log = monitor.log
           /\ ~device.online =>
                 /\ snap.state = "offline" /\ snap.boot = last.boot /\ met' = met
                 /\ monitor'.pc = IF last.state = "online" THEN "begin" ELSE "idle"
                 /\ monitor'.reboot = FALSE
           /\ device.online =>
                 /\ snap.state = "online" /\ snap.boot = IF device.readable THEN device.boot ELSE 0
                 /\ met'.boot = device.boot /\ met'.unsettled = met.unsettled
                 /\ met'.changes = met.changes + (IF met.boot \notin {0, device.boot} THEN 1 ELSE 0)
                 /\ met'.blurred <=> met.blurred \/ ~device.readable
                 /\ last.state = "none" => monitor'.pc = "idle" /\ monitor'.reboot = FALSE
                 /\ last.state = "offline" =>
                       monitor'.pc = "end" /\ monitor'.reboot = BootChanged(last, snap)
                 /\ last.state = "online" =>
                       /\ monitor'.pc = IF monitor'.reboot THEN "begin" ELSE "idle"
                       /\ last.boot # 0 /\ snap.boot # 0 =>
                             monitor'.reboot = (last.boot # snap.boot)
<1> DEFINE last == monitor.last
<1>1. PICK snap \in SnapType, v \in {"quiet", "begin", "end", "reboot"} :
              /\ snap = Remembers(Snapshot) /\ v \in Verdicts(last, snap)
              /\ monitor' = [monitor EXCEPT
                    !.last = snap, !.polls = monitor.polls + 1,
                    !.pc = IF v = "quiet" THEN "idle" ELSE IF v = "end" THEN "end" ELSE "begin",
                    !.reboot = v = "reboot" \/ (v = "end" /\ BootChanged(last, snap))]
  BY PollEffect
<1>2. /\ monitor'.last = snap /\ monitor'.gap = monitor.gap /\ monitor'.epoch = monitor.epoch
      /\ monitor'.log = monitor.log
      /\ monitor'.pc = IF v = "quiet" THEN "idle" ELSE IF v = "end" THEN "end" ELSE "begin"
      /\ monitor'.reboot = (v = "reboot" \/ (v = "end" /\ BootChanged(last, snap)))
  BY <1>1 DEF HealthTypes, MonitorType
<1>3. last \in SnapType /\ monitor.pc = "idle"
  BY DEF HealthTypes, MonitorType, Poll
<1>4. CASE ~device.online
  <2>1. snap.state = "offline" /\ snap.boot = last.boot
    BY <1>1, <1>3, <1>4 DEF Remembers, Snapshot, SnapType
  <2>2. met' = met
    BY <1>4 DEF Poll
  <2>3. v = IF last.state = "online" THEN "begin" ELSE "quiet"
    BY <1>1, <1>3, <2>1 DEF Verdicts, SnapType
  <2> QED
    BY <1>2, <1>3, <1>4, <2>1, <2>2, <2>3
<1>5. CASE device.online
  <2>1. snap.state = "online" /\ snap.boot = IF device.readable THEN device.boot ELSE 0
    BY <1>1, <1>5 DEF Remembers, Snapshot
  <2>2. /\ met'.boot = device.boot /\ met'.unsettled = met.unsettled
        /\ met'.changes = met.changes + (IF met.boot \notin {0, device.boot} THEN 1 ELSE 0)
        /\ met'.blurred <=> met.blurred \/ ~device.readable
    BY <1>5 DEF Poll, HealthTypes, MetType
  <2>3. CASE last.state = "none"
    <3>1. v = "quiet"
      BY <1>1, <2>3 DEF Verdicts
    <3> QED
      BY <1>2, <1>3, <1>5, <2>1, <2>2, <2>3, <3>1
  <2>4. CASE last.state = "offline"
    <3>1. v = "end"
      BY <1>1, <2>1, <2>4 DEF Verdicts
    <3> QED
      BY <1>2, <1>3, <1>5, <2>1, <2>2, <2>4, <3>1 DEF BootChanged
  <2>5. CASE last.state = "online"
    <3>1. /\ v \in {"quiet", "reboot"}
          /\ last.boot # 0 /\ snap.boot # 0 => (v = "reboot" <=> last.boot # snap.boot)
      BY <1>1, <2>1, <2>5 DEF Verdicts, BootChanged
    <3> QED
      BY <1>2, <1>3, <1>5, <2>1, <2>2, <2>5, <3>1
  <2> QED
    BY <1>3, <2>3, <2>4, <2>5 DEF SnapType
<1> QED
  BY <1>4, <1>5

MonitorInv == EpochInv /\ GapInv /\ LogInv

\* A step that is not the monitor's leaves what its invariant is about.
LEMMA MonitorFrame ==
    ASSUME HealthTypes, MonitorInv, monitor' = monitor,
           met'.boot = met.boot, met'.changes = met.changes, met'.blurred = met.blurred
    PROVE  MonitorInv'
BY DEF MonitorInv, EpochInv, GapInv, LogInv

LEMMA Parity ==
    ASSUME NEW n \in Nat, NEW m, m = n + 1 PROVE m % 2 = 1 <=> ~ (n % 2 = 1)
OBVIOUS

\* An entry that alternates with the last one keeps the log alternating.
LEMMA LogGrows ==
    ASSUME MonitorInv, HealthTypes, NEW kind,
           kind = IF monitor.gap THEN "recovered" ELSE "gap",
           monitor'.log = Append(monitor.log, kind), monitor'.gap = ~monitor.gap
    PROVE  LogInv'
<1> DEFINE n == Len(monitor.log)
<1>1. n \in Nat /\ monitor.log \in LogType
  BY LenProperties DEF HealthTypes, MonitorType, LogType
<1>2. kind \in {"gap", "recovered"}
  OBVIOUS
<1>3. /\ monitor'.log \in LogType /\ Len(monitor'.log) = n + 1
      /\ \A i \in 1..n : monitor'.log[i] = monitor.log[i]
      /\ monitor'.log[n + 1] = kind
  BY <1>1, <1>2, AppendProperties DEF LogType
<1>8. (n + 1) % 2 = 1 <=> ~ (n % 2 = 1)
  BY <1>1, Parity
<1>9. monitor.gap <=> n % 2 = 1
  BY DEF MonitorInv, LogInv
<1>4. kind = IF (n + 1) % 2 = 1 THEN "gap" ELSE "recovered"
  BY <1>8, <1>9
<1>5. \A i \in 1..n : monitor.log[i] = IF i % 2 = 1 THEN "gap" ELSE "recovered"
  BY DEF MonitorInv, LogInv
<1>6. \A i \in 1..(n + 1) : monitor'.log[i] = IF i % 2 = 1 THEN "gap" ELSE "recovered"
  <2> TAKE i \in 1..(n + 1)
  <2>1. CASE i = n + 1
    BY <1>3, <1>4, <2>1
  <2>2. CASE i \in 1..n
    BY <1>3, <1>5, <2>2
  <2>3. i = n + 1 \/ i \in 1..n
    <3> HIDE DEF n
    <3> QED
      BY <1>1
  <2> QED
    BY <2>1, <2>2, <2>3
<1>7. monitor'.log = [i \in 1..(n + 1) |-> IF i % 2 = 1 THEN "gap" ELSE "recovered"]
  <2>1. monitor'.log = [i \in 1..Len(monitor'.log) |-> monitor'.log[i]]
    BY <1>3 DEF LogType
  <2> HIDE DEF n
  <2> QED
    BY <1>3, <1>6, <2>1
<1>10. Len(monitor'.log) % 2 = 1 <=> ~monitor.gap
  <2>1. Len(monitor'.log) = n + 1
    BY <1>3
  <2>2. Len(monitor'.log) % 2 = 1 <=> ~ (n % 2 = 1)
    BY <1>1, <2>1, Parity
  <2> QED
    BY <1>9, <2>2, Zenon
<1>11. monitor'.log = [i \in 1..Len(monitor'.log) |-> IF i % 2 = 1 THEN "gap" ELSE "recovered"]
  BY <1>3, <1>7
<1>12. monitor'.gap <=> ~monitor.gap
  BY Zenon
<1> QED
  BY <1>10, <1>11, <1>12, Zenon DEF LogInv

LEMMA MonitorStep ==
    ASSUME HealthTypes, MonitorInv, [HealthNext]_healthVars PROVE MonitorInv'
<1>0. /\ monitor.last \in SnapType /\ monitor.pc \in MonitorPcs /\ monitor.epoch \in Nat
      /\ monitor.gap \in BOOLEAN /\ monitor.reboot \in BOOLEAN
      /\ met.boot \in Nat /\ met.changes \in Nat /\ met.blurred \in BOOLEAN
      /\ device.boot \in Nat \ {0} /\ device.readable \in BOOLEAN
  BY DEF HealthTypes, MonitorType, MetType, DeviceType
<1>1. CASE Poll
  <2> DEFINE last == monitor.last  snap == monitor'.last
  <2>1. /\ monitor.pc = "idle" /\ snap \in SnapType
        /\ monitor'.gap = monitor.gap /\ monitor'.epoch = monitor.epoch
        /\ monitor'.log = monitor.log
        /\ ~device.online =>
              /\ snap.state = "offline" /\ snap.boot = last.boot /\ met' = met
              /\ monitor'.pc = IF last.state = "online" THEN "begin" ELSE "idle"
              /\ monitor'.reboot = FALSE
        /\ device.online =>
              /\ snap.state = "online" /\ snap.boot = IF device.readable THEN device.boot ELSE 0
              /\ met'.boot = device.boot /\ met'.unsettled = met.unsettled
              /\ met'.changes = met.changes + (IF met.boot \notin {0, device.boot} THEN 1 ELSE 0)
              /\ met'.blurred <=> met.blurred \/ ~device.readable
              /\ last.state = "none" => monitor'.pc = "idle" /\ monitor'.reboot = FALSE
              /\ last.state = "offline" =>
                    monitor'.pc = "end" /\ monitor'.reboot = BootChanged(last, snap)
              /\ last.state = "online" =>
                    /\ monitor'.pc = IF monitor'.reboot THEN "begin" ELSE "idle"
                    /\ last.boot # 0 /\ snap.boot # 0 =>
                          monitor'.reboot = (last.boot # snap.boot)
    BY <1>1, PollFields
  <2>2. ~monitor.reboot /\ (monitor.gap <=> (last.state = "offline" /\ met.boot # 0))
    BY <2>1 DEF MonitorInv, EpochInv, GapInv
  <2>3. last.state = "none" => met.boot = 0 /\ last.boot = 0
    BY DEF MonitorInv, GapInv
  <2>4. last.state = "online" => met.boot # 0
    BY DEF MonitorInv, GapInv
  <2>5. ~met.blurred => last.boot = met.boot /\ met.changes = monitor.epoch
    BY <1>0, <2>2 DEF MonitorInv, EpochInv
  <2>6. EpochInv'
    <3>1. CASE ~device.online
      BY <1>0, <2>1, <2>5, <3>1 DEF EpochInv
    <3>2. CASE device.online /\ last.state = "none"
      BY <1>0, <2>1, <2>3, <2>5, <3>2 DEF EpochInv
    <3>3. CASE device.online /\ last.state = "offline"
      BY <1>0, <2>1, <2>5, <3>3 DEF EpochInv, BootChanged
    <3>4. CASE device.online /\ last.state = "online"
      <4>1. monitor'.pc = "idle" => ~monitor'.reboot
        BY <2>1, <3>4
      <4>2. ASSUME ~met'.blurred
            PROVE  /\ snap.boot = met'.boot
                   /\ met'.changes = monitor'.epoch + (IF monitor'.reboot THEN 1 ELSE 0)
        <5>1. ~met.blurred /\ device.readable
          BY <2>1, <3>4, <4>2
        <5> QED
          BY <1>0, <2>1, <2>4, <2>5, <3>4, <5>1
      <4> QED
        BY <4>1, <4>2 DEF EpochInv
    <3> QED
      BY <1>0, <3>1, <3>2, <3>3, <3>4 DEF SnapType
  <2>7. GapInv'
    <3>1. CASE ~device.online
      BY <1>0, <2>1, <2>2, <2>3, <2>4, <3>1 DEF GapInv, SnapType
    <3>2. CASE device.online /\ last.state = "none"
      BY <1>0, <2>1, <2>2, <2>3, <3>2 DEF GapInv, SnapType
    <3>3. CASE device.online /\ last.state = "offline"
      BY <1>0, <2>1, <2>2, <3>3 DEF GapInv, SnapType
    <3>4. CASE device.online /\ last.state = "online"
      BY <1>0, <2>1, <2>2, <3>4 DEF GapInv, SnapType
    <3> QED
      BY <1>0, <3>1, <3>2, <3>3, <3>4 DEF SnapType
  <2>8. LogInv'
    BY <2>1 DEF MonitorInv, LogInv
  <2> QED
    BY <2>6, <2>7, <2>8 DEF MonitorInv
<1>2. CASE BeginGap
  <2>1. monitor.pc = "begin" /\ ~monitor.gap /\ met' = met
    BY <1>2 DEF BeginGap, MonitorInv, GapInv
  <2>2. /\ monitor'.pc = "test" /\ monitor'.gap = TRUE /\ monitor'.log = Append(monitor.log, "gap")
        /\ monitor'.last = monitor.last /\ monitor'.epoch = monitor.epoch
        /\ monitor'.reboot = monitor.reboot
    BY <1>2, <2>1 DEF BeginGap, HealthTypes, MonitorType
  <2>3. LogInv'
    BY <2>1, <2>2, LogGrows
  <2> QED
    BY <2>1, <2>2, <2>3 DEF MonitorInv, EpochInv, GapInv
<1>3. CASE EndGap
  <2>1. monitor.pc = "end" /\ met' = met
    BY <1>3 DEF EndGap
  <2>2. /\ monitor'.last = monitor.last /\ monitor'.epoch = monitor.epoch
        /\ monitor'.reboot = monitor.reboot /\ monitor'.gap = FALSE
        /\ monitor'.pc \in {"recover", "epoch"}
        /\ monitor'.log = IF monitor.gap THEN Append(monitor.log, "recovered") ELSE monitor.log
    BY <1>0, <1>3 DEF EndGap, HealthTypes, MonitorType
  <2>3. LogInv'
    <3>1. CASE monitor.gap
      BY <2>2, <3>1, LogGrows
    <3>2. CASE ~monitor.gap
      BY <2>2, <3>2 DEF MonitorInv, LogInv
    <3> QED
      BY <3>1, <3>2
  <2> QED
    BY <2>1, <2>2, <2>3 DEF MonitorInv, EpochInv, GapInv
<1>4. CASE GapTest \/ GapStop \/ RecoverTest \/ RecoverStart \/ MonitorEnds
  <2>1. /\ monitor'.last = monitor.last /\ monitor'.epoch = monitor.epoch
        /\ monitor'.reboot = monitor.reboot /\ monitor'.gap = monitor.gap
        /\ monitor'.log = monitor.log
        /\ met'.boot = met.boot /\ met'.changes = met.changes /\ met'.blurred = met.blurred
    BY <1>4 DEF GapTest, GapStop, RecoverTest, RecoverStart, MonitorEnds, HealthTypes,
       MonitorType, MetType
  <2>2. \/ monitor.pc \in {"test", "stop"} /\ monitor'.pc \in {"stop", "died"}
        \/ /\ monitor.pc \in {"test", "stop"}
           /\ monitor'.pc = IF monitor.reboot THEN "end" ELSE "idle"
        \/ monitor.pc \in {"recover", "start"} /\ monitor'.pc \in {"epoch", "start"}
        \/ monitor.pc = "idle" /\ monitor'.pc = "ended"
    BY <1>4 DEF GapTest, GapStop, RecoverTest, RecoverStart, MonitorEnds, HealthTypes,
       MonitorType
  <2>3. EpochInv'
    BY <1>0, <2>1, <2>2 DEF MonitorInv, EpochInv
  <2>4. GapInv'
    BY <1>0, <2>1, <2>2 DEF MonitorInv, GapInv
  <2>5. LogInv'
    BY <2>1 DEF MonitorInv, LogInv
  <2> QED
    BY <2>3, <2>4, <2>5 DEF MonitorInv
<1>5. CASE Epoch
  <2>1. /\ monitor.pc = "epoch" /\ monitor'.pc = "idle" /\ met' = met
        /\ monitor'.last = monitor.last /\ monitor'.gap = monitor.gap
        /\ monitor'.log = monitor.log /\ monitor'.reboot = FALSE
        /\ monitor'.epoch = monitor.epoch + (IF monitor.reboot THEN 1 ELSE 0)
    BY <1>5 DEF Epoch, HealthTypes, MonitorType
  <2>2. EpochInv'
    BY <1>0, <2>1 DEF MonitorInv, EpochInv
  <2>3. GapInv' /\ LogInv'
    BY <1>0, <2>1 DEF MonitorInv, GapInv, LogInv
  <2> QED
    BY <2>2, <2>3 DEF MonitorInv
<1>6. CASE DeviceFails \/ DeviceReturns \/ StopBegins \/ StopTest \/ StopStream \/ StopJoins
           \/ UNCHANGED healthVars
           \/ \E i \in DOMAIN readers :
                 ReaderCreates(i) \/ ReaderReads(i) \/ ReaderLeaves(i) \/ ReaderCloses(i)
  <2>1. monitor' = monitor
    BY <1>6 DEF DeviceFails, DeviceReturns, StopBegins, StopTest, StopStream, StopJoins,
       healthVars, ReaderCreates, ReaderReads, ReaderLeaves, ReaderCloses
  <2>2. met'.boot = met.boot /\ met'.changes = met.changes /\ met'.blurred = met.blurred
    BY <1>6 DEF DeviceFails, DeviceReturns, StopBegins, StopTest, StopStream, StopJoins,
       healthVars, ReaderCreates, ReaderReads, ReaderLeaves, ReaderCloses, HealthTypes, MetType
  <2> QED
    BY <2>1, <2>2, MonitorFrame
<1> QED
  BY <1>1, <1>2, <1>3, <1>4, <1>5, <1>6 DEF HealthNext

-----------------------------------------------------------------------------
(* The logcat threads *)

\* Only the newest thread has not ended, and what it does is its own.
LEMMA NewestMoves ==
    ASSUME HealthTypes, ReaderInv, NEW i \in DOMAIN readers,
           ReaderCreates(i) \/ ReaderReads(i) \/ ReaderLeaves(i) \/ ReaderCloses(i)
    PROVE  /\ monitor' = monitor /\ poolStop' = poolStop /\ stopped' = stopped /\ met' = met
           /\ Newest' = Newest /\ \A j \in 1..Newest : j < Newest => readers'[j] = readers[j]
           /\ \/ /\ readers[Newest].pc = "starting" /\ readers'[Newest].pc = "created"
                 /\ current' = Newest
              \/ /\ readers[Newest].pc = "created" /\ readers'[Newest].pc = "reading"
                 /\ readers'[Newest].stream = Newest /\ current' = current
              \/ /\ readers[Newest].pc = "reading" /\ readers'[Newest].pc = "closing"
                 /\ readers'[Newest].stream = readers[Newest].stream /\ current' = current
                 /\ Newest \in stopped \/ poolStop.global
              \/ /\ readers[Newest].pc = "closing" /\ readers'[Newest].pc = "ended"
                 /\ current' = 0
<1>0. Newest \in 1..Newest /\ \A j \in 1..Newest : readers[j] \in ReaderType
  BY ElementOfSeq, LenProperties DEF HealthTypes, ReaderInv, Newest
<1>1. i = Newest
  <2>1. i \in 1..Newest /\ readers[i].pc # "ended"
    BY DEF ReaderCreates, ReaderReads, ReaderLeaves, ReaderCloses, Reader, HealthTypes, Newest
  <2> QED
    BY <1>0, <2>1 DEF ReaderInv
<1>2. ASSUME NEW r \in ReaderType, readers' = [readers EXCEPT ![i] = r]
      PROVE  /\ Newest' = Newest /\ readers'[Newest] = r
             /\ \A j \in 1..Newest : j < Newest => readers'[j] = readers[j]
  BY <1>0, <1>1, <1>2, ExceptSeq DEF HealthTypes, Newest
<1>3. readers[i] \in ReaderType
  BY <1>0, <1>1
<1>4. CASE ReaderCreates(i)
  <2>1. /\ readers[i].pc = "starting" /\ readers' = [readers EXCEPT ![i] = [readers[i] EXCEPT !.pc = "created"]]
        /\ [readers[i] EXCEPT !.pc = "created"] \in ReaderType
    BY <1>3, <1>4 DEF ReaderCreates, Reader, ReaderType
  <2> QED
    BY <1>1, <1>2, <1>3, <1>4, <2>1 DEF ReaderCreates, ReaderType
<1>5. CASE ReaderReads(i)
  <2>1. current = Newest /\ readers[i].pc = "created" /\ Newest # 0 /\ current \in Nat
    BY <1>0, <1>1, <1>5 DEF ReaderReads, ReaderInv, HealthTypes
  <2>2. /\ readers' = [readers EXCEPT ![i] = [pc |-> "reading", stream |-> current]]
        /\ [pc |-> "reading", stream |-> current] \in ReaderType
    BY <1>5, <2>1 DEF ReaderReads, ReaderType
  <2>3. /\ Newest' = Newest /\ \A j \in 1..Newest : j < Newest => readers'[j] = readers[j]
        /\ readers'[Newest].pc = "reading" /\ readers'[Newest].stream = Newest
    <3>1. PICK r \in ReaderType :
             readers' = [readers EXCEPT ![i] = r] /\ r.pc = "reading" /\ r.stream = current
      BY <2>2
    <3>2. /\ Newest' = Newest /\ readers'[Newest] = r
          /\ \A j \in 1..Newest : j < Newest => readers'[j] = readers[j]
      BY <1>2, <3>1
    <3> QED
      BY <2>1, <3>1, <3>2
  <2> QED
    BY <1>1, <1>5, <2>1, <2>3 DEF ReaderReads
<1>6. CASE ReaderLeaves(i)
  <2>1. /\ readers[i].pc = "reading" /\ readers' = [readers EXCEPT ![i] = [readers[i] EXCEPT !.pc = "closing"]]
        /\ [readers[i] EXCEPT !.pc = "closing"] \in ReaderType
    BY <1>3, <1>6 DEF ReaderLeaves, Reader, ReaderType
  <2>2. readers[i].stream = Newest
    BY <1>1, <2>1 DEF ReaderInv
  <2> QED
    BY <1>1, <1>2, <1>3, <1>6, <2>1, <2>2 DEF ReaderLeaves, ReaderType
<1>7. CASE ReaderCloses(i)
  <2>1. /\ readers[i].pc = "closing" /\ readers' = [readers EXCEPT ![i] = [pc |-> "ended", stream |-> 0]]
        /\ [pc |-> "ended", stream |-> 0] \in ReaderType
    BY <1>7 DEF ReaderCloses, ReaderType
  <2>2. /\ Newest' = Newest /\ \A j \in 1..Newest : j < Newest => readers'[j] = readers[j]
        /\ readers'[Newest].pc = "ended"
    <3>1. PICK r \in ReaderType : readers' = [readers EXCEPT ![i] = r] /\ r.pc = "ended"
      BY <2>1
    <3>2. /\ Newest' = Newest /\ readers'[Newest] = r
          /\ \A j \in 1..Newest : j < Newest => readers'[j] = readers[j]
      BY <1>2, <3>1
    <3> QED
      BY <3>1, <3>2
  <2> QED
    BY <1>1, <1>7, <2>1, <2>2 DEF ReaderCloses
<1> QED
  BY <1>4, <1>5, <1>6, <1>7

LEMMA StartingMeansNewest ==
    ASSUME HealthTypes, ReaderInv, ~Starting
    PROVE  readers[Newest].pc \notin {"starting", "created"}
BY LenProperties DEF HealthTypes, ReaderInv, Newest, Starting

LEMMA ReaderStep ==
    ASSUME HealthTypes, MonitorInv, ReaderInv, [HealthNext]_healthVars, ~met'.unsettled
    PROVE  ReaderInv'
<1>0. /\ monitor.pc \in MonitorPcs /\ monitor.gap \in BOOLEAN /\ monitor.reboot \in BOOLEAN
      /\ Newest \in Nat /\ \A j \in 1..Newest : readers[j] \in ReaderType
      /\ poolStop \in PoolStopType /\ readers[Newest] \in ReaderType
  BY ElementOfSeq, LenProperties DEF HealthTypes, MonitorType, ReaderInv, Newest
<1>1. CASE DeviceFails \/ DeviceReturns \/ UNCHANGED healthVars
  BY <1>1 DEF DeviceFails, DeviceReturns, healthVars, ReaderInv, Newest, Quiet
<1>2. CASE Poll
  <2>1. /\ monitor.pc = "idle" /\ monitor'.gap = monitor.gap
        /\ monitor'.pc \in {"idle", "begin", "end"}
    BY <1>2, PollFields DEF HealthTypes, MonitorType, SnapType
  <2>2. UNCHANGED <<readers, current, stopped, poolStop>>
    BY <1>2 DEF Poll
  <2> QED
    BY <2>1, <2>2 DEF ReaderInv, Newest, Quiet
<1>3. CASE BeginGap
  <2>1. monitor.pc = "begin" /\ ~monitor.gap
    BY <1>3 DEF BeginGap, MonitorInv, GapInv
  <2>2. /\ monitor'.pc = "test" /\ monitor'.gap = TRUE
        /\ UNCHANGED <<readers, current, stopped>>
        /\ poolStop'.pc = poolStop.pc /\ (poolStop.global => poolStop'.global)
    BY <1>3, <2>1 DEF BeginGap, HealthTypes, MonitorType, PoolStopType
  <2> QED
    BY <2>1, <2>2 DEF ReaderInv, Newest, Quiet
<1>4. CASE GapTest
  <2>1. ~Starting /\ monitor.pc = "test" /\ UNCHANGED <<readers, current, stopped, poolStop>>
    BY <1>4 DEF GapTest, HealthTypes, MetType
  <2>2. readers[Newest].pc \notin {"starting", "created"}
    BY <2>1, StartingMeansNewest
  <2>3. monitor'.gap = monitor.gap /\ monitor.gap
        /\ monitor'.pc = IF current # 0 THEN "stop" ELSE IF monitor.reboot THEN "end" ELSE "idle"
    BY <1>4, <2>1 DEF GapTest, MonitorInv, GapInv, HealthTypes, MonitorType
  <2> QED
    BY <1>0, <2>1, <2>2, <2>3 DEF ReaderInv, Newest, Quiet, ReaderType
<1>5. CASE GapStop
  <2>1. /\ monitor.pc = "stop" /\ UNCHANGED <<readers, current, poolStop>>
        /\ stopped' = stopped \cup ({current} \ {0})
    BY <1>5 DEF GapStop
  <2>2. monitor'.gap = monitor.gap /\ monitor.gap
        /\ monitor'.pc = IF current = 0 THEN "died" ELSE IF monitor.reboot THEN "end" ELSE "idle"
    BY <1>5, <2>1 DEF GapStop, MonitorInv, GapInv, HealthTypes, MonitorType
  <2>3. readers[Newest].pc \notin {"starting", "created"}
    BY <2>1 DEF ReaderInv
  <2>4. current = 0 => readers[Newest].pc = "ended"
    BY <1>0, <2>3 DEF ReaderInv
  <2>5. current # 0 => current = Newest
    BY DEF ReaderInv
  <2>6. Quiet' /\ Newest' = Newest
    BY <1>0, <2>1, <2>3, <2>4, <2>5 DEF Newest, Quiet, ReaderType
  <2>7. poolStop.global \/ current # 0
    BY <2>1, <2>3, <2>4 DEF ReaderInv, Quiet
  <2>8. stopped' \subseteq 1..Newest
    BY <1>0, <2>1, <2>5 DEF ReaderInv
  <2> QED
    BY <1>0, <2>1, <2>2, <2>3, <2>6, <2>7, <2>8 DEF ReaderInv
<1>6. CASE EndGap
  <2>1. /\ monitor.pc = "end" /\ UNCHANGED <<readers, current, stopped, poolStop>>
        /\ monitor'.gap = FALSE
        /\ monitor'.pc = IF monitor.gap THEN "recover" ELSE "epoch"
    BY <1>0, <1>6 DEF EndGap, HealthTypes, MonitorType
  <2> QED
    BY <1>0, <2>1 DEF ReaderInv, Newest, Quiet
<1>7. CASE RecoverTest
  <2>1. /\ monitor.pc = "recover" /\ UNCHANGED <<readers, current, stopped, poolStop>>
        /\ monitor'.gap = monitor.gap /\ ~monitor.gap
        /\ monitor'.pc = IF poolStop.global THEN "epoch" ELSE "start"
    BY <1>7 DEF RecoverTest, HealthTypes, MonitorType, MonitorInv, GapInv
  <2> QED
    BY <1>0, <2>1 DEF ReaderInv, Newest, Quiet
<1>8. CASE RecoverStart
  <2>1. /\ monitor.pc = "start" /\ UNCHANGED <<current, stopped, poolStop>>
        /\ monitor'.gap = monitor.gap /\ ~monitor.gap /\ monitor'.pc = "epoch"
        /\ readers' = Append(readers, [pc |-> "starting", stream |-> 0])
    BY <1>8 DEF RecoverStart, HealthTypes, MonitorType, MonitorInv, GapInv
  <2>2. ~poolStop.global /\ \A i \in DOMAIN readers : readers[i].pc = "ended"
    BY <1>8 DEF RecoverStart, HealthTypes, MetType
  <2>3. [pc |-> "starting", stream |-> 0] \in ReaderType
    BY DEF ReaderType
  <2>4. /\ Newest' = Newest + 1 /\ readers'[Newest + 1] = [pc |-> "starting", stream |-> 0]
        /\ \A j \in 1..Newest : readers'[j] = readers[j]
    BY <2>1, <2>3, AppendProperties DEF HealthTypes, Newest
  <2>5. \A j \in 1..Newest : readers[j].pc = "ended"
    BY <2>2 DEF HealthTypes, Newest
  <2>6. current = 0 /\ stopped \subseteq 1..Newest
    BY <1>0, <2>5 DEF ReaderInv
  <2>7. readers'[Newest'].pc = "starting" /\ Newest' \notin stopped' /\ ~Quiet'
    <3>1. readers'[Newest'].pc = "starting"
      BY <2>4
    <3>2. Newest' \notin stopped'
      BY <1>0, <2>1, <2>4, <2>6
    <3> QED
      BY <3>1, <3>2 DEF Quiet
  <2>8. \A j \in 1..Newest' : j < Newest' => readers'[j].pc = "ended"
    BY <1>0, <2>4, <2>5
  <2>9. stopped' \subseteq 1..Newest' /\ Newest' > 0
    BY <1>0, <2>1, <2>4, <2>6
  <2> QED
    BY <1>0, <2>1, <2>2, <2>6, <2>7, <2>8, <2>9 DEF ReaderInv
<1>9. CASE Epoch \/ MonitorEnds
  <2>1. /\ UNCHANGED <<readers, current, stopped, poolStop>> /\ monitor'.gap = monitor.gap
        /\ \/ monitor.pc = "epoch" /\ ~monitor.gap /\ monitor'.pc = "idle"
           \/ monitor.pc = "idle" /\ monitor'.pc = "ended"
    BY <1>9 DEF Epoch, MonitorEnds, HealthTypes, MonitorType, MonitorInv, GapInv
  <2> QED
    BY <2>1 DEF ReaderInv, Newest, Quiet
<1>10. CASE \E i \in DOMAIN readers :
               ReaderCreates(i) \/ ReaderReads(i) \/ ReaderLeaves(i) \/ ReaderCloses(i)
  <2>1. /\ monitor' = monitor /\ poolStop' = poolStop /\ stopped' = stopped
        /\ Newest' = Newest /\ \A j \in 1..Newest : j < Newest => readers'[j] = readers[j]
        /\ \/ /\ readers[Newest].pc = "starting" /\ readers'[Newest].pc = "created"
              /\ current' = Newest
           \/ /\ readers[Newest].pc = "created" /\ readers'[Newest].pc = "reading"
              /\ readers'[Newest].stream = Newest /\ current' = current
           \/ /\ readers[Newest].pc = "reading" /\ readers'[Newest].pc = "closing"
              /\ readers'[Newest].stream = readers[Newest].stream /\ current' = current
              /\ Newest \in stopped \/ poolStop.global
           \/ /\ readers[Newest].pc = "closing" /\ readers'[Newest].pc = "ended"
              /\ current' = 0
    BY <1>10, NewestMoves
  <2>2. Quiet => Quiet'
    BY <2>1 DEF Quiet
  <2>3. ~poolStop.global /\ Quiet' => Quiet
    <3>1. readers[Newest].pc \in {"starting", "created"} => Newest \notin stopped
      BY DEF ReaderInv
    <3> QED
      BY <2>1, <3>1 DEF Quiet
  <2>4. \A j \in 1..Newest' : j < Newest' => readers'[j].pc = "ended"
    BY <2>1 DEF ReaderInv
  <2> QED
    BY <1>0, <2>1, <2>2, <2>3, <2>4 DEF ReaderInv
<1>11. CASE StopBegins
  <2>1. /\ poolStop'.pc = "test" /\ poolStop'.global = TRUE
        /\ UNCHANGED <<monitor, readers, current, stopped>>
    BY <1>11 DEF StopBegins, HealthTypes, PoolStopType
  <2> QED
    BY <2>1 DEF ReaderInv, Newest, Quiet
<1>12. CASE StopTest
  <2>1. ~Starting /\ poolStop.pc = "test" /\ UNCHANGED <<readers, current, stopped, monitor>>
        /\ poolStop'.pc = (IF current # 0 THEN "stop" ELSE "joining")
        /\ poolStop'.global = poolStop.global
    BY <1>12 DEF StopTest, HealthTypes, MetType, PoolStopType
  <2>2. readers[Newest].pc \notin {"starting", "created"}
    BY <2>1, StartingMeansNewest
  <2> QED
    BY <1>0, <2>1, <2>2 DEF ReaderInv, Newest, Quiet, ReaderType
<1>13. CASE StopStream
  <2>1. /\ poolStop.pc = "stop" /\ UNCHANGED <<readers, current, monitor>>
        /\ stopped' = stopped \cup ({current} \ {0})
        /\ poolStop'.pc = (IF current = 0 THEN "raised" ELSE "joining")
        /\ poolStop'.global = poolStop.global
    BY <1>13 DEF StopStream, HealthTypes, PoolStopType
  <2>2. readers[Newest].pc \notin {"starting", "created"} /\ poolStop.global
    BY <2>1 DEF ReaderInv
  <2>3. current = 0 => readers[Newest].pc = "ended"
    BY <1>0, <2>2 DEF ReaderInv
  <2>4. current # 0 => current = Newest
    BY DEF ReaderInv
  <2>5. Quiet' /\ Newest' = Newest
    BY <1>0, <2>1, <2>2, <2>3, <2>4 DEF Newest, Quiet, ReaderType
  <2>6. stopped' \subseteq 1..Newest
    BY <1>0, <2>1, <2>4 DEF ReaderInv
  <2>7. readers[Newest].pc \notin {"starting", "created"} /\ poolStop'.pc # "stop"
    BY <2>1, <2>2
  <2> QED
    BY <1>0, <2>1, <2>2, <2>5, <2>6, <2>7 DEF ReaderInv
<1>14. CASE StopJoins
  <2>1. /\ poolStop.pc = "joining" /\ poolStop'.pc = "joined" /\ poolStop'.global = poolStop.global
        /\ UNCHANGED <<readers, current, monitor, stopped>>
    BY <1>14 DEF StopJoins, HealthTypes, PoolStopType
  <2> QED
    BY <2>1 DEF ReaderInv, Newest, Quiet
<1> QED
  BY <1>1, <1>2, <1>3, <1>4, <1>5, <1>6, <1>7, <1>8, <1>9, <1>10, <1>11, <1>12, <1>13, <1>14
  DEF HealthNext

LEMMA UnsettledStays ==
    ASSUME HealthTypes, [HealthNext]_healthVars, met.unsettled PROVE met'.unsettled
<1>1. CASE Poll
  BY <1>1, PollFields DEF HealthTypes, MetType
<1>2. CASE ~Poll
  BY <1>2 DEF HealthNext, healthVars, DeviceFails, DeviceReturns, BeginGap, GapTest, GapStop,
     EndGap, RecoverTest, RecoverStart, Epoch, MonitorEnds, ReaderCreates, ReaderReads,
     ReaderLeaves, ReaderCloses, StopBegins, StopTest, StopStream, StopJoins, HealthTypes, MetType
<1> QED
  BY <1>1, <1>2

\* Reboots, gaps and readers, for any number of outages and polls: the epoch counts
\* the reboots, gaps open and close with the polls, and but for callbacks that met a
\* logcat thread in transit there is one reader outside a gap and none in it.
THEOREM ReadersFollowTheDevice == HealthSpec => []ReadersFollowDevice
<1> DEFINE HealthInv == HealthTypes /\ MonitorInv /\ (~met.unsettled => ReaderInv)
<1>1. HealthInit => HealthInv
  <2> SUFFICES ASSUME HealthInit PROVE HealthInv
    OBVIOUS
  <2>1. readers = <<[pc |-> "starting", stream |-> 0]>> /\ Newest = 1
        /\ readers[1] = [pc |-> "starting", stream |-> 0]
    BY DEF HealthInit, Newest
  <2>2. monitor \in MonitorType
    <3>1. <<>> \in LogType
      BY EmptySeq DEF LogType
    <3> QED
      BY <3>1 DEF HealthInit, MonitorType, MonitorPcs, SnapType, NoSnapshot
  <2>3. readers \in Seq(ReaderType)
    BY <2>1 DEF ReaderType
  <2>4. HealthTypes
    BY <2>2, <2>3 DEF HealthInit, HealthTypes, DeviceType, PoolStopType, MetType
  <2>5. MonitorInv
    <3>1. EpochInv /\ GapInv
      BY DEF HealthInit, EpochInv, GapInv, NoSnapshot
    <3>2. LogInv
      BY DEF HealthInit, LogInv
    <3> QED
      BY <3>1, <3>2 DEF MonitorInv
  <2>6. ReaderInv
    BY <2>1 DEF HealthInit, ReaderInv, Quiet, NoSnapshot
  <2> QED
    BY <2>4, <2>5, <2>6
<1>2. HealthInv /\ [HealthNext]_healthVars => HealthInv'
  BY HealthTypesStep, MonitorStep, ReaderStep, UnsettledStays
<1>3. HealthInv => ReadersFollowDevice
  <2> SUFFICES ASSUME HealthInv PROVE ReadersFollowDevice
    OBVIOUS
  <2>0. monitor.pc \in MonitorPcs /\ monitor.epoch \in Nat /\ Newest \in Nat
    BY LenProperties DEF HealthTypes, MonitorType, Newest
  <2>1. EpochCountsReboots
    BY <2>0 DEF EpochCountsReboots, MonitorInv, EpochInv
  <2>2. GapsMatchPolls
    BY DEF GapsMatchPolls, MonitorInv, GapInv, LogInv
  <2>3. ASSUME ~met.unsettled
        PROVE  Reading = IF Quiet THEN {} ELSE {Newest}
    <3>1. DOMAIN readers = 1..Newest
      BY DEF HealthTypes, Newest
    <3>2. \A i \in 1..Newest : i < Newest => readers[i].pc = "ended"
      BY <2>3 DEF ReaderInv
    <3>3. Newest \in 1..Newest /\ readers[Newest] \in ReaderType
      BY <2>0, <2>3, ElementOfSeq DEF ReaderInv, HealthTypes, Newest
    <3>4. Reading \subseteq {Newest}
      BY <2>0, <3>1, <3>2 DEF Reading
    <3>5. Newest \in Reading <=> ~Quiet
      BY <2>3, <3>1, <3>3 DEF Reading, Quiet, ReaderInv, ReaderType
    <3> QED
      BY <3>4, <3>5
  <2>4. OneReaderOutsideGaps
    <3> SUFFICES ASSUME monitor.pc = "idle", ~poolStop.global, ~met.unsettled
                 PROVE  Cardinality(Reading) = IF monitor.gap THEN 0 ELSE 1
      BY DEF OneReaderOutsideGaps
    <3>1. Quiet <=> monitor.gap
      BY DEF ReaderInv
    <3>2. Cardinality({}) = 0 /\ Cardinality({Newest}) = 1
      BY FS_EmptySet, FS_Singleton
    <3> QED
      BY <2>3, <3>1, <3>2
  <2>5. UnsettledIsTheOnlyHarm
    BY <2>3 DEF UnsettledIsTheOnlyHarm, ReaderInv
  <2> QED
    BY <2>1, <2>2, <2>4, <2>5 DEF ReadersFollowDevice
<1> QED
  BY <1>1, <1>2, <1>3, PTL DEF HealthSpec

-----------------------------------------------------------------------------
(* IncidentDump: types *)

BoxType == [trace : TraceType, file : DumpFiles, whole : BOOLEAN]
EntryType == {<<>>} \cup {<<e>> : e \in BoxType}
ListType == UNION {[names -> TraceType] : names \in SUBSET DumpFiles}
DumpPcs == {"idle", "list", "match", "pull", "box", "data file", "recover", "decide", "publish"}
Fallbacks == {"none", "no_confident_match", "verification_failed", "pull failed"}
DumpType == [pc : DumpPcs, zone : BOOLEAN, listed : ListType, found : DumpFiles \cup {0},
             trace : TraceType, fallback : Fallbacks, verified : BOOLEAN, entry : EntryType,
             full : BOOLEAN]
DumpTypes ==
    /\ events \in Seq(TraceType) /\ files \in [DumpFiles -> TraceType] /\ box \subseteq BoxType
    /\ writes \in [count : Nat, at : Nat]
    /\ dump \in DumpType /\ cache \subseteq [key : Kinds \X Nat, entry : EntryType]
    /\ sampled \in Nat
    /\ published \in Seq([event : TraceType, dump : DumpType, out : {"cancelled", "published"}])
    /\ dump.pc # "idle" => events # <<>>

LEMMA EventTyped ==
    ASSUME DumpTypes, events # <<>>
    PROVE  /\ event \in TraceType /\ Tail(events) \in Seq(TraceType)
           /\ event.at \in Nat /\ event.kind \in Kinds
<1>1. event \in TraceType /\ Tail(events) \in Seq(TraceType)
  BY HeadTailProperties DEF DumpTypes, event
<1> QED
  BY <1>1 DEF TraceType

LEMMA IdleTyped == Idle \in DumpType
<1>1. <<>> \in ListType
  <2>1. <<>> \in [{} -> TraceType]
    OBVIOUS
  <2> QED
    BY <2>1 DEF ListType
<1>2. NoTrace \in TraceType
  BY DEF NoTrace, TraceType, Kinds
<1> QED
  BY <1>1, <1>2 DEF Idle, DumpType, DumpPcs, EntryType, Fallbacks

\* What a pull leaves, apart from where it goes on.
PullOutcome(f, pc, pcOtherwise) ==
    \/ \E t \in TraceType :
         /\ files[f] # NoTrace /\ Verified(t) /\ t.at = files[f].at
         /\ t.kind = files[f].kind
         /\ dump' = [dump EXCEPT !.pc = pc, !.trace = t, !.verified = TRUE, !.fallback = "none"]
    \/ \E fallback \in {"verification_failed", "pull failed"} :
         dump' = [dump EXCEPT !.pc = pcOtherwise, !.fallback = fallback,
                              !.verified = (IF fallback = "pull failed"
                                            THEN dump.verified ELSE FALSE)]

LEMMA PullEffect ==
    ASSUME DumpTypes, NEW f \in DumpFiles, NEW pc, NEW pcOtherwise, Pulled(f, pc, pcOtherwise)
    PROVE  PullOutcome(f, pc, pcOtherwise)
<1> USE DEF PullOutcome
<1>1. CASE dump' = [dump EXCEPT !.pc = pcOtherwise, !.fallback = "pull failed"]
  <2>1. dump' = [dump EXCEPT !.pc = pcOtherwise, !.fallback = "pull failed",
                             !.verified = dump.verified]
    BY <1>1 DEF DumpTypes, DumpType
  <2> QED
    BY <2>1
<1>2. CASE \E t \in {files[f], [files[f] EXCEPT !.pid = 0, !.proc = ""]} :
              /\ files[f] # NoTrace
              /\ dump' = IF Verified(t)
                   THEN [dump EXCEPT !.pc = pc, !.trace = t, !.verified = TRUE, !.fallback = "none"]
                   ELSE [dump EXCEPT !.pc = pcOtherwise, !.verified = FALSE,
                                     !.fallback = "verification_failed"]
  <2>1. PICK t \in {files[f], [files[f] EXCEPT !.pid = 0, !.proc = ""]} :
              /\ files[f] # NoTrace
              /\ dump' = IF Verified(t)
                   THEN [dump EXCEPT !.pc = pc, !.trace = t, !.verified = TRUE, !.fallback = "none"]
                   ELSE [dump EXCEPT !.pc = pcOtherwise, !.verified = FALSE,
                                     !.fallback = "verification_failed"]
    BY <1>2
  <2>2. files[f] \in TraceType
    BY DEF DumpTypes
  <2> DEFINE file == files[f]
  <2> HIDE DEF file
  <2>a. file \in TraceType /\ t \in {file, [file EXCEPT !.pid = 0, !.proc = ""]}
    BY <2>1, <2>2 DEF file
  <2>b. t \in TraceType /\ t.at = file.at /\ t.kind = file.kind
    <3>1. CASE t = file
      BY <2>a, <3>1
    <3>2. CASE t = [file EXCEPT !.pid = 0, !.proc = ""]
      <4>1. t \in TraceType
        BY <2>a, <3>2 DEF TraceType
      <4> QED
        BY <2>a, <3>2, <4>1 DEF TraceType
    <3> QED
      BY <2>a, <3>1, <3>2
  <2>3. t \in TraceType /\ t.at = files[f].at /\ t.kind = files[f].kind
    BY <2>b DEF file
  <2>4. CASE Verified(t)
    BY <2>1, <2>3, <2>4
  <2>5. CASE ~Verified(t)
    <3>1. dump' = [dump EXCEPT !.pc = pcOtherwise, !.fallback = "verification_failed",
                               !.verified = FALSE]
      BY <2>1, <2>5
    <3> QED
      BY <3>1
  <2> QED
    BY <2>4, <2>5
<1> QED
  BY <1>1, <1>2 DEF Pulled

\* The best candidate is one of the candidates, and scores enough.
LEMMA BestScores ==
    ASSUME DumpTypes, events # <<>>, NEW cands \in ListType
    PROVE  /\ Best(cands) \in DumpFiles \cup {0}
           /\ Best(cands) # 0 =>
                 Best(cands) \in DOMAIN cands /\ Score(cands[Best(cands)]) >= Threshold
<1> DEFINE scores == {Score(cands[f]) : f \in DOMAIN cands}
           top == Max(scores)
           best == {f \in DOMAIN cands : Score(cands[f]) = top}
<1>1. DOMAIN cands \subseteq DumpFiles /\ \A f \in DOMAIN cands : cands[f] \in TraceType
  BY DEF ListType
<1>2. \A c \in TraceType : Score(c) \in Int
  BY DEF Score, If
<1>3. IsFiniteSet(DOMAIN cands)
  BY <1>1, FS_Subset, DumpAssumption DEF DumpAssumption
<1>4. IsFiniteSet(scores) /\ scores \subseteq Int
  <2> DEFINE score == [f \in DOMAIN cands |-> Score(cands[f])]
  <2>1. score \in Surjection(DOMAIN cands, scores)
    BY DEF Surjection
  <2> HIDE DEF score
  <2>2. IsFiniteSet(scores)
    BY <1>3, <2>1, FS_Surjection
  <2> QED
    BY <1>1, <1>2, <2>2
<1>5. CASE DOMAIN cands = {} \/ top < Threshold
  BY <1>5 DEF Best
<1>6. CASE DOMAIN cands # {} /\ ~ (top < Threshold)
  <2>1. Best(cands) = Min(best)
    BY <1>6 DEF Best
  <2>2. scores # {}
    BY <1>6
  <2>3. top \in scores
    BY <1>4, <2>2, FiniteMax
  <2>4. best # {} /\ IsFiniteSet(best) /\ best \subseteq Int
    <3>1. best # {}
      BY <2>3
    <3>2. best \subseteq DOMAIN cands
      OBVIOUS
    <3>3. DumpFiles \subseteq Int
      BY DumpAssumption DEF DumpAssumption
    <3> QED
      BY <1>1, <1>3, <3>1, <3>2, <3>3, FS_Subset
  <2>5. Min(best) \in best
    BY <2>4, FiniteMin
  <2>6. top >= Threshold
    BY <1>4, <1>6, <2>3 DEF Threshold
  <2> QED
    BY <1>1, <2>1, <2>5, <2>6
<1> QED
  BY <1>5, <1>6

\* A score that reaches the threshold places the file no earlier than the window.
LEMMA ScoreIsRecent ==
    ASSUME NEW c \in TraceType, event \in TraceType, Score(c) >= Threshold
    PROVE  c.at >= event.at - TimeWindow
<1>1. c.at \in Nat /\ event.at \in Nat
  BY DEF TraceType
<1> QED
  BY <1>1 DEF Score, If, Threshold, TimeWindow, NewFileSkew

LEMMA FilesKept ==
    ASSUME DumpTypes, DeviceWrites
    PROVE  \E t \in Traces, f \in DumpFiles :
              /\ t.at >= writes.at /\ t \in TraceType /\ t.kind # "none" /\ t # NoTrace
              /\ files' = files \/ files' = [files EXCEPT ![f] = t]
              /\ box' \subseteq BoxType /\ writes' \in [count : Nat, at : Nat] /\ writes'.at = t.at
<1>1. PICK t \in Traces, f \in DumpFiles, toFile \in BOOLEAN, toBox \in BOOLEAN, whole \in BOOLEAN :
         /\ t.at >= writes.at /\ writes' = [count |-> writes.count + 1, at |-> t.at]
         /\ files' = IF toFile THEN [files EXCEPT ![f] = t] ELSE files
         /\ box' = IF toBox THEN box \cup {[trace |-> t, file |-> f, whole |-> whole]} ELSE box
  BY DEF DeviceWrites
<1>2. t \in TraceType /\ t.kind # "none"
  BY DumpAssumption DEF DumpAssumption
<1>3. t # NoTrace /\ t.at \in Nat
  <2>1. NoTrace.kind = "none"
    BY DEF NoTrace
  <2> QED
    BY <1>2, <2>1 DEF TraceType
<1>4. [trace |-> t, file |-> f, whole |-> whole] \in BoxType
  BY <1>2 DEF BoxType
<1>5. box' \subseteq BoxType
  BY <1>1, <1>4 DEF DumpTypes
<1>6. writes' \in [count : Nat, at : Nat] /\ writes'.at = t.at
  BY <1>1, <1>3 DEF DumpTypes
<1> QED
  BY <1>1, <1>2, <1>3, <1>5, <1>6

LEMMA BeginEffect ==
    ASSUME DumpTypes, BeginDump
    PROVE  /\ events # <<>> /\ dump.pc = "idle"
           /\ writes' \in [count : Nat, at : Nat] /\ writes'.at >= writes.at /\ writes'.at >= event.at
           /\ dump' \in DumpType
           /\ dump'.pc = IF Tracing THEN "list"
                         ELSE IF event.kind = "java_crash" THEN "box" ELSE "decide"
           /\ dump'.trace = NoTrace /\ dump'.fallback = "none" /\ dump'.verified = FALSE
           /\ dump'.entry = <<>>
<1>1. events # <<>> /\ dump.pc = "idle" /\ writes' = [writes EXCEPT !.at = Max({writes.at, event.at})]
  BY DEF BeginDump
<1>2. event.at \in Nat /\ writes.at \in Nat
  BY <1>1, EventTyped DEF DumpTypes
<1>3. Max({writes.at, event.at}) \in {writes.at, event.at}
      /\ \A y \in {writes.at, event.at} : y <= Max({writes.at, event.at})
  <2>1. IsFiniteSet({writes.at, event.at})
    <3>1. {writes.at, event.at} = {writes.at} \cup {event.at}
      OBVIOUS
    <3>2. IsFiniteSet({writes.at})
      BY FS_Singleton
    <3> QED
      BY <3>1, <3>2, FS_AddElement
  <2> HIDE DEF event
  <2> QED
    BY <1>2, <2>1, FiniteMax
<1>4. writes' \in [count : Nat, at : Nat] /\ writes'.at = Max({writes.at, event.at})
  BY <1>1, <1>2, <1>3 DEF DumpTypes
<1>5. PICK known \in BOOLEAN :
         dump' = [Idle EXCEPT !.zone = known,
                      !.pc = IF Tracing THEN "list"
                             ELSE IF event.kind = "java_crash" THEN "box" ELSE "decide"]
  BY DEF BeginDump
<1>6. dump' \in DumpType
  BY <1>5, IdleTyped DEF DumpType, DumpPcs
<1>7. Idle.trace = NoTrace /\ Idle.fallback = "none" /\ Idle.verified = FALSE /\ Idle.entry = <<>>
  BY DEF Idle
<1> QED
  BY <1>1, <1>2, <1>3, <1>4, <1>5, <1>6, <1>7, IdleTyped DEF DumpType

LEMMA ListEffect ==
    ASSUME DumpTypes, ListFiles
    PROVE  \E listed \in ListType :
              /\ dump' = [dump EXCEPT !.pc = "match", !.listed = listed]
              /\ dump.zone => \A f \in DOMAIN listed :
                                 files[f] # NoTrace /\ listed[f].at = files[f].at
<1>1. PICK allowed \in BOOLEAN :
         LET there == IF allowed THEN {f \in DumpFiles : files[f] # NoTrace} ELSE {}
             shift == IF dump.zone THEN 0 ELSE ZoneShift IN
         dump' = [dump EXCEPT !.pc = "match",
                     !.listed = [f \in there |-> [NoTrace EXCEPT !.at = files[f].at + shift]]]
  BY DEF ListFiles
<1> DEFINE there == IF allowed THEN {f \in DumpFiles : files[f] # NoTrace} ELSE {}
           shift == IF dump.zone THEN 0 ELSE ZoneShift
           listed == [f \in there |-> [NoTrace EXCEPT !.at = files[f].at + shift]]
<1>2. shift \in Nat
  BY DumpAssumption DEF DumpAssumption
<1>3. \A f \in there : f \in DumpFiles /\ files[f] # NoTrace /\ files[f].at \in Nat
  BY DEF DumpTypes, TraceType
<1>4. \A n \in Nat : [NoTrace EXCEPT !.at = n] \in TraceType /\ [NoTrace EXCEPT !.at = n].at = n
  BY DEF NoTrace, TraceType, Kinds
<1>5. \A f \in there : listed[f] \in TraceType /\ listed[f].at = files[f].at + shift
  <2> HIDE DEF shift, there
  <2> TAKE f \in there
  <2>1. files[f].at + shift \in Nat
    BY <1>2, <1>3
  <2>2. listed[f] = [NoTrace EXCEPT !.at = files[f].at + shift]
    OBVIOUS
  <2> HIDE DEF listed
  <2> QED
    BY <1>4, <2>1, <2>2
<1>6. listed \in ListType
  <2>1. there \in SUBSET DumpFiles
    OBVIOUS
  <2>2. listed \in [there -> TraceType]
    <3> HIDE DEF there, shift
    <3> QED
      BY <1>5
  <2> HIDE DEF there, listed
  <2> QED
    BY <2>1, <2>2 DEF ListType
<1>7. dump.zone => \A f \in DOMAIN listed : files[f] # NoTrace /\ listed[f].at = files[f].at
  <2>1. dump.zone => shift = 0
    OBVIOUS
  <2> HIDE DEF shift, there
  <2> QED
    BY <1>3, <1>5, <2>1
<1>8. dump' = [dump EXCEPT !.pc = "match", !.listed = listed]
  BY <1>1
<1> HIDE DEF listed
<1> QED
  BY <1>6, <1>7, <1>8

LEMMA MatchEffect ==
    ASSUME DumpTypes, events # <<>>, MatchTrace
    PROVE  \/ dump' = [dump EXCEPT !.found = 0, !.pc = "box", !.fallback = "no_confident_match"]
           \/ \E f \in DOMAIN dump.listed :
                /\ f \in DumpFiles
                /\ dump' = [dump EXCEPT !.found = f, !.pc = "pull"]
                /\ dump.listed[f].at >= event.at - TimeWindow
<1>1. PICK readable \in SUBSET DOMAIN dump.listed :
         LET cands == [f \in DOMAIN dump.listed |->
                IF f \in readable THEN [files[f] EXCEPT !.at = dump.listed[f].at]
                ELSE dump.listed[f]] IN
         dump' = [dump EXCEPT !.found = Best(cands),
                     !.pc = IF Best(cands) = 0 THEN "box" ELSE "pull",
                     !.fallback = IF Best(cands) = 0 THEN "no_confident_match" ELSE @]
  BY DEF MatchTrace
<1> DEFINE cands == [f \in DOMAIN dump.listed |->
                IF f \in readable THEN [files[f] EXCEPT !.at = dump.listed[f].at]
                ELSE dump.listed[f]]
<1>2. /\ DOMAIN dump.listed \in SUBSET DumpFiles
      /\ \A f \in DOMAIN dump.listed : dump.listed[f] \in TraceType /\ files[f] \in TraceType
  BY DEF DumpTypes, DumpType, ListType
<1>3. \A a, b \in TraceType : [a EXCEPT !.at = b.at] \in TraceType /\ [a EXCEPT !.at = b.at].at = b.at
  BY DEF TraceType
<1>4. \A f \in DOMAIN dump.listed : cands[f] \in TraceType /\ cands[f].at = dump.listed[f].at
  BY <1>2, <1>3
<1>5. cands \in ListType /\ DOMAIN cands = DOMAIN dump.listed
  <2>1. cands \in [DOMAIN dump.listed -> TraceType]
    BY <1>4
  <2>2. DOMAIN cands = DOMAIN dump.listed
    OBVIOUS
  <2> HIDE DEF cands
  <2> QED
    BY <1>2, <2>1, <2>2 DEF ListType
<1>6. dump' = [dump EXCEPT !.found = Best(cands),
                     !.pc = IF Best(cands) = 0 THEN "box" ELSE "pull",
                     !.fallback = IF Best(cands) = 0 THEN "no_confident_match" ELSE dump.fallback]
  BY <1>1
<1> HIDE DEF cands
<1>7. CASE Best(cands) = 0
  BY <1>6, <1>7
<1>8. CASE Best(cands) # 0
  <2> DEFINE f == Best(cands)
  <2>1. f \in DOMAIN cands /\ f \in DumpFiles /\ Score(cands[f]) >= Threshold
    BY <1>5, <1>8, BestScores
  <2>2. cands[f].at >= event.at - TimeWindow
    BY <1>4, <1>5, <2>1, EventTyped, ScoreIsRecent
  <2>3. dump.listed[f].at >= event.at - TimeWindow
    BY <1>4, <1>5, <2>1, <2>2
  <2>4. dump' = [dump EXCEPT !.found = f, !.pc = "pull"]
    BY <1>6, <1>8 DEF DumpTypes, DumpType
  <2> HIDE DEF f
  <2> QED
    BY <1>5, <2>1, <2>3, <2>4
<1> QED
  BY <1>7, <1>8

NearEvent(entry) ==
    entry # <<>> => /\ entry[1].trace.kind = event.kind
                    /\ entry[1].trace.at - event.at \in -TimeWindow..TimeWindow

\* An answer of the cache was the answer for its key.
CacheInv ==
    \A c \in cache : c.entry # <<>> =>
        /\ c.entry[1].trace.kind = c.key[1]
        /\ c.entry[1].trace.at - c.key[2] \in -TimeWindow..TimeWindow

\* The distance of two moments bounds their difference on both sides.
LEMMA NearMoment ==
    ASSUME NEW x \in Nat, NEW y \in Nat, (IF x > y THEN 1 ELSE -1) * (x - y) <= TimeWindow
    PROVE  x - y \in -TimeWindow..TimeWindow
<1>1. CASE x > y
  BY <1>1 DEF TimeWindow
<1>2. CASE ~ (x > y)
  <2>1. -1 * (x - y) <= TimeWindow  BY <1>2
  <2> QED BY <2>1, <1>2 DEF TimeWindow
<1> QED BY <1>1, <1>2

LEMMA FetchEffect ==
    ASSUME DumpTypes, events # <<>>, CacheInv, FetchDropbox
    PROVE  \E entry \in EntryType :
              /\ dump' = [dump EXCEPT !.entry = entry,
                        !.pc = IF ~Tracing \/ dump.trace # NoTrace \/ entry = <<>> THEN "decide"
                               ELSE IF event.kind = "anr" THEN "data file" ELSE "recover"]
              /\ NearEvent(entry)
              /\ cache' \subseteq [key : Kinds \X Nat, entry : EntryType] /\ CacheInv'
<1>1. PICK fresh \in BOOLEAN, answers \in BOOLEAN,
           found \in IF Matching = {} THEN {<<>>} ELSE {<<e>> : e \in Matching} :
         LET hit == fresh /\ \E c \in cache : c.key = Key
             entry == IF hit THEN (CHOOSE c \in cache : c.key = Key).entry
                      ELSE IF answers THEN found ELSE <<>> IN
         /\ cache' = IF hit THEN cache
                     ELSE {c \in cache : c.key # Key} \cup {[key |-> Key, entry |-> entry]}
         /\ dump' = [dump EXCEPT !.entry = entry,
                        !.pc = IF ~Tracing \/ dump.trace # NoTrace \/ entry = <<>> THEN "decide"
                               ELSE IF event.kind = "anr" THEN "data file" ELSE "recover"]
  BY DEF FetchDropbox
<1> DEFINE hit == fresh /\ \E c \in cache : c.key = Key
           entry == IF hit THEN (CHOOSE c \in cache : c.key = Key).entry
                    ELSE IF answers THEN found ELSE <<>>
<1>2. Key \in Kinds \X Nat /\ Key[1] = event.kind /\ Key[2] = event.at /\ event.at \in Nat
  BY EventTyped DEF Key
<1>3. \A e \in Matching : /\ e \in BoxType /\ e.trace.kind = event.kind
                          /\ e.trace.at - event.at \in -TimeWindow..TimeWindow
  <2> TAKE e \in Matching
  <2>1. e \in BoxType /\ e.trace.kind = event.kind /\ Delta(e) <= TimeWindow
    BY DEF Matching, DumpTypes
  <2>2. e.trace.at \in Nat
    BY <2>1 DEF BoxType, TraceType
  <2>3. (IF e.trace.at > event.at THEN 1 ELSE -1) * (e.trace.at - event.at) <= TimeWindow
    BY <2>1 DEF Delta
  <2> QED
    BY ONLY <2>1, <2>2, <2>3, <1>2, NearMoment
<1>4. found \in EntryType /\ NearEvent(found)
  BY <1>1, <1>3 DEF EntryType, NearEvent
<1>5. entry \in EntryType /\ NearEvent(entry)
  <2>1. CASE hit
    <3>1. PICK c \in cache : c.key = Key /\ entry = c.entry
      BY <2>1
    <3> QED
      BY <1>2, <3>1 DEF DumpTypes, CacheInv, NearEvent
  <2>2. CASE ~hit
    BY <1>4, <2>2 DEF EntryType, NearEvent
  <2> QED
    BY <2>1, <2>2
<1>6. cache' \subseteq [key : Kinds \X Nat, entry : EntryType] /\ CacheInv'
  <2>1. CASE hit
    BY <1>1, <2>1 DEF DumpTypes, CacheInv
  <2>2. CASE ~hit
    <3> DEFINE new == [key |-> Key, entry |-> entry]
    <3>1. cache' = {c \in cache : c.key # Key} \cup {new}
      BY <1>1, <2>2
    <3>2. new \in [key : Kinds \X Nat, entry : EntryType] /\ new.key = Key /\ new.entry = entry
      BY <1>2, <1>5
    <3> HIDE DEF new, entry
    <3>3. new.entry # <<>> =>
             /\ new.entry[1].trace.kind = new.key[1]
             /\ new.entry[1].trace.at - new.key[2] \in -TimeWindow..TimeWindow
      BY <1>2, <1>5, <3>2 DEF NearEvent
    <3> QED
      BY <3>1, <3>2, <3>3 DEF DumpTypes, CacheInv
  <2> QED
    BY <2>1, <2>2
<1>7. dump' = [dump EXCEPT !.entry = entry,
                        !.pc = IF ~Tracing \/ dump.trace # NoTrace \/ entry = <<>> THEN "decide"
                               ELSE IF event.kind = "anr" THEN "data file" ELSE "recover"]
  BY <1>1
<1> HIDE DEF entry
<1> QED
  BY <1>5, <1>6, <1>7

-----------------------------------------------------------------------------
(* IncidentDump: what each stage of a dump knows *)

OwnTrace(t) ==
    t # NoTrace => t.proc \in Own \cup {""} /\ (event.pid # 0 => t.pid \in {0, event.pid})

Explained ==
    /\ dump.trace = NoTrace <=> dump.fallback # "none"
    /\ dump.verified <=> dump.trace # NoTrace

Recent(at) == at >= event.at - TimeWindow

\* A file that was listed is what it was, or was written since the event.
ListedInv ==
    /\ dump.zone /\ dump.pc \in {"match", "pull"} =>
          \A f \in DOMAIN dump.listed :
             files[f].at = dump.listed[f].at \/ files[f].at >= event.at
    /\ dump.pc = "pull" => dump.found \in DumpFiles /\ (dump.zone => Recent(files[dump.found].at))

StageInv ==
    /\ \A f \in DumpFiles : files[f] # NoTrace => files[f].kind # "none"
    /\ dump.pc # "idle" =>
          /\ event.at <= writes.at
          /\ OwnTrace(dump.trace) /\ NearEvent(dump.entry)
          /\ dump.zone /\ dump.entry = <<>> /\ dump.trace # NoTrace => Recent(dump.trace.at)
    /\ dump.pc \in {"list", "match", "pull"} =>
          Tracing /\ dump.trace = NoTrace /\ dump.fallback = "none" /\ ~dump.verified
    /\ dump.pc \in {"list", "match", "pull", "box"} => dump.entry = <<>>
    /\ dump.pc \in {"box", "data file", "recover", "decide", "publish"} => (Tracing => Explained)
    /\ dump.pc \in {"data file", "recover"} => Tracing /\ dump.entry # <<>> /\ dump.trace = NoTrace

\* The four properties, of one incident.
IncidentSound(i) ==
    /\ i.dump.trace # NoTrace =>
          /\ i.dump.trace.proc \in Own \cup {""}
          /\ i.event.pid # 0 => i.dump.trace.pid \in {0, i.event.pid}
    /\ i.dump.trace # NoTrace /\ i.dump.zone /\ i.dump.entry = <<>> =>
          i.dump.trace.at >= i.event.at - TimeWindow
    /\ i.event.kind \in {"anr", "native_crash"} =>
          /\ i.dump.trace = NoTrace <=> i.dump.fallback # "none"
          /\ i.dump.verified <=> i.dump.trace # NoTrace
    /\ i.dump.entry # <<>> =>
          LET t == i.dump.entry[1].trace IN
          t.kind = i.event.kind /\ t.at - i.event.at \in -TimeWindow..TimeWindow

PublishedInv == \A n \in DOMAIN published : IncidentSound(published[n])

DumpInv == DumpTypes /\ CacheInv /\ StageInv /\ ListedInv /\ PublishedInv

LEMMA PulledStage ==
    ASSUME DumpInv, events # <<>>, events' = events, NEW f \in DumpFiles,
           NEW pc \in {"box", "decide"}, NEW pcOtherwise \in {"box", "recover"},
           Pulled(f, pc, pcOtherwise), Tracing, dump.trace = NoTrace, ~dump.verified,
           dump.zone /\ dump.entry = <<>> => Recent(files[f].at),
           UNCHANGED <<files, box, writes, cache, sampled, published>>,
           pc = "box" \/ pcOtherwise = "box" => dump.entry = <<>>,
           pcOtherwise = "recover" => dump.entry # <<>>, dump.pc # "idle"
    PROVE  DumpInv'
<1>0. event' = event /\ event \in TraceType /\ (Tracing' <=> Tracing)
  BY EventTyped DEF DumpInv, event, Tracing
<1>1. ASSUME NEW t \in TraceType, files[f] # NoTrace, Verified(t), t.at = files[f].at,
             t.kind = files[f].kind,
             dump' = [dump EXCEPT !.pc = pc, !.trace = t, !.verified = TRUE, !.fallback = "none"]
      PROVE  DumpInv'
  <2>1. t # NoTrace
    <3>1. t.kind # "none"
      BY <1>1 DEF DumpInv, StageInv
    <3>2. NoTrace.kind = "none"
      BY DEF NoTrace
    <3> QED
      BY <3>1, <3>2
  <2>2. /\ dump' \in DumpType /\ dump'.pc = pc /\ dump'.trace = t /\ dump'.verified = TRUE
        /\ dump'.fallback = "none" /\ dump'.entry = dump.entry /\ dump'.zone = dump.zone
    BY <1>1 DEF DumpInv, DumpTypes, DumpType, DumpPcs, Fallbacks
  <2>3. DumpTypes'
    BY <2>2 DEF DumpInv, DumpTypes
  <2>4. OwnTrace(t)
    BY <1>0, <1>1 DEF OwnTrace, Verified
  <2>5. OwnTrace(dump.trace)'
    BY <1>0, <2>2, <2>4 DEF OwnTrace
  <2>6. NearEvent(dump.entry)'
    BY <1>0, <2>2 DEF DumpInv, StageInv, NearEvent
  <2>7. dump'.zone /\ dump'.entry = <<>> => Recent(dump.trace.at)'
    BY <1>0, <1>1, <2>2 DEF Recent
  <2>8. Explained'
    BY <2>1, <2>2 DEF Explained
  <2>9. StageInv'
    BY <1>0, <2>2, <2>5, <2>6, <2>7, <2>8 DEF DumpInv, StageInv
  <2> QED
    BY <2>2, <2>3, <2>9 DEF DumpInv, CacheInv, ListedInv, PublishedInv
<1>2. ASSUME NEW fallback \in {"verification_failed", "pull failed"},
             dump' = [dump EXCEPT !.pc = pcOtherwise, !.fallback = fallback,
                                  !.verified = (IF fallback = "pull failed"
                                                THEN dump.verified ELSE FALSE)]
      PROVE  DumpInv'
  <2>2. /\ dump' \in DumpType /\ dump'.pc = pcOtherwise /\ dump'.trace = NoTrace
        /\ dump'.verified = FALSE /\ dump'.fallback # "none"
        /\ dump'.entry = dump.entry /\ dump'.zone = dump.zone
    BY <1>2 DEF DumpInv, DumpTypes, DumpType, DumpPcs, Fallbacks
  <2>3. DumpTypes'
    BY <2>2 DEF DumpInv, DumpTypes
  <2>6. NearEvent(dump.entry)'
    BY <1>0, <2>2 DEF DumpInv, StageInv, NearEvent
  <2>8. Explained'
    BY <2>2 DEF Explained
  <2>9. StageInv'
    BY <1>0, <2>2, <2>6, <2>8 DEF DumpInv, StageInv, OwnTrace
  <2> QED
    BY <2>2, <2>3, <2>9 DEF DumpInv, CacheInv, ListedInv, PublishedInv
<1>3. PullOutcome(f, pc, pcOtherwise)
  BY PullEffect DEF DumpInv
<1> QED
  BY <1>1, <1>2, <1>3 DEF PullOutcome

LEMMA DumpStep ==
    ASSUME DumpInv, [DumpNext]_dumpVars PROVE DumpInv'
<1>0. DumpTypes /\ CacheInv /\ StageInv /\ ListedInv /\ PublishedInv
  BY DEF DumpInv
<1>t. dump \in DumpType /\ dump.pc \in DumpPcs /\ (dump.pc # "idle" => events # <<>>)
  BY <1>0 DEF DumpTypes, DumpType
<1>e. events # <<>> => event \in TraceType /\ event.at \in Nat
  BY <1>0, EventTyped DEF TraceType
<1>1. CASE DeviceWrites
  <2>1. PICK t \in Traces, f \in DumpFiles :
              /\ t.at >= writes.at /\ t \in TraceType /\ t.kind # "none" /\ t # NoTrace
              /\ files' = files \/ files' = [files EXCEPT ![f] = t]
              /\ box' \subseteq BoxType /\ writes' \in [count : Nat, at : Nat] /\ writes'.at = t.at
    BY <1>0, <1>1, FilesKept
  <2>2. UNCHANGED <<events, dump, cache, sampled, published>> /\ event' = event
        /\ (Tracing' <=> Tracing)
    BY <1>1 DEF DeviceWrites, event, Tracing
  <2>3. \A g \in DumpFiles : files'[g] = files[g] \/ files'[g] = t
    BY <1>0, <2>1 DEF DumpTypes
  <2>4. files' \in [DumpFiles -> TraceType]
    BY <1>0, <2>1 DEF DumpTypes
  <2>5. DumpTypes'
    BY <1>0, <2>1, <2>2, <2>4 DEF DumpTypes
  <2>6. dump.pc # "idle" => t.at >= event.at /\ event.at <= writes'.at
    <3>1. writes.at \in Nat /\ t.at \in Nat
      BY <1>0, <2>1 DEF DumpTypes, TraceType
    <3>2. dump.pc # "idle" => event.at <= writes.at /\ event.at \in Nat
      BY <1>0, <1>e, <1>t DEF StageInv
    <3> QED
      BY <2>1, <3>1, <3>2
  <2>7. OwnTrace(dump.trace)' <=> OwnTrace(dump.trace)
    BY <2>2 DEF OwnTrace
  <2>8. NearEvent(dump.entry)' <=> NearEvent(dump.entry)
    BY <2>2 DEF NearEvent
  <2>9. StageInv'
    <3>1. \A g \in DumpFiles : files'[g] # NoTrace => files'[g].kind # "none"
      BY <1>0, <2>1, <2>3 DEF StageInv
    <3>2. (Explained' <=> Explained) /\ (Recent(dump.trace.at)' <=> Recent(dump.trace.at))
      BY <2>2 DEF Explained, Recent
    <3> QED
      BY <1>0, <2>2, <2>6, <2>7, <2>8, <3>1, <3>2 DEF StageInv
  <2>10. ListedInv'
    <3>1. \A g \in DOMAIN dump.listed : g \in DumpFiles
      BY <1>t DEF DumpType, ListType
    <3>2. dump.pc # "idle" => Recent(t.at)
      <4>1. t.at \in Nat
        BY <2>1 DEF TraceType
      <4> QED
        BY <1>e, <1>t, <2>6, <4>1 DEF Recent, TimeWindow
    <3> QED
      BY <1>0, <2>2, <2>3, <2>6, <3>1, <3>2 DEF ListedInv, Recent
  <2> QED
    BY <1>0, <2>2, <2>5, <2>9, <2>10 DEF DumpInv, CacheInv, PublishedInv
<1>2. CASE BeginDump
  <2>1. /\ events # <<>> /\ dump.pc = "idle"
        /\ writes' \in [count : Nat, at : Nat] /\ writes'.at >= writes.at /\ writes'.at >= event.at
        /\ dump' \in DumpType
        /\ dump'.pc = IF Tracing THEN "list"
                      ELSE IF event.kind = "java_crash" THEN "box" ELSE "decide"
        /\ dump'.trace = NoTrace /\ dump'.fallback = "none" /\ dump'.verified = FALSE
        /\ dump'.entry = <<>>
    BY <1>0, <1>2, BeginEffect
  <2>2. UNCHANGED <<events, files, box, cache, sampled, published>> /\ event' = event
        /\ (Tracing' <=> Tracing)
    BY <1>2 DEF BeginDump, event, Tracing
  <2>3. DumpTypes'
    BY <1>0, <2>1, <2>2 DEF DumpTypes
  <2>4. event.at <= writes'.at
    <3>1. writes'.at \in Nat
      BY <2>1
    <3> QED
      BY <1>e, <2>1, <3>1
  <2>5. StageInv'
    BY <1>0, <2>1, <2>2, <2>4 DEF StageInv, OwnTrace, NearEvent
  <2> QED
    BY <1>0, <2>1, <2>2, <2>3, <2>5 DEF DumpInv, CacheInv, ListedInv, PublishedInv
<1>3. CASE ListFiles
  <2>1. PICK listed \in ListType :
              /\ dump' = [dump EXCEPT !.pc = "match", !.listed = listed]
              /\ dump.zone => \A f \in DOMAIN listed :
                                 files[f] # NoTrace /\ listed[f].at = files[f].at
    BY <1>0, <1>3, ListEffect
  <2>2. UNCHANGED <<events, files, box, writes, cache, sampled, published>> /\ event' = event
        /\ (Tracing' <=> Tracing) /\ dump.pc = "list"
    BY <1>3 DEF ListFiles, event, Tracing
  <2>3. /\ dump' \in DumpType /\ dump'.pc = "match" /\ dump'.listed = listed
        /\ dump'.trace = dump.trace /\ dump'.zone = dump.zone /\ dump'.entry = dump.entry
        /\ dump'.fallback = dump.fallback /\ dump'.verified = dump.verified
    BY <1>t, <2>1 DEF DumpType, DumpPcs
  <2>4. DumpTypes'
    BY <1>0, <2>2, <2>3 DEF DumpTypes
  <2>5. StageInv'
    BY <1>0, <2>2, <2>3 DEF StageInv, OwnTrace, NearEvent, Recent
  <2>6. ListedInv'
    BY <2>1, <2>2, <2>3 DEF ListedInv
  <2> QED
    BY <1>0, <2>2, <2>4, <2>5, <2>6 DEF DumpInv, CacheInv, PublishedInv
<1>4. CASE MatchTrace
  <2>1. dump.pc = "match" /\ events # <<>>
    BY <1>4, <1>t DEF MatchTrace
  <2>2. UNCHANGED <<events, files, box, writes, cache, sampled, published>> /\ event' = event
        /\ (Tracing' <=> Tracing)
    BY <1>4 DEF MatchTrace, event, Tracing
  <2>3. dump.trace = NoTrace /\ dump.entry = <<>> /\ ~dump.verified /\ Tracing
    BY <1>0, <2>1 DEF StageInv
  <2>4. CASE dump' = [dump EXCEPT !.found = 0, !.pc = "box", !.fallback = "no_confident_match"]
    <3>1. /\ dump' \in DumpType /\ dump'.pc = "box" /\ dump'.fallback = "no_confident_match"
          /\ dump'.trace = dump.trace /\ dump'.zone = dump.zone /\ dump'.entry = dump.entry
          /\ dump'.verified = dump.verified
      BY <1>t, <2>4 DEF DumpType, DumpPcs, Fallbacks
    <3>2. DumpTypes'
      BY <1>0, <2>1, <2>2, <3>1 DEF DumpTypes
    <3>3. StageInv'
      BY <1>0, <2>1, <2>2, <2>3, <3>1 DEF StageInv, OwnTrace, NearEvent, Explained
    <3> QED
      BY <1>0, <2>2, <3>1, <3>2, <3>3 DEF DumpInv, CacheInv, ListedInv, PublishedInv
  <2>5. CASE \E f \in DOMAIN dump.listed :
                /\ f \in DumpFiles
                /\ dump' = [dump EXCEPT !.found = f, !.pc = "pull"]
                /\ dump.listed[f].at >= event.at - TimeWindow
    <3>1. PICK f \in DOMAIN dump.listed :
                /\ f \in DumpFiles
                /\ dump' = [dump EXCEPT !.found = f, !.pc = "pull"]
                /\ dump.listed[f].at >= event.at - TimeWindow
      BY <2>5
    <3>2. /\ dump' \in DumpType /\ dump'.pc = "pull" /\ dump'.found = f
          /\ dump'.trace = dump.trace /\ dump'.zone = dump.zone /\ dump'.entry = dump.entry
          /\ dump'.verified = dump.verified /\ dump'.fallback = dump.fallback
          /\ dump'.listed = dump.listed
      BY <1>t, <3>1 DEF DumpType, DumpPcs
    <3>3. DumpTypes'
      BY <1>0, <2>1, <2>2, <3>2 DEF DumpTypes
    <3>4. StageInv'
      BY <1>0, <2>1, <2>2, <2>3, <3>2 DEF StageInv, OwnTrace, NearEvent
    <3>5. dump.zone => Recent(files[f].at)
      <4>1. files[f].at \in Nat
        BY <1>0, <3>1 DEF DumpTypes, TraceType
      <4>2. dump.zone => files[f].at = dump.listed[f].at \/ files[f].at >= event.at
        BY <1>0, <2>1, <3>1 DEF ListedInv
      <4> QED
        BY <1>e, <2>1, <3>1, <4>1, <4>2 DEF Recent, TimeWindow
    <3>6. ListedInv'
      BY <1>0, <2>1, <2>2, <3>1, <3>2, <3>5 DEF ListedInv, Recent
    <3> QED
      BY <1>0, <2>2, <3>3, <3>4, <3>6 DEF DumpInv, CacheInv, PublishedInv
  <2> QED
    BY <1>0, <1>4, <2>1, <2>4, <2>5, MatchEffect
<1>5. CASE PullTrace
  <2>1. /\ dump.pc = "pull" /\ Pulled(dump.found, "box", "box") /\ events' = events
        /\ UNCHANGED <<files, box, writes, cache, sampled, published>>
    BY <1>5 DEF PullTrace
  <2>2. /\ Tracing /\ dump.trace = NoTrace /\ ~dump.verified /\ dump.entry = <<>>
        /\ dump.found \in DumpFiles /\ (dump.zone => Recent(files[dump.found].at))
    BY <1>0, <2>1 DEF StageInv, ListedInv
  <2> QED
    BY <1>t, <2>1, <2>2, PulledStage
<1>6. CASE FetchDropbox
  <2>1. dump.pc = "box" /\ events # <<>>
        /\ UNCHANGED <<events, files, box, writes, sampled, published>>
    BY <1>6, <1>t DEF FetchDropbox
  <2>2. PICK entry \in EntryType :
              /\ dump' = [dump EXCEPT !.entry = entry,
                        !.pc = IF ~Tracing \/ dump.trace # NoTrace \/ entry = <<>> THEN "decide"
                               ELSE IF event.kind = "anr" THEN "data file" ELSE "recover"]
              /\ NearEvent(entry)
              /\ cache' \subseteq [key : Kinds \X Nat, entry : EntryType] /\ CacheInv'
    BY <1>0, <1>6, <2>1, FetchEffect
  <2>3. /\ dump' \in DumpType /\ dump'.entry = entry
        /\ dump'.pc = IF ~Tracing \/ dump.trace # NoTrace \/ entry = <<>> THEN "decide"
                      ELSE IF event.kind = "anr" THEN "data file" ELSE "recover"
        /\ dump'.trace = dump.trace /\ dump'.zone = dump.zone
        /\ dump'.verified = dump.verified /\ dump'.fallback = dump.fallback
    BY <1>t, <2>2 DEF DumpType, DumpPcs
  <2>4. event' = event /\ (Tracing' <=> Tracing)
    BY <2>1 DEF event, Tracing
  <2>5. DumpTypes'
    BY <1>0, <2>1, <2>2, <2>3 DEF DumpTypes
  <2>6. OwnTrace(dump.trace)' /\ NearEvent(dump.entry)'
    BY <1>0, <2>1, <2>2, <2>3, <2>4 DEF StageInv, OwnTrace, NearEvent
  <2>7. dump.entry = <<>>
    BY <1>0, <2>1 DEF StageInv
  <2>8. StageInv'
    BY <1>0, <2>1, <2>3, <2>4, <2>6, <2>7 DEF StageInv, Explained, Recent
  <2> QED
    BY <1>0, <2>1, <2>2, <2>3, <2>5, <2>8 DEF DumpInv, ListedInv, PublishedInv
<1>7. CASE PullDataFile
  <2>1. /\ dump.pc = "data file" /\ Pulled(dump.entry[1].file, "decide", "recover")
        /\ events' = events /\ UNCHANGED <<files, box, writes, cache, sampled, published>>
    BY <1>7 DEF PullDataFile
  <2>2. Tracing /\ dump.entry # <<>> /\ dump.trace = NoTrace /\ ~dump.verified
    BY <1>0, <2>1 DEF StageInv, Explained
  <2>3. dump.entry[1].file \in DumpFiles
    BY <1>t, <2>2 DEF DumpType, EntryType, BoxType
  <2> QED
    BY <1>t, <2>1, <2>2, <2>3, PulledStage
<1>8. CASE RecoverFromDropbox
  <2> DEFINE t == dump.entry[1].trace
  <2>1. /\ dump.pc = "recover" /\ events # <<>>
        /\ UNCHANGED <<events, files, box, writes, cache, sampled, published>>
        /\ event' = event /\ (Tracing' <=> Tracing)
    BY <1>8, <1>t DEF RecoverFromDropbox, event, Tracing
  <2>2. Tracing /\ dump.entry # <<>> /\ dump.trace = NoTrace /\ Explained
    BY <1>0, <2>1 DEF StageInv
  <2>3. t \in TraceType
    BY <1>t, <2>2 DEF DumpType, EntryType, BoxType
  <2>4. t # NoTrace
    <3>1. t.kind = event.kind
      BY <1>0, <2>1, <2>2 DEF StageInv, NearEvent
    <3>2. NoTrace.kind = "none"
      BY DEF NoTrace
    <3> HIDE DEF t
    <3> QED
      BY <2>2, <3>1, <3>2 DEF Tracing
  <2>5. CASE dump' = Recovered(t) /\ Verified(t)
    <3>1. /\ dump' \in DumpType /\ dump'.pc = "decide" /\ dump'.trace = t /\ dump'.verified = TRUE
          /\ dump'.fallback = "none" /\ dump'.entry = dump.entry /\ dump'.zone = dump.zone
      <4> HIDE DEF t
      <4> QED
        BY <1>t, <2>3, <2>5 DEF Recovered, DumpType, DumpPcs, Fallbacks
    <3> HIDE DEF t
    <3>2. DumpTypes'
      BY <1>0, <2>1, <3>1 DEF DumpTypes
    <3>3. OwnTrace(dump.trace)'
      BY <2>1, <2>5, <3>1 DEF OwnTrace, Verified
    <3>4. NearEvent(dump.entry)'
      BY <1>0, <2>1, <3>1 DEF StageInv, NearEvent
    <3>5. Explained'
      BY <2>4, <3>1 DEF Explained
    <3>6. StageInv'
      BY <1>0, <2>1, <2>2, <3>1, <3>3, <3>4, <3>5 DEF StageInv
    <3> QED
      BY <1>0, <2>1, <3>1, <3>2, <3>6 DEF DumpInv, CacheInv, ListedInv, PublishedInv
  <2>6. CASE dump' = [dump EXCEPT !.pc = "decide"]
    <3>1. /\ dump' \in DumpType /\ dump'.pc = "decide" /\ dump'.trace = dump.trace
          /\ dump'.verified = dump.verified
          /\ dump'.fallback = dump.fallback /\ dump'.entry = dump.entry /\ dump'.zone = dump.zone
      BY <1>t, <2>6 DEF DumpType, DumpPcs
    <3>2. DumpTypes'
      BY <1>0, <2>1, <3>1 DEF DumpTypes
    <3>3. StageInv'
      BY <1>0, <2>1, <2>2, <3>1 DEF StageInv, OwnTrace, NearEvent, Explained
    <3> QED
      BY <1>0, <2>1, <3>1, <3>2, <3>3 DEF DumpInv, CacheInv, ListedInv, PublishedInv
  <2> QED
    BY <1>8, <2>5, <2>6 DEF RecoverFromDropbox
<1>9. CASE Decide
  <2>1. /\ dump.pc = "decide" /\ sampled' = sampled + 1
        /\ UNCHANGED <<events, files, box, writes, cache, published>>
        /\ event' = event /\ (Tracing' <=> Tracing)
        /\ dump' = [dump EXCEPT !.pc = "publish", !.full = Keeps(sampled')]
    BY <1>9 DEF Decide, event, Tracing
  <2>2. Keeps(sampled') \in BOOLEAN
    BY DEF Keeps
  <2>3. /\ dump' \in DumpType /\ dump'.pc = "publish" /\ dump'.trace = dump.trace
        /\ dump'.verified = dump.verified
        /\ dump'.fallback = dump.fallback /\ dump'.entry = dump.entry /\ dump'.zone = dump.zone
    <3> DEFINE full == Keeps(sampled')
    <3>1. dump' = [dump EXCEPT !.pc = "publish", !.full = full] /\ full \in BOOLEAN
      BY <2>1, <2>2
    <3> HIDE DEF full
    <3> QED
      BY <1>t, <3>1, Zenon DEF DumpType, DumpPcs
  <2>4. DumpTypes'
    BY <1>0, <1>t, <2>1, <2>3 DEF DumpTypes
  <2>5. StageInv'
    BY <1>0, <2>1, <2>3 DEF StageInv, OwnTrace, NearEvent, Explained, Recent
  <2> QED
    BY <1>0, <2>1, <2>3, <2>4, <2>5 DEF DumpInv, CacheInv, ListedInv, PublishedInv
<1>10. CASE Finish
  <2>1. PICK out \in {"cancelled", "published"} :
           published' = Append(published, [event |-> event, dump |-> dump, out |-> out])
    BY <1>10 DEF Finish
  <2>2. /\ dump.pc = "publish" /\ events # <<>> /\ events' = Tail(events) /\ dump' = Idle
        /\ UNCHANGED <<files, box, writes, cache, sampled>>
    BY <1>10, <1>t DEF Finish
  <2> DEFINE incident == [event |-> event, dump |-> dump, out |-> out]
             Incident == [event : TraceType, dump : DumpType, out : {"cancelled", "published"}]
  <2>3. incident \in Incident
    BY <1>e, <1>t, <2>2
  <2>4. /\ published' \in Seq(Incident)
        /\ Len(published') = Len(published) + 1
        /\ \A n \in 1..Len(published) : published'[n] = published[n]
        /\ published'[Len(published) + 1] = incident
    <3> HIDE DEF incident
    <3>1. published' = Append(published, incident)
      BY <2>1 DEF incident
    <3> QED
      BY <1>0, <2>3, <3>1, AppendProperties DEF DumpTypes
  <2>5. DumpTypes'
    <3>1. Tail(events) \in Seq(TraceType) /\ Idle.pc = "idle"
      BY <1>0, <2>2, EventTyped DEF Idle
    <3> QED
      BY <1>0, <2>2, <2>4, <3>1, IdleTyped DEF DumpTypes
  <2>6. IncidentSound(incident)
    <3>1. incident.event = event /\ incident.dump = dump
      OBVIOUS
    <3> HIDE DEF incident
    <3> QED
      BY <1>0, <2>2, <3>1 DEF IncidentSound, StageInv, OwnTrace, NearEvent, Explained, Recent,
         Tracing
  <2>7. PublishedInv'
    <3>1. DOMAIN published' = 1..(Len(published) + 1) /\ DOMAIN published = 1..Len(published)
          /\ Len(published) \in Nat
      BY <1>0, <2>4, LenProperties DEF DumpTypes
    <3> HIDE DEF incident
    <3>2. ASSUME NEW n \in 1..(Len(published) + 1) PROVE IncidentSound(published'[n])
      <4>1. CASE n = Len(published) + 1
        BY <2>4, <2>6, <4>1
      <4>2. CASE n \in 1..Len(published)
        BY <1>0, <2>4, <3>1, <4>2 DEF PublishedInv
      <4> QED
        BY <3>1, <4>1, <4>2
    <3> QED
      BY <3>1, <3>2 DEF PublishedInv
  <2>8. StageInv' /\ ListedInv'
    BY <1>0, <2>2 DEF StageInv, ListedInv, Idle
  <2> QED
    BY <1>0, <2>2, <2>5, <2>7, <2>8 DEF DumpInv, CacheInv
<1>11. CASE UNCHANGED dumpVars
  BY <1>0, <1>11 DEF dumpVars, DumpInv, DumpTypes, CacheInv, StageInv, ListedInv, PublishedInv,
     event, Tracing, OwnTrace, NearEvent, Explained, Recent
<1> QED
  BY <1>1, <1>2, <1>3, <1>4, <1>5, <1>6, <1>7, <1>8, <1>9, <1>10, <1>11 DEF DumpNext

\* The evidence of an incident, for any traces, files and events: what is bound is of
\* the process that crashed and not of an earlier crash, what is missing has its
\* reason, and the cache hands no entry to a crash far from it.
THEOREM EvidenceIsSound == DumpSpec => []EvidenceSound
<1>1. DumpInit => DumpInv
  <2> SUFFICES ASSUME DumpInit PROVE DumpInv
    OBVIOUS
  <2>1. events \in Seq(TraceType) /\ dump = Idle /\ cache = {} /\ published = <<>> /\ sampled = 0
    BY DumpAssumption DEF DumpInit, DumpAssumption
  <2>2. files = [f \in DumpFiles |-> NoTrace] /\ NoTrace \in TraceType
    BY DEF DumpInit, NoTrace, TraceType, Kinds
  <2>3. box = {} /\ writes \in [count : Nat, at : Nat]
    BY DEF DumpInit
  <2>4. Idle.pc = "idle"
    BY DEF Idle
  <2>5. published \in Seq([event : TraceType, dump : DumpType, out : {"cancelled", "published"}])
    BY <2>1, EmptySeq
  <2>6. files \in [DumpFiles -> TraceType]
    BY <2>2
  <2>7. DumpTypes
    BY <2>1, <2>3, <2>4, <2>5, <2>6, IdleTyped DEF DumpTypes
  <2>8. StageInv /\ ListedInv
    BY <2>1, <2>2, <2>4 DEF StageInv, ListedInv
  <2>9. CacheInv /\ PublishedInv
    BY <2>1 DEF CacheInv, PublishedInv
  <2> QED
    BY <2>7, <2>8, <2>9 DEF DumpInv
<1>2. DumpInv /\ [DumpNext]_dumpVars => DumpInv'
  BY DumpStep
<1>3. DumpInv => EvidenceSound
  <2> SUFFICES ASSUME DumpInv PROVE EvidenceSound
    OBVIOUS
  <2>1. \A i \in Done : IncidentSound(i)
    BY DEF Done, Range, DumpInv, PublishedInv
  <2> QED
    BY <2>1 DEF EvidenceSound, EvidenceIsOwn, TraceNotStale, FallbackExplains,
       DropboxOfThisCrash, IncidentSound
<1> QED
  BY <1>1, <1>2, <1>3, PTL DEF DumpSpec

-----------------------------------------------------------------------------
(* The slice of log lines around an incident *)

LineType == [at : Nat, size : LineSizes]
ContextTypes ==
    /\ clock \in Nat /\ lines \in Seq(LineType) /\ runOver \in BOOLEAN
    /\ from \in 1 .. Len(lines) + 1 /\ capped \in Nat /\ anchor \in Nat \cup {-1}

\* A line that left the buffer was too old, or it is counted.
EvictionsCounted ==
    \A i \in 1 .. from - 1 : capped > 0 \/ lines[i].at < clock - RetentionSec

\* The slice was taken in the past, of the event, and when its window was over.
SliceTaken ==
    slice # NoSlice =>
        /\ anchor # -1 /\ slice.at \in Nat /\ slice.at <= clock
        /\ slice.lines \subseteq 1 .. Len(lines)
        /\ slice.at >= anchor + PostSec \/ slice.post # "none"

ContextInv ==
    /\ ContextTypes /\ EvictionsCounted /\ SliceTaken
    /\ MemoryBounded /\ SliceInWindow
    /\ PreSec > 0 => MissingContextExplained

LEMMA SplitInterval ==
    \A a, b \in Nat : a <= b => 1 .. b - 1 \subseteq (1 .. a - 1) \cup (a .. b - 1)
OBVIOUS

LEMMA BelowTheStart ==
    \A a, n \in Nat : \A i \in 1 .. n : i \notin a .. n => i \in 1 .. a - 1
OBVIOUS

\* Eviction stops at the first line from which the rest fits.
LEMMA EvictToFirst ==
    ASSUME NEW all \in Seq(LineType), NEW time, from \in 1 .. Len(all) + 1
    PROVE  LET k == Min({i \in from..(Len(all) + 1) : Fits(all, i, time)}) IN
           k \in from .. Len(all) + 1 /\ Fits(all, k, time)
<1> DEFINE S == {i \in from..(Len(all) + 1) : Fits(all, i, time)}
<1>1. from \in Nat /\ Len(all) + 1 \in Nat
  OBVIOUS
<1>2. IsFiniteSet(S)
  <2>1. IsFiniteSet(from .. (Len(all) + 1))
    BY <1>1, FS_Interval
  <2> QED
    BY <2>1, FS_Subset
<1>3. Len(all) + 1 \in S
  BY <1>1 DEF Fits
<1>4. S \subseteq Int
  BY <1>1
<1>5. Min(S) \in S
  BY <1>2, <1>3, <1>4, FiniteMin
<1> QED
  BY <1>5

\* What eviction does: the buffer is within its limits, and a recent line that goes
\* is counted.
LEMMA EvictionKeepsCount ==
    ASSUME NEW all \in Seq(LineType), NEW time \in Nat, from \in 1 .. Len(all) + 1, capped \in Nat,
           Evict(all, time)
    PROVE  /\ from' \in from .. Len(all) + 1 /\ capped' \in Nat /\ capped' >= capped
           /\ Fits(all, from', time)
           /\ \A i \in from .. from' - 1 : capped' > 0 \/ all[i].at < time - RetentionSec
<1> DEFINE k == Min({i \in from..(Len(all) + 1) : Fits(all, i, time)})
           recent == {i \in from..(k - 1) : all[i].at >= time - RetentionSec}
<1>1. k \in from .. Len(all) + 1 /\ Fits(all, k, time)
  BY EvictToFirst
<1>2. from' = k /\ capped' = capped + Cardinality(recent)
  BY DEF Evict
<1> HIDE DEF k
<1>3. IsFiniteSet(recent)
  <2>1. from \in Int /\ k - 1 \in Int
    BY <1>1
  <2>2. IsFiniteSet(from .. (k - 1))
    BY <2>1, FS_Interval
  <2> QED
    BY <2>2, FS_Subset
<1>4. Cardinality(recent) \in Nat /\ (Cardinality(recent) = 0 <=> recent = {})
  BY <1>3, FS_CardinalityType, FS_EmptySet
<1>5. ASSUME NEW i \in from .. k - 1, capped' = 0 PROVE all[i].at < time - RetentionSec
  <2>1. recent = {}
    BY <1>2, <1>4, <1>5
  <2>2. i \in 1 .. Len(all) /\ all[i] \in LineType
    BY <1>1
  <2>3. all[i].at \in Nat /\ time - RetentionSec \in Int
    BY <2>2, ContextAssumption DEF LineType
  <2> QED
    BY <2>1, <2>3
<1>6. capped' \in Nat /\ capped' >= capped
  BY <1>2, <1>4
<1>7. ASSUME NEW i \in from .. from' - 1 PROVE capped' > 0 \/ all[i].at < time - RetentionSec
  BY <1>2, <1>5, <1>6
<1> QED
  BY <1>1, <1>2, <1>6, <1>7

\* What fits is within the limits of the memory.
LEMMA FitsIsBounded ==
    ASSUME NEW all \in Seq(LineType), NEW k \in 1 .. Len(all) + 1, NEW time, Fits(all, k, time)
    PROVE  LET kept == SubSeq(all, k, Len(all)) IN
           /\ Len(kept) <= MaxEntries
           /\ kept # <<>> => Bytes(all, k) <= MaxBytes
<1>1. Len(SubSeq(all, k, Len(all))) = IF k > Len(all) THEN 0 ELSE Len(all) - k + 1
  OBVIOUS
<1>2. k > Len(all) => SubSeq(all, k, Len(all)) = <<>>
  BY <1>1
<1> QED
  BY <1>1, <1>2, ContextAssumption DEF Fits

LEMMA LinesAppend == ContextInv /\ AppendEntry => ContextInv'
<1> SUFFICES ASSUME ContextInv, AppendEntry PROVE ContextInv'
  OBVIOUS
<1>1. PICK size \in LineSizes : lines' = Append(lines, [at |-> clock, size |-> size])
  BY DEF AppendEntry
<1>2. UNCHANGED <<clock, anchor, slice, runOver>> /\ Evict(lines', clock)
  BY DEF AppendEntry
<1>3. /\ lines \in Seq(LineType) /\ Len(lines) \in Nat /\ clock \in Nat /\ capped \in Nat
      /\ from \in 1 .. Len(lines) + 1 /\ anchor \in Nat \cup {-1}
  BY DEF ContextInv, ContextTypes
<1>4. /\ lines' \in Seq(LineType) /\ Len(lines') = Len(lines) + 1
      /\ \A i \in 1 .. Len(lines) : lines'[i] = lines[i]
      /\ lines'[Len(lines) + 1].at = clock
  <2>1. [at |-> clock, size |-> size] \in LineType
    BY <1>3 DEF LineType
  <2> QED
    BY <2>1, <1>1, <1>3
<1>5. from \in 1 .. Len(lines') + 1
  BY <1>3, <1>4
<1>6. /\ from' \in from .. Len(lines') + 1 /\ capped' \in Nat /\ capped' >= capped
      /\ Fits(lines', from', clock)
      /\ \A i \in from .. from' - 1 : capped' > 0 \/ lines'[i].at < clock - RetentionSec
  BY <1>2, <1>3, <1>4, <1>5, EvictionKeepsCount
<1>7. ContextTypes'
  BY <1>2, <1>3, <1>4, <1>6 DEF ContextInv, ContextTypes
<1>8. EvictionsCounted'
  <2>1. SUFFICES ASSUME NEW i \in 1 .. from' - 1
                 PROVE  capped' > 0 \/ lines'[i].at < clock - RetentionSec
    BY <1>2 DEF EvictionsCounted
  <2>2. CASE i \in 1 .. from - 1
    BY <2>2, <1>3, <1>4, <1>6 DEF ContextInv, EvictionsCounted
  <2>3. CASE i \in from .. from' - 1
    BY <2>3, <1>6
  <2>4. i \in 1 .. from - 1 \/ i \in from .. from' - 1
    <3>1. from \in Nat /\ from' \in Nat /\ from <= from'
      BY <1>3, <1>4, <1>6
    <3> QED BY <2>1, <3>1, SplitInterval
  <2> QED BY <2>2, <2>3, <2>4
<1>9. SliceTaken' /\ SliceInWindow'
  BY <1>2, <1>3, <1>4 DEF ContextInv, SliceTaken, SliceInWindow
<1>a. MemoryBounded'
  BY <1>4, <1>6, FitsIsBounded, <1>3 DEF MemoryBounded
<1>b. ASSUME PreSec > 0 PROVE MissingContextExplained'
  <2>1. SUFFICES ASSUME slice # NoSlice, NEW i \in 1 .. Len(lines'),
                        anchor - PreSec <= lines'[i].at, lines'[i].at <= anchor + PostSec,
                        lines'[i].at # anchor, i \notin slice.lines
                 PROVE  \/ slice.pre # "none" \/ slice.post # "none"
                        \/ lines'[i].at < slice.at - RetentionSec
                        \/ lines'[i].at = slice.at
    BY <1>2, <1>4 DEF MissingContextExplained
  <2>2. CASE i = Len(lines) + 1
    BY <2>1, <2>2, <1>3, <1>4, ContextAssumption DEF ContextInv, SliceTaken
  <2>3. CASE i # Len(lines) + 1
    <3>1. i \in 1 .. Len(lines) /\ i \in DOMAIN lines /\ lines'[i] = lines[i]
      BY <2>1, <2>3, <1>3, <1>4
    <3> QED BY <3>1, <2>1, <1>b DEF ContextInv, MissingContextExplained
  <2> QED BY <2>2, <2>3
<1> QED
  BY <1>7, <1>8, <1>9, <1>a, <1>b DEF ContextInv

LEMMA SliceIsTaken == ContextInv /\ TakeSlice => ContextInv'
<1> SUFFICES ASSUME ContextInv, TakeSlice PROVE ContextInv'
  OBVIOUS
<1>1. /\ UNCHANGED <<clock, lines, anchor, runOver>> /\ Evict(lines, clock) /\ Waited
      /\ slice' = [at |-> clock, lines |-> SliceOf(from'),
                   pre |-> IF capped' > 0 /\ PreSec > 0 THEN "buffer_overflow_dropped" ELSE "none",
                   post |-> IF runOver /\ clock < anchor + PostSec THEN "run_stopped_early" ELSE "none"]
  BY DEF TakeSlice
<1>2. /\ lines \in Seq(LineType) /\ Len(lines) \in Nat /\ clock \in Nat /\ capped \in Nat
      /\ from \in 1 .. Len(lines) + 1 /\ anchor \in Nat
  BY <1>1 DEF ContextInv, ContextTypes, Waited
<1>3. /\ from' \in from .. Len(lines) + 1 /\ capped' \in Nat /\ capped' >= capped
      /\ Fits(lines, from', clock)
      /\ \A i \in from .. from' - 1 : capped' > 0 \/ lines[i].at < clock - RetentionSec
  BY <1>1, <1>2, EvictionKeepsCount
<1>4. \A i \in 1 .. Len(lines) : lines[i].at \in Nat
  <2>1. ASSUME NEW i \in 1 .. Len(lines) PROVE lines[i].at \in Nat
    <3>1. lines[i] \in LineType
      BY <1>2
    <3> QED BY <3>1 DEF LineType
  <2> QED BY <2>1
<1>5. ContextTypes'
  BY <1>1, <1>2, <1>3 DEF ContextInv, ContextTypes
<1>6. EvictionsCounted'
  <2>1. SUFFICES ASSUME NEW i \in 1 .. from' - 1
                 PROVE  capped' > 0 \/ lines[i].at < clock - RetentionSec
    BY <1>1 DEF EvictionsCounted
  <2>2. CASE i \in 1 .. from - 1
    BY <2>2, <1>2, <1>3 DEF ContextInv, EvictionsCounted
  <2>3. CASE i \in from .. from' - 1
    BY <2>3, <1>3
  <2>4. i \in 1 .. from - 1 \/ i \in from .. from' - 1
    <3>1. from \in Nat /\ from' \in Nat /\ from <= from'
      BY <1>2, <1>3
    <3> QED BY <2>1, <3>1, SplitInterval
  <2> QED BY <2>2, <2>3, <2>4
<1>7. SliceTaken'
  <2>1. slice'.at = clock /\ slice'.lines = SliceOf(from')
        /\ (runOver /\ clock < anchor + PostSec => slice'.post # "none")
    BY <1>1
  <2>2. SliceOf(from') \subseteq 1 .. Len(lines)
    BY <1>2, <1>3 DEF SliceOf
  <2> QED BY <2>1, <2>2, <1>1, <1>2, ContextAssumption DEF SliceTaken, Waited
<1>8. SliceInWindow'
  <2>1. SUFFICES ASSUME NEW i \in SliceOf(from') PROVE lines[i].at - anchor \in -PreSec..PostSec
    BY <1>1 DEF SliceInWindow
  <2>2. i \in 1 .. Len(lines)
    BY <1>2, <1>3 DEF SliceOf
  <2>3. lines[i].at \in Nat /\ PreSec \in Nat /\ PostSec \in Nat
    BY <2>2, <1>4, ContextAssumption
  <2>4. \/ anchor - PreSec <= lines[i].at /\ lines[i].at < anchor
        \/ anchor < lines[i].at /\ lines[i].at <= anchor + PostSec
    BY <2>1 DEF SliceOf
  <2> QED BY <2>3, <2>4, <1>2
<1>9. MemoryBounded'
  BY <1>1, <1>2, <1>3, FitsIsBounded DEF MemoryBounded
<1>a. ASSUME PreSec > 0 PROVE MissingContextExplained'
  <2>1. SUFFICES ASSUME NEW i \in 1 .. Len(lines),
                        anchor - PreSec <= lines[i].at, lines[i].at <= anchor + PostSec,
                        lines[i].at # anchor, i \notin SliceOf(from'), capped' = 0
                 PROVE  lines[i].at < clock - RetentionSec
    BY <1>1, <1>2, <1>3, <1>a DEF MissingContextExplained
  <2>2. i \notin from' .. Len(lines)
    BY <2>1, <1>2, <1>4, ContextAssumption DEF SliceOf
  <2>3. i \in 1 .. from' - 1
    <3>1. from' \in Nat /\ Len(lines) \in Nat
      BY <1>2, <1>3
    <3>2. i \in 1 .. Len(lines)  BY <2>1
    <3> QED BY <3>1, <3>2, <2>2, BelowTheStart
  <2> QED BY <2>3, <1>6, <1>1, <2>1 DEF EvictionsCounted
<1> QED
  BY <1>5, <1>6, <1>7, <1>8, <1>9, <1>a DEF ContextInv

\* Unless the window before an event is empty (pre_context_sec of 0), whatever the
\* limits of the buffer, the sizes of the lines and the time a task waits: a slice
\* shows lines of its window only, what it lacks is explained, and the buffer stays
\* within its limits (context.py, _attach_context of pool.py).
THEOREM SlicesAreExplained ==
    ASSUME PreSec > 0 PROVE ContextSpec => []SliceExplained
<1>1. ContextInit => ContextInv
  <2> SUFFICES ASSUME ContextInit PROVE ContextInv
    OBVIOUS
  <2>1. lines = <<>> /\ from = 1 /\ slice = NoSlice
    BY DEF ContextInit
  <2>2. SubSeq(lines, from, Len(lines)) = <<>>
    BY <2>1
  <2>3. Len(SubSeq(lines, from, Len(lines))) <= MaxEntries
    BY <2>2, ContextAssumption
  <2>4. MemoryBounded
    BY <2>2, <2>3 DEF MemoryBounded
  <2>5. ContextTypes /\ EvictionsCounted
    <3>1. Len(lines) = 0 /\ lines \in Seq(LineType) /\ from \in 1 .. Len(lines) + 1
      BY <2>1
    <3>2. ContextTypes
      BY <3>1 DEF ContextInit, ContextTypes
    <3>3. \A i \in 1 .. from - 1 : FALSE
      BY <2>1
    <3> QED BY <3>2, <3>3 DEF EvictionsCounted
  <2> QED
    BY <2>1, <2>4, <2>5 DEF ContextInv, SliceTaken, SliceInWindow, MissingContextExplained
<1>2. ContextInv /\ [ContextNext]_contextVars => ContextInv'
  <2> SUFFICES ASSUME ContextInv, [ContextNext]_contextVars PROVE ContextInv'
    OBVIOUS
  <2>1. ASSUME UNCHANGED <<lines, from, capped, slice>>, clock' \in Nat, clock' >= clock,
               runOver' \in BOOLEAN, anchor' \in Nat \cup {-1}, anchor' = anchor \/ slice = NoSlice
        PROVE  ContextInv'
    <3>1. ContextTypes'
      BY <2>1 DEF ContextInv, ContextTypes
    <3>2. EvictionsCounted'
      <4>1. SUFFICES ASSUME NEW i \in 1 .. from - 1
                     PROVE  capped > 0 \/ lines[i].at < clock' - RetentionSec
        BY <2>1 DEF EvictionsCounted
      <4>2. lines[i].at \in Nat /\ clock \in Nat /\ clock' \in Nat
        <5>1. i \in 1 .. Len(lines) /\ lines \in Seq(LineType) /\ clock \in Nat
          BY <4>1 DEF ContextInv, ContextTypes
        <5>2. lines[i] \in LineType
          BY <5>1
        <5> QED BY <5>1, <5>2, <2>1 DEF LineType
      <4> QED BY <4>1, <4>2, <2>1, ContextAssumption DEF ContextInv, EvictionsCounted
    <3>3. SliceTaken' /\ SliceInWindow' /\ (PreSec > 0 => MissingContextExplained')
      BY <2>1 DEF ContextInv, ContextTypes, SliceTaken, SliceInWindow, MissingContextExplained
    <3>4. MemoryBounded'
      BY <2>1 DEF ContextInv, MemoryBounded
    <3> QED BY <3>1, <3>2, <3>3, <3>4 DEF ContextInv
  <2>2. CASE ClockTicks
    BY <2>1, <2>2 DEF ClockTicks, ContextInv, ContextTypes
  <2>3. CASE EventAt
    <3>1. anchor = -1 /\ UNCHANGED <<clock, lines, from, capped, slice, runOver>>
          /\ anchor' \in {lines[i].at : i \in DOMAIN lines}
      BY <2>3 DEF EventAt
    <3>2. slice = NoSlice /\ clock \in Nat /\ runOver \in BOOLEAN /\ lines \in Seq(LineType)
      BY <3>1 DEF ContextInv, ContextTypes, SliceTaken
    <3>3. anchor' \in Nat
      <4>1. \A i \in DOMAIN lines : lines[i] \in LineType
        BY <3>2
      <4>2. \A line \in LineType : line.at \in Nat
        BY DEF LineType
      <4> QED BY <3>1, <4>1, <4>2
    <3> QED BY <2>1, <3>1, <3>2, <3>3
  <2>4. CASE RunEndsEarly
    BY <2>1, <2>4 DEF RunEndsEarly, ContextInv, ContextTypes
  <2>5. CASE UNCHANGED contextVars
    BY <2>1, <2>5 DEF contextVars, ContextInv, ContextTypes
  <2> QED
    BY <2>2, <2>3, <2>4, <2>5, LinesAppend, SliceIsTaken DEF ContextNext
<1>3. ContextInv => SliceExplained
  BY DEF ContextInv, SliceExplained
<1> QED
  BY <1>1, <1>2, <1>3, PTL DEF ContextSpec
=============================================================================
