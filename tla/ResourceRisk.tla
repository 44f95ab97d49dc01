---------------------------- MODULE ResourceRisk ----------------------------
(***************************************************************************)
(* The early warning for growing file descriptors and threads              *)
(* (sat/collectors/resource_risk.py): the monitor's samples over adb, the  *)
(* samples the app reports about itself in the log, and the detector that  *)
(* raises one event per episode of growth.                                 *)
(*                                                                         *)
(* The baselines of the adb samples are kept by pid and by what            *)
(* _read_proc_field takes for the start time: the field after it in        *)
(* /proc/<pid>/stat, which is the size of the address space.               *)
(*                                                                         *)
(* A sample over adb is several calls, and the process lives on, or dies,  *)
(* between them.  The module follows one pid; the resident set is left     *)
(* out.                                                                    *)
(***************************************************************************)
EXTENDS Integers, Sequences

CONSTANTS
    GrowthThreshold,   \* of every metric
    RecoveryMargin,    \* threshold * recovery_ratio
    MaxValue,          \* what a metric may grow to
    MaxSamples, MaxRemaps   \* bounds

ASSUME RiskAssumption ==
    /\ {RecoveryMargin, MaxSamples, MaxRemaps} \subseteq Nat
    /\ {GrowthThreshold, MaxValue} \subseteq Nat \ {0}

Metrics == {"fd_count", "thread_count"}
Missing0 == -1     \* a metric that could not be sampled
SelfReport == -1   \* the start of samples the app reports, "app_self_report"
UnknownStart == -2 \* process_start_time of None, which is the key "?"

VARIABLES
    usage,      \* what the process uses, its address space, whether it lives, and the
                \* listings of /proc that the device denies the shell
    inbox,      \* _external_samples; started is TRUE once there is a queue; turn are
                \* the samples that the loop has taken
    scan,       \* _default_sample: its next call, and the fields read so far
    detector,   \* baselines, armed keys
    events,     \* the risk events
    sampling    \* samples so far; history of what each key saw
riskVars == <<usage, inbox, scan, detector, events, sampling>>

NoScan == [call |-> "none", start |-> UnknownStart, fds |-> Missing0]

RiskInit ==
    /\ usage = [value |-> [m \in Metrics |-> 1], vsize |-> 0, alive |-> TRUE, denied |-> {}]
    /\ inbox = [started |-> FALSE, queue |-> <<>>, turn |-> <<>>]
    /\ scan = NoScan
    /\ detector = [baseline |-> <<>>, armed |-> {}]
    /\ events = <<>>
    /\ sampling = [count |-> 0, grown |-> {}, dipped |-> {}]

-----------------------------------------------------------------------------
(* The app *)

UsageChanges ==
    /\ usage.alive
    /\ \E v \in [Metrics -> {1, MaxValue}] : usage' = [usage EXCEPT !.value = v]
    /\ UNCHANGED <<inbox, scan, detector, events, sampling>>

\* The app maps memory, which most of its activity does.
Remap ==
    /\ usage.alive /\ usage.vsize < MaxRemaps
    /\ usage' = [usage EXCEPT !.vsize = @ + 1]
    /\ UNCHANGED <<inbox, scan, detector, events, sampling>>

Dies ==
    /\ usage.alive /\ usage' = [usage EXCEPT !.alive = FALSE]
    /\ UNCHANGED <<inbox, scan, detector, events, sampling>>

\* SAT_RESOURCE_SAMPLE in the log: dropped before start() has made the queue.
SelfReports ==
    /\ sampling.count < MaxSamples
    /\ IF inbox.started
       THEN /\ inbox' = [inbox EXCEPT
                             !.queue = Append(@, [start |-> SelfReport, value |-> usage.value])]
            /\ sampling' = [sampling EXCEPT !.count = @ + 1]
       ELSE UNCHANGED <<inbox, sampling>>
    /\ UNCHANGED <<usage, scan, detector, events>>

-----------------------------------------------------------------------------
(* ResourceRiskDetector *)

\* Mutant of Raises: growth is reported with every sample.
RaisesUnarmed(base, value, armed) == value - base >= GrowthThreshold

Raises(base, value, armed) == ~armed /\ value - base >= GrowthThreshold
Recovers(base, value, armed) == armed /\ value <= base + RecoveryMargin

Known(d, key) == key \in DOMAIN d.baseline

\* _observe_metric, on [det, out, dip, grow]; a missing value changes nothing.
ObserveMetric(acc, key, value) ==
    LET d == acc.det  base == d.baseline[key]  armed == key \in d.armed IN
    IF value = Missing0 THEN acc
    ELSE IF ~Known(d, key)
    THEN [acc EXCEPT !.det.baseline = [k \in DOMAIN @ \cup {key} |->
                                          IF k = key THEN value ELSE @[k]]]
    ELSE [det |-> [d EXCEPT !.armed = IF Raises(base, value, armed) THEN @ \cup {key}
                                      ELSE IF Recovers(base, value, armed) THEN @ \ {key} ELSE @],
          out |-> IF Raises(base, value, armed)
                  THEN Append(acc.out, [key |-> key, calm |-> key \in acc.dip]) ELSE acc.out,
          dip |-> IF Raises(base, value, armed) THEN acc.dip \ {key}
                  ELSE IF value <= base + RecoveryMargin THEN acc.dip \cup {key} ELSE acc.dip,
          grow |-> IF value - base >= GrowthThreshold THEN acc.grow \cup {key} ELSE acc.grow]

\* observe_all
ObserveAll(acc, sample) ==
    LET after == ObserveMetric(acc, <<"fd_count", sample.start>>, sample.value["fd_count"]) IN
    ObserveMetric(after, <<"thread_count", sample.start>>, sample.value["thread_count"])

-----------------------------------------------------------------------------
(* ResourceRiskMonitor *)

\* What the shell may list is a matter of the device.
StartMonitor ==
    /\ ~inbox.started /\ inbox' = [inbox EXCEPT !.started = TRUE]
    /\ \E denied \in SUBSET Metrics : usage' = [usage EXCEPT !.denied = denied]
    /\ UNCHANGED <<scan, detector, events, sampling>>

\* The sample, if there is one, and what the inbox holds are the turn's.
TurnIs(adb) ==
    /\ inbox' = [inbox EXCEPT !.queue = <<>>, !.turn = adb \o inbox.queue]
    /\ scan' = NoScan

\* pidof finds the process; or it finds none, or fails.
BeginTurn ==
    /\ inbox.started /\ inbox.turn = <<>> /\ scan.call = "none"
    /\ \/ /\ usage.alive /\ sampling.count < MaxSamples
          /\ scan' = [scan EXCEPT !.call = "stat"] /\ UNCHANGED inbox
          /\ sampling' = [sampling EXCEPT !.count = @ + 1]
       \/ TurnIs(<<>>) /\ UNCHANGED sampling
    /\ UNCHANGED <<usage, detector, events>>

ReadStart ==
    /\ scan.call = "stat"
    /\ \E start \in {UnknownStart} \cup (IF usage.alive THEN {usage.vsize} ELSE {}) :
          scan' = [scan EXCEPT !.call = "probe", !.start = start]
    /\ UNCHANGED <<usage, inbox, detector, events, sampling>>

\* The probe of the descriptors: they cannot be listed, or the count may follow.
\* An exception of it is the loop's, and costs the turn its sample.
ListableNow(m) == usage.alive /\ m \notin usage.denied
ProbeDescriptors ==
    /\ scan.call = "probe"
    /\ \/ ListableNow("fd_count") /\ scan' = [scan EXCEPT !.call = "fds"] /\ UNCHANGED inbox
       \/ scan' = [scan EXCEPT !.call = "tasks"] /\ UNCHANGED inbox
       \/ TurnIs(<<>>)
    /\ UNCHANGED <<usage, detector, events, sampling>>

\* _read_count: no value if adb fails; a listing that fails counts 0, as its
\* failure is lost in the pipe to wc.
CountReadings(m) == {Missing0, IF ListableNow(m) THEN usage.value[m] ELSE 0}

CountDescriptors ==
    /\ scan.call = "fds"
    /\ \E n \in CountReadings("fd_count") : scan' = [scan EXCEPT !.call = "tasks", !.fds = n]
    /\ UNCHANGED <<usage, inbox, detector, events, sampling>>

\* The threads are counted without a probe.
CountThreads ==
    /\ scan.call = "tasks"
    /\ \E n \in CountReadings("thread_count") :
          TurnIs(<<[start |-> scan.start,
                    value |-> [m \in Metrics |-> IF m = "fd_count" THEN scan.fds ELSE n]]>>)
    /\ UNCHANGED <<usage, detector, events, sampling>>

\* The samples of the turn, one by one.
Seen == [det |-> detector, out |-> events, dip |-> sampling.dipped, grow |-> sampling.grown]
ObserveSample ==
    /\ inbox.turn # <<>>
    /\ LET seen == ObserveAll(Seen, Head(inbox.turn)) IN
       /\ detector' = seen.det /\ events' = seen.out
       /\ sampling' = [sampling EXCEPT !.dipped = seen.dip, !.grown = seen.grow]
    /\ inbox' = [inbox EXCEPT !.turn = Tail(@)]
    /\ UNCHANGED <<usage, scan>>

RiskNext ==
    \/ UsageChanges \/ Remap \/ Dies \/ SelfReports \/ StartMonitor
    \/ BeginTurn \/ ReadStart \/ ProbeDescriptors \/ CountDescriptors \/ CountThreads
    \/ ObserveSample

RiskSpec == RiskInit /\ [][RiskNext]_riskVars

-----------------------------------------------------------------------------
(* Properties *)

KeyOf(i) == events[i].key

\* One event per episode: between two events of a key its value came back to
\* the recovery margin.
OneEventPerEpisode ==
    \A i, j \in DOMAIN events : i < j /\ KeyOf(i) = KeyOf(j) => events[j].calm

\* Growth over the baseline of its key is reported, also when two metrics grow in
\* one sample.  (A new size of the address space is a new key with no baseline.)
GrowthReported == \A k \in sampling.grown : \E i \in DOMAIN events : KeyOf(i) = k

\* Descriptors that the shell may not list are no value.  A count of 0 that was
\* not read is the mark of a process that died between two calls, or of threads
\* that may not be listed.
Unreadable(m) == ~usage.alive \/ (m = "thread_count" /\ m \in usage.denied)
ZeroExplained ==
    /\ "fd_count" \in usage.denied =>
          \A k \in DOMAIN detector.baseline : k[1] = "fd_count" => k[2] = SelfReport
    /\ \A k \in DOMAIN detector.baseline : detector.baseline[k] = 0 => Unreadable(k[1])

\* No growth is reported over such a 0.
GrowthReal == \A i \in DOMAIN events : detector.baseline[KeyOf(i)] > 0

\* Every growth is reported, once per episode, and none is that no process had.
EpisodesReported == OneEventPerEpisode /\ GrowthReported /\ ZeroExplained /\ GrowthReal
=============================================================================
