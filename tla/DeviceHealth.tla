---------------------------- MODULE DeviceHealth ----------------------------
(***************************************************************************)
(* The device monitor (sat/collectors/device_health.py) and what the pool  *)
(* does on its callbacks: a gap stops the logcat stream, the end of a gap  *)
(* starts a new logcat thread.  The monitor, every logcat thread and the   *)
(* caller of CollectorPool.stop() share `_logcat_stream' without a lock.   *)
(*                                                                         *)
(* A logcat thread and the stream it creates have the same number; what a  *)
(* stream does inside lines() is LogcatStream's subject.                   *)
(***************************************************************************)
EXTENDS Integers, Sequences, FiniteSets, SequencesExt

CONSTANTS MaxOutages, MaxPolls, GapPolicies

ASSUME HealthAssumption == {MaxOutages, MaxPolls} \subseteq Nat

VARIABLES
    device,    \* the device: its boot, whether adb reaches it, its outages,
               \* and whether its boot id can be read
    monitor,   \* the monitor thread
    readers,   \* the logcat threads, in the order they were started
    current,   \* _logcat_stream, by its number; 0 is None
    stopped,   \* streams whose stop() was called
    poolStop,  \* CollectorPool.stop() and _global_stop
    met       \* history: reboots between online polls, and what unsettles them
healthVars == <<device, monitor, readers, current, stopped, poolStop, met>>

NoSnapshot == [state |-> "none", boot |-> 0]

HealthInit ==
    /\ device = [boot |-> 1, online |-> TRUE, readable |-> TRUE, outages |-> 0]
    /\ monitor = [pc |-> "idle", last |-> NoSnapshot, gap |-> FALSE, epoch |-> 0,
                  reboot |-> FALSE, polls |-> 0, log |-> <<>>]
    /\ readers = <<[pc |-> "starting", stream |-> 0]>>
    /\ current = 0 /\ stopped = {}
    /\ \E p \in GapPolicies : poolStop = [pc |-> "running", global |-> FALSE, policy |-> p]
    /\ met = [boot |-> 0, changes |-> 0, blurred |-> FALSE, unsettled |-> FALSE]

-----------------------------------------------------------------------------
(* The device *)

DeviceFails ==
    /\ device.outages < MaxOutages
    /\ \E reboot, online, readable \in BOOLEAN :
          device' = [boot |-> device.boot + (IF reboot THEN 1 ELSE 0), online |-> online,
                     readable |-> readable, outages |-> device.outages + 1]
    /\ UNCHANGED <<monitor, readers, current, stopped, poolStop, met>>

DeviceReturns ==
    /\ ~device.online /\ device' = [device EXCEPT !.online = TRUE]
    /\ UNCHANGED <<monitor, readers, current, stopped, poolStop, met>>

-----------------------------------------------------------------------------
(* DeviceHealthMonitor._loop *)

\* Mutant of Remembers: an offline snapshot forgets the boot id.
RemembersNothing(snap) == snap

\* An offline snapshot keeps the boot id that was known before.
Remembers(snap) ==
    IF snap.state = "offline" /\ monitor.last.boot # 0
    THEN [snap EXCEPT !.boot = monitor.last.boot] ELSE snap

\* Both boot ids are known and differ.
BootChanged(last, snap) == last.boot # 0 /\ snap.boot # 0 /\ last.boot # snap.boot

\* What the two snapshots say.  Without boot ids only a drop of the uptime by
\* more than a minute tells a reboot, and it may be missed or misread.
Verdicts(last, snap) ==
    CASE last.state = "none" -> {"quiet"}
      [] last.state = "online" /\ snap.state = "offline" -> {"begin"}
      [] last.state = "offline" /\ snap.state = "online" -> {"end"}
      [] last.state = snap.state /\ snap.state = "offline" -> {"quiet"}
      [] OTHER -> IF BootChanged(last, snap) THEN {"reboot"}
                  ELSE IF last.boot = 0 \/ snap.boot = 0 THEN {"quiet", "reboot"}
                  ELSE {"quiet"}

\* The boot id may be unreadable (0) although the device answers.
Snapshot ==
    [state |-> IF device.online THEN "online" ELSE "offline",
     boot |-> IF device.online /\ device.readable THEN device.boot ELSE 0]

Poll ==
    /\ monitor.pc = "idle" /\ monitor.polls < MaxPolls
    /\ LET snap == Remembers(Snapshot)  last == monitor.last IN
         /\ \E v \in Verdicts(last, snap) :
               monitor' = [monitor EXCEPT
                  !.last = snap, !.polls = @ + 1,
                  !.pc = CASE v = "quiet" -> "idle" [] v = "end" -> "end" [] OTHER -> "begin",
                  !.reboot = v = "reboot" \/ (v = "end" /\ BootChanged(last, snap))]
         /\ met' = IF ~device.online THEN met
                    ELSE [met EXCEPT
                       !.boot = device.boot,
                       !.changes = @ + (IF met.boot \notin {0, device.boot} THEN 1 ELSE 0),
                       !.blurred = @ \/ ~device.readable]
    /\ UNCHANGED <<device, readers, current, stopped, poolStop>>

\* _begin_gap up to the callback, and what the policy adds to it.
BeginGap ==
    /\ monitor.pc = "begin"
    /\ IF monitor.gap
       THEN /\ monitor' = [monitor EXCEPT !.pc = IF monitor.reboot THEN "end" ELSE "idle"]
            /\ UNCHANGED poolStop
       ELSE /\ monitor' = [monitor EXCEPT !.pc = "test", !.gap = TRUE,
                                          !.log = Append(@, "gap")]
            /\ poolStop' = [poolStop EXCEPT !.global = @ \/ poolStop.policy = "fail-fast"]
    /\ UNCHANGED <<device, readers, current, stopped, met>>

\* Some logcat thread has no stream yet, or has not begun to read it.
Starting == \E i \in DOMAIN readers : readers[i].pc \in {"starting", "created"}

\* _on_device_gap: `if self._logcat_stream is not None' ...
GapTest ==
    /\ monitor.pc = "test"
    /\ monitor' = [monitor EXCEPT !.pc = IF current # 0 THEN "stop"
                                         ELSE IF monitor.reboot THEN "end" ELSE "idle"]
    /\ met' = [met EXCEPT !.unsettled = @ \/ Starting]
    /\ UNCHANGED <<device, readers, current, stopped, poolStop>>

\* ... `self._logcat_stream.stop()'; None by now ends the monitor thread.
GapStop ==
    /\ monitor.pc = "stop"
    /\ stopped' = stopped \cup ({current} \ {0})
    /\ monitor' = [monitor EXCEPT !.pc = IF current = 0 THEN "died"
                                         ELSE IF monitor.reboot THEN "end" ELSE "idle"]
    /\ UNCHANGED <<device, readers, current, poolStop, met>>

EndGap ==
    /\ monitor.pc = "end"
    /\ monitor' = IF monitor.gap
                  THEN [monitor EXCEPT !.pc = "recover", !.gap = FALSE,
                                       !.log = Append(@, "recovered")]
                  ELSE [monitor EXCEPT !.pc = "epoch"]
    /\ UNCHANGED <<device, readers, current, stopped, poolStop, met>>

\* _on_device_recovered looks at _global_stop ...
RecoverTest ==
    /\ monitor.pc = "recover"
    /\ monitor' = [monitor EXCEPT !.pc = IF poolStop.global THEN "epoch" ELSE "start"]
    /\ UNCHANGED <<device, readers, current, stopped, poolStop, met>>

\* ... and starts a logcat thread, whether or not the old one has ended.
RecoverStart ==
    /\ monitor.pc = "start"
    /\ readers' = Append(readers, [pc |-> "starting", stream |-> 0])
    /\ met' = [met EXCEPT !.unsettled = @ \/ poolStop.global
                              \/ \E i \in DOMAIN readers : readers[i].pc # "ended"]
    /\ monitor' = [monitor EXCEPT !.pc = "epoch"]
    /\ UNCHANGED <<device, current, stopped, poolStop>>

\* The epoch moves after the callback: the new thread may run before it.
Epoch ==
    /\ monitor.pc = "epoch"
    /\ monitor' = [monitor EXCEPT !.pc = "idle", !.epoch = @ + (IF monitor.reboot THEN 1 ELSE 0),
                                  !.reboot = FALSE]
    /\ UNCHANGED <<device, readers, current, stopped, poolStop, met>>

\* The loop leaves when stop() was called.
MonitorEnds ==
    /\ monitor.pc = "idle" /\ poolStop.pc = "joined"
    /\ monitor' = [monitor EXCEPT !.pc = "ended"]
    /\ UNCHANGED <<device, readers, current, stopped, poolStop, met>>

-----------------------------------------------------------------------------
(* CollectorPool._logcat_loop *)

Reader(i, from, to) == readers[i].pc = from /\ readers' = [readers EXCEPT ![i].pc = to]

ReaderCreates(i) ==
    /\ Reader(i, "starting", "created")
    /\ current' = i
    /\ UNCHANGED <<device, monitor, stopped, poolStop, met>>

\* `self._logcat_stream.lines()': the stream that is there now, or none.
ReaderReads(i) ==
    /\ readers[i].pc = "created"
    /\ readers' = [readers EXCEPT ![i] = [pc |-> IF current = 0 THEN "closing" ELSE "reading",
                                          stream |-> current]]
    /\ UNCHANGED <<device, monitor, current, stopped, poolStop, met>>

\* lines() ends when its stream is stopped; a line under _global_stop ends it too.
ReaderLeaves(i) ==
    /\ Reader(i, "reading", "closing")
    /\ readers[i].stream \in stopped \/ (poolStop.global /\ device.online)
    /\ UNCHANGED <<device, monitor, current, stopped, poolStop, met>>

\* The finally clause: the attribute is cleared, whoever's stream it holds.
ReaderCloses(i) ==
    /\ readers[i].pc = "closing"
    /\ readers' = [readers EXCEPT ![i] = [pc |-> "ended", stream |-> 0]]
    /\ current' = 0
    /\ UNCHANGED <<device, monitor, stopped, poolStop, met>>

-----------------------------------------------------------------------------
(* CollectorPool.stop() *)

StopBegins ==
    /\ poolStop.pc = "running"
    /\ poolStop' = [poolStop EXCEPT !.pc = "test", !.global = TRUE]
    /\ UNCHANGED <<device, monitor, readers, current, stopped, met>>

StopTest ==
    /\ poolStop.pc = "test"
    /\ poolStop' = [poolStop EXCEPT !.pc = IF current # 0 THEN "stop" ELSE "joining"]
    /\ met' = [met EXCEPT !.unsettled = @ \/ Starting]
    /\ UNCHANGED <<device, monitor, readers, current, stopped>>

\* None by now: stop() raises and everything after it is skipped.
StopStream ==
    /\ poolStop.pc = "stop"
    /\ stopped' = stopped \cup ({current} \ {0})
    /\ poolStop' = [poolStop EXCEPT !.pc = IF current = 0 THEN "raised" ELSE "joining"]
    /\ UNCHANGED <<device, monitor, readers, current, met>>

\* Joins with a timeout: of the last logcat thread, then of the monitor.
StopJoins ==
    /\ poolStop.pc = "joining"
    /\ poolStop' = [poolStop EXCEPT !.pc = "joined"]
    /\ UNCHANGED <<device, monitor, readers, current, stopped, met>>

HealthNext ==
    \/ DeviceFails \/ DeviceReturns
    \/ Poll \/ BeginGap \/ GapTest \/ GapStop \/ EndGap
    \/ RecoverTest \/ RecoverStart \/ Epoch \/ MonitorEnds
    \/ \E i \in DOMAIN readers :
          ReaderCreates(i) \/ ReaderReads(i) \/ ReaderLeaves(i) \/ ReaderCloses(i)
    \/ StopBegins \/ StopTest \/ StopStream \/ StopJoins

HealthSpec == HealthInit /\ [][HealthNext]_healthVars

-----------------------------------------------------------------------------
(* Properties *)

\* With readable boot ids every reboot between two online polls advances the
\* epoch once, also one that happened while the device was offline.
EpochCountsReboots ==
    monitor.pc = "idle" /\ ~met.blurred => monitor.epoch = met.changes

\* A gap is open exactly from the first offline poll to the next online one,
\* and the event log pairs every recovery with its gap.
GapsMatchPolls ==
    monitor.pc = "idle" =>
        /\ monitor.gap <=> (monitor.last.state = "offline" /\ met.boot # 0)
        /\ monitor.log = [i \in 1..Len(monitor.log) |->
                             IF i % 2 = 1 THEN "gap" ELSE "recovered"]
        /\ monitor.gap <=> Len(monitor.log) % 2 = 1

\* Threads that read, or will read, a stream nobody has stopped.
Reading ==
    {i \in DOMAIN readers : \/ readers[i].pc \in {"starting", "created"} /\ i \notin stopped
                            \/ readers[i].pc = "reading" /\ readers[i].stream \notin stopped}

\* Outside a gap one thread reads the log, in a gap none: true as long as no gap
\* met a thread that was still starting and no recovery one that still ran.
OneReaderOutsideGaps ==
    monitor.pc = "idle" /\ ~poolStop.global /\ ~met.unsettled /\ ~Starting
    => Cardinality(Reading) = IF monitor.gap THEN 0 ELSE 1

\* Without such a callback the monitor outlives every gap, and stop() leaves no
\* thread that reads on.
UnsettledIsTheOnlyHarm ==
    ~met.unsettled =>
        /\ monitor.pc = "died" => poolStop.global
        /\ poolStop.pc \in {"joined", "raised"} => Reading = {}

\* Epochs follow reboots, gaps follow polls, and one thread reads outside a gap and
\* none in it, but for callbacks that met a thread in transit.
ReadersFollowDevice ==
    /\ EpochCountsReboots /\ GapsMatchPolls
    /\ OneReaderOutsideGaps /\ UnsettledIsTheOnlyHarm
=============================================================================
