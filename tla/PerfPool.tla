------------------------------ MODULE PerfPool ------------------------------
(***************************************************************************)
(* The collector pool of the performance test (perf_auto_test, pool.py     *)
(* with alerting.py and PerfTest.stop of api.py): a watcher thread         *)
(* rediscovers the processes of the package and reconciles one worker per  *)
(* process name; the loops of a worker, one per kind of sample, feed a     *)
(* threshold tracker each, whose alerts start dump threads that share one  *)
(* semaphore; stop() marks, joins with timeouts and closes the writers.    *)
(*                                                                         *)
(* A section under _workers_lock or _dump_lock is one step: no adb call is *)
(* made in one.  The value of a sample is whether it breaches the          *)
(* threshold, and a pid names one incarnation of a process.  The trackers  *)
(* read time.time(): here it never goes back, so nothing is said of a host *)
(* whose clock is set while the test runs.                                 *)
(***************************************************************************)
EXTENDS Integers, FiniteSets, SequencesExt

CONSTANTS
    Names,          \* process names that pass the filter
    Kinds,          \* kinds of samples, "cpu" and "mem"
    Cap,            \* DumpsConfig.max_cpu_dumps and max_heap_dumps, by kind
    MaxConcurrent,  \* DumpsConfig.max_concurrent
    Sustain,        \* ThresholdConfig.sustain_sec
    Cooldown,       \* ThresholdConfig.cooldown_sec
    Bounds          \* pairs <<t, c>>: t processes that start later and discoveries
                    \* that fail are explored together with clock values up to c

ASSUME PoolAssumption ==
    /\ IsFiniteSet(Names)
    /\ MaxConcurrent \in Nat \ {0}
    /\ Sustain \in Nat /\ Cooldown \in Nat
    /\ Cap \in [Kinds -> Nat]
    /\ IsFiniteSet(Bounds) /\ Bounds \subseteq Nat \X Nat

VARIABLES
    clock,
    device,      \* the pid of each name's process on the device, 0 if none
    nextPid,
    outages,     \* discoveries that failed or missed something so far
    workers,     \* every worker ever added, in order
    current,     \* _workers: the index of a name's worker, 0 if it has none
    goneAt,      \* the keys of _gone_at
    lifecycle,   \* the rows of the lifecycle file, by name
    globalStop,  \* _global_stop
    watcher,     \* the watcher thread: pc and what its discovery returned
    stopper,     \* the thread that calls start() and stop()
    joining,     \* the workers stop() joins
    timedOut,    \* a join of stop() ran into its timeout
    dumpCounts,  \* _dump_counts
    waiting,     \* dump threads before the semaphore, by kind
    running      \* dump threads that hold it, by kind

external == <<device, nextPid>>
pool == <<workers, current, goneAt, lifecycle>>
stopping == <<globalStop, stopper, joining, timedOut>>
dumping == <<dumpCounts, waiting, running>>
vars == <<clock, external, outages, pool, watcher, stopping, dumping>>

Within(troubles, time) == \E b \in Bounds : troubles <= b[1] /\ time <= b[2]
MoreTrouble == Within(nextPid - 2 + outages + 1, clock)
MaxTroubles == Max({b[1] : b \in Bounds})
MaxClock == Max({b[2] : b \in Bounds})
MaxPid == 1 + MaxTroubles
MaxWorkers == Cardinality(Names) * (1 + MaxTroubles)
Nothing == [n \in Names |-> 0]
Pid(n) == IF current[n] = 0 THEN 0 ELSE workers[current[n]].pid
Stopped(w) == workers[w].stop \/ globalStop

-----------------------------------------------------------------------------
(* The threshold tracker.  Its fields run and fired are history: the times *)
(* of the samples of the present unbroken run of breaches, and the time of *)
(* the last alert.                                                         *)
Never == -Cooldown - 1
NewTracker == [state |-> "OK", since |-> 0, until |-> 0, run |-> {}, fired |-> Never]

\* Mutant of Cooled: a cooldown lasts beyond its last moment.
CooledLate(t, ts) == IF t.state = "COOLDOWN" /\ ts > t.until THEN [t EXCEPT !.state = "OK"] ELSE t

\* The first lines of feed(): a cooldown that has expired ends.
Cooled(t, ts) == IF t.state = "COOLDOWN" /\ ts >= t.until THEN [t EXCEPT !.state = "OK"] ELSE t

\* A breach starts a rise, unless one is under way; anything else ends it.
Risen(t, ts) == IF t.state = "OK" THEN [t EXCEPT !.state = "RISING", !.since = ts] ELSE t
Fires(t, ts, over) ==
    LET r == Risen(Cooled(t, ts), ts) IN over /\ r.state = "RISING" /\ ts - r.since >= Sustain

Feed(t, ts, over) ==
    LET c == [Cooled(t, ts) EXCEPT !.run = IF over THEN @ \union {ts} ELSE {}] IN
    IF Fires(t, ts, over)
    THEN [c EXCEPT !.state = "COOLDOWN", !.since = 0, !.until = ts + Cooldown, !.fired = ts]
    ELSE IF c.state = "COOLDOWN" THEN c
    ELSE IF over THEN Risen(c, ts)
    ELSE [c EXCEPT !.state = "OK", !.since = 0]

-----------------------------------------------------------------------------
(* Reconciliation, under _workers_lock.                                    *)
NewLoop == [pc |-> "idle", tracker |-> NewTracker, late |-> 0]
NewWorker(n, pid) == [name |-> n, pid |-> pid, stop |-> FALSE, loop |-> [k \in Kinds |-> NewLoop]]

Gone(seen) == {n \in Names : current[n] # 0 /\ seen[n] = 0}
Added(seen) == {n \in Names : seen[n] # 0 /\ seen[n] # Pid(n)}

\* Mutant of Replaced: nobody tells the old worker to stop.
ReplacedUnstopped(leaving, arriving, seen) ==
    workers \o [i \in 1 .. Cardinality(arriving) |->
                   LET n == SetToSeq(arriving)[i] IN NewWorker(n, seen[n])]

\* The workers after the ones of leaving are told to stop and the ones of
\* arriving are added.
Replaced(leaving, arriving, seen) ==
    [w \in 1 .. Len(workers) |->
        IF \E n \in leaving : current[n] = w THEN [workers[w] EXCEPT !.stop = TRUE] ELSE workers[w]]
    \o [i \in 1 .. Cardinality(arriving) |->
            LET n == SetToSeq(arriving)[i] IN NewWorker(n, seen[n])]

Repointed(leaving, arriving) ==
    [n \in Names |->
        IF n \in arriving
        THEN Len(workers) + CHOOSE i \in 1 .. Cardinality(arriving) : SetToSeq(arriving)[i] = n
        ELSE IF n \in leaving THEN 0 ELSE current[n]]

\* The lifecycle row that reconciling writes for a name, if any.
Row(n, seen) ==
    IF n \in Gone(seen) THEN <<[event |-> "gone", old |-> Pid(n), new |-> 0]>>
    ELSE IF n \notin Added(seen) THEN <<>>
    ELSE IF current[n] # 0 \/ n \in goneAt
         THEN <<[event |-> "restart", old |-> Pid(n), new |-> seen[n]]>>
         ELSE <<[event |-> "new", old |-> 0, new |-> seen[n]]>>

Reconciled(seen) ==
    LET leaving == Gone(seen) \union {n \in Added(seen) : current[n] # 0} IN
    /\ workers' = Replaced(leaving, Added(seen), seen)
    /\ current' = Repointed(leaving, Added(seen))
    /\ lifecycle' = [n \in Names |-> lifecycle[n] \o Row(n, seen)]
    /\ goneAt' = (goneAt \ Added(seen)) \union Gone(seen)

-----------------------------------------------------------------------------
Init ==
    /\ clock = 0
    /\ device \in [Names -> {0, 1}] /\ \E n \in Names : device[n] = 1
    /\ nextPid = 2
    /\ outages = 0
    /\ workers = <<>> /\ current = [n \in Names |-> 0] /\ goneAt = {}
    /\ lifecycle = [n \in Names |-> <<>>]
    /\ globalStop = FALSE
    /\ watcher = [pc |-> "new", seen |-> device]  \* wait_for_processes saw them
    /\ stopper = "starting" /\ joining = {} /\ timedOut = FALSE
    /\ dumpCounts = [k \in Kinds |-> 0]
    /\ waiting = [k \in Kinds |-> 0] /\ running = [k \in Kinds |-> 0]

(* The device and the clock.                                               *)
ProcessStarts(n) ==
    /\ MoreTrouble
    /\ device' = [device EXCEPT ![n] = nextPid]  \* also a restart between two polls
    /\ nextPid' = nextPid + 1
    /\ UNCHANGED <<clock, outages, pool, watcher, stopping, dumping>>

ProcessDies(n) ==
    /\ device[n] # 0
    /\ device' = [device EXCEPT ![n] = 0]
    /\ UNCHANGED <<clock, nextPid, outages, pool, watcher, stopping, dumping>>

Tick ==
    /\ Within(nextPid - 2 + outages, clock + 1)
    /\ clock' = clock + 1
    /\ UNCHANGED <<external, outages, pool, watcher, stopping, dumping>>

(* start(): workers for the processes that were waited for, then the       *)
(* watcher thread.                                                         *)
Start ==
    /\ stopper = "starting"
    /\ Reconciled(watcher.seen)
    /\ watcher' = [pc |-> "discover", seen |-> Nothing]
    /\ stopper' = "running"
    /\ UNCHANGED <<clock, external, outages, globalStop, joining, timedOut, dumping>>

(* The watcher thread.                                                     *)
Discover ==
    /\ watcher.pc = "discover"
    /\ watcher' = [pc |-> "reconcile", seen |-> device]
    /\ UNCHANGED <<clock, external, outages, pool, stopping, dumping>>

\* adb fails: discover() returns what it could read, possibly nothing.
DiscoverMisses ==
    /\ watcher.pc = "discover" /\ MoreTrouble
    /\ \E missed \in SUBSET Names \ {{}} :
          watcher' = [pc |-> "reconcile",
                      seen |-> [n \in Names |-> IF n \in missed THEN 0 ELSE device[n]]]
    /\ outages' = outages + 1
    /\ UNCHANGED <<clock, external, pool, stopping, dumping>>

DiscoverRaises ==
    /\ watcher.pc = "discover" /\ MoreTrouble
    /\ watcher' = [watcher EXCEPT !.pc = "wait"]
    /\ outages' = outages + 1
    /\ UNCHANGED <<clock, external, pool, stopping, dumping>>

Reconcile ==
    /\ watcher.pc = "reconcile"
    /\ Reconciled(watcher.seen)
    /\ watcher' = [pc |-> "wait", seen |-> Nothing]
    /\ UNCHANGED <<clock, external, outages, stopping, dumping>>

\* Mutant of WatcherWait: the watcher does not look at the stop event.
WatcherWaitForever ==
    /\ watcher.pc = "wait"
    /\ watcher' = [watcher EXCEPT !.pc = "discover"]
    /\ UNCHANGED <<clock, external, outages, pool, stopping, dumping>>

WatcherWait ==
    /\ watcher.pc = "wait"
    /\ watcher' = [watcher EXCEPT !.pc = IF globalStop THEN "done" ELSE "discover"]
    /\ UNCHANGED <<clock, external, outages, pool, stopping, dumping>>

(* A loop of a worker: "idle" is the look at the stop events at its top    *)
(* and in stop.wait(interval), "sample" an adb call under way.  Its        *)
(* tracker ends with it.                                                   *)
LoopGoto(w, k, from, loop) ==
    /\ w <= Len(workers) /\ workers[w].loop[k].pc = from
    /\ workers' = [workers EXCEPT ![w].loop[k] = loop]
    /\ UNCHANGED <<clock, external, outages, current, goneAt, lifecycle, watcher, stopping>>

\* Mutant of BeginSample: a loop looks at one of the two stop events only.
BeginSampleUnlessGlobal(w, k) ==
    /\ ~ globalStop
    /\ LoopGoto(w, k, "idle", [workers[w].loop[k] EXCEPT !.pc = "sample"])
    /\ UNCHANGED dumping

BeginSample(w, k) ==
    /\ ~ Stopped(w)
    /\ LoopGoto(w, k, "idle", [workers[w].loop[k] EXCEPT !.pc = "sample"])
    /\ UNCHANGED dumping

EndLoop(w, k) ==
    /\ Stopped(w)
    /\ LoopGoto(w, k, "idle", [workers[w].loop[k] EXCEPT !.pc = "done", !.tracker = NewTracker])
    /\ UNCHANGED dumping

\* A failed sample, or the first of the CPU loop, which yields no percentage.
SampleWithoutValue(w, k) ==
    /\ LoopGoto(w, k, "sample", [workers[w].loop[k] EXCEPT !.pc = "idle"])
    /\ UNCHANGED dumping

\* A sample is written to the shared file and fed to the tracker.  An alert
\* starts a dump if the cap allows; it is counted now, not when it runs.
SampleFed(w, k, over) ==
    LET l == workers[w].loop[k]
        dumps == Fires(l.tracker, clock, over) /\ dumpCounts[k] < Cap[k]
    IN
    /\ LoopGoto(w, k, "sample", [pc |-> "idle", tracker |-> Feed(l.tracker, clock, over),
                                 late |-> IF Stopped(w) THEN l.late + 1 ELSE l.late])
    /\ dumpCounts' = IF dumps THEN [dumpCounts EXCEPT ![k] = @ + 1] ELSE dumpCounts
    /\ waiting' = IF dumps THEN [waiting EXCEPT ![k] = @ + 1] ELSE waiting
    /\ UNCHANGED running

LoopStep(w, k) ==
    /\ w <= Len(workers)
    /\ \/ BeginSample(w, k) \/ EndLoop(w, k) \/ SampleWithoutValue(w, k)
       \/ \E over \in BOOLEAN : SampleFed(w, k, over)

(* The dump threads.  Nothing joins them or tells them of stop().          *)

\* The dump threads that hold the semaphore: number i of kind k.
Holders == UNION {{k} \X (1 .. running[k]) : k \in Kinds}
SemaphoreFree == Cardinality(Holders) < MaxConcurrent

DumpStarts(k) ==
    /\ waiting[k] > 0 /\ SemaphoreFree
    /\ waiting' = [waiting EXCEPT ![k] = @ - 1]
    /\ running' = [running EXCEPT ![k] = @ + 1]
    /\ UNCHANGED <<clock, external, outages, pool, watcher, stopping, dumpCounts>>

\* The semaphore was not free for 60 s: the dump is given up, and stays counted.
DumpGivenUp(k) ==
    /\ waiting[k] > 0 /\ ~ SemaphoreFree
    /\ waiting' = [waiting EXCEPT ![k] = @ - 1]
    /\ UNCHANGED <<clock, external, outages, pool, watcher, stopping, dumpCounts, running>>

DumpEnds(k) ==
    /\ running[k] > 0
    /\ running' = [running EXCEPT ![k] = @ - 1]
    /\ UNCHANGED <<clock, external, outages, pool, watcher, stopping, dumpCounts, waiting>>

(* stop() of the pool, then the writers are closed.                        *)
StopSetGlobal ==
    /\ stopper = "running"
    /\ globalStop' = TRUE /\ stopper' = "mark"
    /\ UNCHANGED <<clock, external, outages, pool, watcher, joining, timedOut, dumping>>

StopMarkWorkers ==
    /\ stopper = "mark"
    /\ joining' = {current[n] : n \in Names} \ {0}
    /\ workers' = [w \in 1 .. Len(workers) |->
                      IF w \in joining' THEN [workers[w] EXCEPT !.stop = TRUE] ELSE workers[w]]
    /\ stopper' = "joinWatcher"
    /\ UNCHANGED <<clock, external, outages, current, goneAt, lifecycle, watcher, globalStop,
                   timedOut, dumping>>

StopJoinWatcher ==
    /\ stopper = "joinWatcher"
    /\ timedOut' = (watcher.pc # "done")
    /\ stopper' = "joinLoops"
    /\ UNCHANGED <<clock, external, outages, pool, watcher, globalStop, joining, dumping>>

LoopsDone(ws) == \A w \in ws : \A k \in Kinds : workers[w].loop[k].pc = "done"
StopJoinLoops ==
    /\ stopper = "joinLoops"
    /\ timedOut' = (timedOut \/ ~ LoopsDone(joining))
    /\ stopper' = "stopped"
    /\ UNCHANGED <<clock, external, outages, pool, watcher, globalStop, joining, dumping>>

-----------------------------------------------------------------------------
WatcherStep == Discover \/ DiscoverMisses \/ DiscoverRaises \/ Reconcile \/ WatcherWait
StopStep == StopMarkWorkers \/ StopJoinWatcher \/ StopJoinLoops
DumpStep(k) == DumpStarts(k) \/ DumpGivenUp(k) \/ DumpEnds(k)

\* Everything has ended: the process exits.
Ended ==
    /\ stopper = "stopped" /\ watcher.pc = "done" /\ LoopsDone(1 .. Len(workers))
    /\ UNCHANGED vars

Next ==
    \/ \E n \in Names : ProcessStarts(n) \/ ProcessDies(n)
    \/ Tick \/ Start \/ WatcherStep \/ StopSetGlobal \/ StopStep
    \/ \E w \in 1 .. MaxWorkers, k \in Kinds : LoopStep(w, k)
    \/ \E k \in Kinds : DumpStep(k)
    \/ Ended

Spec == Init /\ [][Next]_vars

\* Threads are scheduled and every adb call has a timeout.  The clock, the
\* device and the caller of stop() owe nothing.
Fairness ==
    /\ WF_vars(Start) /\ WF_vars(WatcherStep) /\ WF_vars(StopStep)
    /\ \A w \in 1 .. MaxWorkers, k \in Kinds : WF_vars(LoopStep(w, k))
FairSpec == Spec /\ Fairness
-----------------------------------------------------------------------------
TypeOK ==
    /\ clock \in 0 .. MaxClock /\ device \in [Names -> 0 .. MaxPid]
    /\ nextPid \in 2 .. MaxPid + 1 /\ outages \in 0 .. MaxTroubles
    /\ Len(workers) <= MaxWorkers
    /\ \A w \in 1 .. Len(workers) :
          /\ workers[w].name \in Names /\ workers[w].pid \in 1 .. MaxPid /\ workers[w].stop \in BOOLEAN
          /\ \A k \in Kinds : LET l == workers[w].loop[k] IN
                /\ l.pc \in {"idle", "sample", "done"}
                /\ l.late \in Nat /\ l.tracker.state \in {"OK", "RISING", "COOLDOWN"}
                /\ l.tracker.since \in 0 .. MaxClock /\ l.tracker.until \in 0 .. MaxClock + Cooldown
                /\ l.tracker.run \subseteq 0 .. MaxClock /\ l.tracker.fired \in {Never} \union 0 .. MaxClock
    /\ current \in [Names -> 0 .. Len(workers)] /\ goneAt \subseteq Names
    /\ \A n \in Names : lifecycle[n] \in
          Seq([event : {"new", "restart", "gone"}, old : 0 .. MaxPid, new : 0 .. MaxPid])
    /\ watcher \in [pc : {"new", "discover", "reconcile", "wait", "done"}, seen : [Names -> 0 .. MaxPid]]
    /\ stopper \in {"starting", "running", "mark", "joinWatcher", "joinLoops", "stopped"}
    /\ globalStop \in BOOLEAN /\ timedOut \in BOOLEAN /\ joining \subseteq 1 .. Len(workers)
    /\ {dumpCounts, waiting, running} \subseteq [Kinds -> Nat]

(* The lifecycle file alone tells which process of each name is sampled:   *)
(* its rows form one story (new first, and only first; gone names the      *)
(* process of the row before; a restart follows either), and its last row  *)
(* is the present worker.  The report computes restarts and gaps from it.  *)
Follows(next, row) ==
    \/ next.event = "gone" /\ row.new # 0 /\ next.old = row.new /\ next.new = 0
    \/ next.event = "restart" /\ next.old = row.new /\ next.new \notin {0, row.new}
LifecycleTellsWorkers ==
    \A n \in Names :
        /\ \A i \in 1 .. Len(lifecycle[n]) :
              IF i = 1 THEN lifecycle[n][1].event = "new"
              ELSE Follows(lifecycle[n][i], lifecycle[n][i - 1])
        /\ Pid(n) = IF lifecycle[n] = <<>> THEN 0 ELSE Last(lifecycle[n]).new

(* However often a process restarts, no worker but the current one of its  *)
(* name goes on sampling: every other one has been told to stop.           *)
OnlyCurrentSamples ==
    \A w \in 1 .. Len(workers) : ~ workers[w].stop => current[workers[w].name] = w

(* A loop that has been told to stop, by its worker's event or by the      *)
(* pool's, writes at most the one sample it was waiting for.               *)
OverrunBounded == \A w \in 1 .. Len(workers) : \A k \in Kinds : workers[w].loop[k].late <= 1

(* When every join of stop() succeeded, nothing samples after it, except   *)
(* the loops of a worker that a restart had removed before: stop() does    *)
(* not know of them.  In particular a worker that the watcher adds while   *)
(* stop() runs takes no sample.                                            *)
Removed(w) == workers[w].stop /\ w \notin joining
QuietAfterStop ==
    stopper = "stopped" /\ ~ timedOut =>
        \A w \in 1 .. Len(workers) : \A k \in Kinds :
            workers[w].loop[k].pc = "sample" => Removed(w)

(* Whatever the number of alerts, of threads and of dumps given up, at     *)
(* most Cap dumps of a kind are started and MaxConcurrent run at a time.   *)
DumpsBounded ==
    /\ \A k \in Kinds : dumpCounts[k] <= Cap[k] /\ waiting[k] + running[k] <= dumpCounts[k]
    /\ Cardinality(Holders) <= MaxConcurrent

(* A sample raises an alert exactly when some sample of the same unbroken  *)
(* run of breaches, at or after the end of the last cooldown, is Sustain   *)
(* or more before it (the state diagram at the head of alerting.py).       *)
Due(t, before) ==
    \E first \in t.run : first >= before.fired + Cooldown /\ clock - first >= Sustain
AlertsExactlyWhenDue ==
    [][\A w \in 1 .. Len(workers) : \A k \in Kinds :
         LET l == workers[w].loop[k]
             m == workers'[w].loop[k]
         IN l.tracker # m.tracker /\ clock \in m.tracker.run =>
                ((m.tracker.fired # l.tracker.fired) <=> Due(m.tracker, l.tracker))]_vars

(* A gone row means that the process it names has ended, as the comment on *)
(* sample_failures has it: a lifecycle row "gone" is how a reader tells a  *)
(* process that is gone from sampling that is broken.                      *)
GoneMeansGone ==
    \A n \in Names : \A i \in 1 .. Len(lifecycle[n]) :
        lifecycle[n][i].event = "gone" => lifecycle[n][i].old # device[n]

(* Once discovery works and the device is quiet, every process is sampled  *)
(* by a worker of its pid and no other is, for as long as the pool runs.   *)
WatcherCatchesUp == <>[](globalStop \/ stopper = "starting" \/ \A n \in Names : Pid(n) = device[n])

(* After stop() every thread of the pool ends, those included that stop()  *)
(* did not wait for.                                                       *)
PoolEnds == <>[](globalStop => watcher.pc = "done" /\ LoopsDone(1 .. Len(workers)))

\* Lifecycle rows, workers, loops and dumps agree: the current process is sampled,
\* no other one is, and limits hold after stop() too.
PoolSound ==
    /\ LifecycleTellsWorkers /\ OnlyCurrentSamples
    /\ QuietAfterStop /\ DumpsBounded

\* The watcher catches up with the device, and after stop() every thread ends.
PoolLive == WatcherCatchesUp /\ PoolEnds
=============================================================================
