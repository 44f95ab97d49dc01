--------------------------- MODULE LogcatStream ---------------------------
(***************************************************************************)
(* One LogcatStream (sat/collectors/logcat.py): lines() spawns adb logcat, *)
(* yields its lines and reconnects from the last device timestamp when the *)
(* connection ends or is found stale; stop() is called by another thread,  *)
(* and the two share their fields without a lock.                          *)
(*                                                                         *)
(* Time is counted in empty polls of the line queue (0.5 s), the time a    *)
(* backoff takes is arbitrary.  Lines are numbered as the device logs them.*)
(* Left out: lines without a timestamp (they move no position), the stderr *)
(* drainer, and the gap intervals and counters, which only end up as       *)
(* statistics of the report.                                               *)
(***************************************************************************)
EXTENDS Integers, Sequences

CONSTANTS
    StaleTicks,   \* stale_sec
    QueueSize,    \* STDOUT_QUEUE_LINES
    MaxLines,     \* bound: lines the device logs
    Stamp,        \* the device timestamp of each line
    MaxTime,      \* bound: the time that is modelled
    MaxSpawns,    \* bound: connections
    None          \* Python's None

ASSUME StreamAssumption ==
    /\ StaleTicks \in Nat \ {0} /\ QueueSize \in Nat \ {0}
    /\ MaxLines \in Nat /\ MaxTime \in Nat /\ MaxSpawns \in Nat
    /\ Stamp \in [1..MaxLines -> Nat \ {0}]
    /\ \A i, j \in 1..MaxLines : i <= j => Stamp[i] <= Stamp[j]
    /\ None \notin Int

Threads == {"consumer", "stopper"}

VARIABLES
    now,          \* the host clock
    produced,     \* lines logged by the device so far
    spawns,       \* connections so far
    proc,         \* the adb process: "none", "alive", or "dead" (ended by itself)
    head,         \* the next line the consumer takes from the queue ...
    next,         \* ... and the next one the reader thread puts into it
    lastTs,       \* _last_device_ts
    yielded,      \* the lines that were yielded
    connSpawned,  \* _conn_spawned_at
    connStarted,  \* _conn_started_at
    lastSuccess,  \* _last_success_host_ts
    stale,        \* the local `stale' of lines()
    waitFrom,     \* when the consumer began to wait for a line
    upIntervals,  \* _up_intervals
    stopSet,      \* _stop
    globalStop,   \* the pool's _global_stop: the caller of lines() leaves its loop
    pc,           \* where each thread is
    at            \* the local `now' of each thread

connVars == <<proc, head, next>>
lineVars == <<lastTs, yielded, lastSuccess>>
flags == <<stopSet, globalStop>>
world == <<now, produced, spawns>>
local == <<stale, waitFrom, at>>
vars == <<world, connVars, lineVars, connSpawned, connStarted, upIntervals, flags, local, pc>>

Init ==
    /\ now = 0 /\ produced = 0 /\ spawns = 0
    /\ proc = "none" /\ head = 1 /\ next = 1
    /\ lastTs = 0 /\ yielded = {} /\ lastSuccess = None
    /\ connSpawned = None /\ connStarted = None /\ upIntervals = <<>>
    /\ stopSet = FALSE /\ globalStop = FALSE
    /\ stale = FALSE /\ waitFrom = 0 /\ at = [t \in Threads |-> 0]
    /\ pc = [consumer |-> "top", stopper |-> "idle"]

Goto(t, from, to) == pc[t] = from /\ pc' = [pc EXCEPT ![t] = to]

-----------------------------------------------------------------------------
(* The device, adb, and the reader thread *)

Tick ==
    /\ now < MaxTime
    /\ now' = now + 1
    /\ UNCHANGED <<produced, spawns, connVars, lineVars, connSpawned, connStarted, upIntervals,
                   flags, local, pc>>

Log ==
    /\ produced < MaxLines
    /\ produced' = produced + 1
    /\ UNCHANGED <<now, spawns, connVars, lineVars, connSpawned, connStarted, upIntervals,
                   flags, local, pc>>

\* The device goes away, or adb does.
ProcDies ==
    /\ proc = "alive"
    /\ proc' = "dead"
    /\ UNCHANGED <<world, head, next, lineVars, connSpawned, connStarted, upIntervals,
                   flags, local, pc>>

\* _read_stdout: blocks while the queue is full, ends once _stop is set.
ReadStdout ==
    /\ proc = "alive" /\ ~stopSet
    /\ next <= produced /\ next - head < QueueSize
    /\ next' = next + 1
    /\ UNCHANGED <<world, proc, head, lineVars, connSpawned, connStarted, upIntervals,
                   flags, local, pc>>

-----------------------------------------------------------------------------
(* lines() *)

\* The outer loop looks at _stop, then spawns.
OuterLoop ==
    /\ Goto("consumer", "top", IF stopSet THEN "ended" ELSE "spawning")
    /\ UNCHANGED <<world, connVars, lineVars, connSpawned, connStarted, upIntervals, flags, local>>

\* Mutant of ResumesAt: after the last timestamp instead of at it.
ResumesAfter(i) == lastTs = 0 \/ Stamp[i] > lastTs

\* _build_cmd: adb logcat -T starts at the last timestamp, that line included.
ResumesAt(i) == Stamp[i] >= lastTs

Spawn ==
    /\ spawns < MaxSpawns /\ spawns' = spawns + 1
    /\ Goto("consumer", "spawning", "reading")
    /\ proc' = "alive"
    /\ head' \in {i \in 1..(MaxLines + 1) :
                    \A j \in 1..MaxLines : ResumesAt(j) <=> j >= i}
    /\ next' = head'
    /\ connSpawned' = now
    /\ connStarted' = None
    /\ stale' = FALSE
    /\ UNCHANGED <<now, produced, lineVars, upIntervals, flags, waitFrom, at>>

SpawnFails ==
    /\ Goto("consumer", "spawning", IF stopSet THEN "ended" ELSE "backoff")
    /\ UNCHANGED <<world, connVars, lineVars, connSpawned, connStarted, upIntervals, flags, local>>

\* The inner loop looks at _stop, then waits for a line.
InnerLoop ==
    /\ Goto("consumer", "reading", IF stopSet THEN "closing" ELSE "polling")
    /\ waitFrom' = now
    /\ UNCHANGED <<world, connVars, lineVars, connSpawned, connStarted, upIntervals,
                   flags, stale, at>>

\* A line, also one of the tail of a dead connection; then the yield.
TakeLine ==
    /\ Goto("consumer", "polling", "yielding")
    /\ head < next
    /\ head' = head + 1
    /\ lastTs' = Stamp[head]
    /\ yielded' = yielded \cup {head}
    /\ connStarted' = IF connStarted = None THEN now ELSE connStarted
    /\ lastSuccess' = now
    /\ UNCHANGED <<world, proc, next, connSpawned, upIntervals, flags, local>>

\* The queue stayed empty for a whole poll (polls end with the modelled time).
EmptyPoll == head = next /\ (now > waitFrom \/ now = MaxTime)

Silent(since) == since # None /\ now - since >= StaleTicks
IsStale == IF lastSuccess = None THEN Silent(connSpawned) ELSE Silent(lastSuccess)

PollDead ==
    /\ EmptyPoll /\ proc # "alive"
    /\ Goto("consumer", "polling", "closing")
    /\ UNCHANGED <<world, connVars, lineVars, connSpawned, connStarted, upIntervals, flags, local>>

PollStale ==
    /\ EmptyPoll /\ proc = "alive" /\ IsStale
    /\ Goto("consumer", "polling", "closing")
    /\ stale' = TRUE
    /\ proc' = "none"
    /\ UNCHANGED <<world, head, next, lineVars, connSpawned, connStarted, upIntervals,
                   flags, waitFrom, at>>

PollAgain ==
    /\ EmptyPoll /\ proc = "alive" /\ ~IsStale
    /\ Goto("consumer", "polling", "reading")
    /\ UNCHANGED <<world, connVars, lineVars, connSpawned, connStarted, upIntervals, flags, local>>

\* The caller wants the next line, or leaves its loop and so closes the generator.
CallerResumes ==
    /\ Goto("consumer", "yielding", "reading")
    /\ UNCHANGED <<world, connVars, lineVars, connSpawned, connStarted, upIntervals, flags, local>>
CallerLeaves ==
    /\ globalStop
    /\ Goto("consumer", "yielding", "abandoned")
    /\ UNCHANGED <<world, connVars, lineVars, connSpawned, connStarted, upIntervals, flags, local>>

\* Mutant of Finally: the connection goes on to its backoff without an interval.
FinallyUnrecorded ==
    /\ \/ Goto("consumer", "closing", "up_done")
       \/ Goto("consumer", "abandoned", "ended")
    /\ proc' = "none"
    /\ at' = [at EXCEPT !["consumer"] = now]
    /\ UNCHANGED <<world, head, next, lineVars, connSpawned, connStarted, upIntervals,
                   flags, stale, waitFrom>>

\* The finally clause kills the process; only a generator that was not closed goes on.
Finally ==
    /\ \/ Goto("consumer", "closing", "up_check")
       \/ Goto("consumer", "abandoned", "ended")
    /\ proc' = "none"
    /\ at' = [at EXCEPT !["consumer"] = now]
    /\ UNCHANGED <<world, head, next, lineVars, connSpawned, connStarted, upIntervals,
                   flags, stale, waitFrom>>

\* After a stale connection a set _stop is only seen by the outer loop.
AfterInterval ==
    /\ Goto("consumer", "up_done", IF stopSet /\ ~stale THEN "ended" ELSE "backoff")
    /\ UNCHANGED <<world, connVars, lineVars, connSpawned, connStarted, upIntervals, flags, local>>

Backoff ==
    /\ Goto("consumer", "backoff", "top")
    /\ UNCHANGED <<world, connVars, lineVars, connSpawned, connStarted, upIntervals, flags, local>>

-----------------------------------------------------------------------------
(* Both threads close the interval of the current connection:              *)
(*   if c is not None: up_intervals.append((c, now)); c = None             *)
(* where each of the three looks at the field anew.                        *)

UpCheck(t) ==
    /\ Goto(t, "up_check", IF connStarted = None THEN "up_done" ELSE "up_append")
    /\ UNCHANGED <<world, connVars, lineVars, connSpawned, connStarted, upIntervals, flags, local>>

UpAppend(t) ==
    /\ Goto(t, "up_append", "up_clear")
    /\ upIntervals' = Append(upIntervals, <<connStarted, at[t]>>)
    /\ UNCHANGED <<world, connVars, lineVars, connSpawned, connStarted, flags, local>>

UpClear(t) ==
    /\ Goto(t, "up_clear", "up_done")
    /\ connStarted' = None
    /\ UNCHANGED <<world, connVars, lineVars, connSpawned, upIntervals, flags, local>>

-----------------------------------------------------------------------------
(* stop() *)

\* The pool's stop() sets _global_stop first; when the device is gone, stop()
\* is called without it.
PoolStops ==
    /\ pc["stopper"] = "idle" /\ ~globalStop
    /\ globalStop' = TRUE
    /\ UNCHANGED <<world, connVars, lineVars, connSpawned, connStarted, upIntervals,
                   stopSet, local, pc>>

\* Mutant of StopCall: _stop is not set.
StopCallUnset ==
    /\ Goto("stopper", "idle", "up_check")
    /\ at' = [at EXCEPT !["stopper"] = now]
    /\ UNCHANGED <<world, connVars, lineVars, connSpawned, connStarted, upIntervals,
                   flags, stale, waitFrom>>

StopCall ==
    /\ Goto("stopper", "idle", "up_check")
    /\ stopSet' = TRUE
    /\ at' = [at EXCEPT !["stopper"] = now]
    /\ UNCHANGED <<world, connVars, lineVars, connSpawned, connStarted, upIntervals,
                   globalStop, stale, waitFrom>>

StopKill ==
    /\ Goto("stopper", "up_done", "done")
    /\ proc' = "none"
    /\ UNCHANGED <<world, head, next, lineVars, connSpawned, connStarted, upIntervals,
                   flags, local>>

-----------------------------------------------------------------------------
Consume ==
    \/ OuterLoop \/ Spawn \/ SpawnFails \/ InnerLoop \/ TakeLine \/ PollDead \/ PollStale
    \/ PollAgain \/ CallerResumes \/ CallerLeaves \/ Finally \/ AfterInterval \/ Backoff
Interval(t) == UpCheck(t) \/ UpAppend(t) \/ UpClear(t)

Next ==
    \/ Tick \/ Log \/ ProcDies \/ ReadStdout
    \/ Consume \/ PoolStops \/ StopCall \/ StopKill \/ \E t \in Threads : Interval(t)

Spec == Init /\ [][Next]_vars

\* The two threads run; nothing is assumed of the device, of adb or of when
\* stop() is called.
FairSpec ==
    /\ Spec
    /\ WF_vars(Tick)
    /\ WF_vars(Consume \/ Interval("consumer"))
    /\ WF_vars(StopKill \/ Interval("stopper"))
-----------------------------------------------------------------------------
(* Properties *)

Times == 0..MaxTime
Mark == Times \cup {None}
TypeOK ==
    /\ now \in Times /\ produced \in 0..MaxLines /\ spawns \in 0..MaxSpawns
    /\ proc \in {"none", "alive", "dead"}
    /\ head \in 1..(MaxLines + 1) /\ next \in 1..(MaxLines + 1)
    /\ yielded \subseteq 1..MaxLines
    /\ {connSpawned, connStarted, lastSuccess} \subseteq Mark
    /\ upIntervals \in Seq(Mark \X Times)
    /\ waitFrom \in Times /\ at \in [Threads -> Times]

\* Over all reconnects no line is left out: a line is only yielded when every
\* earlier one was, although the queue of a closed connection is thrown away
\* and several lines share a timestamp.
NoLineSkipped == \A i \in yielded : 1..i \subseteq yielded

Overlap(a, b) == a[1] < b[2] /\ b[1] < a[2]
Disjoint(intervals) ==
    \A i, j \in DOMAIN intervals : i < j => ~ Overlap(intervals[i], intervals[j])

\* Until stop() comes in, the up intervals are coverage: of connections that
\* gave lines, one after the other, and the last line lies in the last of them
\* or in the connection that is still open.
CoverageBeforeStop ==
    pc["stopper"] = "idle" =>
        /\ \A i \in DOMAIN upIntervals : upIntervals[i][1] # None
        /\ Disjoint(upIntervals)
        /\ lastSuccess # None =>
              \/ connStarted # None /\ connStarted <= lastSuccess
              \/ /\ upIntervals # <<>>
                 /\ upIntervals[Len(upIntervals)][1] <= lastSuccess
                 /\ lastSuccess <= upIntervals[Len(upIntervals)][2]

\* stop() brings the stream to an end, with no adb process left behind, even
\* when it comes while the consumer is spawning one.
StopEndsStream ==
    pc["stopper"] # "idle" ~> [](pc["consumer"] = "ended" /\ proc = "none")

\* logcat.py: a connection is killed as silent after stale_sec.
StaleMeansSilent ==
    [][~stale /\ stale' => now - connSpawned >= StaleTicks]_vars
=============================================================================
