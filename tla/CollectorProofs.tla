-------------------------- MODULE CollectorProofs --------------------------
(***************************************************************************)
(* Proof that a LogcatStream leaves out no line, for any log, any sharing  *)
(* of timestamps and any number of reconnects.  The queue of a closed      *)
(* connection is lost; what makes up for it is that the next connection    *)
(* starts at the timestamp of a line that was yielded, not after it, and   *)
(* that timestamps never go back: every line before the new start is older *)
(* than a yielded line, hence yielded.  Before the stop, the time it calls *)
(* covered is split into intervals that follow one another.                *)
(*                                                                         *)
(* And about the process watcher: its rows, its table and the start times  *)
(* tell of the present life of a process, for any names and restarts.      *)
(* And about the adb client: its slots and its counters tell of the calls; *)
(* the detector of resource risks: an episode of growth is one event; the  *)
(* event parser: a Java crash of the package becomes one event; and the    *)
(* fusion of what logcat and ExitInfo report: a crash is one incident.     *)
(***************************************************************************)
EXTENDS LogcatStream, ProcessWatch, AdbCalls, ResourceRisk, LogcatParser, Fusion,
        SequenceTheorems, FiniteSetTheorems, WellFoundedInduction, TLAPS

Lines == 1..MaxLines

\* What the positions of the stream know of the lines.
LineTypes ==
    /\ produced \in 0..MaxLines
    /\ head \in 1..(MaxLines + 1)
    /\ next \in 1..(MaxLines + 1)
    /\ yielded \subseteq Lines
    /\ lastTs \in Nat

\* Everything before the queue's head was yielded, and the timestamp to resume
\* from is that of a yielded line.
Resumable ==
    /\ \A j \in Lines : j < head => j \in yielded
    /\ lastTs = 0 \/ \E k \in yielded : Stamp[k] = lastTs

LineInv == LineTypes /\ Resumable /\ NoLineSkipped

\* Only spawning, reading and taking a line move the positions.
Still == UNCHANGED <<produced, head, next, yielded, lastTs>>

LEMMA OtherStepsAreStill ==
    ASSUME Next
    PROVE  Still \/ Log \/ ReadStdout \/ Spawn \/ TakeLine
<1> USE DEF Still, world, connVars, lineVars
<1>1. CASE Tick \/ ProcDies \/ PoolStops \/ StopCall \/ StopKill
  BY <1>1 DEF Tick, ProcDies, PoolStops, StopCall, StopKill
<1>2. CASE \E t \in Threads : Interval(t)
  BY <1>2 DEF Interval, UpCheck, UpAppend, UpClear
<1>3. CASE OuterLoop \/ SpawnFails \/ InnerLoop \/ PollDead \/ PollStale \/ PollAgain
  BY <1>3 DEF OuterLoop, SpawnFails, InnerLoop, PollDead, PollStale, PollAgain
<1>4. CASE CallerResumes \/ CallerLeaves \/ Finally \/ AfterInterval \/ Backoff
  BY <1>4 DEF CallerResumes, CallerLeaves, Finally, AfterInterval, Backoff
<1> QED BY <1>1, <1>2, <1>3, <1>4 DEF Next, Consume

\* A still step keeps the invariant.
LEMMA StillKeeps == ASSUME LineInv, Still PROVE LineInv'
  BY DEF LineInv, LineTypes, Resumable, NoLineSkipped, Still

\* The queue's head grows by a line whose predecessors were all yielded.
LEMMA TakeLineKeeps == ASSUME StreamAssumption, LineInv, TakeLine PROVE LineInv'
<1> USE DEF LineInv, LineTypes
<1>1. head \in Lines /\ head' = head + 1 /\ lastTs' = Stamp[head]
      /\ yielded' = yielded \cup {head} /\ produced' = produced /\ next' = next
  BY DEF TakeLine, Lines, world, StreamAssumption
<1>2. LineTypes'  BY <1>1 DEF StreamAssumption, Lines
<1>3. Resumable'
  <2>1. ASSUME NEW j \in Lines, j < head' PROVE j \in yielded'
    BY <1>1, <2>1 DEF Resumable, Lines, StreamAssumption
  <2> QED BY <1>1, <2>1 DEF Resumable
<1>4. NoLineSkipped'
  <2> SUFFICES ASSUME NEW i \in yielded', NEW j \in 1..i PROVE j \in yielded'
    BY DEF NoLineSkipped
  <2>1. CASE i \in yielded  BY <1>1, <2>1 DEF NoLineSkipped
  <2>2. CASE i = head
    <3>1. j \in Lines /\ (j = head \/ j < head)  BY <1>1, <2>2 DEF Lines, StreamAssumption
    <3> QED BY <1>1, <3>1 DEF Resumable
  <2> QED BY <1>1, <2>1, <2>2
<1> QED BY <1>2, <1>3, <1>4

\* A new connection starts where every line before it was yielded.
LEMMA SpawnKeeps == ASSUME StreamAssumption, LineInv, Spawn PROVE LineInv'
<1> USE DEF LineInv, LineTypes
<1>1. /\ head' \in 1..(MaxLines + 1)
      /\ \A j \in Lines : ResumesAt(j) <=> j >= head'
      /\ next' = head' /\ produced' = produced
      /\ lastTs' = lastTs /\ yielded' = yielded
  BY DEF Spawn, Lines, lineVars
<1>2. LineTypes'  BY <1>1 DEF StreamAssumption
<1>3. ASSUME NEW j \in Lines, j < head' PROVE j \in yielded'
  <2>1. Stamp[j] < lastTs
    <3>1. Stamp[j] \in Nat  BY DEF StreamAssumption, Lines
    <3>2. ~ (j >= head')  BY <1>1, <1>3 DEF Lines, StreamAssumption
    <3> QED BY <1>1, <3>1, <3>2 DEF ResumesAt
  <2>2. lastTs # 0  BY <2>1 DEF StreamAssumption, Lines
  <2>3. PICK k \in yielded : Stamp[k] = lastTs  BY <2>2 DEF Resumable
  <2>4. j \in 1..k
    <3>1. k \in Lines /\ ~ (Stamp[k] <= Stamp[j])  BY <2>1, <2>3 DEF StreamAssumption, Lines
    <3>2. ~ (k <= j)  BY <3>1 DEF StreamAssumption, Lines
    <3> QED BY <3>1, <3>2 DEF Lines, StreamAssumption
  <2> QED BY <1>1, <2>3, <2>4 DEF NoLineSkipped
<1>4. Resumable'  BY <1>1, <1>3 DEF Resumable
<1>5. NoLineSkipped'  BY <1>1 DEF NoLineSkipped
<1> QED BY <1>2, <1>4, <1>5

\* Logging and reading only make more lines available.
LEMMA AvailabilityKeeps ==
    ASSUME StreamAssumption, LineInv, Log \/ ReadStdout PROVE LineInv'
<1>1. CASE Log
  BY <1>1 DEF Log, connVars, lineVars, LineInv, LineTypes, Resumable, NoLineSkipped,
              StreamAssumption
<1>2. CASE ReadStdout
  BY <1>2 DEF ReadStdout, world, lineVars, LineInv, LineTypes, Resumable, NoLineSkipped,
              StreamAssumption
<1> QED BY <1>1, <1>2

\* lines() yields no line unless it yielded every earlier one, over all
\* reconnects (lines and _build_cmd in collectors/logcat.py).
THEOREM NothingIsLeftOut == ASSUME StreamAssumption PROVE Spec => []NoLineSkipped
<1>1. Init => LineInv
  BY DEF Init, LineInv, LineTypes, Resumable, NoLineSkipped, StreamAssumption, Lines
<1>2. LineInv /\ [Next]_vars => LineInv'
  <2> SUFFICES ASSUME LineInv, [Next]_vars PROVE LineInv'  OBVIOUS
  <2>1. CASE UNCHANGED vars
    <3>1. Still  BY <2>1 DEF vars, Still, world, connVars, lineVars
    <3> QED BY <3>1, StillKeeps
  <2>2. CASE Next
    BY <2>2, OtherStepsAreStill, StillKeeps, TakeLineKeeps, SpawnKeeps, AvailabilityKeeps
  <2> QED BY <2>1, <2>2
<1>3. LineInv => NoLineSkipped  BY DEF LineInv
<1> QED BY <1>1, <1>2, <1>3, PTL DEF Spec

-----------------------------------------------------------------------------
(* Coverage *)

PCs == {"top", "spawning", "reading", "polling", "yielding", "closing", "abandoned",
        "up_check", "up_append", "up_clear", "up_done", "backoff", "ended", "idle", "done"}

CoverTypes ==
    /\ now \in Times
    /\ connStarted \in Mark
    /\ lastSuccess \in Mark
    /\ upIntervals \in Seq(Mark \X Times)
    /\ at \in [Threads -> Times]
    /\ pc \in [Threads -> PCs]

\* Each interval lies in the past and after the one before it; limit is a time none
\* of them exceeds.
InOrder(intervals, limit) ==
    /\ \A i \in DOMAIN intervals : /\ intervals[i][1] \in Times
                                   /\ intervals[i][1] <= intervals[i][2]
                                   /\ intervals[i][2] <= limit
    /\ \A i, j \in DOMAIN intervals : i < j => intervals[i][2] <= intervals[j][1]

\* The connection that gave lines and has no interval yet.
OpenInv ==
    connStarted # None =>
        /\ connStarted <= lastSuccess
        /\ lastSuccess # None
        /\ pc["consumer"] \notin {"top", "spawning", "backoff", "up_done"}
        /\ pc["consumer"] # "up_clear" => InOrder(upIntervals, connStarted)

\* The consumer on its way through the close of an interval.
ClosingInv ==
    /\ pc["consumer"] \in {"up_check", "up_append", "up_clear"} =>
           /\ lastSuccess # None => lastSuccess <= at["consumer"]
           /\ at["consumer"] <= now
    /\ pc["consumer"] \in {"up_append", "up_clear"} => connStarted # None
    /\ pc["consumer"] = "up_clear" =>
           /\ upIntervals # <<>>
           /\ upIntervals[Len(upIntervals)] = <<connStarted, at["consumer"]>>

\* The last line that came is in the open connection or in the last interval.
LastLineInv ==
    lastSuccess # None =>
        /\ lastSuccess <= now
        /\ connStarted = None =>
              /\ upIntervals # <<>>
              /\ upIntervals[Len(upIntervals)][1] <= lastSuccess
              /\ lastSuccess <= upIntervals[Len(upIntervals)][2]

CoverInv ==
    /\ CoverTypes
    /\ pc["stopper"] = "idle" =>
           InOrder(upIntervals, now) /\ OpenInv /\ ClosingInv /\ LastLineInv

\* The parts of the state that the intervals are made of.
Quiet == UNCHANGED <<now, connStarted, lastSuccess, upIntervals, at>>
ConsumerGoes(from, to) ==
    pc["consumer"] = from /\ pc' = [pc EXCEPT !["consumer"] = to]

\* The steps that only move the consumer, between places where the interval of its
\* connection is in the same state.
QuietMoves ==
    {<<"top", "ended">>, <<"top", "spawning">>, <<"spawning", "ended">>, <<"spawning", "backoff">>,
     <<"reading", "closing">>, <<"reading", "polling">>, <<"polling", "closing">>,
     <<"polling", "reading">>, <<"yielding", "reading">>, <<"yielding", "abandoned">>,
     <<"up_done", "ended">>, <<"up_done", "backoff">>, <<"backoff", "top">>}

LEMMA QuietConsumer ==
    ASSUME \/ OuterLoop \/ SpawnFails \/ InnerLoop \/ PollDead \/ PollStale \/ PollAgain
           \/ CallerResumes \/ CallerLeaves \/ AfterInterval \/ Backoff
    PROVE  Quiet /\ \E m \in QuietMoves : ConsumerGoes(m[1], m[2])
<1> USE DEF Quiet, ConsumerGoes, QuietMoves, Goto, world, lineVars, local
<1>1. CASE OuterLoop  BY <1>1 DEF OuterLoop
<1>2. CASE SpawnFails  BY <1>2 DEF SpawnFails
<1>3. CASE InnerLoop  BY <1>3 DEF InnerLoop
<1>4. CASE PollDead  BY <1>4 DEF PollDead
<1>5. CASE PollStale  BY <1>5 DEF PollStale
<1>6. CASE PollAgain  BY <1>6 DEF PollAgain
<1>7. CASE CallerResumes  BY <1>7 DEF CallerResumes
<1>8. CASE CallerLeaves  BY <1>8 DEF CallerLeaves
<1>9. CASE AfterInterval  BY <1>9 DEF AfterInterval
<1>10. CASE Backoff  BY <1>10 DEF Backoff
<1> QED BY <1>1, <1>2, <1>3, <1>4, <1>5, <1>6, <1>7, <1>8, <1>9, <1>10

\* The types of what the intervals are made of.
LEMMA CoverTypesStep ==
    ASSUME StreamAssumption, CoverTypes, Next
    PROVE  CoverTypes'
<1> USE DEF CoverTypes, world, connVars, lineVars, flags, local, Goto, PCs, Threads, Mark, Times
<1>1. CASE Tick  BY <1>1 DEF Tick, StreamAssumption
<1>2. CASE Log \/ ProcDies \/ ReadStdout \/ PoolStops
  BY <1>2 DEF Log, ProcDies, ReadStdout, PoolStops
<1>3. CASE \/ OuterLoop \/ SpawnFails \/ InnerLoop \/ PollDead \/ PollStale \/ PollAgain
           \/ CallerResumes \/ CallerLeaves \/ AfterInterval \/ Backoff
  BY <1>3, QuietConsumer DEF Quiet, QuietMoves, ConsumerGoes
<1>4. CASE Spawn  BY <1>4 DEF Spawn
<1>5. CASE TakeLine  BY <1>5 DEF TakeLine
<1>6. CASE Finally  BY <1>6 DEF Finally
<1>7. CASE StopCall  BY <1>7 DEF StopCall
<1>8. CASE StopKill  BY <1>8 DEF StopKill
<1>9. ASSUME NEW t \in Threads, Interval(t) PROVE CoverTypes'
  <2>1. CASE UpCheck(t)  BY <2>1 DEF UpCheck
  <2>2. CASE UpAppend(t)
    <3>1. <<connStarted, at[t]>> \in Mark \X Times  OBVIOUS
    <3>2. upIntervals' \in Seq(Mark \X Times)  BY <2>2, <3>1 DEF UpAppend
    <3> QED BY <2>2, <3>2 DEF UpAppend
  <2>3. CASE UpClear(t)  BY <2>3 DEF UpClear
  <2> QED BY <1>9, <2>1, <2>2, <2>3 DEF Interval
<1> QED BY <1>1, <1>2, <1>3, <1>4, <1>5, <1>6, <1>7, <1>8, <1>9 DEF Next, Consume

LEMMA Transitive == \A x, y, z \in Nat : x <= y /\ y <= z => x <= z
OBVIOUS

\* A longer sequence of intervals is in order when the new one comes last.
LEMMA AppendInOrder ==
    ASSUME NEW s \in Seq(Mark \X Times), NEW limit \in Times, InOrder(s, limit),
           NEW a \in Times, NEW b \in Times, limit <= a, a <= b, StreamAssumption
    PROVE  InOrder(Append(s, <<a, b>>), b)
<1> DEFINE longer == Append(s, <<a, b>>)
<1>1. /\ Len(s) \in Nat /\ Len(longer) = Len(s) + 1
      /\ DOMAIN longer = 1..(Len(s) + 1) /\ DOMAIN s = 1..Len(s)
      /\ longer[Len(s) + 1] = <<a, b>>
      /\ \A i \in DOMAIN s : longer[i] = s[i]
  OBVIOUS
<1>2. \A i \in DOMAIN s : /\ s[i][1] \in Times /\ s[i][1] <= s[i][2]
                          /\ s[i][2] <= limit /\ s[i][2] \in Times
  BY DEF InOrder
<1>3. Times \subseteq Nat  BY DEF Times, StreamAssumption
<1>3a. \A i \in DOMAIN s : s[i][2] <= a /\ s[i][2] <= b
  <2> SUFFICES ASSUME NEW i \in DOMAIN s PROVE s[i][2] <= a /\ s[i][2] <= b  OBVIOUS
  <2>1. s[i][2] \in Nat /\ limit \in Nat /\ a \in Nat /\ b \in Nat  BY <1>2, <1>3
  <2>2. s[i][2] <= limit  BY <1>2
  <2>3. s[i][2] <= a  BY <2>1, <2>2, Transitive
  <2> QED BY <2>1, <2>3, Transitive
<1> HIDE DEF longer
<1>4. \A i \in DOMAIN longer : i \in DOMAIN s \/ i = Len(s) + 1
  BY <1>1
<1>5. ASSUME NEW i \in DOMAIN longer
      PROVE  longer[i][1] \in Times /\ longer[i][1] <= longer[i][2] /\ longer[i][2] <= b
  <2>1. CASE i \in DOMAIN s
    <3>1. longer[i] = s[i]  BY <1>1, <2>1
    <3> QED BY <1>2, <1>3a, <2>1, <3>1
  <2>2. CASE i = Len(s) + 1  BY <1>1, <1>3, <2>2
  <2> QED BY <1>4, <2>1, <2>2
<1>6. ASSUME NEW i \in DOMAIN longer, NEW j \in DOMAIN longer, i < j
      PROVE  longer[i][2] <= longer[j][1]
  <2>1. i \in DOMAIN s  BY <1>1, <1>6
  <2>2. CASE j \in DOMAIN s  BY <1>1, <1>6, <2>1, <2>2 DEF InOrder
  <2>3. CASE j = Len(s) + 1
    <3>1. longer[i] = s[i] /\ longer[j][1] = a  BY <1>1, <2>1, <2>3
    <3> QED BY <1>3a, <2>1, <3>1
  <2> QED BY <1>4, <2>2, <2>3
<1>7. InOrder(longer, b)  BY <1>5, <1>6 DEF InOrder
<1> QED BY <1>7 DEF longer

\* A limit may grow.
LEMMA LaterLimit ==
    ASSUME StreamAssumption, NEW s \in Seq(Mark \X Times), NEW limit \in Times,
           NEW later \in Times, limit <= later, InOrder(s, limit)
    PROVE  InOrder(s, later)
<1>1. \A i \in DOMAIN s : s[i][2] \in Times  OBVIOUS
<1>2. Times \subseteq Nat  BY DEF Times, StreamAssumption
<1>3. ASSUME NEW i \in DOMAIN s PROVE s[i][2] <= later
  <2>1. s[i][2] \in Nat /\ limit \in Nat /\ later \in Nat  BY <1>1, <1>2
  <2>2. s[i][2] <= limit  BY DEF InOrder
  <2> QED BY <2>1, <2>2, Transitive
<1> QED BY <1>3 DEF InOrder

\* Until stop() comes in, every step keeps the intervals in order, and the last line
\* in the open connection or in the last of them.
LEMMA CoverStep ==
    ASSUME StreamAssumption, CoverInv, Next, pc'["stopper"] = "idle"
    PROVE  InOrder(upIntervals', now') /\ OpenInv' /\ ClosingInv' /\ LastLineInv'
<1> DEFINE Goal == InOrder(upIntervals', now') /\ OpenInv' /\ ClosingInv' /\ LastLineInv'
<1>a. CoverTypes /\ "stopper" \in Threads /\ "consumer" \in Threads
  BY DEF CoverInv, Threads
<1>b. Times \subseteq Nat /\ None \notin Times
  BY DEF Times, StreamAssumption
<1>c. ~ StopCall /\ ~ StopKill
  BY <1>a DEF StopCall, StopKill, Goto, CoverTypes
<1>d. pc["stopper"] = "idle"
  <2>1. ASSUME ~ \E t \in Threads : Interval(t) PROVE pc'["stopper"] = pc["stopper"]
    BY <1>a, <1>c, <2>1 DEF Next, Consume, Tick, Log, ProcDies, ReadStdout, PoolStops, OuterLoop, Spawn,
       SpawnFails, InnerLoop, TakeLine, PollDead, PollStale, PollAgain, CallerResumes,
       CallerLeaves, Finally, AfterInterval, Backoff, Goto, CoverTypes
  <2>2. ASSUME NEW t \in Threads, Interval(t) PROVE pc'["stopper"] = pc["stopper"]
    BY <1>a, <2>2 DEF Interval, UpCheck, UpAppend, UpClear, Goto, CoverTypes
  <2> QED BY <2>1, <2>2
<1>e. InOrder(upIntervals, now) /\ OpenInv /\ ClosingInv /\ LastLineInv
  BY <1>d DEF CoverInv
<1> HIDE DEF Goal
<1>1. CASE Tick
  <2>1. now' \in Times /\ now <= now'
    BY <1>1, <1>a, <1>b DEF Tick, Times, CoverTypes, StreamAssumption
  <2>2. InOrder(upIntervals, now')
    BY <1>a, <1>e, <2>1, LaterLimit DEF CoverTypes
  <2>3. UNCHANGED <<connStarted, lastSuccess, upIntervals, at, pc>>
    BY <1>1 DEF Tick, lineVars, local
  <2>4. now \in Nat /\ now' \in Nat /\ at["consumer"] \in Nat
    BY <1>a, <1>b, <2>1 DEF CoverTypes
  <2>5. at["consumer"] <= now => at["consumer"] <= now'
    BY <2>1, <2>4, Transitive
  <2>6. lastSuccess # None => lastSuccess <= now'
    <3> SUFFICES ASSUME lastSuccess # None PROVE lastSuccess <= now'  OBVIOUS
    <3>1. lastSuccess \in Nat /\ lastSuccess <= now
      BY <1>a, <1>b, <1>e DEF LastLineInv, CoverTypes, Mark
    <3> QED BY <2>1, <2>4, <3>1, Transitive
  <2>7. OpenInv' /\ LastLineInv'
    BY <1>e, <2>3, <2>6 DEF OpenInv, LastLineInv
  <2>8. ClosingInv'
    BY <1>e, <2>3, <2>5 DEF ClosingInv
  <2> QED
    BY <2>2, <2>3, <2>7, <2>8 DEF Goal
<1>2. CASE Log \/ ProcDies \/ ReadStdout \/ PoolStops
  <2>1. Quiet /\ UNCHANGED pc
    BY <1>2 DEF Log, ProcDies, ReadStdout, PoolStops, Quiet, world, lineVars, local
  <2> QED
    BY <1>e, <2>1 DEF Goal, OpenInv, ClosingInv, LastLineInv, Quiet
<1>3. CASE \/ OuterLoop \/ SpawnFails \/ InnerLoop \/ PollDead \/ PollStale \/ PollAgain
           \/ CallerResumes \/ CallerLeaves \/ AfterInterval \/ Backoff
  <2>1. Quiet
    BY <1>3, QuietConsumer
  <2>2. PICK m \in QuietMoves : ConsumerGoes(m[1], m[2])
    BY <1>3, QuietConsumer
  <2>3. /\ pc'["consumer"] \notin {"up_check", "up_append", "up_clear"}
        /\ pc["consumer"] # "up_clear"
        /\ pc'["consumer"] \in {"top", "spawning", "backoff", "up_done"} =>
               pc["consumer"] \in {"top", "spawning", "backoff", "up_done"}
    BY <1>a, <2>2 DEF QuietMoves, ConsumerGoes, CoverTypes
  <2> QED
    BY <1>e, <2>1, <2>3 DEF Goal, OpenInv, ClosingInv, LastLineInv, Quiet
<1>4. CASE Spawn
  <2>1. /\ pc["consumer"] = "spawning" /\ pc'["consumer"] = "reading"
        /\ connStarted' = None
        /\ UNCHANGED <<now, lastSuccess, upIntervals, at>>
    BY <1>4, <1>a DEF Spawn, Goto, lineVars, CoverTypes
  <2>2. connStarted = None
    BY <1>e, <2>1 DEF OpenInv
  <2> QED
    BY <1>e, <2>1, <2>2 DEF Goal, OpenInv, ClosingInv, LastLineInv
<1>5. CASE TakeLine
  <2>1. /\ pc["consumer"] = "polling" /\ pc'["consumer"] = "yielding"
        /\ connStarted' = IF connStarted = None THEN now ELSE connStarted
        /\ lastSuccess' = now
        /\ UNCHANGED <<now, upIntervals, at>>
    BY <1>5, <1>a DEF TakeLine, Goto, world, local, CoverTypes
  <2>2. now \in Times /\ now \in Nat /\ now # None /\ connStarted \in Mark /\ lastSuccess \in Mark
    BY <1>a, <1>b DEF CoverTypes
  <2>3. CASE connStarted = None
    BY <1>e, <2>1, <2>2, <2>3 DEF Goal, OpenInv, ClosingInv, LastLineInv
  <2>4. CASE connStarted # None
    <3>1. connStarted \in Nat /\ lastSuccess \in Nat
      BY <1>b, <1>e, <2>2, <2>4 DEF OpenInv, Mark
    <3>2. connStarted <= lastSuccess /\ lastSuccess <= now /\ InOrder(upIntervals, connStarted)
      BY <1>e, <2>1, <2>4 DEF OpenInv, LastLineInv
    <3>3. connStarted <= now
      BY <2>2, <3>1, <3>2, Transitive
    <3> QED
      BY <1>e, <2>1, <2>2, <2>4, <3>2, <3>3 DEF Goal, OpenInv, ClosingInv, LastLineInv
  <2> QED BY <2>3, <2>4
<1>6. CASE Finally
  <2>1. /\ \/ pc["consumer"] = "closing" /\ pc'["consumer"] = "up_check"
           \/ pc["consumer"] = "abandoned" /\ pc'["consumer"] = "ended"
        /\ at'["consumer"] = now
        /\ UNCHANGED <<now, connStarted, lastSuccess, upIntervals>>
    BY <1>6, <1>a DEF Finally, Goto, world, lineVars, CoverTypes
  <2>2. now \in Nat
    BY <1>a, <1>b DEF CoverTypes
  <2> QED
    BY <1>e, <2>1, <2>2 DEF Goal, OpenInv, ClosingInv, LastLineInv
<1>7. CASE \E t \in Threads : Interval(t)
  <2>1. Interval("consumer")
    BY <1>7, <1>d DEF Interval, UpCheck, UpAppend, UpClear, Goto, Threads
  <2>2. CASE UpCheck("consumer")
    <3>1. /\ pc["consumer"] = "up_check"
          /\ pc'["consumer"] = IF connStarted = None THEN "up_done" ELSE "up_append"
          /\ UNCHANGED <<now, connStarted, lastSuccess, upIntervals, at>>
      BY <1>a, <2>2 DEF UpCheck, Goto, world, lineVars, local, CoverTypes
    <3> QED
      BY <1>e, <3>1 DEF Goal, OpenInv, ClosingInv, LastLineInv
  <2>3. CASE UpAppend("consumer")
    <3>1. /\ pc["consumer"] = "up_append" /\ pc'["consumer"] = "up_clear"
          /\ upIntervals' = Append(upIntervals, <<connStarted, at["consumer"]>>)
          /\ UNCHANGED <<now, connStarted, lastSuccess, at>>
      BY <1>a, <2>3 DEF UpAppend, Goto, world, lineVars, local, CoverTypes
    <3>2. /\ connStarted # None /\ connStarted <= lastSuccess /\ lastSuccess # None
          /\ lastSuccess <= at["consumer"] /\ at["consumer"] <= now /\ lastSuccess <= now
          /\ InOrder(upIntervals, connStarted)
      BY <1>e, <3>1 DEF OpenInv, ClosingInv, LastLineInv
    <3>3. connStarted \in Times /\ lastSuccess \in Times /\ at["consumer"] \in Times /\ now \in Times
      BY <1>a, <3>2 DEF CoverTypes, Mark
    <3>4. connStarted <= at["consumer"] /\ connStarted <= connStarted
      <4>1. connStarted \in Nat /\ lastSuccess \in Nat /\ at["consumer"] \in Nat
        BY <1>b, <3>3
      <4> QED BY <4>1, <3>2, Transitive
    <3>5. InOrder(upIntervals', at["consumer"])
      BY <1>a, <3>1, <3>2, <3>3, <3>4, AppendInOrder DEF CoverTypes
    <3>6. upIntervals' \in Seq(Mark \X Times)
      BY <1>a, CoverTypesStep DEF CoverTypes
    <3>7. InOrder(upIntervals', now')
      BY <3>1, <3>2, <3>3, <3>5, <3>6, LaterLimit
    <3>8. /\ upIntervals' # <<>>
          /\ upIntervals'[Len(upIntervals')] = <<connStarted, at["consumer"]>>
      BY <1>a, <3>1 DEF CoverTypes
    <3> QED
      BY <3>1, <3>2, <3>7, <3>8 DEF Goal, OpenInv, ClosingInv, LastLineInv
  <2>4. CASE UpClear("consumer")
    <3>1. /\ pc["consumer"] = "up_clear" /\ pc'["consumer"] = "up_done"
          /\ connStarted' = None
          /\ UNCHANGED <<now, upIntervals, lastSuccess, at>>
      BY <1>a, <2>4 DEF UpClear, Goto, world, lineVars, local, CoverTypes
    <3>2. /\ upIntervals # <<>>
          /\ upIntervals[Len(upIntervals)] = <<connStarted, at["consumer"]>>
          /\ connStarted <= lastSuccess
          /\ lastSuccess # None => lastSuccess <= at["consumer"] /\ lastSuccess <= now
      BY <1>e, <3>1 DEF OpenInv, ClosingInv, LastLineInv
    <3> QED
      BY <1>e, <3>1, <3>2 DEF Goal, OpenInv, ClosingInv, LastLineInv
  <2> QED BY <2>1, <2>2, <2>3, <2>4 DEF Interval
<1> QED
  BY <1>c, <1>1, <1>2, <1>3, <1>4, <1>5, <1>6, <1>7 DEF Next, Consume, Goal

\* As long as stop() has not come in, the up intervals of the report are coverage:
\* each belongs to a connection that gave lines, they do not overlap, and the last
\* line that came lies in the last of them or in the connection that is open (lines()
\* closes an interval with the fields that stop() closes it with, without a lock).
THEOREM IntervalsAreCoverage ==
    ASSUME StreamAssumption PROVE Spec => []CoverageBeforeStop
<1>1. Init => CoverInv
  BY DEF Init, CoverInv, CoverTypes, PCs, Threads, Mark, Times, InOrder, OpenInv, ClosingInv,
         LastLineInv, StreamAssumption
<1>2. CoverInv /\ [Next]_vars => CoverInv'
  <2>1. ASSUME CoverInv, Next PROVE CoverInv'
    BY <2>1, CoverTypesStep, CoverStep DEF CoverInv
  <2>2. ASSUME CoverInv, UNCHANGED vars PROVE CoverInv'
    BY <2>2 DEF vars, world, lineVars, local, CoverInv, CoverTypes, InOrder, OpenInv, ClosingInv, LastLineInv
  <2> QED BY <2>1, <2>2
<1>3. CoverInv => CoverageBeforeStop
  <2> SUFFICES ASSUME CoverInv, pc["stopper"] = "idle"
               PROVE  /\ \A i \in DOMAIN upIntervals : upIntervals[i][1] # None
                      /\ Disjoint(upIntervals)
                      /\ lastSuccess # None =>
                            \/ connStarted # None /\ connStarted <= lastSuccess
                            \/ /\ upIntervals # <<>>
                               /\ upIntervals[Len(upIntervals)][1] <= lastSuccess
                               /\ lastSuccess <= upIntervals[Len(upIntervals)][2]
    BY DEF CoverageBeforeStop
  <2>1. InOrder(upIntervals, now) /\ OpenInv /\ LastLineInv /\ None \notin Times /\ Times \subseteq Nat
    BY DEF CoverInv, Times, StreamAssumption
  <2>2. \A i \in DOMAIN upIntervals : upIntervals[i][1] # None
    BY <2>1 DEF InOrder
  <2>3. ASSUME NEW i \in DOMAIN upIntervals, NEW j \in DOMAIN upIntervals, i < j
        PROVE  ~ Overlap(upIntervals[i], upIntervals[j])
    <3>1. upIntervals[i][2] \in Nat /\ upIntervals[j][1] \in Nat
      <4>1. upIntervals[i] \in Mark \X Times  BY DEF CoverInv, CoverTypes
      <4>2. upIntervals[j][1] \in Times  BY <2>1 DEF InOrder
      <4> QED BY <2>1, <4>1, <4>2
    <3>2. upIntervals[i][2] <= upIntervals[j][1]
      BY <2>1, <2>3 DEF InOrder
    <3>3. ~ (upIntervals[j][1] < upIntervals[i][2])
      BY <3>1, <3>2
    <3> QED BY <3>3 DEF Overlap
  <2> QED BY <2>1, <2>2, <2>3 DEF Disjoint, OpenInv, LastLineInv
<1> QED BY <1>1, <1>2, <1>3, PTL DEF Spec

-----------------------------------------------------------------------------
(* The processes *)

RowType == [event : {"new", "restart", "gone"}, old : Nat, pid : Nat, after : BOOLEAN]
WatchTypes ==
    /\ lastPid \in Nat
    /\ lives \in [WatchNames -> 0 .. lastPid]
    /\ table \in [WatchNames -> 0 .. lastPid]
    /\ startOf \in [WatchNames -> 0 .. lastPid]
    /\ goneAt \subseteq WatchNames /\ wiped \subseteq WatchNames
    /\ rows \in [WatchNames -> Seq(RowType)]

\* What the device monitor cleared is in neither table: its next row is a new one.
ClearedIsUnknown == \A n \in wiped : table[n] = 0 /\ n \notin goneAt

WatchInv == WatchTypes /\ ClearedIsUnknown /\ WatchTruthful

\* A pass of the watcher adds a row to a process or none.
LEMMA OneRowAtMost ==
    ASSUME WatchTypes, NEW found \in SUBSET WatchNames, NEW n \in WatchNames
    PROVE  RowsOf(n, found) = <<>> \/ \E row \in RowType : RowsOf(n, found) = <<row>>
<1>1. lives[n] \in Nat /\ table[n] \in Nat /\ (n \in wiped) \in BOOLEAN
  BY DEF WatchTypes
<1>2. Row(n, "gone", table[n], 0) \in RowType
  BY <1>1 DEF Row, RowType
<1>3. Row(n, "restart", table[n], lives[n]) \in RowType
  BY <1>1 DEF Row, RowType
<1>4. NewRow(n) \in RowType
  BY <1>1 DEF NewRow, Row, RowType
<1> QED
  BY <1>2, <1>3, <1>4 DEF RowsOf

\* What the rows of one process say, of which the last is its present state.
RowsInOrder(n) ==
    \A i \in 2 .. Len(rows[n]) :
        LET row == rows[n][i]  before == rows[n][i - 1] IN
        /\ row.event = "restart" => row.old = before.pid
        /\ row.event = "gone" => before.pid = row.old
        /\ row.event = "new" => row.after
Told(n) == IF rows[n] = <<>> THEN 0 ELSE Last(rows[n]).pid
TellsTable(n) == table[n] = Told(n) /\ (n \in goneAt <=> rows[n] # <<>> /\ Told(n) = 0)

LEMMA WatchByProcess ==
    /\ RestartsFollowALife <=> \A n \in WatchNames : RowsInOrder(n)
    /\ RowsTellTable <=> \A n \in WatchNames \ wiped : TellsTable(n)
BY DEF RestartsFollowALife, RowsInOrder, RowsTellTable, TellsTable, Told

\* discover() finds processes of the package that run.
LEMMA FoundAreOurs ==
    ASSUME NEW found \in Discoveries
    PROVE  found \subseteq {n \in OwnNames : lives[n] # 0} /\ found \subseteq WatchNames
BY DEF Discoveries, Discovered, WatchNames

LEMMA ReconcileTellsTheTruth == WatchInv /\ Reconcile => WatchInv'
<1> SUFFICES ASSUME WatchInv, Reconcile PROVE WatchInv'
  OBVIOUS
<1>1. PICK found \in Discoveries :
         /\ rows' = [n \in WatchNames |-> rows[n] \o RowsOf(n, found)]
         /\ table' = [n \in WatchNames |-> IF n \in found THEN lives[n] ELSE 0]
         /\ goneAt' = (goneAt \ found) \cup {n \in WatchNames \ found : table[n] # 0}
         /\ startOf' = [n \in WatchNames |-> IF StartNow(n, found) THEN lives[n] ELSE startOf[n]]
         /\ wiped' = wiped \ found
  BY DEF Reconcile
<1>f. found \subseteq {n \in OwnNames : lives[n] # 0} /\ found \subseteq WatchNames
  BY FoundAreOurs
<1>u. UNCHANGED <<lives, lastPid>>
  BY DEF Reconcile
<1>t. WatchTypes
  BY DEF WatchInv
<1>2. WatchTypes'
  <2>1. rows' \in [WatchNames -> Seq(RowType)]
    <3>1. ASSUME NEW n \in WatchNames PROVE rows[n] \o RowsOf(n, found) \in Seq(RowType)
      <4>1. rows[n] \in Seq(RowType)
        BY <1>t DEF WatchTypes
      <4>2. RowsOf(n, found) \in Seq(RowType)
        <5>1. CASE RowsOf(n, found) = <<>>
          BY <5>1
        <5>2. CASE \E row \in RowType : RowsOf(n, found) = <<row>>
          BY <5>2
        <5> QED BY <5>1, <5>2, <1>t, <1>f, OneRowAtMost
      <4> QED BY <4>1, <4>2
    <3> QED BY <3>1, <1>1
  <2> QED
    BY <2>1, <1>1, <1>t, <1>u, <1>f DEF WatchTypes
<1>3. ClearedIsUnknown'
  BY <1>1, <1>t DEF WatchInv, ClearedIsUnknown, WatchTypes
<1>4. OnlyOwnProcesses'
  <2>1. SUFFICES ASSUME NEW n \in Lookalikes PROVE table'[n] = 0 /\ rows'[n] = <<>>
    BY DEF OnlyOwnProcesses
  <2>2. n \in WatchNames /\ n \notin found /\ table[n] = 0 /\ rows[n] = <<>>
    BY <1>f, WatchAssumption DEF WatchNames, WatchInv, WatchTruthful, OnlyOwnProcesses
  <2>3. RowsOf(n, found) = <<>>
    BY <2>2 DEF RowsOf
  <2> QED BY <2>2, <2>3, <1>1
<1>5. StartNotStale'
  <2>1. ASSUME NEW n \in WatchNames, table'[n] # 0 PROVE startOf'[n] = 0 \/ startOf'[n] >= table'[n]
    <3>1. n \in found /\ table'[n] = lives[n]
      BY <2>1, <1>1
    <3>2. CASE table[n] # lives[n]
      BY <3>1, <3>2, <1>1, <1>t DEF StartNow, WatchTypes
    <3>3. CASE table[n] = lives[n]
      BY <3>1, <3>3, <1>1, <2>1, <1>t DEF StartNow, WatchInv, WatchTruthful, StartNotStale
    <3> QED BY <3>2, <3>3
  <2> QED BY <2>1 DEF StartNotStale
<1>6. ASSUME NEW n \in WatchNames
      PROVE  RowsInOrder(n)' /\ (n \notin wiped' => TellsTable(n)')
  <2>0. /\ rows[n] \in Seq(RowType) /\ lives[n] \in Nat /\ table[n] \in Nat
        /\ RowsInOrder(n) /\ (n \notin wiped => TellsTable(n))
        /\ n \in wiped => table[n] = 0 /\ n \notin goneAt
    BY <1>t, WatchByProcess DEF WatchTypes, WatchInv, WatchTruthful, ClearedIsUnknown
  <2>1. rows'[n] = rows[n] \o RowsOf(n, found)
    BY <1>1
  <2>2. /\ n \in found => lives[n] # 0 /\ table'[n] = lives[n] /\ n \notin goneAt' /\ n \notin wiped'
        /\ n \notin found => table'[n] = 0 /\ (n \in goneAt' <=> n \in goneAt \/ table[n] # 0)
                             /\ (n \in wiped' <=> n \in wiped)
    BY <1>1, <1>f
  <2>3. CASE RowsOf(n, found) = <<>>
    <3>1. rows'[n] = rows[n]
      BY <2>1, <2>3, <2>0
    <3>2. \/ n \in found /\ table[n] # 0 /\ table[n] = lives[n]
          \/ n \notin found /\ table[n] = 0
      <4>1. CASE n \notin found /\ table[n] # 0
        BY <4>1, <2>3 DEF RowsOf
      <4>2. CASE n \in found /\ table[n] # 0 /\ table[n] # lives[n]
        BY <4>2, <2>3 DEF RowsOf
      <4>3. CASE n \in found /\ table[n] = 0
        BY <4>3, <2>3 DEF RowsOf
      <4> QED BY <4>1, <4>2, <4>3
    <3>3. RowsInOrder(n)'
      BY <3>1, <2>0 DEF RowsInOrder
    <3>4. Told(n)' = Told(n)
      BY <3>1 DEF Told
    <3> QED BY <3>1, <3>2, <3>3, <3>4, <2>2, <2>0 DEF TellsTable
  <2>4. CASE RowsOf(n, found) # <<>>
    <3>1. PICK row \in RowType : RowsOf(n, found) = <<row>>
      BY <2>4, <1>t, <1>f, OneRowAtMost
    <3>2. /\ Len(rows'[n]) = Len(rows[n]) + 1 /\ rows'[n][Len(rows[n]) + 1] = row
          /\ \A i \in 1 .. Len(rows[n]) : rows'[n][i] = rows[n][i]
          /\ rows'[n] # <<>> /\ rows'[n] \in Seq(RowType)
      BY <2>1, <3>1, <2>0
    <3>3. Told(n)' = row.pid
      BY <3>2, <2>0 DEF Told, Last
    <3>4. rows[n] # <<>> => Told(n) = rows[n][Len(rows[n])].pid
      BY <2>0 DEF Told, Last
    <3>w. n \in wiped \/ n \in goneAt \/ table[n] # 0 \/ rows[n] = <<>>
      BY <2>0 DEF TellsTable
    <3>5. /\ \/ n \notin found /\ row = Row(n, "gone", table[n], 0) /\ table[n] # 0
             \/ n \in found /\ row = Row(n, "restart", table[n], lives[n]) /\ table[n] # 0
             \/ n \in found /\ table[n] = 0 /\ row = NewRow(n)
      BY <3>1, <2>4 DEF RowsOf
    <3>6. row.pid = table'[n]
      BY <3>5, <2>2 DEF Row, NewRow
    <3>7. TellsTable(n)'
      BY <3>2, <3>3, <3>5, <3>6, <2>2, <2>0 DEF TellsTable
    <3>8. ASSUME rows[n] # <<>>
          PROVE  LET before == rows[n][Len(rows[n])] IN
                 /\ row.event = "restart" => row.old = before.pid
                 /\ row.event = "gone" => before.pid = row.old
                 /\ row.event = "new" => row.after
      <4>1. n \notin wiped => table[n] = rows[n][Len(rows[n])].pid
                              /\ (n \in goneAt <=> rows[n][Len(rows[n])].pid = 0)
        BY <3>8, <3>4, <2>0 DEF TellsTable
      <4>2. CASE n \notin found /\ row = Row(n, "gone", table[n], 0) /\ table[n] # 0
        BY <4>1, <4>2, <2>0 DEF Row
      <4>3. CASE n \in found /\ row = Row(n, "restart", table[n], lives[n]) /\ table[n] # 0
        BY <4>1, <4>3, <2>0 DEF Row
      <4>4. CASE n \in found /\ table[n] = 0 /\ row = NewRow(n) /\ n \in goneAt
        BY <4>1, <4>4, <2>0 DEF Row, NewRow
      <4>5. CASE n \in found /\ table[n] = 0 /\ row = NewRow(n) /\ n \notin goneAt
        <5>1. n \in wiped
          BY <4>1, <4>5
        <5> QED BY <4>5, <5>1 DEF Row, NewRow
      <4> QED BY <4>2, <4>3, <4>4, <4>5, <3>5
    <3>9. RowsInOrder(n)'
      <4>1. SUFFICES ASSUME NEW i \in 2 .. Len(rows'[n])
                     PROVE  LET r == rows'[n][i]  before == rows'[n][i - 1] IN
                            /\ r.event = "restart" => r.old = before.pid
                            /\ r.event = "gone" => before.pid = r.old
                            /\ r.event = "new" => r.after
        BY DEF RowsInOrder
      <4>2. CASE i = Len(rows[n]) + 1
        <5>1. rows[n] # <<>> /\ i - 1 = Len(rows[n]) /\ i - 1 \in 1 .. Len(rows[n])
          BY <4>1, <4>2, <2>0
        <5>2. rows'[n][i] = row /\ rows'[n][i - 1] = rows[n][Len(rows[n])]
          BY <5>1, <4>2, <3>2
        <5> QED BY <5>1, <5>2, <3>8
      <4>3. CASE i # Len(rows[n]) + 1
        <5>1. i \in 2 .. Len(rows[n]) /\ i \in 1 .. Len(rows[n]) /\ i - 1 \in 1 .. Len(rows[n])
          BY <4>1, <4>3, <3>2, <2>0
        <5>2. rows'[n][i] = rows[n][i] /\ rows'[n][i - 1] = rows[n][i - 1]
          BY <5>1, <3>2
        <5> QED BY <5>1, <5>2, <2>0 DEF RowsInOrder
      <4> QED BY <4>2, <4>3
    <3> QED BY <3>7, <3>9
  <2> QED BY <2>3, <2>4
<1>7. (RestartsFollowALife /\ RowsTellTable)'
  <2>1. (\A n \in WatchNames : RowsInOrder(n))' /\ (\A n \in WatchNames \ wiped : TellsTable(n))'
    BY <1>6
  <2> QED
    BY <2>1 DEF RestartsFollowALife, RowsInOrder, RowsTellTable, TellsTable, Told
<1> QED
  BY <1>2, <1>3, <1>4, <1>5, <1>7 DEF WatchInv, WatchTruthful

LEMMA WatchInvInit == WatchInit => WatchInv
<1> SUFFICES ASSUME WatchInit PROVE WatchInv
  OBVIOUS
<1>1. WatchTypes
  <2>1. \A n \in WatchNames : rows[n] \in Seq(RowType)
    <3>1. ASSUME NEW n \in WatchNames PROVE rows[n] \in Seq(RowType)
      <4> DEFINE row == [event |-> "new", old |-> 0, pid |-> table[n], after |-> FALSE]
      <4>1. rows[n] = <<>> \/ rows[n] = <<row>>
        BY DEF WatchInit
      <4>2. table[n] \in Nat
        BY DEF WatchInit
      <4>3. row \in RowType
        BY <4>2 DEF RowType
      <4>4. \A r \in RowType : <<r>> \in Seq(RowType)
        OBVIOUS
      <4>5. <<row>> \in Seq(RowType)
        BY <4>3, <4>4
      <4>6. <<>> \in Seq(RowType)
        OBVIOUS
      <4> HIDE DEF row
      <4> QED BY <4>1, <4>5, <4>6
    <3> QED BY <3>1
  <2> QED
    BY <2>1 DEF WatchInit, WatchTypes, None0
<1>2. OnlyOwnProcesses
  BY WatchAssumption DEF WatchInit, OnlyOwnProcesses, WatchNames
<1>3. RowsTellTable /\ RestartsFollowALife
  <2>1. ASSUME NEW n \in WatchNames, rows[n] # <<>>
        PROVE  /\ rows[n] = <<[event |-> "new", old |-> 0, pid |-> table[n], after |-> FALSE]>>
               /\ table[n] # 0
    BY <2>1 DEF WatchInit
  <2>2. \A n \in WatchNames : rows[n] = <<>> => table[n] = 0
    BY DEF WatchInit
  <2>3. \A n \in WatchNames : n \notin goneAt
    BY DEF WatchInit
  <2>4. ASSUME NEW n \in WatchNames PROVE RowsInOrder(n) /\ TellsTable(n)
    <3>1. CASE rows[n] = <<>>
      BY <3>1, <2>2, <2>3 DEF RowsInOrder, TellsTable, Told
    <3>2. CASE rows[n] # <<>>
      <4>1. Len(rows[n]) = 1 /\ Last(rows[n]).pid = table[n] /\ table[n] # 0
        <5> DEFINE row == [event |-> "new", old |-> 0, pid |-> table[n], after |-> FALSE]
        <5>1. rows[n] = <<row>> /\ row.pid = table[n] /\ table[n] # 0
          BY <3>2, <2>1
        <5> HIDE DEF row
        <5>2. Len(<<row>>) = 1 /\ <<row>>[1] = row
          OBVIOUS
        <5> QED BY <5>1, <5>2 DEF Last
      <4> QED BY <3>2, <4>1, <2>3 DEF RowsInOrder, TellsTable, Told
    <3> QED BY <3>1, <3>2
  <2> QED BY <2>4, WatchByProcess
<1>4. StartNotStale /\ ClearedIsUnknown
  BY DEF WatchInit, StartNotStale, ClearedIsUnknown, None0
<1> QED BY <1>1, <1>2, <1>3, <1>4 DEF WatchInv, WatchTruthful

\* Whatever names the package and others have, however often processes restart and
\* discoveries fail: what the table and the lifecycle rows tell of a process is of
\* its present life, and of the package (discover() and _reconcile, pool.py).
THEOREM WatchIsTruthful == WatchSpec => []WatchTruthful
<1>1. ASSUME WatchInv, [WatchNext]_watchVars PROVE WatchInv'
  <2>1. CASE ProcessStarts
    <3>1. UNCHANGED <<table, goneAt, rows, wiped>> /\ lastPid' = lastPid + 1
      BY <2>1 DEF ProcessStarts
    <3>2. WatchTypes' /\ \A n \in WatchNames : startOf'[n] = startOf[n] \/ startOf'[n] = lastPid'
      <4>1. PICK n \in WatchNames, shown \in BOOLEAN :
               /\ lives' = [lives EXCEPT ![n] = lastPid']
               /\ startOf' = IF shown /\ n \in OwnNames /\ startOf[n] = 0
                             THEN [startOf EXCEPT ![n] = lastPid'] ELSE startOf
        BY <2>1 DEF ProcessStarts
      <4> QED BY <4>1, <3>1, <1>1 DEF WatchInv, WatchTypes
    <3>3. StartNotStale'
      <4>1. ASSUME NEW n \in WatchNames, table'[n] # 0 PROVE startOf'[n] = 0 \/ startOf'[n] >= table'[n]
        <5>1. table[n] \in 0 .. lastPid /\ lastPid \in Nat /\ table'[n] = table[n]
          BY <3>1, <1>1 DEF WatchInv, WatchTypes
        <5>2. CASE startOf'[n] = lastPid'
          BY <5>1, <5>2, <3>1
        <5>3. CASE startOf'[n] = startOf[n]
          BY <5>1, <5>3, <4>1, <1>1 DEF WatchInv, WatchTruthful, StartNotStale
        <5> QED BY <5>2, <5>3, <3>2
      <4> QED BY <4>1 DEF StartNotStale
    <3> QED
      BY <3>1, <3>2, <3>3, <1>1 DEF WatchInv, ClearedIsUnknown, WatchTruthful, OnlyOwnProcesses,
            RowsTellTable, RestartsFollowALife
  <2>2. CASE ProcessDies
    <3>1. UNCHANGED <<lastPid, table, goneAt, startOf, rows, wiped>>
      BY <2>2 DEF ProcessDies
    <3>2. WatchTypes'
      BY <3>1, <2>2, <1>1 DEF WatchInv, WatchTypes, ProcessDies
    <3> QED
      BY <3>1, <3>2, <1>1 DEF WatchInv, ClearedIsUnknown, WatchTruthful, OnlyOwnProcesses,
            RowsTellTable, RestartsFollowALife, StartNotStale
  <2>3. CASE Recovered
    <3>1. /\ table' = None0 /\ goneAt' = {} /\ wiped' = {n \in WatchNames : Len(rows[n]) > 0}
          /\ UNCHANGED <<lives, lastPid, startOf, rows>>
      BY <2>3 DEF Recovered
    <3>2. WatchTypes' /\ ClearedIsUnknown' /\ StartNotStale'
      BY <3>1, <1>1 DEF WatchInv, WatchTypes, ClearedIsUnknown, StartNotStale, None0
    <3>3. OnlyOwnProcesses' /\ RestartsFollowALife'
      BY <3>1, <1>1 DEF WatchInv, WatchTruthful, OnlyOwnProcesses, RestartsFollowALife, None0, WatchNames
    <3>4. RowsTellTable'
      <4>1. \A n \in WatchNames \ wiped' : rows'[n] = <<>>
        <5>1. \A n \in WatchNames : rows[n] \in Seq(RowType)
          BY <1>1 DEF WatchInv, WatchTypes
        <5> QED BY <5>1, <3>1
      <4> QED BY <4>1, <3>1 DEF RowsTellTable, None0
    <3> QED BY <3>2, <3>3, <3>4 DEF WatchInv, WatchTruthful
  <2>4. CASE UNCHANGED watchVars
    BY <2>4, <1>1 DEF watchVars, WatchInv, WatchTypes, ClearedIsUnknown, WatchTruthful,
          OnlyOwnProcesses, RowsTellTable, RestartsFollowALife, StartNotStale
  <2> QED
    BY <2>1, <2>2, <2>3, <2>4, <1>1, ReconcileTellsTheTruth DEF WatchNext
<1>2. WatchInv => WatchTruthful
  BY DEF WatchInv
<1> QED
  BY WatchInvInit, <1>1, <1>2, PTL DEF WatchSpec
-----------------------------------------------------------------------------
(* The adb client that the collectors share *)

CallSteps == {"idle", "waits", "executes", "pauses", "gives up"}
CallType == [step : CallSteps, attempt : Nat, retries : Nat]
AdbTypes ==
    /\ call \in [AdbThreads -> CallType] /\ freeSlots \in Nat
    /\ adbCounts \in [calls : Nat, failures : Nat]

\* A call gives up after its last attempt, and pauses only before another.
Counted(v) ==
    /\ v.attempt <= v.retries
    /\ v.step = "pauses" => v.attempt < v.retries
    /\ v.step = "gives up" => v.attempt = v.retries
AttemptsCounted == \A c \in AdbThreads : Counted(call[c])

\* The slots of a call.
Slots(v) == IF v.step = "executes" THEN 1 ELSE 0
Executing == {c \in AdbThreads : CallAt(c, "executes")}
AdbInv == AdbTypes /\ AttemptsCounted /\ SlotsMatchCommands

LEMMA NoCallTyped == NoCall \in CallType /\ Counted(NoCall) /\ Slots(NoCall) = 0
BY DEF NoCall, CallType, CallSteps, Counted, Slots

LEMMA StepTyped ==
    ASSUME NEW v \in CallType, NEW s \in CallSteps
    PROVE  /\ [v EXCEPT !.step = s] \in CallType /\ [v EXCEPT !.step = s].step = s
           /\ [v EXCEPT !.step = s].attempt = v.attempt /\ [v EXCEPT !.step = s].retries = v.retries
BY DEF CallType

LEMMA AttemptTyped ==
    ASSUME NEW v \in CallType, NEW n \in Nat
    PROVE  /\ [v EXCEPT !.attempt = n] \in CallType /\ [v EXCEPT !.attempt = n].step = v.step
           /\ [v EXCEPT !.attempt = n].attempt = n /\ [v EXCEPT !.attempt = n].retries = v.retries
BY DEF CallType

LEMMA RetriesTyped ==
    ASSUME NEW v \in CallType, NEW n \in Nat
    PROVE  /\ [v EXCEPT !.retries = n] \in CallType /\ [v EXCEPT !.retries = n].step = v.step
           /\ [v EXCEPT !.retries = n].attempt = v.attempt /\ [v EXCEPT !.retries = n].retries = n
BY DEF CallType

\* A slot is taken when a call begins to execute, and given back when it stops.
LEMMA SlotsFollowCalls ==
    ASSUME AdbInv, NEW c \in AdbThreads,
           \A d \in AdbThreads \ {c} : call'[d] = call[d],
           freeSlots' + Slots(call'[c]) = freeSlots + Slots(call[c]),
           freeSlots' \in Nat
    PROVE  SlotsMatchCommands'
<1> DEFINE others == Executing \ {c}
<1>1. IsFiniteSet(others) /\ Cardinality(others) \in Nat
  BY AdbAssumption, FS_Subset, FS_CardinalityType DEF Executing
<1>2. Executing' = IF call'[c].step = "executes" THEN others \cup {c} ELSE others
  BY DEF Executing, CallAt
<1>3. Executing = IF CallAt(c, "executes") THEN others \cup {c} ELSE others
  BY DEF Executing
<1>4. Cardinality(others \cup {c}) = Cardinality(others) + 1
  BY <1>1, FS_AddElement
<1>5. freeSlots \in Nat /\ freeSlots + Cardinality(Executing) = Concurrency
  BY DEF AdbInv, AdbTypes, SlotsMatchCommands, Executing
<1> HIDE DEF others
<1>6. Cardinality(Executing') = Cardinality(others) + Slots(call'[c])
  BY <1>1, <1>2, <1>4 DEF Slots
<1>7. Cardinality(Executing) = Cardinality(others) + Slots(call[c])
  BY <1>1, <1>3, <1>4 DEF Slots, CallAt
<1>8. Slots(call'[c]) \in Nat /\ Slots(call[c]) \in Nat
  BY DEF Slots
<1>9. freeSlots' + Cardinality(Executing') = Concurrency
  BY <1>1, <1>5, <1>6, <1>7, <1>8, AdbAssumption
<1> QED
  BY <1>9 DEF SlotsMatchCommands, Executing

\* A step of one caller.
LEMMA CallStep ==
    ASSUME AdbInv, NEW c \in AdbThreads, NEW v \in CallType, Counted(v),
           call' = [call EXCEPT ![c] = v],
           freeSlots' \in Nat, freeSlots' + Slots(v) = freeSlots + Slots(call[c]),
           adbCounts' \in [calls : Nat, failures : Nat]
    PROVE  AdbInv'
<1>1. call' \in [AdbThreads -> CallType] /\ call'[c] = v /\ \A d \in AdbThreads \ {c} : call'[d] = call[d]
  BY DEF AdbInv, AdbTypes
<1>2. AdbTypes' /\ AttemptsCounted'
  BY <1>1 DEF AdbInv, AdbTypes, AttemptsCounted
<1>3. SlotsMatchCommands'
  BY <1>1, SlotsFollowCalls
<1> QED
  BY <1>2, <1>3 DEF AdbInv

LEMMA AdbStep == AdbInv /\ [AdbNext]_adbVars => AdbInv'
<1> SUFFICES ASSUME AdbInv, [AdbNext]_adbVars PROVE AdbInv'
  OBVIOUS
<1>1. ASSUME NEW c \in AdbThreads, BeginCall(c) \/ Proceeds(c) PROVE AdbInv'
  <2> DEFINE old == call[c]
  <2>1. /\ old \in CallType /\ Counted(old) /\ freeSlots \in Nat
        /\ adbCounts \in [calls : Nat, failures : Nat]
    BY DEF AdbInv, AdbTypes, AttemptsCounted
  <2>2. old.attempt \in Nat /\ old.retries \in Nat
    BY <2>1 DEF CallType
  <2> HIDE DEF old
  <2>3. CASE BeginCall(c)
    <3>1. PICK r \in 0 .. MaxRetries :
             call' = [call EXCEPT ![c] = [NoCall EXCEPT !.step = "waits", !.retries = r]]
      BY <2>3 DEF BeginCall
    <3> DEFINE w == [NoCall EXCEPT !.step = "waits"]
               v == [w EXCEPT !.retries = r]
    <3>2. r \in Nat
      BY AdbAssumption
    <3>3. w \in CallType /\ w.step = "waits" /\ w.attempt = 0
      BY NoCallTyped, StepTyped DEF CallSteps, NoCall
    <3>4. call' = [call EXCEPT ![c] = v]
      BY <3>1
    <3> HIDE DEF w
    <3>5. v \in CallType /\ v.step = "waits" /\ v.attempt = 0 /\ v.retries = r
      BY <3>2, <3>3, RetriesTyped
    <3> HIDE DEF v
    <3>6. Counted(v) /\ Slots(v) = 0
      BY <3>2, <3>5 DEF Counted, Slots
    <3>7. Slots(call[c]) = 0 /\ freeSlots' = freeSlots
      BY <2>3 DEF BeginCall, CallAt, Slots
    <3>8. adbCounts' \in [calls : Nat, failures : Nat]
      BY <2>3, <2>1 DEF BeginCall, CountUp
    <3>9. freeSlots' + Slots(v) = freeSlots + Slots(call[c])
      BY <3>6, <3>7, <2>1
    <3> QED
      BY <3>4, <3>5, <3>6, <3>7, <3>8, <3>9, <2>1, CallStep
  <2>4. CASE TakeSlot(c)
    <3> DEFINE v == [old EXCEPT !.step = "executes"]
    <3>1. call' = [call EXCEPT ![c] = v]
      BY <2>4 DEF TakeSlot, CallGoes, old
    <3>2. v \in CallType /\ v.step = "executes" /\ v.attempt = old.attempt /\ v.retries = old.retries
      BY <2>1, StepTyped DEF CallSteps
    <3> HIDE DEF v
    <3>3. Counted(v) /\ Slots(v) = 1
      BY <3>2, <2>1 DEF Counted, Slots
    <3>4. Slots(call[c]) = 0 /\ freeSlots' = freeSlots - 1 /\ freeSlots > 0 /\ adbCounts' = adbCounts
      BY <2>4 DEF TakeSlot, CallAt, Slots
    <3>5. freeSlots' \in Nat /\ freeSlots' + Slots(v) = freeSlots + Slots(call[c])
      BY <3>3, <3>4, <2>1
    <3> QED
      BY <3>1, <3>2, <3>3, <3>4, <3>5, <2>1, CallStep
  <2>5. CASE Ends(c)
    <3>1. call' = [call EXCEPT ![c] = NoCall] /\ adbCounts' = adbCounts
          /\ freeSlots' = freeSlots + 1 /\ Slots(call[c]) = 1
      BY <2>5 DEF Ends, LeaveSlot, CallAt, Slots
    <3>2. freeSlots' \in Nat /\ freeSlots' + Slots(NoCall) = freeSlots + Slots(call[c])
      BY <3>1, <2>1, NoCallTyped
    <3> QED
      BY <3>1, <3>2, <2>1, NoCallTyped, CallStep
  <2>6. CASE AttemptFails(c)
    <3> DEFINE s == IF old.attempt < old.retries THEN "pauses" ELSE "gives up"
               v == [old EXCEPT !.step = s]
    <3>1. call' = [call EXCEPT ![c] = v] /\ adbCounts' = adbCounts
          /\ freeSlots' = freeSlots + 1 /\ Slots(call[c]) = 1
      BY <2>6 DEF AttemptFails, LeaveSlot, CallAt, CallGoes, Slots, old
    <3>2. s \in CallSteps
      BY DEF CallSteps
    <3>3. /\ s = "pauses" => old.attempt < old.retries
          /\ s = "gives up" => ~ (old.attempt < old.retries)
          /\ s # "executes"
      OBVIOUS
    <3> HIDE DEF s
    <3>4. v \in CallType /\ v.step = s /\ v.attempt = old.attempt /\ v.retries = old.retries
      BY <2>1, <3>2, StepTyped
    <3> HIDE DEF v
    <3>5. Counted(v) /\ Slots(v) = 0
      <4>1. old.attempt <= old.retries
        BY <2>1 DEF Counted
      <4>2. s = "gives up" => old.attempt = old.retries
        <5>1. ASSUME NEW a \in Nat, NEW b \in Nat, a <= b, ~ (a < b) PROVE a = b
          BY <5>1
        <5> QED
          BY <5>1, <3>3, <4>1, <2>2
      <4> QED
        BY <3>3, <3>4, <4>1, <4>2 DEF Counted, Slots
    <3>6. freeSlots' \in Nat /\ freeSlots' + Slots(v) = freeSlots + Slots(call[c])
      BY <3>1, <3>5, <2>1
    <3> QED
      BY <3>1, <3>4, <3>5, <3>6, <2>1, CallStep
  <2>7. CASE Paused(c)
    <3> DEFINE w == [old EXCEPT !.step = "waits"]
               v == [w EXCEPT !.attempt = old.attempt + 1]
    <3>0. call[c].attempt = old.attempt /\ call[c] = old /\ old.step = "pauses"
      BY <2>7 DEF old, Paused, CallAt
    <3>1. w \in CallType /\ w.step = "waits" /\ w.attempt = old.attempt /\ w.retries = old.retries
      BY <2>1, StepTyped DEF CallSteps
    <3>2. call' = [call EXCEPT ![c] = v] /\ adbCounts' = adbCounts /\ freeSlots' = freeSlots
      BY <2>7, <3>0, <3>1 DEF Paused, AdbInv, AdbTypes
    <3> HIDE DEF w
    <3>3. v \in CallType /\ v.step = "waits" /\ v.attempt = old.attempt + 1 /\ v.retries = old.retries
      BY <2>2, <3>1, AttemptTyped
    <3> HIDE DEF v
    <3>4. Counted(v) /\ Slots(v) = 0 /\ Slots(call[c]) = 0
      BY <3>0, <3>3, <2>1, <2>2 DEF Counted, Slots
    <3>5. freeSlots' \in Nat /\ freeSlots' + Slots(v) = freeSlots + Slots(call[c])
      BY <3>2, <3>4, <2>1
    <3> QED
      BY <3>2, <3>3, <3>4, <3>5, <2>1, CallStep
  <2>8. CASE GiveUp(c)
    <3>1. call' = [call EXCEPT ![c] = NoCall] /\ freeSlots' = freeSlots /\ Slots(call[c]) = 0
      BY <2>8 DEF GiveUp, CallAt, Slots
    <3>2. adbCounts' \in [calls : Nat, failures : Nat]
      <4>1. adbCounts' = [adbCounts EXCEPT !["failures"] = adbCounts["failures"] + 1]
        BY <2>8 DEF GiveUp, CountUp
      <4>2. adbCounts.failures \in Nat /\ adbCounts.failures + 1 \in Nat
        BY <2>1
      <4> QED
        BY ONLY <4>1, <4>2, <2>1
    <3>3. freeSlots' \in Nat /\ freeSlots' + Slots(NoCall) = freeSlots + Slots(call[c])
      BY <3>1, <2>1, NoCallTyped
    <3> QED
      BY <3>1, <3>2, <3>3, NoCallTyped, CallStep
  <2> QED
    BY <1>1, <2>3, <2>4, <2>5, <2>6, <2>7, <2>8 DEF Proceeds
<1>2. CASE UNCHANGED adbVars
  BY <1>2 DEF adbVars, AdbInv, AdbTypes, AttemptsCounted, SlotsMatchCommands, CallAt
<1> QED
  BY <1>1, <1>2 DEF AdbNext

\* For any number of threads, slots and attempts: a slot that is taken belongs to a
\* command that executes, and a failure that is counted is a call that used up its
\* attempts (Adb.run of adb.py).
THEOREM SlotsAndFailuresAreTrue == AdbSpec => []SlotsMatchCommands /\ FailuresAreLostCalls
<1>1. AdbInit => AdbInv
  <2> SUFFICES ASSUME AdbInit PROVE AdbInv
    OBVIOUS
  <2>1. {c \in AdbThreads : CallAt(c, "executes")} = {}
    BY DEF AdbInit, NoCall, CallAt
  <2>2. SlotsMatchCommands
    BY <2>1, FS_EmptySet, AdbAssumption DEF SlotsMatchCommands, AdbInit
  <2> QED
    BY <2>2, NoCallTyped, AdbAssumption DEF AdbInit, AdbInv, AdbTypes, AttemptsCounted
<1>2. AdbInv /\ [AdbNext]_adbVars =>
        [/\ adbCounts'.failures # adbCounts.failures =>
              /\ adbCounts'.failures = adbCounts.failures + 1
              /\ \E c \in AdbThreads: call[c].attempt = call[c].retries /\ call'[c] = NoCall]_adbVars
  BY DEF AdbInv, AdbNext, Proceeds, BeginCall, TakeSlot, Ends, AttemptFails, Paused, GiveUp, CallAt,
         CallGoes, CountUp, LeaveSlot, NoCall, AdbTypes, CallType, AttemptsCounted, Counted
<1>3. AdbInv => SlotsMatchCommands
  BY DEF AdbInv
<1> QED
  BY <1>1, <1>2, <1>3, AdbStep, PTL DEF AdbSpec, FailuresAreLostCalls
-----------------------------------------------------------------------------
(* Episodes of growth *)

RiskKeys == Metrics \X Int
Reading == {n \in Int : n = Missing0 \/ n \in Nat}
RiskSample == [start : Int, value : [Metrics -> Reading]]
ReportSample ==
    {s \in RiskSample : s.start = SelfReport /\ \A m \in Metrics : s.value[m] > 0}

\* What the detector knows of each key, with the history: a key that is armed has an
\* event, over a baseline that is no zero; one that has an event and is no longer armed
\* came back to the margin.
DetectorSound(d, out, dip, grow) ==
    /\ DOMAIN d.baseline \subseteq RiskKeys /\ d.baseline \in [DOMAIN d.baseline -> Nat]
    /\ out \in Seq([key : RiskKeys, calm : BOOLEAN])
    /\ \A i \in DOMAIN out : out[i].key \in DOMAIN d.baseline /\ d.baseline[out[i].key] > 0
    /\ \A k \in d.armed \cup grow : \E i \in DOMAIN out : out[i].key = k
    /\ \A i \in DOMAIN out : out[i].key \in d.armed \cup dip
    /\ \A i, j \in DOMAIN out : i < j /\ out[i].key = out[j].key => out[j].calm
SeenType(acc) ==
    /\ acc = [det |-> acc.det, out |-> acc.out, dip |-> acc.dip, grow |-> acc.grow]
    /\ acc.det = [baseline |-> acc.det.baseline, armed |-> acc.det.armed]
SeenSound(acc) == SeenType(acc) /\ DetectorSound(acc.det, acc.out, acc.dip, acc.grow)

\* A sample over adb: a zero in it was not read, and what is denied is not above it.
AdbReading(m, n) ==
    /\ n = 0 => Unreadable(m)
    /\ m \in usage.denied => n <= 0 /\ (m = "fd_count" => n = Missing0)
AdbSample(s) ==
    /\ s \in RiskSample /\ s.start # SelfReport
    /\ \A m \in Metrics : AdbReading(m, s.value[m])

ScanSteps == {"none", "stat", "probe", "fds", "tasks"}
RiskTypes ==
    /\ usage \in [value : [Metrics -> Nat \ {0}], vsize : Nat, alive : BOOLEAN,
                  denied : SUBSET Metrics]
    /\ inbox \in [started : BOOLEAN, queue : Seq(ReportSample), turn : Seq(RiskSample)]
    /\ scan \in [call : ScanSteps, start : Int, fds : Reading]
    /\ detector = [baseline |-> detector.baseline, armed |-> detector.armed]
    /\ sampling = [count |-> sampling.count, grown |-> sampling.grown,
                   dipped |-> sampling.dipped]

\* The sample over adb is the first of its turn, and being made when there is none.
OnlyReports == inbox.turn \in Seq(ReportSample)
TurnInv ==
    /\ OnlyReports \/ /\ inbox.turn # <<>> /\ AdbSample(Head(inbox.turn))
                      /\ Tail(inbox.turn) \in Seq(ReportSample)
    /\ scan.call # "none" => inbox.turn = <<>>
    /\ scan.start # SelfReport /\ AdbReading("fd_count", scan.fds)
    /\ scan.call = "fds" => "fd_count" \notin usage.denied
    /\ ~inbox.started => scan = NoScan /\ inbox.turn = <<>> /\ detector.baseline = <<>>

\* A baseline of 0 is one of threads that are denied, or of a process that is dead and
\* will not be sampled again.
ZeroInv ==
    /\ \A k \in DOMAIN detector.baseline : detector.baseline[k] = 0 =>
          /\ k[2] # SelfReport
          /\ \/ k[1] = "thread_count" /\ k[1] \in usage.denied
             \/ ~usage.alive /\ scan.call = "none" /\ OnlyReports
    /\ "fd_count" \in usage.denied =>
          \A k \in DOMAIN detector.baseline : k[1] = "fd_count" => k[2] = SelfReport
RiskInv ==
    /\ RiskTypes /\ TurnInv /\ ZeroInv
    /\ DetectorSound(detector, events, sampling.dipped, sampling.grown)

\* The first value of a key is its baseline.
LEMMA FirstValue ==
    ASSUME NEW d, NEW out, NEW dip, NEW grow, DetectorSound(d, out, dip, grow),
           d = [baseline |-> d.baseline, armed |-> d.armed],
           NEW key \in RiskKeys, NEW value \in Nat, ~Known(d, key)
    PROVE  LET e == [baseline |-> [k \in DOMAIN d.baseline \cup {key} |->
                                     IF k = key THEN value ELSE d.baseline[k]],
                     armed |-> d.armed]
           IN  DetectorSound(e, out, dip, grow)
<1> DEFINE base == [k \in DOMAIN d.baseline \cup {key} |-> IF k = key THEN value ELSE d.baseline[k]]
<1>1. /\ DOMAIN base = DOMAIN d.baseline \cup {key} /\ base[key] = value
      /\ \A k \in DOMAIN d.baseline : k # key /\ base[k] = d.baseline[k]
  BY DEF Known
<1>2. DOMAIN base \subseteq RiskKeys /\ base \in [DOMAIN base -> Nat]
  <2>1. DOMAIN d.baseline \subseteq RiskKeys /\ d.baseline \in [DOMAIN d.baseline -> Nat]
    BY DEF DetectorSound
  <2> HIDE DEF base
  <2>2. \A k \in DOMAIN base : k \in RiskKeys /\ base[k] \in Nat
    BY <1>1, <2>1
  <2>3. base = [k \in DOMAIN base |-> base[k]]
    BY DEF base
  <2> QED
    BY <2>2, <2>3
<1> HIDE DEF base
<1>3. DetectorSound([baseline |-> base, armed |-> d.armed], out, dip, grow)
  <2>1. \A i \in DOMAIN out : out[i].key \in DOMAIN base /\ base[out[i].key] > 0
    BY <1>1 DEF DetectorSound
  <2> QED
    BY <1>2, <2>1 DEF DetectorSound
<1> QED
  BY <1>3 DEF base

\* A key that rises is armed, with one event more.
LEMMA KeyRises ==
    ASSUME NEW d, NEW out, NEW dip, NEW grow, DetectorSound(d, out, dip, grow),
           NEW key \in DOMAIN d.baseline, d.baseline[key] > 0, key \notin d.armed,
           NEW armed, armed = d.armed \cup {key},
           NEW longer, longer = Append(out, [key |-> key, calm |-> key \in dip])
    PROVE  DetectorSound([baseline |-> d.baseline, armed |-> armed], longer,
                         dip \ {key}, grow \cup {key})
<1> DEFINE event == [key |-> key, calm |-> key \in dip]
<1>1. event \in [key : RiskKeys, calm : BOOLEAN] /\ event.key = key /\ event.calm = (key \in dip)
  BY DEF DetectorSound
<1> HIDE DEF event
<1>2. out \in Seq([key : RiskKeys, calm : BOOLEAN])
  BY DEF DetectorSound
<1>3. /\ longer \in Seq([key : RiskKeys, calm : BOOLEAN])
      /\ DOMAIN out = 1 .. Len(out) /\ DOMAIN longer = 1 .. (Len(out) + 1) /\ Len(out) \in Nat
      /\ \A i \in DOMAIN out : i \in DOMAIN longer /\ longer[i] = out[i]
      /\ longer[Len(out) + 1] = event
  BY <1>1, <1>2 DEF event
<1>4. \A i \in DOMAIN longer : i \in DOMAIN out \/ i = Len(out) + 1
  BY <1>3
<1>5. \A k \in armed \cup (grow \cup {key}) : \E i \in DOMAIN longer : longer[i].key = k
  <2>1. \A k \in d.armed \cup grow : \E i \in DOMAIN longer : longer[i].key = k
    BY <1>3 DEF DetectorSound
  <2>2. Len(out) + 1 \in DOMAIN longer /\ longer[Len(out) + 1].key = key
    BY <1>1, <1>3
  <2> QED
    BY <2>1, <2>2
<1>6. \A i \in DOMAIN longer : longer[i].key \in armed \cup (dip \ {key})
  <2>1. \A i \in DOMAIN out : out[i].key \in d.armed \cup dip
    BY DEF DetectorSound
  <2> QED
    BY <2>1, <1>1, <1>3, <1>4
<1>7. ASSUME NEW i \in DOMAIN longer, NEW j \in DOMAIN longer, i < j, longer[i].key = longer[j].key
      PROVE  longer[j].calm
  <2>1. i \in DOMAIN out
    BY <1>3, <1>7
  <2>2. CASE j \in DOMAIN out
    BY <1>3, <1>7, <2>1, <2>2 DEF DetectorSound
  <2>3. CASE j = Len(out) + 1
    <3>1. out[i].key = key
      BY <1>1, <1>3, <1>7, <2>1, <2>3
    <3>2. key \in dip
      BY <2>1, <3>1 DEF DetectorSound
    <3> QED
      BY <1>1, <1>3, <2>3, <3>2
  <2> QED
    BY <1>4, <2>2, <2>3
<1> DEFINE e == [baseline |-> d.baseline, armed |-> armed]
<1>8. e.baseline = d.baseline /\ e.armed = armed
  OBVIOUS
<1> HIDE DEF e
<1>9. \A i \in DOMAIN longer : /\ longer[i].key \in DOMAIN d.baseline
                               /\ d.baseline[longer[i].key] > 0
  BY <1>1, <1>3, <1>4 DEF DetectorSound
<1>10. DetectorSound(e, longer, dip \ {key}, grow \cup {key})
  BY <1>3, <1>5, <1>6, <1>7, <1>8, <1>9 DEF DetectorSound
<1> QED
  BY <1>10 DEF e

\* A key that is disarmed has come back.
LEMMA KeyRecovers ==
    ASSUME NEW d, NEW out, NEW dip, NEW grow, DetectorSound(d, out, dip, grow),
           NEW key, NEW armed, armed \subseteq d.armed, d.armed \subseteq armed \cup {key},
           NEW dips, dip \subseteq dips, armed # d.armed => key \in dips,
           NEW grown, grow \subseteq grown, grown \subseteq grow \cup d.armed
    PROVE  DetectorSound([baseline |-> d.baseline, armed |-> armed], out, dips, grown)
<1> DEFINE e == [baseline |-> d.baseline, armed |-> armed]
<1>1. e.baseline = d.baseline /\ e.armed = armed
  OBVIOUS
<1> HIDE DEF e
<1>2. \A k \in armed \cup grown : \E i \in DOMAIN out : out[i].key = k
  BY DEF DetectorSound
<1>3. d.armed \cup dip \subseteq armed \cup dips
  OBVIOUS
<1>4. \A i \in DOMAIN out : out[i].key \in armed \cup dips
  BY <1>3 DEF DetectorSound
<1>5. DetectorSound(e, out, dips, grown)
  BY <1>1, <1>2, <1>4 DEF DetectorSound
<1> QED
  BY <1>5 DEF e

\* Where the baselines are from that one value leaves.
BaselineFrom(before, after, key, value) ==
    \A k \in DOMAIN after.baseline :
        \/ k \in DOMAIN before.baseline /\ after.baseline[k] = before.baseline[k]
        \/ k = key /\ value # Missing0 /\ after.baseline[k] = value
NotOverZero(d, key, value) == value > 0 /\ Known(d, key) => d.baseline[key] > 0

\* A value keeps what the detector knows, if it is not above a baseline of 0.
LEMMA MetricKeeps ==
    ASSUME NEW acc, SeenSound(acc), NEW key \in RiskKeys, NEW value \in Reading,
           NotOverZero(acc.det, key, value)
    PROVE  /\ SeenSound(ObserveMetric(acc, key, value))
           /\ BaselineFrom(acc.det, ObserveMetric(acc, key, value).det, key, value)
<1> DEFINE d == acc.det
           after == ObserveMetric(acc, key, value)
<1>1. CASE value = Missing0
  <2>1. after = acc
    BY <1>1 DEF ObserveMetric
  <2> QED
    BY <2>1 DEF BaselineFrom
<1>2. CASE value # Missing0 /\ ~Known(d, key)
  <2> DEFINE base == [k \in DOMAIN d.baseline \cup {key} |-> IF k = key THEN value ELSE d.baseline[k]]
  <2>1. after = [det |-> [baseline |-> base, armed |-> d.armed], out |-> acc.out,
                 dip |-> acc.dip, grow |-> acc.grow]
    <3>1. after = [acc EXCEPT !.det.baseline = base]
      BY <1>2 DEF ObserveMetric
    <3> HIDE DEF base
    <3> QED
      BY <3>1 DEF SeenSound, SeenType
  <2>2. DetectorSound([baseline |-> base, armed |-> d.armed], acc.out, acc.dip, acc.grow)
    <3> HIDE DEF base
    <3> QED
      BY <1>2, FirstValue DEF SeenSound, SeenType, base, Reading
  <2>3. after.det.baseline = base
    BY <2>1
  <2>4. BaselineFrom(acc.det, after.det, key, value)
    BY <1>2, <2>3 DEF BaselineFrom
  <2> HIDE DEF base
  <2>5. SeenSound(after)
    BY <2>1, <2>2 DEF SeenSound, SeenType
  <2> QED
    BY <2>4, <2>5
<1>3. CASE value # Missing0 /\ Known(d, key)
  <2> DEFINE base == d.baseline[key]
             rises == Raises(base, value, key \in d.armed)
             back == Recovers(base, value, key \in d.armed)
             armed == IF rises THEN d.armed \cup {key} ELSE IF back THEN d.armed \ {key} ELSE d.armed
             out == IF rises THEN Append(acc.out, [key |-> key, calm |-> key \in acc.dip]) ELSE acc.out
             dip == IF rises THEN acc.dip \ {key}
                    ELSE IF value <= base + RecoveryMargin THEN acc.dip \cup {key} ELSE acc.dip
             grow == IF value - base >= GrowthThreshold THEN acc.grow \cup {key} ELSE acc.grow
  <2>1. after = [det |-> [d EXCEPT !.armed = armed], out |-> out, dip |-> dip, grow |-> grow]
    BY <1>3 DEF ObserveMetric
  <2>2. [d EXCEPT !.armed = armed] = [baseline |-> d.baseline, armed |-> armed]
    <3> HIDE DEF armed
    <3> QED
      BY DEF SeenSound, SeenType
  <2>3. SeenType(after)
    <3> HIDE DEF armed, out, dip, grow
    <3> QED
      BY <2>1, <2>2 DEF SeenType
  <2>4. DetectorSound(d, acc.out, acc.dip, acc.grow)
    BY DEF SeenSound
  <2>5. DetectorSound([baseline |-> d.baseline, armed |-> armed], out, dip, grow)
    <3>1. CASE rises
      <4>1. key \notin d.armed /\ value - base >= GrowthThreshold
        BY <3>1 DEF Raises
      <4>3. key \in DOMAIN d.baseline /\ d.baseline[key] > 0
        <5>1. key \in DOMAIN d.baseline /\ base \in Nat
          BY <1>3, <2>4 DEF Known, DetectorSound
        <5>2. GrowthThreshold \in Nat \ {0}
          BY RiskAssumption
        <5>3. value > 0
          BY <4>1, <5>1, <5>2 DEF Reading
        <5> QED
          BY <1>3, <5>1, <5>3 DEF NotOverZero
      <4>2. armed = d.armed \cup {key} /\ dip = acc.dip \ {key} /\ grow = acc.grow \cup {key}
            /\ out = Append(acc.out, [key |-> key, calm |-> key \in acc.dip])
        BY <3>1, <4>1
      <4> HIDE DEF armed, dip, grow, out, rises, base
      <4> QED
        BY <2>4, <4>1, <4>2, <4>3, KeyRises
    <3>2. CASE ~rises
      <4>1. out = acc.out /\ acc.dip \subseteq dip /\ acc.grow \subseteq grow
        BY <3>2
      <4>2. armed \subseteq d.armed /\ d.armed \subseteq armed \cup {key}
            /\ (armed # d.armed => key \in dip)
        BY <3>2 DEF Recovers
      <4>3. grow \subseteq acc.grow \cup d.armed
        BY <3>2 DEF Raises
      <4> HIDE DEF armed, dip, grow, out, rises, base
      <4> QED
        BY <2>4, <4>1, <4>2, <4>3, KeyRecovers
    <3> QED
      BY <3>1, <3>2
  <2> HIDE DEF armed, out, dip, grow
  <2>6. SeenSound(after)
    BY <2>1, <2>2, <2>3, <2>5 DEF SeenSound
  <2>7. after.det.baseline = d.baseline
    BY <2>1, <2>2
  <2> QED
    BY <2>6, <2>7 DEF BaselineFrom
<1> QED
  BY <1>1, <1>2, <1>3

LEMMA SampleKeeps ==
    ASSUME NEW acc, SeenSound(acc), NEW sample \in RiskSample,
           \A m \in Metrics : NotOverZero(acc.det, <<m, sample.start>>, sample.value[m])
    PROVE  LET after == ObserveAll(acc, sample) IN
           /\ SeenSound(after)
           /\ \A k \in DOMAIN after.det.baseline :
                 \/ /\ k \in DOMAIN acc.det.baseline
                    /\ after.det.baseline[k] = acc.det.baseline[k]
                 \/ \E m \in Metrics : /\ k = <<m, sample.start>> /\ sample.value[m] # Missing0
                                       /\ after.det.baseline[k] = sample.value[m]
<1> DEFINE fd == <<"fd_count", sample.start>>
           threads == <<"thread_count", sample.start>>
           fds == sample.value["fd_count"]
           tasks == sample.value["thread_count"]
<1>1. /\ fd \in RiskKeys /\ threads \in RiskKeys /\ fd # threads
      /\ fds \in Reading /\ tasks \in Reading
      /\ NotOverZero(acc.det, fd, fds) /\ NotOverZero(acc.det, threads, tasks)
  BY DEF RiskKeys, RiskSample, Metrics
<1> DEFINE between == ObserveMetric(acc, fd, fds)
           after == ObserveMetric(between, threads, tasks)
<1>2. SeenSound(between) /\ BaselineFrom(acc.det, between.det, fd, fds)
  BY <1>1, MetricKeeps
<1>3. ObserveAll(acc, sample) = after
  BY DEF ObserveAll
<1> HIDE DEF between, fd, threads, fds, tasks
<1>4. NotOverZero(between.det, threads, tasks)
  BY <1>1, <1>2 DEF NotOverZero, BaselineFrom, Known
<1>5. SeenSound(after) /\ BaselineFrom(between.det, after.det, threads, tasks)
  BY <1>1, <1>2, <1>4, MetricKeeps
<1> HIDE DEF after
<1>6. \A k \in DOMAIN after.det.baseline :
        \/ k \in DOMAIN acc.det.baseline /\ after.det.baseline[k] = acc.det.baseline[k]
        \/ k = fd /\ fds # Missing0 /\ after.det.baseline[k] = fds
        \/ k = threads /\ tasks # Missing0 /\ after.det.baseline[k] = tasks
  BY <1>2, <1>5 DEF BaselineFrom
<1>7. "fd_count" \in Metrics /\ "thread_count" \in Metrics
  BY DEF Metrics
<1>8. \A k \in DOMAIN after.det.baseline :
        \/ k \in DOMAIN acc.det.baseline /\ after.det.baseline[k] = acc.det.baseline[k]
        \/ \E m \in Metrics : /\ k = <<m, sample.start>> /\ sample.value[m] # Missing0
                              /\ after.det.baseline[k] = sample.value[m]
  BY <1>6, <1>7 DEF fd, threads, fds, tasks
<1> QED
  BY <1>3, <1>5, <1>8

\* What a turn takes from adb: a sample, or nothing.
Sampled(adb) == adb = <<>> \/ (scan.call # "none" /\ \E s : AdbSample(s) /\ adb = <<s>>)

\* A count is a reading: 0 if the listing fails, which a denied one of descriptors
\* does not get to.
LEMMA CountedIs ==
    ASSUME RiskTypes, NEW m \in Metrics, m = "fd_count" => m \notin usage.denied,
           NEW n \in CountReadings(m)
    PROVE  n \in Reading /\ AdbReading(m, n)
<1>1. CASE n = Missing0
  BY <1>1 DEF Missing0, AdbReading, Reading
<1>2. CASE n # Missing0 /\ ListableNow(m)
  <2>1. n = usage.value[m] /\ n \in Nat \ {0} /\ m \notin usage.denied
    BY <1>2 DEF CountReadings, ListableNow, RiskTypes
  <2> QED
    BY <2>1 DEF AdbReading, Reading
<1>3. CASE n # Missing0 /\ ~ListableNow(m)
  <2>1. n = 0 /\ m \in {"fd_count", "thread_count"}
    BY <1>3 DEF CountReadings, Metrics
  <2>2. Unreadable(m)
    BY <1>3, <2>1 DEF ListableNow, Unreadable
  <2> QED
    BY <2>1, <2>2 DEF AdbReading, Reading
<1> QED
  BY <1>1, <1>2, <1>3

\* The process changes, or dies.
LEMMA UsageKeeps ==
    ASSUME RiskInv, usage' \in [value : [Metrics -> Nat \ {0}], vsize : Nat, alive : BOOLEAN,
                               denied : SUBSET Metrics],
           usage'.denied = usage.denied, usage'.alive => usage.alive,
           UNCHANGED <<inbox, scan, detector, events, sampling>>
    PROVE  RiskInv'
<1>1. RiskTypes'
  BY DEF RiskInv, RiskTypes
<1>2. \A m, n : AdbReading(m, n) => AdbReading(m, n)'
  BY DEF AdbReading, Unreadable
<1>3. \A s : AdbSample(s) => AdbSample(s)'
  BY <1>2 DEF AdbSample
<1>4. AdbReading("fd_count", scan.fds) => AdbReading("fd_count", scan.fds)'
  BY <1>2
<1>5. AdbSample(Head(inbox.turn)) => AdbSample(Head(inbox.turn))'
  BY <1>3
<1>6. TurnInv'
  BY <1>4, <1>5 DEF RiskInv, TurnInv, OnlyReports
<1>7. ZeroInv'
  BY DEF RiskInv, RiskTypes, ZeroInv, OnlyReports
<1> QED
  BY <1>1, <1>6, <1>7 DEF RiskInv

\* A turn is taken: with the sample that was made, or without one.
LEMMA TurnTaken ==
    ASSUME RiskInv, NEW adb, TurnIs(adb), inbox.turn = <<>>, inbox.started, Sampled(adb),
           UNCHANGED <<usage, detector, events>>,
           sampling' = [sampling EXCEPT !.count = @ + 1] \/ UNCHANGED sampling
    PROVE  RiskInv'
<1>1. inbox.queue \in Seq(ReportSample) /\ inbox.queue \in Seq(RiskSample)
  <2>1. ReportSample \subseteq RiskSample /\ inbox.queue \in Seq(ReportSample)
    BY DEF ReportSample, RiskInv, RiskTypes
  <2> QED
    BY <2>1
<1>2. /\ inbox'.queue = <<>> /\ inbox'.turn = adb \o inbox.queue
      /\ inbox' = [started |-> TRUE, queue |-> <<>>, turn |-> adb \o inbox.queue]
  BY DEF TurnIs, RiskInv, RiskTypes
<1>3. \A s : AdbSample(s) => s \in RiskSample
  BY DEF AdbSample
<1>4. adb \in Seq(RiskSample)
  <2>1. <<>> \in Seq(RiskSample) /\ \A s \in RiskSample : <<s>> \in Seq(RiskSample)
    OBVIOUS
  <2> QED
    BY <1>3, <2>1 DEF Sampled
<1>5. inbox' \in [started : BOOLEAN, queue : Seq(ReportSample), turn : Seq(RiskSample)]
  BY <1>1, <1>2, <1>4
<1>6. scan' = NoScan /\ NoScan \in [call : ScanSteps, start : Int, fds : Reading]
      /\ NoScan.call = "none" /\ NoScan.start = UnknownStart /\ NoScan.fds = Missing0
  BY DEF TurnIs, NoScan, ScanSteps, UnknownStart, Missing0, Reading
<1>7. /\ sampling'.grown = sampling.grown /\ sampling'.dipped = sampling.dipped
      /\ sampling' = [count |-> sampling'.count, grown |-> sampling'.grown,
                      dipped |-> sampling'.dipped]
  <2>1. sampling = [count |-> sampling.count, grown |-> sampling.grown, dipped |-> sampling.dipped]
    BY DEF RiskInv, RiskTypes
  <2>2. \/ sampling' = [count |-> sampling.count + 1, grown |-> sampling.grown,
                        dipped |-> sampling.dipped]
        \/ sampling' = sampling
    BY <2>1
  <2> QED
    BY <2>1, <2>2
<1>8. RiskTypes'
  BY <1>5, <1>6, <1>7 DEF RiskInv, RiskTypes
<1>9. AdbReading("fd_count", Missing0)'
  BY DEF AdbReading, Missing0
<1>10. ASSUME NEW s, AdbSample(s), adb = <<s>>
       PROVE  /\ inbox'.turn # <<>> /\ AdbSample(Head(inbox.turn))'
              /\ Tail(inbox'.turn) \in Seq(ReportSample)
  <2>1. s \in RiskSample
    BY <1>3, <1>10
  <2>2. <<s>> \o inbox.queue # <<>> /\ Head(<<s>> \o inbox.queue) = s
        /\ Tail(<<s>> \o inbox.queue) = inbox.queue
    BY <1>1, <2>1
  <2>3. AdbSample(s)'
    BY <1>10 DEF AdbSample, AdbReading, Unreadable
  <2> QED
    BY <1>1, <1>2, <1>10, <2>2, <2>3
<1>11. adb = <<>> => OnlyReports'
  BY <1>1, <1>2 DEF OnlyReports
<1>12. TurnInv'
  BY <1>2, <1>6, <1>9, <1>10, <1>11 DEF TurnInv, SelfReport, UnknownStart, Sampled
<1>13. ZeroInv'
  BY <1>6, <1>11 DEF RiskInv, ZeroInv, Sampled
<1> QED
  BY <1>7, <1>8, <1>12, <1>13 DEF RiskInv

\* A call of the sample.
LEMMA ScanKeeps ==
    ASSUME RiskInv, scan.call # "none",
           scan' \in [call : ScanSteps \ {"none"}, start : Int, fds : Reading],
           scan'.start # SelfReport, AdbReading("fd_count", scan'.fds),
           scan'.call = "fds" => "fd_count" \notin usage.denied,
           UNCHANGED <<usage, inbox, detector, events, sampling>>
    PROVE  RiskInv'
<1>1. RiskTypes'
  BY DEF RiskInv, RiskTypes
<1>2. AdbReading("fd_count", scan.fds)'
  BY DEF AdbReading, Unreadable
<1>3. AdbSample(Head(inbox.turn)) => AdbSample(Head(inbox.turn))'
  BY DEF AdbSample, AdbReading, Unreadable
<1>4. scan # NoScan
  BY DEF NoScan
<1>5. TurnInv'
  BY <1>2, <1>3, <1>4 DEF RiskInv, TurnInv, OnlyReports
<1>6. ZeroInv'
  BY DEF RiskInv, ZeroInv
<1> QED
  BY <1>1, <1>5, <1>6 DEF RiskInv

LEMMA SampleObserved == RiskInv /\ ObserveSample => RiskInv'
<1> SUFFICES ASSUME RiskInv, ObserveSample PROVE RiskInv'
  OBVIOUS
<1> DEFINE sample == Head(inbox.turn)
           seen == ObserveAll(Seen, sample)
<1>1. SeenSound(Seen) /\ Seen.det = detector
  BY DEF SeenSound, SeenType, Seen, RiskInv, RiskTypes
<1>2. sample \in RiskSample /\ Tail(inbox.turn) \in Seq(RiskSample) /\ inbox.turn # <<>>
  BY DEF ObserveSample, RiskInv, RiskTypes
<1>3. scan.call = "none" /\ inbox.started
  BY <1>2 DEF RiskInv, TurnInv
<1>4. Tail(inbox.turn) \in Seq(ReportSample) /\ (sample \in ReportSample \/ AdbSample(sample))
  BY <1>2 DEF RiskInv, TurnInv, OnlyReports
<1>5. AdbSample(sample) => ~OnlyReports
  <2>1. OnlyReports => sample \in ReportSample
    BY <1>2 DEF OnlyReports
  <2> QED
    BY <2>1 DEF AdbSample, ReportSample
<1>6. \A m \in Metrics : NotOverZero(detector, <<m, sample.start>>, sample.value[m])
  <2> SUFFICES ASSUME NEW m \in Metrics, sample.value[m] > 0, Known(detector, <<m, sample.start>>)
               PROVE  detector.baseline[<<m, sample.start>>] > 0
    BY DEF NotOverZero
  <2> DEFINE k == <<m, sample.start>>
  <2>1. k \in DOMAIN detector.baseline /\ detector.baseline[k] \in Nat
        /\ k[1] = m /\ k[2] = sample.start
    BY DEF Known, RiskInv, DetectorSound
  <2>2. ASSUME detector.baseline[k] = 0 PROVE FALSE
    <3>1. /\ k[2] # SelfReport
          /\ \/ k[1] = "thread_count" /\ k[1] \in usage.denied
             \/ ~usage.alive /\ scan.call = "none" /\ OnlyReports
      BY <2>1, <2>2 DEF RiskInv, ZeroInv
    <3>2. AdbSample(sample)
      BY <1>4, <2>1, <3>1 DEF ReportSample
    <3>3. m \in usage.denied
      BY <1>5, <2>1, <3>1, <3>2
    <3>4. sample.value[m] <= 0
      BY <3>2, <3>3 DEF AdbSample, AdbReading
    <3>5. sample.value[m] \in Int
      BY <1>2 DEF RiskSample, Reading
    <3> QED
      BY <3>4, <3>5
  <2> QED
    BY <2>1, <2>2
<1>7. /\ SeenSound(seen)
      /\ \A k \in DOMAIN seen.det.baseline :
            \/ k \in DOMAIN detector.baseline /\ seen.det.baseline[k] = detector.baseline[k]
            \/ \E m \in Metrics : /\ k = <<m, sample.start>> /\ sample.value[m] # Missing0
                                  /\ seen.det.baseline[k] = sample.value[m]
  BY <1>1, <1>2, <1>6, SampleKeeps
<1>8. /\ detector' = seen.det /\ events' = seen.out /\ UNCHANGED <<usage, scan>>
      /\ inbox' = [inbox EXCEPT !.turn = Tail(@)]
      /\ sampling' = [sampling EXCEPT !.dipped = seen.dip, !.grown = seen.grow]
  BY DEF ObserveSample
<1> HIDE DEF seen, sample
<1>9. inbox' = [started |-> inbox.started, queue |-> inbox.queue, turn |-> Tail(inbox.turn)]
      /\ inbox \in [started : BOOLEAN, queue : Seq(ReportSample), turn : Seq(RiskSample)]
  BY <1>8 DEF RiskInv, RiskTypes
<1>10. inbox' \in [started : BOOLEAN, queue : Seq(ReportSample), turn : Seq(RiskSample)]
  BY <1>2, <1>9
<1>11. sampling' = [count |-> sampling.count, grown |-> seen.grow, dipped |-> seen.dip]
  BY <1>8 DEF RiskInv, RiskTypes
<1>12. sampling'.dipped = seen.dip /\ sampling'.grown = seen.grow
       /\ sampling' = [count |-> sampling'.count, grown |-> sampling'.grown,
                       dipped |-> sampling'.dipped]
  BY <1>11
<1>13. DetectorSound(detector', events', sampling'.dipped, sampling'.grown)
  BY <1>7, <1>8, <1>12 DEF SeenSound
<1>14. detector' = [baseline |-> detector'.baseline, armed |-> detector'.armed]
  BY <1>7, <1>8 DEF SeenSound, SeenType
<1>15. RiskTypes'
  BY <1>8, <1>10, <1>12, <1>14 DEF RiskInv, RiskTypes
<1>16. OnlyReports' /\ inbox'.started
  BY <1>3, <1>4, <1>9 DEF OnlyReports
<1>17. AdbReading("fd_count", scan.fds)'
  BY <1>8 DEF RiskInv, TurnInv, AdbReading, Unreadable
<1>18. TurnInv'
  BY <1>3, <1>8, <1>16, <1>17 DEF RiskInv, TurnInv
<1>19. ASSUME NEW k \in DOMAIN detector'.baseline, detector'.baseline[k] = 0
       PROVE  /\ k[2] # SelfReport
              /\ (k[1] = "thread_count" /\ k[1] \in usage.denied) \/ ~usage.alive
  <2>1. CASE k \in DOMAIN detector.baseline /\ detector'.baseline[k] = detector.baseline[k]
    BY <1>19, <2>1 DEF RiskInv, ZeroInv
  <2>2. ASSUME NEW m \in Metrics, k = <<m, sample.start>>, detector'.baseline[k] = sample.value[m]
        PROVE  /\ k[2] # SelfReport
               /\ (k[1] = "thread_count" /\ k[1] \in usage.denied) \/ ~usage.alive
    <3>1. k[1] = m /\ k[2] = sample.start /\ sample.value[m] = 0
      BY <1>19, <2>2
    <3>2. AdbSample(sample)
      BY <1>4, <3>1 DEF ReportSample
    <3>3. k[2] # SelfReport /\ Unreadable(m)
      BY <3>1, <3>2 DEF AdbSample, AdbReading
    <3> QED
      BY <3>1, <3>3 DEF Unreadable
  <2> QED
    BY <1>7, <1>8, <2>1, <2>2
<1>20. ASSUME "fd_count" \in usage.denied, NEW k \in DOMAIN detector'.baseline, k[1] = "fd_count"
       PROVE  k[2] = SelfReport
  <2>1. CASE k \in DOMAIN detector.baseline
    BY <1>20, <2>1 DEF RiskInv, ZeroInv
  <2>2. ASSUME NEW m \in Metrics, k = <<m, sample.start>>, sample.value[m] # Missing0
        PROVE  k[2] = SelfReport
    <3>1. m = "fd_count" /\ k[2] = sample.start
      BY <1>20, <2>2
    <3>2. ~AdbSample(sample)
      BY <1>20, <2>2, <3>1 DEF AdbSample, AdbReading
    <3> QED
      BY <1>4, <3>1, <3>2 DEF ReportSample
  <2> QED
    BY <1>7, <1>8, <2>1, <2>2
<1>21. ZeroInv'
  BY <1>3, <1>8, <1>16, <1>19, <1>20 DEF ZeroInv
<1> QED
  BY <1>13, <1>15, <1>18, <1>21 DEF RiskInv

LEMMA RiskStep == RiskInv /\ [RiskNext]_riskVars => RiskInv'
<1> SUFFICES ASSUME RiskInv, [RiskNext]_riskVars PROVE RiskInv'
  OBVIOUS
<1>1. CASE UsageChanges
  <2>1. PICK v \in [Metrics -> {1, MaxValue}] : usage' = [usage EXCEPT !.value = v]
    BY <1>1 DEF UsageChanges
  <2>2. v \in [Metrics -> Nat \ {0}]
    BY RiskAssumption
  <2>3. /\ usage' \in [value : [Metrics -> Nat \ {0}], vsize : Nat, alive : BOOLEAN,
                       denied : SUBSET Metrics]
        /\ usage'.denied = usage.denied /\ usage'.alive = usage.alive
    BY <2>1, <2>2 DEF RiskInv, RiskTypes
  <2> QED
    BY <1>1, <2>3, UsageKeeps DEF UsageChanges
<1>2. CASE Remap
  <2>1. /\ usage' \in [value : [Metrics -> Nat \ {0}], vsize : Nat, alive : BOOLEAN,
                       denied : SUBSET Metrics]
        /\ usage'.denied = usage.denied /\ usage'.alive = usage.alive
    <3>1. usage \in [value : [Metrics -> Nat \ {0}], vsize : Nat, alive : BOOLEAN,
                     denied : SUBSET Metrics]
      BY DEF RiskInv, RiskTypes
    <3>2. usage' = [value |-> usage.value, vsize |-> usage.vsize + 1, alive |-> usage.alive,
                    denied |-> usage.denied]
      BY <1>2, <3>1 DEF Remap
    <3> QED
      BY <3>1, <3>2
  <2> QED
    BY <1>2, <2>1, UsageKeeps DEF Remap
<1>3. CASE Dies
  <2>1. /\ usage' \in [value : [Metrics -> Nat \ {0}], vsize : Nat, alive : BOOLEAN,
                       denied : SUBSET Metrics]
        /\ usage'.denied = usage.denied /\ ~usage'.alive
    BY <1>3 DEF Dies, RiskInv, RiskTypes
  <2> QED
    BY <1>3, <2>1, UsageKeeps DEF Dies
<1>4. CASE SelfReports
  <2> DEFINE report == [start |-> SelfReport, value |-> usage.value]
  <2>1. report \in ReportSample
    <3>1. usage.value \in [Metrics -> Reading] /\ \A m \in Metrics : usage.value[m] > 0
      BY DEF RiskInv, RiskTypes, Reading
    <3> QED
      BY <3>1 DEF ReportSample, RiskSample, SelfReport
  <2> HIDE DEF report
  <2>2. /\ \/ inbox.started /\ inbox' = [inbox EXCEPT !.queue = Append(@, report)]
           \/ inbox' = inbox
        /\ UNCHANGED <<usage, scan, detector, events>>
        /\ sampling' = [sampling EXCEPT !.count = @ + 1] \/ sampling' = sampling
    BY <1>4 DEF SelfReports, report
  <2>3. /\ inbox' \in [started : BOOLEAN, queue : Seq(ReportSample), turn : Seq(RiskSample)]
        /\ inbox'.turn = inbox.turn /\ inbox'.started = inbox.started
    <3>1. inbox \in [started : BOOLEAN, queue : Seq(ReportSample), turn : Seq(RiskSample)]
      BY DEF RiskInv, RiskTypes
    <3>2. Append(inbox.queue, report) \in Seq(ReportSample)
      BY <2>1, <3>1
    <3> QED
      BY <2>2, <3>1, <3>2
  <2>4. /\ sampling'.grown = sampling.grown /\ sampling'.dipped = sampling.dipped
        /\ sampling' = [count |-> sampling'.count, grown |-> sampling'.grown,
                        dipped |-> sampling'.dipped]
    <3>1. \/ sampling' = [count |-> sampling.count + 1, grown |-> sampling.grown,
                          dipped |-> sampling.dipped]
          \/ sampling' = sampling
      BY <2>2 DEF RiskInv, RiskTypes
    <3> QED
      BY <3>1 DEF RiskInv, RiskTypes
  <2>5. RiskTypes'
    BY <2>2, <2>3, <2>4 DEF RiskInv, RiskTypes
  <2>6. TurnInv'
    <3>1. AdbReading("fd_count", scan.fds)' /\ (AdbSample(Head(inbox.turn)) => AdbSample(Head(inbox.turn))')
      BY <2>2, <2>3 DEF RiskInv, TurnInv, AdbSample, AdbReading, Unreadable
    <3> QED
      BY <2>2, <2>3, <3>1 DEF RiskInv, TurnInv, OnlyReports
  <2>7. ZeroInv'
    BY <2>2, <2>3 DEF RiskInv, ZeroInv, OnlyReports
  <2> QED
    BY <2>2, <2>4, <2>5, <2>6, <2>7 DEF RiskInv
<1>5. CASE StartMonitor
  <2>1. PICK denied \in SUBSET Metrics : usage' = [usage EXCEPT !.denied = denied]
    BY <1>5 DEF StartMonitor
  <2>2. /\ ~inbox.started /\ inbox' = [inbox EXCEPT !.started = TRUE]
        /\ UNCHANGED <<scan, detector, events, sampling>>
    BY <1>5 DEF StartMonitor
  <2>3. scan = NoScan /\ inbox.turn = <<>> /\ detector.baseline = <<>>
    BY <2>2 DEF RiskInv, TurnInv
  <2>4. RiskTypes'
    BY <2>1, <2>2 DEF RiskInv, RiskTypes
  <2>5. inbox'.turn = <<>> /\ inbox'.started
    BY <2>2, <2>3 DEF RiskInv, RiskTypes
  <2>6. TurnInv'
    <3>1. OnlyReports'
      BY <2>5 DEF OnlyReports
    <3>2. AdbReading("fd_count", Missing0)'
      BY DEF AdbReading, Missing0
    <3> QED
      BY <2>2, <2>3, <2>5, <3>1, <3>2 DEF TurnInv, NoScan, UnknownStart, SelfReport
  <2>7. ZeroInv'
    BY <2>2, <2>3 DEF ZeroInv
  <2> QED
    BY <2>2, <2>4, <2>6, <2>7 DEF RiskInv
<1>6. CASE BeginTurn
  <2>1. /\ inbox.started /\ inbox.turn = <<>> /\ scan.call = "none"
        /\ UNCHANGED <<usage, detector, events>>
    BY <1>6 DEF BeginTurn
  <2>2. CASE /\ usage.alive /\ scan' = [scan EXCEPT !.call = "stat"] /\ UNCHANGED inbox
             /\ sampling' = [sampling EXCEPT !.count = @ + 1]
    <3>1. /\ sampling'.grown = sampling.grown /\ sampling'.dipped = sampling.dipped
          /\ sampling' = [count |-> sampling'.count, grown |-> sampling'.grown,
                          dipped |-> sampling'.dipped]
      <4>1. sampling' = [count |-> sampling.count + 1, grown |-> sampling.grown,
                         dipped |-> sampling.dipped]
        BY <2>2 DEF RiskInv, RiskTypes
      <4> QED
        BY <4>1
    <3>2. /\ scan' \in [call : ScanSteps, start : Int, fds : Reading] /\ scan'.call = "stat"
          /\ scan'.start = scan.start /\ scan'.fds = scan.fds
      BY <2>2 DEF RiskInv, RiskTypes, ScanSteps
    <3>3. RiskTypes'
      BY <2>1, <2>2, <3>1, <3>2 DEF RiskInv, RiskTypes
    <3>4. OnlyReports' /\ AdbReading("fd_count", scan.fds)'
      <4>1. inbox'.turn = <<>> /\ inbox'.started
        BY <2>1, <2>2
      <4>2. OnlyReports'
        BY <4>1 DEF OnlyReports
      <4>3. AdbReading("fd_count", scan.fds)
        BY DEF RiskInv, TurnInv
      <4>4. AdbReading("fd_count", scan.fds)'
        BY <2>1, <3>2, <4>3 DEF AdbReading, Unreadable
      <4> QED
        BY <4>2, <4>4
    <3>5. TurnInv'
      BY <2>1, <2>2, <3>2, <3>4 DEF RiskInv, TurnInv
    <3>6. ZeroInv'
      BY <2>1, <2>2 DEF RiskInv, ZeroInv
    <3> QED
      BY <2>1, <3>1, <3>3, <3>5, <3>6 DEF RiskInv
  <2>3. CASE TurnIs(<<>>) /\ UNCHANGED sampling
    <3> DEFINE none == <<>>
    <3>1. TurnIs(none) /\ none = <<>>
      BY <2>3
    <3> HIDE DEF none
    <3>2. Sampled(none)
      BY <3>1 DEF Sampled
    <3> QED
      BY <2>1, <2>3, <3>1, <3>2, TurnTaken
  <2> QED
    BY <1>6, <2>2, <2>3 DEF BeginTurn
<1>7. CASE ReadStart
  <2>1. PICK from \in {UnknownStart} \cup (IF usage.alive THEN {usage.vsize} ELSE {}) :
           scan' = [scan EXCEPT !.call = "probe", !.start = from]
    BY <1>7 DEF ReadStart
  <2>2. from \in Int /\ from # SelfReport
    BY DEF RiskInv, RiskTypes, UnknownStart, SelfReport
  <2>3. scan' \in [call : ScanSteps \ {"none"}, start : Int, fds : Reading]
        /\ scan'.start = from /\ scan'.fds = scan.fds /\ scan'.call = "probe"
    BY <2>1, <2>2 DEF RiskInv, RiskTypes, ScanSteps
  <2> QED
    BY <1>7, <2>2, <2>3, ScanKeeps DEF ReadStart, RiskInv, TurnInv
<1>8. CASE ProbeDescriptors
  <2>1. inbox.turn = <<>> /\ inbox.started /\ scan.call = "probe"
        /\ UNCHANGED <<usage, detector, events, sampling>>
    BY <1>8 DEF ProbeDescriptors, RiskInv, TurnInv, NoScan
  <2>2. ASSUME NEW to \in {"fds", "tasks"}, scan' = [scan EXCEPT !.call = to],
               UNCHANGED inbox, to = "fds" => ListableNow("fd_count")
        PROVE  RiskInv'
    <3>1. scan' \in [call : ScanSteps \ {"none"}, start : Int, fds : Reading]
          /\ scan'.start = scan.start /\ scan'.fds = scan.fds /\ scan'.call = to
      BY <2>2 DEF RiskInv, RiskTypes, ScanSteps
    <3> QED
      BY <2>1, <2>2, <3>1, ScanKeeps DEF RiskInv, TurnInv, ListableNow
  <2>3. CASE TurnIs(<<>>)
    <3> DEFINE none == <<>>
    <3>1. TurnIs(none) /\ none = <<>>
      BY <2>3
    <3> HIDE DEF none
    <3>2. Sampled(none)
      BY <3>1 DEF Sampled
    <3> QED
      BY <2>1, <3>1, <3>2, TurnTaken
  <2> QED
    BY <1>8, <2>2, <2>3 DEF ProbeDescriptors
<1>9. CASE CountDescriptors
  <2>1. PICK n \in CountReadings("fd_count") : scan' = [scan EXCEPT !.call = "tasks", !.fds = n]
    BY <1>9 DEF CountDescriptors
  <2>2. scan.call = "fds" /\ "fd_count" \notin usage.denied /\ "fd_count" \in Metrics
    BY <1>9 DEF CountDescriptors, RiskInv, TurnInv, Metrics
  <2>3. n \in Reading /\ AdbReading("fd_count", n)
    BY <2>2, CountedIs DEF RiskInv
  <2>4. scan' \in [call : ScanSteps \ {"none"}, start : Int, fds : Reading]
        /\ scan'.start = scan.start /\ scan'.fds = n /\ scan'.call = "tasks"
    BY <2>1, <2>3 DEF RiskInv, RiskTypes, ScanSteps
  <2> QED
    BY <1>9, <2>2, <2>3, <2>4, ScanKeeps DEF CountDescriptors, RiskInv, TurnInv
<1>10. CASE CountThreads
  <2>1. PICK n \in CountReadings("thread_count") :
          TurnIs(<<[start |-> scan.start,
                    value |-> [m \in Metrics |-> IF m = "fd_count" THEN scan.fds ELSE n]]>>)
    BY <1>10 DEF CountThreads
  <2>2. "thread_count" \in Metrics /\ "thread_count" # "fd_count"
    BY DEF Metrics
  <2>3. n \in Reading /\ AdbReading("thread_count", n)
    BY <2>2, CountedIs DEF RiskInv
  <2> DEFINE v == [m \in Metrics |-> IF m = "fd_count" THEN scan.fds ELSE n]
             s == [start |-> scan.start, value |-> v]
  <2>4. v \in [Metrics -> Reading] /\ \A m \in Metrics : AdbReading(m, v[m])
    <3>1. AdbReading("fd_count", scan.fds) /\ scan.fds \in Reading
      BY DEF RiskInv, TurnInv, RiskTypes
    <3>2. v["fd_count"] = scan.fds /\ v["thread_count"] = n
      BY DEF Metrics
    <3>3. \A m \in Metrics : m = "fd_count" \/ m = "thread_count"
      BY DEF Metrics
    <3>4. v \in [Metrics -> Reading]
      BY <2>3, <3>1
    <3> HIDE DEF v
    <3> QED
      BY <2>3, <3>1, <3>2, <3>3, <3>4
  <2>5. AdbSample(s)
    <3> HIDE DEF v
    <3> QED
      BY <2>4 DEF AdbSample, RiskSample, RiskInv, RiskTypes, TurnInv
  <2>6. inbox.turn = <<>> /\ inbox.started /\ scan.call # "none"
        /\ UNCHANGED <<usage, detector, events, sampling>>
    BY <1>10 DEF CountThreads, RiskInv, TurnInv, NoScan
  <2>7. TurnIs(<<s>>)
    BY <2>1
  <2> HIDE DEF s
  <2>8. Sampled(<<s>>)
    BY <2>5, <2>6 DEF Sampled
  <2> QED
    BY <2>6, <2>7, <2>8, TurnTaken
<1>11. CASE ObserveSample
  BY <1>11, SampleObserved
<1>12. CASE UNCHANGED riskVars
  BY <1>12 DEF riskVars, RiskInv, RiskTypes, TurnInv, ZeroInv, OnlyReports, AdbSample, AdbReading,
               Unreadable
<1> QED
  BY <1>1, <1>2, <1>3, <1>4, <1>5, <1>6, <1>7, <1>8, <1>9, <1>10, <1>11, <1>12 DEF RiskNext

\* Of a metric of one process life that grows over its baseline there is an event, in
\* whatever sample it grew and with whatever else; there is no second one before the
\* value came back to the recovery margin.  However the calls of a sample and the death
\* of the process fall together: descriptors that may not be listed have no value, a
\* baseline of 0 is one of a dead process or of threads that may not be listed, and no
\* event is raised over it (resource_risk.py, ResourceRiskMonitor, ResourceRiskDetector).
THEOREM EpisodesAreReported == RiskSpec => []EpisodesReported
<1>1. RiskInit => RiskInv
  <2> SUFFICES ASSUME RiskInit PROVE RiskInv
    OBVIOUS
  <2>1. DOMAIN <<>> = {} /\ \A S : <<>> \in Seq(S)
    OBVIOUS
  <2>2. NoScan \in [call : ScanSteps, start : Int, fds : Reading]
    BY DEF NoScan, ScanSteps, UnknownStart, Missing0, Reading
  <2>3. RiskTypes
    BY <2>1, <2>2 DEF RiskInit, RiskTypes, Metrics
  <2>4. DetectorSound([baseline |-> <<>>, armed |-> {}], <<>>, {}, {})
    <3> DEFINE d == [baseline |-> <<>>, armed |-> {}]
    <3>1. d.baseline = <<>> /\ d.armed = {} /\ <<>> \in [{} -> Nat]
      BY <2>1
    <3> HIDE DEF d
    <3>2. DetectorSound(d, <<>>, {}, {})
      BY <2>1, <3>1 DEF DetectorSound
    <3> QED
      BY <3>2 DEF d
  <2>5. detector = [baseline |-> <<>>, armed |-> {}] /\ events = <<>>
        /\ sampling.dipped = {} /\ sampling.grown = {}
    BY DEF RiskInit
  <2>6. TurnInv
    BY <2>1, <2>5 DEF RiskInit, TurnInv, OnlyReports, NoScan, AdbReading, UnknownStart,
                      SelfReport, Missing0
  <2>7. ZeroInv
    BY <2>1, <2>5 DEF ZeroInv
  <2> QED
    BY <2>3, <2>4, <2>5, <2>6, <2>7 DEF RiskInv
<1>2. RiskInv => EpisodesReported
  <2> SUFFICES ASSUME RiskInv PROVE EpisodesReported
    OBVIOUS
  <2>1. OneEventPerEpisode /\ GrowthReported /\ GrowthReal
    BY DEF RiskInv, DetectorSound, OneEventPerEpisode, GrowthReported, GrowthReal, KeyOf
  <2>2. ZeroExplained
    BY DEF RiskInv, ZeroInv, ZeroExplained, Unreadable
  <2> QED
    BY <2>1, <2>2 DEF EpisodesReported
<1> QED
  BY <1>1, <1>2, RiskStep, PTL DEF RiskSpec
-----------------------------------------------------------------------------
(* The event parser *)

EventTypes == {"java_crash", "native_crash", "anr", "process_death"}
CrashEvent ==
    [type : EventTypes, about : Nat, own : BOOLEAN, lines : SUBSET Nat, noise : Nat]
JavaBlock ==
    [open : BOOLEAN, about : Nat, named : BOOLEAN, own : BOOLEAN, lines : SUBSET Nat, noise : Nat]

\* An event that may be in the report, and one that is no Java crash besides.
Proper(e) == e.own /\ (e.type = "java_crash" => OwnEvidence(e))
ProperEvents == {e \in CrashEvent : Proper(e)}
OtherEvents == {e \in CrashEvent : e.own /\ e.type # "java_crash"}

JavaIn(seq) == {i \in DOMAIN seq : seq[i].type = "java_crash"}
Reportable(b) == b.open /\ b.named /\ b.own

BlocksTyped(bs) ==
    /\ bs = [java |-> bs.java, native |-> bs.native, anr |-> bs.anr]
    /\ bs.java \in JavaBlock /\ bs.native \in JavaBlock /\ bs.anr \in JavaBlock
    /\ bs.java.open => OwnEvidence(bs.java)

\* The lines of the log, and those that tell of the Java crash of the package.
AllLines == {l \in Line : \E s \in Scripts : \E i \in DOMAIN s : l = s[i]}
OwnCrashLines == {l \in AllLines : OwnCrash(l)}

\* What a writer has still to write is the end of its script.
Remains(w) == \E k \in 0 .. Len(w) : pending[w] = SubSeq(w, k + 1, Len(w))
NoCrashLeft ==
    \A w \in DOMAIN pending : \A i \in DOMAIN pending[w] :
        ~ (pending[w][i].own /\ pending[w][i].kind = "FATAL EXCEPTION")

ParserTypes ==
    /\ DOMAIN pending \subseteq Scripts /\ pending = [w \in DOMAIN pending |-> pending[w]]
    /\ \A w \in DOMAIN pending : Remains(w)
    /\ BlocksTyped(blocks)
    /\ emitted \in Seq(ProperEvents)
    /\ crash \in {"none", "headed", "named", "cut"} /\ ended \in BOOLEAN /\ run \in Nat

\* Where the crash of the package is: still to come, in the open block, or reported.
CountedAs(c, java) == IF c = "named" THEN \E i : java = {i} ELSE java = {}
CrashInv(c, b, java) ==
    /\ IF Reportable(b) THEN c = "named" /\ java = {} ELSE CountedAs(c, java)
    /\ Reportable(b) => \E l \in OwnCrashLines : b.about = l.by
    /\ c = "headed" => /\ b.open /\ ~b.named
                       /\ OwnCrashLines # {} /\ \A l \in OwnCrashLines : b.about = l.by
    /\ c # "headed" /\ b.open /\ ~Reportable(b) => \A l \in OwnCrashLines : b.about # l.by
ParserInv ==
    /\ ParserTypes
    /\ IF ended THEN pending # <<>> /\ CountedAs(crash, JavaIn(emitted))
                ELSE CrashInv(crash, blocks.java, JavaIn(emitted))
    /\ crash # "none" => pending # <<>> /\ NoCrashLeft

\* All lines of the package's crash are of one process, and lines of a process of
\* other packages are not.
LEMMA CrashLines ==
    /\ AllLines \subseteq Line
    /\ \A l, m \in AllLines : l.by = m.by => l.own = m.own
    /\ \A l, m \in OwnCrashLines : l.by = m.by
<1>1. AllLines \subseteq Line
  BY ParserAssumption DEF AllLines
<1>2. ASSUME NEW l \in AllLines, NEW m \in AllLines
      PROVE  /\ l.by = m.by => l.own = m.own
             /\ OwnCrash(l) /\ OwnCrash(m) => l.by = m.by
  <2>1. PICK s \in Scripts : \E i \in DOMAIN s : l = s[i]
    BY DEF AllLines
  <2>2. PICK t \in Scripts : \E j \in DOMAIN t : m = t[j]
    BY DEF AllLines
  <2>3. PICK i \in DOMAIN s : l = s[i]
    BY <2>1
  <2>4. PICK j \in DOMAIN t : m = t[j]
    BY <2>2
  <2> QED
    BY <2>3, <2>4, ParserAssumption
<1> QED
  BY <1>1, <1>2 DEF OwnCrashLines

LEMMA OneCrash ==
    ASSUME NEW s \in Scripts, NEW t \in Scripts, NEW i \in DOMAIN s, NEW j \in DOMAIN t,
           OwnCrash(s[i]), OwnCrash(t[j])
    PROVE  s = t /\ (s[i].kind = "FATAL EXCEPTION" /\ t[j].kind = "FATAL EXCEPTION" => i = j)
BY ParserAssumption

LEMMA JavaInConcat ==
    ASSUME NEW s \in Seq(CrashEvent), NEW t \in Seq(CrashEvent), JavaIn(t) = {}
    PROVE  JavaIn(s \o t) = JavaIn(s)
<1>1. /\ Len(s) \in Nat /\ Len(t) \in Nat /\ DOMAIN s = 1 .. Len(s) /\ DOMAIN t = 1 .. Len(t)
      /\ DOMAIN (s \o t) = 1 .. (Len(s) + Len(t))
      /\ \A i \in 1 .. Len(s) : (s \o t)[i] = s[i]
      /\ \A i \in 1 .. (Len(s) + Len(t)) : i > Len(s) => (s \o t)[i] = t[i - Len(s)]
  OBVIOUS
<1>2. ASSUME NEW i \in JavaIn(s \o t), i > Len(s) PROVE FALSE
  <2>1. i \in 1 .. (Len(s) + Len(t)) /\ i - Len(s) \in DOMAIN t
    BY <1>1, <1>2 DEF JavaIn
  <2>2. i - Len(s) \in JavaIn(t)
    BY <1>1, <1>2, <2>1 DEF JavaIn
  <2> QED
    BY <2>2
<1>3. \A i \in JavaIn(s \o t) : i \in 1 .. Len(s)
  BY <1>1, <1>2 DEF JavaIn
<1> QED
  BY <1>1, <1>3 DEF JavaIn

LEMMA JavaInAppend ==
    ASSUME NEW s \in Seq(CrashEvent), NEW e \in CrashEvent, e.type = "java_crash"
    PROVE  JavaIn(Append(s, e)) = JavaIn(s) \cup {Len(s) + 1}
<1>1. /\ Len(s) \in Nat /\ DOMAIN s = 1 .. Len(s) /\ DOMAIN Append(s, e) = 1 .. (Len(s) + 1)
      /\ \A i \in 1 .. Len(s) : Append(s, e)[i] = s[i]
      /\ Append(s, e)[Len(s) + 1] = e
  OBVIOUS
<1> QED
  BY <1>1 DEF JavaIn

LEMMA EventOf ==
    ASSUME NEW b \in JavaBlock, NEW type \in EventTypes
    PROVE  /\ Event(type, b) \in CrashEvent
           /\ Event(type, b).type = type /\ Event(type, b).own = b.own
           /\ Event(type, b).about = b.about /\ Event(type, b).lines = b.lines
           /\ Event(type, b).noise = b.noise
BY DEF Event, CrashEvent, JavaBlock

\* A block that ends is an event if it is reportable.
LEMMA FinalizedBlock ==
    ASSUME NEW b \in JavaBlock, NEW type \in EventTypes
    PROVE  /\ Reportable(b) => /\ Finalize(type, b) = <<Event(type, b)>>
                               /\ Event(type, b) \in CrashEvent /\ Event(type, b).type = type
                               /\ Event(type, b).own /\ Event(type, b).about = b.about
                               /\ Event(type, b).lines = b.lines
                               /\ Event(type, b).noise = b.noise
           /\ ~Reportable(b) => Finalize(type, b) = <<>>
           /\ type # "java_crash" => Finalize(type, b) \in Seq(OtherEvents)
<1>1. ASSUME type # "java_crash", Reportable(b) PROVE Event(type, b) \in OtherEvents
  BY <1>1, EventOf DEF OtherEvents, Reportable
<1> QED
  BY <1>1, EventOf DEF Finalize, Reportable

LEMMA OthersAreNoJava ==
    ASSUME NEW t \in Seq(OtherEvents)
    PROVE  t \in Seq(CrashEvent) /\ t \in Seq(ProperEvents) /\ JavaIn(t) = {}
<1>1. OtherEvents \subseteq CrashEvent /\ OtherEvents \subseteq ProperEvents
  BY DEF OtherEvents, ProperEvents, Proper
<1>2. t \in Seq(CrashEvent) /\ t \in Seq(ProperEvents)
  BY <1>1
<1>3. \A i \in DOMAIN t : t[i].type # "java_crash"
  BY DEF OtherEvents
<1> QED
  BY <1>2, <1>3 DEF JavaIn

-----------------------------------------------------------------------------
(* One line *)

LEMMA BlockTypes ==
    /\ Closed \in JavaBlock
    /\ \A l \in Line : Opened(l) \in JavaBlock
    /\ \A l \in Line, b \in JavaBlock : Absorbed(b, l) \in JavaBlock /\ Named(b, l) \in JavaBlock
<1>1. Closed \in JavaBlock
  BY DEF Closed, JavaBlock
<1>2. \A l \in Line : Opened(l) \in JavaBlock
  BY DEF Opened, JavaBlock, Line
<1>3. \A l \in Line, b \in JavaBlock : Absorbed(b, l) \in JavaBlock
  BY DEF Absorbed, JavaBlock, Line
<1>4. ASSUME NEW l \in Line, NEW b \in JavaBlock PROVE Named(b, l) \in JavaBlock
  <2>1. Absorbed(b, l) \in JavaBlock
    BY <1>3
  <2> HIDE DEF Absorbed
  <2> QED
    BY <2>1 DEF Named, JavaBlock, Line
<1> QED
  BY <1>1, <1>2, <1>3, <1>4

\* What a line makes of the Java block: it is ended and reported, opened anew,
\* continued, named, or left alone.
JavaAfter(b, line, after, out) ==
    \/ /\ line.kind = "FATAL EXCEPTION" /\ after = Opened(line) /\ out = Finalize("java_crash", b)
    \/ /\ line.kind = "Process:" /\ b.open /\ b.about = line.by /\ after = Named(b, line) /\ out = <<>>
    \/ /\ line.kind \in AndroidRuntime \ {"FATAL EXCEPTION", "Process:"}
       /\ b.open /\ b.about = line.by /\ after = Absorbed(b, line) /\ out = <<>>
    \/ /\ line.kind \in AndroidRuntime \ {"FATAL EXCEPTION"}
       /\ ~ (b.open /\ b.about = line.by) /\ after = b /\ out = <<>>
    \/ line.kind \notin AndroidRuntime /\ after = Closed /\ out = Finalize("java_crash", b)

LEMMA JavaStageIs ==
    ASSUME NEW bs, BlocksTyped(bs), NEW line \in Line
    PROVE  LET s == JavaStage(bs, line) IN
           /\ JavaAfter(bs.java, line, s.bs.java, s.out)
           /\ s.bs = [java |-> s.bs.java, native |-> bs.native, anr |-> bs.anr]
           /\ s.done \in BOOLEAN
<1> DEFINE J(b) == [java |-> b, native |-> bs.native, anr |-> bs.anr]
<1>1. bs = J(bs.java) /\ \A b : [bs EXCEPT !.java = b] = J(b)
  BY DEF BlocksTyped
<1>2. ASSUME NEW b, NEW out, NEW done \in BOOLEAN, JavaAfter(bs.java, line, b, out),
             JavaStage(bs, line) = Stage(J(b), out, done)
      PROVE  LET s == JavaStage(bs, line) IN
             /\ JavaAfter(bs.java, line, s.bs.java, s.out)
             /\ s.bs = [java |-> s.bs.java, native |-> bs.native, anr |-> bs.anr]
             /\ s.done \in BOOLEAN
  <2>1. LET s == JavaStage(bs, line) IN s.bs.java = b /\ s.out = out /\ s.done = done
    BY <1>2 DEF Stage
  <2>2. JavaStage(bs, line).bs = J(b)
    BY <1>2 DEF Stage
  <2> QED
    BY <1>2, <2>1, <2>2
<1>3. "FATAL EXCEPTION" \in AndroidRuntime /\ "Process:" \in AndroidRuntime
  BY DEF AndroidRuntime
<1> HIDE DEF J
<1>4. CASE line.kind = "FATAL EXCEPTION"
  <2>1. JavaStage(bs, line) = Stage(J(Opened(line)), Finalize("java_crash", bs.java), TRUE)
    BY <1>1, <1>4 DEF JavaStage
  <2>2. JavaAfter(bs.java, line, Opened(line), Finalize("java_crash", bs.java))
    BY <1>4 DEF JavaAfter
  <2> QED
    BY <1>2, <2>1, <2>2
<1>5. CASE line.kind = "Process:" /\ bs.java.open /\ bs.java.about = line.by
  <2>1. JavaStage(bs, line) = Stage(J(Named(bs.java, line)), <<>>, TRUE)
    BY <1>1, <1>3, <1>5 DEF JavaStage
  <2>2. JavaAfter(bs.java, line, Named(bs.java, line), <<>>)
    BY <1>5 DEF JavaAfter
  <2> QED
    BY <1>2, <2>1, <2>2
<1>6. CASE line.kind \in AndroidRuntime \ {"FATAL EXCEPTION", "Process:"}
           /\ bs.java.open /\ bs.java.about = line.by
  <2>1. JavaStage(bs, line) = Stage(J(Absorbed(bs.java, line)), <<>>, TRUE)
    BY <1>1, <1>6 DEF JavaStage
  <2>2. JavaAfter(bs.java, line, Absorbed(bs.java, line), <<>>)
    BY <1>6 DEF JavaAfter
  <2> QED
    BY <1>2, <2>1, <2>2
<1>7. CASE line.kind \in AndroidRuntime \ {"FATAL EXCEPTION"}
           /\ ~ (bs.java.open /\ bs.java.about = line.by)
  <2>1. JavaStage(bs, line) = Stage(J(bs.java), <<>>, FALSE)
    BY <1>1, <1>7 DEF JavaStage
  <2>2. JavaAfter(bs.java, line, bs.java, <<>>)
    BY <1>7 DEF JavaAfter
  <2> QED
    BY <1>2, <2>1, <2>2
<1>8. CASE line.kind \notin AndroidRuntime
  <2>1. JavaStage(bs, line) = Stage(J(Closed), Finalize("java_crash", bs.java), FALSE)
    BY <1>1, <1>3, <1>8 DEF JavaStage
  <2>2. JavaAfter(bs.java, line, Closed, Finalize("java_crash", bs.java))
    BY <1>8 DEF JavaAfter
  <2> QED
    BY <1>2, <2>1, <2>2
<1> QED
  BY <1>3, <1>4, <1>5, <1>6, <1>7, <1>8

\* The other stages leave the Java block alone, and report other events.
OtherStage(bs, s) ==
    /\ BlocksTyped(s.bs) /\ s.bs.java = bs.java
    /\ s.out \in Seq(OtherEvents) /\ s.done \in BOOLEAN

LEMMA NativeStageIs ==
    ASSUME NEW bs, BlocksTyped(bs), NEW line \in Line
    PROVE  OtherStage(bs, NativeStage(bs, line))
<1> DEFINE J(b) == [java |-> bs.java, native |-> b, anr |-> bs.anr]
<1>1. bs = J(bs.native) /\ \A b : [bs EXCEPT !.native = b] = J(b)
  BY DEF BlocksTyped
<1>2. ASSUME NEW b \in JavaBlock, NEW out \in Seq(OtherEvents)
      PROVE  OtherStage(bs, Stage(J(b), out, FALSE))
  BY <1>2 DEF OtherStage, Stage, BlocksTyped
<1> HIDE DEF J
<1> DEFINE open == IF bs.native.open THEN bs.native ELSE Opened(line)
<1>3. /\ open \in JavaBlock /\ bs.native \in JavaBlock /\ <<>> \in Seq(OtherEvents)
      /\ Finalize("native_crash", bs.native) \in Seq(OtherEvents)
  <2>1. bs.native \in JavaBlock /\ Opened(line) \in JavaBlock
    BY BlockTypes DEF BlocksTyped
  <2>2. Finalize("native_crash", bs.native) \in Seq(OtherEvents)
    BY <2>1, FinalizedBlock DEF EventTypes
  <2> QED
    BY <2>1, <2>2
<1>4. Named(open, line) \in JavaBlock /\ Absorbed(open, line) \in JavaBlock /\ Closed \in JavaBlock
  BY <1>3, BlockTypes
<1> HIDE DEF open
<1>5. CASE line.kind = "Fatal signal"
  <2>1. NativeStage(bs, line) = Stage(J(IF line.own THEN Named(open, line) ELSE bs.native), <<>>, FALSE)
    BY <1>1, <1>5 DEF NativeStage, open
  <2> QED
    BY <1>2, <1>3, <1>4, <2>1
<1>6. CASE line.kind = "pid:"
  <2>1. NativeStage(bs, line) = Stage(J(IF line.own THEN Named(open, line) ELSE Closed), <<>>, FALSE)
    BY <1>1, <1>6 DEF NativeStage, open
  <2> QED
    BY <1>2, <1>3, <1>4, <2>1
<1>7. CASE line.kind = "#00 pc"
  <2>1. NativeStage(bs, line) = Stage(J(Absorbed(open, line)), <<>>, FALSE)
    BY <1>1, <1>7 DEF NativeStage, open
  <2> QED
    BY <1>2, <1>3, <1>4, <2>1
<1>8. CASE line.kind \notin {"Fatal signal", "pid:", "#00 pc"}
  <2>1. NativeStage(bs, line) = Stage(J(Closed), Finalize("native_crash", bs.native), FALSE)
    BY <1>1, <1>8 DEF NativeStage
  <2> QED
    BY <1>2, <1>3, <1>4, <2>1
<1> QED
  BY <1>5, <1>6, <1>7, <1>8

LEMMA AnrStageIs ==
    ASSUME NEW bs, BlocksTyped(bs), NEW line \in Line
    PROVE  OtherStage(bs, AnrStage(bs, line))
<1> DEFINE J(b) == [java |-> bs.java, native |-> bs.native, anr |-> b]
<1>1. bs = J(bs.anr) /\ \A b : [bs EXCEPT !.anr = b] = J(b)
  BY DEF BlocksTyped
<1>2. ASSUME NEW b \in JavaBlock, NEW out \in Seq(OtherEvents), NEW done \in BOOLEAN
      PROVE  OtherStage(bs, Stage(J(b), out, done))
  BY <1>2 DEF OtherStage, Stage, BlocksTyped
<1> HIDE DEF J
<1>3. /\ bs.anr \in JavaBlock /\ <<>> \in Seq(OtherEvents) /\ Opened(line) \in JavaBlock
      /\ Finalize("anr", bs.anr) \in Seq(OtherEvents)
  <2>1. bs.anr \in JavaBlock /\ Opened(line) \in JavaBlock
    BY BlockTypes DEF BlocksTyped
  <2>2. Finalize("anr", bs.anr) \in Seq(OtherEvents)
    BY <2>1, FinalizedBlock DEF EventTypes
  <2> QED
    BY <2>1, <2>2
<1>4. /\ Named(Opened(line), line) \in JavaBlock /\ Absorbed(bs.anr, line) \in JavaBlock
      /\ Closed \in JavaBlock
  BY <1>3, BlockTypes
<1>5. CASE line.kind = "ANR in"
  <2>1. AnrStage(bs, line) = Stage(J(Named(Opened(line), line)), Finalize("anr", bs.anr), TRUE)
    BY <1>1, <1>5 DEF AnrStage
  <2> QED
    BY <1>2, <1>3, <1>4, <2>1
<1>6. CASE line.kind = "PID:" /\ bs.anr.open
  <2>1. AnrStage(bs, line) = Stage(J(Absorbed(bs.anr, line)), <<>>, TRUE)
    BY <1>1, <1>6 DEF AnrStage
  <2> QED
    BY <1>2, <1>3, <1>4, <2>1
<1>7. CASE line.kind # "ANR in" /\ ~ (line.kind = "PID:" /\ bs.anr.open)
  <2>1. AnrStage(bs, line) = Stage(J(Closed), Finalize("anr", bs.anr), FALSE)
    BY <1>1, <1>7 DEF AnrStage
  <2> QED
    BY <1>2, <1>3, <1>4, <2>1
<1> QED
  BY <1>5, <1>6, <1>7

LEMMA BufferStageIs ==
    ASSUME NEW bs, BlocksTyped(bs), NEW line \in Line
    PROVE  OtherStage(bs, BufferStage(bs, line))
<1> DEFINE b == Named(Opened(line), line)
           out == IF line.kind = "am_proc_died" /\ line.own THEN <<Event("process_death", b)>> ELSE <<>>
<1>1. b \in JavaBlock /\ b.own = line.own
  BY BlockTypes DEF Named, Absorbed, Opened
<1>2. out \in Seq(OtherEvents)
  <2> HIDE DEF b
  <2>1. ASSUME line.own PROVE Event("process_death", b) \in OtherEvents
    <3>1. b.own /\ b \in JavaBlock /\ "process_death" \in EventTypes
      BY <1>1, <2>1 DEF EventTypes
    <3> QED
      BY <3>1, EventOf DEF OtherEvents
  <2> QED
    BY <2>1
<1>3. BufferStage(bs, line) = Stage(bs, out, TRUE)
  BY DEF BufferStage
<1> HIDE DEF out
<1> QED
  BY <1>2, <1>3 DEF OtherStage, Stage

\* A stage that follows adds other events only.
Follows(s, t) ==
    /\ BlocksTyped(t.bs) /\ t.bs.java = s.bs.java /\ t.done \in BOOLEAN
    /\ \E rest \in Seq(OtherEvents) : t.out = s.out \o rest

LEMMA OthersJoin ==
    ASSUME NEW a \in Seq(ProperEvents), NEW r \in Seq(OtherEvents), NEW s \in Seq(OtherEvents)
    PROVE  (a \o r) \o s = a \o (r \o s) /\ r \o s \in Seq(OtherEvents)
           /\ a \o r \in Seq(ProperEvents) /\ a \o <<>> = a
<1>1. r \in Seq(ProperEvents) /\ s \in Seq(ProperEvents)
  BY OthersAreNoJava
<1> QED
  BY <1>1

LEMMA StageFollows ==
    ASSUME NEW j, j.out \in Seq(ProperEvents), NEW s, Follows(j, s), NEW o, OtherStage(s.bs, o),
           NEW t, t = IF s.done THEN s ELSE Stage(o.bs, s.out \o o.out, o.done)
    PROVE  Follows(j, t)
<1>1. CASE s.done
  BY <1>1
<1>2. CASE ~s.done
  <2>1. t.bs = o.bs /\ t.out = s.out \o o.out /\ t.done = o.done
    BY <1>2 DEF Stage
  <2>2. PICK rest \in Seq(OtherEvents) : s.out = j.out \o rest
    BY DEF Follows
  <2>3. o.out \in Seq(OtherEvents)
    BY DEF OtherStage
  <2>4. rest \o o.out \in Seq(OtherEvents) /\ (j.out \o rest) \o o.out = j.out \o (rest \o o.out)
    BY <2>3, OthersJoin
  <2> QED
    BY <2>1, <2>2, <2>4 DEF Follows, OtherStage
<1> QED
  BY <1>1, <1>2

EndsJava(line) == line.kind = "FATAL EXCEPTION" \/ line.kind \notin AndroidRuntime
ReportsEnd(b, line, out) ==
    IF EndsJava(line) /\ Reportable(b)
    THEN \E e \in ProperEvents : e.type = "java_crash" /\ out = <<e>> ELSE out = <<>>

\* The Java block stays of one process; an event is made of it when it ends, if it is
\* reportable.
LEMMA JavaAfterTyped ==
    ASSUME NEW b \in JavaBlock, b.open => OwnEvidence(b), NEW line \in Line,
           NEW after, NEW out, JavaAfter(b, line, after, out)
    PROVE  /\ after \in JavaBlock /\ (after.open => OwnEvidence(after))
           /\ ReportsEnd(b, line, out)
<1>1. after \in JavaBlock
  BY BlockTypes DEF JavaAfter
<1>2. after.open => OwnEvidence(after)
  <2>1. \A l \in Line : /\ Opened(l).lines = {l.by} /\ Opened(l).about = l.by
                         /\ Named(b, l).lines = b.lines \cup {l.by} /\ Named(b, l).about = l.by
                         /\ Absorbed(b, l).lines = b.lines \cup {l.by}
                         /\ Absorbed(b, l).about = b.about
                         /\ Opened(l).noise = 0 /\ Named(b, l).noise = b.noise
                         /\ Absorbed(b, l).noise = b.noise
    BY DEF Opened, Named, Absorbed, JavaBlock, Line
  <2>2. ~Closed.open
    BY DEF Closed
  <2> HIDE DEF Opened, Named, Absorbed, Closed
  <2>3. after = Opened(line) => OwnEvidence(after)
    <3>1. MaxUnparseableRun \in Nat
      BY ParserAssumption
    <3> QED
      BY <2>1, <3>1 DEF OwnEvidence
  <2>4. ASSUME b.open, b.about = line.by, after = Named(b, line) \/ after = Absorbed(b, line)
        PROVE  OwnEvidence(after)
    <3>1. b.lines = {line.by} /\ b.noise <= MaxUnparseableRun
      BY <2>4 DEF OwnEvidence
    <3> QED
      BY <2>1, <2>4, <3>1 DEF OwnEvidence
  <2> QED
    BY <2>2, <2>3, <2>4 DEF JavaAfter
<1>3. "java_crash" \in EventTypes
  BY DEF EventTypes
<1>4. out = IF EndsJava(line) THEN Finalize("java_crash", b) ELSE <<>>
  BY DEF JavaAfter, EndsJava, AndroidRuntime
<1>5. ~Reportable(b) => Finalize("java_crash", b) = <<>>
  BY <1>3, FinalizedBlock
<1>6. ASSUME Reportable(b)
      PROVE  \E e \in ProperEvents : e.type = "java_crash" /\ Finalize("java_crash", b) = <<e>>
  <2>1. OwnEvidence(b)
    BY <1>6 DEF Reportable
  <2>2. Event("java_crash", b) \in ProperEvents
    BY <1>3, <1>6, <2>1, FinalizedBlock DEF ProperEvents, Proper, OwnEvidence
  <2> QED
    BY <1>3, <1>6, <2>2, FinalizedBlock
<1>7. ReportsEnd(b, line, out)
  BY <1>4, <1>5, <1>6 DEF ReportsEnd
<1> QED
  BY <1>1, <1>2, <1>7

LEMMA ParsedIs ==
    ASSUME BlocksTyped(blocks), NEW line \in Line
    PROVE  /\ BlocksTyped(Parsed(line).bs)
           /\ \E out \in Seq(ProperEvents), rest \in Seq(OtherEvents) :
                 /\ JavaAfter(blocks.java, line, Parsed(line).bs.java, out)
                 /\ Parsed(line).out = out \o rest
<1> DEFINE j == JavaStage(blocks, line)
           n == Then(j, NativeStage, line)
           a == Then(n, AnrStage, line)
           f == Then(a, BufferStage, line)
<1>1. Parsed(line) = f
  BY DEF Parsed
<1>2. n = IF j.done THEN j
          ELSE Stage(NativeStage(j.bs, line).bs, j.out \o NativeStage(j.bs, line).out,
                     NativeStage(j.bs, line).done)
  BY DEF Then
<1> HIDE DEF n
<1>3. a = IF n.done THEN n
          ELSE Stage(AnrStage(n.bs, line).bs, n.out \o AnrStage(n.bs, line).out,
                     AnrStage(n.bs, line).done)
  BY DEF Then
<1> HIDE DEF a
<1>4. f = IF a.done THEN a
          ELSE Stage(BufferStage(a.bs, line).bs, a.out \o BufferStage(a.bs, line).out,
                     BufferStage(a.bs, line).done)
  BY DEF Then
<1> HIDE DEF f
<1>5. /\ JavaAfter(blocks.java, line, j.bs.java, j.out)
      /\ j.bs = [java |-> j.bs.java, native |-> blocks.native, anr |-> blocks.anr]
      /\ j.done \in BOOLEAN
  BY JavaStageIs
<1> HIDE DEF j
<1>6. j.bs.java \in JavaBlock /\ (j.bs.java.open => OwnEvidence(j.bs.java))
      /\ j.out \in Seq(ProperEvents)
  <2>1. blocks.java \in JavaBlock /\ (blocks.java.open => OwnEvidence(blocks.java))
    BY DEF BlocksTyped
  <2>2. j.out = <<>> \/ \E e \in ProperEvents : j.out = <<e>>
    BY <1>5, <2>1, JavaAfterTyped DEF ReportsEnd
  <2>3. j.out \in Seq(ProperEvents)
    <3>1. \A e \in ProperEvents : <<e>> \in Seq(ProperEvents)
      OBVIOUS
    <3>2. <<>> \in Seq(ProperEvents)
      OBVIOUS
    <3> QED
      BY <2>2, <3>1, <3>2
  <2> QED
    BY <1>5, <2>1, <2>3, JavaAfterTyped
<1>7. BlocksTyped(j.bs)
  <2>1. /\ j.bs.native = blocks.native /\ j.bs.anr = blocks.anr
        /\ j.bs = [java |-> j.bs.java, native |-> j.bs.native, anr |-> j.bs.anr]
    BY <1>5
  <2> QED
    BY <1>6, <2>1 DEF BlocksTyped
<1>8. Follows(j, j)
  <2>1. <<>> \in Seq(OtherEvents) /\ j.out = j.out \o <<>>
    BY <1>6
  <2> QED
    BY <1>5, <1>7, <2>1 DEF Follows
<1>9. Follows(j, n)
  BY <1>2, <1>6, <1>7, <1>8, StageFollows, NativeStageIs
<1>10. Follows(j, a)
  <2>1. BlocksTyped(n.bs)
    BY <1>9 DEF Follows
  <2> QED
    BY <1>3, <1>6, <1>9, <2>1, StageFollows, AnrStageIs
<1>11. Follows(j, f)
  <2>1. BlocksTyped(a.bs)
    BY <1>10 DEF Follows
  <2> QED
    BY <1>4, <1>6, <1>10, <2>1, StageFollows, BufferStageIs
<1> QED
  BY <1>1, <1>5, <1>6, <1>11 DEF Follows

-----------------------------------------------------------------------------
(* The crash of the package *)

LEMMA CrashAfterIs ==
    ASSUME NEW line, NEW terminates \in BOOLEAN
    PROVE  LET c == CrashAfter(line, terminates)  runtime == line.kind \in AndroidRuntime IN
           /\ line.kind = "FATAL EXCEPTION" /\ line.own => c = "headed"
           /\ line.kind = "FATAL EXCEPTION" /\ ~line.own =>
                 c = IF crash = "headed" THEN "cut" ELSE crash
           /\ line.kind = "Process:" /\ line.own /\ crash = "headed" => c = "named"
           /\ line.kind # "FATAL EXCEPTION" /\ ~ (line.kind = "Process:" /\ line.own) /\ ~terminates
              /\ (runtime \/ line.kind = "garbage") => c = crash
           /\ line.kind # "FATAL EXCEPTION" /\ crash # "headed" => c = crash
           /\ ~runtime /\ (terminates \/ line.kind # "garbage") =>
                 c = IF crash = "headed" THEN "cut" ELSE crash
<1>1. "FATAL EXCEPTION" \in AndroidRuntime /\ "Process:" \in AndroidRuntime
      /\ "FATAL EXCEPTION" # "Process:"
  BY DEF AndroidRuntime
<1> QED
  BY <1>1 DEF CrashAfter

\* A block that is closed, or that another process opens.
LEMMA BlockEnds ==
    ASSUME NEW b, NEW java, NEW n, NEW later,
           later = IF Reportable(b) THEN java \cup {n} ELSE java, CrashInv(crash, b, java)
    PROVE  /\ CountedAs(crash, later)
           /\ CountedAs(IF crash = "headed" THEN "cut" ELSE crash, later)
BY DEF CrashInv, CountedAs

LEMMA CrashFollows ==
    ASSUME NEW line \in AllLines, NEW b \in JavaBlock, NEW java, CrashInv(crash, b, java),
           NEW after, NEW out, JavaAfter(b, line, after, out), line.kind # "garbage",
           crash # "none" => ~ (line.own /\ line.kind = "FATAL EXCEPTION"),
           NEW n, NEW later,
           later = IF EndsJava(line) /\ Reportable(b) THEN java \cup {n} ELSE java
    PROVE  CrashInv(CrashAfter(line, FALSE), after, later)
<1> SUFFICES ASSUME NEW c, c = CrashAfter(line, FALSE) PROVE CrashInv(c, after, later)
  OBVIOUS
<1>1. /\ \A l \in OwnCrashLines : OwnCrash(line) => l.by = line.by
      /\ \A l \in OwnCrashLines : l.by = line.by => line.own
      /\ OwnCrash(line) => line \in OwnCrashLines
  <2>1. OwnCrash(line) => line \in OwnCrashLines
    BY DEF OwnCrashLines
  <2>2. \A l \in OwnCrashLines : l \in AllLines /\ l.own
    BY DEF OwnCrashLines, OwnCrash
  <2> QED
    BY <2>1, <2>2, CrashLines
<1>2. "FATAL EXCEPTION" \in AndroidRuntime /\ "Process:" \in AndroidRuntime
  BY DEF AndroidRuntime
<1>3. FALSE \in BOOLEAN
  OBVIOUS
<1>4. CASE line.kind = "FATAL EXCEPTION" /\ line.own
  <2>1. c = "headed" /\ crash = "none"
    BY <1>3, <1>4, CrashAfterIs
  <2>2. after = Opened(line) /\ OwnCrash(line)
    BY <1>2, <1>4 DEF JavaAfter, OwnCrash
  <2>3. after.open /\ ~after.named /\ after.about = line.by
    BY <2>2 DEF Opened
  <2>4. later = {} /\ ~Reportable(after)
    BY <2>1, <2>3 DEF CrashInv, CountedAs, Reportable
  <2> QED
    BY <1>1, <2>1, <2>2, <2>3, <2>4 DEF CrashInv, CountedAs
<1>5. CASE line.kind = "FATAL EXCEPTION" /\ ~line.own
  <2>1. c = IF crash = "headed" THEN "cut" ELSE crash
    BY <1>3, <1>5, CrashAfterIs
  <2>2. after = Opened(line)
    BY <1>2, <1>5 DEF JavaAfter
  <2>3. after.open /\ ~after.named /\ after.about = line.by
    BY <2>2 DEF Opened
  <2>4. later = IF Reportable(b) THEN java \cup {n} ELSE java
    BY <1>5 DEF EndsJava
  <2>5. CountedAs(c, later) /\ c # "headed" /\ ~Reportable(after)
    BY <2>1, <2>3, <2>4, BlockEnds DEF Reportable
  <2> QED
    BY <1>1, <1>5, <2>3, <2>5 DEF CrashInv
<1>6. CASE line.kind \notin AndroidRuntime
  <2>1. c = IF crash = "headed" THEN "cut" ELSE crash
    BY <1>3, <1>6, CrashAfterIs
  <2>2. after = Closed
    BY <1>2, <1>6 DEF JavaAfter
  <2>3. ~after.open
    BY <2>2 DEF Closed
  <2>4. later = IF Reportable(b) THEN java \cup {n} ELSE java
    BY <1>6 DEF EndsJava
  <2>5. CountedAs(c, later) /\ c # "headed" /\ ~Reportable(after)
    BY <2>1, <2>3, <2>4, BlockEnds DEF Reportable
  <2> QED
    BY <2>3, <2>5 DEF CrashInv
<1>7. CASE line.kind = "Process:" /\ b.open /\ b.about = line.by
  <2>1. after = Named(b, line) /\ ~EndsJava(line)
    BY <1>2, <1>7 DEF JavaAfter, EndsJava
  <2>2. after.open /\ after.named /\ after.own = line.own /\ after.about = line.by
    BY <1>7, <2>1 DEF Named, Absorbed, JavaBlock
  <2>3. later = java
    BY <2>1
  <2>4. CASE line.own
    <3>1. OwnCrash(line) /\ Reportable(after)
      BY <1>2, <1>7, <2>2, <2>4 DEF OwnCrash, Reportable
    <3>2. crash = "headed" \/ Reportable(b)
      BY <1>1, <1>7, <3>1 DEF CrashInv
    <3>3. c = "named" /\ java = {}
      BY <1>3, <1>7, <2>4, <3>2, CrashAfterIs DEF CrashInv, CountedAs, Reportable
    <3> QED
      BY <1>1, <2>2, <2>3, <3>1, <3>3 DEF CrashInv
  <2>5. CASE ~line.own
    <3>1. \A l \in OwnCrashLines : b.about # l.by
      BY <1>1, <1>7, <2>5
    <3>2. crash # "headed" /\ ~Reportable(b) /\ ~Reportable(after)
      BY <2>2, <2>5, <3>1 DEF CrashInv, Reportable
    <3>3. c = crash
      BY <1>3, <1>7, <3>2, CrashAfterIs
    <3> QED
      BY <1>7, <2>2, <2>3, <3>1, <3>2, <3>3 DEF CrashInv
  <2> QED
    BY <2>4, <2>5
<1>8. CASE /\ line.kind \in AndroidRuntime \ {"FATAL EXCEPTION", "Process:"}
           /\ b.open /\ b.about = line.by
  <2>1. after = Absorbed(b, line) /\ ~EndsJava(line)
    BY <1>8 DEF JavaAfter, EndsJava
  <2>2. after.open = b.open /\ after.named = b.named /\ after.own = b.own /\ after.about = b.about
    BY <2>1 DEF Absorbed, JavaBlock
  <2>3. c = crash /\ later = java
    BY <1>3, <1>8, <2>1, CrashAfterIs
  <2> QED
    BY <2>2, <2>3 DEF CrashInv, Reportable
<1>9. CASE /\ line.kind \in AndroidRuntime \ {"FATAL EXCEPTION"}
           /\ ~ (b.open /\ b.about = line.by)
  <2>1. after = b /\ ~EndsJava(line)
    BY <1>9 DEF JavaAfter, EndsJava
  <2>2. crash = "headed" => ~line.own
    BY <1>1, <1>9 DEF CrashInv, OwnCrash
  <2>3. c = crash /\ later = java
    BY <1>3, <1>9, <2>1, <2>2, CrashAfterIs
  <2> QED
    BY <2>1, <2>3 DEF CrashInv
<1> QED
  BY <1>2, <1>4, <1>5, <1>6, <1>7, <1>8, <1>9

-----------------------------------------------------------------------------
(* The steps of the parser *)

LEMMA EmittedGrows ==
    ASSUME NEW em \in Seq(ProperEvents), NEW out \in Seq(ProperEvents),
           NEW rest \in Seq(OtherEvents),
           out = <<>> \/ \E e \in ProperEvents : e.type = "java_crash" /\ out = <<e>>
    PROVE  /\ em \o (out \o rest) \in Seq(ProperEvents)
           /\ JavaIn(em \o (out \o rest)) =
                 IF out = <<>> THEN JavaIn(em) ELSE JavaIn(em) \cup {Len(em) + 1}
<1>1. rest \in Seq(ProperEvents) /\ rest \in Seq(CrashEvent) /\ JavaIn(rest) = {}
  BY OthersAreNoJava
<1>2. ProperEvents \subseteq CrashEvent
  BY DEF ProperEvents
<1>3. em \in Seq(CrashEvent) /\ out \in Seq(CrashEvent)
  BY <1>2
<1>4. em \o (out \o rest) = (em \o out) \o rest /\ em \o out \in Seq(ProperEvents)
  BY <1>1
<1>5. em \o out \in Seq(CrashEvent)
  BY <1>3
<1>6. JavaIn(em \o (out \o rest)) = JavaIn(em \o out)
  BY <1>1, <1>4, <1>5, JavaInConcat
<1>7. CASE out = <<>>
  <2>1. em \o out = em
    BY <1>7
  <2> QED
    BY <1>1, <1>4, <1>6, <1>7, <2>1
<1>8. ASSUME NEW e \in ProperEvents, e.type = "java_crash", out = <<e>>
      PROVE  JavaIn(em \o out) = JavaIn(em) \cup {Len(em) + 1} /\ out # <<>>
  <2>1. em \o out = Append(em, e) /\ out # <<>>
    BY <1>8
  <2>2. e \in CrashEvent
    BY <1>2
  <2> QED
    BY <1>3, <1>8, <2>1, <2>2, JavaInAppend
<1> QED
  BY <1>1, <1>4, <1>6, <1>7, <1>8

\* What is left of a script, and its first line.
RestOf(w, k, r) ==
    /\ k + 1 \in DOMAIN w /\ Head(r) = w[k + 1] /\ k + 1 \in 0 .. Len(w)
    /\ Tail(r) = SubSeq(w, (k + 1) + 1, Len(w))
    /\ \A i \in DOMAIN Tail(r) : i \in Nat \ {0} /\ i + 1 \in DOMAIN r /\ Tail(r)[i] = r[i + 1]
    /\ \A i \in DOMAIN r : i \in Nat \ {0} /\ k + i \in DOMAIN w /\ r[i] = w[k + i]
    /\ 1 \in DOMAIN r /\ Head(r) = r[1]

\* What is left of a script that is not over is the end of it.
LEMMA ScriptEnd ==
    ASSUME NEW w \in Seq(Line), NEW k \in 0 .. Len(w), NEW r, r = SubSeq(w, k + 1, Len(w)), r # <<>>
    PROVE  RestOf(w, k, r)
<1>1. PICK n : n = Len(w)
  OBVIOUS
<1>2. n \in Nat /\ DOMAIN w = 1 .. n /\ k \in Int /\ 0 <= k /\ k <= n /\ r = SubSeq(w, k + 1, n)
  BY <1>1
<1>3. k < n
  <2>1. ASSUME k = n PROVE FALSE
    <3>1. k + 1 \in Int /\ n \in Int /\ n < k + 1
      BY <1>2, <2>1
    <3> QED
      BY <1>2, <3>1, SubSeqEmpty
  <2> QED
    BY <1>2, <2>1
<1>4. /\ k + 1 \in 1 .. n /\ n \in (k + 1) .. n /\ k + 1 \in Int /\ n \in Int
      /\ \A i \in (k + 1) .. n : w[i] \in Line
  BY <1>1, <1>2, <1>3
<1>5. Head(r) = w[k + 1] /\ Tail(r) = SubSeq(w, (k + 1) + 1, n)
  BY <1>1, <1>2, <1>4, HeadTailOfSubSeq
<1>6. /\ r \in Seq(Line) /\ Len(r) = IF k + 1 <= n THEN n - (k + 1) + 1 ELSE 0
      /\ \A i \in 1 .. n - (k + 1) + 1 : r[i] = w[(k + 1) + i - 1]
  BY <1>2, <1>4, SubSeqProperties
<1>7. Len(r) = n - k /\ DOMAIN r = 1 .. Len(r) /\ \A i \in 1 .. n - k : r[i] = w[k + i]
  <2>1. Len(r) = n - k /\ n - (k + 1) + 1 = n - k
    BY <1>2, <1>3, <1>6
  <2>2. \A i \in 1 .. n - k : (k + 1) + i - 1 = k + i
    BY <1>2
  <2> QED
    BY <1>6, <2>1, <2>2
<1>8. \A i \in DOMAIN r : i \in Nat \ {0} /\ k + i \in DOMAIN w /\ r[i] = w[k + i]
  BY <1>2, <1>7
<1>9. \A i \in DOMAIN Tail(r) : i \in Nat \ {0} /\ i + 1 \in DOMAIN r /\ Tail(r)[i] = r[i + 1]
  <2>1. /\ Tail(r) \in Seq(Line) /\ Len(Tail(r)) = Len(r) - 1
        /\ \A i \in 1 .. Len(Tail(r)) : Tail(r)[i] = r[i + 1]
    BY <1>6, HeadTailProperties
  <2>2. DOMAIN Tail(r) = 1 .. (n - k - 1)
    BY <1>2, <1>7, <2>1
  <2> QED
    BY <1>2, <1>7, <2>1, <2>2
<1>10. 1 \in DOMAIN r /\ r[1] = w[k + 1]
  BY <1>2, <1>3, <1>7
<1> QED
  BY <1>1, <1>2, <1>4, <1>5, <1>8, <1>9, <1>10 DEF RestOf

\* A line that is fed is of the log; of what remains nothing changes but that it is gone.
LEMMA LineFed ==
    ASSUME ParserTypes, NEW w \in DOMAIN pending, pending[w] # <<>>,
           pending' = [pending EXCEPT ![w] = Tail(@)]
    PROVE  LET line == Head(pending[w]) IN
           /\ line \in AllLines /\ pending' # <<>>
           /\ DOMAIN pending' \subseteq Scripts /\ pending' = [v \in DOMAIN pending' |-> pending'[v]]
           /\ \A v \in DOMAIN pending' : Remains(v)'
           /\ NoCrashLeft => NoCrashLeft' /\ ~ (line.own /\ line.kind = "FATAL EXCEPTION")
           /\ line.own /\ line.kind = "FATAL EXCEPTION" => NoCrashLeft'
<1> DEFINE line == Head(pending[w])
<1>1. PICK k \in 0 .. Len(w) : pending[w] = SubSeq(w, k + 1, Len(w))
  BY DEF ParserTypes, Remains
<1>2. w \in Scripts /\ w \in Seq(Line)
  BY ParserAssumption DEF ParserTypes
<1>3. /\ k + 1 \in DOMAIN w /\ line = w[k + 1] /\ k + 1 \in 0 .. Len(w)
      /\ Tail(pending[w]) = SubSeq(w, (k + 1) + 1, Len(w))
      /\ \A i \in DOMAIN Tail(pending[w]) :
            /\ i \in Nat \ {0} /\ i + 1 \in DOMAIN pending[w]
            /\ Tail(pending[w])[i] = pending[w][i + 1]
      /\ \A i \in DOMAIN pending[w] : i \in Nat \ {0} /\ k + i \in DOMAIN w /\ pending[w][i] = w[k + i]
      /\ 1 \in DOMAIN pending[w] /\ line = pending[w][1]
  <2> DEFINE r == pending[w]
  <2>1. r = SubSeq(w, k + 1, Len(w)) /\ r # <<>>
    BY <1>1
  <2> HIDE DEF r
  <2>0. RestOf(w, k, r)
    BY <1>2, <2>1, ScriptEnd
  <2>2. /\ k + 1 \in DOMAIN w /\ Head(r) = w[k + 1] /\ k + 1 \in 0 .. Len(w)
        /\ Tail(r) = SubSeq(w, (k + 1) + 1, Len(w))
        /\ 1 \in DOMAIN r /\ Head(r) = r[1]
    BY <2>0 DEF RestOf
  <2>3. \A i \in DOMAIN Tail(r) : i \in Nat \ {0} /\ i + 1 \in DOMAIN r /\ Tail(r)[i] = r[i + 1]
    BY <2>0 DEF RestOf
  <2>4. \A i \in DOMAIN r : i \in Nat \ {0} /\ k + i \in DOMAIN w /\ r[i] = w[k + i]
    BY <2>0 DEF RestOf
  <2> QED
    BY <2>2, <2>3, <2>4 DEF r
<1>4. line \in AllLines
  <2>1. w[k + 1] \in Line
    BY <1>2, <1>3
  <2> QED
    BY <1>2, <1>3, <2>1 DEF AllLines
<1>5. /\ DOMAIN pending' = DOMAIN pending /\ pending'[w] = Tail(pending[w])
      /\ \A v \in DOMAIN pending : v # w => pending'[v] = pending[v]
      /\ pending' = [v \in DOMAIN pending' |-> pending'[v]]
  BY DEF ParserTypes
<1>6. pending' # <<>>
  BY <1>5
<1>7. ASSUME NEW v \in DOMAIN pending' PROVE Remains(v)'
  <2>1. CASE v = w
    BY <1>3, <1>5, <2>1 DEF Remains
  <2>2. CASE v # w
    <3>1. \E l \in 0 .. Len(v) : pending[v] = SubSeq(v, l + 1, Len(v))
      BY <1>5 DEF ParserTypes, Remains
    <3> QED
      BY <1>5, <2>2, <3>1 DEF Remains
  <2> QED
    BY <2>1, <2>2
<1>8. ASSUME NoCrashLeft PROVE NoCrashLeft' /\ ~ (line.own /\ line.kind = "FATAL EXCEPTION")
  <2>1. ~ (line.own /\ line.kind = "FATAL EXCEPTION")
    <3>1. ~ (pending[w][1].own /\ pending[w][1].kind = "FATAL EXCEPTION")
      BY <1>3, <1>8 DEF NoCrashLeft
    <3> QED
      BY <1>3, <3>1
  <2>2. ASSUME NEW v \in DOMAIN pending', NEW i \in DOMAIN pending'[v]
        PROVE  ~ (pending'[v][i].own /\ pending'[v][i].kind = "FATAL EXCEPTION")
    <3>1. CASE v = w
      <4>1. i + 1 \in DOMAIN pending[w] /\ pending'[v][i] = pending[w][i + 1]
        BY <1>3, <1>5, <2>2, <3>1
      <4> QED
        BY <1>8, <4>1 DEF NoCrashLeft
    <3>2. CASE v # w
      BY <1>5, <1>8, <2>2, <3>2 DEF NoCrashLeft
    <3> QED
      BY <3>1, <3>2
  <2> QED
    BY <2>1, <2>2 DEF NoCrashLeft
<1>9. ASSUME line.own, line.kind = "FATAL EXCEPTION",
             NEW v \in DOMAIN pending', NEW i \in DOMAIN pending'[v],
             pending'[v][i].own, pending'[v][i].kind = "FATAL EXCEPTION"
      PROVE  FALSE
  <2>1. "FATAL EXCEPTION" \in AndroidRuntime
    BY DEF AndroidRuntime
  <2>2. OwnCrash(line)
    BY <1>9, <2>1 DEF OwnCrash
  <2>3. CASE v = w
    <3>1. pending'[v][i] = w[k + (i + 1)] /\ k + (i + 1) \in DOMAIN w
      BY <1>3, <1>5, <1>9, <2>3
    <3>2. OwnCrash(w[k + (i + 1)])
      BY <1>9, <2>1, <3>1 DEF OwnCrash
    <3>3. k + 1 = k + (i + 1)
      <4>1. /\ OwnCrash(w[k + 1]) /\ w[k + 1].kind = "FATAL EXCEPTION"
            /\ w[k + (i + 1)].kind = "FATAL EXCEPTION"
        BY <1>3, <1>9, <2>2, <3>1
      <4>2. PICK a, b : a = k + 1 /\ b = k + (i + 1)
        OBVIOUS
      <4>3. a \in DOMAIN w /\ b \in DOMAIN w /\ OwnCrash(w[a]) /\ OwnCrash(w[b])
        BY <1>3, <3>1, <3>2, <4>1, <4>2
      <4>4. w[a].kind = "FATAL EXCEPTION" /\ w[b].kind = "FATAL EXCEPTION"
        BY <4>1, <4>2
      <4>5. a = b
        BY <1>2, <4>3, <4>4, OneCrash
      <4> QED
        BY <4>2, <4>5
    <3>4. i \in Nat \ {0} /\ k \in Nat
      <4>1. i \in DOMAIN Tail(pending[w])
        BY <1>5, <1>9, <2>3
      <4>2. k \in Nat
        BY <1>2
      <4> QED
        BY <1>3, <4>1, <4>2
    <3> QED
      BY <3>3, <3>4
  <2>4. CASE v # w
    <3>1. v \in Scripts /\ v \in Seq(Line) /\ pending'[v] = pending[v] /\ i \in DOMAIN pending[v]
      BY <1>5, <1>9, <2>4, ParserAssumption DEF ParserTypes
    <3>2. PICK l \in 0 .. Len(v) : pending[v] = SubSeq(v, l + 1, Len(v))
      BY <1>5 DEF ParserTypes, Remains
    <3>3. l + i \in DOMAIN v /\ pending[v][i] = v[l + i]
      <4>1. pending[v] # <<>>
        BY <3>1
      <4> QED
        BY <3>1, <3>2, <4>1, ScriptEnd DEF RestOf
    <3>4. OwnCrash(v[l + i])
      BY <1>9, <2>1, <3>1, <3>3 DEF OwnCrash
    <3>5. OwnCrash(w[k + 1])
      BY <1>3, <2>2
    <3>6. w = v
      BY <1>2, <1>3, <3>1, <3>3, <3>4, <3>5, OneCrash
    <3> QED
      BY <2>4, <3>6
  <2> QED
    BY <2>3, <2>4
<1>10. line.own /\ line.kind = "FATAL EXCEPTION" => NoCrashLeft'
  BY <1>9 DEF NoCrashLeft
<1> QED
  BY <1>4, <1>5, <1>6, <1>7, <1>8, <1>10 DEF ParserTypes

\* All open blocks are ended.
LEMMA AllEnded ==
    ASSUME ParserTypes, CrashInv(crash, blocks.java, JavaIn(emitted))
    PROVE  /\ BlocksTyped(NoBlocks) /\ ~NoBlocks.java.open
           /\ emitted \o Flushed \in Seq(ProperEvents)
           /\ CountedAs(crash, JavaIn(emitted \o Flushed))
           /\ CountedAs(IF crash = "headed" THEN "cut" ELSE crash, JavaIn(emitted \o Flushed))
<1> DEFINE b == blocks.java
           out == Finalize("java_crash", b)
           nat == Finalize("native_crash", blocks.native)
           anr == Finalize("anr", blocks.anr)
<1>1. /\ b \in JavaBlock /\ blocks.native \in JavaBlock /\ blocks.anr \in JavaBlock
      /\ (b.open => OwnEvidence(b)) /\ emitted \in Seq(ProperEvents)
  BY DEF ParserTypes, BlocksTyped
<1>2. BlocksTyped(NoBlocks) /\ ~NoBlocks.java.open
  <2>1. NoBlocks = [java |-> Closed, native |-> Closed, anr |-> Closed]
    <3>1. DOMAIN blocks = {"java", "native", "anr"}
      <4>1. blocks = [java |-> blocks.java, native |-> blocks.native, anr |-> blocks.anr]
        BY DEF ParserTypes, BlocksTyped
      <4> DEFINE x == blocks.java
                 y == blocks.native
                 z == blocks.anr
      <4>2. DOMAIN [java |-> x, native |-> y, anr |-> z] = {"java", "native", "anr"}
        OBVIOUS
      <4> HIDE DEF x, y, z
      <4>3. blocks = [java |-> x, native |-> y, anr |-> z]
        BY <4>1 DEF x, y, z
      <4> QED
        BY <4>2, <4>3
    <3> QED
      BY <3>1 DEF NoBlocks
  <2>2. Closed \in JavaBlock /\ ~Closed.open
    BY BlockTypes DEF Closed
  <2> HIDE DEF Closed
  <2> QED
    BY <2>1, <2>2 DEF BlocksTyped
<1>3. /\ ~Reportable(b) => out = <<>>
      /\ Reportable(b) => \E e \in ProperEvents : e.type = "java_crash" /\ out = <<e>>
  <2>1. "java_crash" \in EventTypes
    BY DEF EventTypes
  <2>2. ASSUME Reportable(b) PROVE Event("java_crash", b) \in ProperEvents
    <3>1. OwnEvidence(b)
      BY <1>1, <2>2 DEF Reportable
    <3> QED
      BY <1>1, <2>1, <2>2, <3>1, FinalizedBlock DEF ProperEvents, Proper, OwnEvidence
  <2> QED
    BY <1>1, <2>1, <2>2, FinalizedBlock
<1>4. nat \in Seq(OtherEvents)
  BY <1>1, FinalizedBlock DEF EventTypes
<1>5. anr \in Seq(OtherEvents)
  BY <1>1, FinalizedBlock DEF EventTypes
<1>6. out \in Seq(ProperEvents)
  <2>1. \A e \in ProperEvents : <<e>> \in Seq(ProperEvents)
    OBVIOUS
  <2>2. <<>> \in Seq(ProperEvents)
    OBVIOUS
  <2> HIDE DEF out
  <2> QED
    BY <1>3, <2>1, <2>2
<1>7. Flushed = (out \o nat) \o anr
  BY DEF Flushed
<1> HIDE DEF b, out, nat, anr
<1>8. Flushed = out \o (nat \o anr) /\ nat \o anr \in Seq(OtherEvents)
  BY <1>4, <1>5, <1>6, <1>7, OthersJoin
<1>9. \/ out = <<>>
      \/ \E e \in ProperEvents : e.type = "java_crash" /\ out = <<e>>
  <2>1. CASE Reportable(b)
    BY <1>3, <2>1
  <2>2. CASE ~Reportable(b)
    BY <1>3, <2>2
  <2> QED
    BY <2>1, <2>2
<1>10. /\ emitted \o Flushed \in Seq(ProperEvents)
       /\ JavaIn(emitted \o Flushed) =
             IF out = <<>> THEN JavaIn(emitted) ELSE JavaIn(emitted) \cup {Len(emitted) + 1}
  BY <1>1, <1>6, <1>8, <1>9, EmittedGrows
<1>11. out = <<>> <=> ~Reportable(b)
  <2>1. \A e \in ProperEvents : <<e>> # <<>>
    OBVIOUS
  <2> QED
    BY <1>3, <2>1
<1>12. JavaIn(emitted \o Flushed) =
          IF Reportable(b) THEN JavaIn(emitted) \cup {Len(emitted) + 1} ELSE JavaIn(emitted)
  BY <1>10, <1>11
<1>13. CrashInv(crash, b, JavaIn(emitted))
  BY DEF b
<1> QED
  BY <1>2, <1>10, <1>12, <1>13, BlockEnds

LEMMA ParsedFed ==
    ASSUME ParserTypes, CrashInv(crash, blocks.java, JavaIn(emitted)), NEW line \in AllLines,
           FeedParsed(line), crash # "none" => ~ (line.own /\ line.kind = "FATAL EXCEPTION")
    PROVE  /\ BlocksTyped(blocks') /\ emitted' \in Seq(ProperEvents)
           /\ crash' = CrashAfter(line, FALSE)
           /\ CrashInv(crash', blocks'.java, JavaIn(emitted'))
<1>1. line \in Line /\ BlocksTyped(blocks) /\ emitted \in Seq(ProperEvents)
  BY CrashLines DEF ParserTypes
<1>2. PICK out \in Seq(ProperEvents) : \E rest \in Seq(OtherEvents) :
          /\ JavaAfter(blocks.java, line, Parsed(line).bs.java, out)
          /\ Parsed(line).out = out \o rest
  BY <1>1, ParsedIs
<1>3. PICK rest \in Seq(OtherEvents) :
          /\ JavaAfter(blocks.java, line, Parsed(line).bs.java, out)
          /\ Parsed(line).out = out \o rest
  BY <1>2
<1>4. /\ blocks' = Parsed(line).bs /\ emitted' = emitted \o (out \o rest)
      /\ crash' = CrashAfter(line, FALSE) /\ line.kind # "garbage"
  BY <1>3 DEF FeedParsed
<1>5. BlocksTyped(blocks')
  BY <1>1, <1>4, ParsedIs
<1>6. blocks.java \in JavaBlock /\ (blocks.java.open => OwnEvidence(blocks.java))
  BY <1>1 DEF BlocksTyped
<1>7. ReportsEnd(blocks.java, line, out)
  <2> DEFINE b == blocks.java
             after == Parsed(line).bs.java
  <2>1. b \in JavaBlock /\ (b.open => OwnEvidence(b)) /\ JavaAfter(b, line, after, out)
    BY <1>3, <1>6
  <2> HIDE DEF b, after
  <2>2. ReportsEnd(b, line, out)
    BY <1>1, <2>1, JavaAfterTyped
  <2> QED
    BY <2>2 DEF b
<1>8. out = <<>> \/ \E e \in ProperEvents : e.type = "java_crash" /\ out = <<e>>
  BY <1>7 DEF ReportsEnd
<1>9. /\ emitted' \in Seq(ProperEvents)
      /\ JavaIn(emitted') = IF out = <<>> THEN JavaIn(emitted) ELSE JavaIn(emitted) \cup {Len(emitted) + 1}
  BY <1>1, <1>3, <1>4, <1>8, EmittedGrows
<1>10. JavaIn(emitted') = IF EndsJava(line) /\ Reportable(blocks.java)
                          THEN JavaIn(emitted) \cup {Len(emitted) + 1} ELSE JavaIn(emitted)
  <2>1. out = <<>> <=> ~ (EndsJava(line) /\ Reportable(blocks.java))
    <3>1. \A e \in ProperEvents : <<e>> # <<>>
      OBVIOUS
    <3> QED
      BY <1>7, <3>1 DEF ReportsEnd
  <2> QED
    BY <1>9, <2>1
<1>11. CrashInv(CrashAfter(line, FALSE), blocks'.java, JavaIn(emitted'))
  BY <1>3, <1>4, <1>6, <1>10, CrashFollows
<1> QED
  BY <1>4, <1>5, <1>9, <1>11

LEMMA GarbageFed ==
    ASSUME ParserTypes, CrashInv(crash, blocks.java, JavaIn(emitted)), NEW line, FeedGarbage(line)
    PROVE  /\ BlocksTyped(blocks') /\ emitted' \in Seq(ProperEvents)
           /\ CrashInv(crash', blocks'.java, JavaIn(emitted'))
           /\ crash' \in {crash, "cut"} /\ (crash = "none" => crash' = "none")
<1>1. line.kind = "garbage" /\ crash' = CrashAfter(line, ~Tolerated)
      /\ "garbage" \notin AndroidRuntime
  BY DEF FeedGarbage, AndroidRuntime
<1>2. CASE Tolerated
  <2>1. crash' = CrashAfter(line, FALSE)
    BY <1>1, <1>2
  <2>2. crash' = crash
    BY <1>1, <2>1, CrashAfterIs
  <2>3. blocks' = [b \in DOMAIN blocks |-> WithNoise(blocks[b])] /\ emitted' = emitted
        /\ run' = run + 1
    BY <1>2 DEF FeedGarbage
  <2>4. DOMAIN blocks = {"java", "native", "anr"}
    BY DEF ParserTypes, BlocksTyped
  <2>5. /\ blocks'.java = WithNoise(blocks.java) /\ blocks'.native = WithNoise(blocks.native)
        /\ blocks'.anr = WithNoise(blocks.anr)
        /\ blocks' = [java |-> blocks'.java, native |-> blocks'.native, anr |-> blocks'.anr]
    BY <2>3, <2>4
  <2>6. run \in Nat /\ run + 1 <= MaxUnparseableRun
    <3>1. run \in Nat /\ run < MaxUnparseableRun
      BY <1>2 DEF Tolerated, ParserTypes
    <3>2. MaxUnparseableRun \in Nat
      BY ParserAssumption
    <3> QED
      BY <3>1, <3>2
  <2>7. ASSUME NEW b \in JavaBlock
        PROVE  /\ WithNoise(b) \in JavaBlock /\ WithNoise(b).open = b.open
               /\ WithNoise(b).named = b.named /\ WithNoise(b).own = b.own
               /\ WithNoise(b).about = b.about
               /\ OwnEvidence(b) => OwnEvidence(WithNoise(b))
    BY <2>6 DEF WithNoise, JavaBlock, OwnEvidence
  <2>8. BlocksTyped(blocks')
    BY <2>5, <2>7 DEF ParserTypes, BlocksTyped
  <2>9. CrashInv(crash, blocks'.java, JavaIn(emitted))
    BY <2>5, <2>7 DEF CrashInv, Reportable, ParserTypes, BlocksTyped
  <2> QED
    BY <2>2, <2>3, <2>8, <2>9 DEF ParserTypes
<1>3. CASE ~Tolerated
  <2>1. crash' = CrashAfter(line, TRUE)
    BY <1>1, <1>3
  <2>2. crash' = IF crash = "headed" THEN "cut" ELSE crash
    BY <1>1, <2>1, CrashAfterIs
  <2>3. blocks' = NoBlocks /\ emitted' = emitted \o Flushed
    BY <1>3 DEF FeedGarbage
  <2>4. /\ BlocksTyped(blocks') /\ ~blocks'.java.open /\ emitted' \in Seq(ProperEvents)
        /\ CountedAs(crash', JavaIn(emitted'))
    BY <2>2, <2>3, AllEnded
  <2>5. CrashInv(crash', blocks'.java, JavaIn(emitted'))
    <3>1. ~Reportable(blocks'.java) /\ crash' # "headed"
      BY <2>2, <2>4 DEF Reportable
    <3> QED
      BY <2>4, <3>1 DEF CrashInv
  <2> QED
    BY <2>2, <2>4, <2>5
<1> QED
  BY <1>2, <1>3

LEMMA LineKeeps == ParserInv /\ Feed => ParserInv'
<1> SUFFICES ASSUME ParserInv, Feed PROVE ParserInv'
  OBVIOUS
<1>1. PICK w \in DOMAIN pending :
        /\ pending[w] # <<>> /\ pending' = [pending EXCEPT ![w] = Tail(@)]
        /\ FeedParsed(Head(pending[w])) \/ FeedGarbage(Head(pending[w]))
  BY DEF Feed
<1> DEFINE line == Head(pending[w])
<1>2. /\ ~ended /\ ended' = ended /\ ParserTypes
      /\ CrashInv(crash, blocks.java, JavaIn(emitted))
      /\ (crash # "none" => pending # <<>> /\ NoCrashLeft)
  BY DEF Feed, ParserInv
<1>3. /\ line \in AllLines /\ pending' # <<>>
      /\ DOMAIN pending' \subseteq Scripts /\ pending' = [v \in DOMAIN pending' |-> pending'[v]]
      /\ \A v \in DOMAIN pending' : Remains(v)'
      /\ NoCrashLeft => NoCrashLeft' /\ ~ (line.own /\ line.kind = "FATAL EXCEPTION")
      /\ line.own /\ line.kind = "FATAL EXCEPTION" => NoCrashLeft'
  BY <1>1, <1>2, LineFed
<1>4. /\ BlocksTyped(blocks') /\ emitted' \in Seq(ProperEvents)
      /\ CrashInv(crash', blocks'.java, JavaIn(emitted'))
      /\ crash' \in {"none", "headed", "named", "cut"}
      /\ crash' # "none" => NoCrashLeft'
  <2> HIDE DEF line
  <2>1. CASE FeedParsed(line)
    <3>1. /\ BlocksTyped(blocks') /\ emitted' \in Seq(ProperEvents)
          /\ crash' = CrashAfter(line, FALSE)
          /\ CrashInv(crash', blocks'.java, JavaIn(emitted'))
      BY <1>2, <1>3, <2>1, ParsedFed
    <3>2. crash' \in {"none", "headed", "named", "cut"}
      BY <1>2, <3>1 DEF CrashAfter, ParserTypes
    <3>3. crash = "none" /\ crash' # "none" => line.own /\ line.kind = "FATAL EXCEPTION"
      BY <3>1 DEF CrashAfter
    <3> QED
      BY <1>2, <1>3, <3>1, <3>2, <3>3
  <2>2. CASE FeedGarbage(line)
    BY <1>2, <1>3, <2>2, GarbageFed DEF ParserTypes
  <2> QED
    BY <1>1, <2>1, <2>2 DEF line
<1>5. run' \in Nat
  <2>1. run' \in {0, run + 1} /\ run \in Nat
    BY <1>1, <1>2 DEF FeedParsed, FeedGarbage, ParserTypes
  <2> QED
    BY <2>1
<1>6. ParserTypes'
  BY <1>2, <1>3, <1>4, <1>5 DEF ParserTypes
<1> QED
  BY <1>2, <1>3, <1>4, <1>6 DEF ParserInv

LEMMA ParserStep == ParserInv /\ [ParserNext]_parserVars => ParserInv'
<1> SUFFICES ASSUME ParserInv, [ParserNext]_parserVars PROVE ParserInv'
  OBVIOUS
<1>1. CASE ChooseWriters
  <2>1. PICK ws \in SUBSET Scripts : Cardinality(ws) \in 1 .. MaxWriters /\ pending' = [w \in ws |-> w]
    BY <1>1 DEF ChooseWriters
  <2>2. pending = <<>> /\ UNCHANGED <<blocks, run, emitted, ended, crash>>
    BY <1>1 DEF ChooseWriters
  <2>3. crash = "none" /\ ~ended
    BY <2>2 DEF ParserInv
  <2>4. DOMAIN pending' \subseteq Scripts /\ pending' = [w \in DOMAIN pending' |-> pending'[w]]
    BY <2>1
  <2>5. ASSUME NEW w \in DOMAIN pending' PROVE Remains(w)'
    <3>1. pending'[w] = w /\ w \in Seq(Line)
      BY <2>1, <2>5, ParserAssumption
    <3>2. w = SubSeq(w, 0 + 1, Len(w)) /\ 0 \in 0 .. Len(w)
      BY <3>1, SubSeqFull
    <3> QED
      BY <3>1, <3>2 DEF Remains
  <2>6. ParserTypes'
    BY <2>2, <2>4, <2>5 DEF ParserInv, ParserTypes
  <2> QED
    BY <2>2, <2>3, <2>6 DEF ParserInv
<1>2. CASE Feed
  BY <1>2, LineKeeps
<1>3. CASE FlushParser
  <2>1. /\ ~ended /\ ended' = TRUE /\ pending # <<>> /\ pending' = pending /\ crash' = crash
        /\ blocks' = NoBlocks /\ emitted' = emitted \o Flushed /\ run' = run
    BY <1>3 DEF FlushParser
  <2>2. /\ BlocksTyped(blocks') /\ emitted' \in Seq(ProperEvents) /\ CountedAs(crash', JavaIn(emitted'))
    BY <2>1, AllEnded DEF ParserInv
  <2>3. ParserTypes'
    BY <2>1, <2>2 DEF ParserInv, ParserTypes, Remains
  <2> QED
    BY <2>1, <2>2, <2>3 DEF ParserInv, NoCrashLeft
<1>4. CASE UNCHANGED parserVars
  BY <1>4 DEF parserVars, ParserInv, ParserTypes, Remains, NoCrashLeft
<1> QED
  BY <1>1, <1>2, <1>3, <1>4 DEF ParserNext

\* However many writers and however their lines fall between one another: no event is
\* of another package's process, the Java crash of the package is reported once if its
\* block lasts until the line that names the process, and not otherwise, and of the lines
\* that tell a process it has those of the one that crashed (detection.py, LogcatLineParser).
THEOREM CrashesAreParsed == ParserSpec => []CrashesParsed
<1>1. ParserInit => ParserInv
  <2> SUFFICES ASSUME ParserInit PROVE ParserInv
    OBVIOUS
  <2>1. /\ pending = <<>> /\ emitted = <<>> /\ ended = FALSE /\ crash = "none" /\ run = 0
        /\ blocks = [java |-> Closed, native |-> Closed, anr |-> Closed]
    BY DEF ParserInit
  <2>2. Closed \in JavaBlock /\ ~Closed.open
    BY BlockTypes DEF Closed
  <2>3. BlocksTyped(blocks) /\ ~blocks.java.open
    <3> HIDE DEF Closed
    <3> QED
      BY <2>1, <2>2 DEF BlocksTyped
  <2>4. DOMAIN pending = {} /\ pending = [w \in DOMAIN pending |-> pending[w]]
        /\ emitted \in Seq(ProperEvents) /\ JavaIn(emitted) = {}
    BY <2>1 DEF JavaIn
  <2>5. CrashInv("none", blocks.java, {})
    BY <2>3 DEF CrashInv, CountedAs, Reportable
  <2>6. ParserTypes
    BY <2>1, <2>3, <2>4 DEF ParserTypes
  <2> QED
    BY <2>1, <2>4, <2>5, <2>6 DEF ParserInv
<1>2. ParserInv => CrashesParsed
  <2> SUFFICES ASSUME ParserInv PROVE CrashesParsed
    OBVIOUS
  <2>1. \A i \in DOMAIN emitted : emitted[i] \in CrashEvent /\ Proper(emitted[i])
    BY DEF ParserInv, ParserTypes, ProperEvents
  <2>2. EventsOf("java_crash") = JavaIn(emitted)
    BY DEF EventsOf, JavaIn
  <2>3. OnlyOwnEvents /\ JavaEvidenceOwn
    BY <2>1, <2>2 DEF OnlyOwnEvents, JavaEvidenceOwn, Proper, JavaIn
  <2>4. JavaCrashOnce
    <3> SUFFICES ASSUME ended
                 PROVE  Cardinality(JavaIn(emitted)) = IF crash = "named" THEN 1 ELSE 0
      BY <2>2 DEF JavaCrashOnce
    <3>1. CountedAs(crash, JavaIn(emitted))
      BY DEF ParserInv
    <3> QED
      BY <3>1, FS_Singleton, FS_EmptySet DEF CountedAs
  <2> QED
    BY <2>3, <2>4 DEF CrashesParsed
<1> QED
  BY <1>1, <1>2, ParserStep, PTL DEF ParserSpec
-----------------------------------------------------------------------------
(* Fusion *)

\* A finite set of numbers has a smallest element, which Min is.
LEMMA FiniteMin ==
    ASSUME NEW S, IsFiniteSet(S), S \subseteq Int, S # {}
    PROVE  Min(S) \in S /\ \A y \in S : Min(S) <= y
<1> DEFINE Below(x) == {y \in S : y < x}
           T == {Below(x) : x \in S}
<1>1. PICK t \in T : \A u \in T : ~(<<u, t>> \in StrictSubsetOrdering(S))
  <2>1. IsWellFoundedOn(StrictSubsetOrdering(S), FiniteSubsetsOf(S))
    BY FS_StrictSubsetOrderingWellFounded
  <2>2. T \subseteq FiniteSubsetsOf(S) /\ T # {}
    <3>1. \A x \in S : Below(x) \in SUBSET S /\ IsFiniteSet(Below(x))
      BY FS_Subset
    <3> QED
      BY <3>1 DEF FiniteSubsetsOf
  <2> HIDE DEF T
  <2> QED
    BY <2>1, <2>2, WFMin
<1>2. PICK x \in S : t = Below(x)
  BY <1>1
<1>3. ASSUME NEW y \in S, y < x PROVE FALSE
  <2>1. x \in Int /\ y \in Int
    OBVIOUS
  <2>2. \A z \in S : z < y => z < x
    BY <1>3, <2>1
  <2>a. Below(y) \subseteq Below(x)
    BY <2>2
  <2>b. y \in Below(x)
    BY <1>3
  <2>c. y \notin Below(y)
    <3>1. ~ (y < y)
      BY <2>1
    <3> QED
      BY <3>1
  <2>3. Below(y) \subseteq Below(x) /\ y \in Below(x) /\ y \notin Below(y)
    BY <2>a, <2>b, <2>c
  <2>4. <<Below(y), Below(x)>> \in StrictSubsetOrdering(S)
    BY <2>3 DEF StrictSubsetOrdering
  <2> QED
    BY <1>1, <1>2, <2>4
<1>4. \A y \in S : x <= y
  BY <1>3
<1> QED
  BY <1>4 DEF Min

\* An observation, and the process life, the type and the time that its keys tell.
Obs(o) ==
    o = [of |-> o.of, source |-> o.source, pid |-> o.pid, type |-> o.type,
         subtype |-> o.subtype, marker |-> o.marker, at |-> o.at, fault |-> o.fault]
Origin(o) == <<o.pid, o.type, Bucket(o)>>

\* What an observation tells of the failure it is of.
TellsOf(o, fs) ==
    /\ Obs(o) /\ o.of \in DOMAIN fs /\ o.at \in Int
    /\ o.pid = fs[o.of].pid /\ o.source \in {"logcat", "exit_info"}
    /\ o.source = "logcat" => o.at = fs[o.of].at
    /\ o.source = "logcat" /\ o.type \in CrashTypes => o.marker = fs[o.of].marker

OneMarker(members) ==
    \A a, b \in members : a.marker = b.marker \/ a.marker = "" \/ b.marker = ""

\* An occurrence was made of one observation; all its members are like it.
Occurrence(c, fs, exits) ==
    /\ c = [key |-> c.key, bases |-> c.bases, members |-> c.members, first |-> c.first]
    /\ \E g : Obs(g) /\ c.first = Untagged(g) /\ c.key = FusionKey(g)
                     /\ c.bases = {BaseKey(g), BaseKey(Untagged(g))}
    /\ c.first \in c.members
    /\ \A m \in c.members :
          /\ TellsOf(m, fs) /\ Untagged(m) = m /\ Origin(m) = Origin(c.first)
          /\ m.source = "exit_info" => m.of \in exits
    /\ OneMarker(c.members)

Members(i) == occurrences[i].members
FirstOf(i) == occurrences[i].first

\* Two occurrences that one observation could join are of two signatures.
Apart(i, j) ==
    \E x \in Members(i) : x.marker # "" /\ \A y \in Members(j) : y.marker # "" /\ y.marker # x.marker

FusionTypes ==
    /\ \E S : occurrences \in Seq(S)
    /\ forgotten \subseteq DOMAIN occurrences
    /\ failures \in Failures \cup {<<>>} /\ fused \subseteq DOMAIN failures
    /\ failures = <<>> => occurrences = <<>> /\ ~stopping
    /\ aged = {} \/ aged = Live

Occurrences == \A i \in DOMAIN occurrences : Occurrence(occurrences[i], failures, fused)
PairsApart ==
    \A i, j \in DOMAIN occurrences :
        i < j /\ i \notin forgotten /\ Origin(FirstOf(i)) = Origin(FirstOf(j)) => Apart(i, j)

FusionInv ==
    /\ FusionTypes /\ Occurrences /\ PairsApart
    /\ CrashCountedOnce /\ FailuresSurface

LEMMA UntaggedIs ==
    ASSUME NEW o, Obs(o)
    PROVE  /\ Obs(Untagged(o)) /\ Untagged(Untagged(o)) = Untagged(o)
           /\ Untagged(o).of = o.of /\ Untagged(o).source = o.source /\ Untagged(o).pid = o.pid
           /\ Untagged(o).type = o.type /\ Untagged(o).subtype = o.subtype
           /\ Untagged(o).marker = o.marker /\ Untagged(o).at = o.at /\ Untagged(o).fault = ""
           /\ Origin(Untagged(o)) = Origin(o) /\ Fingerprint(Untagged(o)) = Fingerprint(o)
           /\ \A fs : TellsOf(o, fs) => TellsOf(Untagged(o), fs)
<1> DEFINE u == [of |-> o.of, source |-> o.source, pid |-> o.pid, type |-> o.type,
                 subtype |-> o.subtype, marker |-> o.marker, at |-> o.at, fault |-> ""]
<1> DEFINE D == {"of", "source", "pid", "type", "subtype", "marker", "at", "fault"}
<1>a. DOMAIN u = D /\ u = [x \in D |-> u[x]] /\ u["fault"] = ""
  OBVIOUS
<1>b. DOMAIN o = D /\ \A x \in D : x # "fault" => u[x] = o[x]
  <2> DEFINE r == [of |-> o.of, source |-> o.source, pid |-> o.pid, type |-> o.type,
                   subtype |-> o.subtype, marker |-> o.marker, at |-> o.at, fault |-> o.fault]
  <2>1. DOMAIN r = D /\ \A x \in D : x # "fault" => u[x] = r[x]
    OBVIOUS
  <2>2. o = r
    BY DEF Obs
  <2> HIDE DEF r, u
  <2> QED
    BY <2>1, <2>2
<1>1. Untagged(o) = u
  <2> HIDE DEF u
  <2>1. Untagged(o) = [x \in D |-> IF x = "fault" THEN "" ELSE o[x]]
    BY <1>b DEF Untagged
  <2> QED
    <3>1. \A x \in D : u[x] = IF x = "fault" THEN "" ELSE o[x]
      BY <1>a, <1>b
    <3>2. u = [x \in D |-> IF x = "fault" THEN "" ELSE o[x]]
      <4> HIDE DEF D
      <4> QED
        BY <1>a, <3>1
    <3> QED
      BY <2>1, <3>2
<1>2. Untagged(u) = u
  <2> HIDE DEF u
  <2>1. Untagged(u) = [x \in D |-> IF x = "fault" THEN "" ELSE u[x]]
    BY <1>a DEF Untagged
  <2> QED
    BY <1>a, <2>1
<1>3. /\ u.of = o.of /\ u.source = o.source /\ u.pid = o.pid /\ u.type = o.type
      /\ u.subtype = o.subtype /\ u.marker = o.marker /\ u.at = o.at /\ u.fault = ""
  OBVIOUS
<1>4. Obs(u)
  BY DEF Obs
<1> HIDE DEF u
<1>5. Origin(u) = Origin(o) /\ Fingerprint(u) = Fingerprint(o)
  BY <1>3 DEF Origin, Fingerprint, Bucket
<1> QED
  BY <1>1, <1>2, <1>3, <1>4, <1>5 DEF TellsOf

\* Equal keys tell of the same origin, and the full key of the same signature.
LEMMA BaseKeyTells ==
    ASSUME NEW o, NEW p, BaseKey(o) = BaseKey(p)
    PROVE  Origin(o) = Origin(p)
<1>1. CASE o.fault # "" /\ p.fault # ""
  BY <1>1 DEF BaseKey, Origin
<1>2. CASE o.fault = "" /\ p.fault = ""
  BY <1>2 DEF BaseKey, Origin
<1>3. CASE o.fault # "" /\ p.fault = ""
  <2>1. BaseKey(o)[1] = "fault" /\ BaseKey(p)[1] = "device"
    BY <1>3 DEF BaseKey
  <2> QED
    BY <2>1
<1>4. CASE o.fault = "" /\ p.fault # ""
  <2>1. BaseKey(o)[1] = "device" /\ BaseKey(p)[1] = "fault"
    BY <1>4 DEF BaseKey
  <2> QED
    BY <2>1
<1> QED
  BY <1>1, <1>2, <1>3, <1>4

LEMMA FusionKeyTells ==
    ASSUME NEW o, NEW p, FusionKey(o) = FusionKey(p)
    PROVE  Origin(o) = Origin(p) /\ o.marker = p.marker
<1>1. BaseKey(o) = BaseKey(p) /\ Fingerprint(o) = Fingerprint(p)
  BY DEF FusionKey
<1> QED
  BY <1>1, BaseKeyTells DEF Fingerprint

\* The first of the sets that is not empty gives its least element.
LEMMA FirstIs ==
    ASSUME NEW n \in Nat, NEW sets, DOMAIN sets = 1 .. n, NEW m \in Nat,
           \A k \in 1 .. n : sets[k] \subseteq 1 .. m
    PROVE  \/ First(sets) = 0 /\ \A k \in 1 .. n : sets[k] = {}
           \/ \E k \in 1 .. n : /\ First(sets) \in sets[k]
                                /\ \A x \in sets[k] : First(sets) <= x
                                /\ \A l \in 1 .. n : l < k => sets[l] = {}
<1> DEFINE hits == {k \in DOMAIN sets : sets[k] # {}}
<1>1. CASE hits = {}
  BY <1>1 DEF First
<1>2. CASE hits # {}
  <2>1. IsFiniteSet(hits) /\ hits \subseteq Int
    <3>1. IsFiniteSet(1 .. n)
      BY FS_Interval
    <3>2. hits \subseteq 1 .. n
      OBVIOUS
    <3> QED
      BY <3>1, <3>2, FS_Subset
  <2>2. Min(hits) \in hits /\ \A y \in hits : Min(hits) <= y
    <3> HIDE DEF hits
    <3> QED
      BY <1>2, <2>1, FiniteMin
  <2>3. PICK k : k = Min(hits)
    OBVIOUS
  <2>a. k \in hits /\ \A y \in hits : k <= y
    <3> HIDE DEF hits
    <3> QED
      BY <2>2, <2>3
  <2>4. k \in 1 .. n /\ sets[k] # {} /\ \A l \in 1 .. n : l < k => sets[l] = {}
    <3>1. ASSUME NEW l \in 1 .. n, l < k, sets[l] # {} PROVE FALSE
      <4>1. l \in hits /\ l \in Int /\ k \in Int
        BY <2>a, <3>1
      <4>2. k <= l
        BY <2>a, <4>1
      <4> QED
        BY <3>1, <4>1, <4>2
    <3> QED
      BY <2>a, <3>1
  <2>5. IsFiniteSet(sets[k]) /\ sets[k] \subseteq Int
    <3>1. IsFiniteSet(1 .. m) /\ sets[k] \subseteq 1 .. m
      BY <2>4, FS_Interval
    <3> QED
      BY <3>1, FS_Subset
  <2>6. First(sets) = Min(sets[k])
    BY <1>2, <2>3 DEF First
  <2>7. Min(sets[k]) \in sets[k] /\ \A y \in sets[k] : Min(sets[k]) <= y
    BY <2>4, <2>5, FiniteMin
  <2> QED
    BY <2>4, <2>6, <2>7
<1> QED
  BY <1>1, <1>2

LEMMA KeyedTells ==
    ASSUME NEW o, NEW live, NEW h \in Keyed(o, live), Occurrence(occurrences[h], failures, fused)
    PROVE  h \in live /\ Origin(FirstOf(h)) = Origin(o) /\ FirstOf(h).marker = o.marker
<1>1. h \in live /\ occurrences[h].key = FusionKey(o)
  BY DEF Keyed
<1>2. PICK g : Obs(g) /\ FirstOf(h) = Untagged(g) /\ occurrences[h].key = FusionKey(g)
  BY DEF Occurrence, FirstOf
<1>3. Origin(g) = Origin(o) /\ g.marker = o.marker
  BY <1>1, <1>2, FusionKeyTells
<1> QED
  BY <1>1, <1>2, <1>3, UntaggedIs

LEMMA BasedTells ==
    ASSUME NEW o, Obs(o), NEW live, NEW h \in live, Occurrence(occurrences[h], failures, fused)
    PROVE  /\ h \in Based(o, live) => Origin(FirstOf(h)) = Origin(o) /\ Compatible(h, o)
           /\ Origin(FirstOf(h)) = Origin(o) /\ Compatible(h, o) => h \in Based(Untagged(o), live)
<1> DEFINE u == Untagged(o)
<1>1. PICK g : /\ Obs(g) /\ FirstOf(h) = Untagged(g)
               /\ occurrences[h].bases = {BaseKey(g), BaseKey(FirstOf(h))}
  BY DEF Occurrence, FirstOf
<1>2. Origin(g) = Origin(FirstOf(h)) /\ FirstOf(h).fault = ""
  BY <1>1, UntaggedIs
<1>3. u.fault = "" /\ Origin(u) = Origin(o) /\ u.marker = o.marker
  BY UntaggedIs
<1> HIDE DEF u
<1>4. ASSUME h \in Based(o, live) PROVE Origin(FirstOf(h)) = Origin(o) /\ Compatible(h, o)
  <2>1. BaseKey(o) \in occurrences[h].bases /\ Compatible(h, o)
    BY <1>4 DEF Based
  <2> QED
    BY <1>1, <1>2, <2>1, BaseKeyTells
<1>5. ASSUME Origin(FirstOf(h)) = Origin(o), Compatible(h, o) PROVE h \in Based(u, live)
  <2>1. BaseKey(u) = BaseKey(FirstOf(h))
    BY <1>2, <1>3, <1>5 DEF BaseKey, Origin
  <2>2. Compatible(h, u)
    BY <1>3, <1>5 DEF Compatible
  <2> QED
    BY <1>1, <2>1, <2>2 DEF Based
<1> QED
  BY <1>4, <1>5 DEF u

\* What observe() finds, and what is not there when it finds nothing.
Found(o, live, h) ==
    IF h = 0 THEN \A i \in live : Origin(FirstOf(i)) = Origin(o) => ~Compatible(i, o)
    ELSE /\ h \in live /\ Origin(FirstOf(h)) = Origin(o)
         /\ \/ o.marker = FirstOf(h).marker
            \/ /\ Compatible(h, o)
               /\ \A i \in live : i < h /\ Origin(FirstOf(i)) = Origin(o) => ~Compatible(i, o)

LEMMA CandidateFound ==
    ASSUME NEW o, Obs(o), NEW m \in Nat, NEW live \in SUBSET (1 .. m),
           \A i \in live : Occurrence(occurrences[i], failures, fused)
    PROVE  Found(o, live, First(Candidates(o, live)))
<1> DEFINE u == Untagged(o)
           keyed == Keyed(o, live)
           same == {i \in Keyed(u, live) : Compatible(i, o)}
           based == Based(u, live)
           last == Based(o, live)
           sets == <<keyed, same, based, last>>
           h == First(sets)
<1>1. Candidates(o, live) = sets
  BY DEF Candidates
<1>2. Obs(u) /\ Origin(u) = Origin(o) /\ u.marker = o.marker /\ Untagged(u) = u
  BY UntaggedIs
<1>3. keyed \subseteq live /\ same \subseteq live /\ based \subseteq live /\ last \subseteq live
  BY DEF Keyed, Based
<1>4. \A i \in live : Compatible(i, u) <=> Compatible(i, o)
  BY <1>2 DEF Compatible
<1>5. \A i \in keyed \cup same : Origin(FirstOf(i)) = Origin(o) /\ FirstOf(i).marker = o.marker
  <2>1. \A i \in keyed : Origin(FirstOf(i)) = Origin(o) /\ FirstOf(i).marker = o.marker
    BY <1>3, KeyedTells
  <2>2. \A i \in same : Origin(FirstOf(i)) = Origin(u) /\ FirstOf(i).marker = u.marker
    BY <1>3, KeyedTells
  <2> QED
    BY <1>2, <2>1, <2>2
<1>6. \A i \in live : i \in based <=> Origin(FirstOf(i)) = Origin(o) /\ Compatible(i, o)
  <2>1. \A i \in live : i \in based => Origin(FirstOf(i)) = Origin(u) /\ Compatible(i, u)
    BY <1>2, BasedTells
  <2>2. \A i \in live : Origin(FirstOf(i)) = Origin(o) /\ Compatible(i, o) => i \in based
    BY BasedTells
  <2> QED
    BY <1>2, <1>4, <2>1, <2>2
<1>7. last \subseteq based
  <2>1. \A i \in live : i \in last => Origin(FirstOf(i)) = Origin(o) /\ Compatible(i, o)
    BY BasedTells
  <2> QED
    BY <1>3, <1>6, <2>1
<1> HIDE DEF u, keyed, same, based, last
<1>8. /\ DOMAIN sets = 1 .. 4
      /\ sets[1] = keyed /\ sets[2] = same /\ sets[3] = based /\ sets[4] = last
  OBVIOUS
<1> HIDE DEF sets
<1>9. \A k \in 1 .. 4 : sets[k] \in {keyed, same, based, last} /\ (k = 1 \/ k = 2 \/ k = 3 \/ k = 4)
  BY <1>8
<1>a. \A k \in 1 .. 4 : sets[k] \subseteq live /\ sets[k] \subseteq 1 .. m
  BY <1>3, <1>9
<1>10. \/ h = 0 /\ \A k \in 1 .. 4 : sets[k] = {}
       \/ \E k \in 1 .. 4 : /\ h \in sets[k] /\ \A x \in sets[k] : h <= x
                             /\ \A l \in 1 .. 4 : l < k => sets[l] = {}
  BY <1>8, <1>a, FirstIs
<1> HIDE DEF h
<1>11. CASE h = 0 /\ \A k \in 1 .. 4 : sets[k] = {}
  <2>1. based = {}
    BY <1>8, <1>9, <1>11
  <2> QED
    BY <1>1, <1>6, <1>11, <2>1 DEF Found, h
<1>12. ASSUME NEW k \in 1 .. 4, h \in sets[k], \A x \in sets[k] : h <= x,
              \A l \in 1 .. 4 : l < k => sets[l] = {}
       PROVE  Found(o, live, h)
  <2>1. h \in live /\ h # 0 /\ h \in Int
    <3>1. h \in live
      BY <1>a, <1>12
    <3> QED
      BY <3>1
  <2>2. CASE k = 1 \/ k = 2
    BY <1>5, <1>8, <1>9, <1>12, <2>1, <2>2 DEF Found
  <2>3. CASE k = 3
    <3>1. h \in based /\ \A x \in based : h <= x
      BY <1>8, <1>9, <1>12, <2>3
    <3>2. \A i \in live : i \in Int /\ (i < h => ~ (h <= i))
      BY <2>1
    <3> QED
      BY <1>6, <2>1, <3>1, <3>2 DEF Found
  <2>4. CASE k = 4
    <3>1. h \in last /\ based = {}
      BY <1>8, <1>9, <1>12, <2>4
    <3> QED
      BY <1>7, <3>1
  <2> QED
    BY <1>8, <1>9, <2>2, <2>3, <2>4
<1> QED
  BY <1>1, <1>10, <1>11, <1>12 DEF h

\* What observe() may be called with.
Observable(o) ==
    /\ TellsOf(o, failures) /\ (o.source = "exit_info" => o.of \in fused')
    /\ \A f \in fused' \ fused : failures[f].pid = o.pid
    /\ o.source = "exit_info" /\ Found(o, Live \ aged, 0) =>
          \A i \in Live \ aged :
              FirstOf(i).type \in CrashTypes /\ FirstOf(i).of = o.of
              => \E k \in 1 .. (i - 1) : FirstOf(k).pid = o.pid

\* The member joins an occurrence, or is a new one.
Joined(h, u) ==
    /\ DOMAIN occurrences' = DOMAIN occurrences /\ h \in DOMAIN occurrences
    /\ \A i \in DOMAIN occurrences : i # h => occurrences'[i] = occurrences[i]
    /\ occurrences'[h] = [key |-> occurrences[h].key, bases |-> occurrences[h].bases,
                          members |-> Members(h) \cup {u}, first |-> FirstOf(h)]
Created(n, o, u) ==
    /\ n = Len(occurrences) + 1 /\ DOMAIN occurrences = 1 .. n - 1 /\ DOMAIN occurrences' = 1 .. n
    /\ n \in Nat /\ \A i \in 1 .. n - 1 : occurrences'[i] = occurrences[i]
    /\ occurrences'[n] = [key |-> FusionKey(o), bases |-> {BaseKey(o), BaseKey(u)},
                          members |-> {u}, first |-> u]

LEMMA ObserveIs ==
    ASSUME FusionInv, NEW o, Obs(o), Observe(o)
    PROVE  /\ forgotten' = forgotten \cup aged /\ aged' = {} /\ \E S : occurrences' \in Seq(S)
           /\ \/ \E h \in Live \ aged : Found(o, Live \ aged, h) /\ Joined(h, Untagged(o))
              \/ Found(o, Live \ aged, 0) /\ Created(Len(occurrences) + 1, o, Untagged(o))
<1> DEFINE live == Live \ aged
           u == Untagged(o)
           hit == First(Candidates(o, live))
<1>1. PICK S : occurrences \in Seq(S)
  BY DEF FusionInv, FusionTypes
<1>2. PICK n : n = Len(occurrences) /\ n \in Nat /\ DOMAIN occurrences = 1 .. n
  BY <1>1
<1>3. live \in SUBSET (1 .. n) /\ \A i \in live : Occurrence(occurrences[i], failures, fused)
  BY <1>2 DEF Live, FusionInv, Occurrences
<1>4. Found(o, live, hit)
  <2> HIDE DEF live
  <2> QED
    BY <1>2, <1>3, CandidateFound
<1>5. /\ forgotten' = forgotten \cup aged /\ aged' = {}
      /\ occurrences' =
            IF hit # 0 THEN [occurrences EXCEPT ![hit].members = @ \cup {u}]
            ELSE Append(occurrences, [key |-> FusionKey(o), bases |-> {BaseKey(o), BaseKey(u)},
                                      members |-> {u}, first |-> u])
  BY DEF Observe
<1> HIDE DEF hit, u, live
<1>6. CASE hit # 0
  <2>1. hit \in live /\ hit \in 1 .. n
    BY <1>3, <1>4, <1>6 DEF Found
  <2> DEFINE c == occurrences[hit]
             d == [key |-> c.key, bases |-> c.bases, members |-> c.members \cup {u}, first |-> c.first]
  <2>2. c = [key |-> c.key, bases |-> c.bases, members |-> c.members, first |-> c.first]
    BY <1>3, <2>1 DEF Occurrence
  <2>3. [c EXCEPT !.members = @ \cup {u}] = d
    BY <2>2
  <2>4. occurrences' = [occurrences EXCEPT ![hit] = d]
    BY <1>5, <1>6, <2>3
  <2> HIDE DEF c, d
  <2>5. occurrences \in Seq(S \cup {d}) /\ d \in S \cup {d}
    BY <1>1
  <2>6. occurrences' \in Seq(S \cup {d})
    BY <1>2, <2>1, <2>4, <2>5, ExceptSeq
  <2>7. Joined(hit, u)
    <3>1. /\ DOMAIN occurrences' = DOMAIN occurrences /\ occurrences'[hit] = d
          /\ \A i \in DOMAIN occurrences : i # hit => occurrences'[i] = occurrences[i]
      BY <1>2, <2>1, <2>4
    <3> QED
      BY <1>2, <2>1, <3>1 DEF Joined, Members, FirstOf, c, d
  <2> QED
    BY <1>4, <1>5, <2>1, <2>6, <2>7 DEF live, u
<1>7. CASE hit = 0
  <2> DEFINE d == [key |-> FusionKey(o), bases |-> {BaseKey(o), BaseKey(u)}, members |-> {u}, first |-> u]
  <2>1. occurrences' = Append(occurrences, d)
    BY <1>5, <1>7
  <2> HIDE DEF d
  <2>2. occurrences \in Seq(S \cup {d}) /\ d \in S \cup {d}
    BY <1>1
  <2>3. /\ occurrences' \in Seq(S \cup {d}) /\ Len(occurrences') = n + 1
        /\ \A i \in 1 .. n : occurrences'[i] = occurrences[i]
        /\ occurrences'[n + 1] = d
    BY <1>2, <2>1, <2>2, AppendProperties
  <2>4. DOMAIN occurrences' = 1 .. (n + 1) /\ n + 1 \in Nat /\ (n + 1) - 1 = n
    BY <1>2, <2>3
  <2>5. Created(n + 1, o, u)
    BY <1>2, <2>3, <2>4 DEF Created, d
  <2> QED
    BY <1>2, <1>4, <1>5, <1>7, <2>3, <2>5 DEF live, u
<1> QED
  BY <1>6, <1>7

\* Members that join are like the others.
LEMMA JoinedIsOccurrence ==
    ASSUME NEW c, NEW fs, NEW exits, Occurrence(c, fs, exits), NEW more, exits \subseteq more,
           NEW u, TellsOf(u, fs), Untagged(u) = u, Origin(u) = Origin(c.first),
           u.source = "exit_info" => u.of \in more, OneMarker(c.members \cup {u})
    PROVE  Occurrence([key |-> c.key, bases |-> c.bases, members |-> c.members \cup {u},
                       first |-> c.first], fs, more)
BY DEF Occurrence

LEMMA CreatedIsOccurrence ==
    ASSUME NEW fs, NEW more, NEW o, Obs(o), NEW u, u = Untagged(o), TellsOf(u, fs),
           u.source = "exit_info" => u.of \in more
    PROVE  Occurrence([key |-> FusionKey(o), bases |-> {BaseKey(o), BaseKey(u)},
                       members |-> {u}, first |-> u], fs, more)
<1>1. Untagged(u) = u
  BY UntaggedIs
<1> QED
  BY <1>1 DEF Occurrence, OneMarker

LEMMA FoundIsOneMarker ==
    ASSUME NEW o, NEW live, NEW h, h # 0, Found(o, live, h), NEW u, u.marker = o.marker,
           Occurrence(occurrences[h], failures, fused)
    PROVE  OneMarker(Members(h) \cup {u})
<1>1. OneMarker(Members(h)) /\ FirstOf(h) \in Members(h)
  BY DEF Occurrence, Members, FirstOf
<1>2. \A m \in Members(h) : m.marker = u.marker \/ m.marker = "" \/ u.marker = ""
  <2>1. CASE o.marker = FirstOf(h).marker
    BY <1>1, <2>1 DEF OneMarker
  <2>2. CASE Compatible(h, o)
    <3>1. CASE \A p \in Members(h) : p.marker = ""
      BY <3>1
    <3>2. CASE o.marker = ""
      BY <3>2
    <3>3. CASE \E p \in Members(h) : p.marker = o.marker /\ p.marker # ""
      BY <1>1, <3>3 DEF OneMarker
    <3> QED
      BY <2>2, <3>1, <3>2, <3>3 DEF Compatible, Members
  <2> QED
    BY <2>1, <2>2 DEF Found
<1> QED
  BY <1>1, <1>2 DEF OneMarker

LEMMA Incompatible ==
    ASSUME NEW i, NEW o, ~Compatible(i, o)
    PROVE  /\ o.marker # "" /\ \E x \in Members(i) : x.marker # ""
           /\ \A x \in Members(i) : x.marker # o.marker
BY DEF Compatible, Members

LEMMA JoinKeeps ==
    ASSUME FusionInv, failures' = failures, fused \subseteq fused', NEW o, Observable(o),
           forgotten' = forgotten \cup aged,
           NEW h \in Live \ aged, Found(o, Live \ aged, h), Joined(h, Untagged(o))
    PROVE  Occurrences' /\ PairsApart' /\ CrashCountedOnce' /\ FailuresSurface'
<1> DEFINE u == Untagged(o)
           D == DOMAIN occurrences
<1>1. PICK n \in Nat : DOMAIN occurrences = 1 .. n
  BY DEF FusionInv, FusionTypes
<1>2. /\ DOMAIN occurrences' = D /\ h \in D /\ h # 0 /\ D \subseteq Int
      /\ \A i \in D : i # h => occurrences'[i] = occurrences[i]
      /\ occurrences'[h] = [key |-> occurrences[h].key, bases |-> occurrences[h].bases,
                            members |-> Members(h) \cup {u}, first |-> FirstOf(h)]
  BY <1>1 DEF Joined, Live
<1>3. /\ Obs(o) /\ TellsOf(u, failures) /\ Untagged(u) = u /\ Origin(u) = Origin(o)
      /\ u.marker = o.marker /\ u.pid = o.pid
      /\ u.source = "exit_info" => u.of \in fused'
  BY UntaggedIs DEF Observable, TellsOf
<1>4. Origin(FirstOf(h)) = Origin(o)
  BY <1>2 DEF Found
<1>5. \A i \in D : Occurrence(occurrences[i], failures, fused)
  BY DEF FusionInv, Occurrences
<1> HIDE DEF u, D
<1>6. \A i \in D : occurrences'[i].first = occurrences[i].first
  <2>1. occurrences'[h].first = occurrences[h].first
    BY <1>2 DEF FirstOf
  <2> QED
    BY <1>2, <2>1
<1>7. /\ \A i \in D : i # h => occurrences'[i].members = occurrences[i].members
      /\ occurrences'[h].members = occurrences[h].members \cup {u}
  BY <1>2 DEF Members
<1>8. Occurrences'
  <2>1. ASSUME NEW i \in D PROVE Occurrence(occurrences'[i], failures, fused')
    <3>1. CASE i # h
      <4>1. Occurrence(occurrences[i], failures, fused)
        BY <1>5
      <4> QED
        BY <1>2, <3>1, <4>1 DEF Occurrence
    <3>2. CASE i = h
      <4> DEFINE c == occurrences[h]
      <4>1. Occurrence(c, failures, fused) /\ Origin(u) = Origin(c.first)
        BY <1>2, <1>3, <1>4, <1>5 DEF FirstOf
      <4>2. OneMarker(c.members \cup {u})
        BY <1>2, <1>3, <1>5, FoundIsOneMarker DEF Members
      <4>3. occurrences'[i] = [key |-> c.key, bases |-> c.bases, members |-> c.members \cup {u},
                               first |-> c.first]
        BY <1>2, <3>2 DEF Members, FirstOf
      <4> HIDE DEF c
      <4>4. PICK more, d : more = fused' /\ d = occurrences'[i]
        OBVIOUS
      <4>5. Occurrence(d, failures, more)
        BY <1>3, <4>1, <4>2, <4>3, <4>4, JoinedIsOccurrence
      <4> QED
        BY <4>4, <4>5
    <3> QED
      BY <3>1, <3>2
  <2> QED
    BY <1>2, <2>1 DEF Occurrences
<1>9. PairsApart'
  <2> SUFFICES ASSUME NEW i \in D, NEW k \in D, i < k, i \notin forgotten',
                      Origin(occurrences'[i].first) = Origin(occurrences'[k].first)
               PROVE  \E x \in occurrences'[i].members : x.marker # "" /\
                         \A y \in occurrences'[k].members : y.marker # "" /\ y.marker # x.marker
    BY <1>2 DEF PairsApart, Apart, FirstOf, Members
  <2>0. Origin(occurrences[i].first) = Origin(occurrences[k].first)
    BY <1>6
  <2>1. i \notin forgotten /\ i \in Live \ aged
    BY DEF Live, D
  <2>2. PICK x \in Members(i) : x.marker # "" /\ \A y \in Members(k) : y.marker # "" /\ y.marker # x.marker
    BY <2>0, <2>1 DEF FusionInv, PairsApart, Apart, FirstOf, D
  <2>3. x \in occurrences'[i].members
    BY <1>7, <2>2 DEF Members
  <2>4. CASE k # h
    BY <1>7, <2>2, <2>3, <2>4 DEF Members
  <2>5. CASE k = h
    <3>1. u.marker # "" /\ u.marker # x.marker
      <4>1. CASE o.marker = FirstOf(h).marker
        <5>1. FirstOf(h) \in Members(h)
          BY <1>2, <1>5 DEF Occurrence, FirstOf, Members
        <5> QED
          BY <1>3, <2>2, <2>5, <4>1, <5>1
      <4>2. CASE o.marker # FirstOf(h).marker
        <5>1. ~Compatible(i, o)
          BY <1>2, <1>4, <2>0, <2>1, <2>5, <4>2 DEF Found, FirstOf
        <5> QED
          BY <1>3, <2>2, <5>1, Incompatible
      <4> QED
        BY <4>1, <4>2
    <3> QED
      BY <1>7, <2>2, <2>3, <2>5, <3>1 DEF Members
  <2> QED
    BY <2>4, <2>5
<1>10. CrashCountedOnce'
  <2> SUFFICES ASSUME NEW i \in D, NEW k \in D, i < k,
                      occurrences'[i].first.type \in CrashTypes,
                      occurrences'[k].first.source = "exit_info",
                      occurrences'[i].first.of = occurrences'[k].first.of
               PROVE  i \in forgotten' \/ \E l \in 1 .. (i - 1) :
                         occurrences'[l].first.pid = occurrences'[k].first.pid
    BY <1>2 DEF CrashCountedOnce
  <2>1. i \in forgotten \/ \E l \in 1 .. (i - 1) :
                         occurrences[l].first.pid = occurrences[k].first.pid
    BY <1>6 DEF FusionInv, CrashCountedOnce, D
  <2>2. 1 .. (i - 1) \subseteq D
    BY <1>1 DEF D
  <2> QED
    BY <1>6, <2>1, <2>2
<1>11. FailuresSurface'
  <2> SUFFICES ASSUME NEW f \in fused'
               PROVE  \E i \in D : occurrences[i].first.pid = failures[f].pid
    BY <1>2, <1>6 DEF FailuresSurface
  <2>1. CASE f \in fused
    BY <2>1 DEF FusionInv, FailuresSurface, D
  <2>2. CASE f \notin fused
    <3>1. failures[f].pid = o.pid
      BY <2>2 DEF Observable
    <3>2. occurrences[h].first.pid = o.pid
      BY <1>4 DEF Origin, FirstOf
    <3> QED
      BY <1>2, <3>1, <3>2
  <2> QED
    BY <2>1, <2>2
<1> QED
  BY <1>8, <1>9, <1>10, <1>11

LEMMA CreateKeeps ==
    ASSUME FusionInv, failures' = failures, fused \subseteq fused', NEW o, Observable(o),
           forgotten' = forgotten \cup aged,
           Found(o, Live \ aged, 0), Created(Len(occurrences) + 1, o, Untagged(o))
    PROVE  Occurrences' /\ PairsApart' /\ CrashCountedOnce' /\ FailuresSurface'
<1> DEFINE u == Untagged(o)
           D == DOMAIN occurrences
           n == Len(occurrences) + 1
           c == [key |-> FusionKey(o), bases |-> {BaseKey(o), BaseKey(u)},
                 members |-> {u}, first |-> u]
<1>1. /\ D = 1 .. n - 1 /\ DOMAIN occurrences' = 1 .. n /\ n \in Nat /\ n >= 1
      /\ \A i \in D : occurrences'[i] = occurrences[i]
      /\ occurrences'[n] = c
  <2>1. Len(occurrences) \in Nat
    BY DEF FusionInv, FusionTypes
  <2> QED
    BY <2>1 DEF Created
<1>2. /\ Obs(o) /\ TellsOf(u, failures) /\ Untagged(u) = u /\ Origin(u) = Origin(o)
      /\ u.marker = o.marker /\ u.pid = o.pid /\ u.source = o.source /\ u.of = o.of
      /\ u.source = "exit_info" => u.of \in fused'
  BY UntaggedIs DEF Observable, TellsOf
<1>3. \A i \in D : Occurrence(occurrences[i], failures, fused)
  BY DEF FusionInv, Occurrences
<1>4. c.first = u /\ c.members = {u}
  OBVIOUS
<1>5. Occurrence(c, failures, fused')
  <2>1. PICK more : more = fused'
    OBVIOUS
  <2>2. Occurrence(c, failures, more)
    BY <1>2, <2>1, CreatedIsOccurrence
  <2> QED
    BY <2>1, <2>2
<1> HIDE DEF u, D, n, c
<1>6. /\ \A i \in D : i \in 1 .. n /\ i \in Int /\ i < n
      /\ \A i \in 1 .. n : i \in D \/ i = n
      /\ n \in 1 .. n /\ n \notin D
  BY <1>1
<1>7. Occurrences'
  <2>1. ASSUME NEW i \in D PROVE Occurrence(occurrences[i], failures, fused')
    BY <1>3 DEF Occurrence
  <2> QED
    BY <1>1, <1>5, <1>6, <2>1 DEF Occurrences
<1>8. PairsApart'
  <2> SUFFICES ASSUME NEW i \in 1 .. n, NEW k \in 1 .. n, i < k, i \notin forgotten',
                      Origin(occurrences'[i].first) = Origin(occurrences'[k].first)
               PROVE  \E x \in occurrences'[i].members : x.marker # "" /\
                         \A y \in occurrences'[k].members : y.marker # "" /\ y.marker # x.marker
    BY <1>1 DEF PairsApart, Apart, FirstOf, Members
  <2>1. i \in D /\ occurrences'[i] = occurrences[i]
    <3>1. i # n
      BY <1>1
    <3> QED
      BY <1>1, <1>6, <3>1
  <2>2. i \notin forgotten /\ i \in Live \ aged
    BY <2>1 DEF Live, D
  <2>3. CASE k \in D
    <3>1. occurrences'[k] = occurrences[k]
      BY <1>1, <2>3
    <3>2. Apart(i, k)
      BY <2>1, <2>2, <2>3, <3>1 DEF FusionInv, PairsApart, FirstOf, D
    <3> QED
      BY <2>1, <3>1, <3>2 DEF Apart, Members
  <2>4. CASE k = n
    <3>1. Origin(FirstOf(i)) = Origin(o)
      BY <1>1, <1>2, <1>4, <2>1, <2>4 DEF FirstOf
    <3>2. ~Compatible(i, o)
      BY <2>2, <3>1 DEF Found
    <3>3. /\ o.marker # "" /\ \E x \in Members(i) : x.marker # ""
          /\ \A x \in Members(i) : x.marker # o.marker
      BY <3>2, Incompatible
    <3>4. occurrences'[k].members = {u}
      BY <1>1, <1>4, <2>4
    <3> QED
      BY <1>2, <2>1, <3>3, <3>4 DEF Members
  <2> QED
    BY <1>6, <2>3, <2>4
<1>9. CrashCountedOnce'
  <2> SUFFICES ASSUME NEW i \in 1 .. n, NEW k \in 1 .. n, i < k,
                      occurrences'[i].first.type \in CrashTypes,
                      occurrences'[k].first.source = "exit_info",
                      occurrences'[i].first.of = occurrences'[k].first.of
               PROVE  i \in forgotten' \/ \E l \in 1 .. (i - 1) :
                         occurrences'[l].first.pid = occurrences'[k].first.pid
    BY <1>1 DEF CrashCountedOnce
  <2>1. i \in D /\ occurrences'[i] = occurrences[i]
    <3>1. i # n
      BY <1>1
    <3> QED
      BY <1>1, <1>6, <3>1
  <2>2. \A l \in 1 .. (i - 1) : l \in D
    BY <1>1, <2>1
  <2>3. CASE k \in D
    <3>1. occurrences'[k] = occurrences[k]
      BY <1>1, <2>3
    <3>2. i \in forgotten \/ \E l \in 1 .. (i - 1) :
                         occurrences[l].first.pid = occurrences[k].first.pid
      BY <2>1, <2>3, <3>1 DEF FusionInv, CrashCountedOnce, D
    <3> QED
      BY <1>1, <2>2, <3>1, <3>2
  <2>4. CASE k = n
    <3>1. SUFFICES ASSUME i \notin forgotten'
                   PROVE  \E l \in 1 .. (i - 1) : occurrences'[l].first.pid = occurrences'[k].first.pid
      OBVIOUS
    <3>2. i \in Live \ aged
      BY <2>1, <3>1 DEF Live, D
    <3>3. FirstOf(i).type \in CrashTypes /\ FirstOf(i).of = o.of /\ o.source = "exit_info"
      BY <1>1, <1>2, <1>4, <2>1, <2>4 DEF FirstOf
    <3>4. PICK l \in 1 .. (i - 1) : FirstOf(l).pid = o.pid
      BY <3>2, <3>3 DEF Observable
    <3> QED
      BY <1>1, <1>2, <1>4, <2>2, <2>4, <3>4 DEF FirstOf
  <2> QED
    BY <1>6, <2>3, <2>4
<1>10. FailuresSurface'
  <2> SUFFICES ASSUME NEW f \in fused'
               PROVE  \E i \in 1 .. n : occurrences'[i].first.pid = failures[f].pid
    BY <1>1 DEF FailuresSurface
  <2>1. CASE f \in fused
    <3>1. PICK i \in D : occurrences[i].first.pid = failures[f].pid
      BY <2>1 DEF FusionInv, FailuresSurface, D
    <3> QED
      BY <1>1, <1>6, <3>1
  <2>2. CASE f \notin fused
    <3>1. failures[f].pid = o.pid
      BY <2>2 DEF Observable
    <3> QED
      BY <1>1, <1>2, <1>4, <1>6, <3>1
  <2> QED
    BY <2>1, <2>2
<1> QED
  BY <1>7, <1>8, <1>9, <1>10

LEMMA ObserveKeeps ==
    ASSUME FusionInv, failures' = failures, fused \subseteq fused', fused' \subseteq DOMAIN failures,
           NEW o, Observable(o), Observe(o)
    PROVE  FusionInv'
<1>1. Obs(o) /\ failures # <<>>
  BY DEF Observable, TellsOf
<1>2. /\ forgotten' = forgotten \cup aged /\ aged' = {} /\ \E S : occurrences' \in Seq(S)
      /\ \/ \E h \in Live \ aged : Found(o, Live \ aged, h) /\ Joined(h, Untagged(o))
         \/ Found(o, Live \ aged, 0) /\ Created(Len(occurrences) + 1, o, Untagged(o))
  BY <1>1, ObserveIs
<1>3. Occurrences' /\ PairsApart' /\ CrashCountedOnce' /\ FailuresSurface'
  BY <1>2, JoinKeeps, CreateKeeps
<1>4. DOMAIN occurrences \subseteq DOMAIN occurrences'
  <2>1. ASSUME Created(Len(occurrences) + 1, o, Untagged(o))
        PROVE  DOMAIN occurrences \subseteq DOMAIN occurrences'
    BY <2>1 DEF Created
  <2> QED
    BY <1>2, <2>1 DEF Joined
<1>5. FusionTypes'
  BY <1>1, <1>2, <1>4 DEF FusionInv, FusionTypes, Live
<1> QED
  BY <1>3, <1>5 DEF FusionInv

-----------------------------------------------------------------------------

ObsDomain == {"of", "source", "pid", "type", "subtype", "marker", "at", "fault"}

LEMMA ObsBy ==
    ASSUME NEW o, o = [x \in ObsDomain |-> o[x]]
    PROVE  Obs(o)
<1> DEFINE q == [of |-> o.of, source |-> o.source, pid |-> o.pid, type |-> o.type,
                 subtype |-> o.subtype, marker |-> o.marker, at |-> o.at, fault |-> o.fault]
<1>1. q = [x \in ObsDomain |-> q[x]] /\ \A x \in ObsDomain : q[x] = o[x]
  BY DEF ObsDomain
<1> HIDE DEF q
<1>2. o = q
  BY <1>1
<1> QED
  BY <1>2 DEF Obs, q

LEMMA ObsIs ==
    ASSUME NEW o, Obs(o)
    PROVE  o = [x \in ObsDomain |-> o[x]]
<1> DEFINE q == [of |-> o.of, source |-> o.source, pid |-> o.pid, type |-> o.type,
                 subtype |-> o.subtype, marker |-> o.marker, at |-> o.at, fault |-> o.fault]
<1>1. q = [x \in ObsDomain |-> q[x]]
  BY DEF ObsDomain
<1>2. o = q
  BY DEF Obs
<1> HIDE DEF q
<1> QED
  BY <1>1, <1>2

LEMMA Retyped ==
    ASSUME NEW o, Obs(o), NEW t
    PROVE  LET q == [o EXCEPT !.type = t] IN
           /\ Obs(q) /\ q.type = t /\ q.of = o.of /\ q.source = o.source /\ q.pid = o.pid
           /\ q.marker = o.marker /\ q.at = o.at /\ q.fault = o.fault /\ q.subtype = o.subtype
<1> DEFINE q == [o EXCEPT !.type = t]
<1>1. o = [x \in ObsDomain |-> o[x]]
  BY ObsIs
<1>2. q = [x \in ObsDomain |-> IF x = "type" THEN t ELSE o[x]]
  BY <1>1 DEF ObsDomain
<1>3. q = [x \in ObsDomain |-> q[x]]
  <2> HIDE DEF q
  <2> QED
    BY <1>2
<1>4. Obs(q)
  <2> HIDE DEF q
  <2> QED
    BY <1>3, ObsBy
<1> HIDE DEF q
<1>5. /\ q.type = t /\ q.of = o.of /\ q.source = o.source /\ q.pid = o.pid
      /\ q.marker = o.marker /\ q.at = o.at /\ q.fault = o.fault /\ q.subtype = o.subtype
  BY <1>2 DEF ObsDomain
<1> QED
  BY <1>4, <1>5 DEF q

LEMMA ReportTold ==
    ASSUME NEW f \in DOMAIN failures, failures[f].at \in Int, NEW fault
    PROVE  /\ TellsOf(CrashSeen(f, fault), failures) /\ CrashSeen(f, fault).source = "logcat"
           /\ TellsOf(DeathSeen(f, fault), failures) /\ DeathSeen(f, fault).source = "logcat"
<1> DEFINE c == CrashSeen(f, fault)
           d == DeathSeen(f, fault)
<1>1. Obs(c)
  BY DEF Obs, CrashSeen
<1>2. /\ c.of = f /\ c.source = "logcat" /\ c.pid = failures[f].pid /\ c.at = failures[f].at
      /\ c.marker = failures[f].marker
  BY DEF CrashSeen
<1>3. c = [x \in ObsDomain |-> c[x]]
  BY <1>1, ObsIs
<1> HIDE DEF c
<1>4. d = [c EXCEPT !.type = "process_exit", !.subtype = "", !.marker = ""]
  BY DEF DeathSeen, c
<1>5. d = [x \in ObsDomain |-> IF x = "type" THEN "process_exit"
                              ELSE IF x \in {"subtype", "marker"} THEN "" ELSE c[x]]
  BY <1>3, <1>4 DEF ObsDomain
<1> HIDE DEF d
<1>6. d = [x \in ObsDomain |-> d[x]]
  BY <1>5
<1>7. /\ d.of = c.of /\ d.source = c.source /\ d.pid = c.pid /\ d.at = c.at
      /\ d.type = "process_exit"
  BY <1>5 DEF ObsDomain
<1>8. Obs(d)
  BY <1>6, ObsBy
<1>9. TellsOf(c, failures)
  BY <1>1, <1>2 DEF TellsOf
<1>10. TellsOf(d, failures)
  BY <1>2, <1>7, <1>8 DEF TellsOf, CrashTypes
<1> QED
  BY <1>2, <1>7, <1>9, <1>10 DEF c, d

LEMMA ExitRecordTold ==
    ASSUME NEW f \in DOMAIN failures, failures[f].at \in Int, NEW o \in ExitRecords(f)
    PROVE  /\ TellsOf(o, failures) /\ o.source = "exit_info" /\ o.of = f /\ o.fault = ""
           /\ \E late \in {0, 1} : o.at = failures[f].at + late
<1>1. PICK r \in ReasonsOf(f), late \in {0, 1} : o = ExitRecord(f, r[1], r[2], late)
  BY DEF ExitRecords
<1>2. Obs(o)
  BY <1>1 DEF Obs, ExitRecord
<1>3. /\ o.of = f /\ o.source = "exit_info" /\ o.pid = failures[f].pid /\ o.fault = ""
      /\ o.at = failures[f].at + late
  BY <1>1 DEF ExitRecord
<1>4. o.at \in Int
  <2>1. failures[f].at + late \in Int
    OBVIOUS
  <2> QED
    BY <1>3, <2>1
<1> QED
  BY <1>2, <1>3, <1>4 DEF TellsOf

\* What the windows of ExitInfo find.
LEMMA AnyIs ==
    ASSUME FusionInv, NEW o
    PROVE  LET near(i) == FirstOf(i).pid = o.pid /\ FirstOf(i).at - o.at \in -(2 * Window)..(2 * Window) IN
           \/ AnyInWindow(o) = 0 /\ \A i \in Live : ~near(i)
           \/ /\ AnyInWindow(o) \in Live /\ near(AnyInWindow(o))
              /\ \A i \in Live : near(i) => AnyInWindow(o) <= i
<1> DEFINE near(i) == FirstOf(i).pid = o.pid /\ FirstOf(i).at - o.at \in -(2 * Window)..(2 * Window)
           S == {i \in Live : near(i)}
           sets == <<S>>
<1>1. AnyInWindow(o) = First(sets)
  BY DEF AnyInWindow, FirstOf
<1>2. PICK m \in Nat : Live \subseteq 1 .. m
  BY DEF FusionInv, FusionTypes, Live
<1>3. S \subseteq 1 .. m
  BY <1>2
<1> DEFINE h == First(sets)
<1>4. (h = 0 /\ S = {}) \/ (h \in S /\ \A x \in S : h <= x)
  <2> HIDE DEF S
  <2>1. DOMAIN sets = 1 .. 1 /\ sets[1] = S /\ \A k \in 1 .. 1 : k = 1
    OBVIOUS
  <2> HIDE DEF sets
  <2>2. \A k \in 1 .. 1 : sets[k] \subseteq 1 .. m
    BY <1>3, <2>1
  <2>3. \/ First(sets) = 0 /\ \A k \in 1 .. 1 : sets[k] = {}
        \/ \E k \in 1 .. 1 : First(sets) \in sets[k] /\ \A x \in sets[k] : First(sets) <= x
    BY <2>1, <2>2, FirstIs
  <2> QED
    BY <2>1, <2>3
<1> HIDE DEF h
<1> QED
  BY <1>1, <1>4 DEF h

LEMMA CrashFound ==
    ASSUME FusionInv, NEW o, Obs(o), CompatibleCrash(o) # 0
    PROVE  LET c == CompatibleCrash(o)
               q == [o EXCEPT !.type = FirstOf(c).type] IN
           c \in Live /\ Origin(FirstOf(c)) = Origin(q) /\ Compatible(c, q)
<1> DEFINE As(t) == [o EXCEPT !.type = t]
           Same(t) == {i \in Keyed(As(t), Live) : Compatible(i, o)}
           Base(t) == Based(As(t), Live)
           sets == <<Same("java_crash"), Base("java_crash")>> \o <<Same("native_crash"), Base("native_crash")>>
           c == First(sets)
<1>1. CompatibleCrash(o) = c
  BY DEF CompatibleCrash
<1>2. PICK m \in Nat : DOMAIN occurrences = 1 .. m
  BY DEF FusionInv, FusionTypes
<1>a. Live \subseteq 1 .. m /\ \A i \in Live : i \in DOMAIN occurrences
  BY <1>2 DEF Live
<1>3. \A t : Same(t) \subseteq Live /\ Base(t) \subseteq Live
  BY DEF Keyed, Based
<1>4. \E t : c \in Same(t) \/ c \in Base(t)
  <2> HIDE DEF Same, Base
  <2>1. /\ DOMAIN sets = 1 .. 4
        /\ \A k \in 1 .. 4 : \E t : sets[k] = Same(t) \/ sets[k] = Base(t)
    <3> DEFINE j1 == Same("java_crash")
               j2 == Base("java_crash")
               n1 == Same("native_crash")
               n2 == Base("native_crash")
               S == {j1, j2, n1, n2}
    <3>1. sets = <<j1, j2>> \o <<n1, n2>>
      OBVIOUS
    <3>2. /\ \A x \in S : \E t : x = Same(t) \/ x = Base(t)
      OBVIOUS
    <3> HIDE DEF sets, j1, j2, n1, n2
    <3>3. <<j1, j2>> \in Seq(S) /\ <<n1, n2>> \in Seq(S) /\ Len(<<j1, j2>>) = 2 /\ Len(<<n1, n2>>) = 2
      OBVIOUS
    <3> HIDE DEF S
    <3>4. sets \in Seq(S) /\ Len(sets) = 2 + 2
      BY <3>1, <3>3, ConcatProperties
    <3>5. DOMAIN sets = 1 .. 4 /\ \A k \in 1 .. 4 : sets[k] \in S
      BY <3>4
    <3> QED
      BY <3>2, <3>5
  <2> HIDE DEF sets
  <2>2. \A k \in 1 .. 4 : sets[k] \subseteq 1 .. m
    BY <1>a, <1>3, <2>1
  <2>3. \E k \in 1 .. 4 : c \in sets[k]
    BY <1>1, <2>1, <2>2, FirstIs
  <2> QED
    BY <2>1, <2>3
<1> HIDE DEF c
<1>5. PICK t : c \in Same(t) \/ c \in Base(t)
  BY <1>4
<1>6. PICK q : q = [o EXCEPT !.type = t]
  OBVIOUS
<1>7. Obs(q) /\ q.marker = o.marker /\ q.type = t
  BY <1>6, Retyped
<1>8. c \in Live /\ Occurrence(occurrences[c], failures, fused)
  BY <1>a, <1>3, <1>5 DEF FusionInv, Occurrences
<1>9. Compatible(c, q) <=> Compatible(c, o)
  BY <1>7 DEF Compatible
<1>10. Origin(FirstOf(c)) = Origin(q) /\ Compatible(c, q)
  <2>1. CASE c \in Same(t)
    <3>1. c \in Keyed(q, Live) /\ Compatible(c, q)
      BY <1>6, <1>9, <2>1
    <3> QED
      BY <1>8, <3>1, KeyedTells
  <2>2. CASE c \in Base(t)
    <3>1. c \in Based(q, Live)
      BY <1>6, <2>2
    <3> QED
      BY <1>7, <1>8, <3>1, BasedTells
  <2> QED
    BY <1>5, <2>1, <2>2
<1>11. FirstOf(c).type = t
  BY <1>7, <1>10 DEF Origin
<1> QED
  BY <1>1, <1>6, <1>8, <1>10, <1>11

\* Pairs of occurrences that do not change.
LEMMA PairsStand ==
    ASSUME FusionInv, UNCHANGED <<occurrences, forgotten>>
    PROVE  PairsApart' /\ CrashCountedOnce'
<1>1. PairsApart'
  <2>1. ASSUME NEW i \in DOMAIN occurrences, NEW j \in DOMAIN occurrences, Apart(i, j) PROVE Apart(i, j)'
    BY <2>1 DEF Apart, Members
  <2> QED
    BY <2>1 DEF FusionInv, PairsApart, FirstOf
<1>2. CrashCountedOnce'
  BY DEF FusionInv, CrashCountedOnce
<1> QED
  BY <1>1, <1>2

LEMMA AnnotateKeeps ==
    ASSUME FusionInv, NEW f \in DOMAIN failures, fused' = fused \cup {f}, failures' = failures,
           UNCHANGED <<occurrences, forgotten, aged>>,
           NEW i \in Live, FirstOf(i).pid = failures[f].pid
    PROVE  FusionInv'
<1>1. failures # <<>> /\ i \in DOMAIN occurrences
  BY DEF Live
<1>2. FusionTypes'
  BY <1>1 DEF FusionInv, FusionTypes, Live
<1>3. Occurrences'
  <2>1. ASSUME NEW k \in DOMAIN occurrences PROVE Occurrence(occurrences[k], failures, fused')
    <3>1. Occurrence(occurrences[k], failures, fused)
      BY DEF FusionInv, Occurrences
    <3> QED
      BY <3>1 DEF Occurrence
  <2> QED
    BY <2>1 DEF Occurrences
<1>4. PairsApart' /\ CrashCountedOnce'
  BY PairsStand
<1>5. FailuresSurface'
  BY <1>1 DEF FusionInv, FailuresSurface, FirstOf
<1> QED
  BY <1>2, <1>3, <1>4, <1>5 DEF FusionInv

LEMMA FuseKeeps ==
    ASSUME FusionInv, NEW f \in DOMAIN failures \ fused, fused' = fused \cup {f},
           failures' = failures, NEW o \in ExitRecords(f), FuseRecord(o)
    PROVE  FusionInv'
<1> DEFINE any == AnyInWindow(o)
<1>1. failures[f].at \in Int
  BY FusionAssumption DEF FusionInv, FusionTypes
<1>2. /\ TellsOf(o, failures) /\ o.source = "exit_info" /\ o.of = f
      /\ \E late \in {0, 1} : o.at = failures[f].at + late
  BY <1>1, ExitRecordTold
<1>3. o.pid = failures[f].pid /\ Obs(o)
  BY <1>2 DEF TellsOf
<1>4. PICK any0 : any0 = any
  OBVIOUS
<1>5. \/ any0 = 0 /\ \A i \in Live : ~ (/\ FirstOf(i).pid = o.pid
                                      /\ FirstOf(i).at - o.at \in -(2 * Window)..(2 * Window))
      \/ /\ any0 \in Live /\ FirstOf(any0).pid = o.pid
         /\ \A i \in Live : /\ FirstOf(i).pid = o.pid
                           /\ FirstOf(i).at - o.at \in -(2 * Window)..(2 * Window)
                           => any0 <= i
  BY <1>4, AnyIs
<1>6. \A i \in Live : i \in Nat \ {0} /\ i \in DOMAIN occurrences
  BY DEF FusionInv, FusionTypes, Live
<1> HIDE DEF any
\* An occurrence of the same crash is in the window.
<1>7. ASSUME NEW i \in Live, FirstOf(i).of = f
      PROVE  any0 \in Live /\ FirstOf(any0).pid = o.pid /\ any0 <= i
  <2>1. /\ TellsOf(FirstOf(i), failures)
        /\ FirstOf(i).source = "exit_info" => FirstOf(i).of \in fused
    BY <1>6 DEF FusionInv, Occurrences, Occurrence, FirstOf
  <2>2. FirstOf(i).at = failures[f].at /\ FirstOf(i).pid = o.pid
    BY <1>3, <1>7, <2>1 DEF TellsOf
  <2>3. FirstOf(i).at - o.at \in {-1, 0}
    BY <1>1, <1>2, <2>2
  <2>4. {-1, 0} \subseteq -(2 * Window)..(2 * Window)
    BY FusionAssumption
  <2>5. FirstOf(i).at - o.at \in -(2 * Window)..(2 * Window)
    BY <2>3, <2>4
  <2> QED
    BY <1>5, <2>2, <2>5
<1>8. ASSUME Annotate, any0 # 0 PROVE FusionInv'
  BY <1>3, <1>5, <1>8, AnnotateKeeps DEF Annotate
<1>9. ASSUME NEW q, TellsOf(q, failures), q.of = f, q.pid = o.pid, Observe(q),
             Found(q, Live \ aged, 0) =>
                \A i \in Live \ aged :
                    FirstOf(i).type \in CrashTypes /\ FirstOf(i).of = f
                    => \E k \in 1 .. (i - 1) : FirstOf(k).pid = o.pid
      PROVE  FusionInv'
  <2>1. Observable(q)
    BY <1>3, <1>9 DEF Observable
  <2>2. fused \subseteq fused' /\ fused' \subseteq DOMAIN failures
    BY DEF FusionInv, FusionTypes
  <2> QED
    BY <1>9, <2>1, <2>2, ObserveKeeps
<1>10. CASE o.subtype # "crashed"
  <2>1. CASE any0 # 0 /\ FirstOf(any0).type \in CrashTypes
    BY <1>4, <1>8, <1>10, <2>1 DEF FuseRecord, FirstOf, any
  <2>2. CASE ~ (any0 # 0 /\ FirstOf(any0).type \in CrashTypes)
    <3>1. Observe(o)
      BY <1>4, <1>10, <2>2 DEF FuseRecord, FirstOf, any
    <3>2. ASSUME NEW i \in Live, FirstOf(i).type \in CrashTypes, FirstOf(i).of = f
          PROVE  \E k \in 1 .. (i - 1) : FirstOf(k).pid = o.pid
      <4>1. any0 \in Live /\ FirstOf(any0).pid = o.pid /\ any0 <= i
        BY <1>7, <3>2
      <4>2. any0 # i
        BY <1>6, <2>2, <3>2, <4>1
      <4>3. any0 \in 1 .. (i - 1)
        BY <1>6, <4>1, <4>2
      <4> QED
        BY <4>1, <4>3
    <3> QED
      BY <1>2, <1>9, <3>1, <3>2
  <2> QED
    BY <2>1, <2>2
<1>11. CASE o.subtype = "crashed"
  <2> DEFINE c == CompatibleCrash(o)
             q == [o EXCEPT !.type = FirstOf(c).type]
  <2>1. CASE c # 0
    <3>1. Observe(q)
      BY <1>11, <2>1 DEF FuseRecord, FirstOf
    <3>2. c \in Live /\ Origin(FirstOf(c)) = Origin(q) /\ Compatible(c, q)
      BY <1>3, <2>1, CrashFound
    <3>3. TellsOf(q, failures) /\ q.of = f /\ q.pid = o.pid
      <4>1. /\ Obs(q) /\ q.of = o.of /\ q.source = o.source /\ q.pid = o.pid /\ q.at = o.at
        BY <1>3, Retyped
      <4> HIDE DEF q
      <4> QED
        BY <1>2, <4>1 DEF TellsOf
    <3> HIDE DEF q, c
    \* If the occurrence is still there, the observation joins one.
    <3>4. Found(q, Live \ aged, 0) => Live \ aged = {}
      BY <3>2 DEF Found, FusionInv, FusionTypes
    <3> QED
      BY <1>9, <3>1, <3>3, <3>4
  <2>2. CASE c = 0 /\ any0 # 0
    BY <1>4, <1>8, <1>11, <2>2 DEF FuseRecord, any
  <2>3. CASE c = 0 /\ any0 = 0
    <3>1. Observe(o)
      BY <1>4, <1>11, <2>3 DEF FuseRecord, any
    <3>2. \A i \in Live : FirstOf(i).of # f
      BY <1>6, <1>7, <2>3
    <3> QED
      BY <1>2, <1>9, <3>1, <3>2
  <2> QED
    BY <2>1, <2>2, <2>3
<1> QED
  BY <1>10, <1>11

LEMMA FusionStep == FusionInv /\ [FusionNext]_fusionVars => FusionInv'
<1> SUFFICES ASSUME FusionInv, [FusionNext]_fusionVars PROVE FusionInv'
  OBVIOUS
<1> USE DEF FusionInv
<1>1. CASE UNCHANGED fusionVars
  <2>1. FusionTypes' /\ Occurrences' /\ FailuresSurface'
    BY <1>1 DEF fusionVars, FusionTypes, Live, Occurrences, FailuresSurface
  <2> QED
    BY <1>1, <2>1, PairsStand DEF fusionVars
<1>2. CASE Happen
  <2>1. occurrences = <<>> /\ fused = {} /\ ~stopping /\ DOMAIN occurrences = {}
    BY <1>2 DEF Happen, FusionTypes
  <2>2. FusionTypes'
    BY <1>2, <2>1 DEF Happen, FusionTypes, Live
  <2> QED
    BY <1>2, <2>1, <2>2 DEF Happen, Occurrences, PairsApart, CrashCountedOnce, FailuresSurface
<1>3. CASE LogcatReports
  <2>0. \A f \in DOMAIN failures : failures[f].at \in Int
    BY FusionAssumption DEF FusionTypes
  <2>1. PICK f \in DOMAIN failures, fault \in {"", "f1"} :
           Observe(CrashSeen(f, fault)) \/ Observe(DeathSeen(f, fault))
    BY <1>3 DEF LogcatReports
  <2>2. failures[f].at \in Int
    BY <2>0
  <2>3. \A o : TellsOf(o, failures) /\ o.source = "logcat" => Observable(o)
    BY <1>3 DEF LogcatReports, Observable
  <2>4. PICK o : Observable(o) /\ Observe(o)
    BY <2>1, <2>2, <2>3, ReportTold
  <2>5. failures' = failures /\ fused \subseteq fused' /\ fused' \subseteq DOMAIN failures
    BY <1>3 DEF LogcatReports, FusionTypes
  <2> QED
    BY <2>4, <2>5, ObserveKeeps
<1>4. CASE TimePasses
  <2>1. FusionTypes' /\ Occurrences' /\ FailuresSurface'
    BY <1>4 DEF TimePasses, FusionTypes, Live, Occurrences, FailuresSurface
  <2> QED
    BY <1>4, <2>1, PairsStand DEF TimePasses
<1>5. CASE StopAccepting
  <2>1. FusionTypes' /\ Occurrences' /\ FailuresSurface'
    BY <1>5 DEF StopAccepting, FusionTypes, Live, Occurrences, FailuresSurface
  <2> QED
    BY <1>5, <2>1, PairsStand DEF StopAccepting
<1>6. CASE ExitInfoReports
  <2>1. PICK f \in DOMAIN failures \ fused : fused' = fused \cup {f} /\ \E o \in ExitRecords(f) : FuseRecord(o)
    BY <1>6 DEF ExitInfoReports
  <2> QED
    BY <1>6, <2>1, FuseKeeps DEF ExitInfoReports
<1> QED
  BY <1>1, <1>2, <1>3, <1>4, <1>5, <1>6 DEF FusionNext

\* Whatever fails, and however its reports come in, again, late or from both sources:
\* two crashes are two incidents, one crash is one, and a failure that ExitInfo
\* records is in the report (FusionEngine.observe, CollectorPool._fuse_exit_info).
THEOREM CrashesAreCounted == FusionSpec => []CrashesCounted
<1>1. FusionInit => FusionInv
  BY DEF FusionInit, FusionInv, FusionTypes, Live, Occurrences, PairsApart, CrashCountedOnce,
         FailuresSurface
<1>2. FusionInv => CrashesCounted
  <2> SUFFICES ASSUME FusionInv PROVE CrashesCounted
    OBVIOUS
  <2>1. ASSUME NEW i \in DOMAIN occurrences
        PROVE  /\ OneMarker(Members(i))
               /\ \A m \in Members(i) : TellsOf(m, failures) /\ Origin(m) = Origin(FirstOf(i))
    BY DEF FusionInv, Occurrences, Occurrence, Members, FirstOf
  <2>2. DifferentCrashesApart
    <3> SUFFICES ASSUME NEW i \in DOMAIN occurrences, NEW a \in Members(i), NEW b \in Members(i),
                        a.type \in CrashTypes, a.source = "logcat", b.source = "logcat"
                 PROVE  SameCrash(a.of, b.of)
      BY DEF DifferentCrashesApart, Members
    <3>1. TellsOf(a, failures) /\ TellsOf(b, failures) /\ Origin(a) = Origin(b)
      BY <2>1
    <3>2. a.pid = b.pid /\ a.type = b.type
      BY <3>1 DEF Origin
    <3>3. a.marker = b.marker \/ a.marker = "" \/ b.marker = ""
      BY <2>1 DEF OneMarker
    <3> QED
      BY <3>1, <3>2, <3>3 DEF TellsOf, SameCrash
  <2>3. ReplaysAbsorbed
    <3> SUFFICES ASSUME NEW i \in DOMAIN occurrences, NEW j \in DOMAIN occurrences, i < j,
                        NEW a \in Members(i), a \in Members(j), i \notin forgotten
                 PROVE  FALSE
      BY DEF ReplaysAbsorbed, Members
    <3>1. Origin(FirstOf(i)) = Origin(FirstOf(j))
      BY <2>1
    <3>2. PICK x \in Members(i) : x.marker # "" /\ \A y \in Members(j) : y.marker # "" /\ y.marker # x.marker
      BY <3>1 DEF FusionInv, PairsApart, Apart
    <3> QED
      BY <2>1, <3>2 DEF OneMarker
  <2> QED
    BY <2>2, <2>3 DEF FusionInv, CrashesCounted
<1> QED
  BY <1>1, <1>2, FusionStep, PTL DEF FusionSpec
=============================================================================
