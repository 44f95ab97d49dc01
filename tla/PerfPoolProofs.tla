--------------------------- MODULE PerfPoolProofs ---------------------------
(***************************************************************************)
(* Proofs about PerfPool, for any processes, kinds, thresholds and bounds, *)
(* and about the run around it.                                            *)
(* An alert is raised exactly when it is due, provided that Cooldown is    *)
(* not 0 (with 0, two samples of one moment could both raise one), and a   *)
(* loop overruns stop() by one sample at most.  The inductive invariant is *)
(* local to a loop: what the state of its tracker says about the samples   *)
(* it was fed (Tracks), and that it samples only while none is late.       *)
(* PoolIsSound: the lifecycle file, the workers and the dump threads agree *)
(* with one another; it takes a count of the dump threads by their places. *)
(* PerfRunIsSound, about PerfRun: its invariant says at each place of the  *)
(* caller what pool, heartbeat and CSV writer can be at.                   *)
(* DumpsAreSound, about PerfDumps: the heap dump keeps what it says of the *)
(* file on the device, and the threads are at their peak after each line.  *)
(***************************************************************************)
EXTENDS PerfPool, PerfRun, PerfDumps,
        FiniteSetTheorems, SequenceTheorems, TLAPS

Tracker == [state : {"OK", "RISING", "COOLDOWN"}, since : Nat, until : Int,
            run : SUBSET Nat, fired : Int]
Loop == [pc : {"idle", "sample", "done"}, tracker : Tracker, late : Nat]
Worker == [name : Names, pid : Nat, stop : BOOLEAN, loop : [Kinds -> Loop]]

\* What the state of a tracker says of the samples it was fed up to now.
Tracks(t, now) ==
    /\ t \in Tracker
    /\ t.fired <= now /\ t.since <= now /\ \A r \in t.run : r <= now
    /\ t.state = "OK" => t.run = {} /\ t.fired + Cooldown <= now
    /\ t.state = "RISING" =>
          /\ t.since \in t.run /\ t.since >= t.fired + Cooldown
          /\ \A r \in t.run : r >= t.fired + Cooldown => r >= t.since
    /\ t.state = "COOLDOWN" =>
          t.until = t.fired + Cooldown /\ \A r \in t.run : r < t.until

LoopInv(w, k) ==
    /\ Tracks(workers[w].loop[k].tracker, clock)
    /\ workers[w].loop[k].late # 0 =>
          Stopped(w) /\ workers[w].loop[k].late = 1 /\ workers[w].loop[k].pc # "sample"

Types ==
    /\ clock \in Nat /\ nextPid \in Nat /\ globalStop \in BOOLEAN
    /\ device \in [Names -> Nat] /\ watcher.seen \in [Names -> Nat]
    /\ workers \in Seq(Worker)

LoopsInv == \A w \in 1 .. Len(workers) : \A k \in Kinds : LoopInv(w, k)
IInv == Types /\ LoopsInv

-----------------------------------------------------------------------------
\* A new tracker has nothing to say of the past.
LEMMA NewTracks == ASSUME PoolAssumption, Cooldown > 0, NEW now \in Nat PROVE Tracks(NewTracker, now)
BY DEF PoolAssumption, Tracks, Tracker, NewTracker, Never

\* Time passes: what a tracker says stays true.
LEMMA TracksLater ==
    ASSUME PoolAssumption, NEW now \in Nat, NEW t, Tracks(t, now) PROVE Tracks(t, now + 1)
BY DEF PoolAssumption, Tracks, Tracker

\* The end of a cooldown keeps the invariant, for a tracker as of now.
LEMMA CooledTracks ==
    ASSUME PoolAssumption, NEW now \in Nat, NEW t, Tracks(t, now)
    PROVE  LET c == Cooled(t, now) IN
             /\ c \in Tracker /\ c.fired = t.fired /\ c.run = t.run /\ c.since = t.since
             /\ c.until = t.until
             /\ c.state = "OK" => c.fired + Cooldown <= now
                                  /\ \A r \in c.run : r >= c.fired + Cooldown => r = now
             /\ c.state = "RISING" => t.state = "RISING"
             /\ c.state = "COOLDOWN" => t.state = "COOLDOWN" /\ now < c.until
BY DEF PoolAssumption, Tracks, Tracker, Cooled

\* feed() keeps the invariant, and fires exactly when an alert is due.
LEMMA FeedTracks ==
    ASSUME PoolAssumption, Cooldown > 0, NEW now \in Nat, NEW t, Tracks(t, now), NEW over \in BOOLEAN
    PROVE  /\ Tracks(Feed(t, now, over), now)
           /\ over => (Fires(t, now, over) <=>
                          \E first \in Feed(t, now, over).run :
                              first >= t.fired + Cooldown /\ now - first >= Sustain)
           /\ Feed(t, now, over).fired # t.fired <=> Fires(t, now, over)
           /\ ~ over => Feed(t, now, over).run = {}
<1> DEFINE d == Cooled(t, now)
           c == [d EXCEPT !.run = IF over THEN @ \union {now} ELSE {}]
           r == Risen(d, now)
<1>0. /\ Sustain \in Nat /\ Cooldown \in Nat
      /\ t \in Tracker /\ t.fired <= now /\ t.since <= now /\ \A s \in t.run : s <= now
  BY DEF PoolAssumption, Tracks
<1>1. /\ d \in Tracker /\ d.fired = t.fired /\ d.run = t.run /\ d.since = t.since /\ d.until = t.until
      /\ d.state = "OK" => d.fired + Cooldown <= now
                           /\ \A s \in d.run : s >= d.fired + Cooldown => s = now
      /\ d.state = "RISING" => t.state = "RISING"
      /\ d.state = "COOLDOWN" => t.state = "COOLDOWN" /\ now < d.until
  BY CooledTracks
<1>2. c \in Tracker /\ (over => c.run = t.run \union {now}) /\ (~ over => c.run = {})
      /\ c.fired = t.fired /\ c.state = d.state /\ c.since = t.since /\ c.until = t.until
  BY <1>1 DEF Tracker
<1> HIDE DEF d
<1>3. Fires(t, now, over) <=> over /\ r.state = "RISING" /\ now - r.since >= Sustain
  BY DEF Fires, d
<1>4. Feed(t, now, over) =
        IF Fires(t, now, over)
        THEN [c EXCEPT !.state = "COOLDOWN", !.since = 0, !.until = now + Cooldown, !.fired = now]
        ELSE IF c.state = "COOLDOWN" THEN c
        ELSE IF over THEN Risen(c, now)
        ELSE [c EXCEPT !.state = "OK", !.since = 0]
  BY DEF Feed, d
<1> HIDE DEF c
<1> DEFINE f == Feed(t, now, over)
<1>5. ASSUME ~ over PROVE ~ Fires(t, now, over) /\ Tracks(f, now) /\ f.fired = t.fired /\ f.run = {}
  <2>1. ~ Fires(t, now, over)  BY <1>5, <1>3
  <2>2. CASE c.state = "COOLDOWN"
    <3>1. f = c  BY <1>4, <2>1, <2>2
    <3>2. f \in Tracker /\ f.state = "COOLDOWN" /\ f.run = {} /\ f.fired = t.fired
          /\ f.since = t.since /\ f.until = t.until /\ t.state = "COOLDOWN"
      BY <3>1, <2>2, <1>1, <1>2, <1>5
    <3> QED BY <3>2, <2>1, <1>0 DEF Tracks
  <2>3. CASE c.state # "COOLDOWN"
    <3>1. f = [c EXCEPT !.state = "OK", !.since = 0]  BY <1>4, <1>5, <2>1, <2>3
    <3>0. c.run = {} /\ c \in Tracker /\ c.fired = t.fired  BY <1>2, <1>5
    <3> HIDE DEF f
    <3>2. f \in Tracker /\ f.state = "OK" /\ f.run = {} /\ f.fired = t.fired /\ f.since = 0
      BY <3>0, <3>1 DEF Tracker
    <3>3. t.fired + Cooldown <= now
      <4>1. CASE d.state = "OK"  BY <4>1, <1>1
      <4>2. CASE d.state = "RISING"  BY <4>2, <1>0, <1>1 DEF Tracks, Tracker
      <4> QED BY <4>1, <4>2, <2>3, <1>1, <1>2 DEF Tracker
    <3> QED BY <3>2, <3>3, <2>1, <1>0 DEF Tracks
  <2> QED BY <2>2, <2>3
<1> DEFINE Wanted == /\ Tracks(f, now)
                     /\ Fires(t, now, over) <=> \E first \in f.run :
                            first >= t.fired + Cooldown /\ now - first >= Sustain
                     /\ f.fired # t.fired <=> Fires(t, now, over)
<1>6. ASSUME over, Fires(t, now, over)
      PROVE  /\ f \in Tracker /\ f.state = "COOLDOWN" /\ f.since = 0 /\ f.until = now + Cooldown
             /\ f.fired = now /\ f.run = t.run \union {now}
  <2>1. f = [c EXCEPT !.state = "COOLDOWN", !.since = 0, !.until = now + Cooldown, !.fired = now]
    BY <1>4, <1>6
  <2>2. c.run = t.run \union {now} /\ c \in Tracker  BY <1>2, <1>6
  <2> HIDE DEF f
  <2>3. now + Cooldown \in Int /\ now \in Int  BY <1>0
  <2>4. f \in Tracker  BY <2>1, <2>2, <2>3 DEF Tracker
  <2>5. f.state = "COOLDOWN" /\ f.since = 0 /\ f.until = now + Cooldown /\ f.fired = now
        /\ f.run = c.run
    BY <2>1, <2>2 DEF Tracker
  <2> QED BY <2>2, <2>4, <2>5
<1>7. ASSUME over, d.state = "COOLDOWN" PROVE Wanted
  <2>1. ~ Fires(t, now, over)  BY <1>7, <1>3 DEF Risen
  <2>2. f = c  BY <1>4, <1>7, <1>2, <2>1
  <2>3. f \in Tracker /\ f.state = "COOLDOWN" /\ f.run = t.run \union {now} /\ f.fired = t.fired
        /\ f.since = t.since /\ f.until = t.until /\ t.state = "COOLDOWN" /\ now < t.until
    BY <2>2, <1>1, <1>2, <1>7
  <2>4. t.until = t.fired + Cooldown /\ \A s \in t.run : s < t.until  BY <2>3 DEF Tracks
  <2>5. Tracks(f, now)  BY <2>3, <2>4, <1>0 DEF Tracks
  <2>6. ~ \E first \in f.run : first >= t.fired + Cooldown /\ now - first >= Sustain
    BY <2>3, <2>4, <1>0 DEF Tracker
  <2> QED BY <2>1, <2>3, <2>5, <2>6
<1>8. ASSUME over, d.state = "OK" PROVE Wanted
  <2>1. r.state = "RISING" /\ r.since = now  BY <1>8, <1>1 DEF Risen, Tracker
  <2>2. Fires(t, now, over) <=> now - now >= Sustain  BY <1>3, <1>8, <2>1
  <2>3. t.fired + Cooldown <= now /\ \A s \in t.run : s >= t.fired + Cooldown => s = now
    BY <1>8, <1>1
  <2>4. t.fired < now  BY <2>3, <1>0 DEF Tracker
  <2>5. CASE Fires(t, now, over)
    <3>0. /\ f \in Tracker /\ f.state = "COOLDOWN" /\ f.since = 0 /\ f.until = now + Cooldown
          /\ f.fired = now /\ f.run = t.run \union {now}
      BY <2>5, <1>8, <1>6
    <3>1. Tracks(f, now)  BY <3>0, <1>0 DEF Tracks, Tracker
    <3>2. now \in f.run /\ now - now >= Sustain  BY <3>0, <2>2, <2>5
    <3>3. f.fired # t.fired  BY <3>0, <2>4, <1>0 DEF Tracker
    <3> QED BY <3>1, <3>2, <3>3, <2>3, <2>5
  <2>6. CASE ~ Fires(t, now, over)
    <3>1. f = [c EXCEPT !.state = "RISING", !.since = now]
      BY <1>2, <1>4, <1>8, <2>6 DEF Risen
    <3>2. f \in Tracker /\ f.state = "RISING" /\ f.since = now /\ f.run = t.run \union {now}
          /\ f.fired = t.fired
      BY <3>1, <1>0, <1>2, <1>8 DEF Tracker
    <3>3. Tracks(f, now)  BY <3>2, <2>3, <1>0 DEF Tracks
    <3>4. ~ \E first \in f.run : first >= t.fired + Cooldown /\ now - first >= Sustain
      BY <3>2, <2>2, <2>3, <2>6, <1>0 DEF Tracker
    <3> QED BY <3>2, <3>3, <3>4, <2>6
  <2> QED BY <2>5, <2>6
<1>9. ASSUME over, d.state = "RISING" PROVE Wanted
  <2>1. /\ t.since \in t.run /\ t.since >= t.fired + Cooldown
        /\ \A s \in t.run : s >= t.fired + Cooldown => s >= t.since
    BY <1>9, <1>1 DEF Tracks
  <2>2. Fires(t, now, over) <=> now - t.since >= Sustain  BY <1>1, <1>3, <1>9 DEF Risen
  <2>3. t.fired < now  BY <2>1, <1>0 DEF Tracker
  <2>4. CASE Fires(t, now, over)
    <3>0. /\ f \in Tracker /\ f.state = "COOLDOWN" /\ f.since = 0 /\ f.until = now + Cooldown
          /\ f.fired = now /\ f.run = t.run \union {now}
      BY <2>4, <1>9, <1>6
    <3>1. Tracks(f, now)  BY <3>0, <1>0 DEF Tracks, Tracker
    <3>2. t.since \in f.run /\ now - t.since >= Sustain  BY <3>0, <2>1, <2>2, <2>4
    <3>3. f.fired # t.fired  BY <3>0, <2>3, <1>0 DEF Tracker
    <3> QED BY <3>1, <3>2, <3>3, <2>1, <2>4
  <2>5. CASE ~ Fires(t, now, over)
    <3>1. f = c  BY <1>2, <1>4, <1>9, <2>5 DEF Risen
    <3>2. f \in Tracker /\ f.state = "RISING" /\ f.since = t.since /\ f.run = t.run \union {now}
          /\ f.fired = t.fired
      BY <3>1, <1>2, <1>9
    <3>3. Tracks(f, now)  BY <3>2, <2>1, <1>0 DEF Tracks
    <3>4. ~ \E first \in f.run : first >= t.fired + Cooldown /\ now - first >= Sustain
      BY <3>2, <2>1, <2>2, <2>5, <1>0 DEF Tracker
    <3> QED BY <3>2, <3>3, <3>4, <2>5
  <2> QED BY <2>4, <2>5
<1>10. ASSUME over PROVE Wanted
  <2>1. d.state \in {"OK", "RISING", "COOLDOWN"}  BY <1>1 DEF Tracker
  <2> QED BY <2>1, <1>7, <1>8, <1>9, <1>10
<1> QED BY <1>5, <1>10
-----------------------------------------------------------------------------
\* SetToSeq lists the elements of a finite set.
LEMMA Listed ==
    ASSUME NEW S, IsFiniteSet(S)
    PROVE  Cardinality(S) \in Nat /\ SetToSeq(S) \in [1 .. Cardinality(S) -> S]
<1>1. Cardinality(S) \in Nat /\ ExistsBijection(1 .. Cardinality(S), S)  BY FS_CardinalityType
<1>2. \E f \in [1 .. Cardinality(S) -> S] : IsInjective(f)
  BY <1>1 DEF ExistsBijection, Bijection, Injection, IsInjective
<1> QED BY <1>1, <1>2 DEF SetToSeq

\* A step that tells workers to stop and adds new ones touches no loop.
Untouched ==
    /\ workers' \in Seq(Worker) /\ Len(workers') >= Len(workers)
    /\ \A w \in 1 .. Len(workers) :
          workers'[w].loop = workers[w].loop /\ (workers[w].stop => workers'[w].stop)
    /\ \A w \in 1 .. Len(workers') : w > Len(workers) => workers'[w].loop = [k \in Kinds |-> NewLoop]

LEMMA NewLoopTyped == ASSUME PoolAssumption PROVE [k \in Kinds |-> NewLoop] \in [Kinds -> Loop]
BY DEF PoolAssumption, NewLoop, Loop, NewTracker, Tracker, Never

LEMMA ReconcileUntouched ==
    ASSUME PoolAssumption, Types, NEW seen \in [Names -> Nat], Reconciled(seen) PROVE Untouched
<1> DEFINE leaving == Gone(seen) \union {n \in Added(seen) : current[n] # 0}
           arriving == Added(seen)
           count == Cardinality(arriving)
           old == [w \in 1 .. Len(workers) |->
                     IF \E n \in leaving : current[n] = w
                     THEN [workers[w] EXCEPT !.stop = TRUE] ELSE workers[w]]
           new == [i \in 1 .. count |->
                     LET n == SetToSeq(arriving)[i] IN NewWorker(n, seen[n])]
<1>1. IsFiniteSet(arriving) /\ arriving \subseteq Names  BY FS_Subset DEF PoolAssumption, Added
<1>2. count \in Nat /\ SetToSeq(arriving) \in [1 .. count -> arriving]  BY <1>1, Listed
<1>3. workers' = old \o new  BY DEF Reconciled, Replaced
<1>4. Len(workers) \in Nat /\ \A w \in 1 .. Len(workers) : workers[w] \in Worker
  BY LenProperties, ElementOfSeq DEF Types
<1>5. \A w \in 1 .. Len(workers) :
        old[w] \in Worker /\ old[w].loop = workers[w].loop /\ (workers[w].stop => old[w].stop)
  <2> HIDE DEF leaving
  <2> QED BY <1>4 DEF Worker
<1>6. \A i \in 1 .. count : new[i] \in Worker /\ new[i].loop = [k \in Kinds |-> NewLoop]
  <2> TAKE i \in 1 .. count
  <2> DEFINE n == SetToSeq(arriving)[i]
  <2>1. n \in Names  BY <1>1, <1>2
  <2>2. new[i] = NewWorker(n, seen[n])  OBVIOUS
  <2>3. seen[n] \in Nat  BY <2>1
  <2> HIDE DEF n, new
  <2> QED BY <2>1, <2>2, <2>3, NewLoopTyped DEF NewWorker, Worker
<1> HIDE DEF leaving, arriving
<1>7. old \in Seq(Worker) /\ Len(old) = Len(workers)  BY <1>4, <1>5
<1>8. new \in Seq(Worker) /\ Len(new) = count  BY <1>2, <1>6
<1> HIDE DEF old, new, count
<1>9. /\ old \o new \in Seq(Worker) /\ Len(old \o new) = Len(old) + Len(new)
      /\ \A i \in 1 .. Len(old) + Len(new) :
            (old \o new)[i] = IF i <= Len(old) THEN old[i] ELSE new[i - Len(old)]
  BY <1>7, <1>8, ConcatProperties
<1>10. workers' \in Seq(Worker) /\ Len(workers') = Len(workers) + count /\ count \in Nat
  BY <1>2, <1>3, <1>7, <1>8, <1>9 DEF count
<1>11. \A w \in 1 .. Len(workers) : workers'[w] = old[w]  BY <1>3, <1>4, <1>7, <1>8, <1>9, <1>10
<1>12. \A w \in 1 .. Len(workers') : w > Len(workers) =>
          w - Len(workers) \in 1 .. count /\ workers'[w] = new[w - Len(workers)]
  BY <1>3, <1>4, <1>7, <1>8, <1>9, <1>10
<1>13. Len(workers') >= Len(workers)  BY <1>4, <1>10
<1>14. \A w \in 1 .. Len(workers) :
          workers'[w].loop = workers[w].loop /\ (workers[w].stop => workers'[w].stop)
  BY <1>5, <1>11
<1>15. \A w \in 1 .. Len(workers') : w > Len(workers) => workers'[w].loop = [k \in Kinds |-> NewLoop]
  BY <1>6, <1>12
<1> QED BY <1>10, <1>13, <1>14, <1>15 DEF Untouched

LEMMA MarkUntouched == ASSUME PoolAssumption, Types, StopMarkWorkers PROVE Untouched
<1>1. Len(workers) \in Nat /\ \A w \in 1 .. Len(workers) : workers[w] \in Worker
  BY LenProperties, ElementOfSeq DEF Types
<1>2. workers' = [w \in 1 .. Len(workers) |->
                    IF w \in joining' THEN [workers[w] EXCEPT !.stop = TRUE] ELSE workers[w]]
  BY DEF StopMarkWorkers
<1>3. \A w \in 1 .. Len(workers) :
        workers'[w] \in Worker /\ workers'[w].loop = workers[w].loop
        /\ (workers[w].stop => workers'[w].stop)
  BY <1>1, <1>2 DEF Worker
<1>4. workers' \in Seq(Worker) /\ Len(workers') = Len(workers)  BY <1>1, <1>2, <1>3
<1> QED BY <1>1, <1>3, <1>4 DEF Untouched

\* Such a step keeps the invariant, also when it sets the global stop event.
LEMMA UntouchedInv ==
    ASSUME PoolAssumption, Cooldown > 0, IInv, Untouched, clock' = clock, globalStop => globalStop'
    PROVE  LoopsInv'
<1> SUFFICES ASSUME NEW w \in 1 .. Len(workers'), NEW k \in Kinds PROVE LoopInv(w, k)'
  BY DEF LoopsInv
<1>1. Len(workers) \in Nat /\ Len(workers') \in Nat  BY LenProperties DEF IInv, Types, Untouched
<1>2. CASE w <= Len(workers)
  <2>1. w \in 1 .. Len(workers)  BY <1>1, <1>2
  <2>2. workers'[w].loop = workers[w].loop /\ (Stopped(w) => Stopped(w)')
    BY <2>1 DEF Untouched, Stopped
  <2>3. LoopInv(w, k)  BY <2>1 DEF IInv, LoopsInv
  <2> QED BY <2>2, <2>3 DEF LoopInv
<1>3. CASE w > Len(workers)
  <2>1. workers'[w].loop[k] = NewLoop  BY <1>3 DEF Untouched
  <2>2. Tracks(NewTracker, clock)  BY NewTracks DEF IInv, Types
  <2> QED BY <2>1, <2>2 DEF LoopInv, NewLoop
<1> QED BY <1>1, <1>2, <1>3
\* A loop that steps is the only one that changes.
LEMMA LoopKeeps ==
    ASSUME PoolAssumption, IInv, NEW w \in 1 .. Len(workers), NEW k \in Kinds, NEW loop \in Loop,
           workers' = [workers EXCEPT ![w].loop[k] = loop],
           clock' = clock, globalStop' = globalStop,
           Tracks(loop.tracker, clock),
           loop.late # 0 => Stopped(w) /\ loop.late = 1 /\ loop.pc # "sample"
    PROVE  /\ workers' \in Seq(Worker) /\ LoopsInv'
           /\ Len(workers') = Len(workers)
           /\ \A v \in 1 .. Len(workers), j \in Kinds : workers'[v].loop[j] =
                 IF v = w /\ j = k THEN loop ELSE workers[v].loop[j]
<1> DEFINE x == [workers[w] EXCEPT !.loop[k] = loop]
<1>1. Len(workers) \in Nat /\ \A v \in 1 .. Len(workers) : workers[v] \in Worker
  BY LenProperties, ElementOfSeq DEF IInv, Types
<1>2. /\ x \in Worker /\ x.stop = workers[w].stop
      /\ \A j \in Kinds : x.loop[j] = IF j = k THEN loop ELSE workers[w].loop[j]
  BY <1>1 DEF Worker
<1>3. workers' = [workers EXCEPT ![w] = x]  OBVIOUS
<1> HIDE DEF x
<1>4. /\ workers' \in Seq(Worker) /\ Len(workers') = Len(workers)
      /\ \A v \in 1 .. Len(workers) : workers'[v] = IF v = w THEN x ELSE workers[v]
  <2>1. workers \in Seq(Worker) /\ x \in Worker  BY <1>2 DEF IInv, Types
  <2>2. /\ [workers EXCEPT ![w] = x] \in Seq(Worker)
        /\ Len([workers EXCEPT ![w] = x]) = Len(workers)
        /\ \A j \in 1 .. Len(workers) : [workers EXCEPT ![w] = x][j] = IF j = w THEN x ELSE workers[j]
    BY <2>1, ExceptSeq
  <2> QED BY <1>3, <2>2
<1>5. \A v \in 1 .. Len(workers), j \in Kinds :
        /\ workers'[v].loop[j] = IF v = w /\ j = k THEN loop ELSE workers[v].loop[j]
        /\ workers'[v].stop = workers[v].stop
  <2> TAKE v \in 1 .. Len(workers), j \in Kinds
  <2>1. CASE v = w  BY <1>2, <1>4, <2>1
  <2>2. CASE v # w  BY <1>4, <2>2
  <2> QED BY <2>1, <2>2
<1>6. LoopsInv'
  <2> SUFFICES ASSUME NEW v \in 1 .. Len(workers), NEW j \in Kinds PROVE LoopInv(v, j)'
    BY <1>4 DEF LoopsInv
  <2>1. LoopInv(v, j) /\ Stopped(v)' = Stopped(v)  BY <1>5 DEF IInv, LoopsInv, Stopped
  <2>2. CASE v = w /\ j = k
    <3>1. workers'[v].loop[j] = loop  BY <1>5, <2>2
    <3> QED BY <3>1, <2>1, <2>2 DEF LoopInv
  <2>3. CASE ~ (v = w /\ j = k)
    <3>1. workers'[v].loop[j] = workers[v].loop[j]  BY <1>5, <2>3
    <3> QED BY <3>1, <2>1 DEF LoopInv
  <2> QED BY <2>2, <2>3
<1> QED BY <1>4, <1>5, <1>6

\* What a step may do to the workers: nothing, Untouched, or one loop's step.
LEMMA StepKinds ==
    ASSUME PoolAssumption, Types, [Next]_vars
    PROVE  \/ workers' = workers /\ clock' \in {clock, clock + 1} /\ globalStop' = globalStop
           \/ Untouched /\ clock' = clock /\ (globalStop => globalStop')
           \/ \E w \in 1 .. Len(workers), k \in Kinds : LoopStep(w, k)
<1> USE DEF vars, external, pool, stopping, dumping
<1>1. CASE UNCHANGED vars  BY <1>1
<1>2. CASE \E n \in Names : ProcessStarts(n) \/ ProcessDies(n)
  BY <1>2 DEF ProcessStarts, ProcessDies
<1>3. CASE Tick  BY <1>3 DEF Tick
<1>4. CASE Start
  <2>1. watcher.seen \in [Names -> Nat] /\ Reconciled(watcher.seen)  BY <1>4 DEF Start, Types
  <2> QED BY <1>4, <2>1, ReconcileUntouched DEF Start
<1>5. CASE WatcherStep
  <2>1. CASE Reconcile
    <3>1. watcher.seen \in [Names -> Nat] /\ Reconciled(watcher.seen)  BY <2>1 DEF Reconcile, Types
    <3> QED BY <2>1, <3>1, ReconcileUntouched DEF Reconcile
  <2> QED BY <1>5, <2>1 DEF WatcherStep, Discover, DiscoverMisses, DiscoverRaises, WatcherWait
<1>6. CASE StopSetGlobal
  <2>1. Untouched
    <3>1. workers' = workers /\ Len(workers) \in Nat  BY <1>6, LenProperties DEF StopSetGlobal, Types
    <3> QED BY <3>1 DEF Untouched, Types
  <2> QED BY <1>6, <2>1 DEF StopSetGlobal
<1>7. CASE StopStep
  <2>1. CASE StopMarkWorkers  BY <2>1, MarkUntouched DEF StopMarkWorkers
  <2> QED BY <1>7, <2>1 DEF StopStep, StopJoinWatcher, StopJoinLoops
<1>8. CASE \E w \in 1 .. MaxWorkers, k \in Kinds : LoopStep(w, k)
  <2>1. PICK w \in 1 .. MaxWorkers, k \in Kinds : LoopStep(w, k)  BY <1>8
  <2>2. w \in 1 .. Len(workers)  BY <2>1, LenProperties DEF LoopStep, Types
  <2> QED BY <2>1, <2>2
<1>9. CASE \E k \in Kinds : DumpStep(k)
  BY <1>9 DEF DumpStep, DumpStarts, DumpGivenUp, DumpEnds
<1>10. CASE Ended  BY <1>10 DEF Ended
<1> QED BY <1>1, <1>2, <1>3, <1>4, <1>5, <1>6, <1>7, <1>8, <1>9, <1>10 DEF Next

\* The step of a loop keeps the invariant, and raises an alert when one is due.
AlertDue(w, k) ==
    LET l == workers[w].loop[k]
        m == workers'[w].loop[k]
    IN l.tracker # m.tracker /\ clock \in m.tracker.run =>
           ((m.tracker.fired # l.tracker.fired) <=> Due(m.tracker, l.tracker))

LEMMA LoopStepInv ==
    ASSUME PoolAssumption, Cooldown > 0, IInv, NEW w \in 1 .. Len(workers), NEW k \in Kinds,
           LoopStep(w, k)
    PROVE  /\ workers' \in Seq(Worker) /\ LoopsInv'
           /\ \A v \in 1 .. Len(workers), j \in Kinds : AlertDue(v, j)
<1> DEFINE l == workers[w].loop[k]
<1>1. /\ Len(workers) \in Nat /\ clock \in Nat /\ l \in Loop
      /\ Tracks(l.tracker, clock)
      /\ l.late # 0 => Stopped(w) /\ l.late = 1 /\ l.pc # "sample"
  <2>1. Len(workers) \in Nat /\ clock \in Nat /\ workers[w] \in Worker
    BY LenProperties, ElementOfSeq DEF IInv, Types
  <2>2. LoopInv(w, k)  BY DEF IInv, LoopsInv
  <2> QED BY <2>1, <2>2 DEF LoopInv, Worker
<1>2. ASSUME NEW loop \in Loop, workers' = [workers EXCEPT ![w].loop[k] = loop],
             clock' = clock, globalStop' = globalStop,
             Tracks(loop.tracker, clock),
             loop.late # 0 => Stopped(w) /\ loop.late = 1 /\ loop.pc # "sample",
             l.tracker # loop.tracker /\ clock \in loop.tracker.run =>
                 ((loop.tracker.fired # l.tracker.fired) <=> Due(loop.tracker, l.tracker))
      PROVE  /\ workers' \in Seq(Worker) /\ LoopsInv'
             /\ \A v \in 1 .. Len(workers), j \in Kinds : AlertDue(v, j)
  <2>1. /\ workers' \in Seq(Worker) /\ LoopsInv'
        /\ \A v \in 1 .. Len(workers), j \in Kinds : workers'[v].loop[j] =
              IF v = w /\ j = k THEN loop ELSE workers[v].loop[j]
    <3>1. /\ workers' = [workers EXCEPT ![w].loop[k] = loop]
          /\ clock' = clock /\ globalStop' = globalStop
          /\ Tracks(loop.tracker, clock)
          /\ loop.late # 0 => Stopped(w) /\ loop.late = 1 /\ loop.pc # "sample"
      BY ONLY <1>2
    <3>2. loop \in Loop  BY ONLY <1>2
    <3> QED BY <3>1, <3>2, LoopKeeps, ZenonT(60)
  <2>2. \A v \in 1 .. Len(workers), j \in Kinds : AlertDue(v, j)
    BY <1>2, <2>1 DEF AlertDue
  <2> QED BY <2>1, <2>2
<1> HIDE DEF l
<1>3. CASE BeginSample(w, k)
  <2>1. [l EXCEPT !.pc = "sample"] \in Loop /\ [l EXCEPT !.pc = "sample"].tracker = l.tracker
        /\ [l EXCEPT !.pc = "sample"].late = l.late /\ l.late = 0
    BY <1>1, <1>3 DEF Loop, BeginSample
  <2>2. workers' = [workers EXCEPT ![w].loop[k] = [l EXCEPT !.pc = "sample"]]
        /\ clock' = clock /\ globalStop' = globalStop
    BY <1>3 DEF BeginSample, LoopGoto, stopping, l
  <2> QED BY <1>1, <1>2, <2>1, <2>2
<1>4. CASE EndLoop(w, k)
  <2> DEFINE e == [l EXCEPT !.pc = "done", !.tracker = NewTracker]
  <2>1. NewTracker \in Tracker /\ Tracks(NewTracker, clock)  BY <1>1, NewTracks DEF Tracks
  <2>2. e \in Loop /\ e.tracker = NewTracker /\ e.late = l.late /\ e.pc = "done" /\ e.tracker.run = {}
    BY <1>1, <2>1 DEF Loop, NewTracker
  <2>3. workers' = [workers EXCEPT ![w].loop[k] = e] /\ clock' = clock /\ globalStop' = globalStop
    BY <1>4 DEF EndLoop, LoopGoto, stopping, l
  <2> HIDE DEF e
  <2> QED BY <1>1, <1>2, <2>1, <2>2, <2>3
<1>5. CASE SampleWithoutValue(w, k)
  <2> DEFINE e == [l EXCEPT !.pc = "idle"]
  <2>1. e \in Loop /\ e.tracker = l.tracker /\ e.late = l.late /\ e.pc = "idle"  BY <1>1 DEF Loop
  <2>2. workers' = [workers EXCEPT ![w].loop[k] = e] /\ clock' = clock /\ globalStop' = globalStop
    BY <1>5 DEF SampleWithoutValue, LoopGoto, stopping, l
  <2> HIDE DEF e
  <2> QED BY <1>1, <1>2, <2>1, <2>2
<1>6. ASSUME NEW over \in BOOLEAN, SampleFed(w, k, over)
      PROVE  /\ workers' \in Seq(Worker) /\ LoopsInv'
             /\ \A v \in 1 .. Len(workers), j \in Kinds : AlertDue(v, j)
  <2> DEFINE t == l.tracker
             f == Feed(t, clock, over)
             e == [pc |-> "idle", tracker |-> f, late |-> IF Stopped(w) THEN l.late + 1 ELSE l.late]
  <2>1. /\ Tracks(f, clock)
        /\ over => (Fires(t, clock, over) <=>
                      \E first \in f.run : first >= t.fired + Cooldown /\ clock - first >= Sustain)
        /\ f.fired # t.fired <=> Fires(t, clock, over)
        /\ ~ over => f.run = {}
    BY <1>1, FeedTracks
  <2>2. l.pc = "sample" /\ workers' = [workers EXCEPT ![w].loop[k] = e]
        /\ clock' = clock /\ globalStop' = globalStop
    BY <1>6 DEF SampleFed, LoopGoto, stopping, l
  <2> HIDE DEF f
  <2>3. f \in Tracker  BY <2>1 DEF Tracks
  <2>4. l.late = 0  BY <1>1, <2>2
  <2>5. e.tracker = f /\ e.pc = "idle" /\ e.late \in Nat /\ (e.late # 0 => Stopped(w) /\ e.late = 1)
    BY <2>4
  <2>6. e \in Loop  BY <2>3, <2>4 DEF Loop
  <2>7. clock \in f.run => ((f.fired # t.fired) <=> Due(f, t))
    BY <2>1 DEF Due
  <2> HIDE DEF e
  <2> QED BY <1>2, <2>1, <2>2, <2>5, <2>6, <2>7
<1> QED BY <1>3, <1>4, <1>5, <1>6 DEF LoopStep
-----------------------------------------------------------------------------
LEMMA InitIInv == ASSUME PoolAssumption, Init PROVE IInv
<1>1. workers = <<>> /\ Len(workers) = 0 /\ workers \in Seq(Worker)  BY EmptySeq DEF Init
<1>2. Types
  <2>1. device \in [Names -> Nat]  BY DEF Init
  <2>2. watcher.seen = device  BY DEF Init
  <2>3. clock \in Nat /\ nextPid \in Nat /\ globalStop \in BOOLEAN  BY DEF Init
  <2> QED BY <1>1, <2>1, <2>2, <2>3 DEF Types
<1>3. LoopsInv  BY <1>1 DEF LoopsInv
<1> QED BY <1>2, <1>3 DEF IInv

\* The parts of the state the invariant only needs to be typed.
LEMMA TypesStep ==
    ASSUME Types, [Next]_vars
    PROVE  /\ clock' \in Nat /\ nextPid' \in Nat /\ globalStop' \in BOOLEAN
           /\ device' \in [Names -> Nat] /\ watcher'.seen \in [Names -> Nat]
<1> USE DEF Types, vars, external, pool, stopping, dumping
<1>1. CASE UNCHANGED vars  BY <1>1
<1>2. CASE \E n \in Names : ProcessStarts(n) \/ ProcessDies(n)
  BY <1>2 DEF ProcessStarts, ProcessDies
<1>3. CASE Tick  BY <1>3 DEF Tick
<1>4. CASE Start  BY <1>4 DEF Start, Nothing
<1>5. CASE WatcherStep
  <2>1. CASE Discover  BY <2>1 DEF Discover
  <2>2. CASE DiscoverMisses  BY <2>2 DEF DiscoverMisses
  <2>3. CASE DiscoverRaises
    <3>1. watcher' = [watcher EXCEPT !.pc = "wait"]  BY <2>3 DEF DiscoverRaises
    <3>2. watcher'.seen = watcher.seen  BY <3>1
    <3> QED BY <2>3, <3>2 DEF DiscoverRaises
  <2>4. CASE Reconcile  BY <2>4 DEF Reconcile, Nothing
  <2>5. CASE WatcherWait
    <3>1. watcher'.seen = watcher.seen  BY <2>5 DEF WatcherWait
    <3> QED BY <2>5, <3>1 DEF WatcherWait
  <2> QED BY <1>5, <2>1, <2>2, <2>3, <2>4, <2>5 DEF WatcherStep
<1>6. CASE StopSetGlobal  BY <1>6 DEF StopSetGlobal
<1>7. CASE StopStep  BY <1>7 DEF StopStep, StopMarkWorkers, StopJoinWatcher, StopJoinLoops
<1>8. CASE \E w \in 1 .. MaxWorkers, k \in Kinds : LoopStep(w, k)
  BY <1>8 DEF LoopStep, BeginSample, EndLoop, SampleWithoutValue, SampleFed, LoopGoto
<1>9. CASE \E k \in Kinds : DumpStep(k)
  BY <1>9 DEF DumpStep, DumpStarts, DumpGivenUp, DumpEnds
<1>10. CASE Ended  BY <1>10 DEF Ended
<1> QED BY <1>1, <1>2, <1>3, <1>4, <1>5, <1>6, <1>7, <1>8, <1>9, <1>10 DEF Next

\* Every step keeps the invariant, and raises an alert exactly when one is due.
LEMMA StepInv ==
    ASSUME PoolAssumption, Cooldown > 0, IInv, [Next]_vars
    PROVE  IInv' /\ \A w \in 1 .. Len(workers), k \in Kinds : AlertDue(w, k)
<1>1. Types  BY DEF IInv
<1>2. CASE workers' = workers /\ clock' \in {clock, clock + 1} /\ globalStop' = globalStop
  <2>1. workers' \in Seq(Worker)  BY <1>1, <1>2 DEF Types
  <2>2. LoopsInv'
    <3> SUFFICES ASSUME NEW w \in 1 .. Len(workers), NEW k \in Kinds PROVE LoopInv(w, k)'
      BY <1>2 DEF LoopsInv
    <3>1. LoopInv(w, k) /\ Stopped(w)' = Stopped(w)  BY <1>2 DEF IInv, LoopsInv, Stopped
    <3>2. Tracks(workers[w].loop[k].tracker, clock')  BY <1>1, <1>2, <3>1, TracksLater DEF LoopInv, Types
    <3> QED BY <1>2, <3>1, <3>2 DEF LoopInv
  <2>3. \A w \in 1 .. Len(workers), k \in Kinds : AlertDue(w, k)  BY <1>2 DEF AlertDue
  <2> QED BY <1>1, <2>1, <2>2, <2>3, TypesStep DEF IInv, Types
<1>3. CASE Untouched /\ clock' = clock /\ (globalStop => globalStop')
  <2>1. workers' \in Seq(Worker)  BY <1>3 DEF Untouched
  <2>2. LoopsInv'  BY <1>3, UntouchedInv
  <2>3. \A w \in 1 .. Len(workers), k \in Kinds : AlertDue(w, k)  BY <1>3 DEF AlertDue, Untouched
  <2> QED BY <1>1, <2>1, <2>2, <2>3, TypesStep DEF IInv, Types
<1>4. CASE \E w \in 1 .. Len(workers), k \in Kinds : LoopStep(w, k)
  <2>1. /\ workers' \in Seq(Worker) /\ LoopsInv'
        /\ \A w \in 1 .. Len(workers), k \in Kinds : AlertDue(w, k)
    BY <1>4, LoopStepInv
  <2> QED BY <1>1, <2>1, TypesStep DEF IInv, Types
<1> QED BY <1>1, <1>2, <1>3, <1>4, StepKinds

\* However processes restart and stop() comes, a loop that has been told to
\* stop writes at most the one sample it was waiting for.
THEOREM OneSampleLate == ASSUME Cooldown > 0 PROVE Spec => []OverrunBounded
<1>1. Init => IInv  BY PoolAssumption, InitIInv
<1>2. IInv /\ [Next]_vars => IInv'  BY PoolAssumption, StepInv
<1>3. IInv => OverrunBounded
  BY DEF IInv, LoopsInv, LoopInv, OverrunBounded
<1> QED BY <1>1, <1>2, <1>3, PTL DEF Spec

\* Whatever the samples, failures and moments, a sample raises an alert exactly
\* when it ends an unbroken run of breaches that has lasted for Sustain since
\* the last cooldown.
THEOREM AlertsRaisedWhenDue == ASSUME Cooldown > 0 PROVE Spec => AlertsExactlyWhenDue
<1> DEFINE Alerts == \A w \in 1 .. Len(workers) : \A k \in Kinds : AlertDue(w, k)
<1>1. Init => IInv  BY PoolAssumption, InitIInv
<1>2. IInv /\ [Next]_vars => IInv'  BY PoolAssumption, StepInv
<1>3. IInv /\ [Next]_vars => Alerts  BY PoolAssumption, StepInv
<1> HIDE DEF Alerts
<1>4. Spec => [][Alerts]_vars  BY <1>1, <1>2, <1>3, PTL DEF Spec
<1> QED BY <1>4 DEF AlertsExactlyWhenDue, Alerts, AlertDue
-----------------------------------------------------------------------------
(* PoolSound.  The current worker of a name has that name, it and only it  *)
(* has not been told to stop, and the lifecycle rows of the name end with  *)
(* its pid.                                                                *)
CurrentInv ==
    /\ current \in [Names -> Nat]
    /\ \A n \in Names : current[n] # 0 =>
          current[n] \in 1 .. Len(workers) /\ workers[current[n]].name = n
    /\ \A w \in 1 .. Len(workers) : workers[w].pid # 0
    /\ OnlyCurrentSamples

LifeRow == [event : {"new", "restart", "gone"}, old : Nat, new : Nat]
RowsInv ==
    /\ lifecycle \in [Names -> Seq(LifeRow)]
    /\ LifecycleTellsWorkers
    /\ \A n \in Names : lifecycle[n] # <<>> <=> current[n] # 0 \/ n \in goneAt

\* Once stop() has marked the workers, a loop that samples is one whose worker
\* was told to stop; "done" is for ever.
Marked == stopper \in {"joinWatcher", "joinLoops", "stopped"}
StopInv ==
    /\ globalStop <=> stopper \notin {"starting", "running"}
    /\ Marked => /\ joining \subseteq 1 .. Len(workers)
                 /\ \A w \in 1 .. Len(workers) : \A k \in Kinds :
                       workers[w].loop[k].pc = "sample" => workers[w].stop
    /\ stopper = "stopped" /\ ~ timedOut => LoopsDone(joining)

DumpsInv ==
    /\ {dumpCounts, waiting, running} \subseteq [Kinds -> Nat]
    /\ IsFiniteSet(Holders)
    /\ DumpsBounded

PoolInv == Types /\ CurrentInv /\ RowsInv /\ StopInv /\ DumpsInv

\* feed() returns a tracker.
LEMMA FeedTyped ==
    ASSUME PoolAssumption, NEW now \in Nat, NEW t \in Tracker, NEW over \in BOOLEAN
    PROVE  Feed(t, now, over) \in Tracker
<1> DEFINE d == Cooled(t, now)
           c == [d EXCEPT !.run = IF over THEN @ \union {now} ELSE {}]
<1>1. d \in Tracker  BY DEF Cooled, Tracker
<1> HIDE DEF d
<1>2. c \in Tracker /\ now \in Int /\ now + Cooldown \in Int  BY <1>1 DEF Tracker, PoolAssumption
<1>3. Feed(t, now, over) \in
        { [c EXCEPT !.state = "COOLDOWN", !.since = 0, !.until = now + Cooldown, !.fired = now],
          c, Risen(c, now), [c EXCEPT !.state = "OK", !.since = 0] }
  BY DEF Feed, d
<1> HIDE DEF c
<1>4. [c EXCEPT !.state = "COOLDOWN", !.since = 0, !.until = now + Cooldown, !.fired = now] \in Tracker
  BY <1>2 DEF Tracker
<1>5. Risen(c, now) \in Tracker  BY <1>2 DEF Tracker, Risen
<1>6. [c EXCEPT !.state = "OK", !.since = 0] \in Tracker  BY <1>2 DEF Tracker
<1> QED BY <1>2, <1>3, <1>4, <1>5, <1>6

\* What the step of a loop does to the workers.
LoopSet(w, k, loop) == workers' = [workers EXCEPT ![w].loop[k] = loop]
LEMMA LoopShape ==
    ASSUME Types, NEW w \in 1 .. Len(workers), NEW k \in Kinds, NEW loop \in Loop,
           LoopSet(w, k, loop)
    PROVE  /\ workers' \in Seq(Worker) /\ Len(workers') = Len(workers)
           /\ \A v \in 1 .. Len(workers) :
                 /\ workers'[v].name = workers[v].name /\ workers'[v].pid = workers[v].pid
                 /\ workers'[v].stop = workers[v].stop
           /\ \A v \in 1 .. Len(workers), j \in Kinds : workers'[v].loop[j] =
                 IF v = w /\ j = k THEN loop ELSE workers[v].loop[j]
<1> DEFINE x == [workers[w] EXCEPT !.loop[k] = loop]
<1>1. Len(workers) \in Nat /\ \A v \in 1 .. Len(workers) : workers[v] \in Worker
  BY LenProperties, ElementOfSeq DEF Types
<1>2. /\ x \in Worker /\ x.stop = workers[w].stop /\ x.name = workers[w].name
      /\ x.pid = workers[w].pid
      /\ \A j \in Kinds : x.loop[j] = IF j = k THEN loop ELSE workers[w].loop[j]
  BY <1>1 DEF Worker
<1>3. workers' = [workers EXCEPT ![w] = x]  BY DEF LoopSet
<1> HIDE DEF x
<1>4. workers \in Seq(Worker) /\ x \in Worker  BY <1>2 DEF Types
<1>5. /\ workers' \in Seq(Worker) /\ Len(workers') = Len(workers)
      /\ \A v \in 1 .. Len(workers) : workers'[v] = IF v = w THEN x ELSE workers[v]
  BY <1>3, <1>4, ExceptSeq
<1>6. \A v \in 1 .. Len(workers) :
        /\ workers'[v].name = workers[v].name /\ workers'[v].pid = workers[v].pid
        /\ workers'[v].stop = workers[v].stop
        /\ \A j \in Kinds :
              workers'[v].loop[j] = IF v = w /\ j = k THEN loop ELSE workers[v].loop[j]
  <2> TAKE v \in 1 .. Len(workers)
  <2>1. CASE v = w  BY <1>2, <1>5, <2>1
  <2>2. CASE v # w  BY <1>5, <2>2
  <2> QED BY <2>1, <2>2
<1> QED BY <1>5, <1>6

LEMMA LoopStepShape ==
    ASSUME PoolAssumption, Types, NEW w \in 1 .. Len(workers), NEW k \in Kinds, LoopStep(w, k)
    PROVE  /\ workers[w].loop[k].pc # "done"
           /\ \E loop \in Loop : /\ workers' = [workers EXCEPT ![w].loop[k] = loop]
                                 /\ loop.pc = "sample" => ~ Stopped(w)
           /\ UNCHANGED <<current, goneAt, lifecycle, stopping>>
<1> DEFINE l == workers[w].loop[k]
<1>1. l \in Loop /\ clock \in Nat
  <2>1. workers[w] \in Worker /\ clock \in Nat  BY ElementOfSeq DEF Types
  <2> QED BY <2>1 DEF Worker
<1> HIDE DEF l
<1>2. CASE BeginSample(w, k)
  <2>1. [l EXCEPT !.pc = "sample"] \in Loop  BY <1>1 DEF Loop
  <2> QED BY <1>2, <2>1 DEF BeginSample, LoopGoto, stopping, l
<1>3. CASE EndLoop(w, k)
  <2> DEFINE e == [l EXCEPT !.pc = "done", !.tracker = NewTracker]
  <2>1. NewTracker \in Tracker  BY DEF NewTracker, Tracker, Never, PoolAssumption
  <2>2. e \in Loop /\ e.pc = "done"  BY <1>1, <2>1 DEF Loop
  <2>3. workers' = [workers EXCEPT ![w].loop[k] = e] /\ l.pc = "idle"
        /\ UNCHANGED <<current, goneAt, lifecycle, stopping>>
    BY <1>3 DEF EndLoop, LoopGoto, stopping, l
  <2> HIDE DEF e
  <2> QED BY <2>2, <2>3 DEF l
<1>4. CASE SampleWithoutValue(w, k)
  <2>1. [l EXCEPT !.pc = "idle"] \in Loop /\ [l EXCEPT !.pc = "idle"].pc = "idle"  BY <1>1 DEF Loop
  <2> QED BY <1>4, <2>1 DEF SampleWithoutValue, LoopGoto, stopping, l
<1>5. ASSUME NEW over \in BOOLEAN, SampleFed(w, k, over)
      PROVE  /\ l.pc # "done"
             /\ \E loop \in Loop : /\ workers' = [workers EXCEPT ![w].loop[k] = loop]
                                   /\ loop.pc = "sample" => ~ Stopped(w)
             /\ UNCHANGED <<current, goneAt, lifecycle, stopping>>
  <2> DEFINE f == Feed(l.tracker, clock, over)
             e == [pc |-> "idle", tracker |-> f, late |-> IF Stopped(w) THEN l.late + 1 ELSE l.late]
  <2>1. l.tracker \in Tracker /\ l.late \in Nat  BY <1>1 DEF Loop
  <2>2. f \in Tracker  BY <1>1, <2>1, FeedTyped
  <2>3. workers' = [workers EXCEPT ![w].loop[k] = e] /\ l.pc = "sample"
        /\ UNCHANGED <<current, goneAt, lifecycle, stopping>>
    BY <1>5 DEF SampleFed, LoopGoto, stopping, l
  <2> HIDE DEF f
  <2>4. e \in Loop /\ e.pc = "idle"  BY <2>1, <2>2 DEF Loop
  <2> HIDE DEF e
  <2> QED BY <2>3, <2>4
<1> QED BY <1>2, <1>3, <1>4, <1>5 DEF LoopStep, l

\* Both: the loop that steps is the only thing about the workers that changes.
LEMMA LoopEffect ==
    ASSUME PoolAssumption, Types, NEW w \in 1 .. Len(workers), NEW k \in Kinds, LoopStep(w, k)
    PROVE  /\ workers' \in Seq(Worker) /\ Len(workers') = Len(workers)
           /\ \A v \in 1 .. Len(workers) :
                 /\ workers'[v].name = workers[v].name /\ workers'[v].pid = workers[v].pid
                 /\ workers'[v].stop = workers[v].stop
           /\ workers[w].loop[k].pc # "done"
           /\ \E loop \in Loop :
                 /\ loop.pc = "sample" => ~ Stopped(w)
                 /\ \A v \in 1 .. Len(workers), j \in Kinds : workers'[v].loop[j] =
                       IF v = w /\ j = k THEN loop ELSE workers[v].loop[j]
           /\ UNCHANGED <<current, goneAt, lifecycle, stopping>>
<1>1. PICK loop \in Loop : /\ workers' = [workers EXCEPT ![w].loop[k] = loop]
                           /\ loop.pc = "sample" => ~ Stopped(w)
  BY LoopStepShape
<1>2. LoopSet(w, k, loop)  BY <1>1 DEF LoopSet
<1>3. /\ workers' \in Seq(Worker) /\ Len(workers') = Len(workers)
      /\ \A v \in 1 .. Len(workers) :
            /\ workers'[v].name = workers[v].name /\ workers'[v].pid = workers[v].pid
            /\ workers'[v].stop = workers[v].stop
      /\ \A v \in 1 .. Len(workers), j \in Kinds : workers'[v].loop[j] =
            IF v = w /\ j = k THEN loop ELSE workers[v].loop[j]
  BY <1>2, LoopShape
<1>4. workers[w].loop[k].pc # "done" /\ UNCHANGED <<current, goneAt, lifecycle, stopping>>
  BY LoopStepShape
<1> QED BY <1>1, <1>3, <1>4

\* Every element of a finite set is at one place of its list.
LEMMA ListedOnce ==
    ASSUME NEW S, IsFiniteSet(S)
    PROVE  /\ \A i, j \in 1 .. Cardinality(S) : SetToSeq(S)[i] = SetToSeq(S)[j] => i = j
           /\ \A x \in S : \E i \in 1 .. Cardinality(S) : SetToSeq(S)[i] = x
<1> DEFINE D == 1 .. Cardinality(S)
<1>1. Cardinality(S) \in Nat /\ ExistsBijection(D, S)  BY FS_CardinalityType
<1>2. \E f \in [D -> S] : IsInjective(f)
  BY <1>1 DEF ExistsBijection, Bijection, Injection, IsInjective
<1>3. SetToSeq(S) \in [D -> S] /\ IsInjective(SetToSeq(S))  BY <1>2 DEF SetToSeq
<1>4. SetToSeq(S) \in Injection(D, S)  BY <1>3 DEF Injection, IsInjective
<1>5. Cardinality(D) = Cardinality(S)  BY <1>1, FS_Interval
<1>6. SetToSeq(S) \in Surjection(D, S)  BY <1>4, <1>5, FS_Injection
<1> QED BY <1>4, <1>6 DEF Injection, Surjection, IsInjective

\* What reconciling does to the workers.  Those of leaving names are told to
\* stop, the others stay, and each arriving name has one new worker, its current.
Leaving(seen) == Gone(seen) \union {n \in Added(seen) : current[n] # 0}
LEMMA ReconcileShape ==
    ASSUME PoolAssumption, Types, NEW seen \in [Names -> Nat], Reconciled(seen)
    PROVE  /\ Len(workers) \in Nat /\ Len(workers') \in Nat /\ Len(workers') >= Len(workers)
           /\ \A w \in 1 .. Len(workers) :
                 /\ workers'[w].name = workers[w].name /\ workers'[w].pid = workers[w].pid
                 /\ workers'[w].stop <=>
                       workers[w].stop \/ \E n \in Leaving(seen) : current[n] = w
           /\ \A w \in 1 .. Len(workers') : w > Len(workers) =>
                 /\ workers'[w].name \in Added(seen)
                 /\ workers'[w].pid = seen[workers'[w].name]
                 /\ current'[workers'[w].name] = w
           /\ \A n \in Added(seen) :
                 /\ current'[n] \in 1 .. Len(workers') /\ current'[n] > Len(workers)
                 /\ workers'[current'[n]].name = n
           /\ \A n \in Names \ Added(seen) :
                 current'[n] = IF n \in Leaving(seen) THEN 0 ELSE current[n]
           /\ current' \in [Names -> Nat] \/ current \notin [Names -> Nat]
<1> DEFINE leaving == Leaving(seen)
           arriving == Added(seen)
           count == Cardinality(arriving)
           list == SetToSeq(arriving)
           old == [w \in 1 .. Len(workers) |->
                     IF \E n \in leaving : current[n] = w
                     THEN [workers[w] EXCEPT !.stop = TRUE] ELSE workers[w]]
           new == [i \in 1 .. count |->
                     LET n == SetToSeq(arriving)[i] IN NewWorker(n, seen[n])]
           place(n) == CHOOSE i \in 1 .. count : list[i] = n
<1>1. IsFiniteSet(arriving) /\ arriving \subseteq Names  BY FS_Subset DEF PoolAssumption, Added
<1>2. count \in Nat /\ list \in [1 .. count -> arriving]  BY <1>1, Listed
<1>3. /\ \A i, j \in 1 .. count : list[i] = list[j] => i = j
      /\ \A n \in arriving : \E i \in 1 .. count : list[i] = n
  BY <1>1, ListedOnce
<1>4. \A n \in arriving : place(n) \in 1 .. count /\ list[place(n)] = n  BY <1>3
<1>5. \A i \in 1 .. count : place(list[i]) = i
  <2> TAKE i \in 1 .. count
  <2>1. list[i] \in arriving  BY <1>2
  <2>2. place(list[i]) \in 1 .. count /\ list[place(list[i])] = list[i]  BY <2>1, <1>4
  <2> HIDE DEF place, list
  <2> QED BY <2>2, <1>3
<1>6. workers' = old \o new  BY DEF Reconciled, Replaced, Leaving
<1>7. Len(workers) \in Nat /\ \A w \in 1 .. Len(workers) : workers[w] \in Worker
  BY LenProperties, ElementOfSeq DEF Types
<1>8. \A w \in 1 .. Len(workers) :
        /\ old[w] \in Worker /\ old[w].name = workers[w].name /\ old[w].pid = workers[w].pid
        /\ old[w].stop <=> workers[w].stop \/ \E n \in leaving : current[n] = w
  <2> HIDE DEF leaving
  <2> QED BY <1>7 DEF Worker
<1>9. \A i \in 1 .. count : new[i] \in Worker /\ new[i].name = list[i] /\ new[i].pid = seen[list[i]]
  <2> TAKE i \in 1 .. count
  <2>1. list[i] \in Names  BY <1>1, <1>2
  <2>2. new[i] = NewWorker(list[i], seen[list[i]])  OBVIOUS
  <2>3. seen[list[i]] \in Nat  BY <2>1
  <2> HIDE DEF list, new
  <2> QED BY <2>1, <2>2, <2>3, NewLoopTyped DEF NewWorker, Worker
<1>10. /\ current' = [n \in Names |-> IF n \in arriving THEN Len(workers) + place(n)
                                       ELSE IF n \in leaving THEN 0 ELSE current[n]]
  BY DEF Reconciled, Repointed, Leaving
<1> HIDE DEF leaving, arriving, place, list
<1>11. old \in Seq(Worker) /\ Len(old) = Len(workers)  BY <1>7, <1>8
<1>12. new \in Seq(Worker) /\ Len(new) = count  BY <1>2, <1>9
<1> HIDE DEF old, new, count
<1>13. /\ Len(old \o new) = Len(old) + Len(new)
       /\ \A i \in 1 .. Len(old) + Len(new) :
             (old \o new)[i] = IF i <= Len(old) THEN old[i] ELSE new[i - Len(old)]
  BY <1>11, <1>12, ConcatProperties
<1>14. Len(workers') = Len(workers) + count  BY <1>6, <1>11, <1>12, <1>13
<1>15. \A w \in 1 .. Len(workers) : workers'[w] = old[w]
  BY <1>2, <1>6, <1>7, <1>11, <1>12, <1>13
<1>16. \A i \in 1 .. count : workers'[Len(workers) + i] = new[i]
  BY <1>2, <1>6, <1>7, <1>11, <1>12, <1>13
<1>17. \A n \in arriving : current'[n] = Len(workers) + place(n)  BY <1>1, <1>10
<1>18. \A n \in Names \ arriving : current'[n] = IF n \in leaving THEN 0 ELSE current[n]
  BY <1>10
<1>19. \A w \in 1 .. Len(workers') : w > Len(workers) =>
          w - Len(workers) \in 1 .. count /\ w = Len(workers) + (w - Len(workers))
  BY <1>2, <1>7, <1>14
<1>20. \A w \in 1 .. Len(workers') : w > Len(workers) =>
          /\ workers'[w].name \in arriving
          /\ workers'[w].pid = seen[workers'[w].name]
          /\ current'[workers'[w].name] = w
  <2> TAKE w \in 1 .. Len(workers')
  <2> HAVE w > Len(workers)
  <2>1. PICK i \in 1 .. count : w = Len(workers) + i  BY <1>19
  <2>2. workers'[w].name = list[i] /\ workers'[w].pid = seen[list[i]]  BY <2>1, <1>9, <1>16
  <2>3. list[i] \in arriving  BY <1>2
  <2>4. current'[list[i]] = Len(workers) + i  BY <2>3, <1>5, <1>17
  <2> QED BY <2>1, <2>2, <2>3, <2>4
<1>21. \A n \in arriving :
          /\ current'[n] \in 1 .. Len(workers') /\ current'[n] > Len(workers)
          /\ workers'[current'[n]].name = n
  <2> TAKE n \in arriving
  <2>1. place(n) \in 1 .. count /\ list[place(n)] = n  BY <1>4
  <2>2. Len(workers) + place(n) \in 1 .. Len(workers') /\ Len(workers) + place(n) > Len(workers)
    BY <2>1, <1>2, <1>7, <1>14
  <2>3. workers'[Len(workers) + place(n)].name = n  BY <2>1, <1>9, <1>16
  <2> QED BY <2>2, <2>3, <1>17
<1>22. Len(workers') \in Nat /\ Len(workers') >= Len(workers)  BY <1>2, <1>7, <1>14
<1>23. ASSUME current \in [Names -> Nat] PROVE current' \in [Names -> Nat]
  <2>1. \A n \in arriving : current'[n] \in Nat  BY <1>21, <1>22
  <2>2. \A n \in Names \ arriving : current'[n] \in Nat  BY <1>18, <1>23
  <2> QED BY <2>1, <2>2, <1>10
<1> QED BY <1>7, <1>8, <1>15, <1>18, <1>20, <1>21, <1>22, <1>23 DEF leaving, arriving

\* A step that neither adds a worker nor forgets one.
SameWorkers ==
    /\ Len(workers') = Len(workers)
    /\ \A w \in 1 .. Len(workers) :
          /\ workers'[w].name = workers[w].name /\ workers'[w].pid = workers[w].pid
          /\ workers[w].stop => workers'[w].stop
    /\ UNCHANGED <<current, goneAt, lifecycle>>

LEMMA MarkShape ==
    ASSUME Types, StopMarkWorkers
    PROVE  /\ Len(workers') = Len(workers) /\ UNCHANGED <<current, goneAt, lifecycle>>
           /\ \A w \in 1 .. Len(workers) :
                 /\ workers'[w].name = workers[w].name /\ workers'[w].pid = workers[w].pid
                 /\ workers'[w].stop <=> workers[w].stop \/ w \in joining'
                 /\ workers'[w].loop = workers[w].loop
<1>1. Len(workers) \in Nat /\ \A w \in 1 .. Len(workers) : workers[w] \in Worker
  BY LenProperties, ElementOfSeq DEF Types
<1>2. workers' = [w \in 1 .. Len(workers) |->
                    IF w \in joining' THEN [workers[w] EXCEPT !.stop = TRUE] ELSE workers[w]]
  BY DEF StopMarkWorkers
<1>3. \A w \in 1 .. Len(workers) :
        /\ workers'[w].name = workers[w].name /\ workers'[w].pid = workers[w].pid
        /\ workers'[w].stop <=> workers[w].stop \/ w \in joining'
        /\ workers'[w].loop = workers[w].loop
  BY <1>1, <1>2 DEF Worker
<1>4. Len(workers') = Len(workers)  BY <1>1, <1>2
<1> QED BY <1>3, <1>4 DEF StopMarkWorkers

LEMMA PoolSteps ==
    ASSUME PoolAssumption, Types, [Next]_vars
    PROVE  \/ SameWorkers
           \/ \E seen \in [Names -> Nat] : Reconciled(seen)
<1> USE DEF vars, external, pool, stopping, dumping
<1>0. ASSUME UNCHANGED pool PROVE SameWorkers  BY <1>0 DEF SameWorkers
<1>1. CASE UNCHANGED vars  BY <1>0, <1>1
<1>2. CASE \E n \in Names : ProcessStarts(n) \/ ProcessDies(n)
  BY <1>0, <1>2 DEF ProcessStarts, ProcessDies
<1>3. CASE Tick  BY <1>0, <1>3 DEF Tick
<1>4. CASE Start  BY <1>4 DEF Start, Types
<1>5. CASE WatcherStep
  BY <1>0, <1>5 DEF WatcherStep, Discover, DiscoverMisses, DiscoverRaises, Reconcile, WatcherWait, Types
<1>6. CASE StopSetGlobal  BY <1>0, <1>6 DEF StopSetGlobal
<1>7. CASE StopStep
  <2>1. CASE StopMarkWorkers  BY <2>1, MarkShape DEF SameWorkers
  <2> QED BY <1>0, <1>7, <2>1 DEF StopStep, StopJoinWatcher, StopJoinLoops
<1>8. CASE \E w \in 1 .. MaxWorkers, k \in Kinds : LoopStep(w, k)
  <2>1. PICK w \in 1 .. MaxWorkers, k \in Kinds : LoopStep(w, k)  BY <1>8
  <2>2. w \in 1 .. Len(workers)  BY <2>1, LenProperties DEF LoopStep, Types
  <2> QED BY <2>1, <2>2, LoopEffect DEF SameWorkers
<1>9. CASE \E k \in Kinds : DumpStep(k)
  BY <1>0, <1>9 DEF DumpStep, DumpStarts, DumpGivenUp, DumpEnds
<1>10. CASE Ended  BY <1>0, <1>10 DEF Ended
<1> QED BY <1>1, <1>2, <1>3, <1>4, <1>5, <1>6, <1>7, <1>8, <1>9, <1>10 DEF Next

\* The current worker of a name stays the only one not told to stop.
LEMMA CurrentStep ==
    ASSUME PoolAssumption, Types, CurrentInv, [Next]_vars PROVE CurrentInv'
<1>0. /\ current \in [Names -> Nat] /\ Len(workers) \in Nat
      /\ \A n \in Names : current[n] # 0 =>
            current[n] \in 1 .. Len(workers) /\ workers[current[n]].name = n
      /\ \A w \in 1 .. Len(workers) : workers[w].pid # 0 /\ workers[w].name \in Names
      /\ \A w \in 1 .. Len(workers) : ~ workers[w].stop => current[workers[w].name] = w
  <2>1. Len(workers) \in Nat /\ \A w \in 1 .. Len(workers) : workers[w] \in Worker
    BY LenProperties, ElementOfSeq DEF Types
  <2> QED BY <2>1 DEF CurrentInv, OnlyCurrentSamples, Worker
<1>1. CASE SameWorkers
  <2>1. /\ current' = current /\ Len(workers') = Len(workers)
        /\ \A w \in 1 .. Len(workers) :
              /\ workers'[w].name = workers[w].name /\ workers'[w].pid = workers[w].pid
              /\ workers[w].stop => workers'[w].stop
    BY <1>1 DEF SameWorkers
  <2> QED BY <1>0, <2>1 DEF CurrentInv, OnlyCurrentSamples
<1>2. ASSUME NEW seen \in [Names -> Nat], Reconciled(seen) PROVE CurrentInv'
  <2>1. /\ Len(workers') \in Nat /\ Len(workers') >= Len(workers)
        /\ \A w \in 1 .. Len(workers) :
              /\ workers'[w].name = workers[w].name /\ workers'[w].pid = workers[w].pid
              /\ workers'[w].stop <=> workers[w].stop \/ \E n \in Leaving(seen) : current[n] = w
        /\ \A w \in 1 .. Len(workers') : w > Len(workers) =>
              /\ workers'[w].name \in Added(seen)
              /\ workers'[w].pid = seen[workers'[w].name]
              /\ current'[workers'[w].name] = w
        /\ \A n \in Added(seen) :
              /\ current'[n] \in 1 .. Len(workers') /\ current'[n] > Len(workers)
              /\ workers'[current'[n]].name = n
        /\ \A n \in Names \ Added(seen) :
              current'[n] = IF n \in Leaving(seen) THEN 0 ELSE current[n]
        /\ current' \in [Names -> Nat]
    BY <1>0, <1>2, ReconcileShape
  <2>2. \A n \in Added(seen) : n \in Names /\ seen[n] # 0  BY DEF Added
  <2>3. \A n \in Added(seen) : current[n] # 0 => n \in Leaving(seen)  BY DEF Leaving
  <2>4. \A n \in Names : current'[n] # 0 =>
           current'[n] \in 1 .. Len(workers') /\ workers'[current'[n]].name = n
    <3> SUFFICES ASSUME NEW n \in Names, current'[n] # 0
                 PROVE  current'[n] \in 1 .. Len(workers') /\ workers'[current'[n]].name = n
      OBVIOUS
    <3>1. CASE n \in Added(seen)  BY <2>1, <3>1
    <3>2. CASE n \notin Added(seen)
      <4>1. current'[n] = current[n] /\ current[n] # 0  BY <2>1, <3>2
      <4>2. current[n] \in 1 .. Len(workers) /\ workers[current[n]].name = n  BY <4>1, <1>0
      <4>3. current[n] \in 1 .. Len(workers')  BY <4>2, <2>1, <1>0
      <4> QED BY <4>1, <4>2, <4>3, <2>1
    <3> QED BY <3>1, <3>2
  <2>5. \A w \in 1 .. Len(workers') : workers'[w].pid # 0
    <3> TAKE w \in 1 .. Len(workers')
    <3>1. CASE w > Len(workers)  BY <3>1, <2>1, <2>2
    <3>2. CASE ~ w > Len(workers)
      <4>1. w \in 1 .. Len(workers)  BY <3>2, <1>0, <2>1
      <4>2. workers'[w].pid = workers[w].pid  BY <4>1, <2>1
      <4> QED BY <4>1, <4>2, <1>0
    <3> QED BY <3>1, <3>2
  <2>6. \A w \in 1 .. Len(workers') : ~ workers'[w].stop => current'[workers'[w].name] = w
    <3> SUFFICES ASSUME NEW w \in 1 .. Len(workers'), ~ workers'[w].stop
                 PROVE  current'[workers'[w].name] = w
      OBVIOUS
    <3>0. ~ workers'[w].stop  OBVIOUS
    <3>1. CASE w > Len(workers)  BY <3>1, <2>1
    <3>2. CASE ~ w > Len(workers)
      <4>1. w \in 1 .. Len(workers)  BY <3>2, <1>0, <2>1
      <4> DEFINE n == workers[w].name
      <4>2. n \in Names /\ workers'[w].name = n  BY <4>1, <1>0, <2>1
      <4>4. ~ workers[w].stop /\ ~ \E m \in Leaving(seen) : current[m] = w  BY <4>1, <3>0, <2>1
      <4>5. current[n] = w /\ n \notin Leaving(seen)  BY <4>1, <4>4, <1>0
      <4>3. n \notin Added(seen)  BY <4>1, <4>5, <2>3
      <4> QED BY <4>2, <4>3, <4>5, <2>1
    <3> QED BY <3>1, <3>2
  <2> QED BY <2>1, <2>4, <2>5, <2>6 DEF CurrentInv, OnlyCurrentSamples
<1> QED BY <1>1, <1>2, PoolSteps

\* The rows of a name tell one story; a row that follows the last one goes on with it.
Story(rows) ==
    \A i \in 1 .. Len(rows) : IF i = 1 THEN rows[1].event = "new" ELSE Follows(rows[i], rows[i - 1])

LEMMA StoryGoesOn ==
    ASSUME NEW rows \in Seq(LifeRow), NEW r \in LifeRow, Story(rows),
           IF rows = <<>> THEN r.event = "new" ELSE Follows(r, Last(rows))
    PROVE  /\ rows \o <<r>> \in Seq(LifeRow) /\ rows \o <<r>> # <<>>
           /\ Last(rows \o <<r>>) = r /\ Story(rows \o <<r>>)
<1> DEFINE more == rows \o <<r>>
<1>1. Len(rows) \in Nat /\ (rows = <<>> <=> Len(rows) = 0)  BY LenProperties, EmptySeq
<1>2. <<r>> \in Seq(LifeRow) /\ Len(<<r>>) = 1 /\ <<r>>[1] = r  OBVIOUS
<1>3. /\ more \in Seq(LifeRow) /\ Len(more) = Len(rows) + 1
      /\ \A i \in 1 .. Len(rows) : more[i] = rows[i]
      /\ more[Len(rows) + 1] = r
  <2>1. /\ rows \o <<r>> \in Seq(LifeRow) /\ Len(rows \o <<r>>) = Len(rows) + Len(<<r>>)
        /\ \A i \in 1 .. Len(rows) + Len(<<r>>) : (rows \o <<r>>)[i] =
              IF i <= Len(rows) THEN rows[i] ELSE <<r>>[i - Len(rows)]
    BY <1>2, ConcatProperties
  <2> QED BY <2>1, <1>1, <1>2
<1> HIDE DEF more
<1>4. Last(more) = r /\ more # <<>>  BY <1>1, <1>3 DEF Last
<1>5. Story(more)
  <2> SUFFICES ASSUME NEW i \in 1 .. Len(rows) + 1
               PROVE  IF i = 1 THEN more[1].event = "new" ELSE Follows(more[i], more[i - 1])
    BY <1>3 DEF Story
  <2>1. CASE i <= Len(rows)
    <3>1. i \in 1 .. Len(rows) /\ more[i] = rows[i] /\ (i # 1 => more[i - 1] = rows[i - 1])
      BY <1>1, <1>3, <2>1
    <3> QED BY <3>1 DEF Story
  <2>2. CASE ~ i <= Len(rows)
    <3>1. i = Len(rows) + 1 /\ more[i] = r  BY <1>1, <1>3, <2>2
    <3>2. CASE rows = <<>>  BY <3>1, <3>2, <1>1
    <3>3. CASE rows # <<>>
      <4>1. i # 1 /\ more[i - 1] = Last(rows)  BY <3>1, <3>3, <1>1, <1>3 DEF Last
      <4> QED BY <3>1, <3>3, <4>1
    <3> QED BY <3>2, <3>3
  <2> QED BY <2>1, <2>2
<1> QED BY <1>3, <1>4, <1>5 DEF more

\* The rows of a name go on telling its story, whose last pid is its worker's.
NameTold(n) ==
    /\ lifecycle[n] \in Seq(LifeRow) /\ Story(lifecycle[n])
    /\ Pid(n) = IF lifecycle[n] = <<>> THEN 0 ELSE Last(lifecycle[n]).new
    /\ lifecycle[n] # <<>> <=> current[n] # 0 \/ n \in goneAt

LEMMA NameToldStep ==
    ASSUME PoolAssumption, Types, CurrentInv, NEW seen \in [Names -> Nat], Reconciled(seen),
           NEW n \in Names, NameTold(n)
    PROVE  NameTold(n)'
<1>0. /\ current[n] = 0 \/ (current[n] \in 1 .. Len(workers) /\ Pid(n) = workers[current[n]].pid)
      /\ Pid(n) \in Nat /\ (Pid(n) = 0 <=> current[n] = 0)
      /\ seen[n] \in Nat
  <2>1. \A w \in 1 .. Len(workers) : workers[w] \in Worker /\ workers[w].pid # 0
    BY ElementOfSeq DEF Types, CurrentInv
  <2>2. current[n] # 0 => current[n] \in 1 .. Len(workers)  BY DEF CurrentInv
  <2> QED BY <2>1, <2>2 DEF Pid, Worker
<1>1. /\ lifecycle'[n] = lifecycle[n] \o Row(n, seen)
      /\ goneAt' = (goneAt \ Added(seen)) \union Gone(seen)
  BY DEF Reconciled
<1>2. /\ \A w \in 1 .. Len(workers) : workers'[w].pid = workers[w].pid
      /\ \A w \in 1 .. Len(workers') : w > Len(workers) => workers'[w].pid = seen[workers'[w].name]
      /\ n \in Added(seen) => /\ current'[n] \in 1 .. Len(workers') /\ current'[n] > Len(workers)
                              /\ workers'[current'[n]].name = n
      /\ n \notin Added(seen) => current'[n] = IF n \in Leaving(seen) THEN 0 ELSE current[n]
      /\ Len(workers) \in Nat
  BY ReconcileShape
<1>3. CASE n \in Gone(seen)
  <2> DEFINE r == [event |-> "gone", old |-> Pid(n), new |-> 0]
  <2>1. current[n] # 0 /\ seen[n] = 0 /\ n \notin Added(seen) /\ n \in Leaving(seen)
    BY <1>3 DEF Gone, Added, Leaving
  <2>2. Row(n, seen) = <<r>>  BY <1>3 DEF Row
  <2>3. r \in LifeRow  BY <1>0 DEF LifeRow
  <2>4. lifecycle[n] # <<>> /\ Pid(n) = Last(lifecycle[n]).new /\ Pid(n) # 0
    BY <2>1, <1>0 DEF NameTold
  <2>5. Follows(r, Last(lifecycle[n]))  BY <2>4 DEF Follows
  <2>6. current'[n] = 0 /\ Pid(n)' = 0 /\ r.new = 0 /\ n \in goneAt'
    BY <2>1, <1>1, <1>2, <1>3 DEF Pid
  <2> HIDE DEF r
  <2>7. /\ lifecycle'[n] \in Seq(LifeRow) /\ lifecycle'[n] # <<>>
        /\ Last(lifecycle'[n]) = r /\ Story(lifecycle'[n])
    BY <1>1, <2>2, <2>3, <2>4, <2>5, StoryGoesOn DEF NameTold
  <2> QED BY <2>6, <2>7 DEF NameTold
<1>4. CASE n \in Added(seen)
  <2> DEFINE r == IF current[n] # 0 \/ n \in goneAt
                  THEN [event |-> "restart", old |-> Pid(n), new |-> seen[n]]
                  ELSE [event |-> "new", old |-> 0, new |-> seen[n]]
  <2>1. seen[n] # 0 /\ seen[n] # Pid(n) /\ n \notin Gone(seen)
    BY <1>4 DEF Added, Gone
  <2>2. Row(n, seen) = <<r>>  BY <1>4, <2>1 DEF Row
  <2>3. r \in LifeRow /\ r.new = seen[n]  BY <1>0 DEF LifeRow
  <2>4. IF lifecycle[n] = <<>> THEN r.event = "new" ELSE Follows(r, Last(lifecycle[n]))
    BY <2>1, <1>0 DEF NameTold, Follows
  <2>5. current'[n] # 0 /\ Pid(n)' = seen[n]
    <3>1. workers'[current'[n]].pid = seen[n] /\ current'[n] # 0  BY <1>2, <1>4
    <3> QED BY <3>1 DEF Pid
  <2> HIDE DEF r
  <2>6. /\ lifecycle'[n] \in Seq(LifeRow) /\ lifecycle'[n] # <<>>
        /\ Last(lifecycle'[n]) = r /\ Story(lifecycle'[n])
    BY <1>1, <2>2, <2>3, <2>4, StoryGoesOn DEF NameTold
  <2> QED BY <2>3, <2>5, <2>6 DEF NameTold
<1>5. CASE n \notin Gone(seen) /\ n \notin Added(seen)
  <2>1. Row(n, seen) = <<>> /\ n \notin Leaving(seen)  BY <1>5 DEF Row, Leaving
  <2>2. lifecycle'[n] = lifecycle[n]  BY <1>1, <2>1, ConcatEmptySeq DEF NameTold
  <2>3. current'[n] = current[n] /\ (n \in goneAt' <=> n \in goneAt)
    BY <1>1, <1>2, <1>5, <2>1
  <2>4. Pid(n)' = Pid(n)  BY <2>3, <1>0, <1>2 DEF Pid
  <2> QED BY <2>2, <2>3, <2>4 DEF NameTold
<1> QED BY <1>3, <1>4, <1>5

LEMMA RowsByName ==
    RowsInv <=> lifecycle \in [Names -> Seq(LifeRow)] /\ \A n \in Names : NameTold(n)
BY DEF RowsInv, NameTold, LifecycleTellsWorkers, Story

LEMMA RowsByNameNext ==
    RowsInv' <=> lifecycle' \in [Names -> Seq(LifeRow)] /\ \A n \in Names : NameTold(n)'
BY DEF RowsInv, NameTold, LifecycleTellsWorkers, Story

LEMMA RowsStep ==
    ASSUME PoolAssumption, Types, CurrentInv, RowsInv, [Next]_vars PROVE RowsInv'
<1>0. \A n \in Names : NameTold(n)  BY RowsByName
<1>1. CASE SameWorkers
  <2>1. \A n \in Names : Pid(n)' = Pid(n)  BY <1>1 DEF SameWorkers, Pid, CurrentInv
  <2>2. \A n \in Names : NameTold(n)'  BY <1>0, <1>1, <2>1 DEF SameWorkers, NameTold
  <2>3. lifecycle' \in [Names -> Seq(LifeRow)]  BY <1>1 DEF SameWorkers, RowsInv
  <2> QED BY <2>2, <2>3, RowsByNameNext
<1>2. ASSUME NEW seen \in [Names -> Nat], Reconciled(seen) PROVE RowsInv'
  <2>1. \A n \in Names : NameTold(n)'  BY <1>0, <1>2, NameToldStep
  <2>2. lifecycle' = [n \in Names |-> lifecycle[n] \o Row(n, seen)]  BY <1>2 DEF Reconciled
  <2>3. \A n \in Names : lifecycle'[n] \in Seq(LifeRow)  BY <2>1 DEF NameTold
  <2>4. lifecycle' \in [Names -> Seq(LifeRow)]  BY <2>2, <2>3
  <2> QED BY <2>1, <2>4, RowsByNameNext
<1> QED BY <1>1, <1>2, PoolSteps

\* The step of a loop starts no sample after stop() and restarts no loop.
LEMMA StopLoopStep ==
    ASSUME PoolAssumption, Types, StopInv, NEW w \in 1 .. Len(workers), NEW k \in Kinds, LoopStep(w, k)
    PROVE  StopInv'
<1>1. /\ Len(workers') = Len(workers) /\ workers[w].loop[k].pc # "done" /\ UNCHANGED stopping
      /\ \A v \in 1 .. Len(workers) : workers'[v].stop = workers[v].stop
  BY LoopEffect
<1>2. PICK loop \in Loop :
         /\ loop.pc = "sample" => ~ Stopped(w)
         /\ \A v \in 1 .. Len(workers), j \in Kinds : workers'[v].loop[j] =
               IF v = w /\ j = k THEN loop ELSE workers[v].loop[j]
  BY LoopEffect
<1>3. ASSUME Marked PROVE \A v \in 1 .. Len(workers) : \A j \in Kinds :
                             workers'[v].loop[j].pc = "sample" => workers'[v].stop
  <2>1. globalStop  BY <1>3 DEF StopInv, Marked
  <2>2. loop.pc # "sample"  BY <1>2, <2>1 DEF Stopped
  <2> QED BY <1>1, <1>2, <1>3, <2>2 DEF StopInv
<1>4. ASSUME stopper = "stopped", ~ timedOut PROVE \A v \in joining : \A j \in Kinds :
                                                      workers'[v].loop[j].pc = "done"
  <2>1. Marked /\ joining \subseteq 1 .. Len(workers)  BY <1>4 DEF StopInv, Marked
  <2>2. \A v \in joining : \A j \in Kinds : workers[v].loop[j].pc = "done"
    BY <1>4 DEF StopInv, LoopsDone
  <2> QED BY <2>1, <2>2, <1>1, <1>2
<1> QED BY <1>1, <1>3, <1>4 DEF StopInv, Marked, LoopsDone, stopping

\* What stop() established when it marked the workers stays true.
LEMMA StopStepInv ==
    ASSUME PoolAssumption, Types, CurrentInv, StopInv, [Next]_vars PROVE StopInv'
<1> USE DEF vars, external, pool, stopping, dumping
<1>0. ASSUME UNCHANGED <<workers, stopping>> PROVE StopInv'
  BY <1>0 DEF StopInv, Marked, LoopsDone
<1>1. CASE UNCHANGED vars  BY <1>0, <1>1
<1>2. CASE \E n \in Names : ProcessStarts(n) \/ ProcessDies(n)
  BY <1>0, <1>2 DEF ProcessStarts, ProcessDies
<1>3. CASE Tick  BY <1>0, <1>3 DEF Tick
<1>4. CASE Start  BY <1>4 DEF Start, StopInv, Marked
<1>5. CASE WatcherStep
  <2>1. CASE Reconcile
    <3>1. Untouched  BY <2>1, ReconcileUntouched DEF Reconcile, Types
    <3>2. UNCHANGED stopping  BY <2>1 DEF Reconcile
    <3>3. Len(workers) \in Nat /\ Len(workers') \in Nat /\ Len(workers') >= Len(workers)
      BY <3>1, LenProperties DEF Types, Untouched
    <3>4. ASSUME Marked
          PROVE  /\ joining \subseteq 1 .. Len(workers')
                 /\ \A w \in 1 .. Len(workers') : \A k \in Kinds :
                       workers'[w].loop[k].pc = "sample" => workers'[w].stop
      <4>1. joining \subseteq 1 .. Len(workers)  BY <3>4 DEF StopInv
      <4>2. ASSUME NEW w \in 1 .. Len(workers'), NEW k \in Kinds,
                   workers'[w].loop[k].pc = "sample"
            PROVE  workers'[w].stop
        <5>1. CASE w > Len(workers)
          <6>1. workers'[w].loop[k].pc = "idle"  BY <3>1, <5>1 DEF Untouched, NewLoop
          <6> QED BY <6>1, <4>2
        <5>2. CASE ~ w > Len(workers)
          <6>1. w \in 1 .. Len(workers)  BY <5>2, <3>3
          <6>2. workers'[w].loop = workers[w].loop /\ (workers[w].stop => workers'[w].stop)
            BY <3>1, <6>1 DEF Untouched
          <6> QED BY <6>1, <6>2, <4>2, <3>4 DEF StopInv
        <5> QED BY <5>1, <5>2
      <4> QED BY <3>3, <4>1, <4>2
    <3>5. ASSUME stopper = "stopped", ~ timedOut PROVE \A w \in joining : \A k \in Kinds :
                                                          workers'[w].loop[k].pc = "done"
      <4>1. Marked /\ joining \subseteq 1 .. Len(workers)  BY <3>5 DEF StopInv, Marked
      <4> QED BY <3>1, <3>5, <4>1 DEF StopInv, LoopsDone, Untouched
    <3> QED BY <3>2, <3>4, <3>5 DEF StopInv, Marked, LoopsDone
  <2> QED BY <1>0, <1>5, <2>1 DEF WatcherStep, Discover, DiscoverMisses, DiscoverRaises, WatcherWait
<1>6. CASE StopSetGlobal  BY <1>6 DEF StopSetGlobal, StopInv, Marked
<1>7. CASE StopStep
  <2>1. CASE StopMarkWorkers
    <3>1. /\ Len(workers') = Len(workers)
          /\ \A w \in 1 .. Len(workers) :
                workers'[w].stop <=> workers[w].stop \/ w \in joining'
      BY <2>1, MarkShape
    <3>2. joining' = {current[n] : n \in Names} \ {0} /\ stopper' = "joinWatcher"
          /\ globalStop' = globalStop /\ stopper = "mark"
      BY <2>1 DEF StopMarkWorkers
    <3>3. joining' \subseteq 1 .. Len(workers)  BY <3>2 DEF CurrentInv
    <3>4. \A w \in 1 .. Len(workers) : workers'[w].stop
      <4> TAKE w \in 1 .. Len(workers)
      <4>1. CASE workers[w].stop  BY <4>1, <3>1
      <4>2. CASE ~ workers[w].stop
        <5>1. workers[w] \in Worker  BY ElementOfSeq DEF Types
        <5>2. workers[w].name \in Names /\ current[workers[w].name] = w /\ w # 0
          BY <4>2, <5>1 DEF CurrentInv, OnlyCurrentSamples, Worker
        <5>3. w \in joining'  BY <5>2, <3>2
        <5> QED BY <5>3, <3>1
      <4> QED BY <4>1, <4>2
    <3> QED BY <3>1, <3>2, <3>3, <3>4 DEF StopInv, Marked
  <2>2. CASE StopJoinWatcher  BY <2>2 DEF StopJoinWatcher, StopInv, Marked
  <2>3. CASE StopJoinLoops  BY <2>3 DEF StopJoinLoops, StopInv, Marked, LoopsDone
  <2> QED BY <1>7, <2>1, <2>2, <2>3 DEF StopStep
<1>8. CASE \E w \in 1 .. MaxWorkers, k \in Kinds : LoopStep(w, k)
  <2>1. PICK w \in 1 .. MaxWorkers, k \in Kinds : LoopStep(w, k)  BY <1>8
  <2>2. w \in 1 .. Len(workers)  BY <2>1, LenProperties DEF LoopStep, Types
  <2> QED BY <2>1, <2>2, StopLoopStep
<1>9. CASE \E k \in Kinds : DumpStep(k)
  BY <1>0, <1>9 DEF DumpStep, DumpStarts, DumpGivenUp, DumpEnds
<1>10. CASE Ended  BY <1>0, <1>10 DEF Ended
<1> QED BY <1>1, <1>2, <1>3, <1>4, <1>5, <1>6, <1>7, <1>8, <1>9, <1>10 DEF Next

\* A free place of the semaphore is taken by one dump, and given back by one.
LEMMA OneMoreHolder ==
    ASSUME running \in [Kinds -> Nat], IsFiniteSet(Holders), NEW k \in Kinds,
           running' = [running EXCEPT ![k] = @ + 1]
    PROVE  IsFiniteSet(Holders') /\ Cardinality(Holders') = Cardinality(Holders) + 1
<1> DEFINE d == <<k, running[k] + 1>>
<1>1. running[k] \in Nat /\ running'[k] = running[k] + 1 /\ \A j \in Kinds \ {k} : running'[j] = running[j]
  OBVIOUS
<1>2. d \notin Holders  BY <1>1 DEF Holders
<1>3. Holders' = Holders \union {d}
  <2>1. 1 .. running'[k] = (1 .. running[k]) \union {running[k] + 1}  BY <1>1
  <2>2. \A j, i : <<j, i>> \in Holders' <=> <<j, i>> \in Holders \/ <<j, i>> = d
    BY <1>1, <2>1 DEF Holders
  <2>3. \A h \in Holders' : \E j, i : h = <<j, i>>  BY DEF Holders
  <2>4. \A h \in Holders \union {d} : \E j, i : h = <<j, i>>  BY DEF Holders
  <2> HIDE DEF d
  <2> QED BY <2>2, <2>3, <2>4
<1> QED BY <1>2, <1>3, FS_AddElement

LEMMA FewerHolders ==
    ASSUME running \in [Kinds -> Nat], IsFiniteSet(Holders), NEW k \in Kinds, running[k] > 0,
           running' = [running EXCEPT ![k] = @ - 1]
    PROVE  IsFiniteSet(Holders') /\ Cardinality(Holders') <= Cardinality(Holders)
<1>1. running[k] \in Nat /\ running'[k] = running[k] - 1 /\ \A j \in Kinds \ {k} : running'[j] = running[j]
  OBVIOUS
<1>2. \A j \in Kinds : 1 .. running'[j] \subseteq 1 .. running[j]  BY <1>1
<1>3. Holders' \subseteq Holders  BY <1>2 DEF Holders
<1> QED BY <1>3, FS_Subset

\* The caps and the semaphore hold through every step.
LEMMA DumpsStep ==
    ASSUME PoolAssumption, DumpsInv, [Next]_vars PROVE DumpsInv'
<1> USE DEF vars, external, pool, stopping, dumping
<1>a. /\ dumpCounts \in [Kinds -> Nat] /\ waiting \in [Kinds -> Nat] /\ running \in [Kinds -> Nat]
      /\ IsFiniteSet(Holders) /\ Cardinality(Holders) \in Nat
      /\ \A k \in Kinds : dumpCounts[k] <= Cap[k] /\ waiting[k] + running[k] <= dumpCounts[k]
      /\ Cardinality(Holders) <= MaxConcurrent
      /\ MaxConcurrent \in Nat /\ \A k \in Kinds : Cap[k] \in Nat
  BY FS_CardinalityType DEF DumpsInv, DumpsBounded, PoolAssumption
<1>b. ASSUME UNCHANGED running PROVE Holders' = Holders  BY <1>b DEF Holders
<1>0. ASSUME UNCHANGED dumping PROVE DumpsInv'  BY <1>0, <1>b DEF DumpsInv, DumpsBounded
<1>1. CASE UNCHANGED vars  BY <1>0, <1>1
<1>2. CASE \E n \in Names : ProcessStarts(n) \/ ProcessDies(n)
  BY <1>0, <1>2 DEF ProcessStarts, ProcessDies
<1>3. CASE Tick  BY <1>0, <1>3 DEF Tick
<1>4. CASE Start  BY <1>0, <1>4 DEF Start
<1>5. CASE WatcherStep
  BY <1>0, <1>5 DEF WatcherStep, Discover, DiscoverMisses, DiscoverRaises, Reconcile, WatcherWait
<1>6. CASE StopSetGlobal  BY <1>0, <1>6 DEF StopSetGlobal
<1>7. CASE StopStep  BY <1>0, <1>7 DEF StopStep, StopMarkWorkers, StopJoinWatcher, StopJoinLoops
<1>8. CASE \E w \in 1 .. MaxWorkers, k \in Kinds : LoopStep(w, k)
  <2>1. PICK w \in 1 .. MaxWorkers, k \in Kinds : LoopStep(w, k)  BY <1>8
  <2>2. CASE UNCHANGED dumping  BY <2>2, <1>0
  <2>3. CASE \E over \in BOOLEAN : SampleFed(w, k, over)
    <3>1. \/ UNCHANGED dumping
          \/ /\ dumpCounts[k] < Cap[k]
             /\ dumpCounts' = [dumpCounts EXCEPT ![k] = @ + 1]
             /\ waiting' = [waiting EXCEPT ![k] = @ + 1]
             /\ running' = running
      BY <2>3 DEF SampleFed
    <3>2. ASSUME dumpCounts[k] < Cap[k], dumpCounts' = [dumpCounts EXCEPT ![k] = @ + 1],
                 waiting' = [waiting EXCEPT ![k] = @ + 1], running' = running
          PROVE  DumpsInv'
      <4>1. \A j \in Kinds : dumpCounts'[j] = (IF j = k THEN dumpCounts[j] + 1 ELSE dumpCounts[j])
                             /\ waiting'[j] = (IF j = k THEN waiting[j] + 1 ELSE waiting[j])
        BY <3>2, <1>a
      <4>2. dumpCounts' \in [Kinds -> Nat] /\ waiting' \in [Kinds -> Nat]  BY <3>2, <1>a
      <4>3. \A j \in Kinds : dumpCounts'[j] <= Cap[j] /\ waiting'[j] + running'[j] <= dumpCounts'[j]
        BY <3>2, <4>1, <1>a
      <4> QED BY <3>2, <4>2, <4>3, <1>a, <1>b DEF DumpsInv, DumpsBounded
    <3> QED BY <3>1, <3>2, <1>0
  <2> QED BY <2>1, <2>2, <2>3 DEF LoopStep, BeginSample, EndLoop, SampleWithoutValue
<1>9. CASE \E k \in Kinds : DumpStep(k)
  <2>1. PICK k \in Kinds : DumpStep(k)  BY <1>9
  <2>2. CASE DumpStarts(k)
    <3>1. /\ waiting[k] > 0 /\ Cardinality(Holders) < MaxConcurrent
          /\ waiting' = [waiting EXCEPT ![k] = @ - 1] /\ running' = [running EXCEPT ![k] = @ + 1]
          /\ dumpCounts' = dumpCounts
      BY <2>2 DEF DumpStarts, SemaphoreFree
    <3>2. IsFiniteSet(Holders') /\ Cardinality(Holders') = Cardinality(Holders) + 1
      BY <3>1, <1>a, OneMoreHolder
    <3>3. waiting' \in [Kinds -> Nat] /\ running' \in [Kinds -> Nat]  BY <3>1, <1>a
    <3>4. \A j \in Kinds : waiting'[j] + running'[j] <= dumpCounts'[j]  BY <3>1, <1>a
    <3>5. Cardinality(Holders') <= MaxConcurrent  BY <3>1, <3>2, <1>a
    <3> QED BY <3>1, <3>2, <3>3, <3>4, <3>5, <1>a DEF DumpsInv, DumpsBounded
  <2>3. CASE DumpGivenUp(k)
    <3>1. /\ waiting[k] > 0 /\ waiting' = [waiting EXCEPT ![k] = @ - 1]
          /\ dumpCounts' = dumpCounts /\ running' = running
      BY <2>3 DEF DumpGivenUp
    <3>2. waiting' \in [Kinds -> Nat]  BY <3>1, <1>a
    <3>3. \A j \in Kinds : waiting'[j] + running'[j] <= dumpCounts'[j]  BY <3>1, <1>a
    <3> QED BY <3>1, <3>2, <3>3, <1>a, <1>b DEF DumpsInv, DumpsBounded
  <2>4. CASE DumpEnds(k)
    <3>1. /\ running[k] > 0 /\ running' = [running EXCEPT ![k] = @ - 1]
          /\ dumpCounts' = dumpCounts /\ waiting' = waiting
      BY <2>4 DEF DumpEnds
    <3>2. IsFiniteSet(Holders') /\ Cardinality(Holders') <= Cardinality(Holders)
      BY <3>1, <1>a, FewerHolders
    <3>3. running' \in [Kinds -> Nat]  BY <3>1, <1>a
    <3>4. \A j \in Kinds : waiting'[j] + running'[j] <= dumpCounts'[j]  BY <3>1, <1>a
    <3>5. Cardinality(Holders') <= MaxConcurrent
      <4>1. Cardinality(Holders') \in Nat  BY <3>2, FS_CardinalityType
      <4> QED BY <4>1, <3>2, <1>a
    <3> QED BY <3>1, <3>2, <3>3, <3>4, <3>5, <1>a DEF DumpsInv, DumpsBounded
  <2> QED BY <2>1, <2>2, <2>3, <2>4 DEF DumpStep
<1>10. CASE Ended  BY <1>0, <1>10 DEF Ended
<1> QED BY <1>1, <1>2, <1>3, <1>4, <1>5, <1>6, <1>7, <1>8, <1>9, <1>10 DEF Next

LEMMA WorkersTyped == ASSUME PoolAssumption, Types, [Next]_vars PROVE workers' \in Seq(Worker)
<1>1. CASE \E w \in 1 .. Len(workers), k \in Kinds : LoopStep(w, k)
  <2>1. PICK w \in 1 .. Len(workers), k \in Kinds : LoopStep(w, k)  BY <1>1
  <2> QED BY <2>1, LoopEffect
<1> QED BY <1>1, StepKinds DEF Types, Untouched

LEMMA PoolInvInit == ASSUME PoolAssumption, Init PROVE PoolInv
<1>1. workers = <<>> /\ Len(workers) = 0 /\ workers \in Seq(Worker)  BY EmptySeq DEF Init
<1>2. Types
  <2>1. device \in [Names -> Nat]  BY DEF Init
  <2>2. watcher.seen = device  BY DEF Init
  <2>3. clock \in Nat /\ nextPid \in Nat /\ globalStop \in BOOLEAN  BY DEF Init
  <2> QED BY <1>1, <2>1, <2>2, <2>3 DEF Types
<1>3. CurrentInv  BY <1>1 DEF Init, CurrentInv, OnlyCurrentSamples
<1>4. RowsInv
  <2>1. \A n \in Names : lifecycle[n] = <<>> /\ current[n] = 0 /\ n \notin goneAt  BY DEF Init
  <2>2. \A n \in Names : lifecycle[n] \in Seq(LifeRow) /\ Len(lifecycle[n]) = 0
    BY <2>1, EmptySeq
  <2>3. lifecycle \in [Names -> Seq(LifeRow)]  BY <2>2 DEF Init
  <2> QED BY <2>1, <2>2, <2>3 DEF RowsInv, LifecycleTellsWorkers, Pid
<1>5. StopInv  BY DEF Init, StopInv, Marked
<1>6. DumpsInv
  <2>1. Holders = {}  BY DEF Init, Holders
  <2>2. IsFiniteSet(Holders) /\ Cardinality(Holders) = 0  BY <2>1, FS_EmptySet
  <2> QED BY <2>2 DEF Init, DumpsInv, DumpsBounded, PoolAssumption
<1> QED BY <1>2, <1>3, <1>4, <1>5, <1>6 DEF PoolInv

LEMMA PoolInvStep == ASSUME PoolAssumption, PoolInv, [Next]_vars PROVE PoolInv'
<1>1. Types /\ CurrentInv /\ RowsInv /\ StopInv /\ DumpsInv  BY DEF PoolInv
<1>2. Types'  BY <1>1, TypesStep, WorkersTyped DEF Types
<1>3. CurrentInv' /\ RowsInv' /\ StopInv' /\ DumpsInv'
  BY <1>1, CurrentStep, RowsStep, StopStepInv, DumpsStep
<1> QED BY <1>2, <1>3 DEF PoolInv

\* However processes die, restart and are missed, and whenever stop() comes:
\* the lifecycle rows of a name tell its story up to its present worker, no
\* other worker of the name has not been told to stop, what still samples after
\* a stop() whose joins succeeded is a worker that was removed before, and the
\* dumps stay within their caps and their semaphore.
THEOREM PoolIsSound == Spec => []PoolSound
<1>1. Init => PoolInv  BY PoolAssumption, PoolInvInit
<1>2. PoolInv /\ [Next]_vars => PoolInv'  BY PoolAssumption, PoolInvStep
<1>3. PoolInv => PoolSound
  <2> SUFFICES ASSUME PoolInv PROVE PoolSound  OBVIOUS
  <2>1. QuietAfterStop
    <3> SUFFICES ASSUME stopper = "stopped", ~ timedOut, NEW w \in 1 .. Len(workers), NEW k \in Kinds,
                        workers[w].loop[k].pc = "sample"
                 PROVE  Removed(w)
      BY DEF QuietAfterStop
    <3>1. workers[w].stop  BY DEF PoolInv, StopInv, Marked
    <3>2. w \notin joining  BY DEF PoolInv, StopInv, LoopsDone
    <3> QED BY <3>1, <3>2 DEF Removed
  <2> QED BY <2>1 DEF PoolInv, PoolSound, CurrentInv, RowsInv, DumpsInv
<1> QED BY <1>1, <1>2, <1>3, PTL DEF Spec

-----------------------------------------------------------------------------
(* One run of the performance test *)

RunPlaces == {"preflight", "wait", "startPool", "startStatus", "body", "stop", "joinBeat", "stopPool",
              "close", "report", "after", "exited"}
Reasons == {"duration_elapsed", "setup_failed", "adb_unavailable", "wait_timeout", "exception", "own"}
Results == [reason : Reasons \cup {"none"}, exit : Nat, missed : Int]
HourKeys == (0 .. LastHour) \cup {NoHour}
CliType == cli \in [who : Callers, pc : RunPlaces, interrupted : BOOLEAN, raised : {"no", "body", "sigint"},
                    status : Nat, sigints : Nat]
PerfType == perf \in [stopped : BOOLEAN, reason : Reasons, exit : Nat, result : Results, broken : BOOLEAN,
                      pool : {"none", "running", "overrun", "stopped"}]
BeatType == heartbeat \in [at : {"none", "waiting", "writing", "over"}, stop : BOOLEAN,
                           file : {"none", "running", "ended"}, late : BOOLEAN]
SheetType == sheet \in [open : HourKeys, unflushed : Nat, now : 0 .. LastHour, key : [Loops -> HourKeys],
                        file : [0 .. LastHour -> Seq({"header", "row"})]]
RunTypes == CliType /\ PerfType /\ BeatType /\ SheetType

\* The loops write while the pool runs: what is not flushed is of a pool that was
\* not stopped, or not in time.
Idle == \A l \in Loops : sheet.key[l] = NoHour
Reporting == cli.pc \in {"report", "after"} /\ cli.raised # "sigint"
SheetFollowsPool ==
    /\ perf.pool \in {"none", "stopped"} => Idle
    /\ perf.pool = "none" => sheet.unflushed = 0
    /\ Reporting => perf.pool # "running" /\ (perf.pool # "overrun" => sheet.unflushed = 0)
    /\ cli.pc = "close" => perf.pool # "running"
    /\ cli.pc \in {"preflight", "wait", "startPool"} => perf.pool = "none"

\* The heartbeat ends before the pool is stopped, or is late.
BeatFollowsRun ==
    /\ heartbeat.at = "none" => heartbeat.file = "none"
    /\ cli.pc \in {"preflight", "wait", "startPool", "startStatus"} => heartbeat.at = "none"
    /\ cli.pc \in {"stopPool", "close", "report", "after"} =>
          \/ cli.raised = "sigint" \/ heartbeat.late
          \/ heartbeat.at \in {"none", "over"} /\ heartbeat.file # "running"

\* How the run ends is decided before the report is built.
Undone == cli.pc \notin {"after", "exited"}
ExitFollowsRun ==
    /\ Undone => perf.result = NoReport
    /\ Alive /\ cli.who = "cli" => perf.exit = 0
    /\ Alive /\ perf.reason # "duration_elapsed" => perf.exit # 0
    /\ Undone /\ cli.raised = "body" => perf.exit # 0
    /\ cli.pc \in {"preflight", "wait", "startPool", "startStatus", "body"} => cli.raised = "no"
    /\ cli.who = "cli" => cli.raised # "body"
    /\ cli.raised = "sigint" => cli.interrupted
    /\ cli.pc = "after" =>
          /\ perf.result = NoReport => perf.broken
          /\ perf.result # NoReport =>
                /\ cli.raised = "body" => perf.result.exit # 0
                /\ cli.who = "cli" => perf.result.exit = 0

OpenHasHeader == sheet.open # NoHour => sheet.file[sheet.open] # <<>>

PerfRunInv ==
    /\ RunTypes /\ SheetFollowsPool /\ BeatFollowsRun /\ ExitFollowsRun
    /\ OpenHasHeader /\ PerfRunSound

\* What a report misses is what the writer has not flushed.
LEMMA MissedIsUnflushed ==
    ASSUME SheetType
    PROVE  Unread \in Int /\ (sheet.unflushed = 0 => Unread = 0)
<1>1. ASSUME NEW length PROVE RowsUpTo(length) \in Nat
  <2> DEFINE All == (0 .. LastHour) \X (1 .. MaxRows + 2)
             Rows == {p \in All : p[2] <= length[p[1]] /\ sheet.file[p[1]][p[2]] = "row"}
  <2>1. IsFiniteSet(0 .. LastHour) /\ IsFiniteSet(1 .. MaxRows + 2)
    <3>1. LastHour \in Int /\ MaxRows + 2 \in Int
      BY PerfRunAssumption
    <3> QED BY <3>1, FS_Interval
  <2>2. IsFiniteSet(All)
    BY <2>1, FS_Product
  <2>3. IsFiniteSet(Rows)
    BY <2>2, FS_Subset
  <2> HIDE DEF Rows
  <2>4. Cardinality(Rows) \in Nat
    BY <2>3, FS_CardinalityType
  <2> QED BY <2>4 DEF Rows, RowsUpTo
<1>2. Unread \in Int
  BY <1>1 DEF Unread, Written
<1>3. ASSUME sheet.unflushed = 0 PROVE Unread = 0
  <2>1. \A h \in 0 .. LastHour : Lengths[h] \in Nat /\ OnDisk[h] = Lengths[h]
    BY <1>3 DEF Lengths, OnDisk, SheetType
  <2>2. OnDisk = Lengths
    BY <2>1 DEF OnDisk, Lengths
  <2> QED BY <1>1, <2>2 DEF Unread, Written
<1> QED BY <1>2, <1>3

\* The command line and the heartbeat leave the rows alone, the loops all else.
LEMMA RowsStay ==
    ASSUME PerfRunInv, UNCHANGED sheet
    PROVE  SheetType' /\ OpenHasHeader' /\ HeaderOnce' /\ Idle' = Idle
BY DEF PerfRunInv, RunTypes, SheetType, OpenHasHeader, PerfRunSound, HeaderOnce, Idle

LEMMA RunStays ==
    ASSUME PerfRunInv, UNCHANGED <<cli, perf, heartbeat>>
    PROVE  /\ CliType' /\ PerfType' /\ BeatType' /\ BeatFollowsRun' /\ ExitFollowsRun'
           /\ ReportHasRows' /\ StatusEndsLast' /\ ExitTellsRun'
BY DEF PerfRunInv, RunTypes, CliType, PerfType, BeatType, BeatFollowsRun, ExitFollowsRun, Undone, Alive,
       PerfRunSound, ReportHasRows, StatusEndsLast, ExitTellsRun

LEMMA LoopsWriteRows ==
    PerfRunInv /\ (NextHour \/ \E l \in Loops : ReadHour(l) \/ WriteRow(l)) => PerfRunInv'
<1> SUFFICES ASSUME PerfRunInv, NextHour \/ \E l \in Loops : ReadHour(l) \/ WriteRow(l)
             PROVE  PerfRunInv'
  OBVIOUS
<1>u. UNCHANGED <<cli, perf, heartbeat>>
  BY DEF NextHour, ReadHour, WriteRow
<1>r. /\ CliType' /\ PerfType' /\ BeatType' /\ BeatFollowsRun' /\ ExitFollowsRun'
      /\ ReportHasRows' /\ StatusEndsLast' /\ ExitTellsRun'
  BY <1>u, RunStays
<1>t. SheetType /\ SheetFollowsPool /\ OpenHasHeader /\ HeaderOnce
  BY DEF PerfRunInv, RunTypes, PerfRunSound
<1>a. LastHour \in Nat /\ LastHour < NoHour
  BY PerfRunAssumption DEF NoHour
<1>1. CASE NextHour
  <2>1. UNCHANGED <<sheet.open, sheet.unflushed, sheet.key, sheet.file>> /\ SheetType'
    <3>1. sheet' = [sheet EXCEPT !.now = @ + 1] /\ sheet.now + 1 \in 0 .. LastHour
      BY <1>1, <1>t, <1>a DEF NextHour, SheetType
    <3> QED BY <3>1, <1>t DEF SheetType
  <2>2. SheetFollowsPool' /\ OpenHasHeader' /\ HeaderOnce'
    BY <1>u, <2>1, <1>t DEF SheetFollowsPool, OpenHasHeader, HeaderOnce, Idle, Reporting
  <2> QED BY <1>r, <2>1, <2>2 DEF PerfRunInv, RunTypes, PerfRunSound
<1>2. ASSUME NEW l \in Loops, ReadHour(l) PROVE PerfRunInv'
  <2>1. /\ UNCHANGED <<sheet.open, sheet.unflushed, sheet.file>> /\ SheetType'
        /\ perf.pool \in {"running", "overrun"}
    BY <1>2, <1>t DEF ReadHour, SheetType, HourKeys
  <2>2. SheetFollowsPool' /\ OpenHasHeader' /\ HeaderOnce'
    BY <1>u, <2>1, <1>t DEF SheetFollowsPool, OpenHasHeader, HeaderOnce, Reporting
  <2> QED BY <1>r, <2>1, <2>2 DEF PerfRunInv, RunTypes, PerfRunSound
<1>3. ASSUME NEW l \in Loops, WriteRow(l) PROVE PerfRunInv'
  <2> DEFINE h == sheet.key[l]
             batch == IF sheet.open = h THEN sheet.unflushed + 1 ELSE 1
             opened == IF sheet.open = h THEN sheet.file[h] ELSE sheet.file[h] \o Header(h)
  <2>1. /\ Alive /\ h # NoHour
        /\ sheet' = [sheet EXCEPT !.key[l] = NoHour, !.open = h, !.file[h] = Append(opened, "row"),
                              !.unflushed = IF batch >= FlushBatch THEN 0 ELSE batch]
    BY <1>3 DEF WriteRow
  <2>2. h \in 0 .. LastHour
    BY <2>1, <1>t DEF SheetType, HourKeys
  <2>3. sheet.file[h] \in Seq({"header", "row"}) /\ sheet.unflushed \in Nat
    BY <2>2, <1>t DEF SheetType
  <2>4. /\ opened \in Seq({"header", "row"}) /\ opened # <<>>
        /\ \A i \in 1 .. Len(opened) : (opened[i] = "header") = (i = 1)
    <3>1. CASE sheet.file[h] # <<>>
      <4>1. opened = sheet.file[h]
        BY <3>1, <2>3 DEF Header
      <4>2. DOMAIN sheet.file[h] = 1 .. Len(sheet.file[h])
        BY <2>3
      <4>3. \A i \in DOMAIN sheet.file[h] : (sheet.file[h][i] = "header") = (i = 1)
        BY <2>2, <1>t DEF HeaderOnce
      <4> HIDE DEF opened, h
      <4> QED BY <4>1, <4>2, <4>3, <3>1, <2>3
    <3>2. CASE sheet.file[h] = <<>>
      <4>1. sheet.open # h
        BY <3>2, <2>1, <1>t DEF OpenHasHeader
      <4>2. opened = <<"header">>
        BY <3>2, <4>1 DEF Header
      <4>3. /\ Len(<<"header">>) = 1 /\ <<"header">>[1] = "header" /\ <<"header">> # <<>>
            /\ <<"header">> \in Seq({"header", "row"})
        OBVIOUS
      <4> HIDE DEF opened
      <4>4. \A i \in 1 .. Len(opened) : i = 1 /\ opened[i] = "header"
        BY <4>2, <4>3
      <4> QED BY <4>2, <4>3, <4>4
    <3> QED BY <3>1, <3>2
  <2>5. /\ Append(opened, "row") \in Seq({"header", "row"}) /\ Append(opened, "row") # <<>>
        /\ \A i \in 1 .. Len(Append(opened, "row")) :
              (Append(opened, "row")[i] = "header") = (i = 1)
    <3> HIDE DEF opened
    <3>1. /\ Append(opened, "row") \in Seq({"header", "row"}) /\ Len(opened) \in Nat
          /\ Len(Append(opened, "row")) = Len(opened) + 1
          /\ Append(opened, "row")[Len(opened) + 1] = "row"
          /\ \A i \in 1 .. Len(opened) : Append(opened, "row")[i] = opened[i]
      BY <2>4
    <3>2. Len(opened) + 1 # 1 /\ Append(opened, "row") # <<>>
      BY <2>4, <3>1
    <3>3. \A i \in 1 .. Len(opened) + 1 : i \in 1 .. Len(opened) \/ i = Len(opened) + 1
      BY <3>1
    <3>4. ASSUME NEW i \in 1 .. Len(opened) + 1 PROVE (Append(opened, "row")[i] = "header") = (i = 1)
      BY <2>4, <3>1, <3>2, <3>3
    <3> QED BY <3>1, <3>2, <3>4
  <2> HIDE DEF opened
  <2>6. /\ sheet'.open = h /\ sheet'.file = [sheet.file EXCEPT ![h] = Append(opened, "row")]
        /\ sheet'.key = [sheet.key EXCEPT ![l] = NoHour] /\ sheet'.now = sheet.now
        /\ sheet'.unflushed \in Nat /\ SheetType'
    <3>1. batch \in Nat
      BY <2>3
    <3> HIDE DEF batch
    <3>2. (IF batch >= FlushBatch THEN 0 ELSE batch) \in Nat
      BY <3>1
    <3> QED BY <2>1, <2>2, <2>5, <3>2, <1>t DEF SheetType, HourKeys
  <2>7. perf.pool \notin {"none", "stopped"}
    BY <2>1, <1>t DEF SheetFollowsPool, Idle
  <2>8. SheetFollowsPool'
    BY <1>u, <2>7, <1>t DEF SheetFollowsPool, Reporting, PerfRunInv, RunTypes, PerfType
  <2>9. OpenHasHeader' /\ HeaderOnce'
    <3>1. sheet'.file[h] = Append(opened, "row")
          /\ \A g \in (0 .. LastHour) \ {h} : sheet'.file[g] = sheet.file[g]
      BY <2>6, <2>2, <1>t DEF SheetType
    <3>2. DOMAIN Append(opened, "row") = 1 .. Len(Append(opened, "row"))
      BY <2>5
    <3> QED BY <3>1, <3>2, <2>5, <2>6, <1>t DEF OpenHasHeader, HeaderOnce
  <2> QED BY <1>r, <2>6, <2>8, <2>9 DEF PerfRunInv, RunTypes, PerfRunSound
<1> QED BY <1>1, <1>2, <1>3

LEMMA BeatGoesOn == PerfRunInv /\ (BeatWakes \/ BeatWrites) => PerfRunInv'
<1> SUFFICES ASSUME PerfRunInv, BeatWakes \/ BeatWrites PROVE PerfRunInv'
  OBVIOUS
<1>u. UNCHANGED <<cli, perf, sheet>> /\ Alive
  BY DEF BeatWakes, BeatWrites
<1>1. SheetType' /\ OpenHasHeader' /\ HeaderOnce' /\ Idle' = Idle
  BY <1>u, RowsStay
<1>2. BeatType' /\ BeatFollowsRun'
  BY <1>u DEF PerfRunInv, RunTypes, BeatType, BeatFollowsRun, BeatWakes, BeatWrites
<1>3. /\ CliType' /\ PerfType' /\ ExitFollowsRun' /\ ReportHasRows' /\ ExitTellsRun'
  BY <1>u DEF PerfRunInv, RunTypes, CliType, PerfType, ExitFollowsRun, Undone, Alive, PerfRunSound,
       ReportHasRows, ExitTellsRun
<1>4. StatusEndsLast'
  BY <1>u DEF StatusEndsLast, Alive
<1>5. SheetFollowsPool'
  BY <1>u, <1>1 DEF PerfRunInv, SheetFollowsPool, Reporting
<1> QED BY <1>1, <1>2, <1>3, <1>4, <1>5 DEF PerfRunInv, RunTypes, PerfRunSound

\* The steps that drive the run: only the close touches the rows.
Starts == Preflight \/ WaitForProcesses \/ StartPool \/ StartStatus
Body == DurationOver \/ BodyRaises \/ ScriptSetsExit
Stop == StopBegins \/ JoinBeat \/ StopPool \/ BuildReport \/ Leave

LEMMA AbortEnds ==
    ASSUME PerfRunInv, cli.pc \in {"preflight", "wait"}, NEW why \in Reasons, NEW code \in {2, 3},
           Abort(why, code)
    PROVE  PerfRunInv'
<1>1. PICK broken \in BOOLEAN :
          perf' = [perf EXCEPT !.stopped = TRUE, !.reason = why, !.exit = code, !.broken = broken,
                              !.result = IF broken THEN @ ELSE Report(why, code)]
  BY DEF Abort
<1>2. /\ cli' = [cli EXCEPT !.pc = "exited", !.status = IF cli.who = "cli" THEN code ELSE 1]
      /\ UNCHANGED <<heartbeat, sheet>>
  BY DEF Abort, Leaves
<1>t. /\ CliType /\ PerfType /\ BeatType /\ SheetType
      /\ perf.result = NoReport /\ cli.raised = "no" /\ sheet.unflushed = 0 /\ perf.pool = "none"
      /\ heartbeat.at = "none" /\ heartbeat.file = "none" /\ Idle
  BY DEF PerfRunInv, RunTypes, ExitFollowsRun, Undone, SheetFollowsPool, BeatFollowsRun
<1>m. Unread = 0
  BY <1>t, MissedIsUnflushed
<1>r. /\ Report(why, code) \in Results /\ Report(why, code) # NoReport
      /\ Report(why, code).exit = code /\ Report(why, code).missed = 0
  BY <1>m DEF Report, Results, NoReport, Reasons
<1>3. SheetType' /\ OpenHasHeader' /\ HeaderOnce' /\ Idle' = Idle
  BY <1>2, RowsStay
<1>4. CliType' /\ cli'.pc = "exited" /\ cli'.raised = "no" /\ cli'.who = cli.who
      /\ cli'.status = IF cli.who = "cli" THEN code ELSE 1
  <2>1. (IF cli.who = "cli" THEN code ELSE 1) \in Nat
    OBVIOUS
  <2> QED BY <2>1, <1>2, <1>t DEF CliType, RunPlaces
<1>c. why \in Reasons /\ code \in Nat
  OBVIOUS
<1>5. /\ PerfType' /\ perf'.pool = "none" /\ perf'.broken \in BOOLEAN
      /\ (perf'.result = NoReport /\ perf'.broken) \/ (perf'.result = Report(why, code) /\ ~perf'.broken)
  <2>1. CASE broken = TRUE
    <3>1. perf' = [perf EXCEPT !.stopped = TRUE, !.reason = why, !.exit = code, !.broken = TRUE]
      BY <2>1, <1>1, <1>t DEF PerfType
    <3>2. PerfType' /\ perf'.result = perf.result /\ perf'.broken = TRUE /\ perf'.pool = perf.pool
      BY <3>1, <1>c, <1>t DEF PerfType
    <3> QED BY <3>2, <1>t
  <2>2. CASE broken = FALSE
    <3>1. perf' = [perf EXCEPT !.stopped = TRUE, !.reason = why, !.exit = code, !.broken = FALSE,
                               !.result = Report(why, code)]
      BY <2>2, <1>1
    <3>2. /\ PerfType' /\ perf'.result = Report(why, code) /\ perf'.broken = FALSE
          /\ perf'.pool = perf.pool
      BY <3>1, <1>c, <1>r, <1>t DEF PerfType
    <3> QED BY <3>2, <1>t
  <2> QED BY <2>1, <2>2
<1>6. BeatType' /\ BeatFollowsRun' /\ StatusEndsLast'
  BY <1>2, <1>4, <1>t DEF BeatType, BeatFollowsRun, StatusEndsLast
<1>7. SheetFollowsPool'
  BY <1>2, <1>3, <1>4, <1>5, <1>t DEF SheetFollowsPool, Reporting
<1>8. ExitFollowsRun'
  BY <1>4 DEF ExitFollowsRun, Undone, Alive
<1>9. ReportHasRows'
  BY <1>5, <1>r DEF ReportHasRows, NoReport
<1>a. ExitTellsRun'
  BY <1>4, <1>5, <1>r DEF ExitTellsRun
<1> QED BY <1>2, <1>3, <1>4, <1>5, <1>6, <1>7, <1>8, <1>9, <1>a DEF PerfRunInv, RunTypes, PerfRunSound

LEMMA RunStarts == PerfRunInv /\ Starts => PerfRunInv'
<1> SUFFICES ASSUME PerfRunInv, Starts PROVE PerfRunInv'
  OBVIOUS
<1>1. CASE \E code \in {2, 3}, why \in Reasons : cli.pc \in {"preflight", "wait"} /\ Abort(why, code)
  BY <1>1, AbortEnds
<1>2. CASE \/ Step("preflight", "wait") /\ UNCHANGED <<perf, heartbeat, sheet>>
           \/ Step("wait", "startPool") /\ UNCHANGED <<perf, heartbeat, sheet>>
           \/ StartPool
           \/ StartStatus
  <2>u. /\ UNCHANGED sheet
        /\ cli.pc \in {"preflight", "wait", "startPool", "startStatus"}
        /\ cli' = [cli EXCEPT !.pc = cli'.pc]
        /\ \/ cli.pc = "preflight" /\ cli'.pc = "wait" /\ UNCHANGED <<perf, heartbeat>>
           \/ cli.pc = "wait" /\ cli'.pc = "startPool" /\ UNCHANGED <<perf, heartbeat>>
           \/ /\ cli.pc = "startPool" /\ cli'.pc = "startStatus" /\ UNCHANGED heartbeat
              /\ perf' = [perf EXCEPT !.pool = "running"]
           \/ /\ cli.pc = "startStatus" /\ cli'.pc = "body" /\ UNCHANGED perf
              /\ heartbeat' = [heartbeat EXCEPT !.at = "waiting", !.file = "running"]
    BY <1>2 DEF StartPool, StartStatus, Step, PerfRunInv, RunTypes, CliType
  <2>0. SheetType' /\ OpenHasHeader' /\ HeaderOnce' /\ Idle' = Idle
    BY <2>u, RowsStay
  <2>t. CliType /\ PerfType /\ BeatType
    BY DEF PerfRunInv, RunTypes
  <2>1. CliType' /\ UNCHANGED <<cli.who, cli.raised, cli.interrupted, cli.status>>
    BY <2>u, <2>t DEF CliType, RunPlaces
  <2>2. PerfType' /\ UNCHANGED <<perf.result, perf.exit, perf.reason, perf.broken>>
    BY <2>u, <2>t DEF PerfType
  <2>3. BeatType'
    BY <2>u, <2>t DEF BeatType
  <2>4. BeatFollowsRun' /\ StatusEndsLast'
    BY <2>u, <2>t DEF BeatFollowsRun, StatusEndsLast, Alive, PerfRunInv, BeatType
  <2>5. SheetFollowsPool'
    BY <2>u, <2>0, <2>t DEF PerfRunInv, SheetFollowsPool, Reporting, PerfType
  <2>6. ExitFollowsRun' /\ ReportHasRows' /\ ExitTellsRun'
    BY <2>u, <2>1, <2>2 DEF PerfRunInv, ExitFollowsRun, Undone, Alive, ReportHasRows, ExitTellsRun, NoReport
  <2> QED BY <2>0, <2>1, <2>2, <2>3, <2>4, <2>5, <2>6 DEF PerfRunInv, RunTypes, PerfRunSound
<1> QED
  <2>1. CASE Preflight
    <3>1. {"setup_failed", "adb_unavailable"} \subseteq Reasons
      BY DEF Reasons
    <3>2. CASE cli.pc = "preflight" /\ \E why \in {"setup_failed", "adb_unavailable"} : Abort(why, 2)
      <4>1. PICK why \in {"setup_failed", "adb_unavailable"} : Abort(why, 2)
        BY <3>2
      <4> QED BY <4>1, <3>1, <3>2, <1>1
    <3>3. CASE Step("preflight", "wait") /\ UNCHANGED <<perf, heartbeat, sheet>>
      BY <2>1, <3>3, <1>2
    <3> QED BY <2>1, <3>2, <3>3 DEF Preflight
  <2>2. CASE WaitForProcesses
    <3>1. "wait_timeout" \in Reasons
      BY DEF Reasons
    <3> QED BY <2>2, <3>1, <1>1, <1>2 DEF WaitForProcesses
  <2> QED BY <2>1, <2>2, <1>2 DEF Starts

LEMMA BodyRuns == PerfRunInv /\ Body => PerfRunInv'
<1> SUFFICES ASSUME PerfRunInv, Body PROVE PerfRunInv'
  OBVIOUS
<1>t. CliType /\ PerfType /\ BeatType /\ SheetType
  BY DEF PerfRunInv, RunTypes
<1>u. UNCHANGED <<heartbeat, sheet>>
  BY DEF Body, DurationOver, BodyRaises, ScriptSetsExit
<1>0. SheetType' /\ OpenHasHeader' /\ HeaderOnce' /\ Idle' = Idle
  BY <1>u, RowsStay
<1>1. CASE DurationOver
  <2>1. cli' = [cli EXCEPT !.pc = "stop"] /\ cli.pc = "body" /\ UNCHANGED perf
    BY <1>1 DEF DurationOver, Step
  <2>2. /\ CliType' /\ PerfType' /\ BeatType' /\ cli'.pc = "stop"
        /\ UNCHANGED <<cli.who, cli.raised, cli.interrupted>>
    BY <2>1, <1>u, <1>t DEF CliType, PerfType, BeatType, RunPlaces
  <2>3. BeatFollowsRun' /\ StatusEndsLast' /\ SheetFollowsPool'
    BY <2>1, <2>2, <1>u, <1>0 DEF PerfRunInv, BeatFollowsRun, StatusEndsLast, Alive, SheetFollowsPool, Reporting
  <2>4. ExitFollowsRun' /\ ReportHasRows' /\ ExitTellsRun'
    BY <2>1, <2>2 DEF PerfRunInv, ExitFollowsRun, Undone, Alive, ReportHasRows, ExitTellsRun, NoReport
  <2> QED BY <1>0, <2>2, <2>3, <2>4 DEF PerfRunInv, RunTypes, PerfRunSound
<1>2. CASE BodyRaises
  <2>1. /\ cli' = [cli EXCEPT !.pc = "stop", !.raised = "body"] /\ cli.pc = "body" /\ cli.who = "script"
        /\ perf' = Excepted(perf)
    BY <1>2 DEF BodyRaises
  <2>2. /\ CliType' /\ BeatType' /\ cli'.pc = "stop" /\ cli'.raised = "body" /\ cli'.who = "script"
        /\ UNCHANGED cli.interrupted
    BY <2>1, <1>u, <1>t DEF CliType, BeatType, RunPlaces
  <2>3. /\ PerfType' /\ UNCHANGED <<perf.pool, perf.result>> /\ perf'.exit # 0
    <3>1. CASE perf.reason = "duration_elapsed"
      <4>1. perf' = [perf EXCEPT !.reason = "exception", !.exit = 1]
        BY <2>1, <3>1 DEF Excepted
      <4>2. PerfType' /\ perf'.exit = 1 /\ perf'.pool = perf.pool /\ perf'.result = perf.result
        BY <4>1, <1>t DEF PerfType, Reasons
      <4> QED BY <4>2
    <3>2. CASE perf.reason # "duration_elapsed"
      <4>1. perf' = perf /\ perf.exit # 0
        BY <2>1, <3>2 DEF Excepted, PerfRunInv, ExitFollowsRun, Alive
      <4> QED BY <4>1, <1>t DEF PerfType
    <3> QED BY <3>1, <3>2
  <2>4. BeatFollowsRun' /\ StatusEndsLast' /\ SheetFollowsPool'
    BY <2>2, <2>3, <1>u, <1>0, <2>1
       DEF PerfRunInv, BeatFollowsRun, StatusEndsLast, Alive, SheetFollowsPool, Reporting
  <2>5. ExitFollowsRun' /\ ReportHasRows' /\ ExitTellsRun'
    BY <2>1, <2>2, <2>3 DEF PerfRunInv, ExitFollowsRun, Undone, Alive, ReportHasRows, ExitTellsRun, NoReport
  <2> QED BY <1>0, <2>2, <2>3, <2>4, <2>5 DEF PerfRunInv, RunTypes, PerfRunSound
<1>3. CASE ScriptSetsExit
  <2>1. UNCHANGED cli /\ cli.who = "script"
    BY <1>3 DEF ScriptSetsExit
  <2>2. CliType' /\ BeatType' /\ BeatFollowsRun' /\ StatusEndsLast'
    BY <2>1, <1>u, <1>t DEF CliType, BeatType, PerfRunInv, BeatFollowsRun, PerfRunSound, StatusEndsLast,
       Alive
  <2>3. CASE cli.pc = "body" /\ perf' = [perf EXCEPT !.exit = 5, !.reason = "own"]
    <3>1. PerfType' /\ perf'.exit = 5 /\ UNCHANGED <<perf.pool, perf.result>>
      BY <2>3, <1>t DEF PerfType, Reasons
    <3>2. SheetFollowsPool' /\ ExitFollowsRun' /\ ReportHasRows' /\ ExitTellsRun'
      BY <3>1, <2>1, <2>3, <1>u, <1>0 DEF PerfRunInv, SheetFollowsPool, Reporting, ExitFollowsRun,
         Undone, Alive, ReportHasRows, ExitTellsRun, NoReport
    <3> QED BY <1>0, <2>2, <3>1, <3>2 DEF PerfRunInv, RunTypes, PerfRunSound
  <2>4. CASE /\ cli.pc = "after" /\ cli.raised = "no"
             /\ perf' = [perf EXCEPT !.exit = 5, !.reason = "own", !.result = Report("own", 5)]
    <3>m. Unread \in Int /\ (perf.pool # "overrun" => Unread = 0)
      BY <2>4, <1>t, MissedIsUnflushed DEF PerfRunInv, SheetFollowsPool, Reporting
    <3>r. /\ Report("own", 5) \in Results /\ Report("own", 5) # NoReport
          /\ Report("own", 5).missed = Unread
      BY <3>m DEF Report, Results, NoReport, Reasons
    <3>1. PerfType' /\ perf'.exit = 5 /\ UNCHANGED <<perf.pool, perf.broken>>
          /\ perf'.result = Report("own", 5)
      BY <2>4, <3>r, <1>t DEF PerfType, Reasons
    <3>2. SheetFollowsPool' /\ ExitFollowsRun' /\ ExitTellsRun'
      BY <3>1, <3>r, <2>1, <2>4, <1>u, <1>0 DEF PerfRunInv, SheetFollowsPool, Reporting, ExitFollowsRun,
         Undone, Alive, ExitTellsRun
    <3>3. ReportHasRows'
      BY <3>1, <3>r, <3>m DEF ReportHasRows
    <3> QED BY <1>0, <2>2, <3>1, <3>2, <3>3 DEF PerfRunInv, RunTypes, PerfRunSound
  <2> QED BY <1>3, <2>3, <2>4 DEF ScriptSetsExit
<1> QED BY <1>1, <1>2, <1>3 DEF Body

LEMMA StopRuns == PerfRunInv /\ Stop => PerfRunInv'
<1> SUFFICES ASSUME PerfRunInv, Stop PROVE PerfRunInv'
  OBVIOUS
<1>t. CliType /\ PerfType /\ BeatType /\ SheetType
  BY DEF PerfRunInv, RunTypes
<1>u. UNCHANGED sheet
  BY DEF Stop, StopBegins, JoinBeat, StopPool, BuildReport, Leave
<1>0. SheetType' /\ OpenHasHeader' /\ HeaderOnce' /\ Idle' = Idle
  BY <1>u, RowsStay
<1>1. CASE StopBegins
  <2>1. /\ cli' = [cli EXCEPT !.pc = "joinBeat"] /\ cli.pc = "stop"
        /\ perf' = [perf EXCEPT !.stopped = TRUE] /\ heartbeat' = [heartbeat EXCEPT !.stop = TRUE]
    BY <1>1 DEF StopBegins, Step
  <2>2. CliType' /\ cli'.pc = "joinBeat" /\ UNCHANGED <<cli.who, cli.raised, cli.interrupted>>
    BY <2>1, <1>t DEF CliType, RunPlaces
  <2>3. PerfType' /\ UNCHANGED <<perf.reason, perf.exit, perf.pool, perf.result, perf.broken>>
    BY <2>1, <1>t DEF PerfType
  <2>4. BeatType' /\ UNCHANGED <<heartbeat.at, heartbeat.file, heartbeat.late>>
    BY <2>1, <1>t DEF BeatType
  <2>5. BeatFollowsRun' /\ StatusEndsLast' /\ SheetFollowsPool'
    BY <2>1, <2>2, <2>3, <2>4, <1>u, <1>0
       DEF PerfRunInv, BeatFollowsRun, StatusEndsLast, Alive, SheetFollowsPool, Reporting
  <2>6. ExitFollowsRun' /\ ReportHasRows' /\ ExitTellsRun'
    BY <2>1, <2>2, <2>3 DEF PerfRunInv, ExitFollowsRun, Undone, Alive, ReportHasRows, ExitTellsRun, NoReport
  <2> QED BY <1>0, <2>2, <2>3, <2>4, <2>5, <2>6 DEF PerfRunInv, RunTypes, PerfRunSound
<1>2. CASE JoinBeat
  <2>1. /\ cli' = [cli EXCEPT !.pc = "stopPool"] /\ cli.pc = "joinBeat" /\ heartbeat.at # "waiting"
        /\ heartbeat' = [heartbeat EXCEPT !.file = EndedFile, !.late = @ \/ heartbeat.at = "writing"]
        /\ UNCHANGED perf
    BY <1>2 DEF JoinBeat, Step
  <2>2. CliType' /\ cli'.pc = "stopPool" /\ UNCHANGED <<cli.who, cli.raised, cli.interrupted>>
    BY <2>1, <1>t DEF CliType, RunPlaces
  <2>3. BeatType' /\ heartbeat'.file = EndedFile /\ UNCHANGED heartbeat.at
    BY <2>1, <1>t DEF BeatType, EndedFile
  <2>4. heartbeat.at = "writing" => heartbeat'.late
    BY <2>1, <1>t DEF BeatType
  <2>5. BeatFollowsRun'
    BY <2>1, <2>2, <2>3, <2>4, <1>t DEF PerfRunInv, BeatFollowsRun, BeatType, EndedFile
  <2>6. PerfType' /\ StatusEndsLast' /\ SheetFollowsPool'
    BY <2>1, <2>2, <1>u, <1>0, <1>t
       DEF PerfRunInv, StatusEndsLast, Alive, SheetFollowsPool, Reporting, PerfType
  <2>7. ExitFollowsRun' /\ ReportHasRows' /\ ExitTellsRun'
    BY <2>1, <2>2 DEF PerfRunInv, ExitFollowsRun, Undone, Alive, ReportHasRows, ExitTellsRun, NoReport
  <2> QED BY <1>0, <2>2, <2>3, <2>5, <2>6, <2>7 DEF PerfRunInv, RunTypes, PerfRunSound
<1>3. CASE StopPool
  <2>1. /\ cli' = [cli EXCEPT !.pc = "close"] /\ cli.pc = "stopPool" /\ UNCHANGED heartbeat
        /\ perf' = [perf EXCEPT !.pool = perf'.pool]
        /\ \/ perf.pool = "none" /\ perf'.pool = "none"
           \/ perf.pool = "running" /\ perf'.pool = "overrun"
           \/ perf.pool = "running" /\ perf'.pool = "stopped" /\ Idle
    BY <1>3, <1>t DEF StopPool, Step, PerfType, Idle
  <2>2. CliType' /\ cli'.pc = "close" /\ UNCHANGED <<cli.who, cli.raised, cli.interrupted>>
    BY <2>1, <1>t DEF CliType, RunPlaces
  <2>3. PerfType' /\ UNCHANGED <<perf.reason, perf.exit, perf.result, perf.broken>>
    BY <2>1, <1>t DEF PerfType
  <2>4. BeatType' /\ BeatFollowsRun' /\ StatusEndsLast'
    BY <2>1, <2>2, <1>t DEF PerfRunInv, BeatType, BeatFollowsRun, StatusEndsLast, Alive
  <2>5. SheetFollowsPool'
    BY <2>1, <2>2, <1>u, <1>0 DEF PerfRunInv, SheetFollowsPool, Reporting
  <2>6. ExitFollowsRun' /\ ReportHasRows' /\ ExitTellsRun'
    BY <2>1, <2>2, <2>3 DEF PerfRunInv, ExitFollowsRun, Undone, Alive, ReportHasRows, ExitTellsRun, NoReport
  <2> QED BY <1>0, <2>2, <2>3, <2>4, <2>5, <2>6 DEF PerfRunInv, RunTypes, PerfRunSound
<1>4. CASE BuildReport
  <2>0. cli.pc = "report" /\ UNCHANGED heartbeat /\ perf.result = NoReport
    BY <1>4 DEF BuildReport, PerfRunInv, ExitFollowsRun, Undone
  <2>1. CASE /\ perf' = [perf EXCEPT !.result = Report(perf.reason, perf.exit)]
             /\ cli' = [cli EXCEPT !.pc = "after"]
    <3>1. CliType' /\ cli'.pc = "after" /\ UNCHANGED <<cli.who, cli.raised, cli.interrupted>>
      BY <2>1, <1>t DEF CliType, RunPlaces
    <3>m. Unread \in Int /\ (cli.raised # "sigint" /\ perf.pool # "overrun" => Unread = 0)
      BY <2>0, <1>t, MissedIsUnflushed DEF PerfRunInv, SheetFollowsPool, Reporting
    <3>r. /\ Report(perf.reason, perf.exit) \in Results /\ Report(perf.reason, perf.exit) # NoReport
          /\ Report(perf.reason, perf.exit).missed = Unread
          /\ Report(perf.reason, perf.exit).exit = perf.exit
      BY <3>m, <1>t DEF Report, Results, NoReport, Reasons, PerfType
    <3>2. /\ PerfType' /\ UNCHANGED <<perf.reason, perf.exit, perf.pool, perf.broken>>
          /\ perf'.result = Report(perf.reason, perf.exit)
      BY <2>1, <3>r, <1>t DEF PerfType
    <3>3. BeatType' /\ BeatFollowsRun' /\ StatusEndsLast' /\ SheetFollowsPool'
      BY <2>0, <3>1, <3>2, <1>t, <1>u, <1>0 DEF PerfRunInv, BeatType, BeatFollowsRun, StatusEndsLast, Alive,
         SheetFollowsPool, Reporting
    <3>4. ExitFollowsRun' /\ ExitTellsRun'
      BY <2>0, <3>1, <3>2, <3>r DEF PerfRunInv, ExitFollowsRun, Undone, Alive, ExitTellsRun
    <3>5. ReportHasRows'
      BY <3>1, <3>2, <3>m, <3>r DEF ReportHasRows
    <3> QED BY <1>0, <3>1, <3>2, <3>3, <3>4, <3>5 DEF PerfRunInv, RunTypes, PerfRunSound
  <2>2. CASE /\ perf' = [perf EXCEPT !.broken = TRUE]
             /\ cli' = [cli EXCEPT !.pc = "after",
                                   !.raised = IF cli.who = "script" /\ @ = "no" THEN "body" ELSE @]
    <3>1. /\ CliType' /\ cli'.pc = "after" /\ UNCHANGED <<cli.who, cli.interrupted>>
          /\ cli'.raised = cli.raised \/ (cli.who = "script" /\ cli.raised = "no" /\ cli'.raised = "body")
      BY <2>2, <1>t DEF CliType, RunPlaces
    <3>2. PerfType' /\ UNCHANGED <<perf.reason, perf.exit, perf.pool, perf.result>> /\ perf'.broken = TRUE
      BY <2>2, <1>t DEF PerfType
    <3>3. BeatType' /\ BeatFollowsRun' /\ StatusEndsLast' /\ SheetFollowsPool'
      BY <2>0, <3>1, <3>2, <1>t, <1>u, <1>0 DEF PerfRunInv, BeatType, BeatFollowsRun, StatusEndsLast, Alive,
         SheetFollowsPool, Reporting
    <3>4. ExitFollowsRun' /\ ReportHasRows' /\ ExitTellsRun'
      BY <2>0, <3>1, <3>2 DEF PerfRunInv, ExitFollowsRun, Undone, Alive, ReportHasRows, ExitTellsRun, NoReport
    <3> QED BY <1>0, <3>1, <3>2, <3>3, <3>4 DEF PerfRunInv, RunTypes, PerfRunSound
  <2> QED BY <1>4, <2>1, <2>2 DEF BuildReport
<1>5. CASE Leave
  <2>1. PICK status \in {0, 1, 2, 130} :
          /\ cli' = [cli EXCEPT !.pc = "exited", !.status = status]
          /\ status \in {0, 2} => cli.raised = "no" /\ ~cli.interrupted
          /\ status = 2 => perf.result = NoReport
          /\ status = 0 => perf.result # NoReport
          /\ status = 1 => cli.raised = "body"
          /\ status = 130 => cli.interrupted
    <3>1. CASE cli.raised = "sigint" \/ cli.interrupted = TRUE
      <4>1. cli' = [cli EXCEPT !.pc = "exited", !.status = 130]
        BY <1>5, <3>1 DEF Leave, Leaves
      <4> QED BY <4>1, <3>1 DEF PerfRunInv, ExitFollowsRun
    <3>2. CASE ~(cli.raised = "sigint" \/ cli.interrupted = TRUE) /\ cli.raised = "body"
      <4>1. cli' = [cli EXCEPT !.pc = "exited", !.status = 1]
        BY <1>5, <3>2, <1>t DEF Leave, Leaves, CliType
      <4> QED BY <4>1, <3>2
    <3>3. CASE ~(cli.raised = "sigint" \/ cli.interrupted = TRUE) /\ cli.raised # "body"
      <4>0. cli.interrupted = FALSE /\ cli.raised = "no"
        BY <3>3, <1>t DEF CliType
      <4>1. CASE perf.result = NoReport
        <5>1. cli' = [cli EXCEPT !.pc = "exited", !.status = 2]
          BY <1>5, <3>3, <4>0, <4>1 DEF Leave, Leaves
        <5> QED BY <5>1, <4>0, <4>1
      <4>2. CASE perf.result # NoReport
        <5>1. cli' = [cli EXCEPT !.pc = "exited", !.status = 0]
          BY <1>5, <3>3, <4>0, <4>2 DEF Leave, Leaves
        <5> QED BY <5>1, <4>0, <4>2
      <4> QED BY <4>1, <4>2
    <3> QED BY <3>1, <3>2, <3>3
  <2>2. cli.pc = "after" /\ UNCHANGED <<perf, heartbeat>>
    BY <1>5 DEF Leave
  <2>3. /\ CliType' /\ cli'.pc = "exited" /\ cli'.status = status
        /\ UNCHANGED <<cli.who, cli.raised, cli.interrupted>>
    <3>1. status \in Nat
      OBVIOUS
    <3> QED BY <3>1, <2>1, <1>t DEF CliType, RunPlaces
  <2>4. PerfType' /\ BeatType' /\ BeatFollowsRun' /\ SheetFollowsPool'
    BY <2>2, <2>3, <1>t, <1>u, <1>0 DEF PerfType, BeatType, PerfRunInv, BeatFollowsRun, SheetFollowsPool,
       Reporting
  <2>5. StatusEndsLast'
    BY <2>2, <2>3 DEF StatusEndsLast, PerfRunInv, BeatFollowsRun
  <2>6. ExitFollowsRun' /\ ReportHasRows'
    BY <2>2, <2>3 DEF PerfRunInv, ExitFollowsRun, Undone, Alive, ReportHasRows, PerfRunSound
  <2>7. ExitTellsRun'
    <3>1. SUFFICES ASSUME ~cli.interrupted
                   PROVE  /\ status \in {0, 2, 3} /\ ~perf.broken => perf.result # NoReport
                          /\ status = 0 => perf.result # NoReport /\ perf.pool # "running"
                          /\ cli.who = "cli" /\ perf.result # NoReport => perf.result.exit = status
                          /\ cli.raised = "body" /\ perf.result # NoReport => perf.result.exit # 0
      BY <2>2, <2>3 DEF ExitTellsRun
    <3>2. perf.result = NoReport => perf.broken
      BY <2>2 DEF PerfRunInv, ExitFollowsRun
    <3>3. perf.result # NoReport => /\ cli.raised = "body" => perf.result.exit # 0
                                    /\ cli.who = "cli" => perf.result.exit = 0
      BY <2>2 DEF PerfRunInv, ExitFollowsRun
    <3>4. status = 0 => perf.result # NoReport /\ perf.pool # "running"
      BY <2>1, <2>2 DEF PerfRunInv, SheetFollowsPool, Reporting
    <3>5. cli.who = "cli" => cli.raised # "body"
      BY DEF PerfRunInv, ExitFollowsRun
    <3>6. cli.who = "cli" /\ perf.result # NoReport => status = 0
      BY <2>1, <3>1, <3>5
    <3> QED BY <3>2, <3>3, <3>4, <3>6
  <2> QED BY <1>0, <2>3, <2>4, <2>5, <2>6, <2>7 DEF PerfRunInv, RunTypes, PerfRunSound
<1> QED BY <1>1, <1>2, <1>3, <1>4, <1>5 DEF Stop

LEMMA WritersClose == PerfRunInv /\ CloseWriters => PerfRunInv'
<1> SUFFICES ASSUME PerfRunInv, CloseWriters PROVE PerfRunInv'
  OBVIOUS
<1>t. CliType /\ PerfType /\ BeatType /\ SheetType
  BY DEF PerfRunInv, RunTypes
<1>1. /\ cli' = [cli EXCEPT !.pc = "report"] /\ cli.pc = "close" /\ UNCHANGED <<perf, heartbeat>>
      /\ sheet' = [sheet EXCEPT !.open = NoHour, !.unflushed = 0]
  BY DEF CloseWriters, Step
<1>2. CliType' /\ cli'.pc = "report" /\ UNCHANGED <<cli.who, cli.raised, cli.interrupted>>
  BY <1>1, <1>t DEF CliType, RunPlaces
<1>3. /\ SheetType' /\ sheet'.open = NoHour /\ sheet'.unflushed = 0
      /\ UNCHANGED <<sheet.key, sheet.file>>
  BY <1>1, <1>t DEF SheetType, HourKeys
<1>4. OpenHasHeader' /\ HeaderOnce' /\ SheetFollowsPool'
  BY <1>1, <1>2, <1>3 DEF PerfRunInv, OpenHasHeader, PerfRunSound, HeaderOnce, SheetFollowsPool, Reporting, Idle
<1>5. PerfType' /\ BeatType' /\ BeatFollowsRun' /\ StatusEndsLast'
  BY <1>1, <1>2, <1>t DEF PerfRunInv, PerfType, BeatType, BeatFollowsRun, StatusEndsLast, Alive
<1>6. ExitFollowsRun' /\ ReportHasRows' /\ ExitTellsRun'
  BY <1>1, <1>2 DEF PerfRunInv, ExitFollowsRun, Undone, Alive, ReportHasRows, ExitTellsRun, NoReport
<1> QED BY <1>2, <1>3, <1>4, <1>5, <1>6 DEF PerfRunInv, RunTypes, PerfRunSound

LEMMA RunIsInterrupted == PerfRunInv /\ Sigint => PerfRunInv'
<1> SUFFICES ASSUME PerfRunInv, Sigint PROVE PerfRunInv'
  OBVIOUS
<1>t. CliType /\ PerfType /\ BeatType /\ SheetType
  BY DEF PerfRunInv, RunTypes
<1>u. UNCHANGED <<heartbeat, sheet>>
  BY DEF Sigint
<1>0. SheetType' /\ OpenHasHeader' /\ HeaderOnce' /\ Idle' = Idle
  BY <1>u, RowsStay
<1>s. cli.sigints + 1 \in Nat /\ 130 \in Nat /\ cli.status \in Nat
  BY <1>t DEF CliType
<1>1. CASE /\ cli.pc \in {"preflight", "wait", "startPool", "startStatus"}
           /\ cli' = [cli EXCEPT !.sigints = @ + 1, !.interrupted = TRUE,
                                !.pc = IF cli.who = "cli" THEN "stop" ELSE "exited",
                                !.status = IF cli.who = "cli" THEN @ ELSE 130]
           /\ UNCHANGED perf
  <2>1. /\ CliType' /\ cli'.pc = (IF cli.who = "cli" THEN "stop" ELSE "exited") /\ cli'.interrupted = TRUE
        /\ UNCHANGED <<cli.who, cli.raised>>
    BY <1>1, <1>s, <1>t DEF CliType, RunPlaces
  <2>2. PerfType' /\ BeatType' /\ BeatFollowsRun' /\ SheetFollowsPool'
    BY <1>1, <2>1, <1>t, <1>u, <1>0 DEF PerfRunInv, PerfType, BeatType, BeatFollowsRun, SheetFollowsPool,
       Reporting
  <2>3. StatusEndsLast' /\ ReportHasRows' /\ ExitTellsRun'
    BY <1>1, <2>1, <1>u DEF PerfRunInv, BeatFollowsRun, StatusEndsLast, ReportHasRows, ExitTellsRun,
       PerfRunSound
  <2>4. ExitFollowsRun'
    BY <1>1, <2>1 DEF PerfRunInv, ExitFollowsRun, Undone, Alive
  <2> QED BY <1>0, <2>1, <2>2, <2>3, <2>4 DEF PerfRunInv, RunTypes, PerfRunSound
<1>2. CASE /\ cli.pc = "body"
           /\ cli' = [cli EXCEPT !.sigints = @ + 1, !.interrupted = TRUE, !.pc = "stop",
                                !.raised = IF cli.who = "cli" THEN @ ELSE "body"]
           /\ perf' = IF cli.who = "cli" THEN perf ELSE Excepted(perf)
  <2>1. /\ CliType' /\ cli'.pc = "stop" /\ cli'.interrupted = TRUE /\ UNCHANGED cli.who
        /\ cli'.raised = IF cli.who = "cli" THEN cli.raised ELSE "body"
    BY <1>2, <1>s, <1>t DEF CliType, RunPlaces
  <2>2. /\ PerfType' /\ UNCHANGED <<perf.pool, perf.result>>
        /\ cli.who = "cli" => UNCHANGED perf
        /\ cli.who # "cli" => perf'.exit # 0
    <3>1. CASE cli.who = "cli"
      BY <1>2, <3>1, <1>t DEF PerfType
    <3>2. CASE cli.who # "cli" /\ perf.reason = "duration_elapsed"
      <4>1. perf' = [perf EXCEPT !.reason = "exception", !.exit = 1]
        BY <1>2, <3>2 DEF Excepted
      <4>2. PerfType' /\ perf'.exit = 1 /\ perf'.pool = perf.pool /\ perf'.result = perf.result
        BY <4>1, <1>t DEF PerfType, Reasons
      <4> QED BY <4>2, <3>2
    <3>3. CASE cli.who # "cli" /\ perf.reason # "duration_elapsed"
      <4>1. perf' = perf /\ perf.exit # 0
        BY <1>2, <3>3 DEF Excepted, PerfRunInv, ExitFollowsRun, Alive
      <4> QED BY <4>1, <3>3, <1>t DEF PerfType
    <3> QED BY <3>1, <3>2, <3>3
  <2>3. BeatType' /\ BeatFollowsRun' /\ SheetFollowsPool'
    BY <1>2, <2>1, <2>2, <1>t, <1>u, <1>0 DEF PerfRunInv, BeatType, BeatFollowsRun, SheetFollowsPool,
       Reporting
  <2>4. StatusEndsLast' /\ ReportHasRows' /\ ExitTellsRun'
    BY <1>2, <2>1, <2>2 DEF StatusEndsLast, Alive, ReportHasRows, ExitTellsRun, PerfRunInv, ExitFollowsRun,
       Undone, NoReport
  <2>5. ExitFollowsRun'
    BY <1>2, <2>1, <2>2 DEF PerfRunInv, ExitFollowsRun, Undone, Alive
  <2> QED BY <1>0, <2>1, <2>2, <2>3, <2>4, <2>5 DEF PerfRunInv, RunTypes, PerfRunSound
<1>3. CASE /\ cli.pc \in {"joinBeat", "stopPool", "close"}
           /\ cli' = [cli EXCEPT !.sigints = @ + 1, !.interrupted = TRUE, !.pc = "report",
                                !.raised = "sigint"]
           /\ UNCHANGED perf
  <2>1. /\ CliType' /\ cli'.pc = "report" /\ cli'.interrupted = TRUE /\ cli'.raised = "sigint"
        /\ UNCHANGED cli.who
    BY <1>3, <1>s, <1>t DEF CliType, RunPlaces
  <2>2. PerfType' /\ BeatType' /\ BeatFollowsRun' /\ SheetFollowsPool'
    BY <1>3, <2>1, <1>t, <1>u, <1>0 DEF PerfRunInv, PerfType, BeatType, BeatFollowsRun, SheetFollowsPool,
       Reporting
  <2>3. StatusEndsLast' /\ ReportHasRows' /\ ExitTellsRun' /\ ExitFollowsRun'
    BY <1>3, <2>1 DEF PerfRunInv, StatusEndsLast, ReportHasRows, ExitTellsRun, ExitFollowsRun, Undone, Alive
  <2> QED BY <1>0, <2>1, <2>2, <2>3 DEF PerfRunInv, RunTypes, PerfRunSound
<1>4. CASE /\ cli.pc = "report"
           /\ cli' = [cli EXCEPT !.sigints = @ + 1, !.interrupted = TRUE, !.pc = "exited",
                                !.raised = "sigint", !.status = 130]
           /\ UNCHANGED perf
  <2>1. /\ CliType' /\ cli'.pc = "exited" /\ cli'.interrupted = TRUE /\ cli'.raised = "sigint"
        /\ UNCHANGED cli.who
    BY <1>4, <1>s, <1>t DEF CliType, RunPlaces
  <2>2. PerfType' /\ BeatType' /\ BeatFollowsRun' /\ SheetFollowsPool'
    BY <1>4, <2>1, <1>t, <1>u, <1>0 DEF PerfRunInv, PerfType, BeatType, BeatFollowsRun, SheetFollowsPool,
       Reporting
  <2>3. StatusEndsLast' /\ ReportHasRows' /\ ExitTellsRun' /\ ExitFollowsRun'
    BY <1>4, <2>1 DEF PerfRunInv, StatusEndsLast, ReportHasRows, ExitTellsRun, ExitFollowsRun, Undone, Alive
  <2> QED BY <1>0, <2>1, <2>2, <2>3 DEF PerfRunInv, RunTypes, PerfRunSound
<1> QED BY <1>1, <1>2, <1>3, <1>4 DEF Sigint

\* For any loops, hours, rows and interrupts: report, CSV files, status file and exit
\* status agree on the run, wherever Ctrl-C or an error met it (PerfTest of api.py
\* under cli.main and a script, StatusWriter, CsvStreamWriter).
THEOREM PerfRunIsSound == PerfRunSpec => []PerfRunSound
<1>1. PerfRunInit => PerfRunInv
  <2> SUFFICES ASSUME PerfRunInit PROVE PerfRunInv
    OBVIOUS
  <2>1. /\ cli.pc = "preflight" /\ cli.raised = "no" /\ CliType
        /\ perf = [stopped |-> FALSE, reason |-> "duration_elapsed", exit |-> 0, pool |-> "none",
                   result |-> NoReport, broken |-> FALSE]
        /\ heartbeat = [at |-> "none", stop |-> FALSE, file |-> "none", late |-> FALSE]
    <3>1. cli \in [who : Callers, pc : {"preflight"}, interrupted : {FALSE}, raised : {"no"},
                   status : {NoStatus}, sigints : {0}]
      BY DEF PerfRunInit
    <3>2. CliType /\ cli.pc = "preflight" /\ cli.raised = "no"
      <4>1. {"preflight"} \subseteq RunPlaces /\ {NoStatus} \subseteq Nat
        BY DEF RunPlaces, NoStatus
      <4>2. cli.pc = "preflight" /\ cli.raised = "no"
        BY <3>1
      <4>3. PICK who \in Callers :
               cli = [who |-> who, pc |-> "preflight", interrupted |-> FALSE, raised |-> "no",
                      status |-> NoStatus, sigints |-> 0]
        BY <3>1
      <4>4. "preflight" \in RunPlaces /\ NoStatus \in Nat
        BY <4>1
      <4>5. CliType
        BY <4>3, <4>4 DEF CliType
      <4> QED BY <4>2, <4>5
    <3> QED BY <3>2 DEF PerfRunInit
  <2>2. PerfType /\ BeatType /\ perf.result.missed = 0
    BY <2>1 DEF PerfType, BeatType, Reasons, Results, NoReport
  <2>3. SheetType /\ OpenHasHeader /\ HeaderOnce /\ Idle /\ sheet.unflushed = 0
    <3>1. sheet = [open |-> NoHour, unflushed |-> 0, now |-> 0, key |-> [l \in Loops |-> NoHour],
                   file |-> [h \in 0 .. LastHour |-> <<>>]]
      BY DEF PerfRunInit
    <3>2. 0 \in 0 .. LastHour
      BY PerfRunAssumption
    <3>3. \A h \in 0 .. LastHour : sheet.file[h] = <<>>
      BY <3>1
    <3>4. DOMAIN <<>> = {}
      OBVIOUS
    <3> QED BY <3>1, <3>2, <3>3, <3>4 DEF SheetType, HourKeys, OpenHasHeader, HeaderOnce, Idle
  <2> QED
    BY <2>1, <2>2, <2>3 DEF PerfRunInv, RunTypes, SheetFollowsPool, Reporting, BeatFollowsRun, ExitFollowsRun,
       Undone, Alive, PerfRunSound, ReportHasRows, StatusEndsLast, ExitTellsRun
<1>2. PerfRunInv /\ [PerfRunNext]_perfRunVars => PerfRunInv'
  <2> SUFFICES ASSUME PerfRunInv, [PerfRunNext]_perfRunVars PROVE PerfRunInv'
    OBVIOUS
  <2>1. CASE UNCHANGED perfRunVars
    <3>1. UNCHANGED <<cli, perf, heartbeat>> /\ UNCHANGED sheet
      BY <2>1 DEF perfRunVars
    <3>2. SheetFollowsPool'
      BY <3>1, RowsStay DEF PerfRunInv, SheetFollowsPool, Reporting
    <3> QED BY <3>1, <3>2, RowsStay, RunStays DEF PerfRunInv, RunTypes, PerfRunSound
  <2> QED
    BY <2>1, RunStarts, BodyRuns, StopRuns, WritersClose, RunIsInterrupted, BeatGoesOn, LoopsWriteRows
       DEF PerfRunNext, Starts, Body, Stop
<1>3. PerfRunInv => PerfRunSound
  BY DEF PerfRunInv
<1> QED
  BY <1>1, <1>2, <1>3, PTL DEF PerfRunSpec
-----------------------------------------------------------------------------
(* The dumps *)

HeapPlaces == {"meminfo", "dump", "poll", "pull", "remove", "status", "write", "fill", "done"}
HeapType == heap \in [pc : HeapPlaces, enabled : BOOLEAN, status : {"skipped", "ok", "fallback"},
                      reason : BOOLEAN, lastSize : Int, polls : Nat, pulled : Nat,
                      stalled : BOOLEAN, late : BOOLEAN, unremoved : BOOLEAN]
RemoteType == remote \in [writing : BOOLEAN, size : Nat, died : BOOLEAN]
LocalType == local \in [meminfo : {Absent, "text"}, parsed : {Absent, "categories"},
                        hprof : {Absent, "heap"}, incident : {Absent, "truncated", "whole"},
                        named : SUBSET {"meminfo", "parsed", "hprof"}]

\* The file on the device is being written, or nobody has begun it, or it is whole,
\* or its writer died; after the dump it is gone, unless adb failed.
RemoteFollowsHeap ==
    /\ remote.writing => remote.size < Whole
    /\ heap.pc \in {"meminfo", "dump"} => ~remote.writing /\ remote.size = 0
    /\ heap.pc \in {"poll", "pull"} =>
          remote.writing \/ remote.died \/ remote.size \in {0, Whole}
    /\ heap.pc \in {"meminfo", "dump", "poll"} => heap.lastSize <= remote.size
    /\ heap.pc \in {"meminfo", "dump", "poll", "pull"} => heap.status = "skipped"
    /\ heap.pc = "pull" =>
          /\ remote.size > 0
          /\ heap.stalled \/ heap.late \/ ~remote.writing
    /\ heap.pc \in {"status", "write", "fill", "done"} /\ ~heap.unremoved =>
          ~remote.writing /\ remote.size = 0

\* The incident names what is there, and nothing changes when it is written.
LocalFollowsHeap ==
    /\ heap.status = "ok" => local.hprof # Absent
    /\ local.incident = "whole" => heap.pc = "done"
    /\ \A f \in local.named : local[f] # Absent
    /\ heap.pc # "done" => local.named = {} /\ report.incident # "found"

HeapInv ==
    /\ HeapType /\ RemoteType /\ LocalType /\ RemoteFollowsHeap /\ LocalFollowsHeap
    /\ HeapIsWhole /\ IncidentNamesFiles

\* A step of the dump; its fields first, then what they say.
LEMMA HeapStepKeeps == HeapInv /\ HeapStep => HeapInv'
<1> SUFFICES ASSUME HeapInv, HeapStep PROVE HeapInv'
  OBVIOUS
<1>0. /\ remote.size \in Nat /\ heap.lastSize \in Int /\ Whole \in Nat \ {0}
      /\ RemoteFollowsHeap /\ LocalFollowsHeap /\ HeapIsWhole /\ IncidentNamesFiles
  BY PerfDumpsAssumption DEF HeapInv, HeapType, RemoteType
<1>1. CASE CaptureMeminfo
  <2>1. /\ heap.pc = "meminfo" /\ heap'.pc = (IF heap.enabled THEN "dump" ELSE "write")
        /\ heap'.status = heap.status /\ heap'.lastSize = heap.lastSize
        /\ heap'.pulled = heap.pulled /\ heap'.stalled = heap.stalled /\ heap'.late = heap.late
        /\ heap'.unremoved = heap.unremoved
    BY <1>1 DEF CaptureMeminfo, HeapGoto, HeapInv, HeapType
  <2>2. HeapType'
    BY <1>1 DEF CaptureMeminfo, HeapGoto, HeapInv, HeapType, HeapPlaces
  <2>3. RemoteType' /\ remote' = remote
    BY <1>1 DEF CaptureMeminfo, HeapGoto, HeapInv, RemoteType
  <2>4. LocalType' /\ local'.named = local.named /\ local'.hprof = local.hprof /\ local'.incident = local.incident
    BY <1>1 DEF CaptureMeminfo, Absent, HeapInv, LocalType
  <2>5. report' = report
    BY <1>1 DEF CaptureMeminfo, HeapGoto, HeapInv
  <2>6. RemoteFollowsHeap' /\ HeapIsWhole'
    BY <1>0, <2>1, <2>3 DEF RemoteFollowsHeap, HeapIsWhole
  <2>7. LocalFollowsHeap' /\ IncidentNamesFiles'
    BY <1>0, <2>1, <2>4, <2>5 DEF LocalFollowsHeap, IncidentNamesFiles, Absent
  <2> QED
    BY <2>2, <2>3, <2>4, <2>6, <2>7 DEF HeapInv
<1>2. CASE DumpHeap
  <2>1. CASE /\ heap' = [heap EXCEPT !.pc = "poll"]
             /\ remote' \in {remote, [remote EXCEPT !.writing = TRUE]}
    <3>1. /\ heap.pc = "dump" /\ heap'.pc = "poll" /\ heap'.status = heap.status
          /\ heap'.lastSize = heap.lastSize /\ heap'.pulled = heap.pulled
          /\ heap'.stalled = heap.stalled /\ heap'.late = heap.late
          /\ heap'.unremoved = heap.unremoved
      BY <1>2, <2>1 DEF DumpHeap, HeapInv, HeapType
    <3>2. HeapType'
      BY <1>2, <2>1 DEF DumpHeap, HeapInv, HeapType, HeapPlaces
    <3>3. RemoteType' /\ remote'.size = remote.size /\ remote'.died = remote.died
      BY <1>2, <2>1 DEF DumpHeap, HeapInv, RemoteType
    <3>4. LocalType' /\ local' = local
      BY <1>2, <2>1 DEF DumpHeap, HeapInv, LocalType
    <3>5. report' = report
      BY <1>2, <2>1 DEF DumpHeap, HeapInv
    <3>6. RemoteFollowsHeap' /\ HeapIsWhole'
      BY <1>0, <3>1, <3>3 DEF RemoteFollowsHeap, HeapIsWhole
    <3>7. LocalFollowsHeap' /\ IncidentNamesFiles'
      BY <1>0, <3>1, <3>4, <3>5 DEF LocalFollowsHeap, IncidentNamesFiles, Absent
    <3> QED
      BY <3>2, <3>3, <3>4, <3>6, <3>7 DEF HeapInv
  <2>2. CASE heap' = [heap EXCEPT !.pc = "status", !.reason = TRUE] /\ UNCHANGED remote
    <3>1. /\ heap.pc = "dump" /\ heap'.pc = "status" /\ heap'.status = heap.status
          /\ heap'.lastSize = heap.lastSize /\ heap'.pulled = heap.pulled
          /\ heap'.stalled = heap.stalled /\ heap'.late = heap.late
          /\ heap'.unremoved = heap.unremoved
      BY <1>2, <2>2 DEF DumpHeap, HeapInv, HeapType
    <3>2. HeapType'
      BY <1>2, <2>2 DEF DumpHeap, HeapInv, HeapType, HeapPlaces
    <3>3. RemoteType' /\ remote' = remote
      BY <1>2, <2>2 DEF DumpHeap, HeapInv, RemoteType
    <3>4. LocalType' /\ local' = local
      BY <1>2, <2>2 DEF DumpHeap, HeapInv, LocalType
    <3>5. report' = report
      BY <1>2, <2>2 DEF DumpHeap, HeapInv
    <3>6. RemoteFollowsHeap' /\ HeapIsWhole'
      BY <1>0, <3>1, <3>3 DEF RemoteFollowsHeap, HeapIsWhole
    <3>7. LocalFollowsHeap' /\ IncidentNamesFiles'
      BY <1>0, <3>1, <3>4, <3>5 DEF LocalFollowsHeap, IncidentNamesFiles, Absent
    <3> QED
      BY <3>2, <3>3, <3>4, <3>6, <3>7 DEF HeapInv
  <2>3. CASE /\ heap' = [heap EXCEPT !.pc = "status", !.reason = TRUE, !.unremoved = TRUE]
             /\ remote' = [remote EXCEPT !.writing = TRUE]
    <3>1. /\ heap.pc = "dump" /\ heap'.pc = "status" /\ heap'.status = heap.status
          /\ heap'.lastSize = heap.lastSize /\ heap'.pulled = heap.pulled
          /\ heap'.stalled = heap.stalled /\ heap'.late = heap.late /\ heap'.unremoved = TRUE
      BY <1>2, <2>3 DEF DumpHeap, HeapInv, HeapType
    <3>2. HeapType'
      BY <1>2, <2>3 DEF DumpHeap, HeapInv, HeapType, HeapPlaces
    <3>3. RemoteType' /\ remote'.size = remote.size /\ remote'.died = remote.died
      BY <1>2, <2>3 DEF DumpHeap, HeapInv, RemoteType
    <3>4. LocalType' /\ local' = local
      BY <1>2, <2>3 DEF DumpHeap, HeapInv, LocalType
    <3>5. report' = report
      BY <1>2, <2>3 DEF DumpHeap, HeapInv
    <3>6. RemoteFollowsHeap' /\ HeapIsWhole'
      BY <1>0, <3>1, <3>3 DEF RemoteFollowsHeap, HeapIsWhole
    <3>7. LocalFollowsHeap' /\ IncidentNamesFiles'
      BY <1>0, <3>1, <3>4, <3>5 DEF LocalFollowsHeap, IncidentNamesFiles, Absent
    <3> QED
      BY <3>2, <3>3, <3>4, <3>6, <3>7 DEF HeapInv
  <2> QED
    BY <1>2, <2>1, <2>2, <2>3 DEF DumpHeap
<1>3. CASE Poll
  <2>1. CASE heap' = [heap EXCEPT !.polls = @ + 1]
    <3>1. /\ heap.pc = "poll" /\ heap'.pc = heap.pc /\ heap'.status = heap.status
          /\ heap'.lastSize = heap.lastSize /\ heap'.pulled = heap.pulled
          /\ heap'.stalled = heap.stalled /\ heap'.late = heap.late
          /\ heap'.unremoved = heap.unremoved
      BY <1>3, <2>1 DEF Poll, HeapInv, HeapType
    <3>2. HeapType'
      BY <1>3, <2>1 DEF Poll, HeapInv, HeapType, HeapPlaces
    <3>3. RemoteType' /\ remote' = remote
      BY <1>3, <2>1 DEF Poll, HeapInv, RemoteType
    <3>4. LocalType' /\ local' = local
      BY <1>3, <2>1 DEF Poll, HeapInv, LocalType
    <3>5. report' = report
      BY <1>3, <2>1 DEF Poll, HeapInv
    <3>6. RemoteFollowsHeap' /\ HeapIsWhole'
      BY <1>0, <3>1, <3>3 DEF RemoteFollowsHeap, HeapIsWhole
    <3>7. LocalFollowsHeap' /\ IncidentNamesFiles'
      BY <1>0, <3>1, <3>4, <3>5 DEF LocalFollowsHeap, IncidentNamesFiles, Absent
    <3> QED
      BY <3>2, <3>3, <3>4, <3>6, <3>7 DEF HeapInv
  <2>2. CASE Stable(remote.size) /\ heap' = Produced(remote.size)
    <3>1. /\ heap.pc = "poll" /\ remote.size > 0 /\ remote.size = heap.lastSize
          /\ heap'.pc = "pull" /\ heap'.status = heap.status /\ heap'.lastSize = heap.lastSize
          /\ heap'.pulled = heap.pulled
          /\ heap'.stalled \/ ~remote.writing
          /\ heap'.late = heap.late /\ heap'.unremoved = heap.unremoved
      BY <1>3, <2>2 DEF Poll, Produced, Stable, HeapInv, HeapType
    <3>2. HeapType'
      BY <1>3, <2>2 DEF Poll, Produced, Stable, HeapInv, HeapType, HeapPlaces
    <3>3. RemoteType' /\ remote' = remote
      BY <1>3, <2>2 DEF Poll, Produced, Stable, HeapInv, RemoteType
    <3>4. LocalType' /\ local' = local
      BY <1>3, <2>2 DEF Poll, Produced, Stable, HeapInv, LocalType
    <3>5. report' = report
      BY <1>3, <2>2 DEF Poll, Produced, Stable, HeapInv
    <3>6. RemoteFollowsHeap' /\ HeapIsWhole'
      BY <1>0, <3>1, <3>3 DEF RemoteFollowsHeap, HeapIsWhole
    <3>7. LocalFollowsHeap' /\ IncidentNamesFiles'
      BY <1>0, <3>1, <3>4, <3>5 DEF LocalFollowsHeap, IncidentNamesFiles, Absent
    <3> QED
      BY <3>2, <3>3, <3>4, <3>6, <3>7 DEF HeapInv
  <2>3. CASE heap' = [heap EXCEPT !.polls = @ + 1, !.lastSize = remote.size]
    <3>1. /\ heap.pc = "poll" /\ heap'.pc = heap.pc /\ heap'.status = heap.status
          /\ heap'.lastSize = remote.size /\ heap'.pulled = heap.pulled
          /\ heap'.stalled = heap.stalled /\ heap'.late = heap.late
          /\ heap'.unremoved = heap.unremoved
      BY <1>3, <2>3 DEF Poll, HeapInv, HeapType
    <3>2. HeapType'
      <4>1. heap.polls + 1 \in Nat /\ remote.size \in Int
        BY <1>0 DEF HeapInv, HeapType
      <4> QED
        BY <2>3, <4>1 DEF HeapInv, HeapType
    <3>3. RemoteType' /\ remote' = remote
      BY <1>3, <2>3 DEF Poll, HeapInv, RemoteType
    <3>4. LocalType' /\ local' = local
      BY <1>3, <2>3 DEF Poll, HeapInv, LocalType
    <3>5. report' = report
      BY <1>3, <2>3 DEF Poll, HeapInv
    <3>6. RemoteFollowsHeap' /\ HeapIsWhole'
      BY <1>0, <3>1, <3>3 DEF RemoteFollowsHeap, HeapIsWhole
    <3>7. LocalFollowsHeap' /\ IncidentNamesFiles'
      BY <1>0, <3>1, <3>4, <3>5 DEF LocalFollowsHeap, IncidentNamesFiles, Absent
    <3> QED
      BY <3>2, <3>3, <3>4, <3>6, <3>7 DEF HeapInv
  <2> QED
    BY <1>3, <2>1, <2>2, <2>3 DEF Poll
<1>4. CASE PollDeadline
  <2>1. CASE heap.lastSize > 0
    <3>1. /\ heap.pc = "poll" /\ heap.lastSize > 0 /\ heap'.pc = "pull"
          /\ heap'.status = heap.status /\ heap'.lastSize = heap.lastSize
          /\ heap'.pulled = heap.pulled
          /\ heap'.stalled = (remote.writing /\ heap.lastSize = heap.lastSize)
          /\ heap'.late = TRUE /\ heap'.unremoved = heap.unremoved
      BY <1>4, <2>1 DEF PollDeadline, Produced, HeapInv, HeapType
    <3>2. HeapType'
      BY <1>4, <2>1 DEF PollDeadline, Produced, HeapInv, HeapType, HeapPlaces
    <3>3. RemoteType' /\ remote' = remote
      BY <1>4, <2>1 DEF PollDeadline, Produced, HeapInv, RemoteType
    <3>4. LocalType' /\ local' = local
      BY <1>4, <2>1 DEF PollDeadline, Produced, HeapInv, LocalType
    <3>5. report' = report
      BY <1>4, <2>1 DEF PollDeadline, Produced, HeapInv
    <3>6. RemoteFollowsHeap' /\ HeapIsWhole'
      BY <1>0, <3>1, <3>3 DEF RemoteFollowsHeap, HeapIsWhole
    <3>7. LocalFollowsHeap' /\ IncidentNamesFiles'
      BY <1>0, <3>1, <3>4, <3>5 DEF LocalFollowsHeap, IncidentNamesFiles, Absent
    <3> QED
      BY <3>2, <3>3, <3>4, <3>6, <3>7 DEF HeapInv
  <2>2. CASE ~ (heap.lastSize > 0)
    <3>1. /\ heap.pc = "poll" /\ heap'.pc = "remove" /\ heap'.status = heap.status
          /\ heap'.lastSize = heap.lastSize /\ heap'.pulled = heap.pulled
          /\ heap'.stalled = heap.stalled /\ heap'.late = TRUE /\ heap'.unremoved = heap.unremoved
      BY <1>4, <2>2 DEF PollDeadline, Produced, HeapInv, HeapType
    <3>2. HeapType'
      BY <1>4, <2>2 DEF PollDeadline, Produced, HeapInv, HeapType, HeapPlaces
    <3>3. RemoteType' /\ remote' = remote
      BY <1>4, <2>2 DEF PollDeadline, Produced, HeapInv, RemoteType
    <3>4. LocalType' /\ local' = local
      BY <1>4, <2>2 DEF PollDeadline, Produced, HeapInv, LocalType
    <3>5. report' = report
      BY <1>4, <2>2 DEF PollDeadline, Produced, HeapInv
    <3>6. RemoteFollowsHeap' /\ HeapIsWhole'
      BY <1>0, <3>1, <3>3 DEF RemoteFollowsHeap, HeapIsWhole
    <3>7. LocalFollowsHeap' /\ IncidentNamesFiles'
      BY <1>0, <3>1, <3>4, <3>5 DEF LocalFollowsHeap, IncidentNamesFiles, Absent
    <3> QED
      BY <3>2, <3>3, <3>4, <3>6, <3>7 DEF HeapInv
  <2> QED
    BY <1>4, <2>1, <2>2 DEF PollDeadline
<1>5. CASE Pull
  <2>1. CASE /\ local' = [local EXCEPT !.hprof = "heap"]
             /\ heap' = [heap EXCEPT !.pc = "remove", !.status = "ok", !.pulled = remote.size]
    <3>1. /\ heap.pc = "pull" /\ heap'.pc = "remove" /\ heap'.status = "ok"
          /\ heap'.lastSize = heap.lastSize /\ heap'.pulled = remote.size
          /\ heap'.stalled = heap.stalled /\ heap'.late = heap.late
          /\ heap'.unremoved = heap.unremoved
      BY <1>5, <2>1 DEF Pull, HeapInv, HeapType
    <3>2. HeapType'
      BY <1>0, <2>1 DEF HeapInv, HeapType, HeapPlaces
    <3>3. RemoteType' /\ remote' = remote
      BY <1>5, <2>1 DEF Pull, HeapInv, RemoteType
    <3>4. LocalType' /\ local'.named = local.named /\ local'.hprof = "heap" /\ local'.incident = local.incident
      BY <1>5, <2>1 DEF Pull, Absent, HeapInv, LocalType
    <3>5. report' = report
      BY <1>5, <2>1 DEF Pull, HeapInv
    <3>6. RemoteFollowsHeap' /\ HeapIsWhole'
      BY <1>0, <3>1, <3>3 DEF RemoteFollowsHeap, HeapIsWhole
    <3>7. LocalFollowsHeap' /\ IncidentNamesFiles'
      BY <1>0, <3>1, <3>4, <3>5 DEF LocalFollowsHeap, IncidentNamesFiles, Absent
    <3> QED
      BY <3>2, <3>3, <3>4, <3>6, <3>7 DEF HeapInv
  <2>2. CASE heap' = [heap EXCEPT !.pc = "remove", !.reason = TRUE] /\ UNCHANGED local
    <3>1. /\ heap.pc = "pull" /\ heap'.pc = "remove" /\ heap'.status = heap.status
          /\ heap'.lastSize = heap.lastSize /\ heap'.pulled = heap.pulled
          /\ heap'.stalled = heap.stalled /\ heap'.late = heap.late
          /\ heap'.unremoved = heap.unremoved
      BY <1>5, <2>2 DEF Pull, HeapInv, HeapType
    <3>2. HeapType'
      BY <1>5, <2>2 DEF Pull, HeapInv, HeapType, HeapPlaces
    <3>3. RemoteType' /\ remote' = remote
      BY <1>5, <2>2 DEF Pull, HeapInv, RemoteType
    <3>4. LocalType' /\ local' = local
      BY <1>5, <2>2 DEF Pull, HeapInv, LocalType
    <3>5. report' = report
      BY <1>5, <2>2 DEF Pull, HeapInv
    <3>6. RemoteFollowsHeap' /\ HeapIsWhole'
      BY <1>0, <3>1, <3>3 DEF RemoteFollowsHeap, HeapIsWhole
    <3>7. LocalFollowsHeap' /\ IncidentNamesFiles'
      BY <1>0, <3>1, <3>4, <3>5 DEF LocalFollowsHeap, IncidentNamesFiles, Absent
    <3> QED
      BY <3>2, <3>3, <3>4, <3>6, <3>7 DEF HeapInv
  <2>3. CASE HeapGoto("pull", "remove") /\ UNCHANGED local
    <3>1. /\ heap.pc = "pull" /\ heap'.pc = "remove" /\ heap'.status = heap.status
          /\ heap'.lastSize = heap.lastSize /\ heap'.pulled = heap.pulled
          /\ heap'.stalled = heap.stalled /\ heap'.late = heap.late
          /\ heap'.unremoved = heap.unremoved
      BY <1>5, <2>3 DEF Pull, HeapGoto, HeapInv, HeapType
    <3>2. HeapType'
      BY <1>5, <2>3 DEF Pull, HeapGoto, HeapInv, HeapType, HeapPlaces
    <3>3. RemoteType' /\ remote' = remote
      BY <1>5, <2>3 DEF Pull, HeapGoto, HeapInv, RemoteType
    <3>4. LocalType' /\ local' = local
      BY <1>5, <2>3 DEF Pull, HeapGoto, HeapInv, LocalType
    <3>5. report' = report
      BY <1>5, <2>3 DEF Pull, HeapGoto, HeapInv
    <3>6. RemoteFollowsHeap' /\ HeapIsWhole'
      BY <1>0, <3>1, <3>3 DEF RemoteFollowsHeap, HeapIsWhole
    <3>7. LocalFollowsHeap' /\ IncidentNamesFiles'
      BY <1>0, <3>1, <3>4, <3>5 DEF LocalFollowsHeap, IncidentNamesFiles, Absent
    <3> QED
      BY <3>2, <3>3, <3>4, <3>6, <3>7 DEF HeapInv
  <2> QED
    BY <1>5, <2>1, <2>2, <2>3 DEF Pull
<1>6. CASE RemoveRemote
  <2>1. CASE heap' = [heap EXCEPT !.pc = "status"] /\ remote' = RemoteGone
    <3>1. /\ heap.pc = "remove" /\ heap'.pc = "status" /\ heap'.status = heap.status
          /\ heap'.lastSize = heap.lastSize /\ heap'.pulled = heap.pulled
          /\ heap'.stalled = heap.stalled /\ heap'.late = heap.late
          /\ heap'.unremoved = heap.unremoved
      BY <1>6, <2>1 DEF RemoveRemote, HeapInv, HeapType
    <3>2. HeapType'
      BY <1>6, <2>1 DEF RemoveRemote, HeapInv, HeapType, HeapPlaces
    <3>3. RemoteType' /\ remote'.size = 0 /\ ~remote'.writing /\ remote'.died = remote.died
      BY <1>6, <2>1 DEF RemoteGone, HeapInv, RemoteType
    <3>4. LocalType' /\ local' = local
      BY <1>6, <2>1 DEF RemoveRemote, HeapInv, LocalType
    <3>5. report' = report
      BY <1>6, <2>1 DEF RemoveRemote, HeapInv
    <3>6. RemoteFollowsHeap' /\ HeapIsWhole'
      BY <1>0, <3>1, <3>3 DEF RemoteFollowsHeap, HeapIsWhole
    <3>7. LocalFollowsHeap' /\ IncidentNamesFiles'
      BY <1>0, <3>1, <3>4, <3>5 DEF LocalFollowsHeap, IncidentNamesFiles, Absent
    <3> QED
      BY <3>2, <3>3, <3>4, <3>6, <3>7 DEF HeapInv
  <2>2. CASE heap' = [heap EXCEPT !.pc = "status", !.unremoved = TRUE] /\ UNCHANGED remote
    <3>1. /\ heap.pc = "remove" /\ heap'.pc = "status" /\ heap'.status = heap.status
          /\ heap'.lastSize = heap.lastSize /\ heap'.pulled = heap.pulled
          /\ heap'.stalled = heap.stalled /\ heap'.late = heap.late /\ heap'.unremoved = TRUE
      BY <1>6, <2>2 DEF RemoveRemote, HeapInv, HeapType
    <3>2. HeapType'
      BY <1>6, <2>2 DEF RemoveRemote, HeapInv, HeapType, HeapPlaces
    <3>3. RemoteType' /\ remote' = remote
      BY <1>6, <2>2 DEF RemoveRemote, HeapInv, RemoteType
    <3>4. LocalType' /\ local' = local
      BY <1>6, <2>2 DEF RemoveRemote, HeapInv, LocalType
    <3>5. report' = report
      BY <1>6, <2>2 DEF RemoveRemote, HeapInv
    <3>6. RemoteFollowsHeap' /\ HeapIsWhole'
      BY <1>0, <3>1, <3>3 DEF RemoteFollowsHeap, HeapIsWhole
    <3>7. LocalFollowsHeap' /\ IncidentNamesFiles'
      BY <1>0, <3>1, <3>4, <3>5 DEF LocalFollowsHeap, IncidentNamesFiles, Absent
    <3> QED
      BY <3>2, <3>3, <3>4, <3>6, <3>7 DEF HeapInv
  <2> QED
    BY <1>6, <2>1, <2>2 DEF RemoveRemote
<1>7. CASE SetStatus
  <2>1. /\ heap.pc = "status" /\ heap'.pc = "write"
        /\ heap'.status = (IF heap.status # "ok" /\ heap.reason THEN "fallback" ELSE heap.status)
        /\ heap'.lastSize = heap.lastSize /\ heap'.pulled = heap.pulled
        /\ heap'.stalled = heap.stalled /\ heap'.late = heap.late
        /\ heap'.unremoved = heap.unremoved
    BY <1>7 DEF SetStatus, HeapInv, HeapType
  <2>2. HeapType'
    BY <1>7 DEF SetStatus, HeapInv, HeapType, HeapPlaces
  <2>3. RemoteType' /\ remote' = remote
    BY <1>7 DEF SetStatus, HeapInv, RemoteType
  <2>4. LocalType' /\ local' = local
    BY <1>7 DEF SetStatus, HeapInv, LocalType
  <2>5. report' = report
    BY <1>7 DEF SetStatus, HeapInv
  <2>6. RemoteFollowsHeap' /\ HeapIsWhole'
    BY <1>0, <2>1, <2>3 DEF RemoteFollowsHeap, HeapIsWhole
  <2>7. LocalFollowsHeap' /\ IncidentNamesFiles'
    BY <1>0, <2>1, <2>4, <2>5 DEF LocalFollowsHeap, IncidentNamesFiles, Absent
  <2> QED
    BY <2>2, <2>3, <2>4, <2>6, <2>7 DEF HeapInv
<1>8. CASE OpenIncident
  <2>1. /\ heap.pc = "write" /\ heap'.pc = "fill" /\ heap'.status = heap.status
        /\ heap'.lastSize = heap.lastSize /\ heap'.pulled = heap.pulled
        /\ heap'.stalled = heap.stalled /\ heap'.late = heap.late
        /\ heap'.unremoved = heap.unremoved
    BY <1>8 DEF OpenIncident, HeapGoto, HeapInv, HeapType
  <2>2. HeapType'
    BY <1>8 DEF OpenIncident, HeapGoto, HeapInv, HeapType, HeapPlaces
  <2>3. RemoteType' /\ remote' = remote
    BY <1>8 DEF OpenIncident, HeapGoto, HeapInv, RemoteType
  <2>4. LocalType' /\ local'.named = local.named /\ local'.hprof = local.hprof /\ local'.incident = "truncated"
    BY <1>8 DEF OpenIncident, HeapInv, LocalType
  <2>5. report' = report
    BY <1>8 DEF OpenIncident, HeapGoto, HeapInv
  <2>6. RemoteFollowsHeap' /\ HeapIsWhole'
    BY <1>0, <2>1, <2>3 DEF RemoteFollowsHeap, HeapIsWhole
  <2>7. LocalFollowsHeap' /\ IncidentNamesFiles'
    BY <1>0, <2>1, <2>4, <2>5 DEF LocalFollowsHeap, IncidentNamesFiles, Absent
  <2> QED
    BY <2>2, <2>3, <2>4, <2>6, <2>7 DEF HeapInv
<1>9. CASE FillIncident
  <2>0. Evidence \subseteq {"meminfo", "parsed", "hprof"} /\ \A f \in Evidence : local[f] # Absent
    BY <1>0 DEF Evidence, Exists, LocalFollowsHeap
  <2>1. /\ heap.pc = "fill" /\ heap'.pc = "done" /\ heap'.status = heap.status
        /\ heap'.lastSize = heap.lastSize /\ heap'.pulled = heap.pulled
        /\ heap'.stalled = heap.stalled /\ heap'.late = heap.late
        /\ heap'.unremoved = heap.unremoved
    BY <1>9 DEF FillIncident, HeapGoto, HeapInv, HeapType
  <2>2. HeapType'
    BY <1>9 DEF FillIncident, HeapGoto, HeapInv, HeapType, HeapPlaces
  <2>3. RemoteType' /\ remote' = remote
    BY <1>9 DEF FillIncident, HeapGoto, HeapInv, RemoteType
  <2>4. LocalType' /\ local'.named = Evidence /\ local'.incident = "whole"
           /\ \A f \in {"meminfo", "parsed", "hprof"} : local'[f] = local[f]
    BY <1>9, <2>0 DEF FillIncident, HeapInv, LocalType
  <2>5. report' = report
    BY <1>9 DEF FillIncident, HeapGoto, HeapInv
  <2>6. RemoteFollowsHeap' /\ HeapIsWhole'
    BY <2>0, <1>0, <2>1, <2>3 DEF RemoteFollowsHeap, HeapIsWhole
  <2>7. LocalFollowsHeap' /\ IncidentNamesFiles'
    BY <2>0, <1>0, <2>1, <2>4, <2>5 DEF LocalFollowsHeap, IncidentNamesFiles, Absent
  <2> QED
    BY <2>2, <2>3, <2>4, <2>6, <2>7 DEF HeapInv
<1> QED
  BY <1>1, <1>2, <1>3, <1>4, <1>5, <1>6, <1>7, <1>8, <1>9 DEF HeapStep

LEMMA DeviceStepKeeps == HeapInv /\ (DeviceStep \/ LoadIncidents) => HeapInv'
<1> SUFFICES ASSUME HeapInv, DeviceStep \/ LoadIncidents PROVE HeapInv'
  OBVIOUS
<1>1. CASE DeviceStep
  <2>1. heap' = heap /\ local' = local /\ report' = report /\ remote.writing
    BY <1>1 DEF DeviceStep, Grows, WriterDies
  <2>a. remote \in [writing : BOOLEAN, size : Nat, died : BOOLEAN]
    BY DEF HeapInv, RemoteType
  <2>b. ASSUME Grows
        PROVE  /\ RemoteType' /\ remote'.size = remote.size + 1 /\ remote'.died = remote.died
               /\ remote'.writing => remote'.size < Whole
               /\ ~ remote'.writing => remote'.size = Whole
    <3>1. remote' = [remote EXCEPT !.size = @ + 1, !.writing = remote.size + 1 < Whole]
      BY <2>b DEF Grows
    <3> DEFINE more == remote.size + 1 < Whole
    <3>2. more \in BOOLEAN /\ remote.size + 1 \in Nat
      BY <2>a
    <3> HIDE DEF more
    <3>3. remote' = [[remote EXCEPT !.size = remote.size + 1] EXCEPT !.writing = more]
      BY <3>1, <2>a DEF more
    <3>4. remote' \in [writing : BOOLEAN, size : Nat, died : BOOLEAN]
      BY <2>a, <3>2, <3>3
    <3>5. remote'.size = remote.size + 1 /\ remote'.died = remote.died /\ remote'.writing = more
      BY <2>a, <3>3
    <3>6. remote'.writing => remote'.size < Whole
      BY <3>5 DEF more
    <3>7. ~ remote'.writing => remote'.size = Whole
      BY <3>5, <2>a, <2>1, PerfDumpsAssumption DEF more, HeapInv, RemoteFollowsHeap
    <3> QED
      BY <3>4, <3>5, <3>6, <3>7 DEF RemoteType
  <2>c. ASSUME WriterDies
        PROVE  RemoteType' /\ remote'.size = remote.size /\ ~ remote'.writing /\ remote'.died
    <3>1. remote' = [remote EXCEPT !.writing = FALSE, !.died = TRUE]
      BY <2>c DEF WriterDies
    <3> QED
      BY <2>a, <3>1 DEF RemoteType
  <2>2. /\ RemoteType' /\ remote.size \in Nat /\ remote'.size \in Nat
        /\ remote'.writing => remote'.size < Whole
        /\ remote'.size >= remote.size
        /\ remote'.writing \/ remote'.died \/ remote'.size = Whole
        /\ remote.died => remote'.died
    BY <1>1, <2>a, <2>b, <2>c DEF DeviceStep
  <2>3. HeapType' /\ LocalType' /\ LocalFollowsHeap' /\ IncidentNamesFiles'
    BY <2>1 DEF HeapInv, HeapType, LocalType, LocalFollowsHeap, IncidentNamesFiles
  <2>4. RemoteFollowsHeap
    BY DEF HeapInv
  <2>5. heap.lastSize \in Int
    BY DEF HeapInv, HeapType
  <2>6. RemoteFollowsHeap'
    BY <2>1, <2>2, <2>4, <2>5 DEF RemoteFollowsHeap
  <2>7. HeapIsWhole'
    BY <2>1, <2>2 DEF HeapInv, HeapIsWhole
  <2> QED
    BY <2>2, <2>3, <2>6, <2>7 DEF HeapInv
<1>2. CASE LoadIncidents
  <2>1. HeapType' /\ RemoteType' /\ LocalType' /\ RemoteFollowsHeap' /\ HeapIsWhole'
    BY <1>2 DEF LoadIncidents, HeapInv, HeapType, RemoteType, LocalType, RemoteFollowsHeap, HeapIsWhole
  <2>2. LocalFollowsHeap' /\ IncidentNamesFiles'
    BY <1>2 DEF LoadIncidents, Exists, HeapInv, LocalType, LocalFollowsHeap, IncidentNamesFiles
  <2> QED
    BY <2>1, <2>2 DEF HeapInv
<1> QED
  BY <1>1, <1>2

\* What the threads are after n lines of the output.
HeadersOf(text, n) == {h \in 1 .. n : text[h].is = "header"}
SeenIn(text, i) == text[i].is = "thread" /\ HeadersOf(text, i) # {}
AtPeak(text, threads, n) ==
    /\ {t.tid : t \in threads} = {text[i].tid : i \in {j \in 1 .. n : SeenIn(text, j)}}
    /\ \A t \in threads :
          /\ t.cpu \in Nat
          /\ \A u \in threads : t.tid = u.tid => t = u
          /\ \A i \in 1 .. n : SeenIn(text, i) /\ text[i].tid = t.tid => text[i].cpu <= t.cpu
          /\ \E i \in 1 .. n :
                /\ SeenIn(text, i) /\ text[i].tid = t.tid /\ text[i].cpu = t.cpu
                /\ t.name = NameOf(text[i], text[Max(HeadersOf(text, i))].column)

\* The column that the headers of the first n lines point to.
ColumnAfter(text, n) ==
    IF HeadersOf(text, n) = {} THEN NoColumn ELSE text[Max(HeadersOf(text, n))].column

TopInv ==
    /\ top.text \in TopTexts /\ top.next \in 1 .. Len(top.text) + 1
    /\ top.column = ColumnAfter(top.text, top.next - 1)
    /\ top.column # NoColumn <=> HeadersOf(top.text, top.next - 1) # {}
    /\ AtPeak(top.text, top.threads, top.next - 1)
    /\ top.incident => top.next = Len(top.text) + 1
    /\ DOMAIN top = {"text", "pc", "next", "column", "threads", "incident"}

LEMMA Texts ==
    ASSUME NEW text \in TopTexts
    PROVE  /\ Len(text) \in Nat /\ DOMAIN text = 1 .. Len(text)
           /\ \A i \in 1 .. Len(text) :
                 /\ text[i].is \in {"header", "thread", "noise"}
                 /\ text[i].is = "header" => text[i].column \in Nat
                 /\ text[i].is = "thread" => text[i].cpu \in Nat
<1>1. text \in Seq({text[i] : i \in DOMAIN text})
  BY PerfDumpsAssumption
<1>2. Len(text) \in Nat /\ DOMAIN text = 1 .. Len(text)
  BY <1>1, LenProperties
<1> QED
  BY <1>2, PerfDumpsAssumption

\* One more line is one more header, or none.
LEMMA OneMoreLine ==
    ASSUME NEW n \in Nat \ {0}
    PROVE  /\ HeadersOf(top.text, n) = HeadersOf(top.text, n - 1) \cup (IF top.text[n].is = "header" THEN {n} ELSE {})
           /\ top.text[n].is = "header" => Max(HeadersOf(top.text, n)) = n
<1>1. 1 .. n = (1 .. n - 1) \cup {n} /\ n \notin 1 .. n - 1
  OBVIOUS
<1>2. HeadersOf(top.text, n) = HeadersOf(top.text, n - 1) \cup (IF top.text[n].is = "header" THEN {n} ELSE {})
  BY <1>1 DEF HeadersOf
<1>3. ASSUME top.text[n].is = "header" PROVE Max(HeadersOf(top.text, n)) = n
  <2>1. n \in HeadersOf(top.text, n) /\ \A y \in HeadersOf(top.text, n) : y \in Nat /\ n >= y
    BY <1>3 DEF HeadersOf
  <2>2. \A x \in HeadersOf(top.text, n) : (\A y \in HeadersOf(top.text, n) : x >= y) => x = n
    BY <2>1
  <2> QED
    BY <2>1, <2>2 DEF Max
<1> QED
  BY <1>2, <1>3

LEMMA ParseLineKeeps == TopInv /\ ParseLine => TopInv'
<1> SUFFICES ASSUME TopInv, ParseLine PROVE TopInv'
  OBVIOUS
<1> DEFINE n == top.next
           line == top.text[n]
           kept == line.is = "thread" /\ top.column # NoColumn /\ Keeps(top.threads, line)
           entry == [tid |-> line.tid, cpu |-> line.cpu, name |-> NameOf(line, top.column)]
           found == top.threads
           after == IF ~kept THEN found ELSE {t \in found : t.tid # line.tid} \cup {entry}
<1>1. /\ n \in Nat \ {0} /\ n \in 1 .. Len(top.text) /\ n + 1 \in 1 .. Len(top.text) + 1 /\ n - 1 \in Nat
      /\ Len(top.text) \in Nat
  BY Texts DEF TopInv, ParseLine
<1>2. /\ line.is \in {"header", "thread", "noise"}
      /\ line.is = "header" => line.column \in Nat
      /\ line.is = "thread" => line.cpu \in Nat
  BY Texts, <1>1 DEF TopInv
<1>3. /\ top'.text = top.text /\ top'.next = n + 1 /\ top'.incident = top.incident
      /\ top'.column = IF line.is = "header" THEN line.column ELSE top.column
      /\ top'.threads = after /\ DOMAIN top' = DOMAIN top
  BY DEF TopInv, ParseLine
<1>4. ~ top.incident
  BY <1>1 DEF TopInv
<1>5. /\ HeadersOf(top.text, n) = HeadersOf(top.text, n - 1) \cup (IF line.is = "header" THEN {n} ELSE {})
      /\ line.is = "header" => Max(HeadersOf(top.text, n)) = n
  BY <1>1, OneMoreLine
<1>6. ColumnAfter(top.text, n) = top'.column
  BY <1>3, <1>5 DEF ColumnAfter, TopInv
<1>7. top.column # NoColumn <=> HeadersOf(top.text, n - 1) # {}
  BY DEF TopInv
<1>7a. top'.column # NoColumn <=> HeadersOf(top.text, n) # {}
  BY <1>2, <1>3, <1>5, <1>7 DEF NoColumn
<1>8. SeenIn(top.text, n) <=> line.is = "thread" /\ top.column # NoColumn
  BY <1>5, <1>7 DEF SeenIn, HeadersOf
<1>9. 1 .. n = (1 .. n - 1) \cup {n} /\ n \notin 1 .. n - 1
  BY <1>1
<1>10. AtPeak(top.text, found, n - 1)
  BY DEF TopInv
<1>11. AtPeak(top.text, after, n)
  <2>1. CASE ~ SeenIn(top.text, n)
    <3>1. after = found
      BY <2>1, <1>8
    <3>2. {j \in 1 .. n : SeenIn(top.text, j)} = {j \in 1 .. n - 1 : SeenIn(top.text, j)}
      BY <2>1, <1>9
    <3> HIDE DEF n, found, after
    <3>3. {t.tid : t \in found} = {top.text[i].tid : i \in {j \in 1 .. n : SeenIn(top.text, j)}}
      BY <3>2, <1>10 DEF AtPeak
    <3> QED
      BY <2>1, <3>1, <3>3, <1>9, <1>10 DEF AtPeak
  <2>2. CASE SeenIn(top.text, n) /\ ~ Keeps(found, line)
    <3>1. PICK t \in found : t.tid = line.tid /\ ~ (line.cpu > t.cpu)
      BY <2>2 DEF Keeps
    <3>2. line.cpu <= t.cpu
      BY <3>1, <1>2, <1>8, <2>2, <1>10 DEF AtPeak
    <3> HIDE DEF line
    <3>3. after = found
      BY <2>2
    <3>4. line.tid \in {top.text[i].tid : i \in {j \in 1 .. n - 1 : SeenIn(top.text, j)}}
      BY <3>1, <1>10 DEF AtPeak
    <3>5. {top.text[i].tid : i \in {j \in 1 .. n : SeenIn(top.text, j)}}
             = {top.text[i].tid : i \in {j \in 1 .. n - 1 : SeenIn(top.text, j)}}
      BY <3>4, <1>9 DEF line
    <3>6. ASSUME NEW u \in found, SeenIn(top.text, n), line.tid = u.tid PROVE line.cpu <= u.cpu
      BY <3>1, <3>2, <3>6, <1>10 DEF AtPeak
    <3>7. {u.tid : u \in found} = {top.text[i].tid : i \in {j \in 1 .. n : SeenIn(top.text, j)}}
      BY <3>5, <1>10 DEF AtPeak
    <3>8. ASSUME NEW u \in found
          PROVE  /\ u.cpu \in Nat
                 /\ \A v \in found : u.tid = v.tid => u = v
                 /\ \A i \in 1 .. n : SeenIn(top.text, i) /\ top.text[i].tid = u.tid => top.text[i].cpu <= u.cpu
                 /\ \E i \in 1 .. n :
                       /\ SeenIn(top.text, i) /\ top.text[i].tid = u.tid /\ top.text[i].cpu = u.cpu
                       /\ u.name = NameOf(top.text[i], top.text[Max(HeadersOf(top.text, i))].column)
      BY <3>6, <1>9, <1>10, <3>8 DEF AtPeak, line
    <3> QED
      BY <3>3, <3>7, <3>8 DEF AtPeak
  <2>3. CASE SeenIn(top.text, n) /\ Keeps(found, line)
    <3>1. after = {t \in found : t.tid # line.tid} \cup {entry} /\ line.is = "thread" /\ line.cpu \in Nat
      BY <2>3, <1>8, <1>2
    <3>2. entry.tid = line.tid /\ entry.cpu = line.cpu
          /\ entry.name = NameOf(line, top.text[Max(HeadersOf(top.text, n))].column)
      BY <2>3, <1>5, <1>8, <3>1, <1>7 DEF TopInv, ColumnAfter
    <3> HIDE DEF line, entry
    <3>3. {t.tid : t \in after} = {top.text[i].tid : i \in {j \in 1 .. n : SeenIn(top.text, j)}}
      <4>1. {t.tid : t \in after} = {t.tid : t \in found} \cup {line.tid}
        BY <3>1, <3>2
      <4>2. {top.text[i].tid : i \in {j \in 1 .. n : SeenIn(top.text, j)}}
               = {top.text[i].tid : i \in {j \in 1 .. n - 1 : SeenIn(top.text, j)}} \cup {line.tid}
        BY <2>3, <1>9 DEF line
      <4> QED
        BY <4>1, <4>2, <1>10 DEF AtPeak
    <3>4. ASSUME NEW t \in after
          PROVE  /\ t.cpu \in Nat
                 /\ \A u \in after : t.tid = u.tid => t = u
                 /\ \A i \in 1 .. n : SeenIn(top.text, i) /\ top.text[i].tid = t.tid => top.text[i].cpu <= t.cpu
                 /\ \E i \in 1 .. n :
                       /\ SeenIn(top.text, i) /\ top.text[i].tid = t.tid /\ top.text[i].cpu = t.cpu
                       /\ t.name = NameOf(top.text[i], top.text[Max(HeadersOf(top.text, i))].column)
      <4>1. CASE t = entry
        <5>1. \A u \in after : t.tid = u.tid => t = u
          BY <4>1, <3>1, <3>2
        <5>2. ASSUME NEW i \in 1 .. n - 1, SeenIn(top.text, i), top.text[i].tid = line.tid
              PROVE  top.text[i].cpu <= line.cpu
          <6>1. PICK u \in found : u.tid = line.tid
            BY <5>2, <1>10 DEF AtPeak
          <6>2. line.cpu > u.cpu /\ u.cpu \in Nat /\ top.text[i].cpu <= u.cpu
            BY <6>1, <5>2, <2>3, <1>10 DEF AtPeak, Keeps
          <6>3. top.text[i].cpu \in Nat
            BY <5>2, <1>1, Texts DEF SeenIn, HeadersOf, TopInv
          <6> QED
            BY <6>2, <6>3, <3>1
        <5>3. \A i \in 1 .. n : SeenIn(top.text, i) /\ top.text[i].tid = t.tid => top.text[i].cpu <= t.cpu
          BY <5>2, <4>1, <3>1, <3>2, <1>9 DEF line
        <5>4. n \in 1 .. n
          BY <1>1
        <5> QED
          BY <5>1, <5>3, <5>4, <4>1, <3>1, <3>2, <2>3 DEF line
      <4>2. CASE t \in found /\ t.tid # line.tid
        <5>1. \A u \in after : t.tid = u.tid => t = u
          BY <4>2, <3>1, <3>2, <1>10 DEF AtPeak
        <5> QED
          BY <5>1, <4>2, <1>9, <1>10 DEF AtPeak, line
      <4> QED
        BY <4>1, <4>2, <3>1
    <3> QED
      BY <3>3, <3>4 DEF AtPeak
  <2> QED
    BY <2>1, <2>2, <2>3
<1>12. top'.next - 1 = n
  BY <1>1, <1>3
<1> HIDE DEF n, line, kept, entry, found, after
<1>13. AtPeak(top'.text, top'.threads, top'.next - 1)
  BY <1>3, <1>11, <1>12
<1>14. top'.column = ColumnAfter(top'.text, top'.next - 1)
  BY <1>3, <1>6, <1>12
<1>15. top'.column # NoColumn <=> HeadersOf(top'.text, top'.next - 1) # {}
  BY <1>3, <1>7a, <1>12
<1>16. top'.text \in TopTexts /\ top'.next \in 1 .. Len(top'.text) + 1
  BY <1>1, <1>3 DEF TopInv
<1> QED
  BY <1>3, <1>4, <1>13, <1>14, <1>15, <1>16 DEF TopInv

\* For any heap, output of top and deadline: a heap dump that is called ok is whole
\* but for the three named reasons, the incident names files that exist, nothing
\* stays on the device, and each thread is reported once, at its peak (heap.run and
\* thread_cpu.run of pat/dumpers).
THEOREM DumpsAreSound == PerfDumpsSpec => []DumpsSound
<1>1. PerfDumpsInit => HeapInv /\ TopInv
  <2> SUFFICES ASSUME PerfDumpsInit PROVE HeapInv /\ TopInv
    OBVIOUS
  <2>1. HeapInv
    BY PerfDumpsAssumption DEF PerfDumpsInit, HeapInv, HeapType, HeapPlaces, RemoteType, LocalType,
       RemoteFollowsHeap, LocalFollowsHeap, HeapIsWhole, IncidentNamesFiles, Absent
  <2>2. /\ top.text \in TopTexts /\ top.next = 1 /\ top.column = NoColumn /\ top.threads = {} /\ ~ top.incident
        /\ DOMAIN top = {"text", "pc", "next", "column", "threads", "incident"}
    BY DEF PerfDumpsInit
  <2>3. HeadersOf(top.text, 0) = {}
    BY DEF HeadersOf
  <2>4. AtPeak(top.text, {}, 0)
    BY DEF AtPeak
  <2> QED
    BY <2>1, <2>2, <2>3, <2>4, Texts DEF TopInv, ColumnAfter
<1>2. HeapInv /\ TopInv /\ [PerfDumpsNext]_dumpVars => (HeapInv /\ TopInv)'
  <2> SUFFICES ASSUME HeapInv, TopInv, [PerfDumpsNext]_dumpVars PROVE HeapInv' /\ TopInv'
    OBVIOUS
  <2>1. ASSUME UNCHANGED <<heap, remote, local, report>> PROVE HeapInv'
    BY <2>1 DEF HeapInv, HeapType, RemoteType, LocalType, RemoteFollowsHeap, LocalFollowsHeap,
       HeapIsWhole, IncidentNamesFiles
  <2>2. ASSUME top'.text = top.text, top'.next = top.next, top'.column = top.column,
               top'.threads = top.threads, DOMAIN top' = DOMAIN top,
               top'.incident => top.next = Len(top.text) + 1
        PROVE  TopInv'
    <3>1. AtPeak(top'.text, top'.threads, top'.next - 1)
      BY <2>2 DEF TopInv
    <3>2. /\ top'.column = ColumnAfter(top'.text, top'.next - 1)
          /\ top'.column # NoColumn <=> HeadersOf(top'.text, top'.next - 1) # {}
      BY <2>2 DEF TopInv
    <3> QED
      BY <2>2, <3>1, <3>2 DEF TopInv
  <2>3. CASE HeapStep \/ DeviceStep \/ LoadIncidents
    <3>1. HeapInv'
      BY <2>3, HeapStepKeeps, DeviceStepKeeps
    <3>2. top' = top
      BY <2>3 DEF HeapStep, CaptureMeminfo, DumpHeap, Poll, PollDeadline, Pull, RemoveRemote, SetStatus,
         OpenIncident, FillIncident, DeviceStep, Grows, WriterDies, LoadIncidents
    <3> QED
      BY <2>2, <3>1, <3>2 DEF TopInv
  <2>4. CASE RunTop
    BY <2>1, <2>2, <2>4 DEF RunTop, TopInv
  <2>5. CASE WriteThreads
    <3>1. top.next = Len(top.text) + 1
      BY <2>5, Texts DEF WriteThreads, TopInv
    <3> QED
      BY <2>1, <2>2, <2>5, <3>1 DEF WriteThreads, TopInv
  <2>6. CASE ParseLine
    BY <2>1, <2>6, ParseLineKeeps DEF ParseLine
  <2>7. CASE UNCHANGED dumpVars
    BY <2>1, <2>2, <2>7 DEF dumpVars, TopInv
  <2> QED
    BY <2>3, <2>4, <2>5, <2>6, <2>7 DEF PerfDumpsNext, DumpThreads
<1>3. HeapInv /\ TopInv => DumpsSound
  <2> SUFFICES ASSUME HeapInv, TopInv PROVE DumpsSound
    OBVIOUS
  <2>1. DeviceLeftClean
    BY DEF HeapInv, RemoteFollowsHeap, DeviceLeftClean
  <2>2. ThreadsAtPeak
    <3> SUFFICES ASSUME top.incident PROVE ThreadsAtPeak
      BY DEF ThreadsAtPeak
    <3>1. DOMAIN top.text = 1 .. top.next - 1
      BY Texts DEF TopInv
    <3>2. \A i : (Seen(i) <=> SeenIn(top.text, i)) /\ Headers(i) = HeadersOf(top.text, i)
      BY DEF Seen, SeenIn, Headers, HeadersOf
    <3>3. AtPeak(top.text, top.threads, top.next - 1)
      BY DEF TopInv
    <3>4. {t.tid : t \in top.threads} = {top.text[i].tid : i \in {j \in DOMAIN top.text : Seen(j)}}
      BY <3>1, <3>2, <3>3 DEF AtPeak
    <3> QED
      BY <3>1, <3>2, <3>3, <3>4 DEF AtPeak, ThreadsAtPeak
  <2> QED
    BY <2>1, <2>2 DEF DumpsSound, HeapInv
<1> QED
  BY <1>1, <1>2, <1>3, PTL DEF PerfDumpsSpec
=============================================================================
