--------------------------- MODULE ContextBuffer ---------------------------
(***************************************************************************)
(* The ring buffer of log lines (sat/context.py) and the slice around an   *)
(* event that a dump task takes from it (_attach_context, sat/pool.py):    *)
(* the task waits for the lines after the event, for as long as dumps of   *)
(* other incidents keep it queued, while the logcat thread appends.        *)
(***************************************************************************)
EXTENDS Integers, Sequences, FiniteSets, SequencesExt, FiniteSetsExt

CONSTANTS
    RetentionSec, MaxEntries, MaxBytes,   \* the three limits of the buffer
    PreSec, PostSec,                      \* the window of a slice
    LineSizes,                            \* sizes of a line
    MaxContextLines, MaxContextTime       \* bounds

ASSUME ContextAssumption ==
    {RetentionSec, MaxEntries, MaxBytes, PreSec, PostSec, MaxContextLines, MaxContextTime} \subseteq Nat

VARIABLES
    clock,     \* host time
    lines,     \* history: every line that was appended
    from,      \* the buffer holds lines[from..]
    capped,    \* _dropped_by_cap
    anchor,    \* host time of the event, or -1
    slice,     \* what the task took
    runOver    \* _global_stop
contextVars == <<clock, lines, from, capped, anchor, slice, runOver>>

NoSlice == [at |-> -1]

ContextInit ==
    /\ clock = 0 /\ lines = <<>> /\ from = 1 /\ capped = 0
    /\ anchor = -1 /\ slice = NoSlice /\ runOver = FALSE

-----------------------------------------------------------------------------
(* LogcatContextBuffer *)

Bytes(all, k) == FoldSeq(LAMBDA line, sum : line.size + sum, 0, SubSeq(all, k, Len(all)))

\* Nothing has to go when the oldest line is all[k].
Fits(all, k, now) ==
    \/ k > Len(all)
    \/ /\ all[k].at >= now - RetentionSec
       /\ Len(all) - k + 1 <= MaxEntries
       /\ Bytes(all, k) <= MaxBytes

\* _evict_locked: the oldest go until the rest fits, to age or to a limit.
Evict(all, now) ==
    LET k == Min({i \in from..(Len(all) + 1) : Fits(all, i, now)})
        recent == {i \in from..(k - 1) : all[i].at >= now - RetentionSec} IN
    /\ from' = k
    /\ capped' = capped + Cardinality(recent)

\* A line gets its time and is appended in one step: the logcat thread is the only
\* one that appends, so that the lines are in the order of their times either way.
AppendEntry ==
    /\ Len(lines) < MaxContextLines
    /\ \E size \in LineSizes : lines' = Append(lines, [at |-> clock, size |-> size])
    /\ Evict(lines', clock)
    /\ UNCHANGED <<clock, anchor, slice, runOver>>

\* The lines of the slice, from those that are left.
SliceOf(k) ==
    {i \in k..Len(lines) : \/ anchor - PreSec <= lines[i].at /\ lines[i].at < anchor
                           \/ anchor < lines[i].at /\ lines[i].at <= anchor + PostSec}

-----------------------------------------------------------------------------
(* The pool *)

ClockTicks ==
    /\ clock < MaxContextTime /\ clock' = clock + 1
    /\ UNCHANGED <<lines, from, capped, anchor, slice, runOver>>

\* An event is dispatched: the time its device timestamp was first seen.
EventAt ==
    /\ anchor = -1 /\ lines # <<>>
    /\ anchor' \in {lines[i].at : i \in DOMAIN lines}
    /\ UNCHANGED <<clock, lines, from, capped, slice, runOver>>

RunEndsEarly ==
    /\ ~runOver /\ runOver' = TRUE
    /\ UNCHANGED <<clock, lines, from, capped, anchor, slice>>

\* Mutant of Waited: the task does not wait for the lines after the event.
WaitedForNothing == anchor # -1

Waited == anchor # -1 /\ (clock >= anchor + PostSec \/ runOver)

\* _attach_context, once the wait is over: the slice and why it is incomplete.
TakeSlice ==
    /\ slice = NoSlice /\ Waited
    /\ Evict(lines, clock)
    /\ slice' = [at |-> clock, lines |-> SliceOf(from'),
                 pre |-> IF capped' > 0 /\ PreSec > 0 THEN "buffer_overflow_dropped" ELSE "none",
                 post |-> IF runOver /\ clock < anchor + PostSec THEN "run_stopped_early" ELSE "none"]
    /\ UNCHANGED <<clock, lines, anchor, runOver>>

ContextNext == AppendEntry \/ ClockTicks \/ EventAt \/ RunEndsEarly \/ TakeSlice

ContextSpec == ContextInit /\ [][ContextNext]_contextVars

-----------------------------------------------------------------------------
(* Properties *)

\* A log storm does not grow the memory: after every append the three limits
\* hold, and only the oldest lines were given up.
MemoryBounded ==
    LET kept == SubSeq(lines, from, Len(lines)) IN
    /\ Len(kept) <= MaxEntries
    /\ kept # <<>> => Bytes(lines, from) <= MaxBytes

\* What a slice does not show of its window is explained: a limit of the buffer
\* was reached, the run ended early, the line was too old when it was taken, or it came
\* at that very moment.
\* (A line of the very time of the event is in neither half.)
MissingContextExplained ==
    slice # NoSlice =>
        \A i \in DOMAIN lines :
            /\ anchor - PreSec <= lines[i].at /\ lines[i].at <= anchor + PostSec
            /\ lines[i].at # anchor /\ i \notin slice.lines
            => \/ slice.pre # "none" \/ slice.post # "none"
               \/ lines[i].at < slice.at - RetentionSec
               \/ lines[i].at = slice.at

\* A slice never shows a line from outside its window.
SliceInWindow ==
    slice # NoSlice => \A i \in slice.lines : lines[i].at - anchor \in -PreSec..PostSec

\* What a slice shows is of its window, what it lacks is explained, and the buffer
\* stays within its limits.
SliceExplained == MemoryBounded /\ SliceInWindow /\ MissingContextExplained
=============================================================================
