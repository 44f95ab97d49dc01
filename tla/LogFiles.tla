------------------------------ MODULE LogFiles ------------------------------
(***************************************************************************)
(* The raw log of a run: LogStreamWriter (sat/storage.py), which starts a  *)
(* file every hour and a further segment when a file is full, shared by    *)
(* the threads that write it, and the retention of QuotaTracker            *)
(* (sat/quota.py) that deletes old files beside it.  CsvStreamWriter is    *)
(* the same writer without the size limit.                                 *)
(*                                                                         *)
(* A line is a number, in the order of the lock; sizes are in lines.  The  *)
(* process may be killed, which loses what was not flushed (the buffer of  *)
(* the file object may flush earlier: this is the worst case).             *)
(***************************************************************************)
EXTENDS Integers, Sequences, FiniteSets, TLC

CONSTANTS
    LogThreads,    \* threads that call write_line
    Hour,          \* clock ticks of an hour
    MaxFileLines,  \* max_file_bytes
    FlushEvery,    \* flush_every
    Retention,     \* log_retention_hours, in ticks: whole hours, 0 for no retention
    MaxTicks, MaxLogLines, MaxLogKills

ASSUME LogFilesAssumption ==
    /\ {Hour, MaxFileLines, FlushEvery} \subseteq Nat \ {0}
    /\ {MaxTicks, MaxLogLines, MaxLogKills} \subseteq Nat
    /\ Retention \in Nat /\ (Retention = 0 \/ Retention >= Hour)
    /\ IsFiniteSet(LogThreads)

Closed == <<>>
NoTime == -1
Unwritten == [linked |-> FALSE, headers |-> 0, lines |-> <<>>, flushed |-> 0, mtime |-> 0]

VARIABLES
    ticks,    \* the clock
    taken,    \* `now' of each thread in write_line, taken before the lock
    handle,   \* _fh: the file that is open, named by its hour and segment
    files,    \* the directory, with an unlinked file as long as it is named
    stamps,   \* when each line was written
    removed,  \* history: line and age of what was deleted, or written to a deleted file
    lost,     \* history: lines a kill lost
    logKills
logFileVars == <<ticks, taken, handle, files, stamps, removed, lost, logKills>>

FileNames == (0..(MaxTicks \div Hour)) \X (0..MaxLogLines)

LogFilesInit ==
    /\ ticks = 0
    /\ taken = [w \in LogThreads |-> NoTime]
    /\ handle = Closed
    /\ files = [f \in FileNames |-> Unwritten]
    /\ stamps = <<>>
    /\ removed = {} /\ lost = {} /\ logKills = 0

\* A thread that has taken its time gets the lock within a tick.
Pass ==
    /\ ticks < MaxTicks
    /\ \A w \in LogThreads : taken[w] \in {NoTime, ticks}
    /\ ticks' = ticks + 1
    /\ UNCHANGED <<taken, handle, files, stamps, removed, lost, logKills>>

TakeTime(w) ==
    /\ taken[w] = NoTime
    /\ Len(stamps) + Cardinality({v \in LogThreads : taken[v] # NoTime}) < MaxLogLines
    /\ taken' = [taken EXCEPT ![w] = ticks]
    /\ UNCHANGED <<ticks, handle, files, stamps, removed, lost, logKills>>

-----------------------------------------------------------------------------
(* The writer: each operator is a step on the directory. *)

Flush(dir, f) ==
    IF f = Closed \/ dir[f].flushed = Len(dir[f].lines) THEN dir
    ELSE [dir EXCEPT ![f].flushed = Len(dir[f].lines), ![f].mtime = ticks]

\* Mutant of CloseFile: the handle is dropped with what it still holds.
CloseWithoutFlush(dir, f) ==
    IF f = Closed THEN dir
    ELSE [dir EXCEPT ![f].lines = SubSeq(dir[f].lines, 1, dir[f].flushed)]

\* _close_locked
CloseFile(dir, f) == Flush(dir, f)

WithHeader(file) == [file EXCEPT !.linked = TRUE, !.headers = @ + 1, !.mtime = ticks]

\* _open_for_key: a header only for a file that is new.
OpenFor(dir, f) == IF dir[f].linked THEN dir ELSE [dir EXCEPT ![f] = WithHeader(Unwritten)]

\* _rotate_locked numbers a segment by how many files of the hour there are.
NextSegment(dir, hour) ==
    <<hour, Cardinality({f \in FileNames : f[1] = hour /\ dir[f].linked})>>

\* _rotate_locked writes a header whatever it opens.
OpenSegment(dir, f) ==
    [dir EXCEPT ![f] = WithHeader(IF dir[f].linked THEN dir[f] ELSE Unwritten)]

IsFull(file) == Len(file.lines) + 1 > MaxFileLines

FlushDue(file) == Len(file.lines) - file.flushed >= FlushEvery

\* write_line under the lock: _ensure_open for the hour of `now', a rotation if
\* the file is full, the line, and a flush when it is due.
WriteLine(w) ==
    LET hour   == taken[w] \div Hour
        same   == handle # Closed /\ handle[1] = hour
        first  == IF same THEN handle ELSE <<hour, 0>>
        opened == IF same THEN files ELSE OpenFor(CloseFile(files, handle), first)
        full   == IsFull(opened[first])
        target == IF full THEN NextSegment(opened, hour) ELSE first
        ready  == IF full THEN OpenSegment(CloseFile(opened, first), target) ELSE opened
        done   == [ready EXCEPT ![target].lines = Append(@, Len(stamps) + 1)]
    IN  /\ taken[w] # NoTime
        /\ taken' = [taken EXCEPT ![w] = NoTime]
        /\ handle' = target
        /\ files' = IF FlushDue(done[target]) THEN Flush(done, target) ELSE done
        /\ stamps' = Append(stamps, ticks)
        /\ removed' = removed \cup IF done[target].linked THEN {} ELSE {<<Len(stamps) + 1, 0>>}
        /\ UNCHANGED <<ticks, lost, logKills>>

\* close(); a later write_line opens the file again.
CloseWriter ==
    /\ handle # Closed
    /\ handle' = Closed
    /\ files' = CloseFile(files, handle)
    /\ UNCHANGED <<ticks, taken, stamps, removed, lost, logKills>>

Expired(f) == files[f].linked /\ files[f].mtime < ticks - Retention

\* enforce_log_retention, by the watcher or at the end of the stream.
EnforceRetention ==
    LET expired == {f \in FileNames : Expired(f)}
    IN  /\ Retention > 0 /\ expired # {}
        /\ files' = [f \in FileNames |->
              IF f \in expired THEN [files[f] EXCEPT !.linked = FALSE] ELSE files[f]]
        /\ removed' = removed \cup
              UNION {{<<files[f].lines[i], ticks - stamps[files[f].lines[i]]>> :
                         i \in DOMAIN files[f].lines} : f \in expired}
        /\ UNCHANGED <<ticks, taken, handle, stamps, lost, logKills>>

\* The process is killed; the next run appends to the same directory.
KillLogger ==
    /\ logKills < MaxLogKills /\ handle # Closed
    /\ LET open == files[handle]
       IN  /\ lost' = lost \cup {open.lines[i] : i \in (open.flushed + 1)..Len(open.lines)}
           /\ files' = [files EXCEPT ![handle].lines = SubSeq(open.lines, 1, open.flushed)]
    /\ handle' = Closed
    /\ taken' = [w \in LogThreads |-> NoTime]
    /\ logKills' = logKills + 1
    /\ UNCHANGED <<ticks, stamps, removed>>

LogFilesNext ==
    \/ Pass \/ CloseWriter \/ EnforceRetention \/ KillLogger
    \/ \E w \in LogThreads : TakeTime(w) \/ WriteLine(w)

LogFilesSpec == LogFilesInit /\ [][LogFilesNext]_logFileVars

-----------------------------------------------------------------------------
(* Properties *)

Copies(n) ==
    {c \in FileNames \X (1..MaxLogLines) :
        /\ files[c[1]].linked
        /\ c[2] \in DOMAIN files[c[1]].lines /\ files[c[1]].lines[c[2]] = n}

\* Whatever thread wrote it and whatever rotated meanwhile, a line is in one
\* file, once, unless the retention deleted it or a kill lost it.
LinesKept ==
    \A n \in DOMAIN stamps :
        Cardinality(Copies(n)) =
            IF n \in lost \/ \E r \in removed : r[1] = n THEN 0 ELSE 1

\* A kill loses fewer lines than flush_every.
LossBounded == Cardinality(lost) <= logKills * (FlushEvery - 1)

\* No file grows beyond the limit, and none is begun twice: a segment's number is
\* never taken again, although files of the same name pattern are deleted.
SegmentsSound ==
    \A f \in FileNames : files[f].linked =>
        files[f].headers = 1 /\ Len(files[f].lines) <= MaxFileLines

\* The retention goes by a file's last flush: a line it deletes may be an hour
\* younger than the window, but not more.
RetentionKeepsRecent == \A r \in removed : r[2] > Retention - Hour

\* Lines are in one file, once, but for bounded losses that were earned by a kill or
\* by age.
LogKept == LinesKept /\ LossBounded /\ SegmentsSound /\ RetentionKeepsRecent
=============================================================================
