----------------------------- MODULE PerfDumps -----------------------------
(***************************************************************************)
(* The dumps of the performance test: a heap dump (pat/dumpers/heap.py) is *)
(* taken on the device, polled until its size is stable, pulled and        *)
(* described by an incident file; a thread dump (thread_cpu.py) parses     *)
(* what `top -H' prints.  The file on the device grows meanwhile, any adb  *)
(* call may fail, and the report reads the incidents directory whenever    *)
(* stop() gets there: it does not wait for the dump.                       *)
(***************************************************************************)
EXTENDS Integers, Sequences, FiniteSets, SequencesExt

CONSTANTS
    Whole,      \* size of a complete hprof file
    MaxPolls,   \* polls before the deadline of _wait_for_stable_file
    TopTexts    \* outputs of top: sequences of lines

ASSUME PerfDumpsAssumption ==
    /\ Whole \in Nat \ {0} /\ MaxPolls \in Nat
    /\ \A text \in TopTexts :
          /\ text \in Seq({text[i] : i \in DOMAIN text})
          /\ \A i \in DOMAIN text :
                /\ text[i].is \in {"header", "thread", "noise"}
                /\ text[i].is = "header" => text[i].column \in Nat
                /\ text[i].is = "thread" => text[i].cpu \in Nat

VARIABLES
    heap,    \* the heap dump: where it is, heap_status, whether it has a
             \* fallback_reason, _wait_for_stable_file's last_size and polls,
             \* hprof_size_bytes; as history whether the size was stable before its
             \* end, whether the deadline passed, whether no rm took it
    remote,  \* the file on the device: whether the VM is writing it, its size, and as
             \* history whether the process died before the end
    local,   \* files of the incident: what is in them, and the files that the
             \* incident names
    report,  \* whether the report has the incident, and the files it found then
    top      \* the thread dump: top's output, where it is, the next line to parse,
             \* the column of the names, the threads, and whether it has an incident

dumpVars == <<heap, remote, local, report, top>>
Absent == "missing"
NoColumn == -1

PerfDumpsInit ==
    /\ \E enabled \in BOOLEAN :
          heap = [pc |-> "meminfo", enabled |-> enabled, status |-> "skipped", reason |-> FALSE,
                  lastSize |-> -1, polls |-> 0, pulled |-> 0,
                  stalled |-> FALSE, late |-> FALSE, unremoved |-> FALSE]
    /\ remote = [writing |-> FALSE, size |-> 0, died |-> FALSE]
    /\ local = [meminfo |-> Absent, parsed |-> Absent, hprof |-> Absent, incident |-> Absent,
                named |-> {}]
    /\ report = [incident |-> "unread", found |-> {}]
    /\ top \in [text : TopTexts, pc : {"run"}, next : {1}, column : {NoColumn},
               threads : {{}}, incident : {FALSE}]

HeapGoto(from, to) == heap.pc = from /\ heap' = [heap EXCEPT !.pc = to]

-----------------------------------------------------------------------------
(* The device *)

Grows ==
    /\ remote.writing
    /\ remote' = [remote EXCEPT !.size = @ + 1, !.writing = remote.size + 1 < Whole]
    /\ UNCHANGED <<heap, local, report, top>>

\* The process dies while its heap is written.
WriterDies ==
    /\ remote.writing /\ remote' = [remote EXCEPT !.writing = FALSE, !.died = TRUE]
    /\ UNCHANGED <<heap, local, report, top>>

-----------------------------------------------------------------------------
(* heap.run *)

\* dumpsys meminfo -d: the text is kept also when it cannot be parsed.
CaptureMeminfo ==
    /\ HeapGoto("meminfo", IF heap.enabled THEN "dump" ELSE "write")
    /\ \/ UNCHANGED local
       \/ local' = [local EXCEPT !.meminfo = "text"]
       \/ local' = [local EXCEPT !.meminfo = "text", !.parsed = "categories"]
    /\ UNCHANGED <<remote, report, top>>

\* am dumpheap returns at once, refuses, or raises, which also a call that started the
\* dump may do: then nothing is polled, pulled or removed.
DumpHeap ==
    /\ heap.pc = "dump"
    /\ \/ /\ heap' = [heap EXCEPT !.pc = "poll"]
          /\ remote' \in {remote, [remote EXCEPT !.writing = TRUE]}
       \/ heap' = [heap EXCEPT !.pc = "status", !.reason = TRUE] /\ UNCHANGED remote
       \/ /\ heap' = [heap EXCEPT !.pc = "status", !.reason = TRUE, !.unremoved = TRUE]
          /\ remote' = [remote EXCEPT !.writing = TRUE]
    /\ UNCHANGED <<local, report, top>>

\* Mutant of Stable: the first size that is read is taken.
StableAtOnce(size) == size > 0

Stable(size) == size > 0 /\ size = heap.lastSize

Produced(size) ==
    IF size > 0 THEN [heap EXCEPT !.pc = "pull", !.stalled = remote.writing /\ size = heap.lastSize]
    ELSE [heap EXCEPT !.pc = "remove", !.reason = TRUE]

\* One turn of _wait_for_stable_file: wc answers, or does not.
Poll ==
    /\ heap.pc = "poll" /\ heap.polls < MaxPolls
    /\ \/ heap' = [heap EXCEPT !.polls = @ + 1]
       \/ IF Stable(remote.size) THEN heap' = Produced(remote.size)
          ELSE heap' = [heap EXCEPT !.polls = @ + 1, !.lastSize = remote.size]
    /\ UNCHANGED <<remote, local, report, top>>

\* At the deadline the last size is returned, also of a file that still grows.
PollDeadline ==
    /\ heap.pc = "poll" /\ heap.polls = MaxPolls
    /\ heap' = [Produced(heap.lastSize) EXCEPT !.late = TRUE]
    /\ UNCHANGED <<remote, local, report, top>>

\* adb pull copies what is there, or fails; its status is not believed without a file.
Pull ==
    /\ heap.pc = "pull"
    /\ \/ /\ local' = [local EXCEPT !.hprof = "heap"]
          /\ heap' = [heap EXCEPT !.pc = "remove", !.status = "ok", !.pulled = remote.size]
       \/ heap' = [heap EXCEPT !.pc = "remove", !.reason = TRUE] /\ UNCHANGED local
       \/ HeapGoto("pull", "remove") /\ UNCHANGED local
    /\ UNCHANGED <<remote, report, top>>

\* A file that the VM still writes has no name any more.
RemoteGone == [remote EXCEPT !.writing = FALSE, !.size = 0]

\* rm -f, of a dump that am dumpheap accepted; an error of adb is ignored.
RemoveRemote ==
    /\ heap.pc = "remove"
    /\ \/ /\ heap' = [heap EXCEPT !.pc = "status"]
          /\ remote' = RemoteGone
       \/ heap' = [heap EXCEPT !.pc = "status", !.unremoved = TRUE] /\ UNCHANGED remote
    /\ UNCHANGED <<local, report, top>>

SetStatus ==
    /\ heap.pc = "status"
    /\ heap' = [heap EXCEPT !.pc = "write",
                            !.status = IF @ # "ok" /\ heap.reason THEN "fallback" ELSE @]
    /\ UNCHANGED <<remote, local, report, top>>

Exists(file) == local[file] # Absent

\* The evidence of the incident names the files that are there.
Evidence ==
    {f \in {"meminfo", "parsed"} : Exists(f)} \cup (IF heap.status = "ok" THEN {"hprof"} ELSE {})

\* write_text truncates the file and then fills it.
OpenIncident ==
    /\ HeapGoto("write", "fill") /\ local' = [local EXCEPT !.incident = "truncated"]
    /\ UNCHANGED <<remote, report, top>>
FillIncident ==
    /\ HeapGoto("fill", "done") /\ local' = [local EXCEPT !.incident = "whole", !.named = Evidence]
    /\ UNCHANGED <<remote, report, top>>

HeapStep ==
    \/ CaptureMeminfo \/ DumpHeap \/ Poll \/ PollDeadline \/ Pull \/ RemoveRemote
    \/ SetStatus \/ OpenIncident \/ FillIncident

\* _load_incidents: what cannot be read as an incident is skipped.
LoadIncidents ==
    /\ report.incident = "unread"
    /\ report' = [incident |-> IF local.incident = "whole" THEN "found" ELSE "skipped",
                  found |-> {f \in {"meminfo", "parsed", "hprof"} : Exists(f)}]
    /\ UNCHANGED <<heap, remote, local, top>>

-----------------------------------------------------------------------------
(* thread_cpu.run.  A line of top is a header, with the column of its      *)
(* thread names (0: the last one), or a thread of one snapshot, with its   *)
(* columns, or noise.                                                      *)

HeaderLine(column) == [is |-> "header", column |-> column]
ThreadLine(tid, cpu, names) == [is |-> "thread", tid |-> tid, cpu |-> cpu, names |-> names]
NoiseLine == [is |-> "noise"]

NameOf(line, column) ==
    IF column \in DOMAIN line.names THEN line.names[column] ELSE Last(line.names)

Keeps(found, line) == \A t \in found : t.tid = line.tid => line.cpu > t.cpu

\* top fails: there is no incident, though the dump was counted.
RunTop ==
    /\ top.pc = "run"
    /\ \E pc \in {"parse", "over"} : top' = [top EXCEPT !.pc = pc]
    /\ UNCHANGED <<heap, remote, local, report>>

\* parse_top_h, one line after the other: each header says where the names are.
ParseLine ==
    LET line == top.text[top.next]
        kept == line.is = "thread" /\ top.column # NoColumn /\ Keeps(top.threads, line)
    IN  /\ top.pc = "parse" /\ top.next <= Len(top.text)
        /\ top' = [top EXCEPT
              !.next = @ + 1,
              !.column = IF line.is = "header" THEN line.column ELSE @,
              !.threads =
                  IF ~kept THEN @
                  ELSE {t \in @ : t.tid # line.tid}
                       \cup {[tid |-> line.tid, cpu |-> line.cpu, name |-> NameOf(line, top.column)]}]
        /\ UNCHANGED <<heap, remote, local, report>>

WriteThreads ==
    /\ top.pc = "parse" /\ top.next > Len(top.text)
    /\ top' = [top EXCEPT !.pc = "over", !.incident = TRUE]
    /\ UNCHANGED <<heap, remote, local, report>>

DumpThreads == RunTop \/ ParseLine \/ WriteThreads

DeviceStep == Grows \/ WriterDies
PerfDumpsNext == HeapStep \/ DeviceStep \/ LoadIncidents \/ DumpThreads
PerfDumpsSpec == PerfDumpsInit /\ [][PerfDumpsNext]_dumpVars
-----------------------------------------------------------------------------
(* Properties *)

\* A heap dump that is called ok is the whole heap, unless its writer died, its
\* size stood still for two polls or the deadline came first: then the last size is
\* returned and the file is pulled, where the docstring has 0 (heap.py:88-89, :108).
HeapIsWhole ==
    heap.status = "ok" => heap.pulled = Whole \/ heap.stalled \/ heap.late \/ remote.died

\* Whoever finds the incident finds the files that it names.
IncidentNamesFiles ==
    report.incident = "found" => local.named \subseteq report.found

\* A dump leaves nothing on the device, unless the rm failed, or am dumpheap was refused
\* or given up and went on: the rm is for a dump that was accepted (heap.py:166-183).
DeviceLeftClean ==
    heap.pc = "done" /\ ~heap.unremoved => remote.size = 0 /\ ~remote.writing

\* Of several snapshots each thread is reported once, with its peak and the name
\* that the header of that snapshot points to.
Headers(i) == {h \in 1 .. i : top.text[h].is = "header"}
Seen(i) == top.text[i].is = "thread" /\ Headers(i) # {}
ThreadsAtPeak ==
    top.incident =>
        /\ {t.tid : t \in top.threads} = {top.text[i].tid : i \in {j \in DOMAIN top.text : Seen(j)}}
        /\ \A t \in top.threads :
              /\ \A u \in top.threads : t.tid = u.tid => t = u
              /\ \A i \in DOMAIN top.text : Seen(i) /\ top.text[i].tid = t.tid => top.text[i].cpu <= t.cpu
              /\ \E i \in DOMAIN top.text :
                    /\ Seen(i) /\ top.text[i].tid = t.tid /\ top.text[i].cpu = t.cpu
                    /\ t.name = NameOf(top.text[i], top.text[Max(Headers(i))].column)

\* A dump that is called ok is whole, incidents name files that exist, nothing stays
\* on the device, and threads are told once.
DumpsSound == HeapIsWhole /\ IncidentNamesFiles /\ DeviceLeftClean /\ ThreadsAtPeak
=============================================================================
