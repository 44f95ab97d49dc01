------------------------- MODULE IncidentPipeline -------------------------
(***************************************************************************)
(* The incident pipeline of CollectorPool (sat/pool.py): a detected event  *)
(* goes from the dispatcher (the logcat thread, or stop() flushing the     *)
(* parser) through the per-type cap and the backpressure controller to a   *)
(* dump task on the thread pool; the task stages its evidence, publishes   *)
(* it into the incident directory and records its outcome in the           *)
(* append-only journal.  stop() drains, then claims what is unfinished.    *)
(*                                                                         *)
(* Threads: the logcat collector, the thread that calls stop(), and at     *)
(* most MaxConcurrent dump workers.  An event stands for a new occurrence: *)
(* a report the fusion engine merges into a known one returns early and    *)
(* changes nothing here.  Statistics that decide nothing (queue peak, drop *)
(* counters) are left out.                                                 *)
(***************************************************************************)
EXTENDS Naturals, Sequences, FiniteSets

CONSTANTS
    Events,              \* occurrences the device may produce in a run
    Types,               \* event types
    TypeOf,              \* the type of each event
    MaxIncidentsPerType, \* dumps.max_incidents_per_type
    MaxQueueSize,        \* dumps.max_queue_size (backpressure)
    MaxConcurrent,       \* dumps.max_concurrent (executor threads)
    FilesPerIncident,    \* staged files: the incident JSON, then its evidence
    JoinMayTimeOut       \* may join(timeout) give up on a slow logcat thread?

ASSUME PipelineAssumption ==
    /\ TypeOf \in [Events -> Types]
    /\ MaxIncidentsPerType \in Nat
    /\ MaxQueueSize \in Nat \ {0}
    /\ MaxConcurrent \in Nat \ {0}
    /\ FilesPerIncident \in Nat \ {0}
    /\ JoinMayTimeOut \in BOOLEAN

TaskTerminals == {"persisted", "failed", "timed_out"}
Terminals == TaskTerminals \cup {"dropped_by_cap", "dropped_by_backpressure"}

\* Where an event is on its way through _dispatch_inner and _submit_dump.
DispatchPCs == {"unseen", "accepted", "capped", "cap_detected", "counted",
                "detected", "rejected", "acquired", "appended", "done", "lost",
                "turned_away", "exit_counted", "exit_detected", "exit_persisted"}
\* Which caller dispatches it: two of the three are the stop() thread.
Callers == {"none", "logcat", "flush", "exit_info"}
\* Where its future and the body of run() are.
WorkerPCs == {"none", "queued", "dumping", "checking", "publishing", "claiming",
              "failing", "to_journal", "releasing", "done", "cancelled"}
StopPCs == {"running", "joining", "flushing", "exit_info", "draining",
            "cancelling", "marking", "marked", "stopped", "closed"}

VARIABLES
    accepting,    \* _accepting
    spc,          \* where stop(), then close(), is
    by,           \* the caller that dispatches an event
    dpc,          \* where that caller is with it
    counts,       \* _event_counts
    queued,       \* BackpressureController._queued
    task,         \* _DumpTask.state; "none" before the task is appended
    cancelled,    \* events whose task.cancelled is set
    wpc,          \* where the worker (or the future) of an event is
    published,    \* files of the event already moved to the incident directory
    journal,      \* the journal's records of each event, in order
    journalOpen   \* the journal's file handle is open

dispatchVars == <<by, dpc, counts>>
workerVars == <<task, cancelled, wpc, published>>
logVars == <<journal, journalOpen>>
vars == <<accepting, spc, dispatchVars, queued, workerVars, logVars>>

\* task._terminal_written: every writer sets it together with the state.
TerminalWritten(e) == task[e] \in TaskTerminals

\* _dispatch_lock is held across the journal records of a capped event;
\* stop() holds _task_lock while it marks the unfinished tasks.
DispatchLockFree == \A e \in Events : dpc[e] \notin {"capped", "cap_detected"}
TaskLockFree == spc # "marking"

\* IncidentJournal.append: after close() the write raises and the pool logs it.
Record(e, status) ==
    /\ journal' = IF journalOpen THEN [journal EXCEPT ![e] = Append(@, status)]
                                 ELSE journal
    /\ UNCHANGED journalOpen

\* A thread dispatches one event at a time; an exception in _submit_dump ends
\* the logcat thread.
Returned == {"done", "turned_away"}
IdleCaller(callers) == \A e \in Events : by[e] \in callers => dpc[e] \in Returned
StopThread == {"flush", "exit_info"}

Init ==
    /\ accepting = TRUE
    /\ spc = "running"
    /\ by = [e \in Events |-> "none"]
    /\ dpc = [e \in Events |-> "unseen"]
    /\ counts = [t \in Types |-> 0]
    /\ queued = 0
    /\ task = [e \in Events |-> "none"]
    /\ cancelled = {}
    /\ wpc = [e \in Events |-> "none"]
    /\ published = [e \in Events |-> 0]
    /\ journal = [e \in Events |-> <<>>]
    /\ journalOpen = TRUE

-----------------------------------------------------------------------------
(* The dispatcher *)

\* A caller takes up an event.
TakeUp(e, caller, pc) ==
    /\ dpc[e] = "unseen"
    /\ by' = [by EXCEPT ![e] = caller]
    /\ dpc' = [dpc EXCEPT ![e] = pc]

\* _dispatch on the logcat thread: _accepting is read before, and outside, the lock.
LogcatDispatch(e) ==
    /\ accepting
    /\ IdleCaller({"logcat"})
    /\ TakeUp(e, "logcat", "accepted")
    /\ UNCHANGED <<accepting, spc, counts, queued, workerVars, logVars>>

\* _dispatch_flushed for an event the parser still held when stop() flushed it.
FlushDispatch(e) ==
    /\ spc = "flushing"
    /\ IdleCaller(StopThread)
    /\ TakeUp(e, "flush", "accepted")
    /\ UNCHANGED <<accepting, spc, counts, queued, workerVars, logVars>>

\* Mutant of CapReached: off by one.
CapReachedOffByOne(t) == counts[t] > MaxIncidentsPerType

CapReached(t) == counts[t] >= MaxIncidentsPerType

\* Under _dispatch_lock: the cap is tested and the count taken.
Admit(e) ==
    /\ dpc[e] = "accepted"
    /\ DispatchLockFree
    /\ IF CapReached(TypeOf[e])
         THEN /\ dpc' = [dpc EXCEPT ![e] = "capped"]
              /\ UNCHANGED counts
         ELSE /\ dpc' = [dpc EXCEPT ![e] = "counted"]
              /\ counts' = [counts EXCEPT ![TypeOf[e]] = @ + 1]
    /\ UNCHANGED <<accepting, spc, by, queued, workerVars, logVars>>

\* The detected record; for a capped event still under the lock.
JournalDetected(e) ==
    /\ \/ dpc[e] = "capped" /\ dpc' = [dpc EXCEPT ![e] = "cap_detected"]
       \/ dpc[e] = "counted" /\ dpc' = [dpc EXCEPT ![e] = "detected"]
       \/ dpc[e] = "exit_counted" /\ dpc' = [dpc EXCEPT ![e] = "exit_detected"]
    /\ Record(e, "detected")
    /\ UNCHANGED <<accepting, spc, by, counts, queued, workerVars>>

\* The terminal record of an event that gets no dump task, and the return.
JournalDropped(e) ==
    /\ \/ /\ dpc[e] = "cap_detected"
          /\ Record(e, "dropped_by_cap")
          /\ dpc' = [dpc EXCEPT ![e] = "turned_away"]
       \/ /\ dpc[e] = "rejected"
          /\ Record(e, "dropped_by_backpressure")
          /\ dpc' = [dpc EXCEPT ![e] = "done"]
    /\ UNCHANGED <<accepting, spc, by, counts, queued, workerVars>>

\* BackpressureController.try_acquire.
Acquire(e) ==
    /\ dpc[e] = "detected"
    /\ IF queued >= MaxQueueSize
         THEN dpc' = [dpc EXCEPT ![e] = "rejected"] /\ UNCHANGED queued
         ELSE dpc' = [dpc EXCEPT ![e] = "acquired"] /\ queued' = queued + 1
    /\ UNCHANGED <<accepting, spc, by, counts, workerVars, logVars>>

\* The task joins _tasks, in a lock section of its own.
AppendTask(e) ==
    /\ dpc[e] = "acquired"
    /\ TaskLockFree
    /\ dpc' = [dpc EXCEPT ![e] = "appended"]
    /\ task' = [task EXCEPT ![e] = "queued"]
    /\ UNCHANGED <<accepting, spc, by, counts, queued, cancelled, wpc, published, logVars>>

\* executor.submit: raises once the executor is shut down, and the exception
\* ends the dispatching thread.
SubmitTask(e) ==
    /\ dpc[e] = "appended"
    /\ TaskLockFree
    /\ IF spc \in {"stopped", "closed"}
         THEN dpc' = [dpc EXCEPT ![e] = "lost"] /\ UNCHANGED wpc
         ELSE /\ dpc' = [dpc EXCEPT ![e] = "done"]
              /\ wpc' = [wpc EXCEPT ![e] = "queued"]
    /\ UNCHANGED <<accepting, spc, by, counts, queued, task, cancelled, published, logVars>>

\* _create_exit_info_incident: a failure only ExitInfo saw; no cap, no task.
ExitInfoCount(e) ==
    /\ spc = "exit_info"
    /\ IdleCaller(StopThread)
    /\ TakeUp(e, "exit_info", "exit_counted")
    /\ counts' = [counts EXCEPT ![TypeOf[e]] = @ + 1]
    /\ UNCHANGED <<accepting, spc, queued, workerVars, logVars>>

ExitInfoPersisted(e) ==
    /\ dpc[e] = "exit_detected"
    /\ dpc' = [dpc EXCEPT ![e] = "exit_persisted"]
    /\ Record(e, "persisted")
    /\ UNCHANGED <<accepting, spc, by, counts, queued, workerVars>>

\* write_incident comes last, and may fail (the exception is logged).
ExitInfoWrite(e) ==
    /\ dpc[e] = "exit_persisted"
    /\ dpc' = [dpc EXCEPT ![e] = "done"]
    /\ published' \in {published, [published EXCEPT ![e] = FilesPerIncident]}
    /\ UNCHANGED <<accepting, spc, by, counts, queued, task, cancelled, wpc, logVars>>

-----------------------------------------------------------------------------
(* The dump workers *)

Busy == {e \in Events : wpc[e] \notin {"none", "queued", "done", "cancelled"}}

WorkerGoto(e, pc) == wpc' = [wpc EXCEPT ![e] = pc]

\* Mutant of RunTask: the claim of stop() is not looked for.
RunTaskUnguarded(e) ==
    /\ wpc[e] = "queued"
    /\ Cardinality(Busy) < MaxConcurrent
    /\ TaskLockFree
    /\ WorkerGoto(e, "dumping")
    /\ task' = [task EXCEPT ![e] = "running"]
    /\ UNCHANGED <<accepting, spc, dispatchVars, queued, cancelled, published, logVars>>

\* The executor starts run(), which first looks for a claim by stop().
RunTask(e) ==
    /\ wpc[e] = "queued"
    /\ Cardinality(Busy) < MaxConcurrent
    /\ TaskLockFree
    /\ IF TerminalWritten(e)
         THEN WorkerGoto(e, "releasing") /\ UNCHANGED task
         ELSE WorkerGoto(e, "dumping") /\ task' = [task EXCEPT ![e] = "running"]
    /\ UNCHANGED <<accepting, spc, dispatchVars, queued, cancelled, published, logVars>>

\* The dumper raises, or ctx.check() finds the task cancelled or out of time.
DumpFails(e) ==
    /\ wpc[e] = "dumping"
    /\ WorkerGoto(e, "failing")
    /\ UNCHANGED <<accepting, spc, dispatchVars, queued, task, cancelled, published, logVars>>

\* The evidence is staged and ctx.check() passes.
DumpCompletes(e) ==
    /\ wpc[e] = "dumping"
    /\ e \notin cancelled
    /\ WorkerGoto(e, "checking")
    /\ UNCHANGED <<accepting, spc, dispatchVars, queued, task, cancelled, published, logVars>>

\* The last look at _terminal_written: the lock is released before publishing.
CheckClaim(e) ==
    /\ wpc[e] = "checking"
    /\ TaskLockFree
    /\ WorkerGoto(e, IF TerminalWritten(e) THEN "failing" ELSE "publishing")
    /\ UNCHANGED <<accepting, spc, dispatchVars, queued, task, cancelled, published, logVars>>

\* Mutant of PublishFile: the loop never ends.
PublishWithoutEnd(e) ==
    /\ wpc[e] = "publishing"
    /\ published' = [published EXCEPT ![e] = @ + 1]
    /\ UNCHANGED <<accepting, spc, dispatchVars, queued, task, cancelled, wpc, logVars>>

\* _publish_staging: one os.replace per staged file, the JSON first.
PublishFile(e) ==
    /\ wpc[e] = "publishing"
    /\ published' = [published EXCEPT ![e] = @ + 1]
    /\ WorkerGoto(e, IF published'[e] = FilesPerIncident THEN "claiming" ELSE "publishing")
    /\ UNCHANGED <<accepting, spc, dispatchVars, queued, task, cancelled, logVars>>

PublishFails(e) ==
    /\ wpc[e] = "publishing"
    /\ WorkerGoto(e, "failing")
    /\ UNCHANGED <<accepting, spc, dispatchVars, queued, task, cancelled, published, logVars>>

\* Mutant of Claim: the claim of stop() is overwritten.
ClaimUnguarded(e, pc, state) ==
    /\ wpc[e] = pc
    /\ TaskLockFree
    /\ WorkerGoto(e, "to_journal")
    /\ task' = [task EXCEPT ![e] = state]
    /\ UNCHANGED <<accepting, spc, dispatchVars, queued, cancelled, published, logVars>>

\* run() claims the single terminal state, unless stop() has.
Claim(e, pc, state) ==
    /\ wpc[e] = pc
    /\ TaskLockFree
    /\ IF TerminalWritten(e)
         THEN WorkerGoto(e, "releasing") /\ UNCHANGED task
         ELSE WorkerGoto(e, "to_journal") /\ task' = [task EXCEPT ![e] = state]
    /\ UNCHANGED <<accepting, spc, dispatchVars, queued, cancelled, published, logVars>>

ClaimPersisted(e) == Claim(e, "claiming", "persisted")
ClaimFailed(e) == Claim(e, "failing", "failed")

\* The claim is journaled after the lock was released.
JournalOutcome(e) ==
    /\ wpc[e] = "to_journal"
    /\ WorkerGoto(e, "releasing")
    /\ Record(e, task[e])
    /\ UNCHANGED <<accepting, spc, dispatchVars, queued, task, cancelled, published>>

\* run_wrapper's finally clause.
Release(e) ==
    /\ wpc[e] = "releasing"
    /\ TaskLockFree
    /\ WorkerGoto(e, "done")
    /\ queued' = IF queued = 0 THEN 0 ELSE queued - 1
    /\ UNCHANGED <<accepting, spc, dispatchVars, task, cancelled, published, logVars>>

-----------------------------------------------------------------------------
(* stop() and close() *)

\* Mutant of Unfinished: queued tasks are forgotten.
UnfinishedRunningOnly == {e \in Events : task[e] = "running" /\ wpc[e] # "done"}

\* A task stop() still has to wait for, cancel or claim.
Unfinished == {e \in Events : task[e] \in {"queued", "running"} /\ wpc[e] # "done"}

StopGoto(from, to) ==
    /\ spc = from
    /\ spc' = to
    /\ UNCHANGED <<dispatchVars, queued, task, wpc, published>>

StopBegin ==
    /\ StopGoto("running", "joining")
    /\ accepting' = FALSE
    /\ UNCHANGED <<cancelled, logVars>>

\* The logcat thread is joined, for at most join_timeout.
StopJoin ==
    /\ JoinMayTimeOut \/ IdleCaller({"logcat"})
    /\ StopGoto("joining", "flushing")
    /\ UNCHANGED <<accepting, cancelled, logVars>>

\* Once the parser is flushed, the ExitInfo records are queried and fused.
StopFlushed ==
    /\ IdleCaller(StopThread)
    /\ \/ StopGoto("flushing", "exit_info")
       \/ StopGoto("exit_info", "draining")
    /\ UNCHANGED <<accepting, cancelled, logVars>>

\* Mutant of StopDrain: no timeout.
StopDrainWithoutTimeout ==
    /\ Unfinished = {}
    /\ StopGoto("draining", "cancelling")
    /\ cancelled' = {}
    /\ UNCHANGED <<accepting, logVars>>

\* The wait for the pending futures ends: all done, or out of time.
StopDrain ==
    /\ StopGoto("draining", "cancelling")
    /\ cancelled' = Unfinished
    /\ UNCHANGED <<accepting, logVars>>

\* _task_lock is taken, once the cancellation has been signalled ...
StopLock ==
    /\ StopGoto("cancelling", "marking")
    /\ UNCHANGED <<accepting, cancelled, logVars>>

\* ... each unfinished task is claimed and journaled under it ...
StopMark(e) ==
    /\ spc = "marking"
    /\ e \in Unfinished
    /\ task' = [task EXCEPT ![e] = "timed_out"]
    /\ Record(e, "timed_out")
    /\ UNCHANGED <<accepting, spc, dispatchVars, queued, cancelled, wpc, published>>

\* ... and the lock is released.
StopUnlock ==
    /\ Unfinished = {}
    /\ StopGoto("marking", "marked")
    /\ UNCHANGED <<accepting, cancelled, logVars>>

\* executor.shutdown(cancel_futures=True): futures not yet started never run,
\* and nothing releases their slots.
StopShutdown ==
    /\ spc = "marked"
    /\ spc' = "stopped"
    /\ wpc' = [e \in Events |-> IF wpc[e] = "queued" THEN "cancelled" ELSE wpc[e]]
    /\ UNCHANGED <<accepting, dispatchVars, queued, task, cancelled, published, logVars>>

\* close(): the journal is closed; the report is built from it right after.
Close ==
    /\ StopGoto("stopped", "closed")
    /\ journalOpen' = FALSE
    /\ UNCHANGED <<accepting, cancelled, journal>>

-----------------------------------------------------------------------------
\* The steps of one call of _dispatch_inner or _create_exit_info_incident.
DispatchStep(e) ==
    \/ Admit(e) \/ JournalDetected(e) \/ JournalDropped(e) \/ Acquire(e)
    \/ AppendTask(e) \/ SubmitTask(e) \/ ExitInfoPersisted(e) \/ ExitInfoWrite(e)

Dispatch(e) ==
    \/ LogcatDispatch(e) \/ FlushDispatch(e) \/ ExitInfoCount(e) \/ DispatchStep(e)

Work(e) ==
    \/ RunTask(e) \/ DumpFails(e) \/ DumpCompletes(e) \/ CheckClaim(e)
    \/ PublishFile(e) \/ PublishFails(e) \/ ClaimPersisted(e) \/ ClaimFailed(e)
    \/ JournalOutcome(e) \/ Release(e)

Stop ==
    \/ StopJoin \/ StopFlushed \/ StopDrain \/ StopLock
    \/ (\E e \in Events : StopMark(e)) \/ StopUnlock \/ StopShutdown \/ Close

Next == StopBegin \/ Stop \/ \E e \in Events : Dispatch(e) \/ Work(e)

Spec == Init /\ [][Next]_vars

\* The dispatching threads and the thread in stop() keep running; a dump may
\* hang for ever in an adb call, so nothing is assumed of the workers.
ThreadFairness ==
    /\ WF_vars(Stop)
    /\ \A e \in Events : WF_vars(DispatchStep(e))
StopSpec == Spec /\ ThreadFairness

\* Every adb call carries a timeout: then the workers make progress too.
WorkerFairness == \A e \in Events : WF_vars(Work(e))
-----------------------------------------------------------------------------
(* Properties *)

TypeOK ==
    /\ accepting \in BOOLEAN
    /\ spc \in StopPCs
    /\ by \in [Events -> Callers]
    /\ dpc \in [Events -> DispatchPCs]
    /\ counts \in [Types -> Nat]
    /\ queued \in Nat
    /\ task \in [Events -> TaskTerminals \cup {"none", "queued", "running"}]
    /\ cancelled \in SUBSET Events
    /\ wpc \in [Events -> WorkerPCs]
    /\ published \in [Events -> 0..FilesPerIncident]
    /\ journal \in [Events -> Seq(Terminals \cup {"detected"})]
    /\ journalOpen \in BOOLEAN

\* The journal tells one story per event: a detected record, then at most one
\* terminal record, although the dispatcher, a worker and stop() all append.
OneStory(records) ==
    /\ Len(records) <= 2
    /\ \A i \in 1..Len(records) : records[i] = "detected" <=> i = 1
JournalWellFormed == \A e \in Events : OneStory(journal[e])

\* Whatever the race between a worker and stop(), the journal never disagrees
\* with the state the task ended in.
JournalAgreesWithTask ==
    \A e \in Events : task[e] # "none" =>
        \A i \in 2..Len(journal[e]) : journal[e][i] = task[e]

\* An event journaled as persisted has all its files in the incident directory
\* (an ExitInfo incident is journaled before it is written).
PersistedIsComplete ==
    \A e \in Events : task[e] = "persisted" => published[e] = FilesPerIncident

\* The backpressure counter is the number of slots really held: no path through
\* the dispatcher or a worker leaks or frees one twice.  (A future cancelled by
\* the shutdown and a submit that raised keep theirs.)
SlotHolders == {e \in Events : \/ dpc[e] \in {"acquired", "appended", "lost"}
                               \/ wpc[e] \notin {"none", "done"}}
SlotsAccounted == queued = Cardinality(SlotHolders) /\ queued <= MaxQueueSize

\* The incidents of a type that some callers let through.
LetThrough == DispatchPCs \ {"unseen", "accepted", "capped", "cap_detected", "turned_away"}
Counted(t, callers) ==
    {e \in Events : TypeOf[e] = t /\ by[e] \in callers /\ dpc[e] \in LetThrough}

\* _event_counts is the number of incidents of the type let through, although two
\* threads count, and only ExitInfo incidents can push it over the cap.
CapKept ==
    \A t \in Types :
        /\ counts[t] = Cardinality(Counted(t, Callers))
        /\ Cardinality(Counted(t, {"logcat", "flush"})) <= MaxIncidentsPerType

\* When the logcat thread was joined, stop() leaves no task unresolved.
StopResolvesAll ==
    (spc \in {"marked", "stopped", "closed"} /\ ~JoinMayTimeOut) =>
        \A e \in Events : task[e] \in TaskTerminals \cup {"none"}

\* A task's terminal state is final: stop() and the worker never overwrite each
\* other's claim.
TerminalIsFinal ==
    [][\A e \in Events : TerminalWritten(e) => task'[e] = task[e]]_vars

\* stop() returns even when dumps hang for ever.
StopReturns == (spc = "joining") ~> (spc = "closed")

\* What became of an incident, as the pipeline's memory has it.
OutcomeOf(pc, caller, state) ==
    CASE pc \in {"unseen", "accepted"} -> "none"
      [] state \in TaskTerminals -> state
      [] pc \in {"capped", "cap_detected", "turned_away", "rejected"} -> "dropped"
      [] caller = "exit_info" /\ pc \in {"exit_persisted", "done"} -> "persisted"
      [] caller # "exit_info" /\ pc = "done" /\ state = "none" -> "dropped"
      [] OTHER -> "open"
Outcome == [e \in Events |-> OutcomeOf(dpc[e], by[e], task[e])]
Ledger == INSTANCE IncidentLedger WITH outcome <- Outcome, over <- spc = "closed"

\* The pipeline keeps the ledger's promises: an incident is opened and settled
\* once, none is open when the journal is closed, and none changes afterwards.
ImplementsLedger == Ledger!Spec

\* If dumps do not hang, every open incident is settled, by its worker or stop().
SettlesEveryIncident == WorkerFairness => Ledger!SettlesAll

\* tasks.py: once stop() has claimed a task, its files are never published.
NoLatePublication ==
    [][\A e \in Events : task[e] = "timed_out" => published'[e] = published[e]]_vars

\* result.py: detected = persisted + failed + timed_out + dropped, with one
\* exception: when the journal is closed, a terminal record is only missing of a
\* task whose worker had claimed its end, and not yet journaled it.
MissingRecordWasClaimed ==
    spc = "closed" /\ ~JoinMayTimeOut =>
        \A e \in Events : Len(journal[e]) = 1 => task[e] \in {"persisted", "failed"}

\* The cap of each type and the slots of the queue are kept, and a slot is taken
\* exactly while its event is queued or at work.
LimitsKept == CapKept /\ SlotsAccounted

\* The journal tells one story of each event, and the true one: a detected record,
\* then the end the task had, and a persisted task has all its files.
JournalIsTrue == JournalWellFormed /\ JournalAgreesWithTask /\ PersistedIsComplete

\* When stop() returns no task is open, and a record is only missing of a task whose
\* worker had claimed its end.
StopLeavesNothing == StopResolvesAll /\ MissingRecordWasClaimed

\* stop() returns, whatever dumps do; if dumps do not hang, all is settled.
StopSettles == StopReturns /\ SettlesEveryIncident
=============================================================================
