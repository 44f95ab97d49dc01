---------------------- MODULE IncidentPipelineProofs ----------------------
(***************************************************************************)
(* The incident pipeline, for every set of events and every value of the   *)
(* limits.  Its journal never holds two terminal records of an event,      *)
(* never a terminal record before the detected one, and never one that     *)
(* disagrees with the state of the task.  The cap and the queue slots are  *)
(* kept; and when the logcat thread was joined, stop() leaves nothing open *)
(* and the pipeline implements the ledger of incidents.                    *)
(***************************************************************************)
EXTENDS IncidentPipeline, FiniteSetTheorems, TLAPS

\* No terminal record yet; or the journal was closed before the first record.
Quiet(e) == Len(journal[e]) <= 1 /\ (Len(journal[e]) = 0 => ~journalOpen)

Undetected == {"unseen", "accepted", "capped", "counted", "exit_counted"}
Underway == {"cap_detected", "detected", "rejected", "acquired", "exit_detected"}

\* How far the dispatcher, the worker and the published files can be apart.
StageInv(e) ==
    /\ task[e] = "none" => wpc[e] = "none"
    /\ task[e] # "none" => dpc[e] \in {"appended", "done", "lost"}
    /\ dpc[e] \in {"appended", "lost"} => task[e] # "none"
    /\ wpc[e] # "none" => dpc[e] = "done"
    /\ dpc[e] # "done" => published[e] = 0
    /\ wpc[e] \in {"queued", "dumping", "checking"} => published[e] = 0
    /\ wpc[e] = "publishing" => published[e] < FilesPerIncident
    /\ wpc[e] = "to_journal" => task[e] \in TaskTerminals
    /\ wpc[e] = "claiming" => published[e] = FilesPerIncident
    /\ task[e] = "persisted" => published[e] = FilesPerIncident

\* Who may still append a record, and what is there until then.
JournalInv(e) ==
    /\ OneStory(journal[e])
    /\ dpc[e] \in Undetected => Len(journal[e]) = 0
    /\ dpc[e] \in Underway => Quiet(e)
    /\ task[e] \in {"queued", "running"} => Quiet(e)
    /\ wpc[e] = "to_journal" => Quiet(e)
    /\ task[e] # "none" => \A i \in 2..Len(journal[e]) : journal[e][i] = task[e]

IInv ==
    /\ TypeOK
    /\ \A e \in Events : StageInv(e)
    /\ \A e \in Events : JournalInv(e)

-----------------------------------------------------------------------------
(* Records *)

\* What appending a record does to the journal of its event, and of others.
LEMMA RecordKeepsType ==
    ASSUME TypeOK, NEW f \in Events, NEW status \in Terminals \cup {"detected"},
           Record(f, status)
    PROVE  /\ journal' \in [Events -> Seq(Terminals \cup {"detected"})]
           /\ journalOpen' = journalOpen
           /\ journalOpen' \in BOOLEAN
  BY DEF TypeOK, Record

LEMMA RecordOther ==
    ASSUME TypeOK, NEW f \in Events, NEW status, Record(f, status)
    PROVE  \A e \in Events : e # f => journal'[e] = journal[e]
  BY DEF TypeOK, Record

LEMMA RecordAppends ==
    ASSUME TypeOK, NEW f \in Events, NEW status \in Terminals \cup {"detected"},
           Record(f, status), journalOpen
    PROVE  /\ Len(journal'[f]) = Len(journal[f]) + 1
           /\ \A i \in 1..Len(journal[f]) : journal'[f][i] = journal[f][i]
           /\ journal'[f][Len(journal[f]) + 1] = status
  BY DEF TypeOK, Record

\* The first record of an event leaves it without a terminal record.
LEMMA FirstRecord ==
    ASSUME TypeOK, NEW f \in Events, Record(f, "detected"), Len(journal[f]) = 0
    PROVE  OneStory(journal'[f]) /\ Quiet(f)'
<1>1. journalOpen \in BOOLEAN
  BY DEF TypeOK
<1>2. CASE journalOpen
  <2>1. /\ Len(journal'[f]) = Len(journal[f]) + 1
        /\ journal'[f][Len(journal[f]) + 1] = "detected"
    BY <1>2, RecordAppends
  <2>2. Len(journal'[f]) = 1 /\ journal'[f][1] = "detected"
    BY <2>1
  <2> QED
    BY <2>2 DEF OneStory, Quiet
<1>3. CASE ~journalOpen
  BY <1>3 DEF Record, OneStory, Quiet
<1> QED
  BY <1>1, <1>2, <1>3

LEMMA OneOfNat == \A n \in Nat : n <= 1 /\ n # 0 => n = 1
  OBVIOUS

\* A terminal record, when the event has none yet, completes its story.
LEMMA LastRecord ==
    ASSUME TypeOK, NEW f \in Events, NEW status \in Terminals, Record(f, status),
           OneStory(journal[f]), Quiet(f)
    PROVE  OneStory(journal'[f]) /\ \A i \in 2..Len(journal'[f]) : journal'[f][i] = status
<1>1. status # "detected"
  BY DEF Terminals, TaskTerminals
<1>2. journalOpen \in BOOLEAN /\ Len(journal[f]) \in Nat
  BY DEF TypeOK
<1>3. CASE journalOpen
  <2>1. Len(journal[f]) = 1
    <3>1. Len(journal[f]) # 0
      BY <1>3 DEF Quiet
    <3>2. Len(journal[f]) <= 1
      BY DEF Quiet
    <3> QED
      BY <1>2, <3>1, <3>2, OneOfNat
  <2>2. journal[f][1] = "detected"
    BY <2>1 DEF OneStory
  <2>3. /\ Len(journal'[f]) = Len(journal[f]) + 1
        /\ \A i \in 1..Len(journal[f]) : journal'[f][i] = journal[f][i]
        /\ journal'[f][Len(journal[f]) + 1] = status
    BY <1>3, RecordAppends
  <2>4. Len(journal'[f]) = 2 /\ journal'[f][1] = "detected" /\ journal'[f][2] = status
    BY <2>1, <2>2, <2>3
  <2> QED
    BY <1>1, <2>4 DEF OneStory
<1>4. CASE ~journalOpen
  <2>1. journal' = journal
    BY <1>4 DEF Record
  <2>2. Len(journal[f]) <= 1
    BY DEF Quiet
  <2> QED
    BY <1>2, <2>1, <2>2
<1> QED
  BY <1>2, <1>3, <1>4

-----------------------------------------------------------------------------
(* Steps that do arithmetic, with the types they keep *)

LEMMA AdmitCases ==
    ASSUME TypeOK, NEW f \in Events, Admit(f)
    PROVE  /\ counts' \in [Types -> Nat]
           /\ \/ dpc' = [dpc EXCEPT ![f] = "capped"]
              \/ dpc' = [dpc EXCEPT ![f] = "counted"]
<1>1. TypeOf[f] \in Types /\ counts \in [Types -> Nat]
  BY PipelineAssumption DEF PipelineAssumption, TypeOK
<1>2. counts[TypeOf[f]] + 1 \in Nat
  BY <1>1
<1>3. CASE CapReached(TypeOf[f])
  BY <1>1, <1>3 DEF Admit
<1>4. CASE ~CapReached(TypeOf[f])
  <2>1. /\ counts' = [counts EXCEPT ![TypeOf[f]] = counts[TypeOf[f]] + 1]
        /\ dpc' = [dpc EXCEPT ![f] = "counted"]
    BY <1>4 DEF Admit
  <2> QED
    BY <1>1, <1>2, <2>1
<1> QED
  BY <1>3, <1>4

LEMMA AcquireCases ==
    ASSUME TypeOK, NEW f \in Events, Acquire(f)
    PROVE  /\ queued' \in Nat
           /\ \/ dpc' = [dpc EXCEPT ![f] = "rejected"]
              \/ dpc' = [dpc EXCEPT ![f] = "acquired"]
<1>1. queued \in Nat
  BY DEF TypeOK
<1>2. CASE queued >= MaxQueueSize
  BY <1>1, <1>2 DEF Acquire
<1>3. CASE ~(queued >= MaxQueueSize)
  BY <1>1, <1>3 DEF Acquire
<1> QED
  BY <1>2, <1>3

-----------------------------------------------------------------------------
(* The inductive invariant *)

\* Every step keeps the types.
LEMMA TypeStep == IInv /\ Next => TypeOK'
<1> SUFFICES ASSUME IInv, Next PROVE TypeOK'
  OBVIOUS
<1> USE PipelineAssumption DEF IInv, dispatchVars, workerVars, logVars, TypeOK, StopPCs, Callers, DispatchPCs, WorkerPCs, TaskTerminals
<1>1. ASSUME NEW f \in Events, LogcatDispatch(f) PROVE TypeOK'
  BY <1>1 DEF LogcatDispatch, TakeUp
<1>2. ASSUME NEW f \in Events, FlushDispatch(f) PROVE TypeOK'
  BY <1>2 DEF FlushDispatch, TakeUp
<1>3. ASSUME NEW f \in Events, ExitInfoCount(f) PROVE TypeOK'
  BY <1>3 DEF ExitInfoCount, TakeUp
<1>4. ASSUME NEW f \in Events, Admit(f) PROVE TypeOK'
  <2>1. counts' \in [Types -> Nat] /\ dpc' \in [Events -> DispatchPCs]
    BY <1>4, AdmitCases
  <2> QED
    BY <1>4, <2>1 DEF Admit
<1>5. ASSUME NEW f \in Events, JournalDetected(f) PROVE TypeOK'
  <2>1. journal' \in [Events -> Seq(Terminals \cup {"detected"})] /\ journalOpen' \in BOOLEAN
    BY <1>5, RecordKeepsType DEF JournalDetected
  <2>2. dpc' \in [Events -> DispatchPCs]
    BY <1>5 DEF JournalDetected
  <2> QED
    BY <1>5, <2>1, <2>2 DEF JournalDetected
<1>6. ASSUME NEW f \in Events, JournalDropped(f) PROVE TypeOK'
  <2>1. journal' \in [Events -> Seq(Terminals \cup {"detected"})] /\ journalOpen' \in BOOLEAN
    BY <1>6, RecordKeepsType DEF JournalDropped, Terminals
  <2>2. dpc' \in [Events -> DispatchPCs]
    BY <1>6 DEF JournalDropped
  <2> QED
    BY <1>6, <2>1, <2>2 DEF JournalDropped
<1>7. ASSUME NEW f \in Events, Acquire(f) PROVE TypeOK'
  <2>1. queued' \in Nat /\ dpc' \in [Events -> DispatchPCs]
    BY <1>7, AcquireCases
  <2> QED
    BY <1>7, <2>1 DEF Acquire
<1>8. ASSUME NEW f \in Events, AppendTask(f) PROVE TypeOK'
  BY <1>8 DEF AppendTask
<1>9. ASSUME NEW f \in Events, SubmitTask(f) PROVE TypeOK'
  BY <1>9 DEF SubmitTask
<1>10. ASSUME NEW f \in Events, ExitInfoPersisted(f) PROVE TypeOK'
  <2>1. journal' \in [Events -> Seq(Terminals \cup {"detected"})] /\ journalOpen' \in BOOLEAN
    BY <1>10, RecordKeepsType DEF ExitInfoPersisted, Terminals
  <2> QED
    BY <1>10, <2>1 DEF ExitInfoPersisted
<1>11. ASSUME NEW f \in Events, ExitInfoWrite(f) PROVE TypeOK'
  <2>1. published' \in [Events -> 0..FilesPerIncident]
    BY <1>11 DEF ExitInfoWrite, PipelineAssumption
  <2> QED
    BY <1>11, <2>1 DEF ExitInfoWrite
<1>12. ASSUME NEW f \in Events, RunTask(f) PROVE TypeOK'
  BY <1>12 DEF RunTask, TerminalWritten, WorkerGoto
<1>13. ASSUME NEW f \in Events, DumpFails(f) PROVE TypeOK'
  BY <1>13 DEF DumpFails, WorkerGoto
<1>14. ASSUME NEW f \in Events, DumpCompletes(f) PROVE TypeOK'
  BY <1>14 DEF DumpCompletes, WorkerGoto
<1>15. ASSUME NEW f \in Events, CheckClaim(f) PROVE TypeOK'
  BY <1>15 DEF CheckClaim, TerminalWritten, WorkerGoto
<1>16. ASSUME NEW f \in Events, PublishFile(f) PROVE TypeOK'
  <2>1. published[f] \in 0..FilesPerIncident /\ published[f] < FilesPerIncident
    BY <1>16 DEF PublishFile, StageInv
  <2>2. published' \in [Events -> 0..FilesPerIncident]
    BY <1>16, <2>1 DEF PublishFile, PipelineAssumption
  <2>3. wpc' \in [Events -> WorkerPCs]
    BY <1>16 DEF PublishFile, WorkerGoto
  <2> QED
    BY <1>16, <2>2, <2>3 DEF PublishFile
<1>17. ASSUME NEW f \in Events, PublishFails(f) PROVE TypeOK'
  BY <1>17 DEF PublishFails, WorkerGoto
<1>18. ASSUME NEW f \in Events, ClaimPersisted(f) PROVE TypeOK'
  BY <1>18 DEF ClaimPersisted, Claim, TerminalWritten, WorkerGoto
<1>19. ASSUME NEW f \in Events, ClaimFailed(f) PROVE TypeOK'
  BY <1>19 DEF ClaimFailed, Claim, TerminalWritten, WorkerGoto
<1>20. ASSUME NEW f \in Events, JournalOutcome(f) PROVE TypeOK'
  <2>1. task[f] \in Terminals
    BY <1>20 DEF JournalOutcome, StageInv, Terminals
  <2>2. journal' \in [Events -> Seq(Terminals \cup {"detected"})] /\ journalOpen' \in BOOLEAN
    BY <1>20, <2>1, RecordKeepsType DEF JournalOutcome
  <2> QED
    BY <1>20, <2>2 DEF JournalOutcome, WorkerGoto
<1>21. ASSUME NEW f \in Events, Release(f) PROVE TypeOK'
  BY <1>21 DEF Release, WorkerGoto
<1>22. ASSUME NEW f \in Events, StopMark(f) PROVE TypeOK'
  <2>1. journal' \in [Events -> Seq(Terminals \cup {"detected"})] /\ journalOpen' \in BOOLEAN
    BY <1>22, RecordKeepsType DEF StopMark, Terminals
  <2> QED
    BY <1>22, <2>1 DEF StopMark
<1>23. ASSUME StopBegin PROVE TypeOK'
  BY <1>23 DEF StopBegin, StopGoto
<1>24. ASSUME StopJoin PROVE TypeOK'
  BY <1>24 DEF StopJoin, StopGoto
<1>25. ASSUME StopFlushed PROVE TypeOK'
  BY <1>25 DEF StopFlushed, StopGoto
<1>26. ASSUME StopDrain PROVE TypeOK'
  BY <1>26 DEF StopDrain, StopGoto, Unfinished
<1>27. ASSUME StopLock PROVE TypeOK'
  BY <1>27 DEF StopLock, StopGoto
<1>28. ASSUME StopUnlock PROVE TypeOK'
  BY <1>28 DEF StopUnlock, StopGoto
<1>29. ASSUME StopShutdown PROVE TypeOK'
  BY <1>29 DEF StopShutdown
<1>30. ASSUME Close PROVE TypeOK'
  BY <1>30 DEF Close, StopGoto
<1> QED
  BY <1>1, <1>2, <1>3, <1>4, <1>5, <1>6, <1>7, <1>8, <1>9, <1>10, <1>11, <1>12, <1>13, <1>14, <1>15,
     <1>16, <1>17, <1>18, <1>19, <1>20, <1>21, <1>22, <1>23, <1>24, <1>25, <1>26, <1>27, <1>28, <1>29, <1>30
  DEF Next, Stop, Dispatch, DispatchStep, Work

\* Every step keeps dispatcher, worker and files in step.
LEMMA StageStep == IInv /\ Next => \A e \in Events : StageInv(e)'
<1> SUFFICES ASSUME IInv, Next PROVE \A e \in Events : StageInv(e)'
  OBVIOUS
<1> USE PipelineAssumption DEF IInv, dispatchVars, workerVars, logVars, TypeOK, StopPCs, Callers, DispatchPCs, WorkerPCs, TaskTerminals, StageInv
<1>1. ASSUME NEW f \in Events, LogcatDispatch(f) PROVE \A e \in Events : StageInv(e)'
  BY <1>1 DEF LogcatDispatch, TakeUp
<1>2. ASSUME NEW f \in Events, FlushDispatch(f) PROVE \A e \in Events : StageInv(e)'
  BY <1>2 DEF FlushDispatch, TakeUp
<1>3. ASSUME NEW f \in Events, ExitInfoCount(f) PROVE \A e \in Events : StageInv(e)'
  BY <1>3 DEF ExitInfoCount, TakeUp
<1>4. ASSUME NEW f \in Events, Admit(f) PROVE \A e \in Events : StageInv(e)'
  <2>1. UNCHANGED <<task, wpc, published>>
    BY <1>4 DEF Admit
  <2>2. \A e \in Events : e # f => dpc'[e] = dpc[e]
    BY <1>4 DEF Admit
  <2>3. dpc[f] = "accepted" /\ dpc'[f] \in {"capped", "counted"}
    BY <1>4 DEF Admit
  <2> QED
    BY <2>1, <2>2, <2>3 DEF StageInv
<1>5. ASSUME NEW f \in Events, JournalDetected(f) PROVE \A e \in Events : StageInv(e)'
  <2>1. UNCHANGED <<task, wpc, published>>
    BY <1>5 DEF JournalDetected
  <2>2. \A e \in Events : e # f => dpc'[e] = dpc[e]
    BY <1>5 DEF JournalDetected
  <2>3. /\ dpc[f] \in {"capped", "counted", "exit_counted"}
        /\ dpc'[f] \in {"cap_detected", "detected", "exit_detected"}
    BY <1>5 DEF JournalDetected
  <2> QED
    BY <2>1, <2>2, <2>3 DEF StageInv
<1>6. ASSUME NEW f \in Events, JournalDropped(f) PROVE \A e \in Events : StageInv(e)'
  <2>1. UNCHANGED <<task, wpc, published>>
    BY <1>6 DEF JournalDropped
  <2>2. \A e \in Events : e # f => dpc'[e] = dpc[e]
    BY <1>6 DEF JournalDropped
  <2>3. dpc[f] \in {"cap_detected", "rejected"} /\ dpc'[f] \in {"turned_away", "done"}
    BY <1>6 DEF JournalDropped
  <2> QED
    BY <2>1, <2>2, <2>3 DEF StageInv
<1>7. ASSUME NEW f \in Events, Acquire(f) PROVE \A e \in Events : StageInv(e)'
  <2>1. UNCHANGED <<task, wpc, published>> /\ dpc[f] = "detected"
    BY <1>7 DEF Acquire
  <2>2. \A e \in Events : e # f => dpc'[e] = dpc[e]
    BY <1>7 DEF Acquire
  <2>3. dpc'[f] \in {"rejected", "acquired"}
    BY <1>7 DEF Acquire
  <2> QED
    BY <2>1, <2>2, <2>3 DEF StageInv
<1>8. ASSUME NEW f \in Events, AppendTask(f) PROVE \A e \in Events : StageInv(e)'
  BY <1>8 DEF AppendTask
<1>9. ASSUME NEW f \in Events, SubmitTask(f) PROVE \A e \in Events : StageInv(e)'
  <2>1. UNCHANGED <<task, published>>
    BY <1>9 DEF SubmitTask
  <2>2. \A e \in Events : e # f => dpc'[e] = dpc[e] /\ wpc'[e] = wpc[e]
    BY <1>9 DEF SubmitTask
  <2>3. /\ dpc[f] = "appended"
        /\ \/ dpc'[f] = "lost" /\ wpc'[f] = wpc[f]
           \/ dpc'[f] = "done" /\ wpc'[f] = "queued" 
    BY <1>9 DEF SubmitTask
  <2>4. published[f] = 0 /\ wpc[f] = "none"
    BY <2>3 DEF StageInv
  <2>5. task[f] # "none"
    BY <2>3 DEF StageInv
  <2> QED
    BY <2>1, <2>2, <2>3, <2>4, <2>5 DEF StageInv
<1>10. ASSUME NEW f \in Events, ExitInfoPersisted(f) PROVE \A e \in Events : StageInv(e)'
  BY <1>10 DEF ExitInfoPersisted
<1>11. ASSUME NEW f \in Events, ExitInfoWrite(f) PROVE \A e \in Events : StageInv(e)'
  BY <1>11 DEF ExitInfoWrite
<1>12. ASSUME NEW f \in Events, RunTask(f) PROVE \A e \in Events : StageInv(e)'
  BY <1>12 DEF RunTask, TerminalWritten, WorkerGoto
<1>13. ASSUME NEW f \in Events, DumpFails(f) PROVE \A e \in Events : StageInv(e)'
  BY <1>13 DEF DumpFails, WorkerGoto
<1>14. ASSUME NEW f \in Events, DumpCompletes(f) PROVE \A e \in Events : StageInv(e)'
  BY <1>14 DEF DumpCompletes, WorkerGoto
<1>15. ASSUME NEW f \in Events, CheckClaim(f) PROVE \A e \in Events : StageInv(e)'
  BY <1>15 DEF CheckClaim, TerminalWritten, WorkerGoto
<1>16. ASSUME NEW f \in Events, PublishFile(f) PROVE \A e \in Events : StageInv(e)'
  BY <1>16 DEF PublishFile, WorkerGoto
<1>17. ASSUME NEW f \in Events, PublishFails(f) PROVE \A e \in Events : StageInv(e)'
  BY <1>17 DEF PublishFails, WorkerGoto
<1>18. ASSUME NEW f \in Events, ClaimPersisted(f) PROVE \A e \in Events : StageInv(e)'
  BY <1>18 DEF ClaimPersisted, Claim, TerminalWritten, WorkerGoto
<1>19. ASSUME NEW f \in Events, ClaimFailed(f) PROVE \A e \in Events : StageInv(e)'
  BY <1>19 DEF ClaimFailed, Claim, TerminalWritten, WorkerGoto
<1>20. ASSUME NEW f \in Events, JournalOutcome(f) PROVE \A e \in Events : StageInv(e)'
  BY <1>20 DEF JournalOutcome, WorkerGoto
<1>21. ASSUME NEW f \in Events, Release(f) PROVE \A e \in Events : StageInv(e)'
  BY <1>21 DEF Release, WorkerGoto
<1>22. ASSUME NEW f \in Events, StopMark(f) PROVE \A e \in Events : StageInv(e)'
  BY <1>22 DEF StopMark, Unfinished
<1>23. ASSUME StopBegin PROVE \A e \in Events : StageInv(e)'
  BY <1>23 DEF StopBegin, StopGoto
<1>24. ASSUME StopJoin PROVE \A e \in Events : StageInv(e)'
  BY <1>24 DEF StopJoin, StopGoto
<1>25. ASSUME StopFlushed PROVE \A e \in Events : StageInv(e)'
  BY <1>25 DEF StopFlushed, StopGoto
<1>26. ASSUME StopDrain PROVE \A e \in Events : StageInv(e)'
  BY <1>26 DEF StopDrain, StopGoto, Unfinished
<1>27. ASSUME StopLock PROVE \A e \in Events : StageInv(e)'
  BY <1>27 DEF StopLock, StopGoto
<1>28. ASSUME StopUnlock PROVE \A e \in Events : StageInv(e)'
  BY <1>28 DEF StopUnlock, StopGoto
<1>29. ASSUME StopShutdown PROVE \A e \in Events : StageInv(e)'
  BY <1>29 DEF StopShutdown
<1>30. ASSUME Close PROVE \A e \in Events : StageInv(e)'
  BY <1>30 DEF Close, StopGoto
<1> QED
  BY <1>1, <1>2, <1>3, <1>4, <1>5, <1>6, <1>7, <1>8, <1>9, <1>10, <1>11, <1>12, <1>13, <1>14, <1>15,
     <1>16, <1>17, <1>18, <1>19, <1>20, <1>21, <1>22, <1>23, <1>24, <1>25, <1>26, <1>27, <1>28, <1>29, <1>30
  DEF Next, Stop, Dispatch, DispatchStep, Work

\* A claim finds no terminal record, or changes nothing in the journal's favour.
LEMMA ClaimKeepsJournal ==
    ASSUME IInv, NEW f \in Events, NEW pc \in {"claiming", "failing"},
           NEW state \in TaskTerminals, Claim(f, pc, state)
    PROVE  \A e \in Events : JournalInv(e)'
<1> USE DEF IInv, TypeOK, dispatchVars, workerVars, logVars
<1>1. UNCHANGED <<dpc, journal, journalOpen>>
  BY DEF Claim
<1>2. \A e \in Events : e # f => wpc'[e] = wpc[e] /\ task'[e] = task[e]
  BY DEF Claim, WorkerGoto
<1>3. wpc[f] = pc
  BY DEF Claim
<1>4. task[f] # "none" /\ dpc[f] = "done"
  BY <1>3 DEF StageInv
<1>5. CASE TerminalWritten(f)
  <2>1. wpc'[f] = "releasing" /\ task' = task
    BY <1>5 DEF Claim, WorkerGoto
  <2> QED
    BY <1>1, <1>2, <2>1 DEF JournalInv, Quiet
<1>6. CASE ~TerminalWritten(f)
  <2>1. task[f] \in {"queued", "running"}
    BY <1>4, <1>6 DEF TerminalWritten
  <2>2. Quiet(f) /\ OneStory(journal[f])
    BY <2>1 DEF JournalInv
  <2>3. \A i \in 2..Len(journal[f]) : FALSE
    BY <2>2 DEF Quiet
  <2>4. task'[f] = state
    BY <1>6 DEF Claim
  <2>5. JournalInv(f)'
    BY <1>1, <1>4, <2>2, <2>3, <2>4 DEF JournalInv, Quiet, TaskTerminals, Undetected, Underway
  <2>6. \A e \in Events : e # f => JournalInv(e)'
    BY <1>1, <1>2 DEF JournalInv, Quiet
  <2> QED
    BY <2>5, <2>6
<1> QED
  BY <1>5, <1>6

\* Every step keeps one story per event in the journal.
LEMMA JournalStep == IInv /\ Next => \A e \in Events : JournalInv(e)'
<1> SUFFICES ASSUME IInv, Next PROVE \A e \in Events : JournalInv(e)'
  OBVIOUS
<1> USE PipelineAssumption DEF IInv, dispatchVars, workerVars, logVars, TypeOK, StopPCs, Callers, DispatchPCs, WorkerPCs, TaskTerminals
<1>1. ASSUME NEW f \in Events, LogcatDispatch(f) PROVE \A e \in Events : JournalInv(e)'
  BY <1>1 DEF LogcatDispatch, TakeUp, JournalInv, StageInv, Quiet, Undetected, Underway
<1>2. ASSUME NEW f \in Events, FlushDispatch(f) PROVE \A e \in Events : JournalInv(e)'
  BY <1>2 DEF FlushDispatch, TakeUp, JournalInv, StageInv, Quiet, Undetected, Underway
<1>3. ASSUME NEW f \in Events, ExitInfoCount(f) PROVE \A e \in Events : JournalInv(e)'
  BY <1>3 DEF ExitInfoCount, TakeUp, JournalInv, StageInv, Quiet, Undetected, Underway
<1>4. ASSUME NEW f \in Events, Admit(f) PROVE \A e \in Events : JournalInv(e)'
  BY <1>4 DEF Admit, JournalInv, StageInv, Quiet, Undetected, Underway
<1>5. ASSUME NEW f \in Events, JournalDetected(f) PROVE \A e \in Events : JournalInv(e)'
  <2>1. OneStory(journal'[f]) /\ Quiet(f)'
    BY <1>5, FirstRecord DEF JournalDetected, JournalInv, Undetected
  <2>2. \A e \in Events : e # f => journal'[e] = journal[e] /\ dpc'[e] = dpc[e]
    BY <1>5, RecordOther DEF JournalDetected
  <2>3. UNCHANGED <<task, wpc, journalOpen>>
    BY <1>5 DEF JournalDetected, Record
  <2>4. dpc'[f] \in Underway /\ task[f] = "none" /\ wpc[f] = "none"
    BY <1>5 DEF JournalDetected, StageInv, Underway
  <2>7. JournalInv(f)'
    BY <2>1, <2>2, <2>3, <2>4 DEF JournalInv, Undetected, Underway
  <2>8. \A e \in Events : e # f => JournalInv(e)'
    BY <2>1, <2>2, <2>3, <2>4 DEF JournalInv, Quiet
  <2> QED
    BY <2>7, <2>8
<1>6. ASSUME NEW f \in Events, JournalDropped(f) PROVE \A e \in Events : JournalInv(e)'
  <2>1. OneStory(journal[f]) /\ Quiet(f)
    BY <1>6 DEF JournalDropped, JournalInv, Underway
  <2>2. OneStory(journal'[f])
    BY <1>6, <2>1, LastRecord DEF JournalDropped, Terminals
  <2>3. \A e \in Events : e # f => journal'[e] = journal[e] /\ dpc'[e] = dpc[e]
    BY <1>6, RecordOther DEF JournalDropped
  <2>4. UNCHANGED <<task, wpc, journalOpen>>
    BY <1>6 DEF JournalDropped, Record
  <2>5. dpc'[f] \in Returned /\ task[f] = "none" /\ wpc[f] = "none"
    BY <1>6 DEF JournalDropped, StageInv, Returned
  <2>7. JournalInv(f)'
    BY <2>2, <2>3, <2>4, <2>5 DEF JournalInv, Undetected, Underway, Returned
  <2>8. \A e \in Events : e # f => JournalInv(e)'
    BY <2>2, <2>3, <2>4, <2>5 DEF JournalInv, Quiet
  <2> QED
    BY <2>7, <2>8
<1>7. ASSUME NEW f \in Events, Acquire(f) PROVE \A e \in Events : JournalInv(e)'
  BY <1>7 DEF Acquire, JournalInv, StageInv, Quiet, Undetected, Underway
<1>8. ASSUME NEW f \in Events, AppendTask(f) PROVE \A e \in Events : JournalInv(e)'
  BY <1>8 DEF AppendTask, JournalInv, StageInv, Quiet, Undetected, Underway
<1>9. ASSUME NEW f \in Events, SubmitTask(f) PROVE \A e \in Events : JournalInv(e)'
  BY <1>9 DEF SubmitTask, JournalInv, StageInv, Quiet, Undetected, Underway
<1>10. ASSUME NEW f \in Events, ExitInfoPersisted(f) PROVE \A e \in Events : JournalInv(e)'
  <2>1. OneStory(journal[f]) /\ Quiet(f)
    BY <1>10 DEF ExitInfoPersisted, JournalInv, Underway
  <2>2. OneStory(journal'[f])
    BY <1>10, <2>1, LastRecord DEF ExitInfoPersisted, Terminals
  <2>3. \A e \in Events : e # f => journal'[e] = journal[e] /\ dpc'[e] = dpc[e]
    BY <1>10, RecordOther DEF ExitInfoPersisted
  <2>4. UNCHANGED <<task, wpc, journalOpen>>
    BY <1>10 DEF ExitInfoPersisted, Record
  <2>5. dpc'[f] = "exit_persisted" /\ task[f] = "none" /\ wpc[f] = "none"
    BY <1>10 DEF ExitInfoPersisted, StageInv
  <2>7. JournalInv(f)'
    BY <2>2, <2>3, <2>4, <2>5 DEF JournalInv, Undetected, Underway
  <2>8. \A e \in Events : e # f => JournalInv(e)'
    BY <2>2, <2>3, <2>4, <2>5 DEF JournalInv, Quiet
  <2> QED
    BY <2>7, <2>8
<1>11. ASSUME NEW f \in Events, ExitInfoWrite(f) PROVE \A e \in Events : JournalInv(e)'
  BY <1>11 DEF ExitInfoWrite, JournalInv, StageInv, Quiet, Undetected, Underway
<1>12. ASSUME NEW f \in Events, RunTask(f) PROVE \A e \in Events : JournalInv(e)'
  <2>1. UNCHANGED <<dpc, journal, journalOpen>>
    BY <1>12 DEF RunTask
  <2>2. \A e \in Events : e # f => wpc'[e] = wpc[e] /\ task'[e] = task[e]
    BY <1>12 DEF RunTask, WorkerGoto
  <2>3. /\ wpc'[f] # "to_journal" /\ task[f] # "none"
        /\ \/ task'[f] = task[f]
           \/ task[f] \in {"queued", "running"} /\ task'[f] = "running"
    BY <1>12 DEF RunTask, WorkerGoto, TerminalWritten, StageInv
  <2>4. \A e \in Events : e # f => JournalInv(e)'
    BY <2>1, <2>2 DEF JournalInv, Quiet
  <2>5. JournalInv(f)'
    BY <2>1, <2>3 DEF JournalInv, Quiet
  <2> QED
    BY <2>4, <2>5
<1>13. ASSUME NEW f \in Events, DumpFails(f) PROVE \A e \in Events : JournalInv(e)'
  BY <1>13 DEF DumpFails, WorkerGoto, JournalInv, StageInv, Quiet, Undetected, Underway
<1>14. ASSUME NEW f \in Events, DumpCompletes(f) PROVE \A e \in Events : JournalInv(e)'
  BY <1>14 DEF DumpCompletes, WorkerGoto, JournalInv, StageInv, Quiet, Undetected, Underway
<1>15. ASSUME NEW f \in Events, CheckClaim(f) PROVE \A e \in Events : JournalInv(e)'
  BY <1>15 DEF CheckClaim, TerminalWritten, WorkerGoto, JournalInv, StageInv, Quiet, Undetected, Underway
<1>16. ASSUME NEW f \in Events, PublishFile(f) PROVE \A e \in Events : JournalInv(e)'
  BY <1>16 DEF PublishFile, WorkerGoto, JournalInv, StageInv, Quiet, Undetected, Underway
<1>17. ASSUME NEW f \in Events, PublishFails(f) PROVE \A e \in Events : JournalInv(e)'
  BY <1>17 DEF PublishFails, WorkerGoto, JournalInv, StageInv, Quiet, Undetected, Underway
<1>18. ASSUME NEW f \in Events, ClaimPersisted(f) PROVE \A e \in Events : JournalInv(e)'
  BY <1>18, ClaimKeepsJournal DEF ClaimPersisted
<1>19. ASSUME NEW f \in Events, ClaimFailed(f) PROVE \A e \in Events : JournalInv(e)'
  BY <1>19, ClaimKeepsJournal DEF ClaimFailed
<1>20. ASSUME NEW f \in Events, JournalOutcome(f) PROVE \A e \in Events : JournalInv(e)'
  <2>1. OneStory(journal[f]) /\ Quiet(f) /\ task[f] \in TaskTerminals
    BY <1>20 DEF JournalOutcome, JournalInv, StageInv
  <2>2. /\ OneStory(journal'[f])
        /\ \A i \in 2..Len(journal'[f]) : journal'[f][i] = task[f]
    BY <1>20, <2>1, LastRecord DEF JournalOutcome, Terminals
  <2>3. \A e \in Events : e # f => journal'[e] = journal[e] /\ wpc'[e] = wpc[e]
    BY <1>20, RecordOther DEF JournalOutcome, WorkerGoto
  <2>4. UNCHANGED <<task, dpc, journalOpen>>
    BY <1>20 DEF JournalOutcome, Record
  <2>5. wpc'[f] = "releasing" /\ dpc[f] = "done"
    BY <1>20 DEF JournalOutcome, StageInv, WorkerGoto
  <2>7. JournalInv(f)'
    BY <2>1, <2>2, <2>3, <2>4, <2>5 DEF JournalInv, Undetected, Underway
  <2>8. \A e \in Events : e # f => JournalInv(e)'
    BY <2>1, <2>2, <2>3, <2>4, <2>5 DEF JournalInv, Quiet
  <2> QED
    BY <2>7, <2>8
<1>21. ASSUME NEW f \in Events, Release(f) PROVE \A e \in Events : JournalInv(e)'
  BY <1>21 DEF Release, WorkerGoto, JournalInv, StageInv, Quiet, Undetected, Underway
<1>22. ASSUME NEW f \in Events, StopMark(f) PROVE \A e \in Events : JournalInv(e)'
  <2>1. task[f] \in {"queued", "running"}
    BY <1>22 DEF StopMark, Unfinished
  <2>2. OneStory(journal[f]) /\ Quiet(f) /\ dpc[f] \in {"appended", "done", "lost"}
    BY <2>1 DEF JournalInv, StageInv
  <2>3. /\ OneStory(journal'[f])
        /\ \A i \in 2..Len(journal'[f]) : journal'[f][i] = "timed_out"
    BY <1>22, <2>2, LastRecord DEF StopMark, Terminals
  <2>4. \A e \in Events : e # f => journal'[e] = journal[e] /\ task'[e] = task[e]
    BY <1>22, RecordOther DEF StopMark
  <2>5. UNCHANGED <<wpc, dpc, journalOpen>>
    BY <1>22 DEF StopMark, Record
  <2>6. task'[f] = "timed_out" /\ wpc[f] # "to_journal"
    BY <1>22, <2>1 DEF StopMark, StageInv
  <2>7. JournalInv(f)'
    BY <2>2, <2>3, <2>4, <2>5, <2>6 DEF JournalInv, Undetected, Underway
  <2>8. \A e \in Events : e # f => JournalInv(e)'
    BY <2>2, <2>3, <2>4, <2>5, <2>6 DEF JournalInv, Quiet
  <2> QED
    BY <2>7, <2>8
<1>23. ASSUME StopBegin PROVE \A e \in Events : JournalInv(e)'
  BY <1>23 DEF StopBegin, StopGoto, JournalInv, StageInv, Quiet, Undetected, Underway
<1>24. ASSUME StopJoin PROVE \A e \in Events : JournalInv(e)'
  BY <1>24 DEF StopJoin, StopGoto, JournalInv, StageInv, Quiet, Undetected, Underway
<1>25. ASSUME StopFlushed PROVE \A e \in Events : JournalInv(e)'
  BY <1>25 DEF StopFlushed, StopGoto, JournalInv, StageInv, Quiet, Undetected, Underway
<1>26. ASSUME StopDrain PROVE \A e \in Events : JournalInv(e)'
  BY <1>26 DEF StopDrain, StopGoto, Unfinished, JournalInv, StageInv, Quiet, Undetected, Underway
<1>27. ASSUME StopLock PROVE \A e \in Events : JournalInv(e)'
  BY <1>27 DEF StopLock, StopGoto, JournalInv, StageInv, Quiet, Undetected, Underway
<1>28. ASSUME StopUnlock PROVE \A e \in Events : JournalInv(e)'
  BY <1>28 DEF StopUnlock, StopGoto, JournalInv, StageInv, Quiet, Undetected, Underway
<1>29. ASSUME StopShutdown PROVE \A e \in Events : JournalInv(e)'
  BY <1>29 DEF StopShutdown, JournalInv, StageInv, Quiet, Undetected, Underway
<1>30. ASSUME Close PROVE \A e \in Events : JournalInv(e)'
  BY <1>30 DEF Close, StopGoto, JournalInv, StageInv, Quiet, Undetected, Underway
<1> QED
  BY <1>1, <1>2, <1>3, <1>4, <1>5, <1>6, <1>7, <1>8, <1>9, <1>10, <1>11, <1>12, <1>13, <1>14, <1>15,
     <1>16, <1>17, <1>18, <1>19, <1>20, <1>21, <1>22, <1>23, <1>24, <1>25, <1>26, <1>27, <1>28, <1>29, <1>30
  DEF Next, Stop, Dispatch, DispatchStep, Work

-----------------------------------------------------------------------------
(* The theorems *)

LEMMA InitIInv == Init => IInv
<1> SUFFICES ASSUME Init PROVE IInv
  OBVIOUS
<1>1. TypeOK
  BY PipelineAssumption
  DEF Init, TypeOK, StopPCs, Callers, DispatchPCs, WorkerPCs, TaskTerminals, PipelineAssumption
<1>2. \A e \in Events : StageInv(e)
  BY DEF Init, StageInv
<1>3. \A e \in Events : JournalInv(e)
  BY DEF Init, JournalInv, OneStory, Undetected, Underway
<1> QED
  BY <1>1, <1>2, <1>3 DEF IInv

LEMMA StutterIInv == IInv /\ UNCHANGED vars => IInv'
BY DEF IInv, TypeOK, StageInv, JournalInv, Quiet, vars, dispatchVars, workerVars, logVars

\* The inductive invariant holds in every reachable state.
THEOREM InvariantHolds == Spec => []IInv
<1>1. IInv /\ [Next]_vars => IInv'
  BY TypeStep, StageStep, JournalStep, StutterIInv DEF IInv
<1> QED
  BY InitIInv, <1>1, PTL DEF Spec

\* Every variable keeps its type; in particular no path publishes more files
\* than were staged, although published is only ever counted up.
THEOREM TypeCorrect == Spec => []TypeOK
<1>1. IInv => TypeOK
  BY DEF IInv
<1> QED
  BY InvariantHolds, <1>1, PTL

\* The journal tells one story per event: the records of the dispatcher, the
\* worker and stop() never add up to two terminal ones (pool.py's rule that
\* whoever writes the terminal state does so under _task_lock, and once).
THEOREM JournalTellsOneStory == Spec => []JournalWellFormed
<1>1. IInv => JournalWellFormed
  BY DEF IInv, JournalInv, JournalWellFormed
<1> QED
  BY InvariantHolds, <1>1, PTL

\* The terminal record of a task is the state the task ended in.
THEOREM JournalTellsTheTruth == Spec => []JournalAgreesWithTask
<1>1. IInv => JournalAgreesWithTask
  BY DEF IInv, JournalInv, JournalAgreesWithTask
<1> QED
  BY InvariantHolds, <1>1, PTL

\* A task that ended persisted has published every staged file.
THEOREM PersistedHasItsFiles == Spec => []PersistedIsComplete
<1>1. IInv => PersistedIsComplete
  BY DEF IInv, StageInv, PersistedIsComplete
<1> QED
  BY InvariantHolds, <1>1, PTL

\* The three together: whatever the workers, the dispatcher and stop() do, what the
\* journal says of an event is one story, the one that happened, and it has its files.
THEOREM JournalHoldsTrue == Spec => []JournalIsTrue
BY JournalTellsOneStory, JournalTellsTheTruth, PersistedHasItsFiles, PTL DEF JournalIsTrue

\* A worker and stop() never overwrite each other's claim of a task.
THEOREM ClaimsAreFinal == Spec => TerminalIsFinal
<1>1. IInv /\ [Next]_vars => [\A e \in Events : TerminalWritten(e) => task'[e] = task[e]]_vars
  <2> SUFFICES ASSUME IInv, Next, NEW e \in Events, TerminalWritten(e)
               PROVE  task'[e] = task[e]
    OBVIOUS
  <2> USE DEF IInv, TypeOK, TerminalWritten, TaskTerminals, dispatchVars, workerVars
  <2>1. ASSUME NEW f \in Events, Dispatch(f) PROVE task'[e] = task[e]
    <3>1. ASSUME AppendTask(f) PROVE task'[e] = task[e]
      <4>1. dpc[f] = "acquired" /\ task' = [task EXCEPT ![f] = "queued"]
        BY <3>1 DEF AppendTask
      <4>2. task[f] = "none"
        BY <4>1 DEF StageInv
      <4> QED
        BY <4>1, <4>2
    <3> QED
      BY <2>1, <3>1 DEF Dispatch, LogcatDispatch, FlushDispatch, ExitInfoCount, DispatchStep, Admit,
         JournalDetected, JournalDropped, Acquire, SubmitTask, ExitInfoPersisted, ExitInfoWrite
  <2>2. ASSUME NEW f \in Events, Work(f) PROVE task'[e] = task[e]
    BY <2>2 DEF Work, RunTask, DumpFails, DumpCompletes, CheckClaim, PublishFile, PublishFails,
       ClaimPersisted, ClaimFailed, Claim, JournalOutcome, Release
  <2>3. ASSUME NEW f \in Events, StopMark(f) PROVE task'[e] = task[e]
    BY <2>3 DEF StopMark, Unfinished
  <2>4. ASSUME StopBegin \/ StopJoin \/ StopFlushed \/ StopDrain \/ StopLock
               \/ StopUnlock \/ StopShutdown \/ Close
        PROVE  task'[e] = task[e]
    BY <2>4 DEF StopBegin, StopJoin, StopFlushed, StopDrain, StopLock, StopUnlock,
       StopShutdown, Close, StopGoto
  <2> QED
    BY <2>1, <2>2, <2>3, <2>4 DEF Next, Stop
<1> QED
  BY InvariantHolds, <1>1, PTL DEF Spec, TerminalIsFinal

-----------------------------------------------------------------------------
(* The limits, the stop and the ledger                                     *)

ExitInfoPCs == {"exit_counted", "exit_detected", "exit_persisted"}

\* The caller of an event decides which way it goes, and a worker that has claimed
\* or found an end leaves a task with one.
CallerInv(e) ==
    /\ dpc[e] = "unseen" <=> by[e] = "none"
    /\ by[e] = "exit_info" => dpc[e] \in ExitInfoPCs \cup {"done"} /\ task[e] = "none"
    /\ dpc[e] \in ExitInfoPCs => by[e] = "exit_info"
    /\ wpc[e] \in {"to_journal", "releasing", "done"} => task[e] \in TaskTerminals
CallersInv == \A e \in Events : CallerInv(e)

\* An event is counted from the admission on, and holds a slot from the acquisition
\* to the release.
IsCounted(e) == dpc[e] \in LetThrough
HoldsSlot(e) == dpc[e] \in {"acquired", "appended", "lost"} \/ wpc[e] \notin {"none", "done"}

SlotsInv == IsFiniteSet(SlotHolders) /\ SlotsAccounted
CountsInv == CapKept /\ \A t \in Types : IsFiniteSet(Counted(t, Callers))

-----------------------------------------------------------------------------
(* Callers *)

\* Every step keeps each event on its caller's way.
LEMMA CallersStep == IInv /\ CallersInv /\ Next => CallersInv'
<1> SUFFICES ASSUME IInv, CallersInv, Next PROVE \A e \in Events : CallerInv(e)'
  BY DEF CallersInv
<1>a. TypeOK /\ \A e \in Events : StageInv(e) /\ CallerInv(e)
  BY DEF IInv, CallersInv
<1> USE <1>a DEF dispatchVars, workerVars, logVars, TypeOK, StopPCs, Callers, TaskTerminals, ExitInfoPCs
<1>1. ASSUME NEW f \in Events, LogcatDispatch(f) PROVE \A e \in Events : CallerInv(e)'
  BY <1>1 DEF LogcatDispatch, TakeUp, CallerInv, StageInv
<1>2. ASSUME NEW f \in Events, FlushDispatch(f) PROVE \A e \in Events : CallerInv(e)'
  BY <1>2 DEF FlushDispatch, TakeUp, CallerInv, StageInv
<1>3. ASSUME NEW f \in Events, ExitInfoCount(f) PROVE \A e \in Events : CallerInv(e)'
  BY <1>3 DEF ExitInfoCount, TakeUp, CallerInv, StageInv
<1>4. ASSUME NEW f \in Events, Admit(f) PROVE \A e \in Events : CallerInv(e)'
  BY <1>4 DEF Admit, CallerInv, StageInv
<1>5. ASSUME NEW f \in Events, JournalDetected(f) PROVE \A e \in Events : CallerInv(e)'
  BY <1>5 DEF JournalDetected, CallerInv, StageInv
<1>6. ASSUME NEW f \in Events, JournalDropped(f) PROVE \A e \in Events : CallerInv(e)'
  BY <1>6 DEF JournalDropped, CallerInv, StageInv
<1>7. ASSUME NEW f \in Events, Acquire(f) PROVE \A e \in Events : CallerInv(e)'
  BY <1>7 DEF Acquire, CallerInv, StageInv
<1>8. ASSUME NEW f \in Events, AppendTask(f) PROVE \A e \in Events : CallerInv(e)'
  BY <1>8 DEF AppendTask, CallerInv, StageInv
<1>9. ASSUME NEW f \in Events, SubmitTask(f) PROVE \A e \in Events : CallerInv(e)'
  BY <1>9 DEF SubmitTask, CallerInv, StageInv
<1>10. ASSUME NEW f \in Events, ExitInfoPersisted(f) PROVE \A e \in Events : CallerInv(e)'
  BY <1>10 DEF ExitInfoPersisted, CallerInv, StageInv
<1>11. ASSUME NEW f \in Events, ExitInfoWrite(f) PROVE \A e \in Events : CallerInv(e)'
  BY <1>11 DEF ExitInfoWrite, CallerInv, StageInv
<1>12. ASSUME NEW f \in Events, RunTask(f) PROVE \A e \in Events : CallerInv(e)'
  BY <1>12 DEF RunTask, WorkerGoto, TerminalWritten, CallerInv, StageInv
<1>13. ASSUME NEW f \in Events, DumpFails(f) PROVE \A e \in Events : CallerInv(e)'
  BY <1>13 DEF DumpFails, WorkerGoto, CallerInv, StageInv
<1>14. ASSUME NEW f \in Events, DumpCompletes(f) PROVE \A e \in Events : CallerInv(e)'
  BY <1>14 DEF DumpCompletes, WorkerGoto, CallerInv, StageInv
<1>15. ASSUME NEW f \in Events, CheckClaim(f) PROVE \A e \in Events : CallerInv(e)'
  BY <1>15 DEF CheckClaim, WorkerGoto, TerminalWritten, CallerInv, StageInv
<1>16. ASSUME NEW f \in Events, PublishFile(f) PROVE \A e \in Events : CallerInv(e)'
  BY <1>16 DEF PublishFile, WorkerGoto, CallerInv, StageInv
<1>17. ASSUME NEW f \in Events, PublishFails(f) PROVE \A e \in Events : CallerInv(e)'
  BY <1>17 DEF PublishFails, WorkerGoto, CallerInv, StageInv
<1>18. ASSUME NEW f \in Events, ClaimPersisted(f) PROVE \A e \in Events : CallerInv(e)'
  BY <1>18 DEF ClaimPersisted, Claim, WorkerGoto, TerminalWritten, CallerInv, StageInv
<1>19. ASSUME NEW f \in Events, ClaimFailed(f) PROVE \A e \in Events : CallerInv(e)'
  BY <1>19 DEF ClaimFailed, Claim, WorkerGoto, TerminalWritten, CallerInv, StageInv
<1>20. ASSUME NEW f \in Events, JournalOutcome(f) PROVE \A e \in Events : CallerInv(e)'
  BY <1>20 DEF JournalOutcome, WorkerGoto, CallerInv, StageInv
<1>21. ASSUME NEW f \in Events, Release(f) PROVE \A e \in Events : CallerInv(e)'
  BY <1>21 DEF Release, WorkerGoto, CallerInv, StageInv
<1>22. ASSUME NEW f \in Events, StopMark(f) PROVE \A e \in Events : CallerInv(e)'
  BY <1>22 DEF StopMark, Unfinished, CallerInv, StageInv
<1>23. ASSUME StopBegin PROVE \A e \in Events : CallerInv(e)'
  BY <1>23 DEF StopBegin, StopGoto, CallerInv, StageInv
<1>24. ASSUME StopJoin PROVE \A e \in Events : CallerInv(e)'
  BY <1>24 DEF StopJoin, StopGoto, CallerInv, StageInv
<1>25. ASSUME StopFlushed PROVE \A e \in Events : CallerInv(e)'
  BY <1>25 DEF StopFlushed, StopGoto, CallerInv, StageInv
<1>26. ASSUME StopDrain PROVE \A e \in Events : CallerInv(e)'
  BY <1>26 DEF StopDrain, StopGoto, CallerInv, StageInv
<1>27. ASSUME StopLock PROVE \A e \in Events : CallerInv(e)'
  BY <1>27 DEF StopLock, StopGoto, CallerInv, StageInv
<1>28. ASSUME StopUnlock PROVE \A e \in Events : CallerInv(e)'
  BY <1>28 DEF StopUnlock, StopGoto, CallerInv, StageInv
<1>29. ASSUME StopShutdown PROVE \A e \in Events : CallerInv(e)'
  BY <1>29 DEF StopShutdown, CallerInv, StageInv
<1>30. ASSUME Close PROVE \A e \in Events : CallerInv(e)'
  BY <1>30 DEF Close, StopGoto, CallerInv, StageInv
<1> QED
  BY <1>1, <1>2, <1>3, <1>4, <1>5, <1>6, <1>7, <1>8, <1>9, <1>10, <1>11, <1>12, <1>13, <1>14, <1>15,
     <1>16, <1>17, <1>18, <1>19, <1>20, <1>21, <1>22, <1>23, <1>24, <1>25, <1>26, <1>27, <1>28, <1>29, <1>30
  DEF Next, Stop, Dispatch, DispatchStep, Work

-----------------------------------------------------------------------------
(* The slots of the queue *)

\* What a step can do to the slots: nothing, take one for an event that holds none
\* while there is one to take, or free the one an event holds.
SlotsSame == queued' = queued /\ \A e \in Events : HoldsSlot(e)' <=> HoldsSlot(e)
OthersKeepSlots(f) == \A e \in Events \ {f} : HoldsSlot(e)' <=> HoldsSlot(e)
TakesSlot(f) ==
    /\ ~HoldsSlot(f) /\ HoldsSlot(f)' /\ OthersKeepSlots(f)
    /\ queued < MaxQueueSize /\ queued' = queued + 1
FreesSlot(f) ==
    /\ HoldsSlot(f) /\ ~HoldsSlot(f)' /\ OthersKeepSlots(f)
    /\ queued' = IF queued = 0 THEN 0 ELSE queued - 1
SlotsMove == SlotsSame \/ \E f \in Events : TakesSlot(f) \/ FreesSlot(f)

LEMMA SlotsMoveStep == IInv /\ Next => SlotsMove
<1> SUFFICES ASSUME IInv, Next PROVE SlotsMove
  OBVIOUS
<1>a. TypeOK /\ \A e \in Events : StageInv(e)
  BY DEF IInv
<1> USE <1>a DEF dispatchVars, workerVars, logVars, TypeOK
<1>1. ASSUME NEW f \in Events, LogcatDispatch(f) PROVE SlotsMove
  BY <1>1 DEF LogcatDispatch, TakeUp, SlotsMove, SlotsSame, HoldsSlot, StageInv
<1>2. ASSUME NEW f \in Events, FlushDispatch(f) PROVE SlotsMove
  BY <1>2 DEF FlushDispatch, TakeUp, SlotsMove, SlotsSame, HoldsSlot, StageInv
<1>3. ASSUME NEW f \in Events, ExitInfoCount(f) PROVE SlotsMove
  BY <1>3 DEF ExitInfoCount, TakeUp, SlotsMove, SlotsSame, HoldsSlot, StageInv
<1>4. ASSUME NEW f \in Events, Admit(f) PROVE SlotsMove
  BY <1>4 DEF Admit, SlotsMove, SlotsSame, HoldsSlot, StageInv
<1>5. ASSUME NEW f \in Events, JournalDetected(f) PROVE SlotsMove
  BY <1>5 DEF JournalDetected, SlotsMove, SlotsSame, HoldsSlot, StageInv
<1>6. ASSUME NEW f \in Events, JournalDropped(f) PROVE SlotsMove
  BY <1>6 DEF JournalDropped, SlotsMove, SlotsSame, HoldsSlot, StageInv
<1>7. ASSUME NEW f \in Events, Acquire(f) PROVE SlotsMove
  <2>1. dpc[f] = "detected" /\ wpc[f] = "none" /\ UNCHANGED wpc
    BY <1>7 DEF Acquire, StageInv
  <2>2. CASE queued >= MaxQueueSize
    <3>1. queued' = queued /\ dpc' = [dpc EXCEPT ![f] = "rejected"]
      BY <1>7, <2>2 DEF Acquire
    <3> QED
      BY <2>1, <3>1 DEF SlotsMove, SlotsSame, HoldsSlot
  <2>3. CASE ~(queued >= MaxQueueSize)
    <3>1. queued' = queued + 1 /\ dpc' = [dpc EXCEPT ![f] = "acquired"]
      BY <1>7, <2>3 DEF Acquire
    <3>2. queued < MaxQueueSize
      BY <2>3, PipelineAssumption DEF PipelineAssumption
    <3>3. TakesSlot(f)
      BY <2>1, <3>1, <3>2 DEF TakesSlot, OthersKeepSlots, HoldsSlot
    <3> QED
      BY <3>3 DEF SlotsMove
  <2> QED
    BY <2>2, <2>3
<1>8. ASSUME NEW f \in Events, AppendTask(f) PROVE SlotsMove
  BY <1>8 DEF AppendTask, SlotsMove, SlotsSame, HoldsSlot, StageInv
<1>9. ASSUME NEW f \in Events, SubmitTask(f) PROVE SlotsMove
  BY <1>9 DEF SubmitTask, SlotsMove, SlotsSame, HoldsSlot, StageInv
<1>10. ASSUME NEW f \in Events, ExitInfoPersisted(f) PROVE SlotsMove
  BY <1>10 DEF ExitInfoPersisted, SlotsMove, SlotsSame, HoldsSlot, StageInv
<1>11. ASSUME NEW f \in Events, ExitInfoWrite(f) PROVE SlotsMove
  BY <1>11 DEF ExitInfoWrite, SlotsMove, SlotsSame, HoldsSlot, StageInv
<1>12. ASSUME NEW f \in Events, RunTask(f) PROVE SlotsMove
  BY <1>12 DEF RunTask, WorkerGoto, TerminalWritten, SlotsMove, SlotsSame, HoldsSlot, StageInv
<1>13. ASSUME NEW f \in Events, DumpFails(f) PROVE SlotsMove
  BY <1>13 DEF DumpFails, WorkerGoto, SlotsMove, SlotsSame, HoldsSlot, StageInv
<1>14. ASSUME NEW f \in Events, DumpCompletes(f) PROVE SlotsMove
  BY <1>14 DEF DumpCompletes, WorkerGoto, SlotsMove, SlotsSame, HoldsSlot, StageInv
<1>15. ASSUME NEW f \in Events, CheckClaim(f) PROVE SlotsMove
  BY <1>15 DEF CheckClaim, WorkerGoto, TerminalWritten, SlotsMove, SlotsSame, HoldsSlot, StageInv
<1>16. ASSUME NEW f \in Events, PublishFile(f) PROVE SlotsMove
  BY <1>16 DEF PublishFile, WorkerGoto, SlotsMove, SlotsSame, HoldsSlot, StageInv
<1>17. ASSUME NEW f \in Events, PublishFails(f) PROVE SlotsMove
  BY <1>17 DEF PublishFails, WorkerGoto, SlotsMove, SlotsSame, HoldsSlot, StageInv
<1>18. ASSUME NEW f \in Events, ClaimPersisted(f) PROVE SlotsMove
  BY <1>18 DEF ClaimPersisted, Claim, WorkerGoto, TerminalWritten, SlotsMove, SlotsSame, HoldsSlot, StageInv
<1>19. ASSUME NEW f \in Events, ClaimFailed(f) PROVE SlotsMove
  BY <1>19 DEF ClaimFailed, Claim, WorkerGoto, TerminalWritten, SlotsMove, SlotsSame, HoldsSlot, StageInv
<1>20. ASSUME NEW f \in Events, JournalOutcome(f) PROVE SlotsMove
  BY <1>20 DEF JournalOutcome, WorkerGoto, SlotsMove, SlotsSame, HoldsSlot, StageInv
<1>21. ASSUME NEW f \in Events, Release(f) PROVE SlotsMove
  <2>1. wpc[f] = "releasing" /\ wpc' = [wpc EXCEPT ![f] = "done"] /\ UNCHANGED dpc
    BY <1>21 DEF Release, WorkerGoto
  <2>2. queued' = IF queued = 0 THEN 0 ELSE queued - 1
    BY <1>21 DEF Release
  <2>3. dpc[f] = "done"
    BY <2>1 DEF StageInv
  <2>4. FreesSlot(f)
    BY <2>1, <2>2, <2>3 DEF FreesSlot, OthersKeepSlots, HoldsSlot
  <2> QED
    BY <2>4 DEF SlotsMove
<1>22. ASSUME NEW f \in Events, StopMark(f) PROVE SlotsMove
  BY <1>22 DEF StopMark, Unfinished, SlotsMove, SlotsSame, HoldsSlot, StageInv
<1>23. ASSUME StopBegin PROVE SlotsMove
  BY <1>23 DEF StopBegin, StopGoto, SlotsMove, SlotsSame, HoldsSlot, StageInv
<1>24. ASSUME StopJoin PROVE SlotsMove
  BY <1>24 DEF StopJoin, StopGoto, SlotsMove, SlotsSame, HoldsSlot, StageInv
<1>25. ASSUME StopFlushed PROVE SlotsMove
  BY <1>25 DEF StopFlushed, StopGoto, SlotsMove, SlotsSame, HoldsSlot, StageInv
<1>26. ASSUME StopDrain PROVE SlotsMove
  BY <1>26 DEF StopDrain, StopGoto, SlotsMove, SlotsSame, HoldsSlot, StageInv
<1>27. ASSUME StopLock PROVE SlotsMove
  BY <1>27 DEF StopLock, StopGoto, SlotsMove, SlotsSame, HoldsSlot, StageInv
<1>28. ASSUME StopUnlock PROVE SlotsMove
  BY <1>28 DEF StopUnlock, StopGoto, SlotsMove, SlotsSame, HoldsSlot, StageInv
<1>29. ASSUME StopShutdown PROVE SlotsMove
  BY <1>29 DEF StopShutdown, SlotsMove, SlotsSame, HoldsSlot, StageInv
<1>30. ASSUME Close PROVE SlotsMove
  BY <1>30 DEF Close, StopGoto, SlotsMove, SlotsSame, HoldsSlot, StageInv
<1> QED
  BY <1>1, <1>2, <1>3, <1>4, <1>5, <1>6, <1>7, <1>8, <1>9, <1>10, <1>11, <1>12, <1>13, <1>14, <1>15,
     <1>16, <1>17, <1>18, <1>19, <1>20, <1>21, <1>22, <1>23, <1>24, <1>25, <1>26, <1>27, <1>28, <1>29, <1>30
  DEF Next, Stop, Dispatch, DispatchStep, Work

\* Adding and removing one element, in the form the limits need.
LEMMA OneMore ==
    ASSUME NEW S, NEW x, x \notin S, IsFiniteSet(S)
    PROVE  IsFiniteSet(S \cup {x}) /\ Cardinality(S \cup {x}) = Cardinality(S) + 1
BY FS_AddElement

LEMMA OneLess ==
    ASSUME NEW S, NEW x \in S, IsFiniteSet(S)
    PROVE  /\ IsFiniteSet(S \ {x})
           /\ Cardinality(S) \in Nat \ {0}
           /\ Cardinality(S \ {x}) = Cardinality(S) - 1
BY FS_RemoveElement, FS_EmptySet, FS_CardinalityType

\* The counter moves with the set of those who hold a slot.
LEMMA SlotsMoveKeepsCount == TypeOK /\ SlotsInv /\ SlotsMove => SlotsInv'
<1> SUFFICES ASSUME TypeOK, SlotsInv, SlotsMove PROVE SlotsInv'
  OBVIOUS
<1>1. /\ SlotHolders = {e \in Events : HoldsSlot(e)}
      /\ SlotHolders' = {e \in Events : HoldsSlot(e)'}
  BY DEF SlotHolders, HoldsSlot
<1>2. /\ IsFiniteSet(SlotHolders) /\ queued = Cardinality(SlotHolders)
      /\ queued <= MaxQueueSize /\ queued \in Nat /\ MaxQueueSize \in Nat
  BY PipelineAssumption DEF SlotsInv, SlotsAccounted, TypeOK, PipelineAssumption
<1>3. CASE SlotsSame
  <2>1. SlotHolders' = SlotHolders
    BY <1>1, <1>3 DEF SlotsSame
  <2> QED
    BY <1>2, <1>3, <2>1 DEF SlotsSame, SlotsInv, SlotsAccounted
<1>4. ASSUME NEW f \in Events, TakesSlot(f) PROVE SlotsInv'
  <2>1. f \notin SlotHolders /\ SlotHolders' = SlotHolders \cup {f}
    BY <1>1, <1>4 DEF TakesSlot, OthersKeepSlots
  <2>2. /\ IsFiniteSet(SlotHolders \cup {f})
        /\ Cardinality(SlotHolders \cup {f}) = Cardinality(SlotHolders) + 1
    BY <1>2, <2>1, OneMore
  <2>3. queued' = Cardinality(SlotHolders') /\ queued' <= MaxQueueSize
    BY <1>2, <1>4, <2>1, <2>2 DEF TakesSlot
  <2> QED
    BY <2>1, <2>2, <2>3 DEF SlotsInv, SlotsAccounted
<1>5. ASSUME NEW f \in Events, FreesSlot(f) PROVE SlotsInv'
  <2>1. f \in SlotHolders /\ SlotHolders' = SlotHolders \ {f}
    BY <1>1, <1>5 DEF FreesSlot, OthersKeepSlots
  <2>2. /\ IsFiniteSet(SlotHolders \ {f})
        /\ queued # 0
        /\ Cardinality(SlotHolders \ {f}) = queued - 1
    BY <1>2, <2>1, OneLess
  <2>3. queued' = Cardinality(SlotHolders') /\ queued' <= MaxQueueSize
    BY <1>2, <1>5, <2>1, <2>2 DEF FreesSlot
  <2> QED
    BY <2>1, <2>2, <2>3 DEF SlotsInv, SlotsAccounted
<1> QED
  BY <1>3, <1>4, <1>5 DEF SlotsMove

-----------------------------------------------------------------------------
(* The cap of a type *)

\* What a step can do to the counts: nothing, or admit one event and count it,
\* which the logcat thread and the flush only do below the cap.
CountsSame ==
    /\ counts' = counts
    /\ \A e \in Events : /\ IsCounted(e)' <=> IsCounted(e)
                         /\ IsCounted(e) => by'[e] = by[e]
AdmitsEvent(f) ==
    /\ ~IsCounted(f) /\ IsCounted(f)'
    /\ \A e \in Events \ {f} : (IsCounted(e)' <=> IsCounted(e)) /\ by'[e] = by[e]
    /\ counts' = [counts EXCEPT ![TypeOf[f]] = @ + 1]
    /\ by'[f] # "exit_info" => counts[TypeOf[f]] < MaxIncidentsPerType
CountsMove == CountsSame \/ \E f \in Events : AdmitsEvent(f)

LEMMA CountsMoveStep == IInv /\ CallersInv /\ Next => CountsMove
<1> SUFFICES ASSUME IInv, CallersInv, Next PROVE CountsMove
  OBVIOUS
<1>a. TypeOK /\ \A e \in Events : StageInv(e) /\ CallerInv(e)
  BY DEF IInv, CallersInv
<1> USE <1>a DEF dispatchVars, workerVars, logVars, TypeOK
<1>1. ASSUME NEW f \in Events, LogcatDispatch(f) PROVE CountsMove
  BY <1>1 DEF LogcatDispatch, TakeUp, CountsMove, CountsSame, IsCounted, LetThrough, DispatchPCs
<1>2. ASSUME NEW f \in Events, FlushDispatch(f) PROVE CountsMove
  BY <1>2 DEF FlushDispatch, TakeUp, CountsMove, CountsSame, IsCounted, LetThrough, DispatchPCs
<1>3. ASSUME NEW f \in Events, ExitInfoCount(f) PROVE CountsMove
  <2>1. /\ dpc[f] = "unseen" /\ dpc' = [dpc EXCEPT ![f] = "exit_counted"]
        /\ by' = [by EXCEPT ![f] = "exit_info"]
        /\ counts' = [counts EXCEPT ![TypeOf[f]] = @ + 1]
    BY <1>3 DEF ExitInfoCount, TakeUp
  <2>2. AdmitsEvent(f)
    BY <2>1 DEF AdmitsEvent, IsCounted, LetThrough, DispatchPCs
  <2> QED
    BY <2>2 DEF CountsMove
<1>4. ASSUME NEW f \in Events, Admit(f) PROVE CountsMove
  <2>1. dpc[f] = "accepted" /\ UNCHANGED by
    BY <1>4 DEF Admit
  <2>2. CASE CapReached(TypeOf[f])
    <3>1. counts' = counts /\ dpc' = [dpc EXCEPT ![f] = "capped"]
      BY <1>4, <2>2 DEF Admit
    <3> QED
      BY <2>1, <3>1 DEF CountsMove, CountsSame, IsCounted, LetThrough
  <2>3. CASE ~CapReached(TypeOf[f])
    <3>1. /\ counts' = [counts EXCEPT ![TypeOf[f]] = @ + 1]
          /\ dpc' = [dpc EXCEPT ![f] = "counted"]
      BY <1>4, <2>3 DEF Admit
    <3>2. counts[TypeOf[f]] < MaxIncidentsPerType
      BY <2>3, PipelineAssumption DEF CapReached, PipelineAssumption
    <3>3. AdmitsEvent(f)
      BY <2>1, <3>1, <3>2 DEF AdmitsEvent, IsCounted, LetThrough, DispatchPCs
    <3> QED
      BY <3>3 DEF CountsMove
  <2> QED
    BY <2>2, <2>3
<1>5. ASSUME NEW f \in Events, JournalDetected(f) PROVE CountsMove
  BY <1>5 DEF JournalDetected, CountsMove, CountsSame, IsCounted, LetThrough, DispatchPCs
<1>6. ASSUME NEW f \in Events, JournalDropped(f) PROVE CountsMove
  BY <1>6 DEF JournalDropped, CountsMove, CountsSame, IsCounted, LetThrough, DispatchPCs
<1>7. ASSUME NEW f \in Events, Acquire(f) PROVE CountsMove
  BY <1>7 DEF Acquire, CountsMove, CountsSame, IsCounted, LetThrough, DispatchPCs
<1>8. ASSUME NEW f \in Events, AppendTask(f) PROVE CountsMove
  BY <1>8 DEF AppendTask, CountsMove, CountsSame, IsCounted, LetThrough, DispatchPCs
<1>9. ASSUME NEW f \in Events, SubmitTask(f) PROVE CountsMove
  BY <1>9 DEF SubmitTask, CountsMove, CountsSame, IsCounted, LetThrough, DispatchPCs
<1>10. ASSUME NEW f \in Events, ExitInfoPersisted(f) PROVE CountsMove
  BY <1>10 DEF ExitInfoPersisted, CountsMove, CountsSame, IsCounted, LetThrough, DispatchPCs
<1>11. ASSUME NEW f \in Events, ExitInfoWrite(f) PROVE CountsMove
  BY <1>11 DEF ExitInfoWrite, CountsMove, CountsSame, IsCounted, LetThrough, DispatchPCs
<1>12. ASSUME NEW f \in Events, RunTask(f) PROVE CountsMove
  BY <1>12 DEF RunTask, WorkerGoto, TerminalWritten, CountsMove, CountsSame, IsCounted, LetThrough, DispatchPCs
<1>13. ASSUME NEW f \in Events, DumpFails(f) PROVE CountsMove
  BY <1>13 DEF DumpFails, WorkerGoto, CountsMove, CountsSame, IsCounted, LetThrough, DispatchPCs
<1>14. ASSUME NEW f \in Events, DumpCompletes(f) PROVE CountsMove
  BY <1>14 DEF DumpCompletes, WorkerGoto, CountsMove, CountsSame, IsCounted, LetThrough, DispatchPCs
<1>15. ASSUME NEW f \in Events, CheckClaim(f) PROVE CountsMove
  BY <1>15 DEF CheckClaim, WorkerGoto, TerminalWritten, CountsMove, CountsSame, IsCounted, LetThrough, DispatchPCs
<1>16. ASSUME NEW f \in Events, PublishFile(f) PROVE CountsMove
  BY <1>16 DEF PublishFile, WorkerGoto, CountsMove, CountsSame, IsCounted, LetThrough, DispatchPCs
<1>17. ASSUME NEW f \in Events, PublishFails(f) PROVE CountsMove
  BY <1>17 DEF PublishFails, WorkerGoto, CountsMove, CountsSame, IsCounted, LetThrough, DispatchPCs
<1>18. ASSUME NEW f \in Events, ClaimPersisted(f) PROVE CountsMove
  BY <1>18 DEF ClaimPersisted, Claim, WorkerGoto, TerminalWritten, CountsMove, CountsSame, IsCounted, LetThrough, DispatchPCs
<1>19. ASSUME NEW f \in Events, ClaimFailed(f) PROVE CountsMove
  BY <1>19 DEF ClaimFailed, Claim, WorkerGoto, TerminalWritten, CountsMove, CountsSame, IsCounted, LetThrough, DispatchPCs
<1>20. ASSUME NEW f \in Events, JournalOutcome(f) PROVE CountsMove
  BY <1>20 DEF JournalOutcome, WorkerGoto, CountsMove, CountsSame, IsCounted, LetThrough, DispatchPCs
<1>21. ASSUME NEW f \in Events, Release(f) PROVE CountsMove
  BY <1>21 DEF Release, WorkerGoto, CountsMove, CountsSame, IsCounted, LetThrough, DispatchPCs
<1>22. ASSUME NEW f \in Events, StopMark(f) PROVE CountsMove
  BY <1>22 DEF StopMark, Unfinished, CountsMove, CountsSame, IsCounted, LetThrough, DispatchPCs
<1>23. ASSUME StopBegin PROVE CountsMove
  BY <1>23 DEF StopBegin, StopGoto, CountsMove, CountsSame, IsCounted, LetThrough, DispatchPCs
<1>24. ASSUME StopJoin PROVE CountsMove
  BY <1>24 DEF StopJoin, StopGoto, CountsMove, CountsSame, IsCounted, LetThrough, DispatchPCs
<1>25. ASSUME StopFlushed PROVE CountsMove
  BY <1>25 DEF StopFlushed, StopGoto, CountsMove, CountsSame, IsCounted, LetThrough, DispatchPCs
<1>26. ASSUME StopDrain PROVE CountsMove
  BY <1>26 DEF StopDrain, StopGoto, CountsMove, CountsSame, IsCounted, LetThrough, DispatchPCs
<1>27. ASSUME StopLock PROVE CountsMove
  BY <1>27 DEF StopLock, StopGoto, CountsMove, CountsSame, IsCounted, LetThrough, DispatchPCs
<1>28. ASSUME StopUnlock PROVE CountsMove
  BY <1>28 DEF StopUnlock, StopGoto, CountsMove, CountsSame, IsCounted, LetThrough, DispatchPCs
<1>29. ASSUME StopShutdown PROVE CountsMove
  BY <1>29 DEF StopShutdown, CountsMove, CountsSame, IsCounted, LetThrough, DispatchPCs
<1>30. ASSUME Close PROVE CountsMove
  BY <1>30 DEF Close, StopGoto, CountsMove, CountsSame, IsCounted, LetThrough, DispatchPCs
<1> QED
  BY <1>1, <1>2, <1>3, <1>4, <1>5, <1>6, <1>7, <1>8, <1>9, <1>10, <1>11, <1>12, <1>13, <1>14, <1>15,
     <1>16, <1>17, <1>18, <1>19, <1>20, <1>21, <1>22, <1>23, <1>24, <1>25, <1>26, <1>27, <1>28, <1>29, <1>30
  DEF Next, Stop, Dispatch, DispatchStep, Work

\* The callers the cap is for.
CappedCallers == {"logcat", "flush"}

\* The counter of a type moves with the set of its incidents; those under the cap are
\* at most as many.
LEMMA CountsMoveKeepsCap == TypeOK /\ TypeOK' /\ CallersInv' /\ CountsInv /\ CountsMove => CountsInv'
<1> SUFFICES ASSUME TypeOK, TypeOK', CallersInv', CountsInv, CountsMove, NEW t \in Types
             PROVE  /\ IsFiniteSet(Counted(t, Callers)')
                    /\ counts'[t] = Cardinality(Counted(t, Callers)')
                    /\ Cardinality(Counted(t, CappedCallers)') <= MaxIncidentsPerType
  BY DEF CountsInv, CapKept, CappedCallers
<1> DEFINE All == Counted(t, Callers)
           Capped == Counted(t, CappedCallers)
<1>1. /\ All = {e \in Events : TypeOf[e] = t /\ by[e] \in Callers /\ IsCounted(e)}
      /\ All' = {e \in Events : TypeOf[e] = t /\ by'[e] \in Callers /\ IsCounted(e)'}
      /\ Capped = {e \in Events : TypeOf[e] = t /\ by[e] \in CappedCallers /\ IsCounted(e)}
      /\ Capped' = {e \in Events : TypeOf[e] = t /\ by'[e] \in CappedCallers /\ IsCounted(e)'}
  BY DEF Counted, IsCounted
<1>2. /\ IsFiniteSet(All) /\ counts[t] = Cardinality(All)
      /\ Cardinality(Capped) <= MaxIncidentsPerType
  BY DEF CountsInv, CapKept, CappedCallers
<1>3. \A e \in Events : by[e] \in Callers /\ by'[e] \in Callers
  BY DEF TypeOK
<1>4. Capped \in SUBSET All
  BY <1>1, <1>3
<1>5. IsFiniteSet(Capped) /\ Cardinality(Capped) <= Cardinality(All)
  BY <1>2, <1>4, FS_Subset
<1>6. Cardinality(Capped) \in Nat /\ counts[t] \in Nat /\ MaxIncidentsPerType \in Nat
  BY <1>5, FS_CardinalityType, PipelineAssumption DEF TypeOK, PipelineAssumption
<1> HIDE DEF All, Capped
<1>7. CASE CountsSame
  <2>1. counts'[t] = counts[t] /\ All' = All /\ Capped' = Capped
    BY <1>1, <1>7 DEF CountsSame
  <2> QED
    BY <1>2, <2>1 DEF All, Capped
<1>8. ASSUME NEW f \in Events, AdmitsEvent(f), TypeOf[f] # t
      PROVE  counts'[t] = counts[t] /\ All' = All /\ Capped' = Capped
  <2>1. counts'[t] = counts[t]
    BY <1>8 DEF AdmitsEvent, TypeOK
  <2>2. \A e \in Events : TypeOf[e] = t => (IsCounted(e)' <=> IsCounted(e)) /\ by'[e] = by[e]
    BY <1>8 DEF AdmitsEvent
  <2> QED
    BY <1>1, <2>1, <2>2
<1>9. ASSUME NEW f \in Events, AdmitsEvent(f), TypeOf[f] = t
      PROVE  /\ IsFiniteSet(All') /\ counts'[t] = Cardinality(All')
             /\ Cardinality(Capped') <= MaxIncidentsPerType
  <2>1. f \notin All /\ All' = All \cup {f}
    BY <1>1, <1>3, <1>9 DEF AdmitsEvent
  <2>2. IsFiniteSet(All') /\ Cardinality(All') = Cardinality(All) + 1
    BY <1>2, <2>1, OneMore
  <2>3. counts'[t] = counts[t] + 1
    BY <1>9 DEF AdmitsEvent, TypeOK
  <2>4. CASE by'[f] \in CappedCallers
    <3>1. counts[t] < MaxIncidentsPerType
      BY <1>9, <2>4 DEF AdmitsEvent, CappedCallers
    <3>2. f \notin Capped /\ Capped' = Capped \cup {f}
      BY <1>1, <1>9, <2>4 DEF AdmitsEvent
    <3>3. Cardinality(Capped') = Cardinality(Capped) + 1
      BY <1>5, <3>2, OneMore
    <3>4. Cardinality(Capped') <= MaxIncidentsPerType
      BY <1>2, <1>5, <1>6, <3>1, <3>3
    <3> QED
      BY <1>2, <2>2, <2>3, <3>4
  <2>5. CASE by'[f] \notin CappedCallers
    <3>1. Capped' = Capped
      BY <1>1, <1>9, <2>5 DEF AdmitsEvent
    <3> QED
      BY <1>2, <2>2, <2>3, <3>1
  <2> QED
    BY <2>4, <2>5
<1>10. CASE \E f \in Events : AdmitsEvent(f)
  <2>1. PICK f \in Events : AdmitsEvent(f)
    BY <1>10
  <2>2. CASE TypeOf[f] = t
    BY <1>9, <2>1, <2>2 DEF All, Capped
  <2>3. CASE TypeOf[f] # t
    <3>1. counts'[t] = counts[t] /\ All' = All /\ Capped' = Capped
      BY <1>8, <2>1, <2>3
    <3> QED
      BY <1>2, <3>1 DEF All, Capped
  <2> QED
    BY <2>2, <2>3
<1> QED
  BY <1>7, <1>10 DEF CountsMove

-----------------------------------------------------------------------------
(* The limits *)

LimitsInv == IInv /\ CallersInv /\ SlotsInv /\ CountsInv

LEMMA InitLimitsInv == Init => LimitsInv
<1> SUFFICES ASSUME Init PROVE LimitsInv
  OBVIOUS
<1>1. IInv
  BY InitIInv
<1>2. CallersInv
  BY DEF Init, CallersInv, CallerInv, ExitInfoPCs
<1>3. SlotHolders = {} /\ \A t \in Types, C \in SUBSET Callers : Counted(t, C) = {}
  BY DEF Init, SlotHolders, Counted, LetThrough
<1>4. SlotsInv
  BY <1>3, FS_EmptySet, PipelineAssumption DEF Init, SlotsInv, SlotsAccounted, PipelineAssumption
<1>5. \A t \in Types : Counted(t, Callers) = {} /\ Counted(t, {"logcat", "flush"}) = {} /\ counts[t] = 0
  BY <1>3 DEF Init, Callers
<1>6. CountsInv
  BY <1>5, FS_EmptySet, PipelineAssumption DEF CountsInv, CapKept, PipelineAssumption
<1> QED
  BY <1>1, <1>2, <1>4, <1>6 DEF LimitsInv

LEMMA StutterLimits == LimitsInv /\ UNCHANGED vars => LimitsInv'
<1> SUFFICES ASSUME LimitsInv, UNCHANGED vars PROVE LimitsInv'
  OBVIOUS
<1>1. IInv'
  BY StutterIInv DEF LimitsInv
<1>2. CallersInv' /\ SlotsInv'
  BY DEF LimitsInv, CallersInv, CallerInv, SlotsInv, SlotsAccounted, SlotHolders, vars, dispatchVars, workerVars
<1>3. CountsInv'
  BY DEF LimitsInv, CountsInv, CapKept, Counted, vars, dispatchVars
<1> QED
  BY <1>1, <1>2, <1>3 DEF LimitsInv

\* The invariant of the limits holds in every reachable state.
THEOREM LimitsInvariant == Spec => []LimitsInv
<1>1. LimitsInv /\ [Next]_vars => LimitsInv'
  <2> SUFFICES ASSUME LimitsInv, Next PROVE LimitsInv'
    BY StutterLimits
  <2>1. IInv' /\ TypeOK /\ TypeOK'
    BY TypeStep, StageStep, JournalStep DEF LimitsInv, IInv
  <2>2. CallersInv'
    BY CallersStep DEF LimitsInv
  <2>3. SlotsInv'
    BY <2>1, SlotsMoveStep, SlotsMoveKeepsCount DEF LimitsInv
  <2>4. CountsInv'
    BY <2>1, <2>2, CountsMoveStep, CountsMoveKeepsCap DEF LimitsInv
  <2> QED
    BY <2>1, <2>2, <2>3, <2>4 DEF LimitsInv
<1> QED
  BY InitLimitsInv, <1>1, PTL DEF Spec

\* Whatever the dispatchers, the workers and stop() do: _event_counts is the number
\* of incidents let through and only ExitInfo goes over the cap; the backpressure
\* counter is the number of slots really held, and never over the queue's size.
THEOREM LimitsAreKept == Spec => []LimitsKept
<1>1. LimitsInv => LimitsKept
  BY DEF LimitsInv, SlotsInv, CountsInv, LimitsKept
<1> QED
  BY LimitsInvariant, <1>1, PTL

-----------------------------------------------------------------------------
(* The way stop() goes *)

\* From here on nothing is dispatched by the thread that stops.
Winding == {"draining", "cancelling", "marking", "marked", "stopped", "closed"}

PhaseInv ==
    /\ spc # "running" => ~accepting
    /\ spc \in Winding => IdleCaller(StopThread)
    /\ journalOpen <=> spc # "closed"

\* What the join adds: the logcat thread has returned, too.
JoinedInv == spc \notin {"running", "joining"} => IdleCaller({"logcat"})

LEMMA PhaseStep == IInv /\ PhaseInv /\ Next => PhaseInv'
<1> SUFFICES ASSUME IInv, PhaseInv, Next PROVE PhaseInv'
  OBVIOUS
<1>a. TypeOK
  BY DEF IInv
<1> USE <1>a DEF PhaseInv, dispatchVars, workerVars, logVars, TypeOK, StopPCs, Winding, StopThread
<1>1. ASSUME NEW f \in Events, LogcatDispatch(f) PROVE PhaseInv'
  BY <1>1 DEF LogcatDispatch, TakeUp, IdleCaller, Returned
<1>2. ASSUME NEW f \in Events, FlushDispatch(f) PROVE PhaseInv'
  BY <1>2 DEF FlushDispatch, TakeUp, IdleCaller, Returned
<1>3. ASSUME NEW f \in Events, ExitInfoCount(f) PROVE PhaseInv'
  BY <1>3 DEF ExitInfoCount, TakeUp, IdleCaller, Returned
<1>4. ASSUME NEW f \in Events, Admit(f) PROVE PhaseInv'
  BY <1>4 DEF Admit, IdleCaller, Returned
<1>5. ASSUME NEW f \in Events, JournalDetected(f) PROVE PhaseInv'
  BY <1>5 DEF JournalDetected, Record, IdleCaller, Returned
<1>6. ASSUME NEW f \in Events, JournalDropped(f) PROVE PhaseInv'
  <2>1. UNCHANGED <<accepting, spc, by, journalOpen>>
    BY <1>6 DEF JournalDropped, Record
  <2>2. dpc[f] \notin Returned /\ \A e \in Events : e # f => dpc'[e] = dpc[e]
    BY <1>6 DEF JournalDropped, Returned
  <2> QED
    BY <2>1, <2>2 DEF IdleCaller
<1>7. ASSUME NEW f \in Events, Acquire(f) PROVE PhaseInv'
  BY <1>7 DEF Acquire, IdleCaller, Returned
<1>8. ASSUME NEW f \in Events, AppendTask(f) PROVE PhaseInv'
  BY <1>8 DEF AppendTask, IdleCaller, Returned
<1>9. ASSUME NEW f \in Events, SubmitTask(f) PROVE PhaseInv'
  BY <1>9 DEF SubmitTask, IdleCaller, Returned
<1>10. ASSUME NEW f \in Events, ExitInfoPersisted(f) PROVE PhaseInv'
  BY <1>10 DEF ExitInfoPersisted, Record, IdleCaller, Returned
<1>11. ASSUME NEW f \in Events, ExitInfoWrite(f) PROVE PhaseInv'
  BY <1>11 DEF ExitInfoWrite, IdleCaller, Returned
<1>12. ASSUME NEW f \in Events, RunTask(f) PROVE PhaseInv'
  BY <1>12 DEF RunTask, WorkerGoto, TerminalWritten, IdleCaller, Returned
<1>13. ASSUME NEW f \in Events, DumpFails(f) PROVE PhaseInv'
  BY <1>13 DEF DumpFails, WorkerGoto, IdleCaller, Returned
<1>14. ASSUME NEW f \in Events, DumpCompletes(f) PROVE PhaseInv'
  BY <1>14 DEF DumpCompletes, WorkerGoto, IdleCaller, Returned
<1>15. ASSUME NEW f \in Events, CheckClaim(f) PROVE PhaseInv'
  BY <1>15 DEF CheckClaim, WorkerGoto, TerminalWritten, IdleCaller, Returned
<1>16. ASSUME NEW f \in Events, PublishFile(f) PROVE PhaseInv'
  BY <1>16 DEF PublishFile, WorkerGoto, IdleCaller, Returned
<1>17. ASSUME NEW f \in Events, PublishFails(f) PROVE PhaseInv'
  BY <1>17 DEF PublishFails, WorkerGoto, IdleCaller, Returned
<1>18. ASSUME NEW f \in Events, ClaimPersisted(f) PROVE PhaseInv'
  BY <1>18 DEF ClaimPersisted, Claim, WorkerGoto, TerminalWritten, IdleCaller, Returned
<1>19. ASSUME NEW f \in Events, ClaimFailed(f) PROVE PhaseInv'
  BY <1>19 DEF ClaimFailed, Claim, WorkerGoto, TerminalWritten, IdleCaller, Returned
<1>20. ASSUME NEW f \in Events, JournalOutcome(f) PROVE PhaseInv'
  BY <1>20 DEF JournalOutcome, WorkerGoto, Record, IdleCaller, Returned
<1>21. ASSUME NEW f \in Events, Release(f) PROVE PhaseInv'
  BY <1>21 DEF Release, WorkerGoto, IdleCaller, Returned
<1>22. ASSUME NEW f \in Events, StopMark(f) PROVE PhaseInv'
  BY <1>22 DEF StopMark, Unfinished, Record, IdleCaller, Returned
<1>23. ASSUME StopBegin PROVE PhaseInv'
  BY <1>23 DEF StopBegin, StopGoto, IdleCaller, Returned
<1>24. ASSUME StopJoin PROVE PhaseInv'
  BY <1>24 DEF StopJoin, StopGoto, IdleCaller, Returned
<1>25. ASSUME StopFlushed PROVE PhaseInv'
  BY <1>25 DEF StopFlushed, StopGoto, IdleCaller, Returned
<1>26. ASSUME StopDrain PROVE PhaseInv'
  BY <1>26 DEF StopDrain, StopGoto, IdleCaller, Returned
<1>27. ASSUME StopLock PROVE PhaseInv'
  BY <1>27 DEF StopLock, StopGoto, IdleCaller, Returned
<1>28. ASSUME StopUnlock PROVE PhaseInv'
  BY <1>28 DEF StopUnlock, StopGoto, IdleCaller, Returned
<1>29. ASSUME StopShutdown PROVE PhaseInv'
  BY <1>29 DEF StopShutdown, IdleCaller, Returned
<1>30. ASSUME Close PROVE PhaseInv'
  BY <1>30 DEF Close, StopGoto, IdleCaller, Returned
<1> QED
  BY <1>1, <1>2, <1>3, <1>4, <1>5, <1>6, <1>7, <1>8, <1>9, <1>10, <1>11, <1>12, <1>13, <1>14, <1>15,
     <1>16, <1>17, <1>18, <1>19, <1>20, <1>21, <1>22, <1>23, <1>24, <1>25, <1>26, <1>27, <1>28, <1>29, <1>30
  DEF Next, Stop, Dispatch, DispatchStep, Work

LEMMA JoinedStep == ~JoinMayTimeOut /\ IInv /\ PhaseInv /\ JoinedInv /\ Next => JoinedInv'
<1> SUFFICES ASSUME ~JoinMayTimeOut, IInv, PhaseInv, JoinedInv, Next PROVE JoinedInv'
  OBVIOUS
<1>a. TypeOK
  BY DEF IInv
<1> USE <1>a DEF PhaseInv, JoinedInv, dispatchVars, workerVars, logVars, TypeOK, StopPCs
<1>1. ASSUME NEW f \in Events, LogcatDispatch(f) PROVE JoinedInv'
  BY <1>1 DEF LogcatDispatch, TakeUp, IdleCaller, Returned
<1>2. ASSUME NEW f \in Events, FlushDispatch(f) PROVE JoinedInv'
  BY <1>2 DEF FlushDispatch, TakeUp, IdleCaller, Returned
<1>3. ASSUME NEW f \in Events, ExitInfoCount(f) PROVE JoinedInv'
  BY <1>3 DEF ExitInfoCount, TakeUp, IdleCaller, Returned
<1>4. ASSUME NEW f \in Events, Admit(f) PROVE JoinedInv'
  BY <1>4 DEF Admit, IdleCaller, Returned
<1>5. ASSUME NEW f \in Events, JournalDetected(f) PROVE JoinedInv'
  BY <1>5 DEF JournalDetected, IdleCaller, Returned
<1>6. ASSUME NEW f \in Events, JournalDropped(f) PROVE JoinedInv'
  BY <1>6 DEF JournalDropped, IdleCaller, Returned
<1>7. ASSUME NEW f \in Events, Acquire(f) PROVE JoinedInv'
  BY <1>7 DEF Acquire, IdleCaller, Returned
<1>8. ASSUME NEW f \in Events, AppendTask(f) PROVE JoinedInv'
  BY <1>8 DEF AppendTask, IdleCaller, Returned
<1>9. ASSUME NEW f \in Events, SubmitTask(f) PROVE JoinedInv'
  BY <1>9 DEF SubmitTask, IdleCaller, Returned
<1>10. ASSUME NEW f \in Events, ExitInfoPersisted(f) PROVE JoinedInv'
  BY <1>10 DEF ExitInfoPersisted, IdleCaller, Returned
<1>11. ASSUME NEW f \in Events, ExitInfoWrite(f) PROVE JoinedInv'
  BY <1>11 DEF ExitInfoWrite, IdleCaller, Returned
<1>12. ASSUME NEW f \in Events, RunTask(f) PROVE JoinedInv'
  BY <1>12 DEF RunTask, WorkerGoto, TerminalWritten, IdleCaller, Returned
<1>13. ASSUME NEW f \in Events, DumpFails(f) PROVE JoinedInv'
  BY <1>13 DEF DumpFails, WorkerGoto, IdleCaller, Returned
<1>14. ASSUME NEW f \in Events, DumpCompletes(f) PROVE JoinedInv'
  BY <1>14 DEF DumpCompletes, WorkerGoto, IdleCaller, Returned
<1>15. ASSUME NEW f \in Events, CheckClaim(f) PROVE JoinedInv'
  BY <1>15 DEF CheckClaim, WorkerGoto, TerminalWritten, IdleCaller, Returned
<1>16. ASSUME NEW f \in Events, PublishFile(f) PROVE JoinedInv'
  BY <1>16 DEF PublishFile, WorkerGoto, IdleCaller, Returned
<1>17. ASSUME NEW f \in Events, PublishFails(f) PROVE JoinedInv'
  BY <1>17 DEF PublishFails, WorkerGoto, IdleCaller, Returned
<1>18. ASSUME NEW f \in Events, ClaimPersisted(f) PROVE JoinedInv'
  BY <1>18 DEF ClaimPersisted, Claim, WorkerGoto, TerminalWritten, IdleCaller, Returned
<1>19. ASSUME NEW f \in Events, ClaimFailed(f) PROVE JoinedInv'
  BY <1>19 DEF ClaimFailed, Claim, WorkerGoto, TerminalWritten, IdleCaller, Returned
<1>20. ASSUME NEW f \in Events, JournalOutcome(f) PROVE JoinedInv'
  BY <1>20 DEF JournalOutcome, WorkerGoto, IdleCaller, Returned
<1>21. ASSUME NEW f \in Events, Release(f) PROVE JoinedInv'
  BY <1>21 DEF Release, WorkerGoto, IdleCaller, Returned
<1>22. ASSUME NEW f \in Events, StopMark(f) PROVE JoinedInv'
  BY <1>22 DEF StopMark, Unfinished, IdleCaller, Returned
<1>23. ASSUME StopBegin PROVE JoinedInv'
  BY <1>23 DEF StopBegin, StopGoto, IdleCaller, Returned
<1>24. ASSUME StopJoin PROVE JoinedInv'
  BY <1>24 DEF StopJoin, StopGoto, IdleCaller, Returned
<1>25. ASSUME StopFlushed PROVE JoinedInv'
  BY <1>25 DEF StopFlushed, StopGoto, IdleCaller, Returned
<1>26. ASSUME StopDrain PROVE JoinedInv'
  BY <1>26 DEF StopDrain, StopGoto, IdleCaller, Returned
<1>27. ASSUME StopLock PROVE JoinedInv'
  BY <1>27 DEF StopLock, StopGoto, IdleCaller, Returned
<1>28. ASSUME StopUnlock PROVE JoinedInv'
  BY <1>28 DEF StopUnlock, StopGoto, IdleCaller, Returned
<1>29. ASSUME StopShutdown PROVE JoinedInv'
  BY <1>29 DEF StopShutdown, IdleCaller, Returned
<1>30. ASSUME Close PROVE JoinedInv'
  BY <1>30 DEF Close, StopGoto, IdleCaller, Returned
<1> QED
  BY <1>1, <1>2, <1>3, <1>4, <1>5, <1>6, <1>7, <1>8, <1>9, <1>10, <1>11, <1>12, <1>13, <1>14, <1>15,
     <1>16, <1>17, <1>18, <1>19, <1>20, <1>21, <1>22, <1>23, <1>24, <1>25, <1>26, <1>27, <1>28, <1>29, <1>30
  DEF Next, Stop, Dispatch, DispatchStep, Work

-----------------------------------------------------------------------------
(* What stop() leaves *)

Returning == Returned \cup {"unseen"}

\* While stop() winds up, nobody is in the dispatcher, and nobody enters it.
LEMMA NobodyDispatches ==
    ASSUME IInv, CallersInv, PhaseInv, JoinedInv, spc \in Winding
    PROVE  \A e \in Events : dpc[e] \in Returning /\ ~Dispatch(e)
<1> SUFFICES ASSUME NEW e \in Events PROVE dpc[e] \in Returning /\ ~Dispatch(e)
  OBVIOUS
<1>1. CallerInv(e) /\ by[e] \in Callers /\ ~accepting
  BY DEF IInv, TypeOK, CallersInv, PhaseInv, Winding
<1>2. by[e] # "none" => dpc[e] \in Returned
  BY <1>1 DEF PhaseInv, JoinedInv, IdleCaller, StopThread, Callers, Winding
<1>3. dpc[e] \in Returning
  BY <1>1, <1>2 DEF CallerInv, Returning
<1>4. ~LogcatDispatch(e) /\ ~FlushDispatch(e) /\ ~ExitInfoCount(e)
  BY <1>1 DEF LogcatDispatch, FlushDispatch, ExitInfoCount, Winding
<1>5. ~DispatchStep(e)
  BY <1>3 DEF DispatchStep, Admit, JournalDetected, JournalDropped, Acquire, AppendTask,
     SubmitTask, ExitInfoPersisted, ExitInfoWrite, Returning, Returned
<1> QED
  BY <1>3, <1>4, <1>5 DEF Dispatch

\* Events whose end has been journaled, unless the journal was closed before.
Ended(e) ==
    \/ dpc[e] \in {"turned_away", "exit_persisted"}
    \/ dpc[e] = "done" /\ task[e] = "none"
    \/ task[e] = "timed_out"
SettledInv == \A e \in Events : Ended(e) => Len(journal[e]) = 2

\* A terminal record, on the first one of an event, while the journal is open.
LEMMA LastRecordCounts ==
    ASSUME TypeOK, NEW f \in Events, NEW status \in Terminals, Record(f, status),
           Quiet(f), journalOpen
    PROVE  Len(journal'[f]) = 2
<1>1. Len(journal[f]) \in Nat /\ Len(journal[f]) # 0 /\ Len(journal[f]) <= 1
  BY DEF TypeOK, Quiet
<1>2. Len(journal[f]) = 1
  BY <1>1, OneOfNat
<1>3. Len(journal'[f]) = Len(journal[f]) + 1
  BY RecordAppends
<1> QED
  BY <1>2, <1>3

LEMMA NotTwo == \A n \in Nat : n <= 1 => n # 2
  OBVIOUS

LEMMA SettledStep ==
    IInv /\ CallersInv /\ PhaseInv /\ JoinedInv /\ SettledInv /\ Next => SettledInv'
<1> SUFFICES ASSUME IInv, CallersInv, PhaseInv, JoinedInv, SettledInv, Next PROVE SettledInv'
  OBVIOUS
<1>a. TypeOK /\ \A e \in Events : StageInv(e) /\ JournalInv(e)
  BY DEF IInv
<1>b. ASSUME NEW f \in Events, Dispatch(f) PROVE journalOpen
  BY <1>b, NobodyDispatches DEF PhaseInv, Winding
<1> USE <1>a DEF dispatchVars, workerVars, logVars, TypeOK, SettledInv
<1>1. ASSUME NEW f \in Events, LogcatDispatch(f) PROVE SettledInv'
  BY <1>1 DEF LogcatDispatch, TakeUp, Ended, StageInv
<1>2. ASSUME NEW f \in Events, FlushDispatch(f) PROVE SettledInv'
  BY <1>2 DEF FlushDispatch, TakeUp, Ended, StageInv
<1>3. ASSUME NEW f \in Events, ExitInfoCount(f) PROVE SettledInv'
  BY <1>3 DEF ExitInfoCount, TakeUp, Ended, StageInv
<1>4. ASSUME NEW f \in Events, Admit(f) PROVE SettledInv'
  BY <1>4 DEF Admit, Ended, StageInv
<1>5. ASSUME NEW f \in Events, JournalDetected(f) PROVE SettledInv'
  <2>1. /\ dpc'[f] \in {"cap_detected", "detected", "exit_detected"}
        /\ task[f] = "none" /\ UNCHANGED task
    BY <1>5 DEF JournalDetected, StageInv
  <2>2. \A e \in Events : e # f => journal'[e] = journal[e] /\ dpc'[e] = dpc[e]
    BY <1>5, RecordOther DEF JournalDetected
  <2> QED
    BY <2>1, <2>2 DEF Ended
<1>6. ASSUME NEW f \in Events, JournalDropped(f) PROVE SettledInv'
  <2>1. Quiet(f)
    BY <1>6 DEF JournalDropped, JournalInv, Underway
  <2>2. journalOpen
    BY <1>6, <1>b DEF Dispatch, DispatchStep
  <2>3. Len(journal'[f]) = 2
    BY <1>6, <2>1, <2>2, LastRecordCounts DEF JournalDropped, Terminals
  <2>4. \A e \in Events : e # f => journal'[e] = journal[e] /\ dpc'[e] = dpc[e]
    BY <1>6, RecordOther DEF JournalDropped
  <2>5. UNCHANGED task
    BY <1>6 DEF JournalDropped
  <2> QED
    BY <2>3, <2>4, <2>5 DEF Ended
<1>7. ASSUME NEW f \in Events, Acquire(f) PROVE SettledInv'
  BY <1>7 DEF Acquire, Ended, StageInv
<1>8. ASSUME NEW f \in Events, AppendTask(f) PROVE SettledInv'
  BY <1>8 DEF AppendTask, Ended, StageInv
<1>9. ASSUME NEW f \in Events, SubmitTask(f) PROVE SettledInv'
  BY <1>9 DEF SubmitTask, Ended, StageInv
<1>10. ASSUME NEW f \in Events, ExitInfoPersisted(f) PROVE SettledInv'
  <2>1. Quiet(f)
    BY <1>10 DEF ExitInfoPersisted, JournalInv, Underway
  <2>2. journalOpen
    BY <1>10, <1>b DEF Dispatch, DispatchStep
  <2>3. Len(journal'[f]) = 2
    BY <1>10, <2>1, <2>2, LastRecordCounts DEF ExitInfoPersisted, Terminals, TaskTerminals
  <2>4. \A e \in Events : e # f => journal'[e] = journal[e] /\ dpc'[e] = dpc[e]
    BY <1>10, RecordOther DEF ExitInfoPersisted
  <2>5. UNCHANGED task
    BY <1>10 DEF ExitInfoPersisted
  <2> QED
    BY <2>3, <2>4, <2>5 DEF Ended
<1>11. ASSUME NEW f \in Events, ExitInfoWrite(f) PROVE SettledInv'
  BY <1>11 DEF ExitInfoWrite, Ended, StageInv
<1>12. ASSUME NEW f \in Events, RunTask(f) PROVE SettledInv'
  BY <1>12 DEF RunTask, WorkerGoto, TerminalWritten, Ended, StageInv
<1>13. ASSUME NEW f \in Events, DumpFails(f) PROVE SettledInv'
  BY <1>13 DEF DumpFails, WorkerGoto, Ended, StageInv
<1>14. ASSUME NEW f \in Events, DumpCompletes(f) PROVE SettledInv'
  BY <1>14 DEF DumpCompletes, WorkerGoto, Ended, StageInv
<1>15. ASSUME NEW f \in Events, CheckClaim(f) PROVE SettledInv'
  BY <1>15 DEF CheckClaim, WorkerGoto, TerminalWritten, Ended, StageInv
<1>16. ASSUME NEW f \in Events, PublishFile(f) PROVE SettledInv'
  BY <1>16 DEF PublishFile, WorkerGoto, Ended, StageInv
<1>17. ASSUME NEW f \in Events, PublishFails(f) PROVE SettledInv'
  BY <1>17 DEF PublishFails, WorkerGoto, Ended, StageInv
<1>18. ASSUME NEW f \in Events, ClaimPersisted(f) PROVE SettledInv'
  BY <1>18 DEF ClaimPersisted, Claim, WorkerGoto, TerminalWritten, Ended, StageInv
<1>19. ASSUME NEW f \in Events, ClaimFailed(f) PROVE SettledInv'
  BY <1>19 DEF ClaimFailed, Claim, WorkerGoto, TerminalWritten, Ended, StageInv
<1>20. ASSUME NEW f \in Events, JournalOutcome(f) PROVE SettledInv'
  <2>1. task[f] \in TaskTerminals /\ dpc[f] = "done"
    BY <1>20 DEF JournalOutcome, StageInv, TaskTerminals
  <2>2. Len(journal[f]) \in Nat /\ Len(journal[f]) <= 1
    BY <1>20 DEF JournalOutcome, JournalInv, Quiet
  <2>3. Len(journal[f]) # 2
    BY <2>2, NotTwo
  <2>4. ~Ended(f)
    BY <2>3
  <2>5. UNCHANGED <<dpc, task>>
    BY <1>20 DEF JournalOutcome
  <2>6. \A e \in Events : e # f => journal'[e] = journal[e]
    BY <1>20, RecordOther DEF JournalOutcome
  <2> QED
    BY <2>4, <2>5, <2>6 DEF Ended
<1>21. ASSUME NEW f \in Events, Release(f) PROVE SettledInv'
  BY <1>21 DEF Release, WorkerGoto, Ended, StageInv
<1>22. ASSUME NEW f \in Events, StopMark(f) PROVE SettledInv'
  <2>1. task[f] \in {"queued", "running"} /\ journalOpen
    BY <1>22 DEF StopMark, Unfinished, PhaseInv
  <2>2. Quiet(f)
    BY <2>1 DEF JournalInv
  <2>3. Len(journal'[f]) = 2
    BY <1>22, <2>1, <2>2, LastRecordCounts DEF StopMark, Terminals, TaskTerminals
  <2>4. \A e \in Events : e # f => journal'[e] = journal[e] /\ task'[e] = task[e]
    BY <1>22, RecordOther DEF StopMark
  <2>5. UNCHANGED dpc
    BY <1>22 DEF StopMark
  <2> QED
    BY <2>3, <2>4, <2>5 DEF Ended
<1>23. ASSUME StopBegin PROVE SettledInv'
  BY <1>23 DEF StopBegin, StopGoto, Ended, StageInv
<1>24. ASSUME StopJoin PROVE SettledInv'
  BY <1>24 DEF StopJoin, StopGoto, Ended, StageInv
<1>25. ASSUME StopFlushed PROVE SettledInv'
  BY <1>25 DEF StopFlushed, StopGoto, Ended, StageInv
<1>26. ASSUME StopDrain PROVE SettledInv'
  BY <1>26 DEF StopDrain, StopGoto, Ended, StageInv
<1>27. ASSUME StopLock PROVE SettledInv'
  BY <1>27 DEF StopLock, StopGoto, Ended, StageInv
<1>28. ASSUME StopUnlock PROVE SettledInv'
  BY <1>28 DEF StopUnlock, StopGoto, Ended, StageInv
<1>29. ASSUME StopShutdown PROVE SettledInv'
  BY <1>29 DEF StopShutdown, Ended, StageInv
<1>30. ASSUME Close PROVE SettledInv'
  BY <1>30 DEF Close, StopGoto, Ended, StageInv
<1> QED
  BY <1>1, <1>2, <1>3, <1>4, <1>5, <1>6, <1>7, <1>8, <1>9, <1>10, <1>11, <1>12, <1>13, <1>14, <1>15,
     <1>16, <1>17, <1>18, <1>19, <1>20, <1>21, <1>22, <1>23, <1>24, <1>25, <1>26, <1>27, <1>28, <1>29, <1>30
  DEF Next, Stop, Dispatch, DispatchStep, Work

\* Once the unfinished tasks are marked, every task has ended, and stays so.
ResolvedInv ==
    spc \in {"marked", "stopped", "closed"} =>
        \A e \in Events : task[e] \in TaskTerminals \cup {"none"}

LEMMA ResolvedStep ==
    IInv /\ CallersInv /\ PhaseInv /\ JoinedInv /\ ResolvedInv /\ Next => ResolvedInv'
<1> SUFFICES ASSUME IInv, CallersInv, PhaseInv, JoinedInv, ResolvedInv, Next PROVE ResolvedInv'
  OBVIOUS
<1>a. TypeOK /\ \A e \in Events : StageInv(e) /\ CallerInv(e)
  BY DEF IInv, CallersInv
<1>b. ASSUME NEW f \in Events, Dispatch(f) PROVE spc \notin {"marked", "stopped", "closed"}
  BY <1>b, NobodyDispatches DEF Winding
<1> USE <1>a DEF dispatchVars, workerVars, logVars, TypeOK, ResolvedInv
<1>1. ASSUME NEW f \in Events, LogcatDispatch(f) PROVE ResolvedInv'
  BY <1>1 DEF LogcatDispatch, TakeUp, StageInv
<1>2. ASSUME NEW f \in Events, FlushDispatch(f) PROVE ResolvedInv'
  BY <1>2 DEF FlushDispatch, TakeUp, StageInv
<1>3. ASSUME NEW f \in Events, ExitInfoCount(f) PROVE ResolvedInv'
  BY <1>3 DEF ExitInfoCount, TakeUp, StageInv
<1>4. ASSUME NEW f \in Events, Admit(f) PROVE ResolvedInv'
  BY <1>4 DEF Admit, StageInv
<1>5. ASSUME NEW f \in Events, JournalDetected(f) PROVE ResolvedInv'
  BY <1>5 DEF JournalDetected, StageInv
<1>6. ASSUME NEW f \in Events, JournalDropped(f) PROVE ResolvedInv'
  BY <1>6 DEF JournalDropped, StageInv
<1>7. ASSUME NEW f \in Events, Acquire(f) PROVE ResolvedInv'
  BY <1>7 DEF Acquire, StageInv
<1>8. ASSUME NEW f \in Events, AppendTask(f) PROVE ResolvedInv'
  <2>1. spc \notin {"marked", "stopped", "closed"} /\ UNCHANGED spc
    BY <1>8, <1>b DEF Dispatch, DispatchStep, AppendTask
  <2> QED
    BY <2>1
<1>9. ASSUME NEW f \in Events, SubmitTask(f) PROVE ResolvedInv'
  BY <1>9 DEF SubmitTask, StageInv
<1>10. ASSUME NEW f \in Events, ExitInfoPersisted(f) PROVE ResolvedInv'
  BY <1>10 DEF ExitInfoPersisted, StageInv
<1>11. ASSUME NEW f \in Events, ExitInfoWrite(f) PROVE ResolvedInv'
  BY <1>11 DEF ExitInfoWrite, StageInv
<1>12. ASSUME NEW f \in Events, RunTask(f) PROVE ResolvedInv'
  BY <1>12 DEF RunTask, WorkerGoto, TerminalWritten, StageInv
<1>13. ASSUME NEW f \in Events, DumpFails(f) PROVE ResolvedInv'
  BY <1>13 DEF DumpFails, WorkerGoto, StageInv
<1>14. ASSUME NEW f \in Events, DumpCompletes(f) PROVE ResolvedInv'
  BY <1>14 DEF DumpCompletes, WorkerGoto, StageInv
<1>15. ASSUME NEW f \in Events, CheckClaim(f) PROVE ResolvedInv'
  BY <1>15 DEF CheckClaim, WorkerGoto, TerminalWritten, StageInv
<1>16. ASSUME NEW f \in Events, PublishFile(f) PROVE ResolvedInv'
  BY <1>16 DEF PublishFile, WorkerGoto, StageInv
<1>17. ASSUME NEW f \in Events, PublishFails(f) PROVE ResolvedInv'
  BY <1>17 DEF PublishFails, WorkerGoto, StageInv
<1>18. ASSUME NEW f \in Events, ClaimPersisted(f) PROVE ResolvedInv'
  BY <1>18 DEF ClaimPersisted, Claim, WorkerGoto, TerminalWritten, StageInv
<1>19. ASSUME NEW f \in Events, ClaimFailed(f) PROVE ResolvedInv'
  BY <1>19 DEF ClaimFailed, Claim, WorkerGoto, TerminalWritten, StageInv
<1>20. ASSUME NEW f \in Events, JournalOutcome(f) PROVE ResolvedInv'
  BY <1>20 DEF JournalOutcome, WorkerGoto, StageInv
<1>21. ASSUME NEW f \in Events, Release(f) PROVE ResolvedInv'
  BY <1>21 DEF Release, WorkerGoto, StageInv
<1>22. ASSUME NEW f \in Events, StopMark(f) PROVE ResolvedInv'
  BY <1>22 DEF StopMark, Unfinished, StageInv
<1>23. ASSUME StopBegin PROVE ResolvedInv'
  BY <1>23 DEF StopBegin, StopGoto, StageInv
<1>24. ASSUME StopJoin PROVE ResolvedInv'
  BY <1>24 DEF StopJoin, StopGoto, StageInv
<1>25. ASSUME StopFlushed PROVE ResolvedInv'
  BY <1>25 DEF StopFlushed, StopGoto, StageInv
<1>26. ASSUME StopDrain PROVE ResolvedInv'
  BY <1>26 DEF StopDrain, StopGoto, StageInv
<1>27. ASSUME StopLock PROVE ResolvedInv'
  BY <1>27 DEF StopLock, StopGoto, StageInv
<1>28. ASSUME StopUnlock PROVE ResolvedInv'
  <2>1. \A e \in Events : task[e] \in {"queued", "running"} => wpc[e] = "done"
    BY <1>28 DEF StopUnlock, Unfinished
  <2>2. \A e \in Events : task[e] \in TaskTerminals \cup {"none"}
    BY <2>1 DEF CallerInv, TaskTerminals
  <2> QED
    BY <1>28, <2>2 DEF StopUnlock, StopGoto
<1>29. ASSUME StopShutdown PROVE ResolvedInv'
  BY <1>29 DEF StopShutdown, StageInv
<1>30. ASSUME Close PROVE ResolvedInv'
  BY <1>30 DEF Close, StopGoto, StageInv
<1> QED
  BY <1>1, <1>2, <1>3, <1>4, <1>5, <1>6, <1>7, <1>8, <1>9, <1>10, <1>11, <1>12, <1>13, <1>14, <1>15,
     <1>16, <1>17, <1>18, <1>19, <1>20, <1>21, <1>22, <1>23, <1>24, <1>25, <1>26, <1>27, <1>28, <1>29, <1>30
  DEF Next, Stop, Dispatch, DispatchStep, Work

StopInv == IInv /\ CallersInv /\ PhaseInv /\ JoinedInv /\ SettledInv /\ ResolvedInv

LEMMA InitStopInv == Init => StopInv
<1> SUFFICES ASSUME Init PROVE StopInv
  OBVIOUS
<1>1. IInv /\ CallersInv
  BY InitLimitsInv DEF LimitsInv
<1>2. PhaseInv /\ JoinedInv /\ SettledInv /\ ResolvedInv
  BY DEF Init, PhaseInv, JoinedInv, SettledInv, ResolvedInv, Ended, Winding
<1> QED
  BY <1>1, <1>2 DEF StopInv

LEMMA StutterStop == StopInv /\ UNCHANGED vars => StopInv'
<1> SUFFICES ASSUME StopInv, UNCHANGED vars PROVE StopInv'
  OBVIOUS
<1>1. IInv'
  BY StutterIInv DEF StopInv
<1>2. CallersInv' /\ PhaseInv' /\ JoinedInv' /\ SettledInv' /\ ResolvedInv'
  BY DEF StopInv, CallersInv, CallerInv, PhaseInv, JoinedInv, IdleCaller, SettledInv, Ended,
     ResolvedInv, vars, dispatchVars, workerVars, logVars
<1> QED
  BY <1>1, <1>2 DEF StopInv

\* What stop() relies on, once it has joined the logcat thread, holds in every
\* reachable state.
THEOREM StopInvariant == ASSUME ~JoinMayTimeOut PROVE Spec => []StopInv
<1>1. StopInv /\ [Next]_vars => StopInv'
  <2> SUFFICES ASSUME StopInv, Next PROVE StopInv'
    BY StutterStop
  <2>1. IInv' /\ CallersInv'
    BY TypeStep, StageStep, JournalStep, CallersStep DEF StopInv, IInv
  <2>2. PhaseInv' /\ JoinedInv'
    BY PhaseStep, JoinedStep DEF StopInv
  <2>3. SettledInv' /\ ResolvedInv'
    BY SettledStep, ResolvedStep DEF StopInv
  <2> QED
    BY <2>1, <2>2, <2>3 DEF StopInv
<1> QED
  BY InitStopInv, <1>1, PTL DEF Spec

\* When stop() has claimed what was left no task is open; and when close() has shut
\* the journal, a terminal record is missing only of a task whose worker had claimed
\* its end (StopLeavesNothing promises nothing when the join gave up).
THEOREM StopLeavesNothingOpen == Spec => []StopLeavesNothing
<1>1. CASE JoinMayTimeOut
  <2>1. StopLeavesNothing
    BY <1>1 DEF StopLeavesNothing, StopResolvesAll, MissingRecordWasClaimed
  <2> QED
    BY <2>1, PTL
<1>2. CASE ~JoinMayTimeOut
  <2>1. StopInv => StopLeavesNothing
    <3> SUFFICES ASSUME StopInv PROVE StopLeavesNothing
      OBVIOUS
    <3>1. StopResolvesAll
      BY DEF StopInv, ResolvedInv, StopResolvesAll
    <3>2. ASSUME spc = "closed", NEW e \in Events, Len(journal[e]) = 1
          PROVE  task[e] \in {"persisted", "failed"}
      <4>1. task[e] \in TaskTerminals \cup {"none"} /\ dpc[e] \in Returning
        BY <3>2, NobodyDispatches DEF StopInv, ResolvedInv, Winding
      <4>2. ~Ended(e) /\ dpc[e] # "unseen"
        BY <3>2 DEF StopInv, SettledInv, IInv, JournalInv, Undetected
      <4> QED
        BY <4>1, <4>2 DEF Ended, Returning, Returned, TaskTerminals
    <3>3. MissingRecordWasClaimed
      BY <3>2 DEF MissingRecordWasClaimed
    <3> QED
      BY <3>1, <3>3 DEF StopLeavesNothing
  <2> QED
    BY <1>2, <2>1, StopInvariant, PTL
<1> QED
  BY <1>1, <1>2

-----------------------------------------------------------------------------
(* The ledger *)

\* Where dispatcher and task can be together, as StageInv and CallerInv say.
OnItsWay(pc, caller, state) ==
    /\ pc \in DispatchPCs /\ caller \in Callers
    /\ state \in TaskTerminals \cup {"none", "queued", "running"}
    /\ state # "none" => pc \in {"appended", "done", "lost"}
    /\ pc \in {"appended", "lost"} => state # "none"
    /\ caller = "exit_info" => pc \in ExitInfoPCs \cup {"done"} /\ state = "none"

\* What the outcome is then.
OutcomeIs(pc, caller, state, outcome) ==
    /\ pc \in {"unseen", "accepted"} => outcome = "none"
    /\ pc \in {"capped", "cap_detected", "turned_away", "rejected"} => outcome = "dropped"
    /\ pc = "done" /\ state = "none" =>
           outcome = IF caller = "exit_info" THEN "persisted" ELSE "dropped"
    /\ caller = "exit_info" /\ pc = "exit_persisted" => outcome = "persisted"
    /\ state \in TaskTerminals => outcome = state
    /\ state \in {"queued", "running"} => outcome = "open"
    /\ pc \in {"counted", "detected", "acquired", "exit_counted", "exit_detected"} =>
           outcome = "open"

\* On the way of an event the alternatives of its outcome exclude each other.
LEMMA OutcomeCases ==
    ASSUME NEW pc, NEW caller, NEW state, OnItsWay(pc, caller, state)
    PROVE  OutcomeIs(pc, caller, state, OutcomeOf(pc, caller, state))
  BY DEF OutcomeOf, OutcomeIs, OnItsWay, TaskTerminals, ExitInfoPCs

\* Before a step and after it.
LEMMA OutcomeBefore ==
    ASSUME IInv, CallersInv, NEW e \in Events
    PROVE  OutcomeIs(dpc[e], by[e], task[e], OutcomeOf(dpc[e], by[e], task[e]))
<1>1. OnItsWay(dpc[e], by[e], task[e])
  BY DEF IInv, TypeOK, StageInv, CallersInv, CallerInv, OnItsWay
<1> QED
  BY <1>1, OutcomeCases

LEMMA OutcomeAfter ==
    ASSUME IInv', CallersInv', NEW e \in Events
    PROVE  OutcomeIs(dpc'[e], by'[e], task'[e], OutcomeOf(dpc'[e], by'[e], task'[e]))
<1>1. OnItsWay(dpc'[e], by'[e], task'[e])
  BY DEF IInv, TypeOK, StageInv, CallersInv, CallerInv, OnItsWay
<1> QED
  BY <1>1, OutcomeCases

\* What the ledger allows an incident.
LedgerAllows(was, is) ==
    \/ is = was
    \/ was = "none" /\ is \in {"open", "dropped"}
    \/ was = "open" /\ is \in Ledger!Outcomes

OutcomeMoves(f) ==
    /\ LedgerAllows(OutcomeOf(dpc[f], by[f], task[f]), OutcomeOf(dpc'[f], by'[f], task'[f]))
    /\ \A e \in Events \ {f} : dpc'[e] = dpc[e] /\ by'[e] = by[e] /\ task'[e] = task[e]

\* One incident that moves as allowed, before the end, is a step of the ledger.
LEMMA OneIncidentMoves ==
    ASSUME NEW f \in Events, OutcomeMoves(f), spc # "closed", spc' # "closed"
    PROVE  [Ledger!Next]_Ledger!vars
<1> DEFINE before == OutcomeOf(dpc[f], by[f], task[f])
           after == OutcomeOf(dpc'[f], by'[f], task'[f])
<1>1. Outcome' = [Outcome EXCEPT ![f] = after] /\ Outcome[f] = before
  BY DEF Outcome, OutcomeMoves
<1>2. LedgerAllows(before, after)
  BY DEF OutcomeMoves
<1>3. Outcome \in [Events -> {Outcome[e] : e \in Events}]
  BY DEF Outcome
<1> HIDE DEF before, after
<1>4. CASE after = before
  <2>1. Outcome' = Outcome
    BY <1>1, <1>3, <1>4
  <2> QED
    BY <2>1 DEF Ledger!vars
<1>5. CASE before = "none" /\ after \in {"open", "dropped"}
  <2>1. Ledger!Open(f) \/ Ledger!Drop(f)
    BY <1>1, <1>5 DEF Ledger!Open, Ledger!Drop, Ledger!Become
  <2> QED
    BY <2>1 DEF Ledger!Next
<1>6. CASE before = "open" /\ after \in Ledger!Outcomes
  <2>1. Ledger!Settle(f)
    BY <1>1, <1>6 DEF Ledger!Settle, Ledger!Become
  <2> QED
    BY <2>1 DEF Ledger!Next
<1> QED
  BY <1>2, <1>4, <1>5, <1>6 DEF LedgerAllows

\* Nothing the ledger sees changes.
LEMMA NoIncidentMoves ==
    ASSUME UNCHANGED <<dpc, by, task>>, (spc = "closed") <=> (spc' = "closed")
    PROVE  [Ledger!Next]_Ledger!vars
<1>1. Outcome' = Outcome
  BY DEF Outcome
<1> QED
  BY <1>1 DEF Ledger!vars

\* Every step of the dispatchers, of a worker, or of the marking moves one incident
\* as the ledger allows.
LEMMA IncidentMoves ==
    ASSUME IInv, CallersInv, IInv', CallersInv', NEW f \in Events,
           Dispatch(f) \/ Work(f) \/ StopMark(f)
    PROVE  OutcomeMoves(f)
<1> DEFINE before == OutcomeOf(dpc[f], by[f], task[f])
           after == OutcomeOf(dpc'[f], by'[f], task'[f])
<1>a. OutcomeIs(dpc[f], by[f], task[f], before)
  BY OutcomeBefore
<1>b. OutcomeIs(dpc'[f], by'[f], task'[f], after)
  BY OutcomeAfter
<1>c. TypeOK /\ StageInv(f) /\ CallerInv(f)
  BY DEF IInv, CallersInv
<1> SUFFICES LedgerAllows(before, after)
             /\ \A e \in Events \ {f} : dpc'[e] = dpc[e] /\ by'[e] = by[e] /\ task'[e] = task[e]
  BY DEF OutcomeMoves
<1>d. ASSUME UNCHANGED <<dpc, by, task>> PROVE after = before
  BY <1>d
<1> HIDE DEF before, after
<1> DEFINE Goal == LedgerAllows(before, after)
             /\ \A e \in Events \ {f} : dpc'[e] = dpc[e] /\ by'[e] = by[e] /\ task'[e] = task[e]
<1> USE <1>a, <1>b, <1>c DEF dispatchVars, workerVars, TypeOK
<1>1. ASSUME LogcatDispatch(f) PROVE Goal
  BY <1>1 DEF LogcatDispatch, TakeUp, OutcomeIs, LedgerAllows, StageInv, CallerInv, Ledger!Outcomes, TaskTerminals, ExitInfoPCs
<1>2. ASSUME FlushDispatch(f) PROVE Goal
  BY <1>2 DEF FlushDispatch, TakeUp, OutcomeIs, LedgerAllows, StageInv, CallerInv, Ledger!Outcomes, TaskTerminals, ExitInfoPCs
<1>3. ASSUME ExitInfoCount(f) PROVE Goal
  BY <1>3 DEF ExitInfoCount, TakeUp, OutcomeIs, LedgerAllows, StageInv, CallerInv, Ledger!Outcomes, TaskTerminals, ExitInfoPCs
<1>4. ASSUME Admit(f) PROVE Goal
  BY <1>4 DEF Admit, OutcomeIs, LedgerAllows, StageInv, CallerInv, Ledger!Outcomes, TaskTerminals, ExitInfoPCs
<1>5. ASSUME JournalDetected(f) PROVE Goal
  BY <1>5 DEF JournalDetected, OutcomeIs, LedgerAllows, StageInv, CallerInv, Ledger!Outcomes, TaskTerminals, ExitInfoPCs
<1>6. ASSUME JournalDropped(f) PROVE Goal
  BY <1>6 DEF JournalDropped, OutcomeIs, LedgerAllows, StageInv, CallerInv, Ledger!Outcomes, TaskTerminals, ExitInfoPCs
<1>7. ASSUME Acquire(f) PROVE Goal
  BY <1>7 DEF Acquire, OutcomeIs, LedgerAllows, StageInv, CallerInv, Ledger!Outcomes, TaskTerminals, ExitInfoPCs
<1>8. ASSUME AppendTask(f) PROVE Goal
  BY <1>8 DEF AppendTask, OutcomeIs, LedgerAllows, StageInv, CallerInv, Ledger!Outcomes, TaskTerminals, ExitInfoPCs
<1>9. ASSUME SubmitTask(f) PROVE Goal
  BY <1>9 DEF SubmitTask, OutcomeIs, LedgerAllows, StageInv, CallerInv, Ledger!Outcomes, TaskTerminals, ExitInfoPCs
<1>10. ASSUME ExitInfoPersisted(f) PROVE Goal
  BY <1>10 DEF ExitInfoPersisted, OutcomeIs, LedgerAllows, StageInv, CallerInv, Ledger!Outcomes, TaskTerminals, ExitInfoPCs
<1>11. ASSUME ExitInfoWrite(f) PROVE Goal
  BY <1>11 DEF ExitInfoWrite, OutcomeIs, LedgerAllows, StageInv, CallerInv, Ledger!Outcomes, TaskTerminals, ExitInfoPCs
<1>12. ASSUME RunTask(f) PROVE Goal
  BY <1>12 DEF RunTask, WorkerGoto, TerminalWritten, OutcomeIs, LedgerAllows, StageInv, CallerInv, Ledger!Outcomes, TaskTerminals, ExitInfoPCs
<1>13. ASSUME ClaimPersisted(f) PROVE Goal
  BY <1>13 DEF ClaimPersisted, Claim, WorkerGoto, TerminalWritten, OutcomeIs, LedgerAllows, StageInv, CallerInv, Ledger!Outcomes, TaskTerminals, ExitInfoPCs
<1>14. ASSUME ClaimFailed(f) PROVE Goal
  BY <1>14 DEF ClaimFailed, Claim, WorkerGoto, TerminalWritten, OutcomeIs, LedgerAllows, StageInv, CallerInv, Ledger!Outcomes, TaskTerminals, ExitInfoPCs
<1>15. ASSUME StopMark(f) PROVE Goal
  BY <1>15 DEF StopMark, Unfinished, OutcomeIs, LedgerAllows, StageInv, CallerInv, Ledger!Outcomes, TaskTerminals, ExitInfoPCs
<1>16. ASSUME DumpFails(f) \/ DumpCompletes(f) \/ CheckClaim(f) \/ PublishFile(f) \/ PublishFails(f)
             \/ JournalOutcome(f) \/ Release(f)
      PROVE  Goal
  <2>1. UNCHANGED <<dpc, by, task>>
    BY <1>16 DEF DumpFails, DumpCompletes, CheckClaim, PublishFile, PublishFails, JournalOutcome, Release
  <2> QED
    BY <1>d, <2>1 DEF LedgerAllows
<1> QED
  BY <1>1, <1>2, <1>3, <1>4, <1>5, <1>6, <1>7, <1>8, <1>9, <1>10, <1>11, <1>12, <1>13, <1>14, <1>15, <1>16 DEF Dispatch, DispatchStep, Work

\* Every step is a step of the ledger, or leaves it alone.
LEMMA LedgerStep == StopInv /\ StopInv' /\ Next => [Ledger!Next]_Ledger!vars
<1> SUFFICES ASSUME StopInv, StopInv', Next PROVE [Ledger!Next]_Ledger!vars
  OBVIOUS
<1>a. /\ IInv /\ CallersInv /\ PhaseInv /\ JoinedInv /\ ResolvedInv
      /\ IInv' /\ CallersInv' /\ TypeOK
  BY DEF StopInv, IInv
<1>1. ASSUME NEW f \in Events, Dispatch(f) PROVE [Ledger!Next]_Ledger!vars
  <2>1. spc # "closed"
    BY <1>a, <1>1, NobodyDispatches DEF Winding
  <2>2. spc' = spc
    BY <1>1 DEF Dispatch, DispatchStep, LogcatDispatch, FlushDispatch, ExitInfoCount, Admit, JournalDetected,
       JournalDropped, Acquire, AppendTask, SubmitTask, ExitInfoPersisted, ExitInfoWrite
  <2> QED
    BY <1>1, <1>a, <2>1, <2>2, IncidentMoves, OneIncidentMoves
<1>2. ASSUME NEW f \in Events, Work(f) PROVE [Ledger!Next]_Ledger!vars
  <2>1. UNCHANGED <<spc, dispatchVars>>
    BY <1>2 DEF Work, RunTask, DumpFails, DumpCompletes, CheckClaim, PublishFile, PublishFails,
       ClaimPersisted, ClaimFailed, Claim, JournalOutcome, Release
  <2>2. CASE spc # "closed"
    BY <1>2, <1>a, <2>1, <2>2, IncidentMoves, OneIncidentMoves
  <2>3. CASE spc = "closed"
    <3>1. task[f] \in TaskTerminals \/ wpc[f] = "none"
      BY <1>a, <2>3 DEF ResolvedInv, IInv, StageInv
    <3>2. UNCHANGED task
      BY <1>2, <3>1 DEF Work, RunTask, DumpFails, DumpCompletes, CheckClaim, PublishFile, PublishFails,
         ClaimPersisted, ClaimFailed, Claim, JournalOutcome, Release, TerminalWritten
    <3> QED
      BY <2>1, <3>2, NoIncidentMoves DEF dispatchVars
  <2> QED
    BY <2>2, <2>3
<1>3. ASSUME NEW f \in Events, StopMark(f) PROVE [Ledger!Next]_Ledger!vars
  <2>1. spc # "closed" /\ spc' # "closed"
    BY <1>3 DEF StopMark
  <2> QED
    BY <1>3, <1>a, <2>1, IncidentMoves, OneIncidentMoves
<1>4. ASSUME StopBegin \/ StopJoin \/ StopFlushed \/ StopDrain \/ StopLock \/ StopUnlock \/ StopShutdown
      PROVE  [Ledger!Next]_Ledger!vars
  <2>1. UNCHANGED <<dpc, by, task>>
    BY <1>4 DEF StopBegin, StopJoin, StopFlushed, StopDrain, StopLock, StopUnlock, StopShutdown,
       StopGoto, dispatchVars
  <2>2. spc # "closed" /\ spc' # "closed"
    BY <1>4 DEF StopBegin, StopJoin, StopFlushed, StopDrain, StopLock, StopUnlock, StopShutdown, StopGoto
  <2> QED
    BY <2>1, <2>2, NoIncidentMoves
<1>5. ASSUME Close PROVE [Ledger!Next]_Ledger!vars
  <2>1. /\ spc = "stopped" /\ spc' = "closed"
        /\ UNCHANGED <<dpc, by, task>>
    BY <1>5 DEF Close, StopGoto, dispatchVars
  <2>2. ASSUME NEW e \in Events PROVE Outcome[e] # "open"
    <3>1. dpc[e] \in Returning /\ task[e] \in TaskTerminals \cup {"none"}
      BY <1>a, <2>1, NobodyDispatches DEF ResolvedInv, Winding
    <3>2. OutcomeIs(dpc[e], by[e], task[e], OutcomeOf(dpc[e], by[e], task[e]))
      BY <1>a, OutcomeBefore
    <3>3. OutcomeOf(dpc[e], by[e], task[e]) # "open"
      BY <3>1, <3>2 DEF OutcomeIs, Returning, Returned, TaskTerminals
    <3> QED
      BY <3>3 DEF Outcome
  <2>3. Outcome' = Outcome
    BY <2>1 DEF Outcome
  <2>4. Ledger!End
    BY <2>1, <2>2, <2>3 DEF Ledger!End
  <2> QED
    BY <2>4 DEF Ledger!Next
<1> QED
  BY <1>1, <1>2, <1>3, <1>4, <1>5 DEF Next, Stop

\* When the join succeeds, the pipeline implements the ledger: every incident is
\* opened and settled once, none is open when the journal is closed (and the report
\* is built), and none changes afterwards, although workers may still run.
THEOREM PipelineImplementsLedger == ASSUME ~JoinMayTimeOut PROVE Spec => ImplementsLedger
<1>1. Init => Ledger!Init
  BY DEF Init, Ledger!Init, Outcome, OutcomeOf
<1>2. StopInv /\ StopInv' /\ [Next]_vars => [Ledger!Next]_Ledger!vars
  <2>1. UNCHANGED vars => UNCHANGED Ledger!vars
    BY NoIncidentMoves DEF vars, dispatchVars, workerVars, Ledger!vars, Outcome
  <2> QED
    BY <2>1, LedgerStep
<1> QED
  BY <1>1, <1>2, StopInvariant, PTL DEF Spec, ImplementsLedger, Ledger!Spec
=============================================================================
