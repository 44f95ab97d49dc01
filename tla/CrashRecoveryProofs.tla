------------------------ MODULE CrashRecoveryProofs ------------------------
(***************************************************************************)
(* What a kill costs, for every set of events and every value of the       *)
(* limits: the report that `sat recover' builds from what is on disk is    *)
(* never stable, shows every issue logcat saw but those over the cap, and  *)
(* calls persisted only what has its files.                                *)
(***************************************************************************)
EXTENDS CrashRecovery, IncidentPipelineProofs

-----------------------------------------------------------------------------
(* What one step of the pipeline can do, seen from the dispatcher, from the *)
(* incident directory and from the journal                                  *)

\* A caller takes up an event, or goes on with it.
Taken(e, caller) ==
    /\ dpc[e] = "unseen" /\ by'[e] = caller
    /\ dpc'[e] = IF caller = "exit_info" THEN "exit_counted" ELSE "accepted"
    /\ IdleCaller(IF caller = "logcat" THEN {"logcat"} ELSE StopThread)
    /\ CASE caller = "logcat" -> accepting
         [] caller = "flush" -> spc = "flushing"
         [] OTHER -> spc = "exit_info"
GoesOn(e) ==
    /\ by'[e] = by[e]
    /\ \/ dpc[e] = "accepted" /\ dpc'[e] = "capped" /\ CapReached(TypeOf[e])
       \/ dpc[e] = "accepted" /\ dpc'[e] = "counted"
       \/ dpc[e] = "capped" /\ dpc'[e] = "cap_detected"
       \/ dpc[e] = "cap_detected" /\ dpc'[e] = "turned_away"
       \/ /\ dpc[e] \in LetThrough /\ dpc[e] \notin Returned /\ dpc'[e] \in LetThrough
          /\ dpc'[e] \notin {"counted", "exit_counted"}
DispatchMoves ==
    \/ UNCHANGED <<by, dpc>>
    \/ /\ UNCHANGED spc
       /\ \E f \in Events :
             /\ (\E caller \in Callers \ {"none"} : Taken(f, caller)) \/ GoesOn(f)
             /\ \A e \in Events \ {f} : by'[e] = by[e] /\ dpc'[e] = dpc[e]

LEMMA DispatchMovesStep == ASSUME TypeOK, Next PROVE DispatchMoves
<1> USE DEF TypeOK, dispatchVars
<1>1. ASSUME NEW f \in Events, LogcatDispatch(f) PROVE DispatchMoves
  BY <1>1 DEF LogcatDispatch, TakeUp, DispatchMoves, Taken, Callers
<1>2. ASSUME NEW f \in Events, FlushDispatch(f) PROVE DispatchMoves
  BY <1>2 DEF FlushDispatch, TakeUp, DispatchMoves, Taken, Callers
<1>3. ASSUME NEW f \in Events, ExitInfoCount(f) PROVE DispatchMoves
  <2>1. Taken(f, "exit_info")
    BY <1>3 DEF ExitInfoCount, TakeUp, Taken
  <2>2. UNCHANGED spc /\ \A e \in Events \ {f} : by'[e] = by[e] /\ dpc'[e] = dpc[e]
    BY <1>3 DEF ExitInfoCount, TakeUp
  <2> QED
    BY <2>1, <2>2 DEF DispatchMoves, Callers
<1>4. ASSUME NEW f \in Events, Admit(f) PROVE DispatchMoves
  BY <1>4 DEF Admit, DispatchMoves, GoesOn, LetThrough, Returned, DispatchPCs
<1>5. ASSUME NEW f \in Events, JournalDetected(f) PROVE DispatchMoves
  BY <1>5 DEF JournalDetected, Record, DispatchMoves, GoesOn, LetThrough, Returned, DispatchPCs
<1>6. ASSUME NEW f \in Events, JournalDropped(f) PROVE DispatchMoves
  BY <1>6 DEF JournalDropped, Record, DispatchMoves, GoesOn, LetThrough, Returned, DispatchPCs
<1>7. ASSUME NEW f \in Events, Acquire(f) PROVE DispatchMoves
  BY <1>7 DEF Acquire, DispatchMoves, GoesOn, LetThrough, Returned, DispatchPCs
<1>8. ASSUME NEW f \in Events, AppendTask(f) PROVE DispatchMoves
  BY <1>8 DEF AppendTask, DispatchMoves, GoesOn, LetThrough, Returned, DispatchPCs
<1>9. ASSUME NEW f \in Events, SubmitTask(f) PROVE DispatchMoves
  BY <1>9 DEF SubmitTask, DispatchMoves, GoesOn, LetThrough, Returned, DispatchPCs
<1>10. ASSUME NEW f \in Events, ExitInfoPersisted(f) PROVE DispatchMoves
  BY <1>10 DEF ExitInfoPersisted, Record, DispatchMoves, GoesOn, LetThrough, Returned, DispatchPCs
<1>11. ASSUME NEW f \in Events, ExitInfoWrite(f) PROVE DispatchMoves
  BY <1>11 DEF ExitInfoWrite, DispatchMoves, GoesOn, LetThrough, Returned, DispatchPCs
<1>12. ASSUME NEW f \in Events, RunTask(f) PROVE DispatchMoves
  BY <1>12 DEF RunTask, WorkerGoto, DispatchMoves
<1>13. ASSUME NEW f \in Events, DumpFails(f) PROVE DispatchMoves
  BY <1>13 DEF DumpFails, WorkerGoto, DispatchMoves
<1>14. ASSUME NEW f \in Events, DumpCompletes(f) PROVE DispatchMoves
  BY <1>14 DEF DumpCompletes, WorkerGoto, DispatchMoves
<1>15. ASSUME NEW f \in Events, CheckClaim(f) PROVE DispatchMoves
  BY <1>15 DEF CheckClaim, WorkerGoto, DispatchMoves
<1>16. ASSUME NEW f \in Events, PublishFile(f) PROVE DispatchMoves
  BY <1>16 DEF PublishFile, WorkerGoto, DispatchMoves
<1>17. ASSUME NEW f \in Events, PublishFails(f) PROVE DispatchMoves
  BY <1>17 DEF PublishFails, WorkerGoto, DispatchMoves
<1>18. ASSUME NEW f \in Events, ClaimPersisted(f) PROVE DispatchMoves
  BY <1>18 DEF ClaimPersisted, Claim, WorkerGoto, DispatchMoves
<1>19. ASSUME NEW f \in Events, ClaimFailed(f) PROVE DispatchMoves
  BY <1>19 DEF ClaimFailed, Claim, WorkerGoto, DispatchMoves
<1>20. ASSUME NEW f \in Events, JournalOutcome(f) PROVE DispatchMoves
  BY <1>20 DEF JournalOutcome, WorkerGoto, Record, DispatchMoves
<1>21. ASSUME NEW f \in Events, Release(f) PROVE DispatchMoves
  BY <1>21 DEF Release, WorkerGoto, DispatchMoves
<1>22. ASSUME NEW f \in Events, StopMark(f) PROVE DispatchMoves
  BY <1>22 DEF StopMark, Unfinished, Record, DispatchMoves
<1>23. ASSUME StopBegin PROVE DispatchMoves
  BY <1>23 DEF StopBegin, StopGoto, DispatchMoves
<1>24. ASSUME StopJoin PROVE DispatchMoves
  BY <1>24 DEF StopJoin, StopGoto, DispatchMoves
<1>25. ASSUME StopFlushed PROVE DispatchMoves
  BY <1>25 DEF StopFlushed, StopGoto, DispatchMoves
<1>26. ASSUME StopDrain PROVE DispatchMoves
  BY <1>26 DEF StopDrain, StopGoto, DispatchMoves
<1>27. ASSUME StopLock PROVE DispatchMoves
  BY <1>27 DEF StopLock, StopGoto, DispatchMoves
<1>28. ASSUME StopUnlock PROVE DispatchMoves
  BY <1>28 DEF StopUnlock, StopGoto, DispatchMoves
<1>29. ASSUME StopShutdown PROVE DispatchMoves
  BY <1>29 DEF StopShutdown, DispatchMoves
<1>30. ASSUME Close PROVE DispatchMoves
  BY <1>30 DEF Close, StopGoto, DispatchMoves
<1> QED
  BY <1>1, <1>2, <1>3, <1>4, <1>5, <1>6, <1>7, <1>8, <1>9, <1>10, <1>11, <1>12, <1>13, <1>14, <1>15,
     <1>16, <1>17, <1>18, <1>19, <1>20, <1>21, <1>22, <1>23, <1>24, <1>25, <1>26, <1>27, <1>28, <1>29, <1>30
  DEF Next, Stop, Dispatch, DispatchStep, Work

\* Files are moved into the incident directory one at a time, all at once by
\* ExitInfo, and never away; and a task never ceases to be one.
PublishedMoves(e) ==
    /\ task'[e] = "none" => task[e] = "none"
    /\ \/ published'[e] = published[e]
       \/ wpc[e] = "publishing" /\ published'[e] = published[e] + 1
       \/ dpc[e] = "exit_persisted" /\ published'[e] = FilesPerIncident

LEMMA PublishedMovesStep ==
    ASSUME TypeOK, Next, NEW e \in Events PROVE PublishedMoves(e)
<1> USE DEF TypeOK, workerVars
<1>1. ASSUME NEW f \in Events, LogcatDispatch(f) PROVE PublishedMoves(e)
  BY <1>1 DEF LogcatDispatch, TakeUp, PublishedMoves
<1>2. ASSUME NEW f \in Events, FlushDispatch(f) PROVE PublishedMoves(e)
  BY <1>2 DEF FlushDispatch, TakeUp, PublishedMoves
<1>3. ASSUME NEW f \in Events, ExitInfoCount(f) PROVE PublishedMoves(e)
  BY <1>3 DEF ExitInfoCount, TakeUp, PublishedMoves
<1>4. ASSUME NEW f \in Events, Admit(f) PROVE PublishedMoves(e)
  BY <1>4 DEF Admit, PublishedMoves
<1>5. ASSUME NEW f \in Events, JournalDetected(f) PROVE PublishedMoves(e)
  BY <1>5 DEF JournalDetected, Record, PublishedMoves
<1>6. ASSUME NEW f \in Events, JournalDropped(f) PROVE PublishedMoves(e)
  BY <1>6 DEF JournalDropped, Record, PublishedMoves
<1>7. ASSUME NEW f \in Events, Acquire(f) PROVE PublishedMoves(e)
  BY <1>7 DEF Acquire, PublishedMoves
<1>8. ASSUME NEW f \in Events, AppendTask(f) PROVE PublishedMoves(e)
  BY <1>8 DEF AppendTask, PublishedMoves
<1>9. ASSUME NEW f \in Events, SubmitTask(f) PROVE PublishedMoves(e)
  BY <1>9 DEF SubmitTask, PublishedMoves
<1>10. ASSUME NEW f \in Events, ExitInfoPersisted(f) PROVE PublishedMoves(e)
  BY <1>10 DEF ExitInfoPersisted, Record, PublishedMoves
<1>11. ASSUME NEW f \in Events, ExitInfoWrite(f) PROVE PublishedMoves(e)
  BY <1>11 DEF ExitInfoWrite, PublishedMoves
<1>12. ASSUME NEW f \in Events, RunTask(f) PROVE PublishedMoves(e)
  BY <1>12 DEF RunTask, WorkerGoto, PublishedMoves
<1>13. ASSUME NEW f \in Events, DumpFails(f) PROVE PublishedMoves(e)
  BY <1>13 DEF DumpFails, WorkerGoto, PublishedMoves
<1>14. ASSUME NEW f \in Events, DumpCompletes(f) PROVE PublishedMoves(e)
  BY <1>14 DEF DumpCompletes, WorkerGoto, PublishedMoves
<1>15. ASSUME NEW f \in Events, CheckClaim(f) PROVE PublishedMoves(e)
  BY <1>15 DEF CheckClaim, WorkerGoto, PublishedMoves
<1>16. ASSUME NEW f \in Events, PublishFile(f) PROVE PublishedMoves(e)
  BY <1>16 DEF PublishFile, WorkerGoto, PublishedMoves
<1>17. ASSUME NEW f \in Events, PublishFails(f) PROVE PublishedMoves(e)
  BY <1>17 DEF PublishFails, WorkerGoto, PublishedMoves
<1>18. ASSUME NEW f \in Events, ClaimPersisted(f) PROVE PublishedMoves(e)
  BY <1>18 DEF ClaimPersisted, Claim, WorkerGoto, PublishedMoves
<1>19. ASSUME NEW f \in Events, ClaimFailed(f) PROVE PublishedMoves(e)
  BY <1>19 DEF ClaimFailed, Claim, WorkerGoto, PublishedMoves
<1>20. ASSUME NEW f \in Events, JournalOutcome(f) PROVE PublishedMoves(e)
  BY <1>20 DEF JournalOutcome, WorkerGoto, Record, PublishedMoves, TaskTerminals
<1>21. ASSUME NEW f \in Events, Release(f) PROVE PublishedMoves(e)
  BY <1>21 DEF Release, WorkerGoto, PublishedMoves
<1>22. ASSUME NEW f \in Events, StopMark(f) PROVE PublishedMoves(e)
  BY <1>22 DEF StopMark, Unfinished, Record, PublishedMoves
<1>23. ASSUME StopBegin PROVE PublishedMoves(e)
  BY <1>23 DEF StopBegin, StopGoto, PublishedMoves
<1>24. ASSUME StopJoin PROVE PublishedMoves(e)
  BY <1>24 DEF StopJoin, StopGoto, PublishedMoves
<1>25. ASSUME StopFlushed PROVE PublishedMoves(e)
  BY <1>25 DEF StopFlushed, StopGoto, PublishedMoves
<1>26. ASSUME StopDrain PROVE PublishedMoves(e)
  BY <1>26 DEF StopDrain, StopGoto, PublishedMoves
<1>27. ASSUME StopLock PROVE PublishedMoves(e)
  BY <1>27 DEF StopLock, StopGoto, PublishedMoves
<1>28. ASSUME StopUnlock PROVE PublishedMoves(e)
  BY <1>28 DEF StopUnlock, StopGoto, PublishedMoves
<1>29. ASSUME StopShutdown PROVE PublishedMoves(e)
  BY <1>29 DEF StopShutdown, PublishedMoves
<1>30. ASSUME Close PROVE PublishedMoves(e)
  BY <1>30 DEF Close, StopGoto, PublishedMoves
<1> QED
  BY <1>1, <1>2, <1>3, <1>4, <1>5, <1>6, <1>7, <1>8, <1>9, <1>10, <1>11, <1>12, <1>13, <1>14, <1>15,
     <1>16, <1>17, <1>18, <1>19, <1>20, <1>21, <1>22, <1>23, <1>24, <1>25, <1>26, <1>27, <1>28, <1>29, <1>30
  DEF Next, Stop, Dispatch, DispatchStep, Work

\* The journal grows by one record, of a known kind, while it is open.
JournalMoves(e) ==
    \/ journal'[e] = journal[e] /\ (journalOpen /\ dpc[e] \in Undetected => dpc'[e] \in Undetected)
    \/ /\ journalOpen
       /\ \E status \in Terminals \cup {"detected"} :
             /\ journal'[e] = Append(journal[e], status)
             /\ status = "dropped_by_cap" => dpc'[e] = "turned_away"

LEMMA JournalMovesStep ==
    ASSUME IInv, Next, NEW e \in Events PROVE JournalMoves(e)
<1> USE DEF IInv, TypeOK, logVars, dispatchVars
<1>1. ASSUME NEW f \in Events, LogcatDispatch(f) PROVE JournalMoves(e)
  BY <1>1 DEF LogcatDispatch, TakeUp, JournalMoves, Undetected
<1>2. ASSUME NEW f \in Events, FlushDispatch(f) PROVE JournalMoves(e)
  BY <1>2 DEF FlushDispatch, TakeUp, JournalMoves, Undetected
<1>3. ASSUME NEW f \in Events, ExitInfoCount(f) PROVE JournalMoves(e)
  BY <1>3 DEF ExitInfoCount, TakeUp, JournalMoves, Undetected
<1>4. ASSUME NEW f \in Events, Admit(f) PROVE JournalMoves(e)
  BY <1>4 DEF Admit, JournalMoves, Undetected
<1>5. ASSUME NEW f \in Events, JournalDetected(f) PROVE JournalMoves(e)
  <2>1. CASE journalOpen /\ e = f
    <3>1. journal'[e] = Append(journal[e], "detected")
      BY <1>5, <2>1 DEF JournalDetected, Record
    <3> QED
      BY <2>1, <3>1 DEF JournalMoves
  <2>2. CASE ~(journalOpen /\ e = f)
    BY <1>5, <2>2 DEF JournalDetected, Record, JournalMoves
  <2> QED
    BY <2>1, <2>2
<1>6. ASSUME NEW f \in Events, JournalDropped(f) PROVE JournalMoves(e)
  <2>1. CASE journalOpen /\ e = f
    <3>1. PICK status \in {"dropped_by_cap", "dropped_by_backpressure"} :
             /\ Record(f, status)
             /\ dpc' = [dpc EXCEPT ![f] = IF status = "dropped_by_cap" THEN "turned_away" ELSE "done"]
      BY <1>6 DEF JournalDropped
    <3>2. journal'[e] = Append(journal[e], status)
      BY <2>1, <3>1 DEF Record
    <3>3. status \in Terminals \cup {"detected"} /\ (status = "dropped_by_cap" => dpc'[e] = "turned_away")
      BY <2>1, <3>1 DEF Terminals
    <3> QED
      BY <2>1, <3>2, <3>3 DEF JournalMoves
  <2>2. CASE ~(journalOpen /\ e = f)
    BY <1>6, <2>2 DEF JournalDropped, Record, JournalMoves, Undetected
  <2> QED
    BY <2>1, <2>2
<1>7. ASSUME NEW f \in Events, Acquire(f) PROVE JournalMoves(e)
  BY <1>7 DEF Acquire, JournalMoves, Undetected
<1>8. ASSUME NEW f \in Events, AppendTask(f) PROVE JournalMoves(e)
  BY <1>8 DEF AppendTask, JournalMoves, Undetected
<1>9. ASSUME NEW f \in Events, SubmitTask(f) PROVE JournalMoves(e)
  BY <1>9 DEF SubmitTask, JournalMoves, Undetected
<1>10. ASSUME NEW f \in Events, ExitInfoPersisted(f) PROVE JournalMoves(e)
  BY <1>10 DEF ExitInfoPersisted, Record, JournalMoves, Undetected, Terminals, TaskTerminals
<1>11. ASSUME NEW f \in Events, ExitInfoWrite(f) PROVE JournalMoves(e)
  BY <1>11 DEF ExitInfoWrite, JournalMoves, Undetected
<1>12. ASSUME NEW f \in Events, RunTask(f) PROVE JournalMoves(e)
  BY <1>12 DEF RunTask, WorkerGoto, JournalMoves, Undetected
<1>13. ASSUME NEW f \in Events, DumpFails(f) PROVE JournalMoves(e)
  BY <1>13 DEF DumpFails, WorkerGoto, JournalMoves, Undetected
<1>14. ASSUME NEW f \in Events, DumpCompletes(f) PROVE JournalMoves(e)
  BY <1>14 DEF DumpCompletes, WorkerGoto, JournalMoves, Undetected
<1>15. ASSUME NEW f \in Events, CheckClaim(f) PROVE JournalMoves(e)
  BY <1>15 DEF CheckClaim, WorkerGoto, JournalMoves, Undetected
<1>16. ASSUME NEW f \in Events, PublishFile(f) PROVE JournalMoves(e)
  BY <1>16 DEF PublishFile, WorkerGoto, JournalMoves, Undetected
<1>17. ASSUME NEW f \in Events, PublishFails(f) PROVE JournalMoves(e)
  BY <1>17 DEF PublishFails, WorkerGoto, JournalMoves, Undetected
<1>18. ASSUME NEW f \in Events, ClaimPersisted(f) PROVE JournalMoves(e)
  BY <1>18 DEF ClaimPersisted, Claim, WorkerGoto, JournalMoves, Undetected
<1>19. ASSUME NEW f \in Events, ClaimFailed(f) PROVE JournalMoves(e)
  BY <1>19 DEF ClaimFailed, Claim, WorkerGoto, JournalMoves, Undetected
<1>20. ASSUME NEW f \in Events, JournalOutcome(f) PROVE JournalMoves(e)
  BY <1>20 DEF JournalOutcome, WorkerGoto, Record, JournalMoves, Undetected, StageInv, Terminals, TaskTerminals
<1>21. ASSUME NEW f \in Events, Release(f) PROVE JournalMoves(e)
  BY <1>21 DEF Release, WorkerGoto, JournalMoves, Undetected
<1>22. ASSUME NEW f \in Events, StopMark(f) PROVE JournalMoves(e)
  BY <1>22 DEF StopMark, Unfinished, Record, JournalMoves, Undetected, Terminals, TaskTerminals
<1>23. ASSUME StopBegin PROVE JournalMoves(e)
  BY <1>23 DEF StopBegin, StopGoto, JournalMoves, Undetected
<1>24. ASSUME StopJoin PROVE JournalMoves(e)
  BY <1>24 DEF StopJoin, StopGoto, JournalMoves, Undetected
<1>25. ASSUME StopFlushed PROVE JournalMoves(e)
  BY <1>25 DEF StopFlushed, StopGoto, JournalMoves, Undetected
<1>26. ASSUME StopDrain PROVE JournalMoves(e)
  BY <1>26 DEF StopDrain, StopGoto, JournalMoves, Undetected
<1>27. ASSUME StopLock PROVE JournalMoves(e)
  BY <1>27 DEF StopLock, StopGoto, JournalMoves, Undetected
<1>28. ASSUME StopUnlock PROVE JournalMoves(e)
  BY <1>28 DEF StopUnlock, StopGoto, JournalMoves, Undetected
<1>29. ASSUME StopShutdown PROVE JournalMoves(e)
  BY <1>29 DEF StopShutdown, JournalMoves, Undetected
<1>30. ASSUME Close PROVE JournalMoves(e)
  BY <1>30 DEF Close, StopGoto, JournalMoves, Undetected
<1> QED
  BY <1>1, <1>2, <1>3, <1>4, <1>5, <1>6, <1>7, <1>8, <1>9, <1>10, <1>11, <1>12, <1>13, <1>14, <1>15,
     <1>16, <1>17, <1>18, <1>19, <1>20, <1>21, <1>22, <1>23, <1>24, <1>25, <1>26, <1>27, <1>28, <1>29, <1>30
  DEF Next, Stop, Dispatch, DispatchStep, Work

-----------------------------------------------------------------------------
(* Which incidents hide one over the cap *)

\* The callers follow one another, and each has one event at a time.
OrderInv ==
    /\ \A e \in Events : by[e] = "flush" => spc \notin {"running", "joining"}
    /\ \A e \in Events : by[e] = "exit_info" => spc \notin {"running", "joining", "flushing"}
    /\ \A e \in Events : by[e] = "flush" /\ dpc[e] \notin Returned => spc = "flushing"
    /\ \A e, f \in Events :
          e # f /\ by[e] = by[f] /\ by[e] \in {"logcat", "flush"} =>
              dpc[e] \in Returned \/ dpc[f] \in Returned

\* An event over the cap stands behind one that logcat reported and that has
\* been through the dispatcher.
Stands(e, f) == TypeOf[f] = TypeOf[e] /\ by[f] \in {"logcat", "flush"} /\ dpc[f] = "done"
CappedInv ==
    \A e \in Events :
        dpc[e] \in {"capped", "cap_detected", "turned_away"} /\ MaxIncidentsPerType > 0 =>
            \E f \in Events : Stands(e, f)

\* An event that has its detected record behind it has a record; and what the
\* journal says was dropped by the cap was.
RecordsInv ==
    \A e \in Events :
        /\ dpc[e] \notin Undetected => journal[e] # <<>>
        /\ \A i \in DOMAIN journal[e] :
              journal[e][i] = "dropped_by_cap" => dpc[e] = "turned_away"

\* The files of an incident that has no task, from ExitInfo, are all there or none.
FilesInv == \A e \in Events : task[e] = "none" => published[e] \in {0, FilesPerIncident}

\* Where stop() goes from where it is, when nothing is dispatched.
StopMoves ==
    \/ spc' = spc
    \/ spc = "running" /\ spc' = "joining"
    \/ spc = "joining" /\ spc' = "flushing"
    \/ spc \notin {"running", "joining", "closed"} /\ IdleCaller(StopThread)
       /\ spc' \notin {"running", "joining", "flushing"}

LEMMA StopMovesStep ==
    ASSUME IInv, PhaseInv, Next
    PROVE  UNCHANGED <<by, dpc>> => StopMoves
<1> USE DEF StopMoves, PhaseInv, Winding
<1>1. ASSUME NEW f \in Events, LogcatDispatch(f) PROVE UNCHANGED <<by, dpc>> => StopMoves
  BY <1>1 DEF LogcatDispatch, TakeUp
<1>2. ASSUME NEW f \in Events, FlushDispatch(f) PROVE UNCHANGED <<by, dpc>> => StopMoves
  BY <1>2 DEF FlushDispatch, TakeUp
<1>3. ASSUME NEW f \in Events, ExitInfoCount(f) PROVE UNCHANGED <<by, dpc>> => StopMoves
  BY <1>3 DEF ExitInfoCount, TakeUp
<1>4. ASSUME NEW f \in Events, Admit(f) PROVE UNCHANGED <<by, dpc>> => StopMoves
  BY <1>4 DEF Admit
<1>5. ASSUME NEW f \in Events, JournalDetected(f) PROVE UNCHANGED <<by, dpc>> => StopMoves
  BY <1>5 DEF JournalDetected, Record
<1>6. ASSUME NEW f \in Events, JournalDropped(f) PROVE UNCHANGED <<by, dpc>> => StopMoves
  BY <1>6 DEF JournalDropped, Record
<1>7. ASSUME NEW f \in Events, Acquire(f) PROVE UNCHANGED <<by, dpc>> => StopMoves
  BY <1>7 DEF Acquire
<1>8. ASSUME NEW f \in Events, AppendTask(f) PROVE UNCHANGED <<by, dpc>> => StopMoves
  BY <1>8 DEF AppendTask
<1>9. ASSUME NEW f \in Events, SubmitTask(f) PROVE UNCHANGED <<by, dpc>> => StopMoves
  BY <1>9 DEF SubmitTask
<1>10. ASSUME NEW f \in Events, ExitInfoPersisted(f) PROVE UNCHANGED <<by, dpc>> => StopMoves
  BY <1>10 DEF ExitInfoPersisted, Record
<1>11. ASSUME NEW f \in Events, ExitInfoWrite(f) PROVE UNCHANGED <<by, dpc>> => StopMoves
  BY <1>11 DEF ExitInfoWrite
<1>12. ASSUME NEW f \in Events, RunTask(f) PROVE UNCHANGED <<by, dpc>> => StopMoves
  BY <1>12 DEF RunTask, WorkerGoto
<1>13. ASSUME NEW f \in Events, DumpFails(f) PROVE UNCHANGED <<by, dpc>> => StopMoves
  BY <1>13 DEF DumpFails, WorkerGoto
<1>14. ASSUME NEW f \in Events, DumpCompletes(f) PROVE UNCHANGED <<by, dpc>> => StopMoves
  BY <1>14 DEF DumpCompletes, WorkerGoto
<1>15. ASSUME NEW f \in Events, CheckClaim(f) PROVE UNCHANGED <<by, dpc>> => StopMoves
  BY <1>15 DEF CheckClaim, WorkerGoto
<1>16. ASSUME NEW f \in Events, PublishFile(f) PROVE UNCHANGED <<by, dpc>> => StopMoves
  BY <1>16 DEF PublishFile, WorkerGoto
<1>17. ASSUME NEW f \in Events, PublishFails(f) PROVE UNCHANGED <<by, dpc>> => StopMoves
  BY <1>17 DEF PublishFails, WorkerGoto
<1>18. ASSUME NEW f \in Events, ClaimPersisted(f) PROVE UNCHANGED <<by, dpc>> => StopMoves
  BY <1>18 DEF ClaimPersisted, Claim, WorkerGoto
<1>19. ASSUME NEW f \in Events, ClaimFailed(f) PROVE UNCHANGED <<by, dpc>> => StopMoves
  BY <1>19 DEF ClaimFailed, Claim, WorkerGoto
<1>20. ASSUME NEW f \in Events, JournalOutcome(f) PROVE UNCHANGED <<by, dpc>> => StopMoves
  BY <1>20 DEF JournalOutcome, WorkerGoto, Record
<1>21. ASSUME NEW f \in Events, Release(f) PROVE UNCHANGED <<by, dpc>> => StopMoves
  BY <1>21 DEF Release, WorkerGoto
<1>22. ASSUME NEW f \in Events, StopMark(f) PROVE UNCHANGED <<by, dpc>> => StopMoves
  BY <1>22 DEF StopMark, Unfinished, Record
<1>23. ASSUME StopBegin PROVE UNCHANGED <<by, dpc>> => StopMoves
  BY <1>23 DEF StopBegin, StopGoto
<1>24. ASSUME StopJoin PROVE UNCHANGED <<by, dpc>> => StopMoves
  BY <1>24 DEF StopJoin, StopGoto
<1>25. ASSUME StopFlushed PROVE UNCHANGED <<by, dpc>> => StopMoves
  BY <1>25 DEF StopFlushed, StopGoto
<1>26. ASSUME StopDrain PROVE UNCHANGED <<by, dpc>> => StopMoves
  BY <1>26 DEF StopDrain, StopGoto
<1>27. ASSUME StopLock PROVE UNCHANGED <<by, dpc>> => StopMoves
  BY <1>27 DEF StopLock, StopGoto
<1>28. ASSUME StopUnlock PROVE UNCHANGED <<by, dpc>> => StopMoves
  BY <1>28 DEF StopUnlock, StopGoto
<1>29. ASSUME StopShutdown PROVE UNCHANGED <<by, dpc>> => StopMoves
  BY <1>29 DEF StopShutdown
<1>30. ASSUME Close PROVE UNCHANGED <<by, dpc>> => StopMoves
  BY <1>30 DEF Close, StopGoto
<1> QED
  BY <1>1, <1>2, <1>3, <1>4, <1>5, <1>6, <1>7, <1>8, <1>9, <1>10, <1>11, <1>12, <1>13, <1>14, <1>15,
     <1>16, <1>17, <1>18, <1>19, <1>20, <1>21, <1>22, <1>23, <1>24, <1>25, <1>26, <1>27, <1>28, <1>29, <1>30
  DEF Next, Stop, Dispatch, DispatchStep, Work

LEMMA OrderStep ==
    ASSUME StopInv, OrderInv, Next PROVE OrderInv'
<1>1. CASE UNCHANGED <<by, dpc>>
  <2>1. StopMoves
    BY <1>1, StopMovesStep DEF StopInv
  <2> QED
    BY <1>1, <2>1 DEF OrderInv, StopMoves, IdleCaller, StopThread
<1>2. ASSUME UNCHANGED spc, NEW f \in Events, NEW caller \in Callers \ {"none"}, Taken(f, caller),
             \A e \in Events \ {f} : by'[e] = by[e] /\ dpc'[e] = dpc[e]
      PROVE  OrderInv'
  <2>1. \A e \in Events \ {f} : by[e] = caller => dpc[e] \in Returned
    BY <1>2 DEF Taken, IdleCaller, StopThread, Callers
  <2>2. CASE caller = "logcat"
    <3>1. spc = "running" \/ ~ accepting
      BY DEF StopInv, PhaseInv
    <3> QED
      BY <1>2, <2>1, <2>2 DEF Taken, OrderInv
  <2>3. CASE caller = "flush"
    BY <1>2, <2>1, <2>3 DEF Taken, OrderInv
  <2>4. CASE caller = "exit_info"
    BY <1>2, <2>1, <2>4 DEF Taken, OrderInv
  <2> QED
    BY <2>2, <2>3, <2>4 DEF Callers
<1>3. ASSUME UNCHANGED spc, NEW f \in Events, GoesOn(f),
             \A e \in Events \ {f} : by'[e] = by[e] /\ dpc'[e] = dpc[e]
      PROVE  OrderInv'
  <2>1. by'[f] = by[f] /\ dpc[f] \notin Returned
    BY <1>3 DEF GoesOn, Returned
  <2> QED
    BY <1>3, <2>1 DEF OrderInv
<1> QED
  BY <1>1, <1>2, <1>3, DispatchMovesStep DEF StopInv, IInv, DispatchMoves

\* When an event finds the cap reached, all the incidents that reached it are
\* through the dispatcher.
LEMMA CapIsReachedByOthers ==
    ASSUME StopInv, OrderInv, LimitsInv, MaxIncidentsPerType > 0,
           NEW e \in Events, dpc[e] = "accepted", CapReached(TypeOf[e])
    PROVE  \E f \in Events : Stands(e, f)
<1> DEFINE counted == Counted(TypeOf[e], Callers)
<1>1. TypeOf[e] \in Types  BY PipelineAssumption DEF PipelineAssumption
<1>2. Cardinality(counted) # 0
  <2>1. Cardinality(counted) = counts[TypeOf[e]] /\ counts[TypeOf[e]] \in Nat
    BY <1>1 DEF LimitsInv, CountsInv, CapKept, IInv, TypeOK
  <2> QED
    BY <2>1, PipelineAssumption DEF CapReached, PipelineAssumption
<1>3. counted # {}
  BY <1>2, FS_EmptySet
<1>4. PICK f \in Events : TypeOf[f] = TypeOf[e] /\ by[f] \in Callers /\ dpc[f] \in LetThrough
  BY <1>3 DEF Counted
<1>5. CallerInv(e) /\ CallerInv(f) /\ by[e] \in Callers
  BY DEF StopInv, CallersInv, IInv, TypeOK
<1>6. by[e] \in {"logcat", "flush"} /\ by[f] # "none" /\ f # e
  BY <1>4, <1>5 DEF CallerInv, Callers, ExitInfoPCs, LetThrough
<1>7. CASE by[e] = "logcat"
  <2>1. spc \in {"running", "joining"}
    BY <1>7 DEF StopInv, JoinedInv, IdleCaller, Returned
  <2>2. by[f] = "logcat"
    BY <1>4, <1>6, <2>1 DEF OrderInv, Callers
  <2>3. dpc[f] \in Returned
    BY <1>6, <1>7, <2>2 DEF OrderInv, Returned
  <2> QED
    BY <1>4, <2>2, <2>3 DEF Stands, Returned, LetThrough
<1>8. CASE by[e] = "flush"
  <2>1. spc = "flushing"
    BY <1>8 DEF OrderInv, Returned
  <2>2. by[f] \in {"logcat", "flush"}
    BY <1>4, <1>6, <2>1 DEF OrderInv, Callers
  <2>3. dpc[f] \in Returned
    BY <1>6, <1>8, <2>1, <2>2 DEF OrderInv, Returned, StopInv, JoinedInv, IdleCaller
  <2> QED
    BY <1>4, <2>2, <2>3 DEF Stands, Returned, LetThrough
<1> QED
  BY <1>6, <1>7, <1>8

LEMMA CappedStep ==
    ASSUME StopInv, OrderInv, LimitsInv, CappedInv, Next PROVE CappedInv'
<1>1. ASSUME NEW e \in Events, NEW f \in Events, Stands(e, f) PROVE Stands(e, f)'
  <2>1. dpc'[f] = dpc[f] /\ by'[f] = by[f]
    BY <1>1, DispatchMovesStep DEF StopInv, IInv, DispatchMoves, Taken, GoesOn, Stands, Returned
  <2> QED
    BY <1>1, <2>1 DEF Stands
<1>2. SUFFICES ASSUME NEW e \in Events, MaxIncidentsPerType > 0,
                      dpc'[e] \in {"capped", "cap_detected", "turned_away"}
               PROVE  \E f \in Events : Stands(e, f)
  BY <1>1, <1>2 DEF CappedInv
<1>3. \/ dpc[e] \in {"capped", "cap_detected", "turned_away"}
      \/ dpc[e] = "accepted" /\ CapReached(TypeOf[e])
  BY <1>2, DispatchMovesStep DEF StopInv, IInv, DispatchMoves, Taken, GoesOn, LetThrough
<1> QED
  BY <1>2, <1>3, CapIsReachedByOthers DEF CappedInv

LEMMA RecordsStep ==
    ASSUME StopInv, RecordsInv, Next PROVE RecordsInv'
<1> SUFFICES ASSUME NEW e \in Events
             PROVE  /\ dpc'[e] \notin Undetected => journal'[e] # <<>>
                    /\ \A i \in DOMAIN journal'[e] :
                          journal'[e][i] = "dropped_by_cap" => dpc'[e] = "turned_away"
  BY DEF RecordsInv
<1>1. journal[e] \in Seq(Terminals \cup {"detected"}) /\ JournalMoves(e)
  BY JournalMovesStep DEF StopInv, IInv, TypeOK
<1>2. dpc[e] = "turned_away" => dpc'[e] = "turned_away"
  BY DispatchMovesStep DEF StopInv, IInv, DispatchMoves, Taken, GoesOn, LetThrough, Returned
<1>3. ~journalOpen => UNCHANGED dpc
  <2>1. ~journalOpen =>
           spc = "closed" /\ ~accepting /\ \A f \in Events : dpc[f] \in Returning
    BY NobodyDispatches DEF StopInv, PhaseInv, Winding
  <2> QED
    BY <2>1, DispatchMovesStep
    DEF StopInv, IInv, DispatchMoves, Taken, GoesOn, Callers, LetThrough, Returning, Returned
<1>4. CASE journal'[e] = journal[e]
  <2>1. dpc'[e] \notin Undetected => dpc[e] \notin Undetected
    BY <1>1, <1>3, <1>4 DEF JournalMoves
  <2> QED
    BY <1>2, <1>4, <2>1 DEF RecordsInv
<1>5. ASSUME NEW status \in Terminals \cup {"detected"},
             journal'[e] = Append(journal[e], status),
             status = "dropped_by_cap" => dpc'[e] = "turned_away"
      PROVE  /\ journal'[e] # <<>>
             /\ \A i \in DOMAIN journal'[e] :
                   journal'[e][i] = "dropped_by_cap" => dpc'[e] = "turned_away"
  BY <1>1, <1>2, <1>5 DEF RecordsInv
<1> QED
  BY <1>1, <1>4, <1>5 DEF JournalMoves

LEMMA FilesStep ==
    ASSUME IInv, FilesInv, Next PROVE FilesInv'
<1> SUFFICES ASSUME NEW e \in Events, task'[e] = "none"
             PROVE  published'[e] \in {0, FilesPerIncident}
  BY DEF FilesInv
<1>1. StageInv(e) /\ PublishedMoves(e)
  BY PublishedMovesStep DEF IInv
<1> QED
  BY <1>1 DEF StageInv, PublishedMoves, FilesInv


-----------------------------------------------------------------------------
(* The report *)

\* How a story ends in the report.
LEMMA StoryEnds ==
    ASSUME NEW records \in Seq(Terminals \cup {"detected"}), OneStory(records), records # <<>>
    PROVE  /\ 1 \in DOMAIN records /\ records[1] = "detected"
           /\ \/ LastTerminal(records) = "none"
              \/ 2 \in DOMAIN records /\ LastTerminal(records) = records[2]
<1>1. Len(records) \in Nat /\ Len(records) # 0 /\ Len(records) <= 2 /\ DOMAIN records = 1 .. Len(records)
  BY DEF OneStory
<1>2. CASE Len(records) = 1
  <2>1. Terminal(records) = {}
    BY <1>1, <1>2 DEF Terminal, OneStory
  <2> QED
    BY <1>1, <1>2, <2>1 DEF LastTerminal, OneStory
<1>3. CASE Len(records) = 2
  <2>1. Terminal(records) = {2}
    BY <1>1, <1>3 DEF Terminal, OneStory
  <2>2. (CHOOSE i \in Terminal(records) : \A j \in Terminal(records) : j <= i) = 2
    BY <2>1
  <2> QED
    BY <1>1, <1>3, <2>1, <2>2 DEF LastTerminal, OneStory
<1> QED
  BY <1>1, <1>2, <1>3

\* A record of an issue makes an incident of the report, unless the cap took it.
LEMMA IssueIsReported ==
    ASSUME IInv, NEW e \in Events, NEW health, report' = Report(journal, Files, KindOf, health),
           by[e] # "exit_info", journal[e] # <<>>, LastTerminal(journal[e]) # "dropped_by_cap"
    PROVE  \E entry \in report'.incidents : entry.event = e
<1>1. journal[e] \in Seq(Terminals \cup {"detected"}) /\ OneStory(journal[e]) /\ DOMAIN journal = Events
  BY DEF IInv, TypeOK, JournalInv
<1>2. KindOf[e] = "issue"
  BY DEF KindOf
<1>3. e \in IssueEvents(journal, KindOf)
  BY <1>1, <1>2, StoryEnds DEF IssueEvents
<1>4. CASE LastTerminal(journal[e]) = "none"
  <2> DEFINE entry == Entry(e, "failed", "placeholder")
  <2>1. entry \in Orphans(journal, KindOf)
    BY <1>3, <1>4 DEF Orphans, OrphanedEvents
  <2>2. entry.event = e
    BY DEF Entry
  <2> QED
    BY <1>2, <2>1, <2>2 DEF Report, Incidents, Reportable
<1>5. CASE LastTerminal(journal[e]) # "none"
  <2> DEFINE entry == Entry(e, LastTerminal(journal[e]), IF e \in Files THEN "file" ELSE "placeholder")
  <2>1. entry \in FromJournal(journal, Files, KindOf)
    BY <1>3, <1>5 DEF FromJournal, SettledEvents
  <2>2. entry.event = e
    BY DEF Entry
  <2> QED
    BY <1>2, <2>1, <2>2 DEF Report, Incidents, Reportable
<1> QED
  BY <1>4, <1>5

RecoveryInv == StopInv /\ LimitsInv /\ OrderInv /\ CappedInv /\ RecordsInv

LEMMA IssuesSurface ==
    ASSUME RecoveryInv, NEW health, report' = Report(journal, Files, KindOf, health), UNCHANGED vars
    PROVE  LogcatIssuesSurface'
<1> SUFFICES ASSUME NEW e \in Events, by[e] # "exit_info", journal[e] # <<>>,
                    LastTerminal(journal[e]) = "dropped_by_cap", MaxIncidentsPerType > 0
             PROVE  \E f \in Events : TypeOf[f] = TypeOf[e] /\
                        \E entry \in report'.incidents : entry.event = f
  BY IssueIsReported DEF LogcatIssuesSurface, Reported, vars, dispatchVars, logVars, RecoveryInv, StopInv
<1>a. \A g \in Events : journal[g] \in Seq(Terminals \cup {"detected"}) /\ OneStory(journal[g])
  BY DEF RecoveryInv, StopInv, IInv, TypeOK, JournalInv
<1>1. dpc[e] = "turned_away"
  BY <1>a, StoryEnds DEF RecoveryInv, RecordsInv
<1>2. PICK f \in Events : Stands(e, f)
  BY <1>1 DEF RecoveryInv, CappedInv
<1>3. journal[f] # <<>> /\ by[f] # "exit_info"
  BY <1>2 DEF RecoveryInv, RecordsInv, Stands, Undetected
<1>4. LastTerminal(journal[f]) # "dropped_by_cap"
  BY <1>2, <1>3, <1>a, StoryEnds DEF RecoveryInv, RecordsInv, Stands
<1>5. \E entry \in report'.incidents : entry.event = f
  BY <1>3, <1>4, IssueIsReported DEF RecoveryInv, StopInv
<1> QED
  BY <1>2, <1>5 DEF Stands


\* A report is there only when the process died or the journal is closed; what it
\* recovered is not stable; and an incident it shows with its file has one.
FromFiles(entry) ==
    entry.event \in Events /\ (entry.evidence = "file" => published[entry.event] # 0)
ReportInv ==
    /\ report # NoReport => killed \/ spc = "closed"
    /\ RecoveredNeverStable
    /\ \A entry \in report.incidents : FromFiles(entry)

LEMMA ReportOfFiles ==
    ASSUME IInv, NEW health, report' = Report(journal, Files, KindOf, health)
    PROVE  \A entry \in report'.incidents : FromFiles(entry)
<1>1. DOMAIN journal = Events /\ \A e \in Files : e \in Events /\ published[e] # 0
  BY DEF IInv, TypeOK, Files
<1>2. \A entry \in FromJournal(journal, Files, KindOf) : FromFiles(entry)
  BY <1>1 DEF FromJournal, SettledEvents, IssueEvents, Entry, FromFiles
<1>3. \A entry \in Leftovers(journal, Files, KindOf) : FromFiles(entry)
  BY <1>1 DEF Leftovers, Entry, FromFiles
<1>4. \A entry \in Orphans(journal, KindOf) : FromFiles(entry)
  BY <1>1 DEF Orphans, OrphanedEvents, IssueEvents, Entry, FromFiles
<1> QED
  BY <1>2, <1>3, <1>4 DEF Report, Incidents

\* Nothing the pipeline does after the report changes what it was built from.
LEMMA AfterTheReport ==
    ASSUME IInv, PhaseInv, Next, spc = "closed"
    PROVE  spc' = "closed" /\ journal' = journal
<1>1. spc' = "closed"
  BY DispatchMovesStep, StopMovesStep DEF IInv, DispatchMoves, StopMoves
<1>2. \A e \in Events : journal'[e] = journal[e]
  BY JournalMovesStep DEF PhaseInv, JournalMoves
<1>3. TypeOK /\ TypeOK'
  BY TypeStep DEF IInv
<1> QED
  BY <1>1, <1>2, <1>3 DEF TypeOK

LEMMA FilesStay ==
    ASSUME IInv, Next, NEW e \in Events, published[e] # 0 PROVE published'[e] # 0
<1>1. PublishedMoves(e) /\ published[e] \in Nat
  BY PublishedMovesStep, PipelineAssumption DEF IInv, TypeOK, PipelineAssumption
<1> QED
  BY <1>1, PipelineAssumption DEF PublishedMoves, PipelineAssumption

LEMMA ReportStep ==
    ASSUME IInv, PhaseInv, ReportInv, [CrashNext]_allVars PROVE ReportInv'
<1>1. CASE Run
  <2>1. ~ killed /\ ~ killed' /\ report' = report /\ Next
    BY <1>1 DEF Run
  <2>2. report' # NoReport => spc' = "closed"
    BY <2>1, AfterTheReport DEF ReportInv
  <2>3. \A entry \in report.incidents : FromFiles(entry)'
    BY <2>1, FilesStay DEF ReportInv, FromFiles
  <2> QED
    BY <2>1, <2>2, <2>3 DEF ReportInv, RecoveredNeverStable
<1>2. CASE BuildReport
  <2>1. UNCHANGED vars /\ ~ killed' /\ spc = "closed"
    BY <1>2 DEF BuildReport
  <2>2. \A entry \in report'.incidents : FromFiles(entry)
    BY <1>2, ReportOfFiles DEF BuildReport
  <2> QED
    BY <2>1, <2>2 DEF ReportInv, RecoveredNeverStable, FromFiles, vars, workerVars
<1>3. CASE Kill
  BY <1>3 DEF Kill, ReportInv, RecoveredNeverStable, FromFiles, vars, workerVars, NoReport
<1>4. CASE RecoverReport
  <2>1. UNCHANGED vars /\ killed' /\ report' = Report(journal, Files, KindOf, "inconclusive")
    BY <1>4 DEF RecoverReport
  <2>2. \A entry \in report'.incidents : FromFiles(entry)
    BY <2>1, ReportOfFiles
  <2>3. report'.verdict # "stable"
    BY <2>1 DEF Report, Verdict, CollectionHealth
  <2> QED
    BY <2>1, <2>2, <2>3 DEF ReportInv, RecoveredNeverStable, FromFiles, vars, workerVars
<1>5. CASE UNCHANGED allVars
  BY <1>5 DEF allVars, vars, workerVars, ReportInv, RecoveredNeverStable, FromFiles
<1> QED
  BY <1>1, <1>2, <1>3, <1>4, <1>5 DEF CrashNext

\* With a report, its word on the issues logcat saw stays true.
LEMMA SurfacesStep ==
    ASSUME RecoveryInv, ReportInv, LogcatIssuesSurface, [CrashNext]_allVars
    PROVE  LogcatIssuesSurface'
<1>1. CASE Run
  <2>1. ~ killed /\ report' = report /\ Next
    BY <1>1 DEF Run
  <2>2. report # NoReport => journal' = journal
    BY <2>1, AfterTheReport DEF ReportInv, RecoveryInv, StopInv
  <2>3. \A e \in Events : journal[e] # <<>> => by'[e] = by[e]
    BY <2>1, DispatchMovesStep
    DEF RecoveryInv, StopInv, IInv, TypeOK, JournalInv, DispatchMoves, Taken, GoesOn, Undetected
  <2> QED
    BY <2>1, <2>2, <2>3 DEF LogcatIssuesSurface, Reported
<1>2. CASE BuildReport
  BY <1>2, IssuesSurface DEF BuildReport
<1>3. CASE Kill
  BY <1>3 DEF Kill, LogcatIssuesSurface
<1>4. CASE RecoverReport
  BY <1>4, IssuesSurface DEF RecoverReport
<1>5. CASE UNCHANGED allVars
  BY <1>5 DEF allVars, vars, dispatchVars, logVars, LogcatIssuesSurface, Reported
<1> QED
  BY <1>1, <1>2, <1>3, <1>4, <1>5 DEF CrashNext

LEMMA PersistedHasFiles ==
    ASSUME IInv, FilesInv, ReportInv PROVE PersistedIsTruthful
<1> SUFFICES ASSUME NEW entry \in report.incidents, entry.evidence = "file",
                    LastTerminal(journal[entry.event]) = "persisted"
             PROVE  published[entry.event] = FilesPerIncident
  BY DEF PersistedIsTruthful
<1> DEFINE e == entry.event
<1>1. e \in Events /\ published[e] # 0
  BY DEF ReportInv, FromFiles
<1>2. journal[e] \in Seq(Terminals \cup {"detected"}) /\ OneStory(journal[e])
  BY <1>1 DEF IInv, TypeOK, JournalInv
<1>3. CASE task[e] = "none"
  BY <1>1, <1>3 DEF FilesInv
<1>4. CASE task[e] # "none"
  <2>1. journal[e] # <<>>
    BY DEF LastTerminal, Terminal
  <2>2. 2 \in DOMAIN journal[e] /\ journal[e][2] = "persisted"
    BY <1>2, <2>1, StoryEnds
  <2>3. task[e] = "persisted"
    BY <1>1, <1>2, <1>4, <2>2 DEF IInv, JournalInv
  <2> QED
    BY <1>1, <2>3 DEF IInv, StageInv
<1> QED
  BY <1>3, <1>4

LEMMA CrashSpecIsSpec == CrashSpec => Spec
<1>1. CrashInit => Init
  BY DEF CrashInit
<1>2. [CrashNext]_allVars => [Next]_vars
  BY DEF CrashNext, Run, BuildReport, Kill, RecoverReport, allVars
<1> QED
  BY <1>1, <1>2, PTL DEF CrashSpec, Spec

\* A kill at any step, whether or not the logcat thread was joined: the recovered
\* report is never stable, and shows as persisted, with its file, only what has all
\* its files.
THEOREM RecoveryIsHonest == CrashSpec => [](RecoveredNeverStable /\ PersistedIsTruthful)
<1> DEFINE Inv == IInv /\ CallersInv /\ PhaseInv /\ FilesInv /\ ReportInv
<1>1. CrashInit => Inv
  <2> SUFFICES ASSUME CrashInit PROVE Inv
    OBVIOUS
  <2>1. IInv /\ CallersInv /\ PhaseInv
    BY InitStopInv DEF CrashInit, StopInv
  <2> QED
    BY <2>1 DEF CrashInit, Init, FilesInv, ReportInv, RecoveredNeverStable, NoReport
<1>2. Inv /\ [CrashNext]_allVars => Inv'
  <2> SUFFICES ASSUME Inv, [CrashNext]_allVars PROVE Inv'
    OBVIOUS
  <2>1. CASE Next
    BY <2>1, TypeStep, StageStep, JournalStep, CallersStep, PhaseStep, FilesStep, ReportStep DEF IInv
  <2>2. CASE UNCHANGED vars
    <3>1. IInv' /\ ReportInv'
      BY <2>2, StutterIInv, ReportStep
    <3>2. CallersInv' /\ PhaseInv' /\ FilesInv'
      BY <2>2 DEF CallersInv, CallerInv, PhaseInv, IdleCaller, FilesInv, vars, dispatchVars,
                  workerVars, logVars
    <3> QED
      BY <3>1, <3>2
  <2> QED
    BY <2>1, <2>2 DEF CrashNext, Run, BuildReport, Kill, RecoverReport, allVars
<1>3. Inv => RecoveredNeverStable /\ PersistedIsTruthful
  BY PersistedHasFiles DEF ReportInv
<1> QED
  BY <1>1, <1>2, <1>3, PTL DEF CrashSpec


\* And when stop() waits for the logcat thread, the report shows every issue logcat
\* saw, whatever became of its dump: only the cap hides one, and then another
\* incident of its type is shown.
THEOREM KillsLoseNothing ==
    ASSUME ~JoinMayTimeOut PROVE CrashSpec => []KillLosesNothing
<1> DEFINE Inv == OrderInv /\ CappedInv /\ RecordsInv /\ ReportInv /\ LogcatIssuesSurface
<1>1. CrashInit => Inv
  <2> SUFFICES ASSUME CrashInit PROVE Inv
    OBVIOUS
  <2> QED
    BY DEF CrashInit, Init, OrderInv, CappedInv, RecordsInv, Undetected, ReportInv, NoReport,
           RecoveredNeverStable, LogcatIssuesSurface
<1>2. StopInv /\ LimitsInv /\ Inv /\ [CrashNext]_allVars => Inv'
  <2> SUFFICES ASSUME StopInv, LimitsInv, Inv, [CrashNext]_allVars PROVE Inv'
    OBVIOUS
  <2>1. LogcatIssuesSurface' /\ ReportInv'
    BY SurfacesStep, ReportStep DEF RecoveryInv, StopInv
  <2>2. CASE Next
    BY <2>1, <2>2, OrderStep, CappedStep, RecordsStep
  <2>3. CASE UNCHANGED vars
    BY <2>1, <2>3 DEF OrderInv, CappedInv, Stands, RecordsInv, vars, dispatchVars, logVars
  <2> QED
    BY <2>2, <2>3 DEF CrashNext, Run, BuildReport, Kill, RecoverReport, allVars
<1>3. CrashSpec => []StopInv /\ []LimitsInv
  BY CrashSpecIsSpec, StopInvariant, LimitsInvariant, PTL
<1>4. CrashSpec => []LogcatIssuesSurface
  BY <1>1, <1>2, <1>3, PTL DEF CrashSpec
<1> QED
  BY <1>4, RecoveryIsHonest, PTL DEF KillLosesNothing

=============================================================================
