--------------------------- MODULE CrashRecovery ---------------------------
(***************************************************************************)
(* The incident pipeline with the report it ends in: built by              *)
(* api._build_and_write_reports once the journal is closed, or, when the   *)
(* process is killed first, by `sat recover' (sat/recovery.py) from what   *)
(* is on disk: the flushed journal and the published files.  The truncated *)
(* last line of a killed append is skipped by read_journal, so a kill in   *)
(* the middle of an append is a kill before it.                            *)
(***************************************************************************)
EXTENDS IncidentPipeline, ReportFold

CONSTANT Unsigned   \* events whose crash ExitInfo alone cannot sign

NoReport == [incidents |-> {}, verdict |-> "none"]

VARIABLES
    killed,   \* the process died
    report    \* report.json
allVars == <<vars, killed, report>>

Files == {e \in Events : published[e] > 0}
\* What the report's filters see of an event.
KindOf == [e \in Events |->
    IF by[e] = "exit_info" /\ e \in Unsigned THEN "unsigned" ELSE "issue"]

CrashInit == Init /\ killed = FALSE /\ report = NoReport

\* Workers that stop() gave up go on after the report was built.
Run == ~killed /\ Next /\ UNCHANGED <<killed, report>>

BuildReport ==
    /\ ~killed /\ spc = "closed" /\ report = NoReport
    /\ \E health \in {"healthy", "degraded"} :
          report' = Report(journal, Files, KindOf, health)
    /\ UNCHANGED <<vars, killed>>

Kill ==
    /\ ~killed /\ report = NoReport
    /\ killed' = TRUE
    /\ UNCHANGED <<vars, report>>

\* recover_report: refuses an empty journal, and takes the health of the
\* collection as inconclusive, because the observation window is incomplete.
RecoverReport ==
    /\ killed /\ report = NoReport
    /\ \E e \in Events : journal[e] # <<>>
    /\ report' = Report(journal, Files, KindOf, "inconclusive")
    /\ UNCHANGED <<vars, killed>>

CrashNext == Run \/ BuildReport \/ Kill \/ RecoverReport
CrashSpec == CrashInit /\ [][CrashNext]_allVars

-----------------------------------------------------------------------------
Reported(e) == {entry \in report.incidents : entry.event = e}

\* A recovered report never says stable, whatever was on disk.
RecoveredNeverStable == killed /\ report # NoReport => report.verdict # "stable"

\* An issue logcat reported is in the report even if its dump failed, timed out,
\* found the queue full or died with the process; only the cap hides one, and
\* then another incident of its type is there to fail the run.
LogcatIssuesSurface ==
    report # NoReport =>
        \A e \in Events : by[e] # "exit_info" /\ journal[e] # <<>> =>
            \/ Reported(e) # {}
            \/ /\ LastTerminal(journal[e]) = "dropped_by_cap"
               /\ MaxIncidentsPerType > 0 =>
                    \E f \in Events : TypeOf[f] = TypeOf[e] /\ Reported(f) # {}

\* An incident shown as persisted, with its file and on the word of the journal,
\* stands for complete evidence, even after a kill.
PersistedIsTruthful ==
    \A entry \in report.incidents :
        /\ entry.status = "persisted" /\ entry.evidence = "file"
        /\ LastTerminal(journal[entry.event]) = "persisted"
        => published[entry.event] = FilesPerIncident

\* pool.py: a failure only ExitInfo saw never ends in a false "stable".
ExitInfoNeverStable ==
    report # NoReport /\ (\E e \in Events : by[e] = "exit_info" /\ journal[e] # <<>>)
        => report.verdict # "stable"

\* A kill at any step leaves a directory whose report is not stable, shows every
\* issue logcat saw, and calls persisted only what has its files.
KillLosesNothing == RecoveredNeverStable /\ LogcatIssuesSurface /\ PersistedIsTruthful
=============================================================================
