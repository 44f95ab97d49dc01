--------------------------- MODULE MCRunDirectory ---------------------------
(***************************************************************************)
(* What a run leaves in its directory.  Four subjects, checked side by     *)
(* side: a behaviour picks one, and only its variables change.             *)
(***************************************************************************)
EXTENDS CrashRecovery, RunSession, LogFiles, JournalFile

CONSTANTS e1, e2, java_crash
MCTypeOf == [e \in Events |-> java_crash]

VARIABLE subject
Subjects == {"recovery", "session", "log", "journal"}
mcVars == <<allVars, sessionVars, logFileVars, journalFileVars, subject>>

MCInit ==
    /\ CrashInit /\ SessionInit /\ LogFilesInit /\ JournalFileInit
    /\ subject \in Subjects
    /\ subject # "session" => test.lock = "nobody" /\ work.kind = "launch"

About(s) == subject = s /\ UNCHANGED subject
SessionRest == UNCHANGED <<allVars, logFileVars, journalFileVars>>
RecoveryStep == About("recovery") /\ CrashNext
                /\ UNCHANGED <<sessionVars, logFileVars, journalFileVars>>

\* A monkey differs from a launch in its name only: it runs without a Ctrl-C.
SessionStep == About("session") /\ SessionNext /\ SessionRest
               /\ (work.kind = "monkey" => ctrlC' = 0)
LogStep == About("log") /\ LogFilesNext
           /\ UNCHANGED <<allVars, sessionVars, journalFileVars>>
JournalStep == About("journal") /\ JournalFileNext
               /\ UNCHANGED <<allVars, sessionVars, logFileVars>>
MCNext == RecoveryStep \/ SessionStep \/ LogStep \/ JournalStep

\* SessionFairness, of the behaviours about a session.
MCSpec ==
    /\ MCInit /\ [][MCNext]_mcVars
    /\ WF_mcVars(About("session") /\ Main /\ SessionRest)
    /\ WF_mcVars(About("session") /\ (BeatWaits \/ BeatWrites) /\ SessionRest)
    /\ WF_mcVars(About("session") /\ WorkloadStopped /\ SessionRest)

\* No step takes another run's lock or makes an ended run look alive, and every run
\* comes to an end (RunEnds, of the behaviours about a session).
SessionEnds == SessionKeeps /\ (subject = "session" => RunEnds)
=============================================================================
