------------------------------ MODULE MCPipeline ------------------------------
(***************************************************************************)
(* The incident pipeline and the adb client that its dumps work with.  Two *)
(* subjects, checked side by side: a behaviour picks one, and only its     *)
(* variables change.                                                       *)
(***************************************************************************)
EXTENDS MCIncidentPipeline, AdbCalls

VARIABLE subject
mcVars == <<vars, adbVars, subject>>
About(s) == subject = s /\ UNCHANGED subject

MCInit == Init /\ AdbInit /\ subject \in {"pipeline", "adb"}
PipelineStep == About("pipeline") /\ Next /\ UNCHANGED adbVars
AdbStep == About("adb") /\ AdbNext /\ UNCHANGED vars
MCNext == PipelineStep \/ AdbStep

\* ThreadFairness of StopSpec, and the fairness of AdbSpec: each of its own
\* subject's behaviours.
MCSpec ==
    /\ MCInit /\ [][MCNext]_mcVars
    /\ WF_mcVars(About("pipeline") /\ Stop /\ UNCHANGED adbVars)
    /\ \A e \in Events :
           WF_mcVars(About("pipeline") /\ DispatchStep(e) /\ UNCHANGED adbVars)
    /\ \A c \in AdbThreads :
           WF_mcVars(About("adb") /\ Proceeds(c) /\ UNCHANGED vars)
=============================================================================
