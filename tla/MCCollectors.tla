---------------------------- MODULE MCCollectors ----------------------------
(***************************************************************************)
(* The incident pipeline and what feeds it: the event parser, the fusion   *)
(* of its reports, the context buffer, the process table and the resource  *)
(* monitor.  Each is a subject of its own: a behaviour picks one, and only *)
(* its variables change.                                                   *)
(***************************************************************************)
EXTENDS MCIncidentPipeline, LogcatParser, Fusion, ContextBuffer, ProcessWatch, ResourceRisk

\* Two failures: one of process 1, and a Java crash of the same or another one
\* at the other side of a bucket boundary.
MCFailure(pid, kind, marker, at) == [pid |-> pid, kind |-> kind, marker |-> marker, at |-> at]
MCFailures ==
    { <<a, b>> :
        a \in {MCFailure(1, "java_crash", "A", 9), MCFailure(1, "java_crash", "", 9),
               MCFailure(1, "native_crash", "", 9), MCFailure(1, "anr", "", 9),
               MCFailure(1, "low_memory", "", 9)},
        b \in {MCFailure(1, "java_crash", "B", 8), MCFailure(2, "java_crash", "B", 12)} }

\* Writers to the log: crashes of the package (processes below 10) and of
\* another, a writer of other lines, and one whose lines cannot be parsed.
Lines(kinds, p) == [i \in DOMAIN kinds |-> [kind |-> kinds[i], by |-> p, own |-> p < 10]]
JavaLines == <<"FATAL EXCEPTION", "Process:", "Caused by:">>
NativeLines == <<"Fatal signal", "pid:", "#00 pc">>
MCScripts ==
    { Lines(JavaLines, 1), Lines(JavaLines, 11), Lines(NativeLines, 2), Lines(NativeLines, 12),
      Lines(<<"ANR in", "PID:">>, 3), Lines(<<"ANR in", "PID:", "am_proc_died">>, 13),
      Lines(<<"other">>, 20) \o Lines(<<"am_proc_died">>, 1),
      Lines(<<"garbage", "garbage", "garbage", "garbage">>, 21) }

VARIABLE subject
pipelineVars == vars
mcVars == <<pipelineVars, parserVars, fusionVars, contextVars, watchVars, riskVars,
            subject>>

MCInit ==
    /\ Init /\ ParserInit /\ FusionInit /\ ContextInit /\ WatchInit /\ RiskInit
    /\ subject \in {"pipeline", "parser", "fusion", "context", "processes", "resources"}

\* A step of one subject leaves the variables of the others alone.
Only(s) ==
    /\ subject = s /\ UNCHANGED subject
    /\ s = "pipeline" \/ UNCHANGED pipelineVars
    /\ s = "parser" \/ UNCHANGED parserVars
    /\ s = "fusion" \/ UNCHANGED fusionVars
    /\ s = "context" \/ UNCHANGED contextVars
    /\ s = "processes" \/ UNCHANGED watchVars
    /\ s = "resources" \/ UNCHANGED riskVars

\* The app grows before or after the calls of a sample, not between them (it may
\* die there), and not before the samples of the turn are observed: a sample can
\* have any values together as it is.
TurnFirst ==
    IF inbox.turn # <<>> THEN ObserveSample
    ELSE IF scan.call = "none" THEN RiskNext
    ELSE Dies \/ ReadStart \/ ProbeDescriptors \/ CountDescriptors \/ CountThreads

MCNext ==
    \/ Only("pipeline") /\ Next
    \/ Only("parser") /\ ParserNext
    \/ Only("fusion") /\ FusionNext
    \/ Only("context") /\ ContextNext
    \/ Only("processes") /\ WatchNext
    \/ Only("resources") /\ TurnFirst

MCSpec == MCInit /\ [][MCNext]_mcVars
=============================================================================
