------------------------ MODULE MCIncidentPipeline ------------------------
(* Instances of IncidentPipeline for TLC. *)
EXTENDS IncidentPipeline, TLC

CONSTANTS e1, e2, e3, java_crash, anr

\* Two events of one type, so that a cap of one is reached, and one of another.
MCTypeOf == [e \in Events |-> IF e = e3 THEN anr ELSE java_crash]
MCSymmetry == Permutations({e1, e2} \cap Events)
=============================================================================
