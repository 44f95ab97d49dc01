-------------------------- MODULE IncidentLedger --------------------------
(***************************************************************************)
(* What the incident pipeline of sat/pool.py promises, with its queues,    *)
(* locks and threads left out: every incident that is opened is settled    *)
(* once and for ever, none is open when the run ends, and nothing changes  *)
(* after the end.                                                          *)
(***************************************************************************)
CONSTANT Events

Outcomes == {"persisted", "failed", "timed_out", "dropped"}

VARIABLES
    outcome,   \* of each event: "none" (not seen), "open", or how it ended
    over       \* the run has ended: its report may be built

vars == <<outcome, over>>

TypeOK ==
    /\ outcome \in [Events -> Outcomes \cup {"none", "open"}]
    /\ over \in BOOLEAN

Init ==
    /\ outcome = [e \in Events |-> "none"]
    /\ over = FALSE

Become(e, from, to) ==
    /\ ~over
    /\ outcome[e] = from
    /\ outcome' = [outcome EXCEPT ![e] = to]
    /\ UNCHANGED over

Open(e) == Become(e, "none", "open")
Drop(e) == Become(e, "none", "dropped")
Settle(e) == \E how \in Outcomes : Become(e, "open", how)

End ==
    /\ ~over
    /\ \A e \in Events : outcome[e] # "open"
    /\ over' = TRUE
    /\ UNCHANGED outcome

Next == End \/ \E e \in Events : Open(e) \/ Drop(e) \/ Settle(e)

Spec == Init /\ [][Next]_vars

\* No incident stays open for ever.
SettlesAll == \A e \in Events : outcome[e] = "open" ~> outcome[e] # "open"
=============================================================================
