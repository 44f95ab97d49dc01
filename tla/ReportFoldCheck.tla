-------------------------- MODULE ReportFoldCheck --------------------------
(***************************************************************************)
(* ReportFold over every journal of at most MaxRecords records an event,   *)
(* with any incident files: runs that were killed, journals several runs   *)
(* or an older version appended to, files whose records are lost.          *)
(***************************************************************************)
EXTENDS ReportFold

CONSTANTS Events, Kind, MaxRecords

ASSUME FoldAssumption ==
    IsFiniteSet(Events) /\ Kind \in [Events -> Kinds] /\ MaxRecords \in Nat

VARIABLES journal, files
vars == <<journal, files>>

Init ==
    /\ journal = [e \in Events |-> <<>>]
    /\ files = {}

AppendRecord(e, status) ==
    /\ Len(journal[e]) < MaxRecords
    /\ journal' = [journal EXCEPT ![e] = Append(@, status)]
    /\ UNCHANGED files

WriteFile(e) ==
    /\ files' = files \cup {e}
    /\ UNCHANGED journal

Next ==
    \E e \in Events :
        \/ WriteFile(e)
        \/ \E status \in TerminalStatuses \cup {"detected"} : AppendRecord(e, status)

Spec == Init /\ [][Next]_vars

-----------------------------------------------------------------------------
TheReport == Report(journal, files, Kind, "healthy")
EntriesOf(e) == {entry \in TheReport.incidents : entry.event = e}
TerminalSum ==
    LET count == TheReport.pipeline.terminal
    IN  count["persisted"] + count["failed"] + count["timed_out"]
          + count["dropped_by_cap"] + count["dropped_by_backpressure"]

\* However often an event is recorded, it counts once as detected and at most
\* once as ended, and the pipeline identity holds unless an event is orphaned.
CountsBalance ==
    /\ TerminalSum <= TheReport.pipeline.detected
    /\ (TerminalSum = TheReport.pipeline.detected) <=> OrphanedEvents(journal, Kind) = {}

\* No detected issue is lost: unless it fell to the cap, it has an incident.
FactsSurface ==
    \A e \in IssueEvents(journal, Kind) :
        Kind[e] = "issue" /\ LastTerminal(journal[e]) # "dropped_by_cap" => EntriesOf(e) # {}

\* An event that came to an end is one incident, however many terminal records
\* the journal has, with the status of the record written last.
SettledOnce ==
    \A e \in SettledEvents(journal, Kind) : Kind[e] = "issue" =>
        /\ Cardinality(EntriesOf(e)) = 1
        /\ \A entry \in EntriesOf(e) : entry.status = journal[e][Len(journal[e])]
             \/ journal[e][Len(journal[e])] = "detected"

\* A run whose evidence was lost never looks clean.
NeverFalselyStable ==
    TheReport.verdict = "stable" =>
        \A e \in Events : Kind[e] = "issue" =>
            e \notin files /\ (e \notin IssueEvents(journal, Kind)
                                \/ LastTerminal(journal[e]) = "dropped_by_cap")

\* Whatever the journal and the files are, the counts balance, each event is
\* settled once, every fact surfaces, and no report looks stable wrongly.
ReportFaithful == CountsBalance /\ SettledOnce /\ FactsSurface /\ NeverFalselyStable
=============================================================================
