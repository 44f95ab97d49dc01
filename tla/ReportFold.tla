---------------------------- MODULE ReportFold ----------------------------
(***************************************************************************)
(* How sat/reporter/result.py makes a report of what a run left on disk:   *)
(* journal[e] is the sequence of the records of event e, `files' the       *)
(* events whose incident JSON is in the incident directory.  Records of    *)
(* different events do not interact in the fold, so their interleaving is  *)
(* left out; the order of the incidents is presentation.                   *)
(*                                                                         *)
(* kind[e] is all the report looks at in an incident: a reportable "issue",*)
(* a "process_death", or "unsigned" (ExitInfo saw a crash, with no         *)
(* exception class, signal or frame).                                      *)
(***************************************************************************)
EXTENDS Naturals, Sequences, FiniteSets

Kinds == {"issue", "process_death", "unsigned"}
TerminalStatuses == {"persisted", "failed", "timed_out", "dropped_by_cap",
                     "dropped_by_backpressure"}

Terminal(records) == {i \in DOMAIN records : records[i] # "detected"}

\* Mutant of LastTerminal: the first terminal record wins.
FirstTerminal(records) ==
    IF Terminal(records) = {} THEN "none"
    ELSE records[CHOOSE i \in Terminal(records) : \A j \in Terminal(records) : i <= j]

\* The terminal status an event folds to: the last record wins.
LastTerminal(records) ==
    IF Terminal(records) = {} THEN "none"
    ELSE records[CHOOSE i \in Terminal(records) : \A j \in Terminal(records) : j <= i]

\* _issue_journal_records: only a detected record carries the event type.
IssueEvents(journal, kind) ==
    {e \in DOMAIN journal : /\ kind[e] # "process_death"
                            /\ \E i \in DOMAIN journal[e] : journal[e][i] = "detected"}

StatusCount(journal, kind, status) ==
    Cardinality({e \in IssueEvents(journal, kind) : LastTerminal(journal[e]) = status})

\* _journal_counts.
JournalCounts(journal, kind) ==
    [detected |-> Cardinality(IssueEvents(journal, kind)),
     terminal |-> [status \in TerminalStatuses |-> StatusCount(journal, kind, status)]]

Entry(e, status, evidence) == [event |-> e, status |-> status, evidence |-> evidence]

\* Events the loop over terminal_by_event turns into an incident.
SettledEvents(journal, kind) ==
    {e \in IssueEvents(journal, kind) :
        LastTerminal(journal[e]) \notin {"none", "dropped_by_cap"}}

OrphanedEvents(journal, kind) ==
    {e \in IssueEvents(journal, kind) : LastTerminal(journal[e]) = "none"}

FromJournal(journal, files, kind) ==
    {Entry(e, LastTerminal(journal[e]), IF e \in files THEN "file" ELSE "placeholder") :
        e \in SettledEvents(journal, kind)}

\* Incident files no terminal record took up.
Leftovers(journal, files, kind) ==
    {Entry(e, "persisted", "file") : e \in files \ SettledEvents(journal, kind)}

\* Mutant of Orphans: what has no terminal record is skipped.
NoOrphans(journal, kind) == {}

\* Detected, but the journal ends before a terminal record.
Orphans(journal, kind) ==
    {Entry(e, "failed", "placeholder") : e \in OrphanedEvents(journal, kind)}

\* _normalize_reportable_issue.
Reportable(entry, kind) == kind[entry.event] = "issue"

\* _build_incidents, then the normalisation of build().
Incidents(journal, files, kind) ==
    {entry \in FromJournal(journal, files, kind) \cup Leftovers(journal, files, kind)
                 \cup Orphans(journal, kind) : Reportable(entry, kind)}

\* _build_incidents warns of lost evidence and of orphans, which makes a healthy
\* collection "degraded".
Warned(journal, files, kind) ==
    \/ OrphanedEvents(journal, kind) # {}
    \/ \E e \in SettledEvents(journal, kind) \ files :
          LastTerminal(journal[e]) \notin {"persisted", "dropped_by_backpressure"}
CollectionHealth(journal, files, kind, health) ==
    IF health = "healthy" /\ Warned(journal, files, kind) THEN "degraded" ELSE health

\* compute_verdict; no incident of these kinds is an expected exit.
Verdict(incidents, health) ==
    IF incidents # {} THEN "unstable"
    ELSE IF health # "healthy" THEN "inconclusive" ELSE "stable"

\* build().
Report(journal, files, kind, health) ==
    LET incidents == Incidents(journal, files, kind)
    IN  [incidents |-> incidents,
         pipeline |-> JournalCounts(journal, kind),
         verdict |-> Verdict(incidents, CollectionHealth(journal, files, kind, health))]
=============================================================================
