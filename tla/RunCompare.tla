----------------------------- MODULE RunCompare -----------------------------
(***************************************************************************)
(* What is made of several reports: the clustering inside each             *)
(* (IssueGroups), the comparison of a run with its baseline                *)
(* (sat/compare.py), the aggregate of the devices of a matrix              *)
(* (sat/aggregate.py), the trend over the indexed runs (sat/indexer.py).   *)
(*                                                                         *)
(* reports[r] is the sequence of incidents of report r, oldest first;      *)
(* written[r], whether the worker left a report.json.  `index' is the      *)
(* .sat-index.json of the root: the runs it lists.                         *)
(***************************************************************************)
EXTENDS IssueGroups

CONSTANTS Occurrences,  \* the incidents that may happen
          MaxIncidents  \* bound on the incidents of both reports

\* The score of an alignment does not depend on which stack comes first; the name of
\* a stack stands for its frames.
ASSUME CompareAssumption ==
    /\ MaxIncidents \in Nat
    /\ \A i, j \in Occurrences :
          /\ i.stack.depth \in Nat
          /\ Alike[{i.stack.name, j.stack.name}] \in 0 .. 100
          /\ i.stack.name = j.stack.name => i.stack = j.stack

VARIABLES reports, written, index
compareVars == <<reports, written, index>>

Baseline == 1
Current == 2
Reports == {Baseline, Current}
NoIndex == {}

CompareInit ==
    /\ reports = [r \in Reports |-> <<>>]
    /\ written = [r \in Reports |-> FALSE]
    /\ index = NoIndex

GroupsOf(r) == IF written[r] THEN Groups(reports[r]) ELSE <<>>

\* A group per fingerprint: of two with one fingerprint the later stays.
GroupMap(groups) ==
    LET at(p) == Max({k \in DOMAIN groups : groups[k].fingerprint = p})
    IN  [p \in {groups[k].fingerprint : k \in DOMAIN groups} |-> groups[at(p)]]

\* Mutant of CompareReports: what both runs have is never worse.
CompareNewOnly(base, cur) ==
    [new |-> DOMAIN cur \ DOMAIN base, fixed |-> DOMAIN base \ DOMAIN cur,
     worsened |-> {}, improved |-> {}, unchanged |-> DOMAIN cur \cap DOMAIN base]

CompareReports(base, cur) ==
    LET both == DOMAIN base \cap DOMAIN cur
    IN  [new |-> DOMAIN cur \ DOMAIN base,
         fixed |-> DOMAIN base \ DOMAIN cur,
         worsened |-> {p \in both : cur[p].count > base[p].count},
         improved |-> {p \in both : cur[p].count < base[p].count},
         unchanged |-> {p \in both : cur[p].count = base[p].count}]

Comparison == CompareReports(GroupMap(GroupsOf(Baseline)), GroupMap(GroupsOf(Current)))
ComparePassed == Comparison.new = {} /\ Comparison.worsened = {}

\* The occurrences of a fingerprint, added over the groups of all devices.
AggregateCount(p) ==
    LET added(groups) == FoldLeft(+, 0, [k \in DOMAIN groups |->
                             IF groups[k].fingerprint = p THEN groups[k].count ELSE 0])
    IN  added(GroupsOf(Baseline)) + added(GroupsOf(Current))

Fingerprints(r) == {GroupsOf(r)[k].fingerprint : k \in DOMAIN GroupsOf(r)}

\* trend: the groups whose fingerprint is put on the list of the run's new ones, an
\* entry each. What was seen grows only after the last group of a run.
NewInRun(runs, r) ==
    LET seen == UNION {Fingerprints(s) : s \in {t \in runs : t < r}}
    IN  {k \in DOMAIN GroupsOf(r) : GroupsOf(r)[k].fingerprint \notin seen}

-----------------------------------------------------------------------------
Detect(r, i) ==
    /\ ~written[r]
    /\ Len(reports[Baseline]) + Len(reports[Current]) < MaxIncidents
    /\ reports' = [reports EXCEPT ![r] = Append(@, i)]
    /\ UNCHANGED <<written, index>>

WriteReport(r) ==
    /\ written' = [written EXCEPT ![r] = TRUE]
    /\ UNCHANGED <<reports, index>>

\* `sat index': scan_reports, then write_index.
Index ==
    /\ index' = {r \in Reports : written[r]}
    /\ UNCHANGED <<reports, written>>

\* `sat trend' scans only where there is no index yet.
Trend ==
    /\ index = NoIndex
    /\ Index

CompareNext ==
    \/ \E r \in Reports : WriteReport(r) \/ \E i \in Occurrences : Detect(r, i)
    \/ Index
    \/ Trend
CompareSpec == CompareInit /\ [][CompareNext]_compareVars

-----------------------------------------------------------------------------
Issues(r) == {k \in DOMAIN reports[r] : reports[r][k].type \in IssueTypes}
Times(r, P(_)) == Cardinality({k \in Issues(r) : P(reports[r][k])})
Weak(i) == EvidenceQuality(i) < EnoughEvidence
Members(clusters) == UNION {{c} \X DOMAIN clusters[c] : c \in DOMAIN clusters}

\* Every issue is in exactly one group: the groups of a report (fingerprint.py:
\* 364-433) hold each incident as often as the report does, no other incident.
GroupsPartition ==
    \A r \in Reports : LET clusters == Clusters(reports[r]) IN
        /\ Cardinality(Members(clusters)) = Cardinality(Issues(r))
        /\ \A i \in Occurrences :
              Cardinality({m \in Members(clusters) : clusters[m[1]][m[2]] = i})
                = Times(r, LAMBDA j : j = i)

\* A group never joins different causes through a third incident (complete link):
\* all its pairs are of one type, without contradicting exception, signal, ANR
\* type, subtype or component, and alike (fingerprint.py:384-399).
CompleteLink ==
    \A r \in Reports : \A c \in ToSet(Clusters(reports[r])) : \A i, j \in ToSet(c) :
        HardGate(i, j) /\ PairScore(i, j) >= Threshold

\* An incident with little evidence is only ever put with its own fingerprint.
WeakStayApart ==
    \A r \in Reports : \A c \in ToSet(Clusters(reports[r])) : \A i, j \in ToSet(c) :
        Weak(i) => CanonicalParts(i) = CanonicalParts(j)

\* A repeated failure never opens a group of its own: no two groups begin with
\* equal incidents.
RepeatsAreGrouped ==
    \A r \in Reports : LET clusters == Clusters(reports[r]) IN
        \A c, d \in DOMAIN clusters : c # d => clusters[c][1] # clusters[d][1]

\* The comparison's gate (compare.py:157, cli.py:872) lets no failure through that
\* got more frequent: when it passes, an incident with little evidence, which is
\* never merged with another, is in the current run at most as often as before.
PassMeansNoMore ==
    (written = [r \in Reports |-> TRUE] /\ ComparePassed) =>
        \A k \in Issues(Current) : LET i == reports[Current][k] IN
            Weak(i) =>
                LET same(j) == CanonicalParts(j) = CanonicalParts(i)
                IN  Times(Current, same) <= Times(Baseline, same)

\* The aggregate (aggregate.py:53-70) loses no occurrence of a written report,
\* also when two groups share a fingerprint.
AggregateConserves ==
    FoldSet(LAMBDA p, n : n + AggregateCount(p), 0, UNION {Fingerprints(r) : r \in Reports})
      = Cardinality(UNION {{r} \X Issues(r) : r \in {q \in Reports : written[q]}})

\* A fingerprint of the index is reported new in one run, with all the groups that
\* have it there, and in no other run (indexer.py:89-128). Two groups of that run may
\* share the fingerprint: then it is on the list, and in new_fingerprint_count, twice.
NewInOneRun ==
    \A p \in UNION {Fingerprints(r) : r \in index} :
        LET having(r) == {k \in DOMAIN GroupsOf(r) : GroupsOf(r)[k].fingerprint = p}
            listed(r) == NewInRun(index, r) \cap having(r)
        IN  \E r \in index :
                /\ having(r) # {} /\ listed(r) = having(r)
                /\ \A s \in index \ {r} : listed(s) = {}

\* The groups of a report are a partition: alike is together, and what is unlike, or
\* has too little evidence, is apart.
GroupsSound == GroupsPartition /\ CompleteLink /\ WeakStayApart /\ RepeatsAreGrouped

\* A comparison that passes hides no failure with little evidence that got more
\* frequent, the aggregate conserves the occurrences, and what the trend calls new is
\* new in one run.
ComparisonSound == PassMeansNoMore /\ AggregateConserves /\ NewInOneRun
=============================================================================
