---------------------------- MODULE IssueGroups ----------------------------
(***************************************************************************)
(* The clustering of a report's incidents into issue groups                *)
(* (sat/analyzers/fingerprint.py): every incident, oldest first, joins the *)
(* best cluster all of whose members are alike, or opens one.              *)
(*                                                                         *)
(* An incident is a record of its features: the type; the `cause' (the     *)
(* exception class, the signal, the ANR type, the original type of an      *)
(* "other"); the `part' (the subtype of a java crash, the component of an  *)
(* ANR); the `note' (the diagnosis of an ANR, else the normalised message);*)
(* the thread; and the stack, a record of a name, the top frame and the    *)
(* number of frames.  "" is a feature the evidence does not have.  Two     *)
(* notes that differ share no word.                                        *)
(***************************************************************************)
EXTENDS Integers, Sequences, SequencesExt, FiniteSetsExt

CONSTANTS Alike  \* what the alignment of two different stacks scores, in percent

IssueTypes == {"java_crash", "native_crash", "anr", "other"}
Threshold == 90
EnoughEvidence == 5

Same(a, b) == IF a = b THEN 100 ELSE 0

CanonicalParts(i) ==
    CASE i.type = "java_crash" -> <<"java", i.cause, i.part, i.stack.name>>
      [] i.type = "native_crash" -> <<"native", i.cause, i.stack.name>>
      [] i.type = "anr" -> <<"anr", i.cause, i.part, i.note, i.stack.name>>
      [] OTHER -> <<"other", i.cause, i.note, i.stack.name>>

Compatible(a, b) == a = "" \/ b = "" \/ a = b

HardGate(l, r) ==
    /\ l.type = r.type
    /\ l.type \in IssueTypes
    /\ Compatible(l.cause, r.cause)
    /\ l.type \in {"java_crash", "anr"} => Compatible(l.part, r.part)

StackSimilarity(l, r) ==
    IF l = r THEN 100
    ELSE IF l.depth = 0 \/ r.depth = 0 THEN 0
    ELSE Alike[{l.name, r.name}]

Weighted(l, r) ==
    LET stack == StackSimilarity(l.stack, r.stack)
        cause == Same(l.cause, r.cause)
        part == Same(l.part, r.part)
        note == Same(l.note, r.note)
    IN  CASE l.type = "java_crash" ->
               70 * stack + 10 * cause + 5 * part + 10 * note + 5 * Same(l.thread, r.thread)
          [] l.type = "native_crash" ->
               75 * stack + 15 * Same(l.stack.top, r.stack.top) + 10 * cause
          [] l.type = "anr" -> 55 * stack + 20 * cause + 15 * part + 10 * note
          [] OTHER -> 65 * stack + 25 * note + 10 * cause

Similarity(l, r) == IF HardGate(l, r) THEN Weighted(l, r) \div 100 ELSE 0

PairScore(l, r) ==
    IF CanonicalParts(l) = CanonicalParts(r) THEN 100 ELSE Similarity(l, r)

Known(b) == IF b THEN 1 ELSE 0

EvidenceQuality(i) ==
    Min({i.stack.depth, 4}) +
    CASE i.type = "java_crash" -> Known(i.cause # "") + Known(i.part # "")
      [] i.type = "native_crash" -> Known(i.cause # "") + Known(i.stack.depth > 0)
      [] i.type = "anr" -> Known(i.cause # "") + Known(i.part # "" \/ i.note # "")
      [] OTHER -> Known(i.cause # "") + Known(i.note # "")

-----------------------------------------------------------------------------
\* A cluster is the sequence of its members, in the order they joined.
Scores(cluster, i) == [m \in DOMAIN cluster |-> PairScore(i, cluster[m])]
Lowest(cluster, i) == Min(ToSet(Scores(cluster, i)))
Total(cluster, i) == FoldLeft(+, 0, Scores(cluster, i))

\* Mutant of Admits: the similarity to the first member decides (single link).
AdmitsLikeFirst(cluster, i) ==
    /\ HardGate(i, cluster[1])
    /\ \/ CanonicalParts(i) = CanonicalParts(cluster[1])
       \/ /\ EvidenceQuality(i) >= EnoughEvidence
          /\ EvidenceQuality(cluster[1]) >= EnoughEvidence
          /\ PairScore(i, cluster[1]) >= Threshold

Admits(cluster, i) ==
    /\ HardGate(i, cluster[1])
    /\ \/ \A m \in ToSet(cluster) : CanonicalParts(i) = CanonicalParts(m)
       \/ /\ \A j \in ToSet(cluster) \cup {i} : EvidenceQuality(j) >= EnoughEvidence
          /\ Lowest(cluster, i) >= Threshold

\* max(candidates): the lowest score, then the average, then the later cluster.
Better(clusters, c, d, i) ==
    LET low(k) == Lowest(clusters[k], i)
        left == Total(clusters[c], i) * Len(clusters[d])
        right == Total(clusters[d], i) * Len(clusters[c])
    IN  \/ low(c) > low(d)
        \/ low(c) = low(d) /\ left > right
        \/ low(c) = low(d) /\ left = right /\ c >= d

Place(clusters, i) ==
    LET candidates == {c \in DOMAIN clusters : Admits(clusters[c], i)}
        best == CHOOSE c \in candidates :
                    \A d \in candidates : Better(clusters, c, d, i)
    IN  IF candidates = {} THEN Append(clusters, <<i>>)
        ELSE [clusters EXCEPT ![best] = Append(@, i)]

\* group_incidents: the clusters of the incidents that are issues.
Consider(clusters, i) == IF i.type \in IssueTypes THEN Place(clusters, i) ELSE clusters
Clusters(incidents) == FoldLeft(Consider, <<>>, incidents)

\* The member with the best evidence; then the most central; then the oldest.
Representative(cluster) ==
    LET quality == Max({EvidenceQuality(m) : m \in ToSet(cluster)})
        best == {m \in DOMAIN cluster : EvidenceQuality(cluster[m]) = quality}
        central(m) == FoldLeft(+, 0, [o \in DOMAIN cluster |->
                          IF o = m THEN 0 ELSE PairScore(cluster[m], cluster[o])])
        top == Max({central(m) : m \in best})
    IN  cluster[Min({m \in best : central(m) = top})]

CrashLoop(cluster) ==
    /\ cluster[1].type \in {"java_crash", "native_crash"}
    /\ \/ Len(cluster) >= 3
       \/ Len(cluster) >= 2 /\ \E m \in ToSet(cluster) : m.startup

Group(cluster) ==
    [fingerprint |-> CanonicalParts(Representative(cluster)),
     type |-> cluster[1].type,
     count |-> Len(cluster),
     loop |-> CrashLoop(cluster)]

Groups(incidents) == LET c == Clusters(incidents) IN [k \in DOMAIN c |-> Group(c[k])]
=============================================================================
