---------------------------- MODULE MCAnalysis ----------------------------
(***************************************************************************)
(* What is made of a run when it is over: the fold of the journal into a   *)
(* report, the groups of its incidents and their comparison with another   *)
(* report, the verdict and the exit code, the redaction and the export,    *)
(* the results of a matrix; and the test plan that judges the code itself. *)
(* A behaviour picks one subject, and only its variables change.           *)
(***************************************************************************)
EXTENDS ReportFoldCheck, RunCompare, RunVerdict, MatrixRun, Redaction, TestPlan

CONSTANTS e1, e2

\* A crash and an event without a signature.
MCKind == [e \in Events |-> IF e = e1 THEN "issue" ELSE "unsigned"]

Stack(name, top, depth) == [name |-> name, top |-> top, depth |-> depth]
NearF == Stack("a", "f", 4)
LikeBoth == Stack("b", "f", 4)
NearG == Stack("c", "g", 4)
Short == Stack("w", "f", 1)

\* The alignment is not transitive: "b" is like "a" and like "c".
MCAlike == [pair \in SUBSET {"a", "b", "c", "w"} |->
              IF pair \in {{"a", "b"}, {"b", "c"}} THEN 95 ELSE 60]

Issue(type, cause, part, note, stack, startup) ==
    [type |-> type, cause |-> cause, part |-> part, note |-> note,
     thread |-> "main", stack |-> stack, startup |-> startup]

\* Java crashes that differ in one feature each, and types with little evidence.
MCOccurrences ==
    { Issue("java_crash", "npe", "plain", "m", NearF, FALSE),
      Issue("java_crash", "npe", "plain", "n", NearF, FALSE),
      Issue("java_crash", "npe", "plain", "m", LikeBoth, TRUE),
      Issue("java_crash", "npe", "plain", "m", NearG, FALSE),
      Issue("java_crash", "", "plain", "m", NearF, FALSE),
      Issue("java_crash", "io", "plain", "m", NearF, FALSE),
      Issue("native_crash", "11", "", "", Short, FALSE),
      Issue("native_crash", "", "", "", Short, FALSE),
      Issue("anr", "input", "", "lock", Short, FALSE),
      Issue("process_death", "", "", "", Short, FALSE) }

MCOption(w, ci, ignore, redact) ==
    [workload |-> w, ci |-> ci, ignore |-> ignore, redact |-> redact]

MCOptions ==
    { MCOption("none", TRUE, FALSE, TRUE), MCOption("external", TRUE, FALSE, FALSE),
      MCOption("external", FALSE, TRUE, FALSE), MCOption("monkey", FALSE, FALSE, TRUE),
      MCOption("launch", TRUE, FALSE, FALSE) }

VARIABLE subject
foldVars == vars
mcVars == <<foldVars, compareVars, verdictVars, matrixVars, redactVars, testPlanVars, subject>>

NoInventory == [collected |-> {}, named |-> [n \in Nodes |-> 0], expected |-> 0]
EmptyPlan == [suites |-> [s \in Suites |-> Leaf(0)], feature |-> {}]

\* The runs of every plan, of one of the two suites or of the feature, on one
\* condition; or every inventory, without a plan.
MCTestPlanInit ==
    /\ TestPlanInit
    /\ IF run.pc = "loaded"
       THEN /\ inventory = NoInventory
            /\ (run.target = FeatureTarget) = (plan.feature # {})
            /\ ~run.dry \/ ~run.inside
            /\ run.target # "b"
       ELSE plan = EmptyPlan /\ run.dry /\ run.inside /\ run.target = FeatureTarget

\* One plan during whose runs others work on the repository.
WatchedPlan == [suites |-> [s \in Suites |-> Leaf(1)], feature |-> {"a"}]
OthersWork == run' = run /\ evidence' = evidence

NoTestPlan ==
    /\ plan = EmptyPlan /\ inventory = NoInventory /\ NothingRan
    /\ run = [pc |-> "none", target |-> FeatureTarget, dry |-> TRUE, inside |-> TRUE,
              left |-> {}, suite |-> Ghost, exit |-> NoExit]

\* What no behaviour of another subject looks at starts with one value only; a
\* directory with a broken file holds one secret, and of the files that are treated
\* alike some hold none.
MCInit ==
    /\ subject \in {"fold", "compare", "verdict", "matrix", "redaction", "plan"}
    /\ Init /\ CompareInit /\ MatrixInit
    /\ VerdictInit /\ (subject # "verdict" => options = MCOption("none", TRUE, FALSE, TRUE))
    /\ RedactInit /\ (subject # "redaction" =>
         broken = {} /\ contents = [f \in Files |-> IF f = "logcat" THEN {"line"} ELSE {}])
    /\ \A f \in {"context", "bookmarks", "events", "status"} : contents[f] = {}
    /\ "key" \notin contents["report"] /\ "split" \notin contents["tombstone"]
    /\ broken # {} => Cardinality({p \in Places : p[2] \in contents[p[1]]}) = 1
    /\ IF subject = "plan" THEN MCTestPlanInit ELSE NoTestPlan

Only(s) ==
    /\ subject = s /\ UNCHANGED subject
    /\ s = "fold" \/ UNCHANGED foldVars
    /\ s = "compare" \/ UNCHANGED compareVars
    /\ s = "verdict" \/ UNCHANGED verdictVars
    /\ s = "matrix" \/ UNCHANGED matrixVars
    /\ s = "redaction" \/ UNCHANGED redactVars
    /\ s = "plan" \/ UNCHANGED testPlanVars

\* Up to four records together.
FewRecords == Len(journal[e1]) + Len(journal[e2]) <= 4

\* The baseline is the report that is written first.
BaselineFirst == written[Current] => written[Baseline]

MCNext ==
    \/ Only("fold") /\ Next /\ FewRecords'
    \/ Only("compare") /\ CompareNext /\ BaselineFirst'
    \/ Only("verdict") /\ VerdictNext
    \/ Only("matrix") /\ MatrixNext
    \/ Only("redaction") /\ RedactNext
    \/ Only("plan") /\ TestPlanNext /\ (OthersWork => plan = WatchedPlan /\ ~run.inside)

MCSpec == MCInit /\ [][MCNext]_mcVars
=============================================================================
