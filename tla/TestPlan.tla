------------------------------ MODULE TestPlan ------------------------------
(***************************************************************************)
(* The test plan runner of the repository (testctl.py of the project-test  *)
(* skill): a plan is validated, a suite or a feature is resolved to leaf   *)
(* suites, their commands run between two snapshots of the working tree,   *)
(* and a verdict is reached.  Others may work on the repository meanwhile. *)
(*                                                                         *)
(* Code, tests and plan are numbered by their contents, in the tree and in *)
(* HEAD.  The digest of the tree is that of `git diff HEAD' and of the     *)
(* files git does not know: it has nothing of a file that is as in HEAD.   *)
(***************************************************************************)
EXTENDS Naturals, FiniteSets, Sequences

CONSTANTS
    Suites,       \* names of suites, all of one plan
    Nodes,        \* tests that an inventory may collect
    MaxCommands,  \* commands of a suite
    MaxEdits      \* bound on the numbers of contents, over the whole tree

Ghost == "ghost"  \* a name that the plan does not define
FeatureTarget == "feature:f"

ASSUME TestPlanAssumption ==
    /\ IsFiniteSet(Suites) /\ Suites \cap {Ghost, FeatureTarget} = {}
    /\ IsFiniteSet(Nodes) /\ {MaxCommands, MaxEdits} \subseteq Nat

VARIABLES
    plan,      \* the plan as it was loaded
    run,       \* the runner: where it is, its arguments, the leaf suites that are
               \* left, the one it is in, and its exit status
    evidence,   \* of each leaf suite, what became of the commands that ran
    snap,      \* what the two snapshots read
    tree,      \* the working tree
    repo,      \* HEAD; history: whether since the first snapshot HEAD moved or
               \* an edit was undone, and the tree at each of the two digests
    inventory  \* of an inventory item: what was collected, the count that is
               \* expected, and how often the explicit suite names each test

testPlanVars == <<plan, run, evidence, snap, tree, repo, inventory>>

Parts == {"code", "tests", "plan"}
Untouched == [p \in Parts |-> 0]

Leaf(n) == [kind |-> "leaf", includes |-> {}, commands |-> n]
Composite(children, n) == [kind |-> "composite", includes |-> children, commands |-> n]
SuiteShapes == {Leaf(n) : n \in 0 .. MaxCommands}
               \cup {Composite(c, n) : c \in SUBSET (Suites \cup {Ghost}), n \in {0, 1}}
NoExpectation == 99
NoExit == 99

NothingRan ==
    /\ evidence = [s \in Suites |-> [missing |-> FALSE, commands |-> <<>>]]
    /\ snap = [code |-> "none", tests |-> "none", plan |-> "none", verdict |-> "none",
               codeAfter |-> "none", testsAfter |-> "none"]
    /\ tree = Untouched
    /\ repo = [head |-> Untouched, moved |-> FALSE, atStart |-> Untouched, atEnd |-> Untouched]

TestPlanInit ==
    /\ plan \in [suites : [Suites -> SuiteShapes], feature : SUBSET (Suites \cup {Ghost})]
    /\ run \in [pc : {"loaded", "inventory"}, target : Suites \cup {FeatureTarget},
                dry : BOOLEAN, inside : BOOLEAN, left : {{}}, suite : {Ghost}, exit : {NoExit}]
    /\ NothingRan
    /\ inventory \in [collected : SUBSET Nodes, named : [Nodes -> 0 .. 2],
                      expected : 0 .. Cardinality(Nodes) \cup {NoExpectation}]

-----------------------------------------------------------------------------
(* validate_plan and resolve_target *)

Includes(s) == plan.suites[s].includes

\* The suites that s leads to: they are in every set that has the includes of s and
\* those of each of its members.
LedTo(s) ==
    {t \in Suites : \A C \in SUBSET Suites :
        (\A u \in C \cup {s} : Includes(u) \cap Suites \subseteq C) => t \in C}
SuiteValid(s) ==
    IF plan.suites[s].kind = "composite"
      THEN Includes(s) # {} /\ Includes(s) \subseteq Suites /\ plan.suites[s].commands = 0
      ELSE plan.suites[s].commands > 0

Valid ==
    /\ plan.feature \subseteq Suites
    /\ \A s \in Suites : SuiteValid(s)
    /\ \A s \in Suites : s \notin LedTo(s)

Roots(target) == IF target = FeatureTarget THEN plan.feature ELSE {target}
Reached(target) ==
    Roots(target) \cup UNION {LedTo(r) : r \in Roots(target) \cap Suites}
Fails(target) ==
    \E s \in Reached(target) : s \notin Suites \/ Ghost \in Includes(s) \/ s \in LedTo(s)

\* The leaf suites that a target stands for, each once.
Resolved(target) == {s \in Reached(target) \cap Suites : plan.suites[s].kind = "leaf"}

-----------------------------------------------------------------------------
(* command_run *)

Leave(status) == run' = [run EXCEPT !.pc = "exited", !.exit = status]
Continue(from, to) == run.pc = from /\ run' = [run EXCEPT !.pc = to]

Validate ==
    /\ run.pc = "loaded"
    /\ IF Valid /\ ~Fails(run.target)
         THEN run' = [run EXCEPT !.pc = "code", !.left = Resolved(run.target)]
         ELSE Leave(2)
    /\ UNCHANGED <<plan, evidence, snap, tree, repo, inventory>>

\* _working_tree_digest.
TreeDigest ==
    [p \in {q \in Parts : tree[q] # repo.head[q]} |-> <<repo.head[p], tree[p]>>]

SnapshotCode ==
    /\ Continue("code", "tests")
    /\ snap' = [snap EXCEPT !.code = TreeDigest]
    /\ repo' = [repo EXCEPT !.atStart = tree]
    /\ UNCHANGED <<plan, evidence, tree, inventory>>
SnapshotTests ==
    /\ Continue("tests", "plan") /\ snap' = [snap EXCEPT !.tests = tree.tests]
    /\ UNCHANGED <<plan, evidence, tree, repo, inventory>>
SnapshotPlan ==
    /\ Continue("plan", "suites") /\ snap' = [snap EXCEPT !.plan = tree.plan]
    /\ UNCHANGED <<plan, evidence, tree, repo, inventory>>

\* The suites come in the order of the plan: any order here.  One with a
\* requirement that is not met now fails, and none of its commands run.
BeginSuite ==
    /\ run.pc = "suites"
    /\ \E s \in run.left :
          \/ /\ run' = [run EXCEPT !.left = @ \ {s}]
             /\ evidence' = [evidence EXCEPT ![s].missing = TRUE]
          \/ run' = [run EXCEPT !.pc = "commands", !.suite = s, !.left = @ \ {s}]
             /\ UNCHANGED evidence
    /\ UNCHANGED <<plan, snap, tree, repo, inventory>>

\* What a command may come to: whether its exit code is an expected one (124 of a
\* timeout may be), whether it timed out, whether tests were skipped, and whether
\* the plan forbids that.
Result(expected, late, skipped, strict) ==
    [expected |-> expected, late |-> late, skipped |-> skipped, strict |-> strict]
Outcomes ==
    { Result(TRUE, FALSE, FALSE, TRUE), Result(FALSE, FALSE, FALSE, FALSE),
      Result(TRUE, TRUE, FALSE, FALSE), Result(TRUE, FALSE, TRUE, FALSE),
      Result(TRUE, FALSE, TRUE, TRUE) }
Passed(result) == result.expected /\ ~result.late /\ ~(result.strict /\ result.skipped)

Count == Len(evidence[run.suite].commands)

\* A log of each command is written: it is an edit if it lies in the repository and is
\* not ignored there. A command that fails is the last of its suite.
RunCommand ==
    /\ run.pc = "commands" /\ ~run.dry
    /\ \E result \in Outcomes :
          /\ evidence' = [evidence EXCEPT ![run.suite].commands = Append(@, result)]
          /\ run' = [run EXCEPT !.pc = IF Passed(result) /\ Count + 1 < plan.suites[run.suite].commands
                                       THEN "commands" ELSE "suites"]
    /\ tree' = IF run.inside THEN [tree EXCEPT !.code = @ + 1] ELSE tree
    /\ UNCHANGED <<plan, snap, repo, inventory>>

PlanCommands ==
    /\ run.dry /\ Continue("commands", "suites")
    /\ UNCHANGED <<plan, evidence, snap, tree, repo, inventory>>

\* A variable without value or a program that is not there is an error of the
\* whole run: no report is written.
CommandRaises ==
    /\ run.pc = "commands" /\ Leave(2)
    /\ UNCHANGED <<plan, evidence, snap, tree, repo, inventory>>

SnapshotCodeAfter ==
    /\ run.left = {} /\ Continue("suites", "testsAfter")
    /\ snap' = [snap EXCEPT !.codeAfter = TreeDigest]
    /\ repo' = [repo EXCEPT !.atEnd = tree]
    /\ UNCHANGED <<plan, evidence, tree, inventory>>

HasFailure ==
    \E s \in Suites : \/ evidence[s].missing
                      \/ \E i \in DOMAIN evidence[s].commands : ~Passed(evidence[s].commands[i])
VerdictOf(stale) ==
    IF run.dry THEN "PLANNED" ELSE IF stale THEN "STALE" ELSE IF HasFailure THEN "FAIL" ELSE "PASS"
StatusOf == [PASS |-> 0, PLANNED |-> 0, FAIL |-> 1, STALE |-> 4]

\* Mutant of Judge: the tree is not looked at again.
JudgeOneSnapshot ==
    /\ run.pc = "testsAfter"
    /\ snap' = [snap EXCEPT !.testsAfter = tree.tests, !.verdict = VerdictOf(FALSE)]
    /\ Leave(StatusOf[snap'.verdict])
    /\ UNCHANGED <<plan, evidence, tree, repo, inventory>>

Judge ==
    /\ run.pc = "testsAfter"
    /\ snap' = [snap EXCEPT !.testsAfter = tree.tests,
                            !.verdict = VerdictOf(snap.code # snap.codeAfter \/ snap.tests # tree.tests)]
    /\ Leave(StatusOf[snap'.verdict])
    /\ UNCHANGED <<plan, evidence, tree, repo, inventory>>

-----------------------------------------------------------------------------
(* Somebody works on the repository *)

Unfinished == run.pc \notin {"inventory", "exited"}
Sum(numbers) == numbers.code + numbers.tests + numbers.plan

Edit(p) ==
    /\ Unfinished /\ Sum(tree) < MaxEdits
    /\ tree' = [tree EXCEPT ![p] = @ + 1]
    /\ UNCHANGED <<plan, run, evidence, snap, repo, inventory>>

Moved(head) ==
    repo' = [repo EXCEPT !.head = head, !.moved = @ \/ run.pc \notin {"loaded", "code"}]

Undo(p) ==
    /\ Unfinished /\ tree[p] # repo.head[p]
    /\ tree' = [tree EXCEPT ![p] = repo.head[p]]
    /\ Moved(repo.head)
    /\ UNCHANGED <<plan, run, evidence, snap, inventory>>

Commit(p) ==
    /\ Unfinished /\ tree[p] # repo.head[p]
    /\ Moved([repo.head EXCEPT ![p] = tree[p]])
    /\ UNCHANGED <<plan, run, evidence, snap, tree, inventory>>

\* Of another commit: git keeps a file that was edited.
Checkout(p) ==
    /\ Unfinished /\ tree[p] = repo.head[p]
    /\ \E n \in 0 .. MaxEdits : tree' = [tree EXCEPT ![p] = n]
    /\ tree' # tree /\ Sum(tree') <= MaxEdits
    /\ Moved([repo.head EXCEPT ![p] = tree'[p]])
    /\ UNCHANGED <<plan, run, evidence, snap, inventory>>

-----------------------------------------------------------------------------
(* command_inventory, with --check and an explicit suite *)

Named == {n \in Nodes : inventory.named[n] > 0}
Drift ==
    \/ inventory.expected \notin {NoExpectation, Cardinality(inventory.collected)}
    \/ Named # inventory.collected
    \/ \E n \in Nodes : inventory.named[n] > 1

\* The collection itself may fail, time out or print no count.
CheckInventory ==
    /\ run.pc = "inventory"
    /\ \E collects \in BOOLEAN : Leave(IF collects /\ ~Drift THEN 0 ELSE 1)
    /\ UNCHANGED <<plan, evidence, snap, tree, repo, inventory>>

TestPlanNext ==
    \/ Validate \/ SnapshotCode \/ SnapshotTests \/ SnapshotPlan
    \/ BeginSuite \/ RunCommand \/ PlanCommands \/ CommandRaises
    \/ SnapshotCodeAfter \/ Judge \/ CheckInventory
    \/ \E p \in Parts : Edit(p) \/ Undo(p) \/ Commit(p) \/ Checkout(p)

TestPlanSpec == TestPlanInit /\ [][TestPlanNext]_testPlanVars

-----------------------------------------------------------------------------
(* Properties *)

\* A plan that validates can be run: every target resolves, to at least one leaf
\* suite with commands, unless the feature names no suite.
ValidPlanResolves ==
    run.pc = "loaded" /\ Valid => \A target \in Suites \cup {FeatureTarget} :
               /\ ~Fails(target)
               /\ Resolved(target) = {} => target = FeatureTarget /\ plan.feature = {}

\* PASS is earned: every leaf suite of the target had what it requires and ran all
\* its commands, each with an expected exit code, in time and without a skip that
\* the plan forbids.
PassIsEarned ==
    snap.verdict = "PASS" =>
        \A s \in Resolved(run.target) :
            LET commands == evidence[s].commands IN
            /\ ~evidence[s].missing /\ Len(commands) = plan.suites[s].commands
            /\ \A i \in DOMAIN commands :
                  commands[i].expected /\ ~commands[i].late
                  /\ (commands[i].strict => ~commands[i].skipped)

\* PASS and FAIL are about one tree (testctl.py:680-682, 773-779), as long as the tree
\* is only edited: all digests of the report, read one after the other, are of one
\* tree, which was that of every command. What the digest is blind to is named: an edit
\* that is committed or undone before the second snapshot, and a checkout.
VerdictOfOneTree ==
    snap.verdict \in {"PASS", "FAIL"} /\ ~repo.moved =>
        /\ repo.atStart = repo.atEnd
        /\ snap.tests = repo.atStart.tests /\ snap.plan = repo.atStart.plan

\* A run in a repository that nobody works on is not called stale, unless it keeps its
\* logs there.
StillTreeIsNotStale ==
    snap.verdict = "STALE" =>
        run.inside \/ repo.moved \/ tree # repo.atStart \/ repo.atStart # repo.atEnd

\* An inventory that passes its check names every test that is collected, once.
InventoryExact ==
    run.pc = "exited" /\ run.exit = 0 /\ snap.verdict = "none" =>
        \A n \in Nodes : inventory.named[n] = IF n \in inventory.collected THEN 1 ELSE 0

\* A plan that validates can be run, and its verdict is earned, on one tree if nobody
\* moves HEAD or undoes an edit meanwhile.
PlanRunSound ==
    /\ ValidPlanResolves /\ PassIsEarned
    /\ VerdictOfOneTree /\ StillTreeIsNotStale
    /\ InventoryExact
=============================================================================
