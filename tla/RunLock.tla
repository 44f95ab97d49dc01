------------------------------ MODULE RunLock ------------------------------
(***************************************************************************)
(* The lock of an output directory (sat/runlock.py) as the processes that  *)
(* work on it use it: runs (StabilityTest in sat/api.py) acquire it, write *)
(* their report and release it; `sat recover' (sat/recovery.py) only looks *)
(* at it.  The lock file appears atomically (os.link); everything else is  *)
(* one file operation after the other.  Any process may die at any step.   *)
(*                                                                         *)
(* The lock file is modelled by its owner.  A pid is never reused: an      *)
(* owner that has died stays dead.                                         *)
(***************************************************************************)
CONSTANTS
    Runs, Recoverers,   \* processes: runs of a test, and of sat recover
    Ghost,              \* the dead owner of a lock an earlier run left
    None,               \* no lock, no report
    Unreadable          \* read_lock of a file that vanished in between: pid 0

ASSUME LockAssumption ==
    /\ Runs \cap Recoverers = {}
    /\ {Ghost, None, Unreadable} \cap (Runs \cup Recoverers) = {}
    /\ Ghost # None /\ Ghost # Unreadable /\ None # Unreadable

Processes == Runs \cup Recoverers

\* "look" and "text" are the two file operations of read_lock, "decide" what
\* its caller makes of it: acquire or check_recoverable in phase "check",
\* clear_stale_lock in phase "clear".
Acquiring == {"linking", "look", "text", "decide", "unlinking", "relinking"}
PCs == Acquiring \cup {"idle", "running", "reported", "released", "refused",
                       "rebuilding", "ended", "dead"}

VARIABLES
    lock,     \* the owner of the lock file
    pc,       \* where each process is
    phase,    \* who called read_lock
    seen,     \* what read_lock returned
    report,   \* the process that wrote report.json last
    rivals,   \* history: was another process active while this one acquired?
    fresh     \* history: no lock was left, released, or lost its owner so far

vars == <<lock, pc, phase, seen, report, rivals, fresh>>

Alive(p) == p \in Processes /\ pc[p] \notin {"idle", "dead"}
Holding(p) == pc[p] \in {"running", "reported"}

Init ==
    /\ lock \in {None, Ghost}
    /\ pc = [p \in Processes |-> "idle"]
    /\ phase = [p \in Processes |-> "check"]
    /\ seen = [p \in Processes |-> None]
    /\ report = None
    /\ rivals = [p \in Processes |-> FALSE]
    /\ fresh = (lock = None)

Goto(p, from, to) == pc[p] = from /\ pc' = [pc EXCEPT ![p] = to]

\* A process comes to the directory: a run tries to link its lock file, sat
\* recover looks for one.
Start(p) ==
    /\ Goto(p, "idle", IF p \in Runs THEN "linking" ELSE "look")
    /\ rivals' = [q \in Processes |-> \/ rivals[q]
                                      \/ q = p /\ \E r \in Processes : Alive(r)
                                      \/ q # p /\ pc[q] \in Acquiring]
    /\ UNCHANGED <<lock, phase, seen, report, fresh>>

\* Mutant of Link: the file is created without looking for one.
LinkOverAny(p) ==
    /\ Goto(p, "linking", "running")
    /\ lock' = p
    /\ UNCHANGED <<phase, seen, report, rivals, fresh>>

\* os.link of the finished lock file: one process wins.
Link(p) ==
    /\ pc[p] = "linking"
    /\ IF lock = None THEN pc' = [pc EXCEPT ![p] = "running"] /\ lock' = p
                      ELSE pc' = [pc EXCEPT ![p] = "look"] /\ UNCHANGED lock
    /\ UNCHANGED <<phase, seen, report, rivals, fresh>>

\* read_lock: path.exists() ...
Look(p) ==
    /\ Goto(p, "look", IF lock = None THEN "decide" ELSE "text")
    /\ seen' = [seen EXCEPT ![p] = None]
    /\ UNCHANGED <<lock, phase, report, rivals, fresh>>

\* ... then path.read_text(), of the file that is there by then.
Text(p) ==
    /\ Goto(p, "text", "decide")
    /\ seen' = [seen EXCEPT ![p] = IF lock = None THEN Unreadable ELSE lock]
    /\ UNCHANGED <<lock, phase, report, rivals, fresh>>

\* A live owner refuses the process (a run then aborts); otherwise the stale
\* lock is cleared.
Check(p) ==
    /\ phase[p] = "check"
    /\ IF Alive(seen[p])
         THEN Goto(p, "decide", "refused") /\ UNCHANGED phase
         ELSE Goto(p, "decide", "look") /\ phase' = [phase EXCEPT ![p] = "clear"]
    /\ UNCHANGED <<lock, seen, report, rivals, fresh>>

AfterClear(p) == IF p \in Runs THEN "relinking" ELSE "rebuilding"

\* Mutant of Clear: the stale lock is left where it is.
ClearNothing(p) ==
    /\ phase[p] = "clear"
    /\ Goto(p, "decide", AfterClear(p))
    /\ UNCHANGED <<lock, phase, seen, report, rivals, fresh>>

\* clear_stale_lock reads the lock again, and decides on what it read ...
Clear(p) ==
    /\ phase[p] = "clear"
    /\ Goto(p, "decide", IF seen[p] = None \/ Alive(seen[p]) THEN AfterClear(p)
                                                            ELSE "unlinking")
    /\ UNCHANGED <<lock, phase, seen, report, rivals, fresh>>

\* ... then unlinks what is there.
Unlink(p) ==
    /\ Goto(p, "unlinking", AfterClear(p))
    /\ lock' = None
    /\ UNCHANGED <<phase, seen, report, rivals, fresh>>

\* The one retry.
Relink(p) ==
    /\ IF lock = None THEN Goto(p, "relinking", "running") /\ lock' = p
                      ELSE Goto(p, "relinking", "refused") /\ UNCHANGED lock
    /\ UNCHANGED <<phase, seen, report, rivals, fresh>>

-----------------------------------------------------------------------------
\* stop() writes the reports, then releases the lock.
WriteReport(p) ==
    /\ Goto(p, "running", "reported")
    /\ report' = p
    /\ UNCHANGED <<lock, phase, seen, rivals, fresh>>

\* release() unlinks the path, whoever's lock is there.
Release(p) ==
    /\ Goto(p, "reported", "released")
    /\ lock' = None
    /\ fresh' = FALSE
    /\ UNCHANGED <<phase, seen, report, rivals>>

\* _abort of a refused run writes reports too; it has no lock to release.
Abort(p) ==
    /\ p \in Runs
    /\ Goto(p, "refused", "ended")
    /\ report' = p
    /\ UNCHANGED <<lock, phase, seen, rivals, fresh>>

\* recover_report writes its report without ever holding the lock.
Rebuild(p) ==
    /\ Goto(p, "rebuilding", "ended")
    /\ report' = p
    /\ UNCHANGED <<lock, phase, seen, rivals, fresh>>

\* A process ends, in order or killed.
Die(p) ==
    /\ Alive(p)
    /\ pc' = [pc EXCEPT ![p] = "dead"]
    /\ fresh' = FALSE
    /\ UNCHANGED <<lock, phase, seen, report, rivals>>

Acquire(p) ==
    \/ Link(p) \/ Look(p) \/ Text(p) \/ Check(p) \/ Clear(p) \/ Unlink(p) \/ Relink(p)

Next ==
    \E p \in Processes :
        \/ Start(p) \/ Acquire(p) \/ WriteReport(p) \/ Release(p)
        \/ Abort(p) \/ Rebuild(p) \/ Die(p)

Spec == Init /\ [][Next]_vars
-----------------------------------------------------------------------------
(* Properties *)

TypeOK ==
    /\ lock \in Runs \cup {None, Ghost}
    /\ pc \in [Processes -> PCs]
    /\ phase \in [Processes -> {"check", "clear"}]
    /\ seen \in [Processes -> Runs \cup {None, Ghost, Unreadable}]
    /\ report \in Processes \cup {None}
    /\ rivals \in [Processes -> BOOLEAN]
    /\ fresh \in BOOLEAN

\* Runs that start together on a directory without a lock: as long as none has
\* released its lock or died, at most one got it.
OneWinner ==
    fresh => \A p, q \in Runs : Holding(p) /\ Holding(q) => p = q

\* A run that comes to the directory alone is never refused, whatever lock a
\* dead run left there.
NoFalseRefusal == \A p \in Processes : pc[p] = "refused" => rivals[p]

\* test_runlock.py: of the processes racing for a lock only one wins.
MutualExclusion ==
    \A p, q \in Runs : Holding(p) /\ Holding(q) => p = q
=============================================================================
