----------------------------- MODULE MCDevices -----------------------------
(***************************************************************************)
(* The lock of the output directory, and what a run does at the device:    *)
(* the health monitor and the logcat threads it restarts, the dump of an   *)
(* incident, the ExitInfo records.  A behaviour picks one subject, and     *)
(* only its variables change.                                              *)
(***************************************************************************)
EXTENDS RunLock, DeviceHealth, IncidentDump, ExitRecords, TLC

MCSymmetry == Permutations(Runs)

MCZones == {-3, 0, 3}

MCTrace(kind, pid, proc, at) == [kind |-> kind, pid |-> pid, proc |-> proc, at |-> at]

\* One crash of process 1; or two of two lives of `main', one cache entry each.
MCIncidents ==
    { <<MCTrace("anr", 1, "main", 100)>>, <<MCTrace("anr", 0, "main", 100)>>,
      <<MCTrace("native_crash", 1, "main", 100)>>, <<MCTrace("process_death", 1, "main", 100)>>,
      <<MCTrace("java_crash", 1, "main", 100), MCTrace("java_crash", 4, "main", 170)>> }

\* Traces of that crash, of the sibling, of an earlier life, of another package.
MCTraces ==
    { MCTrace("anr", 1, "main", 100), MCTrace("anr", 2, "push", 110), MCTrace("anr", 1, "main", 20),
      MCTrace("native_crash", 1, "main", 100), MCTrace("native_crash", 3, "other", 100),
      MCTrace("java_crash", 1, "main", 100), MCTrace("java_crash", 4, "main", 170) }

VARIABLE subject
lockVars == vars
mcVars == <<lockVars, healthVars, dumpVars, exitVars, subject>>

\* What no behaviour of another subject looks at starts with one value only.
MCInit ==
    /\ subject \in {"lock", "health", "dump", "exits"}
    /\ Init /\ HealthInit /\ DumpInit /\ ExitInit
    /\ subject # "lock" => lock = None
    /\ subject # "dump" => events = <<MCTrace("process_death", 1, "main", 100)>>
    /\ subject # "health" => poolStop.policy = "wait-and-resume"
    /\ subject # "exits" => zone = 0

\* A step of one subject leaves the variables of the others alone.
Only(s) ==
    /\ subject = s /\ UNCHANGED subject
    /\ s = "lock" \/ UNCHANGED lockVars
    /\ s = "health" \/ UNCHANGED healthVars
    /\ s = "dump" \/ UNCHANGED dumpVars
    /\ s = "exits" \/ UNCHANGED exitVars

\* Of the runs and the recovery any three come to the directory.
MCNext ==
    \/ Only("lock") /\ Next /\ \E p \in Processes : pc'[p] = "idle"
    \/ Only("health") /\ HealthNext
    \/ Only("dump") /\ DumpNext
    \/ Only("exits") /\ ExitNext

MCSpec == MCInit /\ [][MCNext]_mcVars
=============================================================================
