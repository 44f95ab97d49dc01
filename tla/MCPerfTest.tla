----------------------------- MODULE MCPerfTest -----------------------------
(***************************************************************************)
(* The performance test: the instances of MCPerfPool; one run of the       *)
(* command line or of a script; one heap dump and one thread dump; the     *)
(* percentages of one pid and the report of one directory.  A behaviour    *)
(* picks one subject, and only its variables change.                       *)
(***************************************************************************)
EXTENDS MCPerfPool, PerfRun, PerfDumps, PerfReport

MCLines ==
    { HeaderLine(1), HeaderLine(0), NoiseLine,
      ThreadLine("t1", 5, <<"a", "z">>), ThreadLine("t1", 9, <<"b", "z">>), ThreadLine("t2", 5, <<"c">>) }
MCTopTexts == UNION {[1 .. n -> MCLines] : n \in 0 .. 3}

VARIABLE subject
poolVars == vars
mcVars == <<poolVars, perfRunVars, dumpVars, perfReportVars, subject>>

NoAlerts == [p \in Processes |-> [cpu |-> 0, mem |-> 0]]
EmptyFile == [state |-> "ok", rows |-> <<>>]
EmptyRun == [files |-> <<EmptyFile, EmptyFile>>, life |-> <<>>, incidents |-> NoAlerts,
             failed |-> {}, built |-> FALSE, report |-> <<>>]

\* What no behaviour of another subject looks at starts with one value only; a
\* report is of several files and no lifecycle, or of one file and any lifecycle.
MCInit ==
    /\ subject \in {"pool", "run", "heap", "top", "cpu", "stats"}
    /\ Init /\ (subject # "pool" => device = [n \in Names |-> 1])
    /\ PerfRunInit /\ (subject # "run" => cli.who = "cli")
    /\ PerfDumpsInit /\ (subject # "heap" => heap.enabled) /\ (subject # "top" => top.text = <<>>)
    /\ CpuInit
    /\ IF subject # "stats" THEN stats = EmptyRun
       ELSE /\ StatsInit
            /\ stats.files[1].state = "ok"
            /\ stats.life # <<>> =>
                  stats = [EmptyRun EXCEPT !.files[1] = stats.files[1], !.life = stats.life]

\* A step of one subject leaves the variables of the others alone.
Only(s) ==
    /\ subject \in s /\ UNCHANGED subject
    /\ "pool" \in s \/ UNCHANGED poolVars
    /\ "run" \in s \/ UNCHANGED perfRunVars
    /\ "heap" \in s \/ UNCHANGED dumpVars
    /\ "cpu" \in s \/ UNCHANGED perfReportVars

MCNext ==
    \/ Only({"pool"}) /\ Next
    \/ Only({"run"}) /\ PerfRunNext
    \/ Only({"heap"}) /\ (HeapStep \/ DeviceStep \/ LoadIncidents)
    \/ Only({"heap", "top"}) /\ subject = "top" /\ DumpThreads
    \/ Only({"cpu"}) /\ CpuStep
    \/ Only({"cpu", "stats"}) /\ subject = "stats" /\ Build
    \/ subject # "pool" /\ UNCHANGED mcVars

\* The fairness is that of the pool: of the others no liveness is claimed.
MCSpec == MCInit /\ [][MCNext]_mcVars /\ Fairness
=============================================================================
