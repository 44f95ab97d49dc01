------------------------------ MODULE AdbCalls ------------------------------
(***************************************************************************)
(* One adb client shared by the threads of a run (adb.py): a bounded       *)
(* number of adb commands at once, retries with a pause between them, and  *)
(* the counters that the health of the collectors is read from.            *)
(***************************************************************************)
EXTENDS Naturals, FiniteSets

CONSTANTS AdbThreads, Concurrency, MaxRetries, MaxCalls

ASSUME AdbAssumption ==
    /\ IsFiniteSet(AdbThreads) /\ Concurrency \in Nat \ {0}
    /\ MaxRetries \in Nat /\ MaxCalls \in Nat

VARIABLES
    call,      \* per caller: where it stands, its attempt, the retries it may use
    freeSlots, \* what _sem has left
    adbCounts     \* _calls and _failures

adbVars == <<call, freeSlots, adbCounts>>

NoCall == [step |-> "idle", attempt |-> 0, retries |-> 0]
CallAt(c, s) == call[c].step = s
CallGoes(c, s) == call' = [call EXCEPT ![c].step = s]
CountUp(field) == adbCounts' = [adbCounts EXCEPT ![field] = @ + 1]

AdbInit ==
    /\ call = [c \in AdbThreads |-> NoCall]
    /\ freeSlots = Concurrency
    /\ adbCounts = [calls |-> 0, failures |-> 0]

\* run(): the call is counted before its first attempt.
BeginCall(c) ==
    /\ CallAt(c, "idle") /\ adbCounts.calls < MaxCalls
    /\ \E r \in 0 .. MaxRetries:
           call' = [call EXCEPT ![c] = [NoCall EXCEPT !.step = "waits", !.retries = r]]
    /\ CountUp("calls") /\ UNCHANGED freeSlots

\* with self._sem, and the command starts.
TakeSlot(c) ==
    /\ CallAt(c, "waits") /\ freeSlots > 0
    /\ freeSlots' = freeSlots - 1
    /\ CallGoes(c, "executes") /\ UNCHANGED adbCounts

LeaveSlot == freeSlots' = freeSlots + 1

\* A result the caller accepts.  FileNotFoundError ends the call in the same
\* way: AdbNotFound is raised at once, without a retry or a failure counted.
Ends(c) ==
    /\ CallAt(c, "executes")
    /\ call' = [call EXCEPT ![c] = NoCall]
    /\ LeaveSlot /\ UNCHANGED adbCounts

\* A timeout, or a return code that a caller with check does not accept: the
\* slot is free before the pause.
AttemptFails(c) ==
    /\ CallAt(c, "executes")
    /\ CallGoes(c, IF call[c].attempt < call[c].retries THEN "pauses" ELSE "gives up")
    /\ LeaveSlot /\ UNCHANGED adbCounts

\* Mutant of Paused: the attempt is not counted.
PausedEndlessly(c) ==
    /\ CallAt(c, "pauses")
    /\ CallGoes(c, "waits")
    /\ UNCHANGED <<freeSlots, adbCounts>>

Paused(c) ==
    /\ CallAt(c, "pauses")
    /\ call' = [call EXCEPT ![c].step = "waits", ![c].attempt = @ + 1]
    /\ UNCHANGED <<freeSlots, adbCounts>>

\* Out of attempts: one failure, however many attempts there were.
GiveUp(c) ==
    /\ CallAt(c, "gives up")
    /\ call' = [call EXCEPT ![c] = NoCall]
    /\ CountUp("failures") /\ UNCHANGED freeSlots

Proceeds(c) == TakeSlot(c) \/ Ends(c) \/ AttemptFails(c) \/ Paused(c) \/ GiveUp(c)
AdbNext == \E c \in AdbThreads: BeginCall(c) \/ Proceeds(c)
AdbSpec == AdbInit /\ [][AdbNext]_adbVars /\ \A c \in AdbThreads: WF_adbVars(Proceeds(c))

(***************************************************************************)
(* Properties                                                              *)
(***************************************************************************)
\* Every slot that is taken belongs to a command that executes: no path out
\* of an attempt, error or not, and no pause between attempts keeps one.
SlotsMatchCommands ==
    freeSlots + Cardinality({c \in AdbThreads: CallAt(c, "executes")}) = Concurrency

\* The failures that the health of the collectors is lowered by are calls whose
\* attempts were all used up, each counted once.
FailuresAreLostCalls ==
    [][adbCounts'.failures # adbCounts.failures =>
         /\ adbCounts'.failures = adbCounts.failures + 1
         /\ \E c \in AdbThreads: call[c].attempt = call[c].retries /\ call'[c] = NoCall]_adbVars

\* A hung command blocks nobody for good: every call ends, for every caller.
\* (A caller can lose the race for a slot; the bound on calls keeps that finite.)
CallsEnd == \A c \in AdbThreads: ~CallAt(c, "idle") ~> CallAt(c, "idle")

\* However calls fail, slots are given back, failures are lost calls, and every call
\* ends.
AdbServes == []SlotsMatchCommands /\ FailuresAreLostCalls /\ CallsEnd
=============================================================================
