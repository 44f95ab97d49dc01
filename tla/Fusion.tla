------------------------------- MODULE Fusion -------------------------------
(***************************************************************************)
(* The fusion of observations into occurrences (sat/fusion.py) as the pool *)
(* uses it: logcat events while the run lasts, replayed after a reconnect, *)
(* and the ExitInfo records when it stops.  Every occurrence is one        *)
(* incident of the report.                                                 *)
(*                                                                         *)
(* Device times are seconds and always readable, a pid is one life of one  *)
(* process, so the host-time and fingerprint keys for observations without *)
(* either are left out; so is the lookup by record id, which finds nothing *)
(* as the pool gives each logcat event an id of its own.                   *)
(***************************************************************************)
EXTENDS Integers, Sequences, FiniteSets, SequencesExt, FiniteSetsExt

CONSTANTS
    Failures,      \* what may happen on the device: sequences of failures
    Window,        \* device_ts_window_sec
    MaxReports     \* bound: logcat reports, replayed ones included

ASSUME FusionAssumption ==
    /\ Window \in Nat \ {0} /\ MaxReports \in Nat
    /\ \A fs \in Failures : \A f \in DOMAIN fs : fs[f].at \in Nat

CrashTypes == {"java_crash", "native_crash", "anr"}

VARIABLES
    failures,      \* the failures of this behaviour
    occurrences,   \* the FusionEngine's occurrences, in insertion order
    forgotten,     \* those _gc dropped: older than OCCURRENCE_MAX_AGE_SEC
    aged,          \* those that will be dropped by the next observe()
    reports,       \* logcat reports so far
    fused,         \* failures whose ExitInfo record was fused
    stopping       \* _accepting is FALSE: only ExitInfo records follow
fusionVars == <<failures, occurrences, forgotten, aged, reports, fused, stopping>>

FusionInit ==
    /\ failures = <<>> /\ occurrences = <<>>
    /\ forgotten = {} /\ aged = {}
    /\ reports = 0 /\ fused = {} /\ stopping = FALSE

\* The failures of a behaviour.
Happen ==
    /\ failures = <<>>
    /\ \E fs \in Failures : failures' = fs
    /\ UNCHANGED <<occurrences, forgotten, aged, reports, fused, stopping>>

-----------------------------------------------------------------------------
(* Observations *)

\* A crash as the logcat parser reports it; fault is the marker of the moment.
CrashSeen(f, fault) ==
    [of |-> f, source |-> "logcat", pid |-> failures[f].pid, type |-> failures[f].kind,
     subtype |-> failures[f].kind, marker |-> failures[f].marker, at |-> failures[f].at,
     fault |-> fault]

\* The process death that follows it, or that is all there is.
DeathSeen(f, fault) ==
    [CrashSeen(f, fault) EXCEPT !.type = "process_exit", !.subtype = "", !.marker = ""]

\* Its ExitInfo record: the type follows from the reason and, for a native
\* crash, from its description; the time is up to one second later.
ExitRecord(f, reason, type, late) ==
    [of |-> f, source |-> "exit_info", pid |-> failures[f].pid, type |-> type,
     subtype |-> reason, marker |-> "", at |-> failures[f].at + late, fault |-> ""]

ReasonsOf(f) ==
    CASE failures[f].kind = "java_crash" ->
            {<<"crashed", "crashed_generic">>, <<"excessive_resource_usage", "process_exit">>}
      [] failures[f].kind = "native_crash" ->
            {<<"crashed", "crashed_generic">>, <<"crashed", "native_crash">>}
      [] failures[f].kind = "anr" -> {<<"anr", "anr">>}
      [] OTHER -> {<<"low_memory", "process_exit">>}
ExitRecords(f) ==
    {ExitRecord(f, r[1], r[2], late) : r \in ReasonsOf(f), late \in {0, 1}}

-----------------------------------------------------------------------------
(* FusionEngine *)

Fingerprint(o) == <<o.type, o.subtype, o.marker>>
Bucket(o) == o.at \div Window
Untagged(o) == [o EXCEPT !.fault = ""]

\* The key without its fingerprint, by which compatible occurrences are found.
BaseKey(o) ==
    IF o.fault # "" THEN <<"fault", o.fault, o.pid, Bucket(o), o.type>>
                    ELSE <<"device", o.pid, o.type, Bucket(o)>>
FusionKey(o) == <<BaseKey(o), Fingerprint(o)>>

Live == DOMAIN occurrences \ forgotten

\* Not two different crash signatures.
Compatible(i, o) ==
    LET markers == {p.marker : p \in occurrences[i].members} \ {""} IN
    markers = {} \/ o.marker = "" \/ o.marker \in markers

Keyed(o, live) == {i \in live : occurrences[i].key = FusionKey(o)}
Based(o, live) == {i \in live : BaseKey(o) \in occurrences[i].bases /\ Compatible(i, o)}

\* Where observe() looks for an occurrence, in this order.
Candidates(o, live) ==
    <<Keyed(o, live), {i \in Keyed(Untagged(o), live) : Compatible(i, o)},
      Based(Untagged(o), live), Based(o, live)>>

First(sets) ==
    LET hits == {k \in DOMAIN sets : sets[k] # {}} IN
    IF hits = {} THEN 0 ELSE Min(sets[Min(hits)])

\* observe(): the old occurrences are dropped first.
Observe(o) ==
    LET hit == First(Candidates(o, Live \ aged)) IN
    /\ forgotten' = forgotten \cup aged
    /\ aged' = {}
    /\ occurrences' =
          IF hit # 0 THEN [occurrences EXCEPT ![hit].members = @ \cup {Untagged(o)}]
          ELSE Append(occurrences,
                 [key |-> FusionKey(o), bases |-> {BaseKey(o), BaseKey(Untagged(o))},
                  members |-> {Untagged(o)}, first |-> Untagged(o)])

\* Mutant of AnyInWindow: the same bucket instead of two windows around.
AnyInBucket(o) ==
    First(<<{i \in Live : LET p == occurrences[i].first IN
                             p.pid = o.pid /\ Bucket(p) = Bucket(o)}>>)

\* find_any_window_occurrence
AnyInWindow(o) ==
    First(<<{i \in Live : LET p == occurrences[i].first IN
                             p.pid = o.pid /\ p.at - o.at \in -(2 * Window)..(2 * Window)}>>)

\* find_compatible, a Java crash before a native one.
CompatibleCrash(o) ==
    LET As(type) == [o EXCEPT !.type = type]
        Hits(type) == <<{i \in Keyed(As(type), Live) : Compatible(i, o)}, Based(As(type), Live)>> IN
    First(Hits("java_crash") \o Hits("native_crash"))

-----------------------------------------------------------------------------
(* The pool *)

\* _dispatch_inner: the fault id is the process's latest marker, if it is fresh.
LogcatReports ==
    /\ failures # <<>> /\ ~stopping
    /\ reports < MaxReports /\ reports' = reports + 1
    /\ \E f \in DOMAIN failures, fault \in {"", "f1"} :
         \/ failures[f].kind \in CrashTypes /\ Observe(CrashSeen(f, fault))
         \/ Observe(DeathSeen(f, fault))
    /\ UNCHANGED <<failures, fused, stopping>>

\* Ten minutes go by (once, to bound the behaviours).
TimePasses ==
    /\ Live # {} /\ aged = {} /\ forgotten = {}
    /\ aged' = Live
    /\ UNCHANGED <<failures, occurrences, forgotten, reports, fused, stopping>>

StopAccepting ==
    /\ failures # <<>> /\ ~stopping /\ stopping' = TRUE
    /\ UNCHANGED <<failures, occurrences, forgotten, aged, reports, fused>>

\* The record only adds its source to an incident that exists.
Annotate == UNCHANGED <<occurrences, forgotten, aged>>

\* _fuse_exit_info, for one record.
FuseRecord(o) ==
    LET any == AnyInWindow(o)  crash == CompatibleCrash(o) IN
    IF o.subtype # "crashed"
    THEN IF any # 0 /\ occurrences[any].first.type \in CrashTypes THEN Annotate ELSE Observe(o)
    ELSE IF crash # 0 THEN Observe([o EXCEPT !.type = occurrences[crash].first.type])
    ELSE IF any # 0 THEN Annotate ELSE Observe(o)

ExitInfoReports ==
    /\ stopping
    /\ \E f \in DOMAIN failures \ fused :
         /\ fused' = fused \cup {f}
         /\ \E o \in ExitRecords(f) : FuseRecord(o)
    /\ UNCHANGED <<failures, reports, stopping>>

FusionNext == Happen \/ LogcatReports \/ TimePasses \/ StopAccepting \/ ExitInfoReports
FusionSpec == FusionInit /\ [][FusionNext]_fusionVars

-----------------------------------------------------------------------------
(* Properties *)

SameCrash(a, b) ==
    LET f == failures[a]  g == failures[b] IN
    f.pid = g.pid /\ (f.marker = g.marker \/ f.marker = "" \/ g.marker = "")

\* Different crashes are never counted as one: an occurrence holds reports of
\* one process life only, and of one signature.
DifferentCrashesApart ==
    \A i \in DOMAIN occurrences : \A a, b \in occurrences[i].members :
        a.type \in CrashTypes /\ a.source = "logcat" /\ b.source = "logcat" => SameCrash(a.of, b.of)

\* A crash that logcat reports again, with or without the fault marker of the
\* first time, is no second incident, unless the first is already forgotten.
ReplaysAbsorbed ==
    \A i, j \in DOMAIN occurrences : \A a \in occurrences[i].members, b \in occurrences[j].members :
        i < j /\ a.source = "logcat" /\ a = b => i \in forgotten

\* An ExitInfo record of a crash or ANR that logcat reported is no second
\* incident, unless the first is forgotten by then, or the same process has an
\* occurrence in front of it: there a failure is counted twice, although
\* fusion.py:3-4 says `counted exactly once'.
CrashCountedOnce ==
    \A i, j \in DOMAIN occurrences :
        LET crash == occurrences[i].first  exit == occurrences[j].first IN
        i < j /\ crash.type \in CrashTypes /\ exit.source = "exit_info" /\ crash.of = exit.of
        => i \in forgotten \/ \E k \in 1..(i - 1) : occurrences[k].first.pid = exit.pid

\* A failure is in the report as soon as its record is, whatever logcat missed.
FailuresSurface ==
    \A f \in fused : \E i \in DOMAIN occurrences : occurrences[i].first.pid = failures[f].pid

\* Two crashes are two incidents, a replayed report adds none, an ExitInfo record
\* adds none to the crash that logcat reported (outside of the two cases named
\* there), and a process with a recorded failure is in the report.
CrashesCounted ==
    /\ DifferentCrashesApart /\ ReplaysAbsorbed
    /\ CrashCountedOnce /\ FailuresSurface
=============================================================================
