---------------------------- MODULE IncidentDump ----------------------------
(***************************************************************************)
(* The dump of an incident: the trace or tombstone it binds                *)
(* (sat/evidence/trace_matcher.py), the steps of the dumpers               *)
(* (sat/dumpers), the DropBox entry (sat/collectors/dropbox.py) and how    *)
(* much of it is kept (_postprocess_incident), one incident after another, *)
(* while processes go on crashing: the device rewrites its files between   *)
(* the listing, the reading of the headers and the pull.                   *)
(*                                                                         *)
(* A trace is [kind, pid, proc, at]; `main' and its sibling `push' are     *)
(* processes of the package.  A pid of 0 in an event is an ANR whose block *)
(* had no PID line.                                                        *)
(***************************************************************************)
EXTENDS Integers, Sequences, FiniteSets, FiniteSetsExt, SequencesExt

CONSTANTS
    Incidents,    \* the sequences of events to dump
    Traces,       \* what the device may write
    DumpFiles,    \* names in the trace directory, naturals
    ZoneShift,    \* how much later file times look when the zone is unknown
    EveryN,       \* evidence_sample_every_n
    MaxWrites     \* bound

\* `other' is any process of another package; "" and "none" are what was not read.
Kinds == {"anr", "native_crash", "java_crash", "process_death", "none"}
TraceType == [kind : Kinds, pid : Nat, proc : {"main", "push", "other", ""}, at : Nat]

\* The directory has finitely many files, and 0 is none of them; no trace is of no kind.
ASSUME DumpAssumption ==
    /\ DumpFiles \subseteq Nat \ {0} /\ IsFiniteSet(DumpFiles)
    /\ Traces \subseteq TraceType /\ \A t \in Traces : t.kind # "none"
    /\ Incidents \subseteq Seq(TraceType)
    /\ {ZoneShift, EveryN, MaxWrites} \subseteq Nat

Threshold == 70
TimeWindow == 60
NewFileSkew == 5
Own == {"main", "push"}
NoTrace == [kind |-> "none", pid |-> 0, proc |-> "", at |-> 0]

VARIABLES
    events,    \* the events of this behaviour; dumping the first
    files,     \* the trace directory
    box,       \* DropBox: [trace, file, whole]
    writes,    \* how many, for the bound, and the device time of the last
    dump,      \* the dump in progress
    cache,     \* CachingDropboxFetcher._cache: what was found for a key
    sampled,   \* EvidenceSampler._counts, of the one fingerprint there is
    published  \* the incidents that were published
dumpVars == <<events, files, box, writes, dump, cache, sampled, published>>

Idle == [pc |-> "idle", zone |-> FALSE, listed |-> <<>>, found |-> 0, trace |-> NoTrace,
         fallback |-> "none", verified |-> FALSE, entry |-> <<>>, full |-> TRUE]

DumpInit ==
    /\ events \in Incidents
    /\ files = [f \in DumpFiles |-> NoTrace] /\ box = {} /\ writes = [count |-> 0, at |-> 0]
    /\ dump = Idle /\ cache = {} /\ sampled = 0 /\ published = <<>>

event == Head(events)

\* The device writes a file and a DropBox entry about it; the entry holds the
\* whole trace or only what became of it, and either may be missing.
DeviceWrites ==
    /\ writes.count < MaxWrites
    /\ \E t \in Traces, f \in DumpFiles, toFile, toBox, whole \in BOOLEAN :
         /\ t.at >= writes.at /\ writes' = [count |-> writes.count + 1, at |-> t.at]
         /\ files' = IF toFile THEN [files EXCEPT ![f] = t] ELSE files
         /\ box' = IF toBox THEN box \cup {[trace |-> t, file |-> f, whole |-> whole]} ELSE box
    /\ UNCHANGED <<events, dump, cache, sampled, published>>

-----------------------------------------------------------------------------
(* match_trace and verify_local_trace *)

If(test, score) == IF test THEN score ELSE 0

\* score_candidate
Score(c) ==
    If(event.pid # 0 /\ c.pid = event.pid, 40) + If(c.proc \in Own, 20)
        + If(c.at - event.at \in -TimeWindow..TimeWindow, 20)
        + If(c.at >= event.at - NewFileSkew, 10)

\* The first of the best candidates, if it reaches the threshold.
Best(cands) ==
    LET top == Max({Score(cands[f]) : f \in DOMAIN cands}) IN
    IF DOMAIN cands = {} \/ top < Threshold THEN 0
    ELSE Min({f \in DOMAIN cands : Score(cands[f]) = top})

\* Mutant of Verified: what was pulled is what was listed.
VerifiedUnread(t) == TRUE

\* The head of the pulled file: what it shows must be the event's; it need not
\* show anything.
Verified(t) == (0 \in {event.pid, t.pid} \/ t.pid = event.pid) /\ t.proc \in Own \cup {""}

-----------------------------------------------------------------------------
(* The dumpers *)

Tracing == event.kind \in {"anr", "native_crash"}

\* A task starts; the device may not tell its time zone.
BeginDump ==
    /\ dump.pc = "idle" /\ events # <<>>
    /\ writes' = [writes EXCEPT !.at = Max({@, event.at})]
    /\ \E zone \in BOOLEAN :
          dump' = [Idle EXCEPT !.zone = zone,
                      !.pc = IF Tracing THEN "list"
                             ELSE IF event.kind = "java_crash" THEN "box" ELSE "decide"]
    /\ UNCHANGED <<events, files, box, cache, sampled, published>>

\* `ls -ln', which a user build denies: names and times, in the zone's time.
ListFiles ==
    /\ dump.pc = "list"
    /\ \E allowed \in BOOLEAN :
         LET there == IF allowed THEN {f \in DumpFiles : files[f] # NoTrace} ELSE {}
             shift == IF dump.zone THEN 0 ELSE ZoneShift IN
         dump' = [dump EXCEPT !.pc = "match",
                     !.listed = [f \in there |->
                        [NoTrace EXCEPT !.at = files[f].at + shift]]]
    /\ UNCHANGED <<events, files, box, writes, cache, sampled, published>>

\* `head' of each file, as it is by now; some cannot be read.
MatchTrace ==
    /\ dump.pc = "match"
    /\ \E readable \in SUBSET DOMAIN dump.listed :
         LET cands == [f \in DOMAIN dump.listed |->
                IF f \in readable THEN [files[f] EXCEPT !.at = dump.listed[f].at]
                ELSE dump.listed[f]] IN
         dump' = [dump EXCEPT !.found = Best(cands),
                     !.pc = IF Best(cands) = 0 THEN "box" ELSE "pull",
                     !.fallback = IF Best(cands) = 0 THEN "no_confident_match" ELSE @]
    /\ UNCHANGED <<events, files, box, writes, cache, sampled, published>>

\* What a pull of f leaves: the file as it is by now, perhaps without its head,
\* if it is verified, or a reason.
Pulled(f, pc, pcOtherwise) ==
    \/ /\ files[f] # NoTrace
       /\ \E t \in {files[f], [files[f] EXCEPT !.pid = 0, !.proc = ""]} :
          dump' = IF Verified(t)
               THEN [dump EXCEPT !.pc = pc, !.trace = t, !.verified = TRUE, !.fallback = "none"]
               ELSE [dump EXCEPT !.pc = pcOtherwise, !.verified = FALSE,
                                 !.fallback = "verification_failed"]
    \/ dump' = [dump EXCEPT !.pc = pcOtherwise, !.fallback = "pull failed"]

PullTrace ==
    /\ dump.pc = "pull"
    /\ Pulled(dump.found, "box", "box")
    /\ UNCHANGED <<events, files, box, writes, cache, sampled, published>>

Key == <<event.kind, event.at>>

Delta(entry) == (IF entry.trace.at > event.at THEN 1 ELSE -1) * (entry.trace.at - event.at)

\* DropboxFetcher.fetch: the nearest entry of the type and the package.
Matching ==
    LET near == {e \in box : e.trace.kind = event.kind /\ e.trace.proc \in Own
                             /\ Delta(e) <= TimeWindow} IN
    {e \in near : \A other \in near : Delta(e) <= Delta(other)}

\* CachingDropboxFetcher.fetch; an answer, also an empty one, is kept for a while.
FetchDropbox ==
    /\ dump.pc = "box"
    /\ \E fresh, answers \in BOOLEAN, found \in IF Matching = {} THEN {<<>>} ELSE {<<e>> : e \in Matching} :
         LET hit == fresh /\ \E c \in cache : c.key = Key
             entry == IF hit THEN (CHOOSE c \in cache : c.key = Key).entry
                      ELSE IF answers THEN found ELSE <<>> IN
         /\ cache' = IF hit THEN cache
                     ELSE {c \in cache : c.key # Key} \cup {[key |-> Key, entry |-> entry]}
         /\ dump' = [dump EXCEPT !.entry = entry,
                        !.pc = IF ~Tracing \/ dump.trace # NoTrace \/ entry = <<>> THEN "decide"
                               ELSE IF event.kind = "anr" THEN "data file" ELSE "recover"]
    /\ UNCHANGED <<events, files, box, writes, sampled, published>>

\* The file that the DropBox entry of an ANR names, as it is by now.
PullDataFile ==
    /\ dump.pc = "data file"
    /\ Pulled(dump.entry[1].file, "decide", "recover")
    /\ UNCHANGED <<events, files, box, writes, cache, sampled, published>>

Recovered(t) == [dump EXCEPT !.pc = "decide", !.trace = t, !.verified = TRUE, !.fallback = "none"]

\* The trace inside the DropBox entry: of an ANR only its own pid and name.
RecoverFromDropbox ==
    /\ dump.pc = "recover"
    /\ LET e == dump.entry[1]  t == e.trace
           own == IF event.kind = "anr" THEN t.pid = event.pid /\ t.proc = event.proc ELSE TRUE IN
       dump' = IF e.whole /\ own /\ Verified(t) THEN Recovered(t)
               ELSE [dump EXCEPT !.pc = "decide"]
    /\ UNCHANGED <<events, files, box, writes, cache, sampled, published>>

-----------------------------------------------------------------------------
(* _postprocess_incident and the publication *)

\* Full evidence for the first of a fingerprint and then every n-th.
Keeps(n) == n = 1 \/ n % EveryN = 0

\* EvidenceSampler.decide
Decide ==
    /\ dump.pc = "decide"
    /\ sampled' = sampled + 1
    /\ dump' = [dump EXCEPT !.pc = "publish", !.full = Keeps(sampled')]
    /\ UNCHANGED <<events, files, box, writes, cache, published>>

\* The task is published, or cancelled and its staging removed.
Finish ==
    /\ dump.pc = "publish"
    /\ \E cancelled \in BOOLEAN :
          published' = Append(published,
              [event |-> event, dump |-> dump, out |-> IF cancelled THEN "cancelled" ELSE "published"])
    /\ events' = Tail(events) /\ dump' = Idle
    /\ UNCHANGED <<files, box, writes, cache, sampled>>

DumpNext ==
    \/ DeviceWrites \/ BeginDump \/ ListFiles \/ MatchTrace \/ PullTrace \/ FetchDropbox
    \/ PullDataFile \/ RecoverFromDropbox \/ Decide \/ Finish

DumpSpec == DumpInit /\ [][DumpNext]_dumpVars

-----------------------------------------------------------------------------
(* Properties *)

Done == Range(published)

\* A bound trace does not name another process life than the one that crashed,
\* whatever was rewritten between listing and pull; of an ANR without PID it is at
\* least the package's.
EvidenceIsOwn ==
    \A i \in Done : i.dump.trace # NoTrace =>
        /\ i.dump.trace.proc \in Own \cup {""}
        /\ i.event.pid # 0 => i.dump.trace.pid \in {0, i.event.pid}

\* With a known time zone, a trace that the directory listing bound is not of an
\* earlier crash under the same pid, once the pid was given again.
TraceNotStale ==
    \A i \in Done : i.dump.trace # NoTrace /\ i.dump.zone /\ i.dump.entry = <<>> =>
        i.dump.trace.at >= i.event.at - TimeWindow

\* An incident says why it has no trace, or it has one that was verified.
FallbackExplains ==
    \A i \in Done : i.event.kind \in {"anr", "native_crash"} =>
        /\ i.dump.trace = NoTrace <=> i.dump.fallback # "none"
        /\ i.dump.verified <=> i.dump.trace # NoTrace

\* The cache never gives a crash the DropBox entry of another one far from it.
DropboxOfThisCrash ==
    \A i \in Done : i.dump.entry # <<>> =>
        LET t == i.dump.entry[1].trace IN
        t.kind = i.event.kind /\ t.at - i.event.at \in -TimeWindow..TimeWindow

\* The evidence of an incident is of its own crash, and what is missing is
\* explained.
EvidenceSound ==
    /\ EvidenceIsOwn /\ TraceNotStale
    /\ FallbackExplains /\ DropboxOfThisCrash
=============================================================================
