---------------------------- MODULE LogcatParser ----------------------------
(***************************************************************************)
(* LogcatLineParser (sat/detection.py): a state machine that gathers the   *)
(* lines of a crash into a block and reports the block when another line   *)
(* ends it.  Several processes write to the log, line by line; the parser  *)
(* keeps one open block of each kind.                                      *)
(*                                                                         *)
(* A line is [kind, by, own]: what it says, the process that the line      *)
(* comes from or, for kinds of the system, is about, and whether that is   *)
(* a process of the package.  The parser cannot tell whose a line is that  *)
(* it cannot parse.  Frames and summaries are left out, so are the limits  *)
(* of 400 lines per block and 40 lines per ANR.                            *)
(***************************************************************************)
EXTENDS Integers, Sequences, FiniteSets

CONSTANTS
    Scripts,             \* the writers of the log: each a sequence of lines
    MaxWriters,          \* bound: writers of one behaviour
    MaxUnparseableRun    \* MAX_UNPARSEABLE_RUN

AndroidRuntime == {"FATAL EXCEPTION", "Process:", "Caused by:"}
Line == [kind : STRING, by : Nat, own : BOOLEAN]
OwnCrash(line) == line.own /\ line.kind \in AndroidRuntime

\* A process is of the package or not, and one of the package crashes at most once.
ASSUME ParserAssumption ==
    /\ MaxWriters \in Nat /\ MaxUnparseableRun \in Nat
    /\ \A s \in Scripts : s \in Seq(Line)
    /\ \A s, t \in Scripts : \A i \in DOMAIN s, j \in DOMAIN t :
          /\ s[i].by = t[j].by => s[i].own = t[j].own
          /\ OwnCrash(s[i]) /\ OwnCrash(t[j]) =>
                /\ s = t /\ s[i].by = t[j].by
                /\ s[i].kind = "FATAL EXCEPTION" /\ t[j].kind = "FATAL EXCEPTION" => i = j

\* Of its raw lines a block keeps the processes whose lines it took, and the
\* longest run of lines that could not be parsed.
Closed ==
    [open |-> FALSE, about |-> 0, named |-> FALSE, own |-> FALSE, lines |-> {}, noise |-> 0]

VARIABLES
    pending,   \* what each writer has still to write
    blocks,    \* _java, _native, _anr
    run,       \* _unparseable_run
    emitted,   \* the events that were reported
    ended,     \* the end of the stream was flushed
    crash      \* history: how far the Java block of the package got
parserVars == <<pending, blocks, run, emitted, ended, crash>>

ParserInit ==
    /\ pending = <<>>
    /\ blocks = [java |-> Closed, native |-> Closed, anr |-> Closed]
    /\ run = 0 /\ emitted = <<>> /\ ended = FALSE
    /\ crash = "none"

ChooseWriters ==
    /\ pending = <<>>
    /\ \E ws \in SUBSET Scripts :
          Cardinality(ws) \in 1..MaxWriters /\ pending' = [w \in ws |-> w]
    /\ UNCHANGED <<blocks, run, emitted, ended, crash>>

-----------------------------------------------------------------------------
(* Blocks *)

Event(type, b) ==
    [type |-> type, about |-> b.about, own |-> b.own, lines |-> b.lines, noise |-> b.noise]

\* _finalize_*: an event, if the block names a process of the package.
Finalize(type, b) == IF b.open /\ b.named /\ b.own THEN <<Event(type, b)>> ELSE <<>>

Opened(line) ==
    [open |-> TRUE, about |-> line.by, named |-> FALSE, own |-> FALSE, lines |-> {line.by},
     noise |-> 0]
Absorbed(b, line) == [b EXCEPT !.lines = @ \cup {line.by}]
Named(b, line) == [Absorbed(b, line) EXCEPT !.named = TRUE, !.own = line.own, !.about = line.by]

\* One stage of feed_line: [bs, out, done]; done is its early return.
Stage(bs, out, done) == [bs |-> bs, out |-> out, done |-> done]

\* Mutant of JavaStage: any line but the name goes to the open block, whatever its pid.
JavaStageAnyPid(bs, line) ==
    LET b == bs.java IN
    IF line.kind = "FATAL EXCEPTION"
    THEN Stage([bs EXCEPT !.java = Opened(line)], Finalize("java_crash", b), TRUE)
    ELSE IF line.kind \in AndroidRuntime /\ b.open /\ (line.kind = "Process:" => b.about = line.by)
    THEN Stage([bs EXCEPT !.java = IF line.kind = "Process:" THEN Named(b, line)
                                   ELSE Absorbed(b, line)], <<>>, TRUE)
    ELSE IF line.kind \in AndroidRuntime THEN Stage(bs, <<>>, FALSE)
    ELSE Stage([bs EXCEPT !.java = Closed], Finalize("java_crash", b), FALSE)

\* A block takes the lines of its own pid; another tag, or another FATAL line,
\* ends it, and other AndroidRuntime lines do not.
JavaStage(bs, line) ==
    LET b == bs.java IN
    IF line.kind = "FATAL EXCEPTION"
    THEN Stage([bs EXCEPT !.java = Opened(line)], Finalize("java_crash", b), TRUE)
    ELSE IF line.kind \in AndroidRuntime /\ b.open /\ b.about = line.by
    THEN Stage([bs EXCEPT !.java = IF line.kind = "Process:" THEN Named(b, line)
                                   ELSE Absorbed(b, line)], <<>>, TRUE)
    ELSE IF line.kind \in AndroidRuntime THEN Stage(bs, <<>>, FALSE)
    ELSE Stage([bs EXCEPT !.java = Closed], Finalize("java_crash", b), FALSE)

\* libc opens a block for the package only; a DEBUG line opens one for whomever
\* and `pid:' of another package drops it, with what libc said before.
NativeStage(bs, line) ==
    LET b == bs.native
        open == IF b.open THEN b ELSE Opened(line) IN
    CASE line.kind = "Fatal signal" ->
            Stage(IF line.own THEN [bs EXCEPT !.native = Named(open, line)] ELSE bs, <<>>, FALSE)
      [] line.kind = "pid:" ->
            Stage([bs EXCEPT !.native = IF line.own THEN Named(open, line) ELSE Closed], <<>>, FALSE)
      [] line.kind = "#00 pc" -> Stage([bs EXCEPT !.native = Absorbed(open, line)], <<>>, FALSE)
      [] OTHER -> Stage([bs EXCEPT !.native = Closed], Finalize("native_crash", b), FALSE)

\* The head of an ANR names the process; ActivityManager lines follow it.
AnrStage(bs, line) ==
    LET b == bs.anr IN
    IF line.kind = "ANR in"
    THEN Stage([bs EXCEPT !.anr = Named(Opened(line), line)], Finalize("anr", b), TRUE)
    ELSE IF line.kind = "PID:" /\ b.open
    THEN Stage([bs EXCEPT !.anr = Absorbed(b, line)], <<>>, TRUE)
    ELSE Stage([bs EXCEPT !.anr = Closed], Finalize("anr", b), FALSE)

\* The events buffer: am_anr, am_proc_died and am_kill are events by themselves.
BufferStage(bs, line) ==
    Stage(bs, IF line.kind = "am_proc_died" /\ line.own
              THEN <<Event("process_death", Named(Opened(line), line))>> ELSE <<>>, TRUE)

Then(stage, Next_(_, _), line) ==
    IF stage.done THEN stage
    ELSE LET more == Next_(stage.bs, line) IN Stage(more.bs, stage.out \o more.out, more.done)

\* feed_line, of a line that has the form of a log line.
Parsed(line) ==
    Then(Then(Then(JavaStage(blocks, line), NativeStage, line), AnrStage, line), BufferStage, line)

\* _flush_all_terminators
Flushed ==
    Finalize("java_crash", blocks.java) \o Finalize("native_crash", blocks.native)
        \o Finalize("anr", blocks.anr)
NoBlocks == [b \in DOMAIN blocks |-> Closed]
AnyBlockOpen == \E b \in DOMAIN blocks : blocks[b].open

-----------------------------------------------------------------------------
(* feed_line and flush *)

\* History: what becomes of the Java crash of the package until it is named.
CrashAfter(line, terminates) ==
    LET ends == \/ terminates \/ line.kind = "FATAL EXCEPTION"
                \/ line.kind \notin AndroidRuntime \cup {"garbage"} IN
    IF line.kind = "FATAL EXCEPTION" /\ line.own THEN "headed"
    ELSE IF crash # "headed" THEN crash
    ELSE IF line.kind = "Process:" /\ line.own THEN "named"
    ELSE IF ends THEN "cut" ELSE crash

Tolerated == AnyBlockOpen /\ run < MaxUnparseableRun
WithNoise(b) == IF b.open /\ b.noise < run + 1 THEN [b EXCEPT !.noise = run + 1] ELSE b

FeedParsed(line) ==
    /\ line.kind # "garbage"
    /\ blocks' = Parsed(line).bs
    /\ emitted' = emitted \o Parsed(line).out
    /\ run' = 0
    /\ crash' = CrashAfter(line, FALSE)

\* A few lines that cannot be parsed go to every open block, whoever wrote them;
\* more of them end the blocks.
FeedGarbage(line) ==
    /\ line.kind = "garbage"
    /\ IF Tolerated
       THEN /\ run' = run + 1 /\ UNCHANGED emitted
            /\ blocks' = [b \in DOMAIN blocks |-> WithNoise(blocks[b])]
       ELSE run' = 0 /\ blocks' = NoBlocks /\ emitted' = emitted \o Flushed
    /\ crash' = CrashAfter(line, ~Tolerated)

Feed ==
    /\ ~ended
    /\ \E w \in DOMAIN pending :
         /\ pending[w] # <<>>
         /\ pending' = [pending EXCEPT ![w] = Tail(@)]
         /\ FeedParsed(Head(pending[w])) \/ FeedGarbage(Head(pending[w]))
    /\ UNCHANGED ended

\* The stream ends: at any line, when the run does.
FlushParser ==
    /\ pending # <<>> /\ ~ended /\ ended' = TRUE
    /\ blocks' = NoBlocks /\ emitted' = emitted \o Flushed
    /\ UNCHANGED <<pending, run, crash>>

ParserNext == ChooseWriters \/ Feed \/ FlushParser
ParserSpec == ParserInit /\ [][ParserNext]_parserVars

-----------------------------------------------------------------------------
(* Properties *)

EventsOf(type) == {i \in DOMAIN emitted : emitted[i].type = type}

\* Crashes of other packages are no events, whatever block is open.
OnlyOwnEvents == \A i \in DOMAIN emitted : emitted[i].own

\* A Java crash of the package is reported exactly once, however the lines of
\* others fall between its own, provided none ends its block before the line
\* that names the process; then it is lost.
JavaCrashOnce ==
    ended => Cardinality(EventsOf("java_crash")) = IF crash = "named" THEN 1 ELSE 0

\* Of the lines that tell a process, the evidence of a Java crash has those of
\* the crashing process only.  Lines that tell none may be anybody's: they come
\* in runs of MAX_UNPARSEABLE_RUN at most.
OwnEvidence(e) == e.lines = {e.about} /\ e.noise <= MaxUnparseableRun
JavaEvidenceOwn == \A i \in EventsOf("java_crash") : OwnEvidence(emitted[i])

\* However the lines of several processes interleave, the package's crash is
\* reported once, without the lines of another process that the parser could
\* tell, and with few that it could not; no crash of another package is.
CrashesParsed == OnlyOwnEvents /\ JavaCrashOnce /\ JavaEvidenceOwn
=============================================================================
