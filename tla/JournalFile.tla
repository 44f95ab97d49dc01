---------------------------- MODULE JournalFile ----------------------------
(***************************************************************************)
(* The text of incident_journal.jsonl (sat/journal.py): what a kill in the *)
(* middle of an append leaves, what a later run on the same directory      *)
(* makes of it, and what read_journal gets back.  The text of a record is  *)
(* not escaped (ensure_ascii=False): a kill may cut one of its characters, *)
(* and it may hold a character that splitlines() takes for a line's end.   *)
(*                                                                         *)
(* A line of the file is a sequence of pieces: a record that was written   *)
(* whole, by its number, or the torn beginning of one, by its negative.    *)
(***************************************************************************)
EXTENDS Integers, Sequences, FiniteSets

CONSTANTS MaxAppends, MaxJournalKills

ASSUME JournalFileAssumption == {MaxAppends, MaxJournalKills} \subseteq Nat

VARIABLES
    text,      \* the lines of the file
    ended,     \* the last line has its newline
    appends,   \* records handed to append() so far
    acked,     \* history: records whose append() returned
    firsts,    \* history: records that were the first after a kill
    fresh,     \* the process has not appended yet
    journalKills,
    split,     \* records whose text holds a U+2028, U+2029 or U+0085
    cut        \* records torn inside a character
journalFileVars == <<text, ended, appends, acked, firsts, fresh, journalKills, split, cut>>

JournalFileInit ==
    /\ text = <<>> /\ ended = TRUE
    /\ appends = 0 /\ acked = {} /\ firsts = {} /\ fresh = FALSE /\ journalKills = 0
    /\ split = {} /\ cut = {}

\* The file after writing a piece: behind a line without newline it joins it.
Written(piece) ==
    IF ended THEN Append(text, <<piece>>)
             ELSE [text EXCEPT ![Len(text)] = Append(@, piece)]

\* Mutant of AppendLine: the record stays in the buffer of the file object.
AppendLineUnflushed ==
    /\ appends < MaxAppends /\ appends' = appends + 1
    /\ \/ text' = Written(appends + 1) /\ ended' = TRUE
       \/ UNCHANGED <<text, ended>>
    /\ acked' = acked \cup {appends + 1}
    /\ firsts' = IF fresh THEN firsts \cup {appends + 1} ELSE firsts
    /\ fresh' = FALSE
    /\ UNCHANGED <<journalKills, split, cut>>

\* append(): one line, flushed before it returns.
AppendLine ==
    /\ appends < MaxAppends /\ appends' = appends + 1
    /\ text' = Written(appends + 1) /\ ended' = TRUE
    /\ acked' = acked \cup {appends + 1}
    /\ firsts' = IF fresh THEN firsts \cup {appends + 1} ELSE firsts
    /\ fresh' = FALSE
    /\ split' \in {split, split \cup {appends + 1}}
    /\ UNCHANGED <<journalKills, cut>>

\* A kill inside append(): nothing, a part, or all but the newline is written.
\* The next run opens the file to append.
KillInAppend ==
    /\ appends < MaxAppends /\ appends' = appends + 1
    /\ journalKills < MaxJournalKills /\ journalKills' = journalKills + 1
    /\ \/ UNCHANGED <<text, ended, split, cut>>
       \/ /\ text' = Written(appends + 1) /\ ended' = FALSE
          /\ split' \in {split, split \cup {appends + 1}} /\ UNCHANGED cut
       \/ /\ text' = Written(-(appends + 1)) /\ ended' = FALSE
          /\ cut' \in {cut, cut \cup {appends + 1}} /\ UNCHANGED split
    /\ fresh' = TRUE
    /\ UNCHANGED <<acked, firsts>>

JournalFileNext == AppendLine \/ KillInAppend

JournalFileSpec == JournalFileInit /\ [][JournalFileNext]_journalFileVars

-----------------------------------------------------------------------------
(* read_journal *)

\* The text is decoded as a whole: with half a character in it, read_text raises a
\* UnicodeDecodeError, which read_journal and its callers let pass.
Decodes == cut = {}

\* json.loads takes a line that is one whole record, and splitlines() left whole.
Parses(line) == Len(line) = 1 /\ line[1] > 0 /\ line[1] \notin split

ReadRecords ==
    IF Decodes THEN {text[i][1] : i \in {j \in DOMAIN text : Parses(text[j])}} ELSE {}

\* The damaged lines: the last is `truncated', any other `invalid'.
Warnings == IF Decodes THEN {i \in DOMAIN text : ~Parses(text[i])} ELSE {}

-----------------------------------------------------------------------------
(* Properties *)

Missing == acked \ ReadRecords

\* A record whose append() returned is read back, unless its text splits its line; only
\* the first one after a kill may be lost, with the line it was joined to.
KillCostsOneRecord ==
    Missing \ split \subseteq firsts /\ Cardinality(Missing \ split) <= journalKills

\* What is lost is reported: the report of such a journal is degraded.
LossIsWarned == Missing # {} => Warnings # {}

\* A kill costs the journal one record that was acknowledged, and the reader says
\* so, unless it cut a character: then no record is read, in any later run either,
\* against journal.py:14-16 and 124-126 (earlier complete events are recovered).
JournalSurvives == Decodes => KillCostsOneRecord /\ LossIsWarned
=============================================================================
