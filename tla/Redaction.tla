----------------------------- MODULE Redaction -----------------------------
(***************************************************************************)
(* sat/redaction.py: the redaction of a run directory in place, file by    *)
(* file, and `sat export', which stages the allowed files, redacts and     *)
(* scans them and zips what is staged.  The process may be killed at any   *)
(* step, and exports be repeated with the same target.                     *)
(*                                                                         *)
(* contents[f] is the set of the secrets in a file of kind f: "line", a    *)
(* pattern matches within a line of its text; "split", only over a line    *)
(* break; "key", within a line, in the key of a JSON object.               *)
(***************************************************************************)
EXTENDS Naturals, Sequences, FiniteSets

CONSTANT MaxExports  \* bound on the exports
ASSUME RedactAssumption == MaxExports \in Nat

Secrets == {"line", "split", "key"}
JsonFiles == {"report", "incident", "status"}
TextFiles == {"logcat", "events", "context", "journal", "bookmarks", "self_resource"}
BinaryFiles == {"tombstone"}
JunitFiles == {"junit"}
Files == JsonFiles \cup TextFiles \cup BinaryFiles \cup JunitFiles
Allowed == (JsonFiles \cup TextFiles \cup JunitFiles) \ {"journal"}

\* TEXT_SUFFIXES: no other file of a bundle is redacted or scanned, allowed or not.
\* junit.xml is in the run directory when --junit names it there.
NoTextSuffix == BinaryFiles \cup JunitFiles

Nowhere == [f \in {} |-> {}]

VARIABLES contents,  \* the run directory: the secrets of each file
          broken,    \* the JSON files that cannot be parsed
          inPlace,   \* the next step of redact_output_dir, and whether it failed
          staging,   \* the staging directory beside the target
          target,    \* the zip: what is in it
          exporting, \* the step of the export and whether it is raw
          exports
redactVars == <<contents, broken, inPlace, staging, target, exporting, exports>>

Idle == [step |-> "idle", raw |-> FALSE]

\* Which secrets a file can hold: JSON text and XML attributes have no line breaks in
\* their strings.
Places == {p \in (Files \X Secrets) :
              /\ p[2] = "split" => p[1] \notin JsonFiles \cup JunitFiles
              /\ p[2] = "key" => p[1] \in JsonFiles}

\* Up to two secrets in the run directory.
RedactInit ==
    /\ \E p, q \in Places :
         contents = [f \in Files |-> {s \in Secrets : <<f, s>> \in {p, q}}]
    /\ broken \in {b \in SUBSET {"incident", "status"} : Cardinality(b) <= 1}
    /\ inPlace = [next |-> 1, error |-> FALSE]
    /\ staging = Nowhere
    /\ target = Nowhere
    /\ exporting = Idle
    /\ exports = 0

-----------------------------------------------------------------------------

\* The order of redact_output_dir.
Order == <<"report", "incident", "logcat", "events", "context", "journal", "bookmarks", "status">>

\* A JSON file is redacted value by value; a text file, line by line.
Redacted(f, secrets) == secrets \ {"line"}

\* One file, while nothing is exported: a JSON file that cannot be parsed ends the
\* redaction with an error.
RedactStep ==
    /\ exporting = Idle
    /\ inPlace.next <= Len(Order) /\ ~inPlace.error
    /\ LET f == Order[inPlace.next] IN
       IF f \in broken
       THEN inPlace' = [inPlace EXCEPT !.error = TRUE] /\ UNCHANGED contents
       ELSE /\ inPlace' = [inPlace EXCEPT !.next = @ + 1]
            /\ contents' = [contents EXCEPT ![f] = Redacted(f, @)]
    /\ UNCHANGED <<broken, staging, target, exporting, exports>>

-----------------------------------------------------------------------------
Step(name) == exporting' = [exporting EXCEPT !.step = name]

\* The acknowledged raw export takes every file, a redacted one the allowed.
BeginExport(raw) ==
    /\ exporting = Idle /\ exports < MaxExports
    /\ exports' = exports + 1
    /\ exporting' = [step |-> "stage", raw |-> raw]
    /\ UNCHANGED <<contents, broken, inPlace, staging, target>>

\* Mutant of StagingEmptied: what an export left behind stays.
StagingKept == staging

StagingEmptied == Nowhere

\* shutil.rmtree of what is there, then mkdir.
MakeStaging ==
    /\ exporting.step = "stage"
    /\ staging' = StagingEmptied
    /\ Step("copy")
    /\ UNCHANGED <<contents, broken, inPlace, target, exports>>

CopiedBy(raw) == IF raw THEN Files ELSE Allowed

\* One file is copied, in the order of the directory; after the last the staged
\* text is redacted.
CopyFile ==
    /\ exporting.step = "copy"
    /\ LET missing == CopiedBy(exporting.raw) \ DOMAIN staging IN
       \/ /\ missing # {}
          /\ LET f == CHOOSE g \in missing : TRUE IN
             staging' = [g \in DOMAIN staging \cup {f} |->
                          IF g = f THEN contents[f] ELSE staging[g]]
          /\ UNCHANGED exporting
       \/ /\ missing = {}
          /\ Step(IF exporting.raw THEN "zip" ELSE "redact")
          /\ UNCHANGED staging
    /\ UNCHANGED <<contents, broken, inPlace, target, exports>>

\* All staged text, JSON too, line by line; the journal is replaced by a stub.
RedactStaging ==
    /\ exporting.step = "redact"
    /\ staging' = [f \in DOMAIN staging \cup {"journal"} |->
                     IF f = "journal" THEN {}
                     ELSE IF f \in NoTextSuffix THEN staging[f]
                     ELSE staging[f] \ {"line", "key"}]
    /\ Step("scan")
    /\ UNCHANGED <<contents, broken, inPlace, target, exports>>

\* The scan reads each text file as a whole.
Hits == {f \in DOMAIN staging \ NoTextSuffix : staging[f] # {}}

Aborted == staging' = Nowhere /\ target' = Nowhere

Scan ==
    /\ exporting.step = "scan"
    /\ \/ Hits = {} /\ Step("zip") /\ UNCHANGED <<staging, target>>
       \/ Hits # {} /\ Step("aborted") /\ Aborted
    /\ UNCHANGED <<contents, broken, inPlace, exports>>

\* The zip is opened, which destroys an earlier one, and then complete.
OpenZip ==
    /\ exporting.step = "zip"
    /\ target' = Nowhere
    /\ Step("zipping")
    /\ UNCHANGED <<contents, broken, inPlace, staging, exports>>

CloseZip ==
    /\ exporting.step = "zipping"
    /\ target' = staging
    /\ staging' = Nowhere
    /\ Step("published")
    /\ UNCHANGED <<contents, broken, inPlace, exports>>

ExportEnds ==
    /\ exporting.step \in {"published", "aborted"}
    /\ exporting' = Idle
    /\ UNCHANGED <<contents, broken, inPlace, staging, target, exports>>

ExportKilled ==
    /\ exporting.step \notin {"idle", "published", "aborted"}
    /\ exporting' = Idle
    /\ UNCHANGED <<contents, broken, inPlace, staging, target, exports>>

RedactNext ==
    \/ RedactStep
    \/ \E raw \in BOOLEAN : BeginExport(raw)
    \/ MakeStaging \/ CopyFile \/ RedactStaging \/ Scan
    \/ OpenZip \/ CloseZip \/ ExportEnds \/ ExportKilled

RedactSpec == RedactInit /\ [][RedactNext]_redactVars

-----------------------------------------------------------------------------
\* A redacted bundle holds only allowed files and a journal without lines, no text
\* file with a secret the patterns know, whatever an export that was killed, a raw one
\* too, left in the staging directory (redaction.py:224-324). A JUnit file is allowed
\* but not taken for text: what it holds is in the bundle.
BundleClean ==
    (exporting.step = "published" /\ ~exporting.raw) =>
        /\ DOMAIN target \subseteq Allowed \cup {"journal"}
        /\ \A f \in DOMAIN target \ JunitFiles : target[f] = {}

\* An export that fails for a secret leaves no product, not even the zip of an
\* earlier export (redaction.py:239, "any canary hit deletes the zip and raises").
AbortLeavesNothing ==
    exporting.step = "aborted" => staging = Nowhere /\ target = Nowhere

\* Redaction in place that ends without error leaves no secret within a line or in a
\* JSON value (redaction.py:62-152), but for three kinds of files it does not open: the
\* binary evidence, self_resource.jsonl and the JUnit file.
RunDirectoryRedacted ==
    (inPlace.next > Len(Order) /\ ~inPlace.error) =>
        \A f \in Files \ (NoTextSuffix \cup {"self_resource"}) : "line" \notin contents[f]

\* No text file of a bundle, and none that was redacted in place with success, has a
\* secret the patterns know; an export that stops leaves no bundle.
SecretsKept == BundleClean /\ AbortLeavesNothing /\ RunDirectoryRedacted
=============================================================================
