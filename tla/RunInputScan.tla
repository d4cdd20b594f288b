------------------------------ MODULE RunInputScan ------------------------------
(***************************************************************************)
(* tools/ci/check_workflow_run_inputs.py: the scan of a workflow, line by  *)
(* line, for inputs interpolated into run blocks.                          *)
(*                                                                         *)
(* The scanner follows indentation only.  Beside it this module follows    *)
(* the YAML block scalar a line belongs to, which is what the runner takes *)
(* as the script.  A file of any length is read one line at a time.        *)
(***************************************************************************)
EXTENDS Integers

CONSTANT Deepest     \* the deepest indentation

Indents == 0 .. Deepest

\* Python's None, where an indentation could be.
None == -1

(***************************************************************************)
(* Forms of a line.  A run key that the scanner knows, with a block scalar *)
(* it knows ("run |") or with a script that begins on the line ("run       *)
(* value"); a run key whose block scalar it does not know, for its header  *)
(* (an indentation digit, a comment) or for the way the key is written     *)
(* ("run |2": also `"run": |'); a script that begins on the line of a key  *)
(* it does not know ("odd value": `run : ', `{ run: }').  "key": another   *)
(* key, with a scalar that may go on.  Any text that looks so, inside a    *)
(* scalar, has the same form.  dash: the key is the first of a sequence    *)
(* item ("- run:").  Comments of YAML are left out.                        *)
(***************************************************************************)
Forms == {"blank", "text", "run |", "run |2", "run value", "odd value", "key"}

\* The expression in a line: none, one written `${{ inputs.', or one that is an input as
\* well but not written so (`${{inputs.x}}', `${{ github.event.inputs.x }}').
Expressions == {"none", "literal", "other"}

Lines == [indent : Indents, dash : BOOLEAN, form : Forms, input : Expressions]

\* A blank line has no input, and a block header has none on its own line.
WellFormed(l) ==
    /\ l.form \in {"blank", "run |", "run |2"} => l.input = "none"
    /\ l.form = "blank" => ~l.dash

VARIABLES
    line,       \* the line read last
    active,     \* active_run_indent
    flagged,    \* the line is among the failures
    block,      \* the scalar the next line may belong to
    due,        \* the line interpolates an input into a script
    nested,     \* the scalar has a content line that looks like a run key
    first       \* the last run key was the first of a sequence item

vars == <<line, active, flagged, block, due, nested, first>>

\* A scalar over several lines: a script that the scanner follows, one that it does not, or
\* the value of another key; the column of the key.
Blocks == [of : {"none", "run", "odd run", "key"}, column : Nat]
NoBlock == [of |-> "none", column |-> 0]

TypeOK ==
    /\ line \in Lines
    /\ active \in Indents \cup {None}
    /\ flagged \in BOOLEAN /\ due \in BOOLEAN
    /\ nested \in BOOLEAN /\ first \in BOOLEAN
    /\ block \in Blocks

Init ==
    /\ line \in {l \in Lines : l.form = "text" /\ l.input = "none" /\ ~l.dash}
    /\ active = None
    /\ flagged = FALSE /\ due = FALSE
    /\ nested = FALSE /\ first = FALSE
    /\ block = NoBlock

-----------------------------------------------------------------------------
(* What the file means.                                                    *)

\* Line l belongs to scalar b: it is deeper than the key, however the value is written.
Inside(l, b) == b.of # "none" /\ (l.form = "blank" \/ l.indent > b.column)

Column(l) == IF l.dash THEN l.indent + 2 ELSE l.indent

\* A script that begins on the line of its key, plain or quoted, may go on below it.
Opens(l) ==
    CASE l.form = "run |" -> "run"
      [] l.form \in {"run |2", "run value", "odd value"} -> "odd run"
      [] l.form = "key" -> "key"
      [] OTHER -> "none"

BlockAfter(l, b) ==
    IF Inside(l, b) THEN b
    ELSE IF Opens(l) = "none" THEN NoBlock ELSE [of |-> Opens(l), column |-> Column(l)]

Interpolates(l, b) ==
    /\ l.input # "none"
    /\ IF Inside(l, b) THEN b.of # "key" ELSE l.form \in {"run value", "odd value"}

-----------------------------------------------------------------------------
(* What the scanner does.                                                  *)

\* Mutant: a line as deep as the key does not end the block.
Kept_Deeper(l) ==
    IF active # None /\ l.form # "blank" /\ l.indent < active THEN None ELSE active

\* active_run_indent after the line's indentation is looked at.
Kept(l) ==
    IF active # None /\ l.form # "blank" /\ l.indent <= active THEN None ELSE active

\* Mutant: a run key with its script on the line is not looked at.
Flags_BlockOnly(l) == l.input = "literal" /\ Kept(l) # None

\* The line is appended to failures: for the active block or its own value.
Flags(l) == l.input = "literal" /\ (Kept(l) # None \/ l.form = "run value")

\* RUN_LINE matches a run key anywhere, also inside a block.
ActiveAfter(l) == IF l.form = "run |" THEN l.indent ELSE Kept(l)

ReadLine(l) ==
    /\ WellFormed(l)
    /\ line' = l
    /\ active' = ActiveAfter(l)
    /\ flagged' = Flags(l)
    /\ block' = BlockAfter(l, block)
    /\ due' = Interpolates(l, block)
    /\ nested' = (Inside(l, block) /\ (nested \/ l.form = "run |"))
    /\ first' = (IF l.form = "run |" THEN l.dash ELSE first)

Next == \E l \in Lines : ReadLine(l)

Spec == Init /\ [][Next]_vars

-----------------------------------------------------------------------------
(* Properties.                                                             *)

\* What the scanner does not see in line l, which belongs to a script: an expression that it
\* has no pattern for, a script that it does not follow (the header or key unknown, or the
\* lines after the first of one that began on the line of its key), or the rest of a script
\* with a line that looks like a run key.
Unseen(l) ==
    \/ l.input = "other"
    \/ IF Inside(l, block) THEN nested \/ block.of = "odd run" ELSE l.form = "odd value"

\* The step reports the line it reads if that interpolates into a script and is seen.
ReportsScript ==
    ReadLine(line') /\ Interpolates(line', block) => flagged' \/ Unseen(line')

\* Wherever the line is in the file, and whatever stands around it, the scanner reports an
\* input written `${{ inputs.' in a block script or on the line of a run key: it misses only
\* other expressions and other ways to write key, header and script.
PlainScriptsReported == [][ReportsScript]_vars

\* The step reports no other line than one the scanner may be wrong about.
ReportExplained ==
    ReadLine(line') /\ flagged' => due' \/ Inside(line', block) \/ first

\* What is reported wrongly is the text of another key, or another key of a step
\* that begins with its run key.
OddReportsExplained == [][ReportExplained]_vars
=============================================================================
