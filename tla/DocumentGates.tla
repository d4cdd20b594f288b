----------------------------- MODULE DocumentGates -----------------------------
(***************************************************************************)
(* tools/check_adr_schema.py, tools/check_docs_layout.py and               *)
(* tools/check_baseline_manifest.py: what the three checkers accept of a   *)
(* working tree, and of the checkout that is made from its commit.         *)
(*                                                                         *)
(* .gitignore denies everything it does not list, so a file that is there  *)
(* may not be in the commit.                                               *)
(***************************************************************************)
EXTENDS Naturals, Sequences, SequencesExt

CONSTANTS
    Required,       \* REQUIRED_SECTIONS, in their order
    MaxEdits

\* Markdown files.  Below docs/decision-records: named like a record and directly
\* in the directory of a scope, deeper, outside of the scopes; and named otherwise.
Scoped == {"repo/0001.md", "repo/0002.md"}
Nested == {"repo/old/0003.md"}
Stray  == {"0004.md"}
Index  == "decision-records/README.md"
Plain  == "template/README.md"

\* Elsewhere below docs: its root, a quadrant, another directory.
Readme == "docs/README.md"
Guide  == "docs/how-to/guide.md"
Misplaced == {"docs/notes.md", "docs/diagrams/view.md"}

Decisions == Scoped \cup Nested \cup Stray \cup {Index, Plain}
Files == Decisions \cup {Readme, Guide} \cup Misplaced

\* The record whose text is followed; that of the others is in order.
Draft == "repo/0001.md"

\* Entries of the Authors field: an approved handle, one that only has it as a part
\* (`@nwarila-evil', `somebody and @NWarila'), nothing between two commas, anything else.
Authors == {"approved", "lookalike", "nobody", "other"}
Entries == [source : {Draft, Guide}, target : {"a", "b", "../c"}]

VARIABLES
    files,     \* Markdown files in the working tree
    root,      \* docs/decision-records exists, with or without a file
    tracked,   \* in the index of git
    bom,       \* files that start with a byte order mark
    linked,    \* records that the index of the records links to
    named,     \* directories that docs/README.md names
    heads,     \* second-level headings of the draft, in order
    rows,      \* its table rows for Authors, each with the entries it lists; the two other
               \* fields it must have are not followed, they only have to say something
    manifest,  \* baseline-manifest.json
    git,       \* git ls-files works
    edits,
    promised,  \* the checks that passed on what was committed
    behind,    \* the files that were there then and are not in the commit
    cloned     \* this is a checkout of that commit, as it was made

texts == <<bom, linked, named, heads, rows, manifest>>
vars == <<files, root, tracked, texts, git, edits, promised, behind, cloned>>

Checks == {"adr-schema", "docs-layout", "manifest-check"}

TypeOK ==
    /\ files \subseteq Files /\ tracked \subseteq Files /\ bom \subseteq Files
    /\ linked \subseteq Scoped /\ named \subseteq {"how-to", "decision-records"}
    /\ \A i \in DOMAIN heads : heads[i] \in ToSet(Required)
    /\ \A i \in DOMAIN rows : rows[i] \subseteq Authors
    /\ manifest.version \in {"1", "2"} /\ manifest.keys \in {"1", "2"}
    /\ git \in BOOLEAN /\ cloned \in BOOLEAN /\ root \in BOOLEAN
    /\ edits \in 0 .. MaxEdits
    /\ promised \subseteq Checks /\ behind \subseteq Files

Init ==
    /\ files = {Draft, Index, Plain, Readme, Guide} /\ tracked = files
    /\ root = TRUE /\ bom = {}
    /\ linked = {Draft} /\ named = {"how-to", "decision-records"}
    /\ heads = Required /\ rows = <<{"approved"}>>
    /\ manifest = [version |-> "2", keys |-> "2",
                   byte_identical |-> <<[source |-> Draft, target |-> "a"]>>,
                   scaffold_starter |-> <<>>]
    /\ git \in BOOLEAN
    /\ edits = 0 /\ promised = {} /\ behind = {} /\ cloned = FALSE

-----------------------------------------------------------------------------
(* check_adr_schema.py                                                     *)

FirstAt(h) == CHOOSE i \in DOMAIN heads : heads[i] = h /\ \A j \in 1 .. i - 1 : heads[j] # h

\* Mutant: the sections are looked for and their order is not.
SectionsOk_AnyOrder == ToSet(Required) \subseteq ToSet(heads)

\* The first heading of each name counts, whatever else is in between.
SectionsOk ==
    /\ ToSet(Required) \subseteq ToSet(heads)
    /\ \A i, j \in DOMAIN Required : i < j => FirstAt(Required[i]) < FirstAt(Required[j])

\* metadata_rows: a later row of the same field replaces an earlier one.  The value must not
\* be empty; an approved handle is looked for anywhere in an entry, and an empty entry is
\* passed over, so that a lookalike is accepted, and a comma alone.
AuthorsOk == rows # <<>> /\ Last(rows) # {} /\ "other" \notin Last(rows)

\* Mutant: links to records that are not there are let pass.
IndexOk_NoStale == Index \in files /\ files \cap Scoped \subseteq linked

IndexOk == Index \in files /\ linked = files \cap Scoped

AdrSchemaOk ==
    /\ bom \cap files = {}
    /\ Draft \in files => SectionsOk /\ AuthorsOk
    /\ IndexOk

-----------------------------------------------------------------------------
(* check_docs_layout.py                                                    *)

\* rglob sees every Markdown file below docs.
LayoutOk ==
    /\ files \cap Misplaced = {}
    /\ files \cap Stray = {}
    /\ Readme \in files
    /\ Guide \in files => "how-to" \in named
    /\ root => "decision-records" \in named

-----------------------------------------------------------------------------
(* check_baseline_manifest.py                                              *)

Targets(entries) == {entries[i].target : i \in DOMAIN entries}
Sources == {e.source : e \in ToSet(manifest.byte_identical \o manifest.scaffold_starter)}

\* validate_entries: no path leads out of the repository, no target comes twice.
EntriesOk(entries) ==
    /\ "../c" \notin Targets(entries)
    /\ \A i, j \in DOMAIN entries : entries[i].target = entries[j].target => i = j

\* Version 1 has one list of files, which is not empty; version 2 has two.
ShapeOk ==
    /\ manifest.keys = manifest.version
    /\ manifest.version = "1" => manifest.byte_identical # <<>>
    /\ EntriesOk(manifest.byte_identical) /\ EntriesOk(manifest.scaffold_starter)

\* Mutant: that the sources are there is enough.
ManifestOk_OnDisk ==
    /\ ShapeOk
    /\ Targets(manifest.byte_identical) \cap Targets(manifest.scaffold_starter) = {}
    /\ Sources \subseteq files

\* Without git, what it tracks is not asked.
ManifestOk ==
    /\ ShapeOk
    /\ Targets(manifest.byte_identical) \cap Targets(manifest.scaffold_starter) = {}
    /\ Sources \subseteq files
    /\ git => Sources \subseteq tracked

Passing(c) ==
    CASE c = "adr-schema"  -> AdrSchemaOk
      [] c = "docs-layout" -> LayoutOk
      [] OTHER             -> ManifestOk

-----------------------------------------------------------------------------
(* What happens to a working tree.                                         *)

Toggled(S, x) == IF x \in S THEN S \ {x} ELSE S \cup {x}

Edit ==
    /\ edits < MaxEdits /\ edits' = edits + 1
    /\ promised' = {} /\ behind' = {} /\ cloned' = FALSE /\ UNCHANGED git

\* A file is written or deleted; one that git knows stays in its index until the commit.
EditFile(f) ==
    /\ Edit /\ files' = Toggled(files, f) /\ root' = (root \/ f \in Decisions)
    /\ UNCHANGED <<tracked, texts>>

\* git add of a file that .gitignore lists by now, git rm --cached.
Stage(f) ==
    /\ Edit /\ f \in files
    /\ tracked' = Toggled(tracked, f)
    /\ UNCHANGED <<files, root, texts>>

EditText ==
    /\ Edit /\ UNCHANGED <<files, root, tracked>>
    /\ \/ \E f \in files : bom' = Toggled(bom, f) /\ UNCHANGED <<linked, named>>
       \/ \E f \in Scoped : linked' = Toggled(linked, f) /\ UNCHANGED <<bom, named>>
       \/ \E d \in {"how-to", "decision-records"} :
              named' = Toggled(named, d) /\ UNCHANGED <<bom, linked>>
    /\ UNCHANGED <<heads, rows, manifest>>

EditDraft ==
    /\ Edit /\ UNCHANGED <<files, root, tracked, bom, linked, named, manifest>>
    /\ \/ \E i \in DOMAIN heads : heads' = RemoveAt(heads, i) /\ UNCHANGED rows
       \/ \E i \in 1 .. Len(heads) + 1, h \in ToSet(Required) :
              heads' = InsertAt(heads, i, h) /\ UNCHANGED rows
       \/ \E r \in SUBSET Authors : rows' = Append(rows, r) /\ UNCHANGED heads
       \/ rows # <<>> /\ rows' = Tail(rows) /\ UNCHANGED heads

EditManifest ==
    /\ Edit /\ UNCHANGED <<files, root, tracked, bom, linked, named, heads, rows>>
    /\ \/ \E e \in Entries : \E k \in {"byte_identical", "scaffold_starter"} :
              manifest' = [manifest EXCEPT ![k] = Append(@, e)]
       \/ manifest.byte_identical # <<>>
            /\ manifest' = [manifest EXCEPT !.byte_identical = Tail(@)]
       \/ manifest' = [manifest EXCEPT !.version = IF @ = "1" THEN "2" ELSE "1"]
       \/ manifest' = [manifest EXCEPT !.version = "1", !.keys = "1", !.scaffold_starter = <<>>]

\* git commit -a, and a checkout of the commit: what git does not track stays behind.
Commit ==
    /\ promised' = {c \in Checks : Passing(c)}
    /\ files' = files \cap tracked /\ tracked' = files \cap tracked
    /\ root' = (files \cap tracked \cap Decisions # {})
    /\ behind' = files \ tracked /\ cloned' = TRUE
    /\ UNCHANGED <<texts, git, edits>>

Next ==
    \/ \E f \in Files : EditFile(f) \/ Stage(f)
    \/ EditText \/ EditDraft \/ EditManifest
    \/ Commit

Spec == Init /\ [][Next]_vars

-----------------------------------------------------------------------------
(* Properties.                                                             *)

\* No record is lost on the way into the commit without a word: when both checks of the
\* documents pass where the records were written and pass again in the checkout of the commit,
\* every record of a scope, their index and docs/README.md are in the commit, although neither
\* check asks git.  (Pages of the quadrants, and records deeper in a scope, may be lost.)
NoRecordLeftBehind ==
    cloned /\ {"adr-schema", "docs-layout"} \subseteq promised /\ AdrSchemaOk /\ LayoutOk =>
        behind \cap (Scoped \cup {Index, Readme}) = {}

\* In an accepted record the sections can be read in the order of ADR-0001 and none of them is
\* met before its turn: what stands before the place where a section is read belongs to
\* earlier ones, however headings are repeated and moved.
RecordsSound ==
    AdrSchemaOk /\ Draft \in files =>
        \E at \in [DOMAIN Required -> DOMAIN heads] :
            \A i \in DOMAIN Required :
                /\ heads[at[i]] = Required[i]
                /\ \A k \in 1 .. at[i] - 1 : \E j \in 1 .. i - 1 : heads[k] = Required[j]

\* What manifest-check accepts where git works, it accepts in every checkout of the
\* commit, even if a source was there and ignored.
ManifestSurvivesCommit ==
    cloned /\ git /\ "manifest-check" \in promised => ManifestOk
=============================================================================
