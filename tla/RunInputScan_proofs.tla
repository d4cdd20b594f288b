-------------------------- MODULE RunInputScan_proofs --------------------------
(***************************************************************************)
(* Proofs about RunInputScan for files of any length and any indentation.  *)
(***************************************************************************)
EXTENDS RunInputScan, TLAPS

\* Inside a plain script the scanner is active, at most as deep as the key.
PlainActive ==
    block.of = "run" /\ ~nested => active # None /\ active <= block.column

\* Unless a step begins with its run key, the scanner is active only inside a
\* block, and at least as deep as the key of that block.
ActiveInside ==
    active # None /\ ~first => block.of # "none" /\ block.column <= active

Inv == TypeOK /\ PlainActive /\ ActiveInside

LEMMA InitInv == Init => Inv
  <1> SUFFICES ASSUME Init PROVE Inv
    OBVIOUS
  <1>1. line \in Lines
    BY DEF Init
  <1>2. block \in Blocks /\ block.of = "none"
    BY DEF Init, Blocks, NoBlock
  <1> QED
    BY <1>1, <1>2 DEF Init, Inv, TypeOK, PlainActive, ActiveInside

LEMMA LineFacts ==
    ASSUME TypeOK, NEW l \in Lines
    PROVE  /\ l.indent \in Nat /\ l.indent \in Indents /\ l.indent # None
           /\ l.form \in Forms /\ l.dash \in BOOLEAN
           /\ Column(l) \in Nat /\ l.indent <= Column(l)
           /\ ~l.dash => Column(l) = l.indent
           /\ active # None => active \in Nat
           /\ block.column \in Nat /\ block.of \in {"none", "run", "odd run", "key"}
  <1>1. l.indent \in Indents /\ l.form \in Forms /\ l.dash \in BOOLEAN
    BY DEF Lines
  <1>2. l.indent \in Nat /\ l.indent # None
    BY <1>1 DEF Indents, None
  <1>3. active # None => active \in Nat
    BY DEF TypeOK, Indents, None
  <1>4. block.column \in Nat /\ block.of \in {"none", "run", "odd run", "key"}
    BY DEF TypeOK, Blocks
  <1>5. Column(l) \in Nat /\ l.indent <= Column(l) /\ (~l.dash => Column(l) = l.indent)
    BY <1>1, <1>2 DEF Column
  <1> QED
    BY <1>1, <1>2, <1>3, <1>4, <1>5

LEMMA BlockFacts ==
    ASSUME TypeOK, NEW l \in Lines, NEW b, b = BlockAfter(l, block)
    PROVE  /\ b \in Blocks
           /\ Inside(l, block) => b.of = block.of /\ b.column = block.column
           /\ ~Inside(l, block) => /\ b.of = Opens(l)
                                   /\ b.of # "none" => b.column = Column(l)
  <1>1. block \in Blocks /\ l.indent \in Nat /\ Column(l) \in Nat
    BY LineFacts DEF TypeOK
  <1>2. Opens(l) \in {"none", "run", "odd run", "key"}
    BY DEF Opens
  <1>3. CASE Inside(l, block)
    BY <1>1, <1>3 DEF BlockAfter, Blocks
  <1>4. CASE ~Inside(l, block)
    BY <1>1, <1>2, <1>4 DEF BlockAfter, Blocks, NoBlock
  <1> QED
    BY <1>3, <1>4

LEMMA ReadLineInv == ASSUME Inv, NEW l \in Lines, ReadLine(l) PROVE Inv'
  <1>1. TypeOK /\ block' = BlockAfter(l, block)
    BY DEF Inv, ReadLine
  <1>2. /\ l.indent \in Nat /\ l.indent \in Indents /\ l.indent # None
        /\ Column(l) \in Nat /\ l.indent <= Column(l) /\ (~l.dash => Column(l) = l.indent)
        /\ active # None => active \in Nat
        /\ block.column \in Nat /\ block.of \in {"none", "run", "odd run", "key"}
        /\ l.dash \in BOOLEAN
    BY <1>1, LineFacts
  <1>3. /\ block' \in Blocks
        /\ Inside(l, block) => block'.of = block.of /\ block'.column = block.column
        /\ ~Inside(l, block) => /\ block'.of = Opens(l)
                                /\ block'.of # "none" => block'.column = Column(l)
    BY <1>1, BlockFacts
  <1>4. /\ active' = IF l.form = "run |" THEN l.indent ELSE Kept(l)
        /\ Kept(l) = IF active # None /\ l.form # "blank" /\ l.indent <= active
                     THEN None ELSE active
    BY DEF ReadLine, ActiveAfter, Kept
  <1>5. /\ nested' = (Inside(l, block) /\ (nested \/ l.form = "run |"))
        /\ first' = IF l.form = "run |" THEN l.dash ELSE first
    BY DEF ReadLine
  <1>6. TypeOK'
    <2>1. active' \in Indents \cup {None}
      BY <1>1, <1>2, <1>4 DEF TypeOK
    <2>2. nested' \in BOOLEAN /\ first' \in BOOLEAN
      BY <1>1, <1>2, <1>5 DEF TypeOK
    <2>3. flagged' \in BOOLEAN
      BY <1>2 DEF ReadLine, Flags
    <2>4. due' \in BOOLEAN
      BY <1>2 DEF ReadLine, Interpolates
    <2>5. line' \in Lines
      BY DEF ReadLine
    <2> QED
      BY <1>3, <2>1, <2>2, <2>3, <2>4, <2>5 DEF TypeOK
  <1>7. PlainActive'
    <2> SUFFICES ASSUME block'.of = "run", ~nested'
                 PROVE  active' # None /\ active' <= block'.column
      BY DEF PlainActive
    <2>1. CASE Inside(l, block)
      <3>1. l.form # "run |" /\ ~nested /\ block.of = "run"
        BY <1>3, <1>5, <2>1
      <3>2. active # None /\ active <= block.column
        BY <3>1 DEF Inv, PlainActive
      <3>3. l.form = "blank" \/ l.indent > block.column
        BY <2>1 DEF Inside
      <3>0. l.indent \in Nat /\ active \in Nat /\ block.column \in Nat
        BY <1>2, <3>2
      <3>4. l.form # "blank" => ~(l.indent <= active)
        BY ONLY <3>0, <3>2, <3>3
      <3>5. Kept(l) = active
        BY <1>4, <3>4
      <3> QED
        BY <1>3, <1>4, <2>1, <3>1, <3>2, <3>5
    <2>2. CASE ~Inside(l, block)
      <3>1. l.form = "run |"
        BY <1>3, <2>2 DEF Opens
      <3> QED
        BY <1>2, <1>3, <1>4, <2>2, <3>1
    <2> QED
      BY <2>1, <2>2
  <1>8. ActiveInside'
    <2> SUFFICES ASSUME active' # None, ~first'
                 PROVE  block'.of # "none" /\ block'.column <= active'
      BY DEF ActiveInside
    <2>1. CASE l.form = "run |" /\ Inside(l, block)
      <3>1. l.indent > block.column /\ block.of # "none"
        BY <2>1 DEF Inside
      <3>2. active' = l.indent /\ block'.of # "none" /\ block'.column = block.column
        BY <1>3, <1>4, <2>1, <3>1
      <3>0. l.indent \in Nat /\ block.column \in Nat
        BY <1>2
      <3>3. block.column <= l.indent
        BY ONLY <3>0, <3>1
      <3> QED
        BY <3>2, <3>3
    <2>2. CASE l.form = "run |" /\ ~Inside(l, block)
      <3>1. block'.of = "run" /\ ~l.dash
        BY <1>3, <1>5, <2>2 DEF Opens
      <3> QED
        BY <1>2, <1>3, <1>4, <2>2, <3>1
    <2>3. CASE l.form # "run |"
      <3>1. active' = active /\ ~first /\ Kept(l) = active
        BY <1>4, <1>5, <2>3
      <3>2. block.of # "none" /\ block.column <= active
        BY <3>1 DEF Inv, ActiveInside
      <3>3. l.form = "blank" \/ ~(l.indent <= active)
        BY <1>4, <3>1
      <3>0. l.indent \in Nat /\ active \in Nat /\ block.column \in Nat
        BY <1>2, <3>1
      <3>5. l.form = "blank" \/ l.indent > block.column
        BY ONLY <3>0, <3>2, <3>3
      <3>6. Inside(l, block)
        BY <3>2, <3>5 DEF Inside
      <3> QED
        BY <1>3, <3>1, <3>2, <3>6
    <2> QED
      BY <2>1, <2>2, <2>3
  <1> QED
    BY <1>6, <1>7, <1>8 DEF Inv

LEMMA InvHolds == Spec => []Inv
  <1>1. Inv /\ UNCHANGED vars => Inv'
    BY DEF vars, Inv, TypeOK, PlainActive, ActiveInside
  <1>2. Inv /\ [Next]_vars => Inv'
    BY <1>1, ReadLineInv DEF Next
  <1> QED
    BY InitInv, <1>2, PTL DEF Spec

\* Every state of the scanner is well typed.
THEOREM LinesTypeCorrect == Spec => []TypeOK
  <1>1. Inv => TypeOK
    BY DEF Inv
  <1> QED
    BY InvHolds, <1>1, PTL

\* In files of any length every input written `${{ inputs.' is reported in a block script with
\* a known key and header and on the line of a run key, up to a line that looks like one.
THEOREM PlainScriptsReportedHolds == Spec => PlainScriptsReported
  <1>1. Inv /\ [Next]_vars => [ReportsScript]_vars
    <2> SUFFICES ASSUME Inv, Next, Interpolates(line', block), ~Unseen(line')
                 PROVE  flagged'
      BY DEF ReportsScript
    <2> PICK l \in Lines : ReadLine(l)
      BY DEF Next
    <2>0. line' = l
      BY DEF ReadLine
    <2> Interpolates(l, block) /\ ~Unseen(l)
      BY <2>0
    <2>1. /\ l.input = "literal" /\ flagged' = Flags(l)
          /\ IF Inside(l, block) THEN ~nested /\ block.of # "odd run" ELSE l.form # "odd value"
      BY DEF Interpolates, ReadLine, Unseen, Lines, Expressions
    <2>2. CASE ~Inside(l, block)
      BY <2>1, <2>2 DEF Interpolates, Flags
    <2>3. CASE Inside(l, block)
      <3>1. block.of = "run" /\ ~nested
        BY <2>1, <2>3, LineFacts DEF Interpolates, Inside, Inv
      <3>2. active # None /\ active <= block.column
        BY <3>1 DEF Inv, PlainActive
      <3>3. l.indent \in Nat /\ active \in Nat /\ block.column \in Nat
        BY <3>2, LineFacts DEF Inv
      <3>4. l.form = "blank" \/ l.indent > block.column
        BY <2>3 DEF Inside
      <3>5. l.form # "blank" => ~(l.indent <= active)
        BY ONLY <3>2, <3>3, <3>4
      <3>6. Kept(l) = active
        BY <3>5 DEF Kept
      <3> QED
        BY <2>1, <3>2, <3>6 DEF Flags
    <2> QED
      BY <2>2, <2>3
  <1> QED
    BY InvHolds, <1>1, PTL DEF Spec, PlainScriptsReported

\* A wrong report is of the text of another key, or of another key of a step
\* that begins with its run key.
THEOREM OddReportsExplainedHolds == Spec => OddReportsExplained
  <1>1. Inv /\ [Next]_vars => [ReportExplained]_vars
    <2> SUFFICES ASSUME Inv, Next, flagged', ~Inside(line', block), ~first
                 PROVE  due'
      BY DEF ReportExplained
    <2> PICK l \in Lines : ReadLine(l)
      BY DEF Next
    <2>0. line' = l
      BY DEF ReadLine
    <2> ~Inside(l, block)
      BY <2>0
    <2>1. l.input = "literal" /\ (Kept(l) # None \/ l.form = "run value")
      BY DEF ReadLine, Flags
    <2>2. CASE l.form = "run value"
      BY <2>1, <2>2 DEF ReadLine, Interpolates
    <2>3. CASE Kept(l) # None
      <3>1. active # None /\ (l.form = "blank" \/ ~(l.indent <= active))
        BY <2>3 DEF Kept
      <3>2. block.of # "none" /\ block.column <= active
        BY <3>1 DEF Inv, ActiveInside
      <3>3. l.indent \in Nat /\ active \in Nat /\ block.column \in Nat
        BY <3>1, LineFacts DEF Inv
      <3>4. l.form = "blank" \/ l.indent > block.column
        BY ONLY <3>1, <3>2, <3>3
      <3> QED
        BY <3>2, <3>4 DEF Inside
    <2> QED
      BY <2>1, <2>2, <2>3
  <1> QED
    BY InvHolds, <1>1, PTL DEF Spec, OddReportsExplained
=============================================================================
