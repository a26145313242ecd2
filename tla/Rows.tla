-------------------------------- MODULE Rows ---------------------------------
(***************************************************************************)
(* The rows `lydite test` writes about coverage (internal/test/measure,    *)
(* rows.go and measure.go): what is said of each component's figures, of   *)
(* the repository's, and which of them fail.                               *)
(*                                                                         *)
(* A row's label is the gate and the component's position in the           *)
(* declaration, 0 for a row about the repository; its value is the numbers *)
(* it displays, and the words around them are left out.  A report is the   *)
(* set of its rows.                                                        *)
(***************************************************************************)
EXTENDS Figures, FiniteSets, FiniteSetsExt, Sequences

CONSTANTS Tolerance,        \* coverage.tolerance, in tenths of a point
          PatchTolerance,   \* coverage.patch.tolerance
          Floor             \* coverage.floor; 0 is none

ASSUME FiguresAssumption == {Tolerance, PatchTolerance, Floor} \subseteq Nat

Row(label, status, value) == [label |-> label, status |-> status, value |-> value]

UnmeasuredRow(label) == Row(label, "unmeasured", <<>>)

Failing(rows) == \E r \in rows : r.status = "fail"

NoLines == [covered |-> 0, total |-> 0]

Counted(lines) == lines.total > 0

Sum(lines) == [covered |-> MapThenSumSet(LAMBDA i : lines[i].covered, DOMAIN lines),
               total   |-> MapThenSumSet(LAMBDA i : lines[i].total, DOMAIN lines)]

Numbers(lines) == <<lines.covered, lines.total>>

(***************************************************************************)
(* One component's measurement.  `scored` is whether its functions were;   *)
(* `touched` whether the change has lines in it, `new` the coverable ones  *)
(* of them and how many a test reached.                                    *)
(***************************************************************************)
Measurement == [lines : [covered : Nat, total : Nat], producer : STRING, scorable : BOOLEAN,
                scored : BOOLEAN, above : Nat, touched : BOOLEAN, new : [covered : Nat, total : Nat],
                unmeasurable : BOOLEAN, carryable : BOOLEAN]

Measured(m) == Counted(m.lines)

FromEntry(m, e) == [m EXCEPT !.lines = e.lines, !.producer = e.producer]

(***************************************************************************)
(* An entry of a baseline, and the lines of it a measurement compares with *)
(* ComparableBase: none when another instrument measured it.               *)
(***************************************************************************)
NoEntry == [lines |-> NoLines, producer |-> "none", scored |-> FALSE, above |-> 0]

ComparableBase(m, b) == IF b.producer = m.producer THEN b.lines ELSE NoLines

-------------------------------------------------------------------------------
(***************************************************************************)
(* A figure against the baseline's: new where there is none to compare     *)
(* with, failing when it regressed by more than the tolerance.             *)
(***************************************************************************)
Compared(label, e, b, tolerance, value) ==
    Row(label, CASE ~Counted(b) -> "new"
                 [] Counted(b) /\ RegressedBeyond(e, b, tolerance) -> "fail"
                 [] OTHER -> "pass", value \o Numbers(b))

ComponentRow(i, m, b) ==
    LET label == <<"coverage", i>>
    IN  IF Measured(m) THEN Compared(label, m.lines, ComparableBase(m, b), Tolerance, Numbers(m.lines))
                       ELSE UnmeasuredRow(label)

PatchRow(label, part) == Compared(label, part.new, part.base, PatchTolerance, Numbers(part.new))

(***************************************************************************)
(* The patch rows of the components the change has lines in, and the parts *)
(* the repository's is composed of: the measured ones with a coverable     *)
(* line among them.                                                        *)
(***************************************************************************)
PatchParts(ms, base) ==
    [i \in { j \in DOMAIN ms : ms[j].touched /\ Measured(ms[j]) /\ Counted(ms[j].new) } |->
        [new |-> ms[i].new, base |-> ComparableBase(ms[i], base[i])]]

PatchRows(ms, base) ==
    LET parts == PatchParts(ms, base)
    IN  { PatchRow(<<"patch", i>>, parts[i]) : i \in DOMAIN parts } \cup
        { UnmeasuredRow(<<"patch", i>>) : i \in { j \in DOMAIN ms : ms[j].touched /\ ~Measured(ms[j]) } }

ComposedPatchRow(parts) ==
    LET all == DOMAIN parts
        base == Sum([i \in all |-> parts[i].base])
        comparable == \A i \in all : Counted(parts[i].base)
    IN  PatchRow(<<"patch", 0>>, [new |-> Sum([i \in all |-> parts[i].new]),
                                  base |-> IF comparable THEN base ELSE NoLines])

(***************************************************************************)
(* The figure of the repository: the sum over every component that has     *)
(* lines, fresh ones and carried ones counted apart, of those that could   *)
(* have been measured.                                                     *)
(***************************************************************************)
composing(ms) == { i \in DOMAIN ms : Measured(ms[i]) }

composed(ms) == Sum([i \in composing(ms) |-> ms[i].lines])

gateable(ms) == Cardinality({ i \in DOMAIN ms : ~ms[i].unmeasurable })

composedValue(ms, carried) ==
    Numbers(composed(ms)) \o <<Cardinality(composing(ms) \ carried), Cardinality(carried), gateable(ms)>>

UngatedComposedRow(ms, carried) ==
    IF composing(ms) = {} THEN UnmeasuredRow(<<"coverage", 0>>)
                          ELSE Row(<<"coverage", 0>>, "context", composedValue(ms, carried))

(***************************************************************************)
(* Compared only when the baseline covers every component in the sum: a    *)
(* sum over some of them moves when a component comes or goes.             *)
(***************************************************************************)
ComposedRow(ms, carried, base) ==
    LET comparable == { i \in composing(ms) : Counted(ComparableBase(ms[i], base[i])) }
        baseLines == IF comparable = composing(ms)
                     THEN Sum([i \in comparable |-> base[i].lines]) ELSE NoLines
    IN  IF composing(ms) = {} THEN UnmeasuredRow(<<"coverage", 0>>)
        ELSE Compared(<<"coverage", 0>>, composed(ms), baseLines, Tolerance, composedValue(ms, carried))

ComposedRows(ms, carried, base, parts) ==
    {ComposedRow(ms, carried, base)} \cup (IF DOMAIN parts = {} THEN {} ELSE {ComposedPatchRow(parts)})

-------------------------------------------------------------------------------
(***************************************************************************)
(* The count of functions above the CRAP threshold, which may not rise.    *)
(***************************************************************************)
CRAPRow(i, m, b, gated) ==
    LET label == <<"crap", i>>
    IN  CASE ~m.scorable -> Row(label, "context", <<>>)
          [] m.scorable /\ ~m.scored -> UnmeasuredRow(label)
          [] m.scored /\ ~gated -> Row(label, "context", <<m.above>>)
          [] m.scored /\ gated /\ (~b.scored \/ b.producer # m.producer) -> Row(label, "new", <<m.above>>)
          [] OTHER -> Row(label, IF m.above > b.above THEN "fail" ELSE "pass", <<m.above, b.above>>)

(***************************************************************************)
(* The repository's count, of the components that have a score, their own  *)
(* or a carried one; both are functions from components to counts.         *)
(***************************************************************************)
CRAPSummaryRow(scorable, scored, carried) ==
    LET across == Cardinality(DOMAIN scored) + Cardinality(DOMAIN carried)
        above == MapThenSumSet(LAMBDA i : scored[i], DOMAIN scored) + MapThenSumSet(LAMBDA i : carried[i], DOMAIN carried)
    IN  CASE scorable = 0 -> {}
          [] scorable > 0 /\ across = 0 -> {UnmeasuredRow(<<"crap", 0>>)}
          [] OTHER -> {Row(<<"crap", 0>>, "context", <<above, across, scorable, Cardinality(DOMAIN carried)>>)}

scores(ms) == [i \in { j \in DOMAIN ms : ms[j].scored } |-> ms[i].above]

carriedScores(ms, carried, anchor) ==
    [i \in { j \in carried : ms[j].scorable /\ ~ms[j].scored /\ anchor[j].scored } |-> anchor[i].above]

CRAPSummaryOf(ms, carried, anchor) ==
    CRAPSummaryRow(Cardinality({ i \in DOMAIN ms : ms[i].scorable }), scores(ms),
                   carriedScores(ms, carried, anchor))

(***************************************************************************)
(* The floor is asked of each component by itself.  One that clears it is  *)
(* counted in the summary, which is there only when none is below.         *)
(***************************************************************************)
FloorSummaryRow(ms) ==
    LET asked == { i \in DOMAIN ms : ~ms[i].unmeasurable }
        cleared == { i \in asked : Measured(ms[i]) /\ Meets(ms[i].lines, Floor) }
        below == { i \in asked : Measured(ms[i]) } \ cleared
    IN  CASE Floor = 0 \/ DOMAIN ms = {} \/ below # {} -> {}
          [] Floor > 0 /\ DOMAIN ms # {} /\ below = {} /\ cleared = {} -> {UnmeasuredRow(<<"floor", 0>>)}
          [] OTHER -> {Row(<<"floor", 0>>, "pass", <<Cardinality(cleared), Cardinality(asked)>>)}

FloorRows(ms, summary) ==
    IF Floor = 0 THEN {}
    ELSE { UnmeasuredRow(<<"floor", i>>) : i \in { j \in DOMAIN ms : ~Measured(ms[j]) } } \cup
         { Row(<<"floor", i>>, "fail", Numbers(ms[i].lines)) :
             i \in { j \in DOMAIN ms : Measured(ms[j]) /\ ~Meets(ms[j].lines, Floor) } } \cup
         (IF summary THEN FloorSummaryRow(ms) ELSE {})
===============================================================================
