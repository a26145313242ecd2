------------------------------ MODULE TestReport ------------------------------
(***************************************************************************)
(* What one `lydite test` leaves in its report directory: the rows of      *)
(* test.json and the candidate baseline of measurements.json (stages/test, *)
(* run.go, flaky.go, coverage.go and candidate.go).  The same code runs in *)
(* a job of a matrix, narrowed to the components it is named, and without  *)
(* one, over all of them.                                                  *)
(*                                                                         *)
(* How the suites came to what they came to is TestRun's; here each        *)
(* component has a profile, what its suite and its instruments answered.   *)
(***************************************************************************)
EXTENDS Rows

(***************************************************************************)
(* The declaration: the positions of its components with a suite, of the   *)
(* ones without, and of those whose suite is a raw command.                *)
(***************************************************************************)
Declaration == [suites : SUBSET Nat, noSuite : SUBSET Nat, raw : SUBSET Nat]

Components(decl) == decl.suites \cup decl.noSuite

(***************************************************************************)
(* The answers of one component's run, and its entry in the baseline the   *)
(* run reads: of the merge-base, or, for a branch that is its own, of the  *)
(* tree before it.                                                         *)
(***************************************************************************)
Profile == [suite : {"passed", "failed", "unselected"}, lines : [covered : Nat, total : Nat],
            touched : BOOLEAN, new : [covered : Nat, total : Nat],
            scored : BOOLEAN, above : Nat,
            base : [lines : [covered : Nat, total : Nat], producer : {"now", "before", "none"},
                    scored : BOOLEAN, above : Nat]]

(***************************************************************************)
(* --no-coverage, no --gate-coverage, a base that could not be read, HEAD  *)
(* its own merge-base, a comparison with the merge-base.                   *)
(***************************************************************************)
Mode == {"off", "ungated", "not gated", "own base", "gated"}

-------------------------------------------------------------------------------
(***************************************************************************)
(* Measured only when the suite passed; a raw command has no instrumented  *)
(* variant to be measured by.  One that was not selected carries the       *)
(* baseline's figure.                                                      *)
(***************************************************************************)
measurement(i, p, decl) ==
    LET raw == i \in decl.raw
        blank == [lines |-> NoLines, producer |-> "none", scorable |-> ~raw, scored |-> FALSE, above |-> 0,
                  touched |-> p.touched /\ ~raw, new |-> NoLines, unmeasurable |-> FALSE, carryable |-> FALSE]
    IN  CASE p.suite = "passed" /\ raw -> [blank EXCEPT !.unmeasurable = TRUE]
          [] p.suite = "passed" /\ ~raw /\ Counted(p.lines) ->
                [blank EXCEPT !.lines = p.lines, !.producer = "now", !.new = p.new,
                              !.scored = p.scored, !.above = p.above]
          [] p.suite = "unselected" -> [blank EXCEPT !.carryable = TRUE]
          [] OTHER -> blank

testRow(i, p) ==
    Row(<<"test", i>>, CASE p.suite = "passed" -> "pass"
                         [] p.suite = "failed" -> "fail"
                         [] OTHER -> "unmeasured", <<>>)

scheduleRow(S, interrupted) ==
    IF S = {} THEN {} ELSE {Row(<<"schedule", 0>>, IF interrupted THEN "fail" ELSE "pass", <<Cardinality(S)>>)}

noSuiteRows(kinds, S) == { UnmeasuredRow(label) : label \in kinds \X S }

coverageKinds == {"coverage", "crap"} \cup (IF Floor > 0 THEN {"floor"} ELSE {})

-------------------------------------------------------------------------------
(***************************************************************************)
(* Nothing is compared; `composing` is false for a job, which does not     *)
(* have the repository's components.                                       *)
(***************************************************************************)
ungatedRows(ms, whole) ==
    { IF Measured(ms[i]) THEN Row(<<"coverage", i>>, "context", Numbers(ms[i].lines))
                         ELSE UnmeasuredRow(<<"coverage", i>>) : i \in DOMAIN ms } \cup
    { CRAPRow(i, ms[i], NoEntry, FALSE) : i \in DOMAIN ms } \cup
    (IF whole THEN {UngatedComposedRow(ms, {})} \cup CRAPSummaryOf(ms, {}, <<>>) ELSE {})

carriedBy(ms, base) ==
    { i \in DOMAIN ms : ~Measured(ms[i]) /\ ms[i].carryable /\ Counted(base[i].lines) }

gatedRows(ms, base, whole) ==
    LET carried == carriedBy(ms, base)
        current == [i \in DOMAIN ms |-> IF i \in carried THEN FromEntry(ms[i], base[i]) ELSE ms[i]]
    IN  { ComponentRow(i, ms[i], base[i]) : i \in DOMAIN ms } \cup
        { CRAPRow(i, ms[i], base[i], TRUE) : i \in DOMAIN ms } \cup
        PatchRows(ms, base) \cup
        (IF whole THEN ComposedRows(current, carried, base, PatchParts(ms, base)) \cup
                       CRAPSummaryOf(ms, carried, base)
                  ELSE {})

coverageRows(mode, ms, base, whole) ==
    CASE mode = "off" -> {}
      [] mode = "ungated" -> ungatedRows(ms, whole) \cup FloorRows(ms, whole) \cup
                             {Row(<<"baseline", 0>>, "context", <<0>>)}
      [] mode = "not gated" -> ungatedRows(ms, whole) \cup FloorRows(ms, whole) \cup
                             {Row(<<"baseline", 0>>, "fail", <<>>)}
      [] mode = "own base" -> ungatedRows(ms, whole) \cup FloorRows(ms, whole) \cup
                             {Row(<<"baseline", 0>>, "context", <<1>>)}
      [] mode = "gated" -> gatedRows(ms, base, whole) \cup FloorRows(ms, whole)

-------------------------------------------------------------------------------
(***************************************************************************)
(* The candidate baseline.  A tolerated dip is recorded at the baseline's  *)
(* percentage, the lines as measured beside it; a component that was not   *)
(* selected is carried; the entry it was compared with goes along when the *)
(* same instrument made it, and so do its lines of the patch and its CRAP. *)
(***************************************************************************)
NoDoc == [state |-> "absent", tree |-> 0, gated |-> FALSE, components |-> <<>>]

restored(e, b) ==
    IF b.producer = e.producer /\ Counted(b.lines) /\ ToleratedDip(e.lines, b.lines, Tolerance)
    THEN [covered |-> AtPercentOf(b.lines, e.lines.total), total |-> e.lines.total]
    ELSE e.lines

\* Mutation: the component is written as the gate compared it, not as measured.
asRecorded(raw, kept) == NoLines

unanchored(raw, kept) == IF raw = kept THEN NoLines ELSE raw

candidateThisTree(tree, ms, anchor, gated) ==
    LET carried == carriedBy(ms, anchor)
        recorded == composing(ms) \cup carried
        parts == IF gated THEN PatchParts(ms, anchor) ELSE <<>>
        entry(i) == IF i \in carried THEN FromEntry(ms[i], anchor[i]) ELSE ms[i]
        kept(i) == restored(entry(i), anchor[i])
        scoreOf(i) == IF i \in carried THEN anchor[i] ELSE ms[i]
    IN  [state |-> "read", tree |-> tree, gated |-> gated /\ recorded # {},
         components |-> [i \in recorded |->
            [lines      |-> kept(i),
             unanchored |-> unanchored(entry(i).lines, kept(i)),
             producer   |-> entry(i).producer,
             carried    |-> i \in carried,
             patch      |-> IF i \in DOMAIN parts THEN parts[i].new ELSE NoLines,
             base       |-> IF gated /\ Counted(ComparableBase(entry(i), anchor[i])) THEN anchor[i] ELSE NoEntry,
             scored     |-> scoreOf(i).scored,
             above      |-> scoreOf(i).above]]]

Candidate(tree, mode, ms, base) ==
    IF mode \in {"own base", "gated"} THEN candidateThisTree(tree, ms, base, mode = "gated") ELSE NoDoc

-------------------------------------------------------------------------------
(***************************************************************************)
(* A run over `own`, of which the components with a suite have a profile.  *)
(* Interrupted, it withdraws the failures among its rows, and neither the  *)
(* flaky gate nor the coverage stage is reached.  What the gates over the  *)
(* whole tree say is one value, `seen`.                                    *)
(***************************************************************************)
wholeTreeRows(run) ==
    { Row(<<gate, 0>>, "pass", <<run.seen>>) :
        gate \in {"orphans", "watch"} \cup (IF run.affected THEN {"select"} ELSE {}) }

RunReport(run, decl, own, picked, narrowed) ==
    LET suites == own \cap decl.suites
        ms == [i \in suites |-> measurement(i, picked[i], decl)]
        base == [i \in suites |-> picked[i].base]
        none == own \cap decl.noSuite
        selected == { i \in suites : picked[i].suite # "unselected" }
    IN  wholeTreeRows(run) \cup scheduleRow(selected, run.interrupted) \cup
        noSuiteRows({"test"}, none) \cup
        IF run.interrupted
        THEN { IF picked[i].suite = "failed" THEN UnmeasuredRow(<<"test", i>>) ELSE testRow(i, picked[i]) : i \in suites }
        ELSE { testRow(i, picked[i]) : i \in suites } \cup
             { Row(<<"flaky", i>>, "context", <<>>) : i \in suites } \cup noSuiteRows({"flaky"}, none) \cup
             coverageRows(run.mode, ms, base, ~narrowed) \cup
             (IF run.mode = "off" THEN {} ELSE noSuiteRows(coverageKinds, none)) \cup
             (IF run.mode \in {"own base", "gated"} THEN {Row(<<"record", 0>>, "context", <<>>)} ELSE {})

RunCandidate(run, decl, own, picked) ==
    LET suites == own \cap decl.suites
    IN  IF run.interrupted THEN NoDoc
        ELSE Candidate(run.tree, run.mode, [i \in suites |-> measurement(i, picked[i], decl)],
                       [i \in suites |-> picked[i].base])
===============================================================================
