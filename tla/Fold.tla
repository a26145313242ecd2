--------------------------------- MODULE Fold ---------------------------------
(***************************************************************************)
(* `lydite test merge`: the report directories of a matrix's jobs folded   *)
(* into one report (cmd/lydite, merge.go, fold.go and measurements.go).    *)
(* It runs nothing of the repository: the declaration says which           *)
(* components a complete run covers, the directories say what was seen.    *)
(*                                                                         *)
(* A directory has a report that reads or does not, with its rows, and a   *)
(* measurements document: read, torn or absent.  A report may be marked    *)
(* incomplete; no run of the tests marks one.                              *)
(***************************************************************************)
EXTENDS TestReport

Directory(read, rows, doc) == [read |-> read, rows |-> rows, doc |-> doc, incomplete |-> FALSE]

Unreadable == Directory(FALSE, {}, NoDoc)

readRow(k, dir) ==
    Row(<<"read", k>>, IF ~dir.read \/ dir.doc.state = "torn" THEN "fail" ELSE "context", <<>>)

(***************************************************************************)
(* The rows of one label, each with the directory it is from.              *)
(***************************************************************************)
rowsFor(inputs, label) ==
    UNION { {k} \X { r \in inputs[k].rows : r.label = label } : k \in DOMAIN inputs }

labelled(inputs, label) == { found[2] : found \in rowsFor(inputs, label) }

agreed(inputs, label) == Cardinality(labelled(inputs, label)) <= 1

-------------------------------------------------------------------------------
(***************************************************************************)
(* A gate of the whole tree takes one answer, the same in every directory. *)
(***************************************************************************)
testWholeTreeRows == {"orphans", "watch", "select"} \X {0}

foldedWholeTree(inputs, gates) == UNION { labelled(inputs, label) : label \in { l \in gates : agreed(inputs, l) } }

disagreements(inputs, gates) == { label \in gates : ~agreed(inputs, label) }

foldedScheduleRow(inputs) ==
    LET found == labelled(inputs, <<"schedule", 0>>)
    IN  IF found = {} THEN {}
        ELSE {Row(<<"schedule", 0>>, IF Failing(found) THEN "fail" ELSE "pass", <<>>)}

(***************************************************************************)
(* Every component with a suite takes exactly one row of each label;       *)
(* anything else is a problem, and no row is carried.                      *)
(***************************************************************************)
suiteLabels(decl) == {"test", "flaky"} \X decl.suites

carriedOnce(inputs, labels) == { label \in labels : Cardinality(rowsFor(inputs, label)) = 1 }

\* Mutation: only a component that has two rows is a problem.
twice(inputs, labels) == { label \in labels : Cardinality(rowsFor(inputs, label)) > 1 }

uncovered(inputs, labels) == labels \ carriedOnce(inputs, labels)

componentRows(inputs, labels) == UNION { labelled(inputs, label) : label \in carriedOnce(inputs, labels) }

anyCoverageRow(inputs, decl) == \E i \in Components(decl) : rowsFor(inputs, <<"coverage", i>>) # {}

coverageLabels(decl) == {"coverage", "patch", "crap", "floor"} \X decl.suites

foldedCoverage(inputs, decl) ==
    (UNION { labelled(inputs, label) : label \in coverageLabels(decl) }) \cup
    (IF anyCoverageRow(inputs, decl) THEN noSuiteRows(coverageKinds, decl.noSuite) ELSE {})

-------------------------------------------------------------------------------
(***************************************************************************)
(* The documents folded: of one tree or not at all, gated when any is, of  *)
(* a component two of them have the measured entry before a carried one    *)
(* and the first before the rest.                                          *)
(***************************************************************************)
documents(inputs) == { k \in DOMAIN inputs : inputs[k].read /\ inputs[k].doc.state = "read" }

oneTree(inputs) == \A k, l \in documents(inputs) : inputs[k].doc.tree = inputs[l].doc.tree

holding(inputs, i) == { k \in documents(inputs) : i \in DOMAIN inputs[k].doc.components }

foldMeasurements(inputs) ==
    LET held == UNION { DOMAIN inputs[k].doc.components : k \in documents(inputs) }
        entry(k, i) == inputs[k].doc.components[i]
        best(i) == LET measured == { k \in holding(inputs, i) : ~entry(k, i).carried }
                   IN  Min(IF measured # {} THEN measured ELSE holding(inputs, i))
    IN  [gated |-> \E k \in documents(inputs) : inputs[k].doc.gated,
         components |-> [i \in held |-> entry(best(i), i)]]

(***************************************************************************)
(* A component's measurement again, from its entry: the lines as measured, *)
(* before any dip was restored.  One no document has is unmeasured, and    *)
(* unmeasurable when its declaration says so.                              *)
(***************************************************************************)
asMeasurement(e) == [lines |-> IF Counted(e.unanchored) THEN e.unanchored ELSE e.lines,
                     producer |-> e.producer, unmeasurable |-> FALSE]

missing(i, decl) == [lines |-> NoLines, producer |-> "none", unmeasurable |-> i \notin decl.suites \ decl.raw]

foldedMeasurements(folded, decl) ==
    [i \in Components(decl) |-> IF i \in DOMAIN folded THEN asMeasurement(folded[i]) ELSE missing(i, decl)]

(***************************************************************************)
(* The floor is asked only of what this run measured.                      *)
(***************************************************************************)
floorMs(folded, decl) ==
    [i \in Components(decl) |->
        IF i \in DOMAIN folded /\ folded[i].carried THEN [missing(i, decl) EXCEPT !.unmeasurable = FALSE]
                                                    ELSE foldedMeasurements(folded, decl)[i]]

foldedParts(folded) ==
    [i \in { j \in DOMAIN folded : Counted(folded[j].patch) } |->
        [new |-> folded[i].patch, base |-> folded[i].base.lines]]

aboveOf(folded, carried) ==
    [i \in { j \in DOMAIN folded : folded[j].scored /\ folded[j].carried = carried } |-> folded[i].above]

scorable(decl) == Cardinality(decl.suites \ decl.raw)

(***************************************************************************)
(* What `lydite test record` will make of the fold.                        *)
(***************************************************************************)
recordRow(folded, decl) ==
    IF DOMAIN folded = {} \/ (decl.suites \ decl.raw) \ DOMAIN folded # {}
    THEN UnmeasuredRow(<<"record", 0>>)
    ELSE Row(<<"record", 0>>, "context", <<Cardinality(DOMAIN folded)>>)

(***************************************************************************)
(* The repository's rows, composed of the documents' counts as a run over  *)
(* every component composes them of its own.                               *)
(***************************************************************************)
composedOf(folded, gated, decl) ==
    LET ms == foldedMeasurements(folded, decl)
        carried == { i \in DOMAIN folded : folded[i].carried }
        base == [i \in DOMAIN ms |-> IF i \in DOMAIN folded THEN folded[i].base ELSE NoEntry]
    IN  (IF gated THEN ComposedRows(ms, carried, base, foldedParts(folded))
                  ELSE {UngatedComposedRow(ms, carried)}) \cup
        CRAPSummaryRow(scorable(decl), aboveOf(folded, FALSE), aboveOf(folded, TRUE)) \cup
        FloorSummaryRow(floorMs(folded, decl)) \cup {recordRow(folded, decl)}

nothingMeasured(inputs, decl) ==
    (IF anyCoverageRow(inputs, decl) THEN {UnmeasuredRow(<<"coverage", 0>>)} ELSE {}) \cup
    CRAPSummaryRow(scorable(decl), <<>>, <<>>) \cup
    (IF Floor > 0 THEN {UnmeasuredRow(<<"floor", 0>>)} ELSE {})

repositoryRows(inputs, decl) ==
    LET folded == foldMeasurements(inputs)
    IN  CASE documents(inputs) = {} -> nothingMeasured(inputs, decl)
          [] ~oneTree(inputs) -> {Row(<<"record", 0>>, "fail", <<>>)} \cup nothingMeasured(inputs, decl)
          [] OTHER -> composedOf(folded.components, folded.gated, decl)

-------------------------------------------------------------------------------
(***************************************************************************)
(* Rows of labels the fold does not know travel as they are, once when     *)
(* every directory agrees.                                                 *)
(***************************************************************************)
foldedRow(decl) ==
    testWholeTreeRows \cup ({"schedule", "shards", "record", "coverage", "patch", "crap", "floor"} \X {0}) \cup
    ({"test", "flaky", "coverage", "patch", "crap", "floor"} \X Components(decl))

carryUnhandled(inputs, known) ==
    { r \in UNION { inputs[k].rows : k \in DOMAIN inputs } : r.label \notin known }

(***************************************************************************)
(* The fold's own row, last: what does not fold into one run, or, when     *)
(* nothing else failed, the directories that did.                          *)
(***************************************************************************)
uncarriedVerdicts(rows, inputs) ==
    { k \in DOMAIN inputs : ~Failing(rows) /\ inputs[k].read /\ Failing(inputs[k].rows) }

shardsRow(problems) == Row(<<"shards", 0>>, IF problems THEN "fail" ELSE "pass", <<>>)

Merged(inputs, decl) ==
    LET rows == { readRow(k, inputs[k]) : k \in DOMAIN inputs } \cup foldedWholeTree(inputs, testWholeTreeRows) \cup
                foldedScheduleRow(inputs) \cup componentRows(inputs, suiteLabels(decl)) \cup
                noSuiteRows({"test", "flaky"}, decl.noSuite) \cup foldedCoverage(inputs, decl) \cup
                repositoryRows(inputs, decl) \cup carryUnhandled(inputs, foldedRow(decl))
    IN  rows \cup {shardsRow(\/ disagreements(inputs, testWholeTreeRows) # {}
                             \/ uncovered(inputs, suiteLabels(decl)) # {}
                             \/ uncarriedVerdicts(rows, inputs) # {})}
===============================================================================
