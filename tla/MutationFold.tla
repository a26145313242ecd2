----------------------------- MODULE MutationFold -----------------------------
(***************************************************************************)
(* What one `lydite mutation` leaves in its report directory, the rows of  *)
(* mutation.json and the counts of mutants.json, and what `lydite mutation *)
(* merge` makes of a matrix's directories (cmd/lydite, mutation.go and     *)
(* mutation_merge.go; internal/mutation, counts.go).                       *)
(*                                                                         *)
(* How the mutants came to their verdicts is MutationRun's; here each      *)
(* component has an outcome.  A row's value is <<killed, total>>, followed *)
(* by <<measured, wanted>> when the deadline stopped the component, with   *)
(* <<0, 0>> for a score the row does not state.                            *)
(***************************************************************************)
EXTENDS Fold

(***************************************************************************)
(* "unmeasurable" is every kind whose row is unmeasured whatever happened  *)
(* to the run, "unplanned" a plan that could not be made and "blocked"     *)
(* every failure of a planned component before a mutant ran.               *)
(* `teardown` is whether the component's teardown failed, whatever became  *)
(* of it; a fact a kind does not name is zero.                             *)
(***************************************************************************)
OutcomeKind == {"unselected", "off", "unplanned", "blocked", "unmeasurable", "not run",
                "baseline interrupted", "completed", "incomplete"}

denominator(o) == o.killed + o.survived

ComponentOutcome ==
    { o \in [kind : OutcomeKind, killed : Nat, survived : Nat, measured : Nat, wanted : Nat, teardown : BOOLEAN] :
        o.kind \notin {"completed", "incomplete"} => denominator(o) = 0 }

progress(o) == <<o.measured, o.wanted>>

(***************************************************************************)
(* A survivor fails a component whose mutants ran; with no mutant that     *)
(* says anything of the suite it is unmeasured.  --no-gate takes the vote  *)
(* from both of its answers.                                               *)
(***************************************************************************)
mutationRow(label, o) ==
    IF denominator(o) = 0 THEN UnmeasuredRow(label)
                    ELSE Row(label, IF o.survived > 0 THEN "fail" ELSE "pass", <<o.killed, denominator(o)>>)

completedRow(row, noGate) ==
    IF noGate /\ row.status \in {"pass", "fail"} THEN [row EXCEPT !.status = "context"] ELSE row

incompleteRow(label, o, noGate) ==
    IF o.survived > 0 THEN [completedRow(mutationRow(label, o), noGate) EXCEPT !.value = @ \o progress(o)]
                      ELSE Row(label, "unmeasured", <<0, 0>> \o progress(o))

kindRow(i, o, noGate) ==
    LET label == <<"mutation", i>>
    IN  CASE o.kind = "completed" -> completedRow(mutationRow(label, o), noGate)
          [] o.kind = "incomplete" -> incompleteRow(label, o, noGate)
          [] o.kind \in {"unplanned", "blocked"} -> Row(label, "fail", <<>>)
          [] o.kind = "off" -> Row(label, "context", <<>>)
          [] OTHER -> UnmeasuredRow(label)

(***************************************************************************)
(* A failed teardown takes the row of a measurement that found nothing.    *)
(***************************************************************************)
teardownFailureReplaces(kind, status) ==
    \/ kind = "incomplete" /\ status = "unmeasured"
    \/ status \in {"pass", "context"}

outcomeRow(i, o, noGate) ==
    LET row == kindRow(i, o, noGate)
    IN  IF o.teardown /\ teardownFailureReplaces(o.kind, row.status)
        THEN Row(row.label, "fail", IF o.kind = "incomplete" THEN <<0, 0>> \o progress(o) ELSE <<>>)
        ELSE row

-------------------------------------------------------------------------------
(***************************************************************************)
(* An interrupted run withdraws every verdict of a scheduled component     *)
(* that fails when it gates, with --no-gate too, and records none of them. *)
(***************************************************************************)
withdrawn(job, i, o) == job.interrupted /\ o.kind # "unplanned" /\ outcomeRow(i, o, FALSE).status = "fail"

reportedRow(job, i, o) ==
    IF withdrawn(job, i, o) THEN UnmeasuredRow(<<"mutation", i>>) ELSE outcomeRow(i, o, job.noGate)

kept(job, outcomes) ==
    { i \in DOMAIN outcomes : outcomes[i].kind \in {"completed", "incomplete"} /\ ~withdrawn(job, i, outcomes[i]) }

deadlineStopped(o) == o.kind \in {"not run", "baseline interrupted"}

leftIncomplete(job, outcomes) ==
    \E i \in DOMAIN outcomes : \/ outcomes[i].kind = "incomplete"
                               \/ job.deadline /\ deadlineStopped(outcomes[i])

mutationScheduleRow(job, incomplete) ==
    Row(<<"schedule", 0>>, CASE job.interrupted -> "fail"
                             [] ~job.interrupted /\ incomplete -> "unmeasured"
                             [] OTHER -> "pass", <<>>)

sumOf(counts) == <<MapThenSumSet(LAMBDA i : counts[i].killed, DOMAIN counts),
                   MapThenSumSet(LAMBDA i : denominator(counts[i]), DOMAIN counts)>>

counted(outcomes, S) == [i \in S |-> outcomes[i]]

mutationSummaryRow(job, outcomes) ==
    LET ran == { i \in kept(job, outcomes) : outcomes[i].kind = "completed" }
    IN  Row(<<"mutation", 0>>, "context", sumOf(counted(outcomes, ran)) \o <<Cardinality(ran)>>)

(***************************************************************************)
(* A run over some of the components writes no summary: the figure is of   *)
(* the repository.                                                         *)
(***************************************************************************)
MutationRows(job, decl, own, outcomes, narrowed) ==
    (IF job.affected THEN {Row(<<"select", 0>>, "pass", <<job.seen>>)} ELSE {}) \cup
    {mutationScheduleRow(job, leftIncomplete(job, outcomes))} \cup
    { reportedRow(job, i, outcomes[i]) : i \in DOMAIN outcomes } \cup
    noSuiteRows({"mutation"}, own \cap decl.noSuite) \cup
    (IF narrowed THEN {} ELSE {mutationSummaryRow(job, outcomes)})

(***************************************************************************)
(* The counts of the verdicts that stand, those of a component that was    *)
(* stopped apart from the complete ones.  A run that mutated nothing       *)
(* writes the document too.                                                *)
(***************************************************************************)
NoCounts == [state |-> "absent", tree |-> 0, complete |-> <<>>, incomplete |-> <<>>]

countsOf(job, outcomes) ==
    LET of(kind) == { i \in kept(job, outcomes) : outcomes[i].kind = kind }
    IN  [state |-> "read", tree |-> job.tree, complete |-> counted(outcomes, of("completed")),
         incomplete |-> counted(outcomes, of("incomplete"))]

MutationDirectory(job, decl, own, outcomes) ==
    [Directory(TRUE, MutationRows(job, decl, own, outcomes, TRUE), countsOf(job, outcomes))
        EXCEPT !.incomplete = leftIncomplete(job, outcomes)]

-------------------------------------------------------------------------------
(***************************************************************************)
(* The counts of one tree folded, or none.  A component is incomplete when *)
(* any document says so, and of two entries the first is kept.             *)
(***************************************************************************)
FoldCounts(inputs) ==
    LET first(i, key) == Min({ k \in documents(inputs) : i \in DOMAIN inputs[k].doc[key] })
        named(key) == UNION { DOMAIN inputs[k].doc[key] : k \in documents(inputs) }
        folded(S, key) == [i \in S |-> inputs[first(i, key)].doc[key][i]]
    IN  IF ~oneTree(inputs) THEN NoCounts
        ELSE [NoCounts EXCEPT !.complete = folded(named("complete") \ named("incomplete"), "complete"),
                              !.incomplete = folded(named("incomplete"), "incomplete")]

rowIncomplete(row) == Len(row.value) = 4

(***************************************************************************)
(* A row that passes beside counts that say the component did not finish.  *)
(***************************************************************************)
neverPassing(row, counts) ==
    IF row.status = "pass" /\ row.label[1] = "mutation" /\ row.label[2] \in DOMAIN counts.incomplete
    THEN Row(row.label, "unmeasured", <<0, 0>> \o progress(counts.incomplete[row.label[2]]))
    ELSE row

neverPassingIncomplete(inputs, counts) ==
    [k \in DOMAIN inputs |-> [inputs[k] EXCEPT !.rows = { neverPassing(r, counts) : r \in @ }]]

mutationLabels(decl) == {"mutation"} \X decl.suites

mutationWholeTreeRows == {<<"select", 0>>}

foldedMutationLabel(decl) ==
    mutationWholeTreeRows \cup {<<"schedule", 0>>, <<"shards", 0>>, <<"mutation", 0>>} \cup
    {"mutation"} \X Components(decl)

(***************************************************************************)
(* The scores summed: a component's counts, or, where no document that was *)
(* read has it, what its rows state.  One that did not finish is left out  *)
(* and counted at the end.                                                 *)
(***************************************************************************)
stated(inputs, counts, decl) ==
    UNION { rowsFor(inputs, <<"mutation", i>>) :
              i \in Components(decl) \ (DOMAIN counts.complete \cup DOMAIN counts.incomplete) }

foldedMutationRow(inputs, counts, decl) ==
    LET prose == stated(inputs, counts, decl)
        cut == { found \in prose : rowIncomplete(found[2]) }
        scored == { found \in prose \ cut : found[2].value # <<>> }
        sum == sumOf(counts.complete)
    IN  Row(<<"mutation", 0>>, "context",
            <<sum[1] + MapThenSumSet(LAMBDA found : found[2].value[1], scored),
              sum[2] + MapThenSumSet(LAMBDA found : found[2].value[2], scored),
              Cardinality(DOMAIN counts.complete) + Cardinality(scored),
              Cardinality(DOMAIN counts.incomplete) + Cardinality(cut)>>)

(***************************************************************************)
(* An incomplete component in the counts, a report that says it is, or a   *)
(* row: a job that ran out of time may leave any one of them alone.        *)
(***************************************************************************)
foldIncomplete(inputs, counts, decl) ==
    \/ DOMAIN counts.incomplete # {}
    \/ \E k \in DOMAIN inputs : inputs[k].read /\ ~Failing(inputs[k].rows) /\ inputs[k].incomplete
    \/ \E i \in Components(decl) : \E found \in rowsFor(inputs, <<"mutation", i>>) : rowIncomplete(found[2])

MergedMutation(inputs, decl) ==
    LET counts == FoldCounts(inputs)
        given == neverPassingIncomplete(inputs, counts)
        rows == { readRow(k, inputs[k]) : k \in DOMAIN inputs } \cup foldedWholeTree(inputs, mutationWholeTreeRows) \cup
                foldedScheduleRow(inputs) \cup componentRows(given, mutationLabels(decl)) \cup
                noSuiteRows({"mutation"}, decl.noSuite) \cup {foldedMutationRow(inputs, counts, decl)} \cup
                carryUnhandled(inputs, foldedMutationLabel(decl))
    IN  [rows |-> rows \cup {shardsRow(\/ disagreements(inputs, mutationWholeTreeRows) # {}
                                       \/ uncovered(given, mutationLabels(decl)) # {}
                                       \/ ~oneTree(inputs)
                                       \/ uncarriedVerdicts(rows, inputs) # {})},
         incomplete |-> foldIncomplete(inputs, counts, decl)]
===============================================================================
