-------------------------------- MODULE Matrix --------------------------------
(***************************************************************************)
(* A matrix from its plan to its one report: `lydite test plan` groups the *)
(* components into jobs, each job runs `lydite test` or `lydite mutation`  *)
(* over its own and uploads its report directory, and `lydite test merge`, *)
(* or `lydite mutation merge`, folds the directories that arrived.  The    *)
(* jobs share nothing, so they are taken in the matrix's order.            *)
(*                                                                         *)
(* A job may die and leave no directory, leave one whose report does not   *)
(* read or whose measurements or counts are lost or torn, be interrupted,  *)
(* run into its deadline (late; cut when it is interrupted too), fail to   *)
(* read its baseline, check out another tree than its siblings (moved; and *)
(* elsewhere when that tree's own gates answer otherwise), or have its     *)
(* directory handed over twice.                                            *)
(***************************************************************************)
EXTENDS ShardPlan, MutationFold

CONSTANTS Tested,       \* the declarations whose matrix is run
          Commanded,    \* the names of the components whose suite is a raw command
          Profiles,     \* what a component's run may answer
          Outcomes,     \* what may become of a component's mutants
          Modes,        \* what the jobs are asked for
          MaxFaults     \* bound on the jobs of a matrix something happens to

ASSUME MatrixAssumption ==
    /\ Tested \subseteq Files
    /\ Profiles \subseteq Profile
    /\ Outcomes \subseteq ComponentOutcome
    /\ Modes \subseteq Mode
    /\ MaxFaults \in Nat

VARIABLES
    step,       \* planning, running, folded, refused
    run,        \* what every job of the matrix is asked for
    picked,     \* the answers of the components run so far
    faults,     \* what happened to each job so far
    inputs,     \* the report directories, in the order of the jobs
    merged      \* the folded report

matrixVars == <<step, run, picked, faults, inputs, merged>>

Fault == {"none", "died", "unreadable", "interrupted", "late", "cut", "not gated", "lost", "torn", "moved",
          "elsewhere", "twice"}

decl == LET suites == { i \in DOMAIN file : file[i].hasSuite }
        IN  [suites |-> suites, noSuite |-> (DOMAIN file) \ suites,
             raw |-> { i \in suites : file[i].name \in Commanded }]

MatrixInit ==
    /\ PlanInit
    /\ step = "planning"
    /\ run = [command |-> "none", mode |-> "off", affected |-> FALSE]
    /\ picked = <<>> /\ faults = <<>> /\ inputs = <<>>
    /\ merged = [rows |-> {}, incomplete |-> FALSE]

Planning ==
    /\ step = "planning"
    /\ planItems \/ Union \/ Group \/ uniqueShardNames
    /\ UNCHANGED matrixVars

(***************************************************************************)
(* The workflow starts the jobs of a matrix, all with the same flags.      *)
(***************************************************************************)
StartJobs ==
    /\ step = "planning" /\ phase = "planned" /\ file \in Tested
    /\ step' = "running"
    /\ \E affected \in BOOLEAN :
          \/ \E mode \in Modes : run' = [command |-> "test", mode |-> mode, affected |-> affected]
          \/ \E mode \in {"gate", "no gate"} : run' = [command |-> "mutation", mode |-> mode, affected |-> affected]
    /\ UNCHANGED <<planVars, picked, faults, inputs, merged>>

(***************************************************************************)
(* A component is left unselected only by --affected, a raw command has    *)
(* never been measured and has no mutants, and a component's mutants are   *)
(* stopped only by an interrupt or by the deadline.                        *)
(***************************************************************************)
answers(fault, i) ==
    IF run.command = "test"
    THEN { p \in Profiles : /\ p.suite = "unselected" => run.affected
                            /\ i \in decl.raw => ~Counted(p.lines) /\ p.base = NoEntry }
    ELSE { o \in Outcomes : /\ o.kind = "unselected" => run.affected
                            /\ i \in decl.raw => o.kind \notin {"completed", "incomplete", "baseline interrupted"}
                            /\ deadlineStopped(o) => fault \in {"interrupted", "late", "cut"}
                            /\ o.kind = "incomplete" => fault \in {"late", "cut"} }

asked(fault) ==
    [mode        |-> IF fault = "not gated" THEN "not gated" ELSE run.mode,
     noGate      |-> run.mode = "no gate",
     affected    |-> run.affected,
     interrupted |-> fault \in {"interrupted", "cut"},
     deadline    |-> fault \in {"late", "cut"},
     tree        |-> IF fault \in {"moved", "elsewhere"} THEN 1 ELSE 0,
     seen        |-> IF fault = "elsewhere" THEN 1 ELSE 0]

(***************************************************************************)
(* What reaches the merge of a job.  A document that could not be written  *)
(* is a warning and no more.                                               *)
(***************************************************************************)
written(this, members, found) ==
    IF run.command = "test"
    THEN Directory(TRUE, RunReport(this, decl, members, found, TRUE), RunCandidate(this, decl, members, found))
    ELSE MutationDirectory(this, decl, members, found)

noDocument == IF run.command = "test" THEN NoDoc ELSE NoCounts

left(fault, members, found) ==
    LET dir == written(asked(fault), members, found)
    IN  CASE fault = "died" -> <<>>
          [] fault = "unreadable" -> <<Unreadable>>
          [] fault = "lost" -> <<[dir EXCEPT !.doc = noDocument]>>
          [] fault = "torn" -> <<[dir EXCEPT !.doc = [noDocument EXCEPT !.state = "torn"]]>>
          [] fault = "twice" -> <<dir, dir>>
          [] OTHER -> <<dir>>

(***************************************************************************)
(* What may happen to a job: its base cannot be read only if it reads one, *)
(* measurements are lost only where they are written, a deadline is for    *)
(* mutants, and so is a run with no gate over the whole tree.              *)
(***************************************************************************)
mayHappen ==
    IF run.command = "test"
    THEN (Fault \ {"none", "late", "cut"}) \
            ((IF run.mode # "gated" THEN {"not gated"} ELSE {}) \cup
             (IF run.mode \notin {"gated", "own base"} THEN {"lost", "torn"} ELSE {}))
    ELSE (Fault \ {"none", "not gated"}) \ (IF run.affected THEN {} ELSE {"elsewhere"})

RunJob ==
    /\ step = "running" /\ Len(faults) < Len(shards)
    /\ \E fault \in {"none"} \cup (IF Cardinality({ j \in DOMAIN faults : faults[j] # "none" }) < MaxFaults
                                   THEN mayHappen ELSE {}) :
          \E found \in { f \in [Members(Len(faults) + 1) -> IF run.command = "test" THEN Profiles ELSE Outcomes] :
                             \A i \in DOMAIN f : f[i] \in answers(fault, i) } :
             /\ faults' = Append(faults, fault)
             /\ picked' = [i \in DOMAIN picked \cup DOMAIN found |->
                              IF i \in DOMAIN found THEN found[i] ELSE picked[i]]
             /\ inputs' = inputs \o left(fault, Members(Len(faults) + 1), found)
    /\ UNCHANGED <<planVars, step, run, merged>>

(***************************************************************************)
(* The merge runs whatever its jobs came to, and refuses when no directory *)
(* arrived.                                                                *)
(***************************************************************************)
Merge ==
    /\ step = "running" /\ Len(faults) = Len(shards)
    /\ \/ inputs = <<>> /\ step' = "refused" /\ UNCHANGED merged
       \/ /\ inputs # <<>>
          /\ step' = "folded"
          /\ merged' = IF run.command = "test" THEN [rows |-> Merged(inputs, decl), incomplete |-> FALSE]
                                                ELSE MergedMutation(inputs, decl)
    /\ UNCHANGED <<planVars, run, picked, faults, inputs>>

Over ==
    /\ step \in {"folded", "refused"} \/ (step = "planning" /\ PlanFinished /\ (phase = "planned" => file \notin Tested))
    /\ UNCHANGED <<planVars, matrixVars>>

MatrixNext == Planning \/ StartJobs \/ RunJob \/ Merge \/ Over

MatrixSpec == MatrixInit /\ [][MatrixNext]_<<planVars, matrixVars>>
-------------------------------------------------------------------------------
(***************************************************************************)
(* A merged report that passes stands for a whole run: every job finished  *)
(* with its gates and left the one directory that was read, every suite it *)
(* ran passed, every mutant it wanted a verdict for has one and, when it   *)
(* gates, none survived, no teardown failed after mutants that say         *)
(* something of the suite (mutation.go, teardownFailureReplaces: "a row    *)
(* that already names why the component could not be measured keeps that   *)
(* reason"), and the documents that arrived are whole and of one tree      *)
(* (fold.go, shardsRow: "every declared component takes exactly one row    *)
(* across the shards ... a shard whose job died satisfies neither";        *)
(* mutation_merge.go, foldIncomplete: "without this a fold over a shard    *)
(* that ran out of time would exit as green as one over shards that        *)
(* measured everything").  A document that never arrived is not among      *)
(* them: see lost.                                                         *)
(***************************************************************************)
Passes(report) == ~Failing(report.rows) /\ ~report.incomplete

WholeAnswer(found) ==
    IF run.command = "test" THEN found.suite # "failed"
    ELSE /\ found.kind \in {"unselected", "off", "unmeasurable", "completed"}
         /\ found.teardown => denominator(found) = 0
         /\ found.survived > 0 => run.mode = "no gate"

Whole ==
    /\ \A j \in DOMAIN faults : faults[j] \in {"none", "late", "lost", "moved", "elsewhere"}
    /\ \A j, k \in DOMAIN faults : faults[j] = "elsewhere" => faults[k] = "elsewhere"
    /\ Len(inputs) = Len(shards)
    /\ \A i \in DOMAIN picked : WholeAnswer(picked[i])
    /\ oneTree(inputs)

MergeIsWhole == step = "folded" /\ Passes(merged) => Whole

(***************************************************************************)
(* When nothing happened to a job but its deadline, and each had counts to *)
(* hand over, the merged report says of every suite, every component's     *)
(* figures and mutants, and the repository's, what one run over all the    *)
(* components says, and comes to the same verdict (candidate.go:           *)
(* measurements.json is the only channel a job's numbers have).            *)
(***************************************************************************)
unsharded ==
    LET this == asked(IF \E j \in DOMAIN faults : faults[j] = "late" THEN "late" ELSE "none")
    IN  IF run.command = "test"
        THEN [rows |-> RunReport(this, decl, Components(decl), picked, FALSE), incomplete |-> FALSE]
        ELSE [rows |-> MutationRows(this, decl, Components(decl), picked, FALSE),
              incomplete |-> leftIncomplete(this, picked)]

gates == {"test", "flaky", "coverage", "patch", "crap", "floor", "mutation"}

\* A fold's summary of the mutants also counts the components left out of it.
sameFigures(r) == IF r.label = <<"mutation", 0>> THEN [r EXCEPT !.value = SubSeq(@, 1, 3)] ELSE r

said(rows) == { sameFigures(r) : r \in { q \in rows : q.label[1] \in gates } }

HandedOver ==
    /\ \A j \in DOMAIN faults : faults[j] \in {"none", "late"}
    /\ run.command = "test" => /\ run.mode = "gated" \/ (run.mode = "own base" /\ ~run.affected)
                               /\ \A i \in decl.raw : picked[i].suite = "passed"

ShardingIsInvisible ==
    step = "folded" /\ HandedOver =>
        /\ said(merged.rows) = said(unsharded.rows)
        /\ Failing(merged.rows) <=> Failing(unsharded.rows)
        /\ Passes(merged) <=> Passes(unsharded)
===============================================================================
