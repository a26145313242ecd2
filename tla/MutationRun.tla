------------------------------ MODULE MutationRun ------------------------------
(***************************************************************************)
(* `lydite mutation`: the components a run selected, each measured inside  *)
(* one item of the scheduler (internal/stages/mutation/run.go), their      *)
(* mutants dispatched to workers against slots every component shares      *)
(* (internal/mutation/executor.go and worktree.go), and what the command   *)
(* makes of the outcomes when the run is over, cut short or not            *)
(* (cmd/lydite/mutation.go and record.go).                                 *)
(*                                                                         *)
(* The scheduler is what BoundedExclusion promises of it.  The run ends    *)
(* early in two ways that cancel one context: an interrupt, which the      *)
(* caller sees too, and the run's own deadline.                            *)
(***************************************************************************)
EXTENDS Items, FiniteSets

CONSTANTS
    Component,    \* the components selected
    Declared,     \* the scheduler item of each
    Mutant, File,
    MutantsOf,    \* a component's generated mutants, in order
    FileOf,       \* the source file a mutant changes
    Acknowledged, \* the mutants declared equivalent
    Left,         \* what a previous run may have left: a set of verdicts by mutant
    Measured,     \* the components with a recorded baseline to reuse
    Overlaid,     \* the components whose workers overlay files instead of copying a tree
    Faulty,       \* the components in whose workers staging and restoring may fail
    Ends,         \* how the build and the suites of a mutant may end
    Phases,       \* how many suite runs a mutant of the component is held against
    Limit,        \* --concurrency
    Source, Torn  \* a file as it is in the component's own tree, and half written

Decided == {"killed", "timedout", "outofmemory", "survived", "unviable"}

ASSUME MutationRunAssumption ==
    /\ IsFiniteSet(Component)
    /\ Declared \in [Component -> Item]
    /\ MutantsOf \in [Component -> Seq(Mutant)]
    /\ FileOf \in [Mutant -> File]
    /\ \A left \in Left : left \in [DOMAIN left -> Decided] /\ DOMAIN left \subseteq Mutant
    /\ Measured \subseteq Component /\ Overlaid \subseteq Component /\ Faulty \subseteq Component
    /\ Ends \in [Mutant -> [{"build", "suite"} ->
                             SUBSET {"passed", "failed", "exceeded", "starved"} \ {{}}]]
    /\ Phases \in [Component -> Nat \ {0}]
    /\ Limit \in Nat \ {0}
    /\ Source \notin Mutant /\ Torn \notin Mutant /\ Source # Torn

Position(c) == DOMAIN MutantsOf[c]

(***************************************************************************)
(* One worker for a component whose mutants would share a service: when    *)
(* two items with its ports and no directory are in conflict.              *)
(***************************************************************************)
\* Mutation: the limit, whatever the component publishes.
workersAtLimit == [c \in Component |-> Limit]

workersFor == [c \in Component |->
    LET mutant == [dir |-> NoDir, occupies |-> <<>>, ports |-> Declared[c].ports]
    IN  IF Conflicts(<<mutant, mutant>>) # {} THEN 1 ELSE Limit]

Worker == Component \X (1..Limit)

VARIABLES
    step,       \* where a component is: notrun, preparing, waiting (for a slot),
                \* measuring (its baseline), opening (its workers), executing, returned
    kind,       \* its outcome's kind; stopped stands for those with no mutants run
    known,      \* the verdicts a previous run left
    result,     \* its results, by position
    sent,       \* the last position handed to a worker
    dispatch,   \* the dispatcher: checking (the context), sending, closed
    doing,      \* a worker: idle, waiting (for a slot), running (a command)
    at,         \* the position of its mutant
    phase,      \* 0 for the build, then the suite runs
    tree,       \* what each file of the worker holds
    slots,      \* the slots taken
    recorded,   \* the positions whose verdict was handed to Record
    cause,      \* why the run's context ended: none, interrupt, deadline
    interrupted,\* whether the caller's context ended
    published,  \* whether the command has made its report
    counted,    \* the components mutants.json lists as complete
    partial     \* those it lists as incomplete

component == <<step, kind, sent, dispatch>>
worker == <<doing, at, phase, tree>>
report == <<published, counted, partial>>
vars == <<component, result, worker, slots, recorded, cause, interrupted, report, known>>

cancelled == cause # "none"

(***************************************************************************)
(* Answered without being run: by the declaration, which outranks a        *)
(* recorded verdict, or by the verdict.  The rest begin cut short.         *)
(***************************************************************************)
preset == [c \in Component |-> [i \in Position(c) |->
        LET m == MutantsOf[c][i]
        IN  IF m \in Acknowledged THEN "acknowledged"
            ELSE IF m \in DOMAIN known THEN known[m] ELSE "cutshort"]]

pending == [c \in Component |->
    { i \in Position(c) : MutantsOf[c][i] \notin Acknowledged \cup DOMAIN known }]

\* The workers that are opened, no more than there are mutants to stage.
Crew == [c \in Component |->
    { w \in Worker : w[1] = c /\ w[2] <= workersFor[c] /\ w[2] <= Cardinality(pending[c]) }]

Init ==
    /\ step = [c \in Component |-> "notrun"]
    /\ kind = [c \in Component |-> "notrun"]
    /\ known \in Left
    /\ result = preset
    /\ sent = [c \in Component |-> 0]
    /\ dispatch = [c \in Component |-> "checking"]
    /\ doing = [w \in Worker |-> "idle"]
    /\ at = [w \in Worker |-> 0]
    /\ phase = [w \in Worker |-> 0]
    /\ tree = [w \in Worker |-> [f \in File |-> Source]]
    /\ slots = 0
    /\ recorded = [c \in Component |-> {}]
    /\ cause = "none" /\ interrupted = FALSE
    /\ published = FALSE /\ counted = {} /\ partial = {}

-------------------------------------------------------------------------------
(***************************************************************************)
(* Slots: a channel of Limit places.  A waiter whose context is cancelled  *)
(* may still get one, since select takes either.                           *)
(***************************************************************************)

acquire == slots < Limit /\ slots' = slots + 1
release == slots' = slots - 1

Inside == { c \in Component : step[c] \notin {"notrun", "returned"} }

(***************************************************************************)
(* The scheduler starts a component, and its lifecycle is prepared.        *)
(***************************************************************************)
Start(c) ==
    /\ step[c] = "notrun" /\ ~cancelled
    /\ Cardinality(Inside) < Limit
    /\ \A d \in Inside : InCommon(Declared[c], Declared[d]) = {}
    /\ step' = [step EXCEPT ![c] = "preparing"]
    /\ UNCHANGED <<kind, sent, dispatch, result, worker, slots, recorded, cause, interrupted, report, known>>

Returns(c, k) ==
    /\ step' = [step EXCEPT ![c] = "returned"]
    /\ kind' = [kind EXCEPT ![c] = k]
    /\ UNCHANGED <<sent, dispatch>>

(***************************************************************************)
(* A step before the mutants that fails once the deadline has passed is    *)
(* reported as the baseline not reached, unless no cancellation could have *)
(* failed it (a report not cleared, a peak too large, nothing to mutate).  *)
(***************************************************************************)
beforeMutants(c) ==
    \/ Returns(c, "stopped")
    \/ cause = "deadline" /\ Returns(c, "baseline-interrupted")

Prepare(c) ==
    /\ step[c] = "preparing"
    /\ \/ beforeMutants(c)
       \/ /\ step' = [step EXCEPT ![c] = IF c \in Measured THEN "opening" ELSE "waiting"]
          /\ UNCHANGED <<kind, sent, dispatch>>
    /\ UNCHANGED <<result, worker, slots, recorded, cause, interrupted, report, known>>

StartBaseline(c) ==
    /\ step[c] = "waiting" /\ acquire
    /\ step' = [step EXCEPT ![c] = "measuring"]
    /\ UNCHANGED <<kind, sent, dispatch, result, worker, recorded, cause, interrupted, report, known>>

AbandonBaseline(c) ==
    /\ step[c] = "waiting" /\ cancelled
    /\ Returns(c, "baseline-interrupted")
    /\ UNCHANGED <<result, worker, slots, recorded, cause, interrupted, report, known>>

(***************************************************************************)
(* The baseline passed and its lines were read, or either did not happen:  *)
(* a baseline that fails is the same as one killed, to who reads its kind. *)
(***************************************************************************)
EndBaseline(c) ==
    /\ step[c] = "measuring" /\ release
    /\ \/ beforeMutants(c)
       \/ /\ step' = [step EXCEPT ![c] = "opening"]
          /\ UNCHANGED <<kind, sent, dispatch>>
    /\ UNCHANGED <<result, worker, recorded, cause, interrupted, report, known>>

-------------------------------------------------------------------------------
(***************************************************************************)
(* What Execute's results are to the run: a deadline takes the cut-short   *)
(* mutants out, an interrupt leaves them in.                               *)
(***************************************************************************)
\* Mutation: results are results, whatever ended the run.
kindOfAnyResults(c) == "completed"

kindOfResults(c) ==
    IF cause = "deadline" /\ \E i \in Position(c) : result[c][i] = "cutshort"
    THEN "incomplete" ELSE "completed"

(***************************************************************************)
(* Every worker is opened before any of them runs.  When one cannot be,    *)
(* the component fails, unless it was the deadline that stopped it.        *)
(***************************************************************************)
OpenWorkers(c) ==
    /\ step[c] = "opening"
    /\ \/ pending[c] = {} /\ Returns(c, kindOfResults(c))
       \/ /\ pending[c] # {}
          /\ Returns(c, IF cause = "deadline" THEN "incomplete" ELSE "stopped")
       \/ /\ pending[c] # {}
          /\ step' = [step EXCEPT ![c] = "executing"]
          /\ UNCHANGED <<kind, sent, dispatch>>
    /\ UNCHANGED <<result, worker, slots, recorded, cause, interrupted, report, known>>

unsent(c) == { i \in pending[c] : i > sent[c] }

(***************************************************************************)
(* The dispatcher looks at the context before each mutant, and closes the  *)
(* queue when it has ended or nothing is left.                             *)
(***************************************************************************)
Check(c) ==
    /\ step[c] = "executing" /\ dispatch[c] = "checking"
    /\ dispatch' = [dispatch EXCEPT ![c] = IF cancelled \/ unsent(c) = {} THEN "closed" ELSE "sending"]
    /\ UNCHANGED <<step, kind, sent, result, worker, slots, recorded, cause, interrupted, report, known>>

mutantAt(c, i) == MutantsOf[c][i]

Pristine == [f \in File |-> Source]

\* Mutation: the mutant is applied to the worker's own copy of the file.
stagedOnCopy(w, m) ==
    IF w[1] \in Overlaid THEN [Pristine EXCEPT ![FileOf[m]] = m]
    ELSE [tree[w] EXCEPT ![FileOf[m]] = IF @ = Source THEN m ELSE Torn]

(***************************************************************************)
(* The mutant applied to the component's own source, in its file.  An      *)
(* overlay names that one file; a copied tree keeps what the others hold.  *)
(***************************************************************************)
staged(w, m) ==
    IF w[1] \in Overlaid THEN [Pristine EXCEPT ![FileOf[m]] = m]
    ELSE [tree[w] EXCEPT ![FileOf[m]] = m]

(***************************************************************************)
(* The worker's loop: the result in its position, and to Record unless it  *)
(* was cut short.                                                          *)
(***************************************************************************)
answer(c, i, v) ==
    /\ result' = [result EXCEPT ![c][i] = v]
    /\ recorded' = [recorded EXCEPT ![c] = IF v = "cutshort" THEN @ ELSE @ \cup {i}]

(***************************************************************************)
(* The queue is unbuffered: the mutant the dispatcher offers goes to a     *)
(* worker that is idle, whether or not the run was cancelled meanwhile.    *)
(***************************************************************************)
\* Mutation: a worker takes no mutant of a cancelled run.
handOverUnlessCancelled(c, w, i) ==
    /\ dispatch[c] = "sending" /\ doing[w] = "idle" /\ ~cancelled
    /\ i \in unsent(c) /\ \A j \in unsent(c) : i <= j
    /\ sent' = [sent EXCEPT ![c] = i]
    /\ dispatch' = [dispatch EXCEPT ![c] = "checking"]

handOver(c, w, i) ==
    /\ dispatch[c] = "sending" /\ doing[w] = "idle"
    /\ i \in unsent(c) /\ \A j \in unsent(c) : i <= j
    /\ sent' = [sent EXCEPT ![c] = i]
    /\ dispatch' = [dispatch EXCEPT ![c] = "checking"]

(***************************************************************************)
(* A worker takes a mutant and stages it.  What a worker does between two  *)
(* commands nobody else reads, so it is one step with what led to it.      *)
(***************************************************************************)
Stage(c, w) ==
    /\ \E i \in unsent(c) :
          /\ handOver(c, w, i)
          /\ at' = [at EXCEPT ![w] = i]
          /\ tree' = [tree EXCEPT ![w] = staged(w, mutantAt(c, i))]
    /\ doing' = [doing EXCEPT ![w] = "waiting"]
    /\ UNCHANGED <<step, kind, result, phase, slots, recorded, cause, interrupted, report, known>>

(***************************************************************************)
(* Staging fails: the source moved, or the write failed, which may tear    *)
(* the worker's copy of the file.  The mutant is answered; nothing is      *)
(* released, as nothing counts as staged.                                  *)
(***************************************************************************)
StageFails(c, w) ==
    /\ c \in Faulty
    /\ \E i \in unsent(c) :
          /\ handOver(c, w, i)
          /\ answer(c, i, "unviable")
          /\ \/ UNCHANGED tree
             \/ /\ c \notin Overlaid
                /\ tree' = [tree EXCEPT ![w][FileOf[mutantAt(c, i)]] = Torn]
    /\ UNCHANGED <<step, kind, doing, at, phase, slots, cause, interrupted, report, known>>

StartCommand(c, w) ==
    /\ doing[w] = "waiting" /\ acquire
    /\ doing' = [doing EXCEPT ![w] = "running"]
    /\ UNCHANGED <<component, result, at, phase, tree, recorded, cause, interrupted, report, known>>

(***************************************************************************)
(* The mutant is answered and withdrawn.  A write that fails is logged and *)
(* no more: the file keeps the mutant, or is torn.                         *)
(***************************************************************************)
restored(c, w) ==
    { [tree EXCEPT ![w][FileOf[mutantAt(c, at[w])]] = held] :
        held \in IF c \in Faulty \ Overlaid THEN {Source, Torn, mutantAt(c, at[w])} ELSE {Source} }

Finish(c, w, v) ==
    /\ answer(c, at[w], v)
    /\ tree' \in restored(c, w)
    /\ doing' = [doing EXCEPT ![w] = "idle"]
    /\ at' = [at EXCEPT ![w] = 0]
    /\ phase' = [phase EXCEPT ![w] = 0]

GiveUp(c, w) ==
    /\ doing[w] = "waiting" /\ cancelled
    /\ Finish(c, w, "cutshort")
    /\ UNCHANGED <<component, slots, cause, interrupted, report, known>>

(***************************************************************************)
(* What a command established: the run's own context is asked first, since *)
(* a cancellation ends the command's own context and kills it.             *)
(***************************************************************************)
\* Mutation: the command's own context is asked first.
establishedByBudget(end) == IF cancelled THEN "exceeded" ELSE end

established(end) == IF cancelled THEN "cutshort" ELSE end

(***************************************************************************)
(* The verdict it gives the mutant, if that is settled.  A build that does *)
(* not end well says nothing about the tests.                              *)
(***************************************************************************)
settled(c, n, e) ==
    CASE e = "cutshort" -> "cutshort"
      [] e = "passed"   -> IF n = Phases[c] THEN "survived" ELSE "open"
      [] e = "exceeded" -> IF n = 0 THEN "unviable" ELSE "timedout"
      [] e = "starved"  -> IF n = 0 THEN "unviable" ELSE "outofmemory"
      [] e = "failed"   -> IF n = 0 THEN "unviable" ELSE "killed"

(***************************************************************************)
(* A command ends: by itself, at its budget or at its memory bound.        *)
(***************************************************************************)
EndCommand(c, w) ==
    /\ doing[w] = "running" /\ release
    /\ \E end \in Ends[mutantAt(c, at[w])][IF phase[w] = 0 THEN "build" ELSE "suite"] :
          LET v == settled(c, phase[w], established(end))
          IN  \/ /\ v = "open"
                 /\ doing' = [doing EXCEPT ![w] = "waiting"]
                 /\ phase' = [phase EXCEPT ![w] = @ + 1]
                 /\ UNCHANGED <<result, at, tree, recorded>>
              \/ v # "open" /\ Finish(c, w, v)
    /\ UNCHANGED <<component, cause, interrupted, report, known>>

(***************************************************************************)
(* The queue is closed and every worker is done: the workers' directories  *)
(* are removed, Execute returns, and its results are judged.               *)
(***************************************************************************)
Return(c) ==
    /\ step[c] = "executing" /\ dispatch[c] = "closed"
    /\ \A w \in Crew[c] : doing[w] = "idle"
    /\ tree' = [w \in Worker |-> IF w \in Crew[c] THEN Pristine ELSE tree[w]]
    /\ Returns(c, kindOfResults(c))
    /\ UNCHANGED <<result, doing, at, phase, slots, recorded, cause, interrupted, report, known>>

-------------------------------------------------------------------------------
Interrupt ==
    /\ ~published /\ ~interrupted
    /\ interrupted' = TRUE
    /\ cause' = IF cancelled THEN cause ELSE "interrupt"
    /\ UNCHANGED <<component, result, worker, slots, recorded, report, known>>

Deadline ==
    /\ ~published /\ ~cancelled
    /\ cause' = "deadline"
    /\ UNCHANGED <<component, result, worker, slots, recorded, interrupted, report, known>>

(***************************************************************************)
(* The row of a component whose mutants ran fails for a survivor and for   *)
(* nothing else they say (a failed teardown fails it too: not modelled).   *)
(* An interrupted run takes back the components whose row failed.          *)
(***************************************************************************)
rowFails(c) == \E i \in Position(c) : result[c][i] = "survived"

withdrawn == { c \in Component : interrupted /\ rowFails(c) }

(***************************************************************************)
(* The scheduler has returned: the rows are made, and the counts of the    *)
(* outcomes that stand are written.                                        *)
(***************************************************************************)
Publish ==
    /\ ~published
    /\ \A c \in Component : step[c] = "returned" \/ (step[c] = "notrun" /\ cancelled)
    /\ published' = TRUE
    /\ counted' = { c \in Component : kind[c] = "completed" } \ withdrawn
    /\ partial' = { c \in Component : kind[c] = "incomplete" } \ withdrawn
    /\ UNCHANGED <<component, result, worker, slots, recorded, cause, interrupted, known>>

Finished == published /\ UNCHANGED vars

Work ==
    \/ \E c \in Component :
          \/ Start(c) \/ Prepare(c) \/ StartBaseline(c) \/ AbandonBaseline(c) \/ EndBaseline(c)
          \/ OpenWorkers(c) \/ Check(c) \/ Return(c)
          \/ \E w \in Crew[c] :
                \/ Stage(c, w) \/ StageFails(c, w) \/ StartCommand(c, w) \/ GiveUp(c, w)
                \/ EndCommand(c, w)
    \/ Publish

Next == Work \/ Interrupt \/ Deadline \/ Finished

Spec == Init /\ [][Next]_vars

(***************************************************************************)
(* Something that can move does: the Go runtime runs its goroutines, and   *)
(* every command ends, by itself or by its budget.  No fairness among them *)
(* is needed, since each step is one of finitely many.                     *)
(***************************************************************************)
FairSpec == Spec /\ WF_vars(Work)
-------------------------------------------------------------------------------
(***************************************************************************)
(* Every variable has its type; a worker's mutant is one nobody has an     *)
(* answer for (executor.go, Execute: an acknowledged mutant "is never      *)
(* staged, never built and never run", and so is a known one).             *)
(***************************************************************************)
TypeOK ==
    /\ step \in [Component -> {"notrun", "preparing", "waiting", "measuring", "opening",
                               "executing", "returned"}]
    /\ kind \in [Component -> {"notrun", "stopped", "baseline-interrupted", "completed", "incomplete"}]
    /\ known \in Left
    /\ \A c \in Component :
          /\ result[c] \in [Position(c) -> Decided \cup {"acknowledged", "cutshort"}]
          /\ sent[c] \in {0} \cup Position(c)
          /\ recorded[c] \subseteq Position(c)
    /\ dispatch \in [Component -> {"checking", "sending", "closed"}]
    /\ doing \in [Worker -> {"idle", "waiting", "running"}]
    /\ \A w \in Worker :
          IF doing[w] = "idle" THEN at[w] = 0
          ELSE /\ at[w] \in Position(w[1])
               /\ mutantAt(w[1], at[w]) \notin Acknowledged \cup DOMAIN known
    /\ phase \in [Worker -> Nat]
    /\ tree \in [Worker -> [File -> Mutant \cup {Source, Torn}]]
    /\ slots \in Nat
    /\ cause \in {"none", "interrupt", "deadline"}
    /\ interrupted \in BOOLEAN /\ published \in BOOLEAN
    /\ counted \subseteq Component /\ partial \subseteq Component

(***************************************************************************)
(* The suite executions in flight, baselines and mutants of every          *)
(* component together, are those that hold a slot, and never more than     *)
(* --concurrency (executor.go, Slots).                                     *)
(***************************************************************************)
Baselines == { c \in Component : step[c] = "measuring" }
Commands == { w \in Worker : doing[w] = "running" }

SuitesBounded ==
    /\ slots = Cardinality(Baselines) + Cardinality(Commands)
    /\ slots <= Limit

(***************************************************************************)
(* No two mutants of a component that publishes a port have their suites   *)
(* in flight together (budget.go, workersFor: two suites against one       *)
(* database "truncate each other's tables").  Two components that share a  *)
(* port are the scheduler's to keep apart.                                 *)
(***************************************************************************)
ServicesNotShared ==
    \A v, w \in Commands :
        v # w /\ v[1] = w[1] => Declared[v[1]].ports = {}

(***************************************************************************)
(* A suite that was in flight when the run was cancelled decides nothing:  *)
(* killed, timed out and cut short look alike from the process (executor.  *)
(* go, the comment on verdict).                                            *)
(***************************************************************************)
OnlyWholeSuitesDecide ==
    cancelled => \A w \in Commands : w \notin Commands' => result' = result

(***************************************************************************)
(* What was handed to Record is what this run measured: each verdict it    *)
(* decided, none it took over, none that was cut short, so that a resumed  *)
(* run measures the rest (executor.go, Options.Record).                    *)
(***************************************************************************)
RecordedAsDecided ==
    \A c \in Component : recorded[c] = { i \in pending[c] : result[c][i] # "cutshort" }

(***************************************************************************)
(* A verdict stands: no mutant is measured twice in a run, and no worker   *)
(* writes over another's answer (executor.go, the queue of positions).     *)
(***************************************************************************)
VerdictsKept ==
    \A c \in Component : \A i \in Position(c) : result[c][i] # "cutshort" =>
      /\ result'[c][i] = result[c][i]
      /\ \A w \in Crew[c] : at'[w] = i => at[w] = i

(***************************************************************************)
(* A verdict is of a whole suite, and stands (executor.go, verdict and     *)
(* the queue of positions).                                                *)
(***************************************************************************)
VerdictsStand == [][OnlyWholeSuitesDecide /\ VerdictsKept]_vars

(***************************************************************************)
(* The file of the mutant a suite runs against holds that mutant on the    *)
(* component's own source, whatever became of the one before it; and where *)
(* no write fails it is the only difference from the component             *)
(* (worktree.go, Stage and Release).                                       *)
(***************************************************************************)
MutantUnderTest ==
    \A w \in Commands :
        LET m == mutantAt(w[1], at[w])
        IN  /\ tree[w][FileOf[m]] = m
            /\ w[1] \notin Faulty => \A f \in File \ {FileOf[m]} : tree[w][f] = Source

(***************************************************************************)
(* When no interrupt was seen, a component mutants.json lists as complete  *)
(* has a verdict for every mutant, and one it lists as incomplete lacks    *)
(* one and was stopped by the deadline (counts.go, CountsDocument).        *)
(***************************************************************************)
CountsTellTheDeadline ==
    published =>
        /\ ~interrupted => \A c \in counted : \A i \in Position(c) : result[c][i] # "cutshort"
        /\ \A c \in partial : cause = "deadline" /\ \E i \in Position(c) : result[c][i] = "cutshort"

(***************************************************************************)
(* "Components is the counts for each component that ran to the end"       *)
(* (counts.go, CountsDocument).                                            *)
(***************************************************************************)
CountedRanToTheEnd ==
    \A c \in counted : \A i \in Position(c) : result[c][i] # "cutshort"

(***************************************************************************)
(* "every mutant is applied to the source as it stands here, so a worker   *)
(* whose previous mutant was not restored cannot compound" (worktree.go,   *)
(* Tree.Root): a suite runs against one mutant.                            *)
(***************************************************************************)
CannotCompound ==
    \A w \in Commands : \A f \in File :
        f # FileOf[mutantAt(w[1], at[w])] => tree[w][f] \notin Mutant

(***************************************************************************)
(* The command reports, however the run ends: no worker, dispatcher or     *)
(* baseline waits for ever (executor.go, Execute).                         *)
(***************************************************************************)
RunReports == <>published
===============================================================================
