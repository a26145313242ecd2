-------------------------------- MODULE TestRun --------------------------------
(***************************************************************************)
(* `lydite test`: the components a run selected, each run inside one item  *)
(* of the scheduler with its services, setup, suite, rerun of new tests    *)
(* and teardown (internal/test/run), the stages that follow                *)
(* (internal/flow, internal/stages/test), and the verdict the command      *)
(* exits with (cmd/lydite/test.go).  Runs follow one another on one        *)
(* machine, which keeps the containers and report files a run leaves.      *)
(*                                                                         *)
(* The scheduler is what BoundedExclusion promises of it.  The first       *)
(* signal cancels the run's context; the second kills the process.         *)
(***************************************************************************)
EXTENDS Items, Compose, Flaky, TLC

CONSTANTS
    Dir, Occupies, \* a component's root and the further paths it writes into
    ReportOf,      \* the file its suite's reports are written to
    Selections,    \* the sets of components a run may be responsible for
    Outcomes,      \* what the suite's tests may come to: a set of functions by component
    GateFlaky, GateCoverage,
    PatchGated,    \* whether any measured language's patch coverage is gated
    Limit, MaxRuns

None == "none"

NoReport == <<>>

ASSUME TestRunAssumption ==
    /\ IsFiniteSet(Component) /\ Limit \in Nat \ {0} /\ MaxRuns \in Nat
    /\ GateFlaky \in BOOLEAN /\ GateCoverage \in BOOLEAN /\ PatchGated \in BOOLEAN
    /\ Selections \subseteq SUBSET Component
    /\ \A c \in Component : \A o \in Outcomes[c] :
         \A t \in DOMAIN o : t \in Test /\ Suite[t] = c /\ o[t] \in Outcome

ItemFor(c) == [dir |-> Dir[c], occupies |-> Occupies[c], ports |-> HostPorts(c)]

VARIABLES
    runs,      \* how many processes were started
    stage,     \* where the process is: off, planning, running, settling, a stage of
               \* the flow after the run, or render; exited again
    cancelled, \* ctx.Err() # nil
    caught,    \* the components whose command the cancellation found running
    selected, ready,
    at,        \* where a component is in runComponent
    row,       \* its test row
    meas,      \* whose report its measurement was read from, or NoReport
    one,       \* the outcomes its suite's tests came to, by test
    verdict,   \* what the flaky gate established of a test
    unrun,     \* the scopes of it still to be rerun
    frow,      \* its flaky row
    sched,     \* the schedule row
    gate,      \* what coverage came to
    exit,      \* None, green, red, killed
    stacks,    \* the components whose containers are up
    report,    \* what each report file holds: <<component, run>> or NoReport
    left,      \* history: the stacks a failed down or a killed process left up
    two,       \* history: what a test's rerun came to, or absent
    cut        \* history: whether a signal came before the last check was made

machine == <<stacks, report>>
component == <<at, row, meas, one, verdict, unrun, frow>>
command == <<runs, selected, ready, sched, gate, exit>>
history == <<left, two, cut>>
vars == <<stage, cancelled, caught, component, command, machine, history>>

Stage == {"off", "planning", "running", "settling", "flaky", "coverage", "baseline", "checkout",
          "measuring", "patch", "render", "exited"}

Place == {"notrun", "preparing", "starting", "undoing", "setup", "suite", "examining", "measuring",
          "teardown", "stopping", "returned"}

Written == {NoReport} \cup (Component \X Nat)

Recorded(ran) == DOMAIN ran \subseteq Test /\ \A t \in DOMAIN ran : ran[t] \in Outcome

TypeOK ==
    /\ runs \in 0..MaxRuns /\ stage \in Stage
    /\ cancelled \in BOOLEAN /\ cut \in BOOLEAN
    /\ selected \subseteq Component /\ ready \subseteq selected /\ caught \subseteq Component
    /\ at \in [Component -> Place]
    /\ row \in [Component -> {None, "passed", "failed", "notrun", "notcompleted"}]
    /\ meas \in [Component -> Written]
    /\ report \in [{ ReportOf[c] : c \in Component } -> Written]
    /\ one = [c \in Component |-> one[c]] /\ \A c \in Component : Recorded(one[c])
    /\ two \in [Test -> Outcome \cup {"absent"}]
    /\ verdict \in [Test -> {None, "unmeasured", "skipped", "agreed", "disagreed"}]
    /\ unrun \in [Component -> SUBSET { Scope[t] : t \in Test }]
    /\ frow \in [Component -> {None, "nonew", "unexamined", "agreed", "disagreed"}]
    /\ sched \in {None, "interrupted", "complete"}
    /\ gate \in {None, "ungated", "compared", "ownbase", "new", "notgated", "unreached"}
    /\ exit \in {None, "green", "red", "killed"}
    /\ stacks \subseteq Component /\ left \subseteq stacks

NoTests == [t \in {} |-> "pass"]

Fresh ==
    /\ at' = [c \in Component |-> "notrun"]
    /\ row' = [c \in Component |-> None]
    /\ meas' = [c \in Component |-> NoReport]
    /\ one' = [c \in Component |-> NoTests]
    /\ verdict' = [t \in Test |-> None]
    /\ unrun' = [c \in Component |-> {}]
    /\ frow' = [c \in Component |-> None]

Init ==
    /\ runs = 0 /\ stage = "off" /\ cancelled = FALSE /\ caught = {}
    /\ selected = {} /\ ready = {}
    /\ at = [c \in Component |-> "notrun"]
    /\ row = [c \in Component |-> None]
    /\ meas = [c \in Component |-> NoReport]
    /\ one = [c \in Component |-> NoTests]
    /\ verdict = [t \in Test |-> None]
    /\ unrun = [c \in Component |-> {}]
    /\ frow = [c \in Component |-> None]
    /\ sched = None /\ gate = None /\ exit = None
    /\ stacks = {} /\ report = [f \in { ReportOf[c] : c \in Component } |-> NoReport]
    /\ left = {} /\ two = [t \in Test |-> "absent"] /\ cut = FALSE

Begin ==
    /\ stage \in {"off", "exited"} /\ runs < MaxRuns
    /\ runs' = runs + 1 /\ stage' = "planning"
    /\ cancelled' = FALSE /\ caught' = {} /\ cut' = FALSE
    /\ selected' \in Selections /\ ready' = {}
    /\ Fresh
    /\ sched' = None /\ gate' = None /\ exit' = None
    /\ two' = [t \in Test |-> "absent"]
    /\ UNCHANGED <<machine, left>>

(***************************************************************************)
(* Each stack is loaded and the runtime probed once.  Under a cancelled    *)
(* context a failure says nothing of the machine, so the row is that of a  *)
(* component that did not run.                                             *)
(***************************************************************************)
Plan ==
    /\ stage = "planning" /\ stage' = "running"
    /\ \E runtime \in BOOLEAN :
         LET unplanned == { c \in selected : Composed(c) /\ (Refused(c) \/ ~runtime) }
         IN  /\ ready' = selected \ unplanned
             /\ row' = [c \in Component |->
                          IF c \notin selected THEN None
                          ELSE IF c \in unplanned /\ ~cancelled THEN "failed" ELSE "notrun"]
    /\ UNCHANGED <<cancelled, caught, runs, selected, sched, gate, exit, at, meas, one, verdict, unrun,
                   frow, machine, history>>

-------------------------------------------------------------------------------
(***************************************************************************)
(* A component's run.  A command that starts under a cancelled context     *)
(* fails; one the cancellation found running is killed, or had ended.      *)
(***************************************************************************)

Inside == { c \in Component : at[c] \notin {"notrun", "returned"} }

mayPass(c) == ~cancelled \/ c \in caught

Go(c, where) == at' = [at EXCEPT ![c] = where] /\ caught' = caught \ {c}

Says(c, what) == row' = [row EXCEPT ![c] = what]

\* ClearReport.  Mutation: what an earlier run left stays.
notCleared(c) == UNCHANGED report
cleared(c) == report' = [report EXCEPT ![ReportOf[c]] = NoReport]

Start(c) ==
    /\ stage = "running" /\ c \in ready /\ at[c] = "notrun" /\ ~cancelled
    /\ Cardinality(Inside) < Limit
    /\ \A d \in Inside : InCommon(ItemFor(c), ItemFor(d)) = {}
    /\ \/ Go(c, "preparing") /\ cleared(c) /\ UNCHANGED row
       \/ Go(c, "returned") /\ Says(c, "failed") /\ UNCHANGED report
    /\ UNCHANGED <<stage, cancelled, command, meas, one, verdict, unrun, frow, stacks, history>>

Prepare(c) ==
    /\ at[c] = "preparing"
    /\ \/ /\ mayPass(c)
          /\ Go(c, IF Composed(c) THEN "starting" ELSE "setup")
          /\ UNCHANGED row
       \/ Go(c, "returned") /\ Says(c, "failed")
    /\ UNCHANGED <<stage, cancelled, command, meas, one, verdict, unrun, frow, machine, history>>

\* The stacks of other components that hold a port this one's would bind.
Holders(c) == { d \in stacks \ {c} : Bound(c) \cap Bound(d) # {} }

(***************************************************************************)
(* Up adopts what an earlier run left of the same project.  One that fails *)
(* may have started some of its containers.                                *)
(***************************************************************************)
StartServices(c) ==
    /\ at[c] = "starting"
    /\ \/ /\ mayPass(c) /\ Holders(c) = {}
          /\ stacks' = stacks \cup {c} /\ left' = left \ {c}
          /\ Go(c, "setup") /\ UNCHANGED row
       \/ /\ \E begun \in SUBSET {c} : stacks' = stacks \cup begun
          /\ Go(c, "undoing") /\ Says(c, "failed")
          /\ UNCHANGED left
    /\ UNCHANGED <<stage, cancelled, command, meas, one, verdict, unrun, frow, report, two, cut>>

Setup(c) ==
    /\ at[c] = "setup"
    /\ \/ mayPass(c) /\ Go(c, "suite") /\ UNCHANGED row
       \/ Go(c, "teardown") /\ Says(c, "failed")
    /\ UNCHANGED <<stage, cancelled, command, meas, one, verdict, unrun, frow, machine, history>>

Ran(c) == one[c]

(***************************************************************************)
(* The suite, and whether it wrote the report it was asked for: a green    *)
(* one may have sent it elsewhere, a red or a killed one never got to it.  *)
(***************************************************************************)
RunSuite(c) ==
    /\ at[c] = "suite"
    /\ \E ran \in Outcomes[c], wrote \in BOOLEAN, ok \in BOOLEAN :
         /\ ok => mayPass(c) /\ \A t \in DOMAIN ran : ran[t] # "fail"
         /\ one' = [one EXCEPT ![c] = IF wrote THEN ran ELSE NoTests]
         /\ report' = [report EXCEPT ![ReportOf[c]] = IF wrote THEN <<c, runs>> ELSE @]
         /\ Says(c, IF ok THEN "passed" ELSE "failed")
         /\ unrun' = [unrun EXCEPT ![c] = IF GateFlaky /\ wrote THEN scopes(c, ran) ELSE {}]
    /\ Go(c, "examining")
    /\ UNCHANGED <<stage, cancelled, command, meas, verdict, frow, stacks, history>>

(***************************************************************************)
(* One scope's rerun, while the services are still up; the report path of  *)
(* reruns was cleared before it.  What it came to is compared with the     *)
(* suite's report, both read in one key space.                             *)
(***************************************************************************)
Reruns(c, s) == { [t \in Filtered(c, s, Ran(c)) \cap DOMAIN o |-> o[t]] : o \in Outcomes[c] }

Rerun(c) ==
    /\ at[c] = "examining" /\ ~cancelled
    /\ \E s \in unrun[c] : \E ran \in Reruns(c, s) \cup {NoTests} :
         /\ verdict' = [t \in Test |->
                IF t \in Runnable(c, s, Ran(c))
                THEN compare(ReadOutcome(Ran(c), key(t)), ReadOutcome(ran, key(t)))
                ELSE verdict[t]]
         /\ two' = [t \in Test |-> IF t \in DOMAIN ran THEN ran[t] ELSE two[t]]
         /\ unrun' = [unrun EXCEPT ![c] = @ \ {s}]
    /\ UNCHANGED <<stage, cancelled, caught, command, at, row, meas, one, frow, machine, left, cut>>

(***************************************************************************)
(* The examination's row.  A run cut short has established nothing.        *)
(***************************************************************************)
Examine(c) ==
    /\ at[c] = "examining" /\ (unrun[c] = {} \/ cancelled)
    /\ LET found == { IF undecidable(c, t, Ran(c)) THEN "unmeasured" ELSE verdict[t]
                        : t \in expand(c, Ran(c)) }
       IN  frow' = [frow EXCEPT ![c] =
             IF ~GateFlaky THEN None
             ELSE IF NewTests(c) = {} THEN "nonew"
             ELSE IF DOMAIN Ran(c) = {} \/ unrun[c] # {} THEN "unexamined"
             ELSE flakyRow(found)]
    /\ unrun' = [unrun EXCEPT ![c] = {}]
    /\ Go(c, "measuring")
    /\ UNCHANGED <<stage, cancelled, command, row, meas, one, verdict, machine, history>>

Measure(c) ==
    /\ at[c] = "measuring"
    /\ meas' = [meas EXCEPT ![c] = IF row[c] = "passed" THEN report[ReportOf[c]] ELSE NoReport]
    /\ Go(c, "teardown")
    /\ UNCHANGED <<stage, cancelled, command, row, one, verdict, unrun, frow, machine, history>>

\* Whether a deferred command gets to run.  Mutation: it is given the run's context.
underTheRun == ~cancelled
detached == TRUE

Teardown(c) ==
    /\ at[c] = "teardown"
    /\ \/ UNCHANGED row
       \/ Says(c, IF row[c] = "passed" THEN "failed" ELSE row[c])
    /\ Go(c, IF Composed(c) THEN "stopping" ELSE "returned")
    /\ UNCHANGED <<stage, cancelled, command, meas, one, verdict, unrun, frow, machine, history>>

(***************************************************************************)
(* The stack is taken down, after a suite or after an up that failed.  The *)
(* runtime may fail to: that is printed and changes no row.                *)
(***************************************************************************)
Down(c) ==
    /\ at[c] \in {"stopping", "undoing"}
    /\ \/ detached /\ stacks' = stacks \ {c} /\ left' = left \ {c}
       \/ detached /\ left' = left \cup ({c} \cap stacks) /\ UNCHANGED stacks
       \/ ~detached /\ UNCHANGED <<stacks, left>>
    /\ Go(c, "returned")
    /\ UNCHANGED <<stage, cancelled, command, row, meas, one, verdict, unrun, frow, report, two, cut>>

-------------------------------------------------------------------------------
(***************************************************************************)
(* The scheduler has returned.  Under a cancelled context a failing row of *)
(* a component it was given is in doubt; and only a component that passed  *)
(* contributes a measurement.                                              *)
(***************************************************************************)
\* Mutation: a component the cancellation kept from starting is waited for.
waitedFor == Inside = {} /\ \A c \in ready : at[c] = "returned"

schedulerReturned == Inside = {} /\ (cancelled \/ \A c \in ready : at[c] = "returned")

Settle ==
    LET final == [c \in Component |->
                    IF cancelled /\ c \in ready /\ row[c] = "failed" THEN "notcompleted" ELSE row[c]]
    IN  /\ stage = "running" /\ schedulerReturned
        /\ row' = final
        /\ meas' = [c \in Component |-> IF final[c] = "passed" THEN meas[c] ELSE NoReport]
        /\ stage' = "settling"
        /\ UNCHANGED <<cancelled, caught, command, at, one, verdict, unrun, frow, machine, history>>

Schedule ==
    /\ stage = "settling"
    /\ sched' = IF cancelled THEN "interrupted" ELSE "complete"
    /\ stage' = "flaky"
    /\ UNCHANGED <<cancelled, caught, runs, selected, ready, gate, exit, component, machine, history>>

(***************************************************************************)
(* The flow asks the context before each stage and stops at the first it   *)
(* finds cancelled.                                                        *)
(***************************************************************************)
Stop ==
    /\ stage \in {"flaky", "coverage"} /\ cancelled
    /\ gate' = "unreached" /\ stage' = "render"
    /\ UNCHANGED <<cancelled, caught, runs, selected, ready, sched, exit, component, machine, history>>

FlakyStage ==
    /\ stage = "flaky" /\ ~cancelled
    /\ stage' = "coverage"
    /\ UNCHANGED <<cancelled, caught, command, component, machine, history>>

(***************************************************************************)
(* The coverage stage: the baseline is found, or the base tree checked out *)
(* and measured, and the changed lines are gated against it.  An error is  *)
(* a failing row.  A base tree whose measurement was cut short or failed   *)
(* is an empty baseline and no error.                                      *)
(***************************************************************************)
Comes(what, where) ==
    /\ gate' = what /\ stage' = where
    /\ UNCHANGED <<cancelled, caught, runs, selected, ready, sched, exit, component, machine, history>>

Coverage ==
    /\ stage = "coverage" /\ ~cancelled
    /\ IF GateCoverage THEN Comes(None, "baseline") ELSE Comes("ungated", "render")

ReadBaseline ==
    /\ stage = "baseline"
    /\ \/ Comes("notgated", "render")
       \/ ~cancelled /\ (Comes("compared", "patch") \/ Comes("ownbase", "render"))
       \/ Comes(None, "checkout")

CheckOut ==
    /\ stage = "checkout"
    /\ \/ Comes("notgated", "render")
       \/ ~cancelled /\ Comes(None, "measuring")

MeasureBase ==
    /\ stage = "measuring"
    /\ \/ Comes("notgated", "render")
       \/ Comes("new", "patch")
       \/ ~cancelled /\ Comes("compared", "patch")

\* git's diff of the change, asked for when some measured language is gated.
Patch ==
    /\ stage = "patch"
    /\ \/ (PatchGated => ~cancelled) /\ Comes(gate, "render")
       \/ PatchGated /\ Comes("notgated", "render")

Failing ==
    \/ \E c \in selected : row[c] = "failed"
    \/ gate # "unreached" /\ \E c \in selected : frow[c] = "disagreed"
    \/ sched = "interrupted" \/ gate = "notgated"

\* A flow that stopped with nothing failing is an error.  Mutation: it is rendered.
rendered == FALSE
stopped == gate = "unreached"

Render ==
    /\ stage = "render" /\ stage' = "exited"
    /\ exit' = IF Failing \/ stopped THEN "red" ELSE "green"
    /\ UNCHANGED <<cancelled, caught, runs, selected, ready, sched, gate, component, machine, history>>

-------------------------------------------------------------------------------
\* A check still to be made: the last is the coverage gate's.
Unchecked == stage \notin {"off", "render", "exited"} /\ ~(stage = "patch" /\ ~PatchGated)

Interrupt ==
    /\ stage \notin {"off", "exited"} /\ ~cancelled
    /\ cancelled' = TRUE /\ caught' = Inside
    /\ cut' = (cut \/ Unchecked)
    /\ UNCHANGED <<stage, command, component, machine, left, two>>

Kill ==
    /\ stage \notin {"off", "exited"} /\ cancelled
    /\ stage' = "exited" /\ exit' = "killed"
    /\ at' = [c \in Component |-> "notrun"] /\ caught' = {}
    /\ left' = left \cup stacks
    /\ UNCHANGED <<cancelled, runs, selected, ready, sched, gate, row, meas, one, verdict, unrun, frow,
                   machine, two, cut>>

ComponentStep(c) ==
    \/ Start(c) \/ Prepare(c) \/ StartServices(c) \/ Setup(c) \/ RunSuite(c)
    \/ Rerun(c) \/ Examine(c) \/ Measure(c) \/ Teardown(c) \/ Down(c)

CommandStep ==
    \/ Plan \/ Settle \/ Schedule \/ Stop \/ FlakyStage
    \/ Coverage \/ ReadBaseline \/ CheckOut \/ MeasureBase \/ Patch \/ Render

Next ==
    \/ Begin \/ CommandStep \/ Interrupt \/ Kill
    \/ \E c \in Component : ComponentStep(c)

Spec == Init /\ [][Next]_vars

(***************************************************************************)
(* After a cancellation nothing waits: a command under the context is      *)
(* killed, and a deferred one ends by itself.                              *)
(***************************************************************************)
FairSpec ==
    /\ Spec
    /\ WF_vars(cancelled /\ CommandStep)
    /\ \A c \in Component : WF_vars(cancelled /\ ComponentStep(c))

-------------------------------------------------------------------------------
(***************************************************************************)
(* A stack is up while its component holds it, or because a down failed or *)
(* a process was killed: no way out of a component's run leaves one behind *)
(* (StartServices and the deferred stop of runComponent).                  *)
(***************************************************************************)
Holding(c) == at[c] \in {"undoing", "setup", "suite", "examining", "measuring", "teardown", "stopping"}

StacksAccountedFor == \A c \in stacks \ left : Holding(c)

(***************************************************************************)
(* A component that starts its services finds its ports free, or held by   *)
(* what was left up: never by a component of its own run (HostPorts, what  *)
(* the scheduler locks, and the release after the stack is down).          *)
(***************************************************************************)
RefusedOnlyByLeftovers == \A c \in Component : at[c] = "starting" => Holders(c) \subseteq left

(***************************************************************************)
(* A measurement was read from the report this component's own suite wrote *)
(* in this run, and when the run is settled the component passed           *)
(* (ClearReport, Measure, the last loop of RunComponents).                 *)
(***************************************************************************)
MeasuredIsOwn ==
    \A c \in Component : meas[c] # NoReport =>
        /\ meas[c] = <<c, runs>>
        /\ stage \notin {"running", "exited"} => row[c] = "passed"

(***************************************************************************)
(* What the gate says of a test is about that test: it disagreed or agreed *)
(* with itself in the suite and in the rerun (flaky.Rerun, Identity).      *)
(***************************************************************************)
VerdictIsOwn ==
    \A t \in Test :
        /\ verdict[t] = "disagreed" => t \in DOMAIN Ran(Suite[t]) /\ Ran(Suite[t])[t] # two[t]
        /\ verdict[t] \in {"agreed", "skipped"} => t \in DOMAIN Ran(Suite[t]) /\ Ran(Suite[t])[t] = two[t]

(***************************************************************************)
(* A green run was not cut short of any check: every component it selected *)
(* passed, no new test disagreed with itself, and each gate asked for came *)
(* to its end (ScheduleRow, interrupted, testError).                       *)
(***************************************************************************)
GreenIsWhole ==
    exit = "green" =>
        /\ ~cut
        /\ \A c \in selected : row[c] = "passed" /\ frow[c] # "disagreed"
        /\ gate \in IF GateCoverage THEN {"compared", "ownbase", "new"} ELSE {"ungated"}

(***************************************************************************)
(* An interrupted run ends by itself, whatever it was doing.               *)
(***************************************************************************)
InterruptEnds == cancelled ~> stage = "exited"

-------------------------------------------------------------------------------
(***************************************************************************)
(* What theorems suppose of the declarations and the tests.  A report file *)
(* is inside its component's root, so two components that write one file   *)
(* have something in common; and a test is told from every other of its    *)
(* component by the key both reports are read under.                       *)
(***************************************************************************)
ReportsAreTold ==
    \A c, d \in Component : c # d /\ ReportOf[c] = ReportOf[d] => InCommon(ItemFor(c), ItemFor(d)) # {}

KeysAreOwn == \A t, u \in Test : Suite[t] = Suite[u] /\ key(t) = key(u) => t = u
================================================================================
