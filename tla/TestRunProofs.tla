----------------------------- MODULE TestRunProofs -----------------------------
(***************************************************************************)
(* What `lydite test` leaves behind, measures and exits with, for any      *)
(* components, services, tests and selections, any limit and any number of *)
(* runs on one machine, whatever fails and whenever a signal comes.        *)
(***************************************************************************)
EXTENDS TestRun, FiniteSetTheorems, NaturalsInduction, WellFoundedInduction, TLAPS

Later == {"flaky", "coverage", "baseline", "checkout", "measuring", "patch", "render"}

(* A component is inside its run only while the scheduler runs.             *)
PlaceInv(c) ==
    /\ stage # "running" => at[c] \in {"notrun", "returned"}
    /\ stage = "planning" => at[c] = "notrun"
    /\ stage = "running" /\ at[c] # "notrun" => c \in ready
    /\ at[c] = "starting" => Composed(c)
    /\ c \in stacks => Composed(c)

(* The way from a stack's start to its teardown has no exit.                *)
ServicesInv(c) == c \in stacks \ left => Holding(c)

Apart(c, d) ==
    shared(ItemFor(c), ItemFor(d)) = {} /\ (ReportsAreTold => ReportOf[c] # ReportOf[d])

(* No two components inside hold anything the scheduler knows both hold.    *)
InsideApart == \A c, d \in Inside : c # d => Apart(c, d)

(* Up to its measurement a component's report file is its own.              *)
ReportInv(c) ==
    at[c] \in {"preparing", "starting", "setup", "suite", "examining", "measuring"} =>
        report[ReportOf[c]] \in {NoReport, <<c, runs>>}

MeasInv(c) ==
    meas[c] # NoReport =>
        /\ meas[c] = <<c, runs>>
        /\ stage \notin {"running", "exited"} => row[c] = "passed"

(* What is behind a component's suite has a verdict, unless interrupted.    *)
RowInv(c) ==
    /\ stage = "running" /\ at[c] \in {"undoing", "examining", "measuring", "teardown", "stopping", "returned"}
         => row[c] \in {"passed", "failed"}
    /\ stage = "running" /\ ~cancelled /\ c \in selected \ ready => row[c] = "failed"
    /\ stage = "settling" /\ ~cancelled /\ c \in selected => row[c] \in {"passed", "failed"}
    /\ stage \in Later /\ sched = "complete" /\ c \in selected => row[c] \in {"passed", "failed"}

(* A signal that came before the last check shows in what is rendered.      *)
Wanted == IF GateCoverage THEN {"compared", "ownbase", "new"} ELSE {"ungated"}

GateInv ==
    /\ cut => cancelled
    /\ stage \in Later => sched # None
    /\ stage \in {"baseline", "checkout", "measuring", "patch"} => GateCoverage
    /\ stage = "patch" => gate \in {"compared", "new"}
    /\ stage = "render" => gate \in {"unreached", "notgated"} \cup Wanted
    /\ stage = "render" /\ cut => sched = "interrupted" \/ gate \in {"unreached", "notgated"}
    /\ exit = "green" => stage = "exited"

RunInv == TypeOK /\ \A c \in Component : PlaceInv(c) /\ ServicesInv(c) /\ RowInv(c)

OwnInv == InsideApart /\ \A c \in Component : ReportInv(c) /\ MeasInv(c)

EndInv == GateInv /\ GreenIsWhole

-----------------------------------------------------------------------------
LEMMA RowWords ==
  ASSUME NEW found
  PROVE  flakyRow(found) \in {"unexamined", "agreed", "disagreed"}
  BY DEF flakyRow

LEMMA CompareWords ==
  ASSUME NEW a, NEW b
  PROVE  compare(a, b) \in {"unmeasured", "skipped", "agreed", "disagreed"}
  BY DEF compare

LEMMA ScopesAreScopes ==
  ASSUME NEW c \in Component, NEW ran, Recorded(ran)
  PROVE  scopes(c, ran) \subseteq { Scope[t] : t \in Test }
<1>1. expand(c, ran) \subseteq Test
  BY FlakyAssumption DEF expand, NewTests, Recorded
<1> QED
  BY <1>1 DEF scopes

LEMMA NoTestsRecorded == Recorded(NoTests)
  BY DEF NoTests, Recorded

LEMMA OutcomesRecorded ==
  ASSUME NEW c \in Component, NEW o \in Outcomes[c]
  PROVE  Recorded(o)
  BY TestRunAssumption DEF Recorded

LEMMA RerunsRecorded ==
  ASSUME NEW c \in Component, NEW s, NEW ran \in Reruns(c, s) \cup {NoTests}
  PROVE  Recorded(ran)
<1>1. CASE ran = NoTests
  BY <1>1, NoTestsRecorded
<1>2. CASE ran \in Reruns(c, s)
  <2>1. PICK o \in Outcomes[c] : ran = [t \in Filtered(c, s, Ran(c)) \cap DOMAIN o |-> o[t]]
    BY <1>2 DEF Reruns
  <2>2. Recorded(o)
    BY OutcomesRecorded
  <2> HIDE DEF Filtered
  <2> QED
    BY <2>1, <2>2 DEF Recorded
<1> QED
  BY <1>1, <1>2

LEMMA Bounds == MaxRuns \in Nat /\ Selections \subseteq SUBSET Component
  BY TestRunAssumption

LEMMA TypeInit == Init => TypeOK
<1> SUFFICES ASSUME Init PROVE TypeOK
  OBVIOUS
<1>1. runs \in 0..MaxRuns /\ stage \in Stage
  BY Bounds DEF Init, Stage
<1>0. cancelled \in BOOLEAN /\ cut \in BOOLEAN
  BY DEF Init
<1>2. one = [c \in Component |-> one[c]] /\ \A c \in Component : Recorded(one[c])
  BY NoTestsRecorded DEF Init
<1>3. /\ at \in [Component -> Place]
      /\ meas \in [Component -> Written]
      /\ report \in [{ ReportOf[c] : c \in Component } -> Written]
  BY DEF Init, Place, Written
<1>4. /\ row \in [Component -> {None}] /\ frow \in [Component -> {None}]
      /\ two \in [Test -> {"absent"}] /\ verdict \in [Test -> {None}]
      /\ unrun \in [Component -> SUBSET { Scope[t] : t \in Test }]
  BY DEF Init
<1> QED
  BY <1>0, <1>1, <1>2, <1>3, <1>4 DEF Init, TypeOK

LEMMA TypeNext == TypeOK /\ [Next]_vars => TypeOK'
<1> SUFFICES ASSUME TypeOK, [Next]_vars PROVE TypeOK'
  OBVIOUS
<1> USE DEF None
<1>1. CASE Begin
  <2>1. runs' \in 0..MaxRuns /\ stage' \in Stage
    BY <1>1, Bounds DEF Begin, TypeOK, Stage
  <2>0. cancelled' \in BOOLEAN /\ cut' \in BOOLEAN
    BY <1>1 DEF Begin
  <2>6. selected' \subseteq Component /\ ready' = {} /\ caught' = {}
    BY <1>1, Bounds DEF Begin
  <2>2. one' = [c \in Component |-> one'[c]] /\ \A c \in Component : Recorded(one'[c])
    BY <1>1, NoTestsRecorded DEF Begin, Fresh
  <2>3. /\ at' \in [Component -> Place] /\ meas' \in [Component -> Written]
        /\ unrun' \in [Component -> SUBSET { Scope[t] : t \in Test }]
    BY <1>1 DEF Begin, Fresh, Place, Written
  <2>4. /\ row' \in [Component -> {None}] /\ frow' \in [Component -> {None}]
        /\ two' \in [Test -> {"absent"}] /\ verdict' \in [Test -> {None}]
    BY <1>1 DEF Begin, Fresh
  <2>5. UNCHANGED <<report, stacks, left>> /\ sched' = None /\ gate' = None /\ exit' = None
    BY <1>1 DEF Begin, machine
  <2> QED
    BY <2>0, <2>1, <2>2, <2>3, <2>4, <2>5, <2>6 DEF TypeOK, Recorded
<1>2. CASE Plan
  BY <1>2 DEF Plan, TypeOK, machine, history, Stage, Place, Written
<1>3. CASE Settle
  BY <1>3 DEF Settle, TypeOK, machine, history, command, Stage, Place, Written
<1>4. CASE Schedule \/ Stop \/ FlakyStage \/ Render
  BY <1>4 DEF Schedule, Stop, FlakyStage, Render, TypeOK, machine, history, command, component, Stage, Place, Written
<1>5. CASE Coverage \/ ReadBaseline \/ CheckOut \/ MeasureBase \/ Patch
  BY <1>5 DEF Coverage, ReadBaseline, CheckOut, MeasureBase, Patch, Comes, TypeOK, machine, history, command,
              component, Stage, Place, Written
<1>6. CASE Interrupt \/ Kill
  <2>1. cut' \in BOOLEAN
    BY <1>6 DEF Interrupt, Kill, Unchecked, TypeOK
  <2>2. CASE Interrupt
    BY <2>1, <2>2 DEF Interrupt, Inside, TypeOK, machine, command, component
  <2>3. CASE Kill
    BY <2>1, <2>3 DEF Kill, TypeOK, machine, Stage, Place
  <2> QED
    BY <1>6, <2>2, <2>3
<1>7. ASSUME NEW c \in Component, Start(c) \/ Prepare(c) \/ Setup(c) \/ Teardown(c)
      PROVE  TypeOK'
  BY <1>7 DEF Start, Prepare, Setup, Teardown, Go, Says, cleared, TypeOK, machine, history, command, Place, Written
<1>8. ASSUME NEW c \in Component, StartServices(c) \/ Down(c)
      PROVE  TypeOK'
  BY <1>8 DEF StartServices, Down, Go, Says, TypeOK, machine, history, command, Place
<1>9. ASSUME NEW c \in Component, RunSuite(c)
      PROVE  TypeOK'
  BY <1>9, ScopesAreScopes, NoTestsRecorded, OutcomesRecorded
     DEF RunSuite, Go, Says, TypeOK, history, command, Place, Written
<1>10. ASSUME NEW c \in Component, Rerun(c)
      PROVE  TypeOK'
  <2>1. PICK s \in unrun[c] : \E ran \in Reruns(c, s) \cup {NoTests} :
          /\ verdict' = [t \in Test |->
                IF t \in Runnable(c, s, Ran(c))
                THEN compare(ReadOutcome(Ran(c), key(t)), ReadOutcome(ran, key(t)))
                ELSE verdict[t]]
          /\ two' = [t \in Test |-> IF t \in DOMAIN ran THEN ran[t] ELSE two[t]]
          /\ unrun' = [unrun EXCEPT ![c] = @ \ {s}]
    BY <1>10 DEF Rerun
  <2>2. PICK ran \in Reruns(c, s) \cup {NoTests} :
          /\ verdict' = [t \in Test |->
                IF t \in Runnable(c, s, Ran(c))
                THEN compare(ReadOutcome(Ran(c), key(t)), ReadOutcome(ran, key(t)))
                ELSE verdict[t]]
          /\ two' = [t \in Test |-> IF t \in DOMAIN ran THEN ran[t] ELSE two[t]]
    BY <2>1
  <2>3. verdict' \in [Test -> {None, "unmeasured", "skipped", "agreed", "disagreed"}]
    BY <2>2, CompareWords DEF TypeOK
  <2>4. two' \in [Test -> Outcome \cup {"absent"}]
    BY <2>2, RerunsRecorded DEF TypeOK, Recorded
  <2>5. unrun' \in [Component -> SUBSET { Scope[t] : t \in Test }]
    BY <2>1 DEF TypeOK
  <2> QED
    BY <1>10, <2>3, <2>4, <2>5 DEF Rerun, TypeOK, machine, command
<1>11. ASSUME NEW c \in Component, Examine(c)
      PROVE  TypeOK'
  BY <1>11, RowWords DEF Examine, Go, TypeOK, machine, history, command, Place
<1>12. ASSUME NEW c \in Component, Measure(c)
      PROVE  TypeOK'
  BY <1>12 DEF Measure, Go, TypeOK, machine, history, command, Place, Written
<1>13. CASE UNCHANGED vars
  BY <1>13 DEF vars, machine, history, command, component, TypeOK
<1> QED
  BY <1>1, <1>2, <1>3, <1>4, <1>5, <1>6, <1>7, <1>8, <1>9, <1>10, <1>11, <1>12, <1>13
     DEF Next, CommandStep, ComponentStep

-----------------------------------------------------------------------------
Quiet ==
    \/ Schedule \/ Stop \/ FlakyStage \/ Coverage \/ ReadBaseline \/ CheckOut \/ MeasureBase \/ Patch
    \/ Render

LEMMA QuietFrame ==
  ASSUME Quiet
  PROVE  /\ UNCHANGED <<cancelled, runs, selected, ready, at, row, meas, frow, stacks, report, left, cut>>
         /\ stage \in {"settling"} \cup Later /\ stage' \in Later \cup {"exited"}
  BY DEF Quiet, Schedule, Stop, FlakyStage, Coverage, ReadBaseline, CheckOut, MeasureBase, Patch, Render,
         Comes, command, component, machine, history, Later

LEMMA ComponentFrame ==
  ASSUME TypeOK, NEW c \in Component, ComponentStep(c)
  PROVE  /\ UNCHANGED <<stage, cancelled, runs, selected, ready, sched, gate, exit, cut>>
         /\ at[c] = "notrun" => stage = "running" /\ c \in ready
         /\ at[c] # "returned" /\ at'[c] # "notrun"
         /\ \A d \in Component \ {c} : /\ at'[d] = at[d] /\ row'[d] = row[d]
                                       /\ meas'[d] = meas[d] /\ frow'[d] = frow[d]
                                       /\ d \in stacks' <=> d \in stacks
                                       /\ d \in left' <=> d \in left
                                       /\ ReportOf[d] # ReportOf[c] => report'[ReportOf[d]] = report[ReportOf[d]]
<1> USE DEF TypeOK, Go, Says, machine, history, command
<1>1. CASE Start(c)
  BY <1>1 DEF Start, cleared
<1>2. CASE Prepare(c) \/ Setup(c) \/ Teardown(c)
  BY <1>2 DEF Prepare, Setup, Teardown
<1>3. CASE StartServices(c) \/ Down(c)
  BY <1>3 DEF StartServices, Down
<1>4. CASE RunSuite(c)
  BY <1>4 DEF RunSuite
<1>5. CASE Rerun(c) \/ Examine(c) \/ Measure(c)
  BY <1>5 DEF Rerun, Examine, Measure
<1> QED
  BY <1>1, <1>2, <1>3, <1>4, <1>5 DEF ComponentStep

LEMMA PlaceNext ==
  ASSUME RunInv, [Next]_vars, NEW d \in Component
  PROVE  PlaceInv(d)'
<1>0. TypeOK /\ PlaceInv(d)
  BY DEF RunInv
<1>1. CASE Begin
  BY <1>0, <1>1 DEF Begin, Fresh, PlaceInv, machine, Composed
<1>2. CASE Plan
  BY <1>0, <1>2 DEF Plan, PlaceInv, machine, Composed
<1>3. CASE Settle
  BY <1>0, <1>3 DEF Settle, schedulerReturned, Inside, PlaceInv, machine, Composed
<1>4. CASE Quiet
  BY <1>0, <1>4, QuietFrame DEF PlaceInv, Later, Composed
<1>5. CASE Interrupt \/ Kill
  BY <1>0, <1>5 DEF Interrupt, Kill, PlaceInv, machine, command, component, TypeOK, Composed
<1>6. ASSUME NEW c \in Component, ComponentStep(c)
      PROVE  PlaceInv(d)'
  <2>1. CASE c # d
    BY <1>0, <1>6, <2>1, ComponentFrame DEF PlaceInv, Composed
  <2>2. CASE c = d
    <3>1. stage' = stage /\ ready' = ready /\ (at[d] = "notrun" => stage = "running" /\ c \in ready)
      BY <1>0, <1>6, <2>2, ComponentFrame
    <3>2. at'[d] # "notrun" /\ at[d] # "returned"
      BY <1>0, <1>6, <2>2, ComponentFrame
    <3>3. stage = "running" /\ c \in ready
      BY <1>0, <2>2, <3>1, <3>2 DEF PlaceInv
    <3>4. (at'[d] = "starting" => Composed(d)) /\ (d \in stacks' => Composed(d))
      BY <1>0, <1>6, <2>2 DEF ComponentStep, Start, Prepare, StartServices, Setup, RunSuite, Rerun, Examine,
                            Measure, Teardown, Down, Go, PlaceInv, TypeOK, machine
    <3> QED
      BY <2>2, <3>1, <3>2, <3>3, <3>4 DEF PlaceInv, Composed
  <2> QED
    BY <2>1, <2>2
<1>7. CASE UNCHANGED vars
  BY <1>0, <1>7 DEF vars, command, component, machine, PlaceInv, Composed
<1> QED
  BY <1>1, <1>2, <1>3, <1>4, <1>5, <1>6, <1>7 DEF Next, CommandStep, Quiet

LEMMA ServicesNext ==
  ASSUME RunInv, [Next]_vars, NEW d \in Component
  PROVE  ServicesInv(d)'
<1>0. TypeOK /\ PlaceInv(d) /\ ServicesInv(d)
  BY DEF RunInv
<1>1. CASE Begin
  BY <1>0, <1>1 DEF Begin, ServicesInv, PlaceInv, machine, Holding
<1>2. CASE Plan
  BY <1>0, <1>2 DEF Plan, ServicesInv, machine, history, Holding
<1>3. CASE Settle
  BY <1>0, <1>3 DEF Settle, ServicesInv, machine, history, Holding
<1>4. CASE Quiet
  BY <1>0, <1>4, QuietFrame DEF ServicesInv, Holding
<1>5. CASE Interrupt
  BY <1>0, <1>5 DEF Interrupt, ServicesInv, machine, component, Holding
<1>6. CASE Kill
  BY <1>0, <1>6 DEF Kill, ServicesInv, machine
<1>7. ASSUME NEW c \in Component, ComponentStep(c)
      PROVE  ServicesInv(d)'
  <2>1. CASE c # d
    BY <1>0, <1>7, <2>1, ComponentFrame DEF ServicesInv, Holding
  <2>2. CASE c = d
    <3> USE <1>0, <2>2 DEF ServicesInv, Holding, Go, TypeOK, machine, history
    <3>1. CASE Start(c) \/ Prepare(c) \/ Setup(c)
      BY <3>1 DEF Start, Prepare, Setup
    <3>2. CASE StartServices(c)
      BY <3>2 DEF StartServices
    <3>3. CASE RunSuite(c) \/ Rerun(c) \/ Examine(c) \/ Measure(c)
      BY <3>3 DEF RunSuite, Rerun, Examine, Measure
    <3>4. CASE Teardown(c)
      BY <3>4 DEF Teardown, PlaceInv
    <3>5. CASE Down(c)
      BY <3>5 DEF Down, detached
    <3> QED
      BY <1>7, <3>1, <3>2, <3>3, <3>4, <3>5 DEF ComponentStep
  <2> QED
    BY <2>1, <2>2
<1>8. CASE UNCHANGED vars
  BY <1>0, <1>8 DEF vars, component, machine, history, ServicesInv, Holding
<1> QED
  BY <1>1, <1>2, <1>3, <1>4, <1>5, <1>6, <1>7, <1>8 DEF Next, CommandStep, Quiet

LEMMA NothingInCommonIsApart ==
  ASSUME NEW c \in Component, NEW d \in Component, c # d,
         InCommon(ItemFor(c), ItemFor(d)) = {}
  PROVE  Apart(c, d) /\ Apart(d, c)
<1>1. ReportsAreTold => ReportOf[c] # ReportOf[d]
  BY DEF ReportsAreTold
<1>2. shared(ItemFor(c), ItemFor(d)) = {}
  <2>1. \A p \in shared(ItemFor(c), ItemFor(d)) : <<"port", p>> \in InCommon(ItemFor(c), ItemFor(d))
    BY DEF InCommon
  <2> QED
    BY <2>1
<1>3. shared(ItemFor(d), ItemFor(c)) = {}
  BY <1>2 DEF shared
<1> QED
  BY <1>1, <1>2, <1>3 DEF Apart

LEMMA ApartNext ==
  ASSUME RunInv, InsideApart, [Next]_vars
  PROVE  InsideApart'
<1>0. TypeOK /\ InsideApart /\ \A c \in Component : PlaceInv(c)
  BY DEF RunInv
<1>1. CASE Begin \/ Kill
  BY <1>1 DEF Begin, Fresh, Kill, InsideApart, Inside
<1>2. CASE Plan \/ Settle \/ Quiet \/ Interrupt \/ UNCHANGED vars
  <2>1. at' = at
    BY <1>2, QuietFrame DEF Plan, Settle, Interrupt, component, vars
  <2> QED
    BY <1>0, <2>1 DEF InsideApart, Inside, Apart
<1>3. ASSUME NEW c \in Component, ComponentStep(c)
      PROVE  InsideApart'
  <2>1. \A d \in Component \ {c} : at'[d] = at[d]
    BY <1>0, <1>3, ComponentFrame
  <2>2. CASE at[c] # "notrun"
    <3>1. Inside' \subseteq Inside
      BY <1>0, <1>3, <2>1, <2>2, ComponentFrame DEF Inside
    <3> QED
      BY <1>0, <3>1 DEF InsideApart, Apart
  <2>3. CASE at[c] = "notrun"
    <3>1. Start(c)
      BY <1>3, <2>3 DEF ComponentStep, Prepare, StartServices, Setup, RunSuite, Rerun, Examine, Measure,
                        Teardown, Down
    <3>2. \A d \in Inside : Apart(c, d) /\ Apart(d, c)
      <4>1. c \notin Inside
        BY <2>3 DEF Inside
      <4> QED
        BY <3>1, <4>1, NothingInCommonIsApart DEF Start, Inside
    <3>3. Inside' \subseteq Inside \cup {c}
      BY <2>1 DEF Inside
    <3>4. ASSUME NEW a \in Inside', NEW b \in Inside', a # b
          PROVE  Apart(a, b)
      BY <1>0, <3>2, <3>3, <3>4 DEF InsideApart
    <3> HIDE DEF Inside
    <3> QED
      BY <3>4 DEF InsideApart, Apart
  <2> QED
    BY <2>2, <2>3
<1> QED
  BY <1>1, <1>2, <1>3 DEF Next, CommandStep, Quiet

LEMMA ReportNext ==
  ASSUME ReportsAreTold, RunInv, OwnInv, [Next]_vars, NEW d \in Component
  PROVE  ReportInv(d)'
<1>0. TypeOK /\ ReportInv(d) /\ PlaceInv(d) /\ InsideApart
  BY DEF RunInv, OwnInv
<1>1. CASE Begin \/ Kill
  BY <1>1 DEF Begin, Fresh, Kill, ReportInv
<1>2. CASE Plan \/ Settle \/ Quiet \/ Interrupt \/ UNCHANGED vars
  <2>1. UNCHANGED <<at, report, runs>>
    BY <1>2, QuietFrame DEF Plan, Settle, Interrupt, component, machine, command, vars
  <2> QED
    BY <1>0, <2>1 DEF ReportInv
<1>3. ASSUME NEW c \in Component, ComponentStep(c)
      PROVE  ReportInv(d)'
  <2>1. CASE c # d
    <3>1. at'[d] = at[d] /\ runs' = runs
      BY <1>0, <1>3, <2>1, ComponentFrame
    <3>2. CASE ReportOf[c] # ReportOf[d]
      BY <1>0, <1>3, <2>1, <3>1, <3>2, ComponentFrame DEF ReportInv
    <3>3. CASE ReportOf[c] = ReportOf[d] /\ at[d] \notin {"notrun", "returned"}
      <4>1. c \notin Inside
        BY <1>0, <2>1, <3>3 DEF InsideApart, Apart, Inside
      <4>2. Start(c)
        BY <1>3, <4>1 DEF Inside, ComponentStep, Prepare, StartServices, Setup, RunSuite, Rerun, Examine,
                          Measure, Teardown, Down
      <4>3. report'[ReportOf[d]] \in {NoReport, report[ReportOf[d]]}
        BY <1>0, <3>3, <4>2 DEF Start, cleared, TypeOK
      <4> QED
        BY <1>0, <3>1, <4>3 DEF ReportInv
    <3>4. CASE at[d] \in {"notrun", "returned"}
      BY <3>1, <3>4 DEF ReportInv
    <3> QED
      BY <3>2, <3>3, <3>4
  <2>2. CASE c = d
    <3> USE <1>0, <2>2 DEF ReportInv, Go, TypeOK, machine, command
    <3>1. CASE Start(c)
      BY <3>1 DEF Start, cleared
    <3>2. CASE RunSuite(c)
      BY <3>2 DEF RunSuite
    <3>3. CASE Prepare(c) \/ StartServices(c) \/ Setup(c) \/ Rerun(c) \/ Examine(c) \/ Measure(c) \/ Teardown(c)
               \/ Down(c)
      BY <3>3 DEF Prepare, StartServices, Setup, Rerun, Examine, Measure, Teardown, Down
    <3> QED
      BY <1>3, <3>1, <3>2, <3>3 DEF ComponentStep
  <2> QED
    BY <2>1, <2>2
<1> QED
  BY <1>1, <1>2, <1>3 DEF Next, CommandStep, Quiet

LEMMA MeasNext ==
  ASSUME RunInv, OwnInv, [Next]_vars, NEW d \in Component
  PROVE  MeasInv(d)'
<1>0. TypeOK /\ ReportInv(d) /\ PlaceInv(d) /\ MeasInv(d)
  BY DEF RunInv, OwnInv
<1>1. CASE Begin
  BY <1>1 DEF Begin, Fresh, MeasInv
<1>2. CASE Kill \/ Interrupt \/ UNCHANGED vars
  <2>1. UNCHANGED <<meas, row, runs>> /\ (stage' = stage \/ stage' = "exited")
    BY <1>2 DEF Kill, Interrupt, component, command, vars
  <2> QED
    BY <1>0, <2>1 DEF MeasInv
<1>3. CASE Plan
  BY <1>0, <1>3 DEF Plan, MeasInv
<1>4. CASE Settle
  BY <1>0, <1>4 DEF Settle, MeasInv, command
<1>5. CASE Quiet
  BY <1>0, <1>5, QuietFrame DEF MeasInv, Later
<1>6. ASSUME NEW c \in Component, ComponentStep(c)
      PROVE  MeasInv(d)'
  <2>1. CASE c # d
    BY <1>0, <1>6, <2>1, ComponentFrame DEF MeasInv
  <2>2. CASE c = d
    <3>1. stage' = "running" /\ runs' = runs
      BY <1>0, <1>6, <2>2, ComponentFrame DEF PlaceInv
    <3>2. CASE Measure(c)
      BY <1>0, <2>2, <3>1, <3>2 DEF Measure, MeasInv, ReportInv, TypeOK
    <3>3. CASE ~Measure(c)
      <4>1. meas' = meas
        BY <1>6, <3>3 DEF ComponentStep, Start, Prepare, StartServices, Setup, RunSuite, Rerun, Examine,
                          Teardown, Down
      <4> QED
        BY <1>0, <2>2, <3>1, <4>1 DEF MeasInv
    <3> QED
      BY <3>2, <3>3
  <2> QED
    BY <2>1, <2>2
<1> QED
  BY <1>1, <1>2, <1>3, <1>4, <1>5, <1>6 DEF Next, CommandStep, Quiet

LEMMA RowNext ==
  ASSUME RunInv, [Next]_vars, NEW d \in Component
  PROVE  RowInv(d)'
<1>0. TypeOK /\ PlaceInv(d) /\ RowInv(d)
  BY DEF RunInv
<1>1. CASE Begin \/ Kill
  BY <1>1 DEF Begin, Kill, RowInv, Later
<1>2. CASE Plan
  BY <1>0, <1>2 DEF Plan, RowInv, PlaceInv, Later
<1>3. CASE Settle
  BY <1>0, <1>3 DEF Settle, schedulerReturned, RowInv, command, TypeOK, Later
<1>4. CASE Schedule
  BY <1>0, <1>4, QuietFrame DEF Schedule, component, RowInv, Later
<1>5. CASE Quiet /\ ~Schedule
  <2>1. stage \in Later /\ sched' = sched
    BY <1>5 DEF Quiet, Stop, FlakyStage, Coverage, ReadBaseline, CheckOut, MeasureBase, Patch, Render, Comes,
                command, Later
  <2> QED
    BY <1>0, <1>5, <2>1, QuietFrame DEF RowInv, Later
<1>6. CASE Interrupt \/ UNCHANGED vars
  BY <1>0, <1>6 DEF Interrupt, RowInv, command, component, vars
<1>7. ASSUME NEW c \in Component, ComponentStep(c)
      PROVE  RowInv(d)'
  <2>1. CASE c # d
    BY <1>0, <1>7, <2>1, ComponentFrame DEF RowInv
  <2>2. CASE c = d
    <3>1. /\ stage = "running" /\ stage' = "running" /\ c \in ready
          /\ UNCHANGED <<cancelled, selected, ready>>
      BY <1>0, <1>7, <2>2, ComponentFrame DEF PlaceInv
    <3>2. at'[c] \in {"undoing", "examining", "measuring", "teardown", "stopping", "returned"}
            => row'[c] \in {"passed", "failed"}
      <4> USE <1>0, <2>2, <3>1 DEF RowInv, Go, Says, TypeOK, component
      <4>1. CASE Start(c) \/ Prepare(c) \/ StartServices(c) \/ Setup(c)
        BY <4>1 DEF Start, Prepare, StartServices, Setup
      <4>2. CASE RunSuite(c)
        BY <4>2 DEF RunSuite
      <4>3. CASE Rerun(c) \/ Examine(c) \/ Measure(c)
        BY <4>3 DEF Rerun, Examine, Measure, command
      <4>4. CASE Teardown(c) \/ Down(c)
        BY <4>4 DEF Teardown, Down, command
      <4> QED
        BY <1>7, <4>1, <4>2, <4>3, <4>4 DEF ComponentStep
    <3> QED
      BY <2>2, <3>1, <3>2 DEF RowInv, Later
  <2> QED
    BY <2>1, <2>2
<1> QED
  BY <1>1, <1>2, <1>3, <1>4, <1>5, <1>6, <1>7 DEF Next, CommandStep, Quiet

LEMMA GateNext ==
  ASSUME PatchGated, RunInv, EndInv, [Next]_vars
  PROVE  GateInv'
<1>0. TypeOK /\ GateInv /\ \A c \in Component : PlaceInv(c)
  BY DEF RunInv, EndInv
<1>1. CASE Begin
  BY <1>1 DEF Begin, GateInv, Later, None
<1>2. CASE Plan \/ Settle
  BY <1>0, <1>2 DEF Plan, Settle, GateInv, Later, history, command
<1>3. CASE Schedule \/ Stop \/ FlakyStage
  BY <1>0, <1>3 DEF Schedule, Stop, FlakyStage, GateInv, Later, history, command, None
<1>4. CASE Coverage
  BY <1>0, <1>4 DEF Coverage, Comes, GateInv, Later, history, Wanted
<1>5. CASE ReadBaseline \/ CheckOut \/ MeasureBase
  BY <1>0, <1>5 DEF ReadBaseline, CheckOut, MeasureBase, Comes, GateInv, Later, history, Wanted
<1>6. CASE Patch
  BY <1>0, <1>6 DEF Patch, Comes, GateInv, Later, history, Wanted
<1>7. CASE Render \/ Kill
  BY <1>0, <1>7 DEF Render, Kill, GateInv, Later, history
<1>8. CASE Interrupt
  BY <1>0, <1>8 DEF Interrupt, Unchecked, GateInv, Later, command
<1>9. ASSUME NEW c \in Component, ComponentStep(c)
      PROVE  GateInv'
  BY <1>0, <1>9, ComponentFrame DEF GateInv
<1>10. CASE UNCHANGED vars
  BY <1>0, <1>10 DEF vars, command, history, GateInv
<1> QED
  BY <1>1, <1>2, <1>3, <1>4, <1>5, <1>6, <1>7, <1>8, <1>9, <1>10 DEF Next, CommandStep

LEMMA GreenNext ==
  ASSUME PatchGated, RunInv, EndInv, [Next]_vars
  PROVE  GreenIsWhole'
<1>0. TypeOK /\ GateInv /\ GreenIsWhole
  BY DEF RunInv, EndInv
<1>1. CASE Begin \/ Kill
  BY <1>1 DEF Begin, Kill, GreenIsWhole, None
<1>2. CASE Render
  <2> SUFFICES ASSUME exit' = "green"
               PROVE  /\ ~cut'
                      /\ \A c \in selected' : row'[c] = "passed" /\ frow'[c] # "disagreed"
                      /\ gate' \in Wanted
    BY DEF GreenIsWhole, Wanted
  <2>1. stage = "render" /\ ~Failing /\ ~stopped
    BY <1>2 DEF Render
  <2>2. sched # "interrupted" /\ gate \notin {"unreached", "notgated"}
    BY <2>1 DEF Failing, stopped
  <2>3. sched = "complete" /\ ~cut /\ gate \in Wanted
    BY <1>0, <2>1, <2>2 DEF GateInv, TypeOK, Later
  <2>4. \A c \in selected : row[c] \in {"passed", "failed"}
    BY <2>1, <2>3 DEF RunInv, RowInv, TypeOK, Later
  <2>5. \A c \in selected : row[c] # "failed" /\ frow[c] # "disagreed"
    BY <2>1, <2>2 DEF Failing
  <2> QED
    BY <1>2, <2>3, <2>4, <2>5 DEF Render, component, history
<1>3. CASE stage = "exited" /\ ~Begin
  <2>1. \A c \in Component : ~ComponentStep(c)
    <3> TAKE c \in Component
    <3>1. at[c] \in {"notrun", "returned"}
      BY <1>3 DEF RunInv, PlaceInv
    <3> QED
      BY <1>0, <1>3, <3>1, ComponentFrame
  <2>2. UNCHANGED vars
    BY <1>3, <2>1 DEF Next, CommandStep, Plan, Settle, Schedule, Stop, FlakyStage, Coverage, ReadBaseline,
                      CheckOut, MeasureBase, Patch, Render, Interrupt, Kill
  <2> QED
    BY <1>0, <2>2 DEF vars, command, component, history, GreenIsWhole
<1>4. CASE stage # "exited" /\ ~Begin /\ ~Kill /\ ~Render
  <2>1. exit' = exit
    <3>1. \A c \in Component : ComponentStep(c) => exit' = exit
      BY <1>0, ComponentFrame
    <3> QED
      BY <1>4, <3>1 DEF Next, CommandStep, Plan, Settle, Schedule, Stop, FlakyStage, Coverage, ReadBaseline,
                        CheckOut, MeasureBase, Patch, Interrupt, Comes, command, vars
  <2> QED
    BY <1>0, <1>4, <2>1 DEF GateInv, GreenIsWhole
<1> QED
  BY <1>1, <1>2, <1>3, <1>4

-----------------------------------------------------------------------------
OwnTests(c) == { t \in Test : Suite[t] = c }

(* A test has a verdict from the time its scope was rerun, after its suite; *)
(* what the suite came to stays as it was, so a later rerun of the scope   *)
(* would be of the same tests.                                             *)
Judged(t) ==
    /\ Suite[t] \in Component
    /\ at[Suite[t]] \notin {"preparing", "starting", "setup", "suite"}
    /\ at[Suite[t]] = "notrun" => stage = "exited"
    /\ t \in Runnable(Suite[t], Scope[t], Ran(Suite[t]))

VerdictInv ==
    /\ \A c \in Component : DOMAIN Ran(c) \subseteq OwnTests(c)
    /\ \A t \in Test : verdict[t] # None => Judged(t)
    /\ VerdictIsOwn

(***************************************************************************)
(* A report of a component's own tests says of one of them what it came    *)
(* to.                                                                     *)
(***************************************************************************)
LEMMA ReadsItsOwn ==
  ASSUME KeysAreOwn, NEW c, NEW ran, Recorded(ran), DOMAIN ran \subseteq OwnTests(c),
         NEW t \in OwnTests(c)
  PROVE  ReadOutcome(ran, key(t)) = IF t \in DOMAIN ran THEN ran[t] ELSE "absent"
<1> DEFINE under == { u \in DOMAIN ran : key(u) = key(t) }
           recorded == { ran[u] : u \in under }
<1>1. under = IF t \in DOMAIN ran THEN {t} ELSE {}
  BY DEF KeysAreOwn, OwnTests
<1>2. recorded = IF t \in DOMAIN ran THEN {ran[t]} ELSE {}
  BY <1>1
<1>3. ReadOutcome(ran, key(t)) =
        IF recorded = {} THEN "absent"
        ELSE CHOOSE o \in recorded : \/ o = "fail"
                                     \/ o = "skip" /\ "fail" \notin recorded
                                     \/ recorded = {"pass"}
  BY DEF ReadOutcome
<1> HIDE DEF recorded
<1>4. CASE t \notin DOMAIN ran
  BY <1>2, <1>3, <1>4
<1>5. CASE t \in DOMAIN ran
  <2>1. ran[t] \in {"pass", "fail", "skip"}
    BY <1>5 DEF Recorded, Outcome
  <2> QED
    BY <1>2, <1>3, <1>5, <2>1
<1> QED
  BY <1>4, <1>5

LEMMA RunnableIsOwn ==
  ASSUME NEW c, NEW s, NEW run1
  PROVE  /\ \A t \in Runnable(c, s, run1) : Suite[t] = c /\ Scope[t] = s
         /\ Filtered(c, s, run1) \subseteq OwnTests(c)
         /\ \A t \in Filtered(c, s, run1) : Scope[t] = s
BY DEF Runnable, expand, NewTests, Filtered, OwnTests

(***************************************************************************)
(* What a comparison of two outcomes establishes.                          *)
(***************************************************************************)
LEMMA CompareEstablishes ==
  ASSUME NEW a, NEW b
  PROVE  /\ compare(a, b) = "disagreed" => a # "absent" /\ b # "absent" /\ a # b
         /\ compare(a, b) \in {"agreed", "skipped"} => a # "absent" /\ b # "absent" /\ a = b
BY DEF compare

(* A rerun of one scope leaves the verdicts of the others.                  *)
LEMMA RerunJudges ==
  ASSUME KeysAreOwn, TypeOK, VerdictInv, NEW c \in Component, Rerun(c)
  PROVE  VerdictInv'
<1>1. PICK s \in unrun[c] : \E ran \in Reruns(c, s) \cup {NoTests} :
         /\ verdict' = [t \in Test |->
                IF t \in Runnable(c, s, Ran(c))
                THEN compare(ReadOutcome(Ran(c), key(t)), ReadOutcome(ran, key(t)))
                ELSE verdict[t]]
         /\ two' = [t \in Test |-> IF t \in DOMAIN ran THEN ran[t] ELSE two[t]]
  BY DEF Rerun
<1>2. PICK ran \in Reruns(c, s) \cup {NoTests} :
         /\ verdict' = [t \in Test |->
                IF t \in Runnable(c, s, Ran(c))
                THEN compare(ReadOutcome(Ran(c), key(t)), ReadOutcome(ran, key(t)))
                ELSE verdict[t]]
         /\ two' = [t \in Test |-> IF t \in DOMAIN ran THEN ran[t] ELSE two[t]]
  BY <1>1
<1>3. at[c] = "examining" /\ UNCHANGED <<stage, at, one>>
  BY DEF Rerun
<1>4. /\ DOMAIN ran \subseteq OwnTests(c) /\ Recorded(ran)
      /\ \A t \in DOMAIN ran : t \in Filtered(c, s, Ran(c))
  <2>1. CASE ran = NoTests
    BY <2>1, NoTestsRecorded DEF NoTests
  <2>2. CASE ran \in Reruns(c, s)
    <3>1. DOMAIN ran \subseteq Filtered(c, s, Ran(c))
      <4> HIDE DEF Filtered
      <4> QED BY <2>2 DEF Reruns
    <3> QED
      BY <3>1, RunnableIsOwn, RerunsRecorded
  <2> QED
    BY <2>1, <2>2
<1>5. DOMAIN Ran(c) \subseteq OwnTests(c) /\ Recorded(Ran(c))
  BY DEF VerdictInv, TypeOK, Ran
<1>6. ASSUME NEW t \in Test, t \in Runnable(c, s, Ran(c))
      PROVE  /\ Judged(t)'
             /\ verdict'[t] = "disagreed" => t \in DOMAIN Ran(Suite[t]) /\ Ran(Suite[t])[t] # two'[t]
             /\ verdict'[t] \in {"agreed", "skipped"} => t \in DOMAIN Ran(Suite[t]) /\ Ran(Suite[t])[t] = two'[t]
  <2>1. Suite[t] = c /\ Scope[t] = s /\ t \in OwnTests(c)
    BY <1>6, RunnableIsOwn DEF OwnTests
  <2>2. /\ ReadOutcome(Ran(c), key(t)) = IF t \in DOMAIN Ran(c) THEN Ran(c)[t] ELSE "absent"
        /\ ReadOutcome(ran, key(t)) = IF t \in DOMAIN ran THEN ran[t] ELSE "absent"
    BY <1>4, <1>5, <2>1, ReadsItsOwn
  <2>3. verdict'[t] = compare(ReadOutcome(Ran(c), key(t)), ReadOutcome(ran, key(t)))
        /\ two'[t] = IF t \in DOMAIN ran THEN ran[t] ELSE two[t]
    BY <1>2, <1>6
  <2>4. Judged(t)'
    <3> HIDE DEF Runnable
    <3> QED BY <1>3, <1>6, <2>1 DEF Judged, Ran
  <2>5. /\ verdict'[t] = "disagreed" => t \in DOMAIN Ran(c) /\ t \in DOMAIN ran /\ Ran(c)[t] # ran[t]
        /\ verdict'[t] \in {"agreed", "skipped"} => t \in DOMAIN Ran(c) /\ t \in DOMAIN ran /\ Ran(c)[t] = ran[t]
    BY <2>2, <2>3, CompareEstablishes
  <2> QED
    BY <2>1, <2>3, <2>4, <2>5
<1>7. ASSUME NEW t \in Test, t \notin Runnable(c, s, Ran(c))
      PROVE  /\ verdict'[t] = verdict[t]
             /\ verdict'[t] # None => two'[t] = two[t] /\ Judged(t)'
  <2>1. verdict'[t] = verdict[t] /\ two'[t] = IF t \in DOMAIN ran THEN ran[t] ELSE two[t]
    BY <1>2, <1>7
  <2>2. verdict[t] # None => Judged(t)
    BY DEF VerdictInv
  <2>3. Judged(t) => t \notin DOMAIN ran
    <3>1. t \in DOMAIN ran => Suite[t] = c /\ Scope[t] = s
      BY <1>4, RunnableIsOwn DEF OwnTests
    <3> QED
      BY <1>7, <3>1 DEF Judged
  <2>4. Judged(t) => Judged(t)'
    BY <1>3 DEF Judged, Ran
  <2> QED
    BY <2>1, <2>2, <2>3, <2>4
<1>8. one' = one
  BY <1>3
<1>9. \A t \in Test : verdict'[t] # None => Judged(t)'
  BY <1>6, <1>7
<1>10. ASSUME NEW t \in Test
       PROVE  /\ verdict'[t] = "disagreed" => t \in DOMAIN Ran(Suite[t]) /\ Ran(Suite[t])[t] # two'[t]
              /\ verdict'[t] \in {"agreed", "skipped"} =>
                    t \in DOMAIN Ran(Suite[t]) /\ Ran(Suite[t])[t] = two'[t]
  <2>1. CASE t \notin Runnable(c, s, Ran(c))
    BY <1>7, <2>1 DEF VerdictInv, VerdictIsOwn, None
  <2> QED
    BY <1>6, <2>1
<1> QED
  BY <1>8, <1>9, <1>10 DEF VerdictInv, VerdictIsOwn, Ran

LEMMA VerdictNext ==
  ASSUME KeysAreOwn, RunInv, VerdictInv, [Next]_vars
  PROVE  VerdictInv'
<1>0. TypeOK
  BY DEF RunInv
<1>1. CASE Begin
  <2>1. \A t \in Test : verdict'[t] = None
    BY <1>1 DEF Begin, Fresh
  <2>2. \A c \in Component : DOMAIN one'[c] = {}
    BY <1>1 DEF Begin, Fresh, NoTests
  <2> QED
    BY <2>1, <2>2 DEF VerdictInv, VerdictIsOwn, Ran, None
<1> DEFINE Kept == UNCHANGED <<verdict, two, one>>
<1>2. ASSUME Kept, \A t \in Test : verdict[t] # None => Judged(t)'
      PROVE  VerdictInv'
  BY <1>2 DEF VerdictInv, VerdictIsOwn, Ran
<1>3. CASE Plan \/ Settle \/ Quiet \/ Interrupt \/ UNCHANGED vars
  <2>1. Kept /\ at' = at /\ (stage = "exited" => stage' = "exited")
    BY <1>3 DEF Plan, Settle, Quiet, Schedule, Stop, FlakyStage, Coverage, ReadBaseline, CheckOut,
                MeasureBase, Patch, Render, Comes, Interrupt, vars, command, component, machine, history
  <2>2. \A t \in Test : Judged(t) => Judged(t)'
    <3> HIDE DEF Runnable
    <3> QED BY <2>1 DEF Judged, Ran
  <2> QED
    BY <1>2, <2>1, <2>2 DEF VerdictInv
<1>4. CASE Kill
  <2>1. Kept /\ stage' = "exited" /\ \A c \in Component : at'[c] = "notrun"
    BY <1>4 DEF Kill
  <2>2. \A t \in Test : Judged(t) => Judged(t)'
    BY <2>1 DEF Judged, Ran
  <2> QED
    BY <1>2, <2>1, <2>2 DEF VerdictInv
<1>5. ASSUME NEW c \in Component, ComponentStep(c)
      PROVE  VerdictInv'
  <2>1. /\ stage' = stage /\ at'[c] # "notrun" /\ \A d \in Component \ {c} : at'[d] = at[d]
        /\ at[c] = "notrun" => stage = "running"
    BY <1>0, <1>5, ComponentFrame
  <2>2. CASE Rerun(c)
    BY <1>0, <2>2, RerunJudges
  <2>3. CASE RunSuite(c)
    <3>1. PICK ran \in Outcomes[c] : \E wrote \in BOOLEAN : one' = [one EXCEPT ![c] = IF wrote THEN ran ELSE NoTests]
      BY <2>3 DEF RunSuite
    <3>2. UNCHANGED <<verdict, two>> /\ at[c] = "suite"
      BY <2>3 DEF RunSuite, history
    <3>3. \A t \in Test : verdict[t] # None => Suite[t] # c
      BY <3>2 DEF VerdictInv, Judged
    <3>4. /\ \A d \in Component \ {c} : one'[d] = one[d]
          /\ DOMAIN one'[c] \subseteq OwnTests(c)
      BY <1>0, <3>1, TestRunAssumption DEF TypeOK, OwnTests, NoTests
    <3>5. \A t \in Test : verdict[t] # None => Judged(t)'
      <4> SUFFICES ASSUME NEW t \in Test, verdict[t] # None PROVE Judged(t)'
        OBVIOUS
      <4>1. Suite[t] \in Component \ {c} /\ Judged(t)
        BY <3>3 DEF VerdictInv, Judged
      <4>2. one'[Suite[t]] = one[Suite[t]] /\ at'[Suite[t]] = at[Suite[t]]
        BY <2>1, <3>4, <4>1
      <4> QED
        BY <2>1, <4>1, <4>2 DEF Judged, Ran
    <3>6. \A t \in Test : verdict[t] # None => one'[Suite[t]] = one[Suite[t]]
      BY <3>3, <3>4 DEF VerdictInv, Judged
    <3> QED
      BY <3>2, <3>4, <3>5, <3>6 DEF VerdictInv, VerdictIsOwn, Ran, None
  <2>4. CASE ~Rerun(c) /\ ~RunSuite(c)
    <3>1. Kept
      BY <1>5, <2>4 DEF ComponentStep, Start, Prepare, StartServices, Setup, Examine, Measure, Teardown, Down,
                        history
    <3>2. /\ at[c] \notin {"preparing", "starting", "setup", "suite", "notrun"} =>
                at'[c] \notin {"preparing", "starting", "setup", "suite"}
      BY <1>0, <1>5, <2>4 DEF ComponentStep, Start, Prepare, StartServices, Setup, Examine, Measure, Teardown,
                        Down, Go, TypeOK
    <3>3. \A t \in Test : Judged(t) => Judged(t)'
      <4> SUFFICES ASSUME NEW t \in Test, Judged(t) PROVE Judged(t)'
        OBVIOUS
      <4>1. at[Suite[t]] = "notrun" => Suite[t] # c
        BY <2>1 DEF Judged
      <4>2. /\ at'[Suite[t]] \notin {"preparing", "starting", "setup", "suite"}
            /\ at'[Suite[t]] = "notrun" => stage = "exited"
        <5>1. CASE Suite[t] = c
          BY <2>1, <3>2, <4>1, <5>1 DEF Judged
        <5>2. CASE Suite[t] # c
          BY <2>1, <5>2 DEF Judged
        <5> QED
          BY <5>1, <5>2
      <4> QED
        BY <2>1, <3>1, <4>2 DEF Judged, Ran
    <3> QED
      BY <1>2, <3>1, <3>3 DEF VerdictInv
  <2> QED
    BY <2>2, <2>3, <2>4
<1> QED
  BY <1>1, <1>3, <1>4, <1>5 DEF Next, CommandStep, Quiet

-----------------------------------------------------------------------------
LEMMA RunIsInvariant == Spec => []RunInv
<1>1. Init => RunInv
  BY TypeInit DEF Init, RunInv, PlaceInv, ServicesInv, RowInv, Later
<1>2. RunInv /\ [Next]_vars => RunInv'
  BY TypeNext, PlaceNext, ServicesNext, RowNext DEF RunInv
<1> QED
  BY <1>1, <1>2, PTL DEF Spec

LEMMA ApartIsInvariant == Spec => []InsideApart
<1>1. Init => InsideApart
  BY DEF Init, InsideApart, Inside
<1>2. RunInv /\ InsideApart /\ [Next]_vars => InsideApart'
  BY ApartNext
<1> QED
  BY <1>1, <1>2, RunIsInvariant, PTL DEF Spec

(* Every variable keeps its type: TypeOK.                                   *)
THEOREM TypeCorrect == Spec => []TypeOK
<1>1. RunInv => TypeOK
  BY DEF RunInv
<1> QED
  BY <1>1, RunIsInvariant, PTL

(***************************************************************************)
(* StacksAccountedFor: whatever fails, is interrupted or killed, a stack   *)
(* that is up is held by its component's run or known to be left behind.   *)
(***************************************************************************)
THEOREM NoPathLeaksAStack == Spec => []StacksAccountedFor
<1>1. RunInv => StacksAccountedFor
  BY DEF RunInv, TypeOK, ServicesInv, StacksAccountedFor
<1> QED
  BY <1>1, RunIsInvariant, PTL

(***************************************************************************)
(*                  What a compose file's closure reaches                  *)
(***************************************************************************)

(***************************************************************************)
(* A set of naturals has a smallest element.                               *)
(***************************************************************************)
LessThan == { ss \in Nat \X Nat : ss[1] < ss[2] }

LEMMA FirstOf ==
  ASSUME NEW T \in SUBSET Nat, T # {}
  PROVE  \E x \in T : \A y \in T : ~(y < x)
<1>1. IsWellFoundedOn(LessThan, Nat)
  BY NatLessThanWellFounded DEF OpToRel, LessThan
<1>2. PICK x \in T : \A y \in T : <<y, x>> \notin LessThan
  BY <1>1, WFMin
<1>3. ASSUME NEW y \in T
      PROVE  ~(y < x)
  <2>1. x \in Nat /\ y \in Nat
    OBVIOUS
  <2>2. y < x => <<y, x>> \in LessThan
    BY <2>1 DEF LessThan
  <2>3. QED
    BY <1>2, <2>2
<1>4. QED
  BY <1>3

(***************************************************************************)
(* What a walk of n steps over the dependencies in D reaches from start.   *)
(***************************************************************************)
Below(D, w, S) == { d \in D : \E s \in S : d \in w[s].deps }

Walk(D, start, w, n, p) ==
    /\ p \in [0 .. n -> D] /\ p[0] \in start
    /\ \A i \in 1 .. n : p[i] = p[i - 1] \/ p[i] \in w[p[i - 1]].deps

Layers(D, start, w) == [n \in Nat |-> { d \in D : \E p : Walk(D, start, w, n, p) /\ p[n] = d }]

IsLayers(D, start, w, v) == v = [n \in Nat |-> IF n = 0 THEN start ELSE v[n - 1] \cup Below(D, w, v[n - 1])]

LEMMA LayersExist ==
  ASSUME NEW D, NEW start \in SUBSET D, NEW w
  PROVE  IsLayers(D, start, w, Layers(D, start, w))
<1> DEFINE v == Layers(D, start, w)
<1>1. v[0] = start
  <2>1. ASSUME NEW d \in v[0]
        PROVE  d \in start
    BY DEF Layers, Walk
  <2>2. ASSUME NEW d \in start
        PROVE  d \in v[0]
    <3>1. Walk(D, start, w, 0, [i \in 0 .. 0 |-> d]) /\ [i \in 0 .. 0 |-> d][0] = d
      BY DEF Walk
    <3>2. QED
      BY <3>1 DEF Layers
  <2>3. QED
    BY <2>1, <2>2
<1>2. ASSUME NEW n \in Nat, n # 0
      PROVE  v[n] = v[n - 1] \cup Below(D, w, v[n - 1])
  <2>1. n - 1 \in Nat /\ n \in 1 .. n /\ n - 1 \in 0 .. n /\ n \in 0 .. n
    BY <1>2
  <2>2. ASSUME NEW d \in v[n]
        PROVE  d \in v[n - 1] \cup Below(D, w, v[n - 1])
    <3>1. PICK p : Walk(D, start, w, n, p) /\ p[n] = d
      BY DEF Layers
    <3> DEFINE q == [i \in 0 .. (n - 1) |-> p[i]]
    <3>2. Walk(D, start, w, n - 1, q) /\ q[n - 1] = p[n - 1] /\ p[n - 1] \in D /\ d \in D
      BY <2>1, <3>1 DEF Walk
    <3>3. q[n - 1] \in v[n - 1]
      <4> HIDE DEF q
      <4>1. QED
        BY <2>1, <3>2 DEF Layers
    <3>4. p[n] = p[n - 1] \/ p[n] \in w[p[n - 1]].deps
      BY <2>1, <3>1 DEF Walk
    <3>5. QED
      BY <3>1, <3>2, <3>3, <3>4 DEF Below
  <2>3. ASSUME NEW d \in v[n - 1] \cup Below(D, w, v[n - 1])
        PROVE  d \in v[n]
    <3>1. PICK s \in v[n - 1] : d \in D /\ (d = s \/ d \in w[s].deps)
      BY <2>1 DEF Below, Layers
    <3>2. PICK p : Walk(D, start, w, n - 1, p) /\ p[n - 1] = s
      BY <2>1 DEF Layers
    <3> DEFINE q == [i \in 0 .. n |-> IF i = n THEN d ELSE p[i]]
    <3>3. Walk(D, start, w, n, q)
      <4>1. q \in [0 .. n -> D] /\ q[0] \in start
        BY <2>1, <1>2, <3>1, <3>2 DEF Walk
      <4>2. ASSUME NEW i \in 1 .. n
            PROVE  q[i] = q[i - 1] \/ q[i] \in w[q[i - 1]].deps
        <5>1. CASE i = n
          BY <2>1, <3>1, <3>2, <5>1
        <5>2. CASE i # n
          BY <3>2, <5>2 DEF Walk
        <5>3. QED
          BY <5>1, <5>2
      <4> HIDE DEF q
      <4>3. QED
        BY <4>1, <4>2 DEF Walk
    <3>4. q[n] = d
      BY <2>1
    <3> HIDE DEF q
    <3>5. QED
      BY <3>1, <3>3, <3>4 DEF Layers
  <2>4. QED
    BY <2>2, <2>3
<1>3. v = [n \in Nat |-> v[n]]
  BY DEF Layers
<1> HIDE DEF v
<1>4. v = [n \in Nat |-> IF n = 0 THEN start ELSE v[n - 1] \cup Below(D, w, v[n - 1])]
  BY <1>1, <1>2, <1>3
<1>5. QED
  BY <1>4 DEF IsLayers, v

Closed(D, w, S) == Below(D, w, S) \subseteq S

LEMMA LayersGrow ==
  ASSUME NEW D, NEW start \in SUBSET D, NEW w, NEW v, IsLayers(D, start, w, v),
         NEW T \in SUBSET D, start \subseteq T, Closed(D, w, T)
  PROVE  \A n \in Nat : start \subseteq v[n] /\ v[n] \subseteq T
<1> DEFINE Bad == { n \in Nat : ~(start \subseteq v[n] /\ v[n] \subseteq T) }
<1>1. \A n \in Nat : v[n] = IF n = 0 THEN start ELSE v[n - 1] \cup Below(D, w, v[n - 1])
  BY DEF IsLayers
<1>2. ASSUME Bad # {}
      PROVE  FALSE
  <2>1. PICK m \in Bad : \A n \in Bad : ~(n < m)
    BY <1>2, FirstOf
  <2>2. m # 0
    BY <1>1, <2>1
  <2>3. m - 1 \in Nat /\ m - 1 < m /\ m \in Nat
    BY <2>1, <2>2
  <2>4. start \subseteq v[m - 1] /\ v[m - 1] \subseteq T
    BY <2>1, <2>3
  <2>5. v[m] = v[m - 1] \cup Below(D, w, v[m - 1])
    BY <1>1, <2>2, <2>3
  <2>6. Below(D, w, v[m - 1]) \subseteq T
    BY <2>4 DEF Below, Closed
  <2>7. QED
    BY <2>1, <2>4, <2>5, <2>6
<1>3. QED
  BY <1>2

(***************************************************************************)
(* A layer that is not closed is smaller than the next, so the walk has    *)
(* ended after as many steps as there are services.                        *)
(***************************************************************************)
LEMMA LayersEnd ==
  ASSUME NEW D, IsFiniteSet(D), NEW start \in SUBSET D, NEW w, NEW v, IsLayers(D, start, w, v)
  PROVE  Closed(D, w, v[Cardinality(D)])
<1> DEFINE Bad == { n \in Nat : ~(Closed(D, w, v[n]) \/ Cardinality(v[n]) >= n) }
<1>1. \A n \in Nat : v[n] = IF n = 0 THEN start ELSE v[n - 1] \cup Below(D, w, v[n - 1])
  BY DEF IsLayers
<1>2. Closed(D, w, D)
  BY DEF Closed, Below
<1>3. \A n \in Nat : v[n] \subseteq D
  BY <1>2, LayersGrow
<1>4. \A n \in Nat : IsFiniteSet(v[n]) /\ Cardinality(v[n]) \in Nat /\ Cardinality(v[n]) <= Cardinality(D)
                     /\ (Cardinality(v[n]) = Cardinality(D) => v[n] = D)
  BY <1>3, FS_Subset, FS_CardinalityType
<1>5. ASSUME Bad # {}
      PROVE  FALSE
  <2>1. PICK m \in Bad : \A n \in Bad : ~(n < m)
    BY <1>5, FirstOf
  <2>2. m # 0
    BY <1>4, <2>1
  <2>3. m - 1 \in Nat /\ m - 1 < m /\ m \in Nat
    BY <2>1, <2>2
  <2>4. Closed(D, w, v[m - 1]) \/ Cardinality(v[m - 1]) >= m - 1
    BY <2>1, <2>3
  <2>5. v[m] = v[m - 1] \cup Below(D, w, v[m - 1])
    BY <1>1, <2>2, <2>3
  <2>6. CASE Closed(D, w, v[m - 1])
    <3>1. v[m] = v[m - 1]
      BY <2>5, <2>6 DEF Closed
    <3>2. QED
      BY <2>1, <2>6, <3>1
  <2>7. CASE ~Closed(D, w, v[m - 1])
    <3>1. v[m - 1] \subseteq v[m] /\ v[m - 1] # v[m]
      BY <2>5, <2>7 DEF Closed
    <3>2. Cardinality(v[m - 1]) <= Cardinality(v[m]) /\ Cardinality(v[m - 1]) # Cardinality(v[m])
      BY <1>4, <2>3, <3>1, FS_Subset
    <3>3. Cardinality(v[m]) >= m
      BY <1>4, <2>3, <2>4, <2>7, <3>2
    <3>4. QED
      BY <2>1, <3>3
  <2>8. QED
    BY <2>6, <2>7
<1>6. Cardinality(D) \in Nat
  BY FS_CardinalityType
<1>7. CASE Cardinality(v[Cardinality(D)]) >= Cardinality(D)
  <2>1. v[Cardinality(D)] = D
    BY <1>4, <1>6, <1>7
  <2>2. QED
    BY <1>2, <2>1
<1>8. QED
  BY <1>5, <1>6, <1>7

\* What the scheduler is told of is what compose starts.
LEMMA ClosureIsStarted ==
  ASSUME NEW c \in Component
  PROVE  closure(c) = Started(c)
<1> DEFINE D == DOMAIN Services[c]
           is(v) == v = [n \in Nat |-> IF n = 0 THEN Named(c)
                                       ELSE v[n-1] \cup { d \in D : \E s \in v[n-1] : d \in Services[c][s].deps }]
           start == Named(c)
           n == Cardinality(D)
<1>1. IsFiniteSet(D) /\ start \subseteq D
  BY ComposeAssumption DEF Named
<1>2. closure(c) = (CHOOSE v : is(v))[n]
  BY DEF closure
<1>3. PICK w : w = Services[c]
  OBVIOUS
<1>4. \A v : is(v) <=> IsLayers(D, start, w, v)
  BY <1>3 DEF IsLayers, Below
<1> HIDE DEF is
<1>5. PICK v : is(v) /\ closure(c) = v[n]
  <2>1. \E v : is(v)
    BY <1>1, <1>4, LayersExist
  <2>2. is(CHOOSE v : is(v))
    BY <2>1
  <2>3. QED
    BY <1>2, <2>2
<1>6. IsLayers(D, start, w, v)
  BY <1>4, <1>5
<1>7. n \in Nat
  BY <1>1, FS_CardinalityType
<1>8. \A T \in SUBSET D : Closed(D, w, T) <=> \A t \in T : Services[c][t].deps \cap D \subseteq T
  BY <1>3 DEF Closed, Below
<1>9. \A T \in SUBSET D : start \subseteq T /\ Closed(D, w, T) => start \subseteq v[n] /\ v[n] \subseteq T
  <2> HIDE DEF D, start, n
  <2>1. ASSUME NEW T \in SUBSET D, start \subseteq T, Closed(D, w, T)
        PROVE  \A m \in Nat : start \subseteq v[m] /\ v[m] \subseteq T
    BY <1>1, <1>6, <2>1, LayersGrow
  <2>2. QED
    BY <1>7, <2>1
<1>10. Closed(D, w, v[n])
  BY <1>1, <1>6, LayersEnd
<1>11. v[n] \subseteq D /\ start \subseteq v[n]
  BY <1>1, <1>9 DEF Closed, Below
<1>12. Started(c) = { s \in D : \A T \in SUBSET D : start \subseteq T /\ (\A t \in T : Services[c][t].deps \cap D \subseteq T) => s \in T }
  BY DEF Started
<1> HIDE DEF D, start, n
<1>13. Started(c) \subseteq v[n]
  BY <1>8, <1>10, <1>11, <1>12
<1>14. v[n] \subseteq Started(c)
  BY <1>8, <1>9, <1>11, <1>12
<1>15. QED
  BY <1>5, <1>13, <1>14

\* Unless a range is published, the ports it is told of are those compose binds.
LEMMA PortsTold ==
  ASSUME NoRanges
  PROVE  \A c \in Component : HostPorts(c) = Bound(c)
<1>1. ASSUME NEW c \in Component
      PROVE  HostPorts(c) = Bound(c)
  <2> DEFINE R == UNION { Services[c][s].ports : s \in Started(c) }
  <2>1. Started(c) \subseteq DOMAIN Services[c]
    BY DEF Started
  <2>2. \A r \in R : r[1] \in Nat /\ r[1] = r[2]
    BY <2>1, ComposeAssumption DEF NoRanges, Described
  <2>3. HostPorts(c) = { r[1] : r \in R }
    BY ClosureIsStarted DEF HostPorts
  <2>4. Bound(c) = UNION { r[1] .. r[2] : r \in R }
    BY DEF Bound
  <2> HIDE DEF R
  <2>5. \A r \in R : r[1] .. r[2] = {r[1]}
    BY <2>2
  <2>6. QED
    BY <2>3, <2>4, <2>5
<1>2. QED
  BY <1>1

-----------------------------------------------------------------------------
(***************************************************************************)
(* RefusedOnlyByLeftovers: where no service publishes a range of ports,    *)
(* only a stack left behind can stand in a component's way, for any        *)
(* services, dependencies and selections.                                  *)
(***************************************************************************)
THEOREM PortsAreFree ==
  ASSUME NoRanges
  PROVE  Spec => []RefusedOnlyByLeftovers
<1>1. RunInv /\ InsideApart => RefusedOnlyByLeftovers
  <2> SUFFICES ASSUME RunInv, InsideApart,
                      NEW c \in Component, at[c] = "starting",
                      NEW d \in Holders(c), d \notin left
               PROVE  FALSE
    BY DEF RefusedOnlyByLeftovers
  <2>1. d \in stacks \ {c} /\ Bound(c) \cap Bound(d) # {} /\ d \in Component
    BY DEF Holders, RunInv, TypeOK
  <2>2. c \in Inside /\ d \in Inside
    BY <2>1 DEF RunInv, ServicesInv, Holding, Inside
  <2>3. shared(ItemFor(c), ItemFor(d)) = {}
    BY <2>1, <2>2 DEF InsideApart, Apart
  <2>4. HostPorts(c) \cap HostPorts(d) = {}
    BY <2>3 DEF shared, ItemFor
  <2> QED
    BY <2>1, <2>4, PortsTold
<1> QED
  BY <1>1, RunIsInvariant, ApartIsInvariant, PTL

(***************************************************************************)
(* MeasuredIsOwn: where components that write one report file do not run   *)
(* together, a measurement is of the report its component's suite wrote in *)
(* this run.                                                               *)
(***************************************************************************)
THEOREM ReportsAreOwn ==
  ASSUME ReportsAreTold
  PROVE  Spec => []MeasuredIsOwn
<1>1. Init => OwnInv
  BY DEF Init, OwnInv, InsideApart, Inside, ReportInv, MeasInv
<1>2. RunInv /\ OwnInv /\ [Next]_vars => OwnInv'
  BY ApartNext, ReportNext, MeasNext DEF OwnInv
<1>3. OwnInv => MeasuredIsOwn
  BY DEF OwnInv, MeasInv, MeasuredIsOwn
<1> QED
  BY <1>1, <1>2, <1>3, RunIsInvariant, PTL DEF Spec

(***************************************************************************)
(* GreenIsWhole: where some measured language's changed lines are gated, a *)
(* run exits green only if it made every check, on every component it      *)
(* selected, before a signal came.                                         *)
(***************************************************************************)
THEOREM GreenWasWhole ==
  ASSUME PatchGated
  PROVE  Spec => []GreenIsWhole
<1>1. Init => EndInv
  BY DEF Init, EndInv, GateInv, GreenIsWhole, Later, None
<1>2. RunInv /\ EndInv /\ [Next]_vars => EndInv'
  BY GateNext, GreenNext DEF EndInv
<1>3. EndInv => GreenIsWhole
  BY DEF EndInv
<1> QED
  BY <1>1, <1>2, <1>3, RunIsInvariant, PTL DEF Spec

(***************************************************************************)
(* VerdictIsOwn: where a test is told from the others of its component by  *)
(* the key both reports are read under, what the flaky gate says of it is  *)
(* about that test, for any tests, scopes and suites, wherever a run is    *)
(* cut short.  Go's tests are keyed by name alone: there the premise is    *)
(* that no two packages share one.                                         *)
(***************************************************************************)
THEOREM VerdictsAreOwn ==
  ASSUME KeysAreOwn
  PROVE  Spec => []VerdictIsOwn
<1>1. Init => VerdictInv
  BY DEF Init, VerdictInv, VerdictIsOwn, Ran, NoTests, None
<1>2. RunInv /\ VerdictInv /\ [Next]_vars => VerdictInv'
  BY VerdictNext
<1>3. VerdictInv => VerdictIsOwn
  BY DEF VerdictInv
<1> QED
  BY <1>1, <1>2, <1>3, RunIsInvariant, PTL DEF Spec
================================================================================
