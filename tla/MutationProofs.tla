---------------------------- MODULE MutationProofs -----------------------------
(***************************************************************************)
(* Theorems about mutation testing: a run of it, for every set of          *)
(* components, mutants, workers and machines, and the state one run leaves *)
(* for the next, for every number of mutants, fingerprints, runs and       *)
(* failures.                                                               *)
(***************************************************************************)
EXTENDS MutationRun, MutationResume, FiniteSetTheorems, WellFoundedInduction,
        SequenceTheorems, TLAPS

(***************************************************************************)
(*                                  A run                                  *)
(***************************************************************************)

Answer == Decided \cup {"acknowledged", "cutshort"}

Types ==
    /\ step \in [Component -> {"notrun", "preparing", "waiting", "measuring", "opening",
                               "executing", "returned"}]
    /\ kind \in [Component -> {"notrun", "stopped", "baseline-interrupted", "completed", "incomplete"}]
    /\ known \in Left
    /\ result = [c \in Component |-> result[c]]
    /\ \A c \in Component : result[c] \in [Position(c) -> Answer]
    /\ sent \in [Component -> Nat] /\ \A c \in Component : sent[c] \in {0} \cup Position(c)
    /\ recorded \in [Component -> SUBSET Nat]
    /\ dispatch \in [Component -> {"checking", "sending", "closed"}]
    /\ doing \in [Worker -> {"idle", "waiting", "running"}]
    /\ at \in [Worker -> Nat]
    /\ phase \in [Worker -> Nat]
    /\ tree \in [Worker -> [File -> Mutant \cup {Source, Torn}]]
    /\ cause \in {"none", "interrupt", "deadline"}
    /\ interrupted \in BOOLEAN /\ published \in BOOLEAN
    /\ counted \subseteq Component /\ partial \subseteq Component

(* What a worker holds is the next mutant nobody else has, on its file.     *)
Busy(w) == doing[w] # "idle"

Held(w) ==
    LET c == w[1]
        f == FileOf[mutantAt(c, at[w])]
    IN  /\ step[c] = "executing" /\ w \in Crew[c]
        /\ at[w] \in pending[c] /\ at[w] <= sent[c]
        /\ result[c][at[w]] = "cutshort"
        /\ tree[w][f] = mutantAt(c, at[w])
        /\ c \notin Faulty => \A g \in File \ {f} : tree[w][g] = Source

Idle(w) == at[w] = 0 /\ (w[1] \notin Faulty => tree[w] = Pristine)

WorkerInv(w) == IF Busy(w) THEN Held(w) ELSE Idle(w)

Apart == \A v, w \in Worker : v # w /\ v[1] = w[1] /\ Busy(v) /\ Busy(w) => at[v] # at[w]

ResultInv(c) ==
    /\ \A i \in Position(c) \ pending[c] : result[c][i] # "cutshort"
    /\ \A i \in unsent(c) : result[c][i] = "cutshort"
    /\ recorded[c] = { i \in pending[c] : result[c][i] # "cutshort" }

(* A mutant that was handed out and has no verdict is with a worker, or the *)
(* run was cancelled.                                                       *)
DispatchInv(c) ==
    /\ step[c] \notin {"executing", "returned"} => dispatch[c] = "checking" /\ sent[c] = 0
    /\ dispatch[c] = "sending" => step[c] = "executing"
    /\ dispatch[c] = "closed" => cancelled \/ unsent(c) = {}
    /\ \A i \in pending[c] :
          i <= sent[c] /\ result[c][i] = "cutshort"
            => cancelled \/ \E w \in Crew[c] : Busy(w) /\ at[w] = i

CutShort(c) == \E i \in Position(c) : result[c][i] = "cutshort"

KindInv(c) ==
    /\ kind[c] # "notrun" => step[c] = "returned"
    /\ kind[c] = "completed" => interrupted \/ ~CutShort(c)
    /\ kind[c] = "incomplete" => cause = "deadline" /\ CutShort(c)

ReportInv ==
    /\ cause = "interrupt" => interrupted
    /\ published => counted \subseteq { c \in Component : kind[c] = "completed" }
    /\ published => partial \subseteq { c \in Component : kind[c] = "incomplete" }
    /\ ~published => counted = {} /\ partial = {}
    /\ published => \A c \in Component : step[c] = "returned" \/ (step[c] = "notrun" /\ cancelled)

IInv ==
    /\ Types /\ SuitesBounded /\ Apart /\ ReportInv
    /\ \A w \in Worker : WorkerInv(w)
    /\ \A c \in Component : ResultInv(c) /\ DispatchInv(c) /\ KindInv(c)

-------------------------------------------------------------------------------
LEMMA Positions ==
  ASSUME NEW c \in Component
  PROVE  /\ Position(c) \subseteq Nat \ {0}
         /\ pending[c] \subseteq Position(c)
         /\ \A i \in Position(c) : mutantAt(c, i) \in Mutant /\ FileOf[mutantAt(c, i)] \in File
         /\ \A w \in Crew[c] : w \in Worker /\ w[1] = c
<1>1. MutantsOf[c] \in Seq(Mutant)
  BY MutationRunAssumption
<1>2. Position(c) = 1..Len(MutantsOf[c]) /\ Len(MutantsOf[c]) \in Nat
  BY <1>1 DEF Position
<1>3. \A i \in Position(c) : MutantsOf[c][i] \in Mutant
  BY <1>1, <1>2
<1>4. pending[c] \subseteq Position(c)
  BY DEF pending
<1>5. \A w \in Crew[c] : w \in Worker /\ w[1] = c
  BY DEF Crew
<1> QED
  BY <1>2, <1>3, <1>4, <1>5, MutationRunAssumption DEF mutantAt

LEMMA Workers == \A w \in Worker : w[1] \in Component
BY DEF Worker

(* What the run goes by is what it found when it began.                     *)
LEMMA KnownStands ==
  ASSUME [Next]_vars
  PROVE  known' = known /\ pending' = pending /\ Crew' = Crew /\ preset' = preset
<1>1. known' = known
  BY DEF Next, Work, Finished, vars, Start, Prepare, StartBaseline, AbandonBaseline, EndBaseline,
    OpenWorkers, Check, Return, Stage, StageFails, StartCommand, GiveUp, EndCommand, Publish,
    Interrupt, Deadline
<1>2. pending' = pending
  BY <1>1 DEF pending
<1> QED
  BY <1>1, <1>2 DEF Crew, preset

(***************************************************************************)
(* The steps fall in three: those of a component that leave its workers    *)
(* and results alone, those of a worker, and those of the whole run.       *)
(***************************************************************************)
Quietly(c) ==
    Start(c) \/ Prepare(c) \/ StartBaseline(c) \/ AbandonBaseline(c) \/ EndBaseline(c)
    \/ OpenWorkers(c) \/ Check(c)

Works(c, w) ==
    Stage(c, w) \/ StageFails(c, w) \/ StartCommand(c, w) \/ GiveUp(c, w) \/ EndCommand(c, w)

Whole == Publish \/ Interrupt \/ Deadline \/ UNCHANGED vars

LEMMA Steps ==
  ASSUME [Next]_vars
  PROVE  \/ \E c \in Component : Quietly(c)
         \/ \E c \in Component : Return(c)
         \/ \E c \in Component : \E w \in Crew[c] : Works(c, w)
         \/ Whole
BY DEF Next, Work, Quietly, Works, Whole, Finished

LEMMA QuietFrame ==
  ASSUME NEW c \in Component, Types, Quietly(c)
  PROVE  /\ UNCHANGED <<result, worker, recorded, known, sent, cause, interrupted, report>>
         /\ step' \in [Component -> {"notrun", "preparing", "waiting", "measuring", "opening",
                               "executing", "returned"}]
         /\ kind' \in [Component -> {"notrun", "stopped", "baseline-interrupted", "completed", "incomplete"}]
         /\ dispatch' \in [Component -> {"checking", "sending", "closed"}]
         /\ \A d \in Component \ {c} : step'[d] = step[d] /\ kind'[d] = kind[d] /\ dispatch'[d] = dispatch[d]
         /\ step[c] # "returned"
         /\ step[c] = "executing" => step' = step /\ kind' = kind
         /\ step[c] # "executing" => dispatch' = dispatch
<1>1. UNCHANGED <<result, worker, recorded, known, sent, cause, interrupted, report>>
  BY DEF Quietly, Start, Prepare, StartBaseline, AbandonBaseline, EndBaseline, OpenWorkers, Check,
    beforeMutants, Returns
<1>2. \/ \E s \in {"preparing", "waiting", "measuring", "opening", "executing"} :
            step' = [step EXCEPT ![c] = s] /\ UNCHANGED <<kind, dispatch>> /\ step[c] \notin {"executing", "returned"}
      \/ \E k \in {"stopped", "baseline-interrupted", "completed", "incomplete"} :
            /\ step' = [step EXCEPT ![c] = "returned"] /\ kind' = [kind EXCEPT ![c] = k]
            /\ UNCHANGED dispatch /\ step[c] \notin {"executing", "returned"}
      \/ \E s \in {"sending", "closed"} :
            dispatch' = [dispatch EXCEPT ![c] = s] /\ UNCHANGED <<step, kind>> /\ step[c] = "executing"
  <2>1. CASE Start(c)  BY <2>1 DEF Start
  <2>2. CASE Prepare(c)  BY <2>2 DEF Prepare, beforeMutants, Returns
  <2>3. CASE StartBaseline(c)  BY <2>3 DEF StartBaseline
  <2>4. CASE AbandonBaseline(c)  BY <2>4 DEF AbandonBaseline, Returns
  <2>5. CASE EndBaseline(c)  BY <2>5 DEF EndBaseline, beforeMutants, Returns
  <2>6. CASE OpenWorkers(c)  BY <2>6 DEF OpenWorkers, Returns, kindOfResults
  <2>7. CASE Check(c)  BY <2>7 DEF Check
  <2> QED  BY <2>1, <2>2, <2>3, <2>4, <2>5, <2>6, <2>7 DEF Quietly
<1>3. step \in [Component -> {"notrun", "preparing", "waiting", "measuring", "opening", "executing", "returned"}]
      /\ kind \in [Component -> {"notrun", "stopped", "baseline-interrupted", "completed", "incomplete"}]
      /\ dispatch \in [Component -> {"checking", "sending", "closed"}]
  BY DEF Types
<1>4. CASE \E s \in {"preparing", "waiting", "measuring", "opening", "executing"} :
            step' = [step EXCEPT ![c] = s] /\ UNCHANGED <<kind, dispatch>> /\ step[c] \notin {"executing", "returned"}
  BY <1>1, <1>3, <1>4
<1>5. CASE \E k \in {"stopped", "baseline-interrupted", "completed", "incomplete"} :
            /\ step' = [step EXCEPT ![c] = "returned"] /\ kind' = [kind EXCEPT ![c] = k]
            /\ UNCHANGED dispatch /\ step[c] \notin {"executing", "returned"}
  BY <1>1, <1>3, <1>5
<1>6. CASE \E s \in {"sending", "closed"} :
            dispatch' = [dispatch EXCEPT ![c] = s] /\ UNCHANGED <<step, kind>> /\ step[c] = "executing"
  BY <1>1, <1>3, <1>6
<1> QED
  BY <1>2, <1>4, <1>5, <1>6

-------------------------------------------------------------------------------
(***************************************************************************)
(* The slots taken are the suites in flight, step by step.                 *)
(***************************************************************************)
LEMMA Finite ==
  /\ IsFiniteSet(Baselines) /\ Cardinality(Baselines) \in Nat
  /\ IsFiniteSet(Commands) /\ Cardinality(Commands) \in Nat
<1>1. IsFiniteSet(Component) /\ Limit \in Nat
  BY MutationRunAssumption
<1>2. IsFiniteSet(1..Limit)
  BY <1>1, FS_Interval
<1>3. IsFiniteSet(Worker)
  BY <1>1, <1>2, FS_Product DEF Worker
<1>4. Baselines \subseteq Component /\ Commands \subseteq Worker
  BY DEF Baselines, Commands
<1> QED
  BY <1>1, <1>3, <1>4, FS_Subset, FS_CardinalityType

LEMMA QuietSlots ==
  ASSUME NEW c \in Component, Types, SuitesBounded, Quietly(c)
  PROVE  SuitesBounded'
<1>0. Commands' = Commands
  BY QuietFrame DEF Commands, worker
<1>1. CASE StartBaseline(c)
  <2>1. Baselines' = Baselines \cup {c} /\ c \notin Baselines
    BY <1>1 DEF StartBaseline, Baselines, Types
  <2>2. Cardinality(Baselines') = Cardinality(Baselines) + 1
    BY <2>1, Finite, FS_AddElement
  <2>3. slots' = slots + 1 /\ slots < Limit
    BY <1>1 DEF StartBaseline, acquire
  <2> QED
    BY <1>0, <2>2, <2>3, Finite, MutationRunAssumption DEF SuitesBounded
<1>2. CASE EndBaseline(c)
  <2>1. Baselines' = Baselines \ {c} /\ c \in Baselines
    BY <1>2 DEF EndBaseline, beforeMutants, Returns, Baselines, Types
  <2>2. Cardinality(Baselines') = Cardinality(Baselines) - 1
    BY <2>1, Finite, FS_RemoveElement
  <2>3. slots' = slots - 1
    BY <1>2 DEF EndBaseline, release
  <2> QED
    BY <1>0, <2>2, <2>3, Finite, MutationRunAssumption DEF SuitesBounded
<1>3. ASSUME Start(c) \/ Prepare(c) \/ AbandonBaseline(c) \/ OpenWorkers(c) \/ Check(c)
      PROVE  SuitesBounded'
  <2>1. Baselines' = Baselines /\ slots' = slots
    BY <1>3 DEF Start, Prepare, AbandonBaseline, OpenWorkers, Check, beforeMutants, Returns,
      Baselines, Types
  <2> QED
    BY <1>0, <2>1 DEF SuitesBounded
<1> QED
  BY <1>1, <1>2, <1>3 DEF Quietly

LEMMA WorkSlots ==
  ASSUME NEW c \in Component, NEW w \in Crew[c], Types, SuitesBounded, Works(c, w)
  PROVE  SuitesBounded'
<1>0. w \in Worker
  BY Positions
<1>1. Baselines' = Baselines
  BY DEF Works, Stage, StageFails, StartCommand, GiveUp, EndCommand, handOver, component, Baselines
<1>2. CASE StartCommand(c, w)
  <2>1. Commands' = Commands \cup {w} /\ w \notin Commands
    BY <1>0, <1>2 DEF StartCommand, Commands, Types
  <2>2. Cardinality(Commands') = Cardinality(Commands) + 1
    BY <2>1, Finite, FS_AddElement
  <2>3. slots' = slots + 1 /\ slots < Limit
    BY <1>2 DEF StartCommand, acquire
  <2> QED
    BY <1>1, <2>2, <2>3, Finite, MutationRunAssumption DEF SuitesBounded
<1>3. CASE EndCommand(c, w)
  <2>1. Commands' = Commands \ {w} /\ w \in Commands
    BY <1>0, <1>3 DEF EndCommand, Finish, Commands, Types
  <2>2. Cardinality(Commands') = Cardinality(Commands) - 1
    BY <2>1, Finite, FS_RemoveElement
  <2>3. slots' = slots - 1
    BY <1>3 DEF EndCommand, release
  <2>4. Cardinality(Baselines) \in Nat /\ Cardinality(Commands) \in Nat /\ Limit \in Nat
    BY Finite, MutationRunAssumption
  <2>5. slots = Cardinality(Baselines) + Cardinality(Commands) /\ slots <= Limit
    BY DEF SuitesBounded
  <2> QED
    BY <1>1, <2>2, <2>3, <2>4, <2>5 DEF SuitesBounded
<1>4. ASSUME Stage(c, w) \/ StageFails(c, w) \/ GiveUp(c, w)
      PROVE  SuitesBounded'
  <2>1. Commands' = Commands /\ slots' = slots
    BY <1>0, <1>4 DEF Stage, StageFails, GiveUp, Finish, handOver, Commands, Types
  <2> QED
    BY <1>1, <2>1 DEF SuitesBounded
<1> QED
  BY <1>2, <1>3, <1>4 DEF Works

LEMMA OtherSlots ==
  ASSUME Types, SuitesBounded, Whole \/ \E c \in Component : Return(c)
  PROVE  SuitesBounded'
<1>1. Baselines' = Baselines /\ Commands' = Commands /\ slots' = slots
  BY DEF Whole, Publish, Interrupt, Deadline, Return, Returns, Baselines, Commands, component, worker,
    vars, Types
<1> QED
  BY <1>1 DEF SuitesBounded

-------------------------------------------------------------------------------
(***************************************************************************)
(* A quiet step keeps the rest of the invariant.                           *)
(***************************************************************************)
LEMMA QuietTypes ==
  ASSUME NEW c \in Component, Types, Quietly(c)
  PROVE  Types'
BY QuietFrame DEF Types, worker, report

LEMMA QuietWorkers ==
  ASSUME IInv, [Next]_vars, NEW c \in Component, Quietly(c)
  PROVE  Apart' /\ \A w \in Worker : WorkerInv(w)'
<1>0. Types
  BY DEF IInv
<1>1. UNCHANGED <<doing, at, tree, result, sent>> /\ pending' = pending /\ Crew' = Crew
  BY <1>0, QuietFrame, KnownStands DEF worker
<1>2. \A d \in Component : step[d] = "executing" => step'[d] = "executing"
  BY <1>0, QuietFrame
<1>3. Apart'
  BY <1>1 DEF IInv, Apart, Busy
<1>4. ASSUME NEW w \in Worker
      PROVE  WorkerInv(w)'
  <2>1. WorkerInv(w) /\ w[1] \in Component
    BY Workers DEF IInv
  <2> QED
    BY <1>1, <1>2, <2>1 DEF WorkerInv, Held, Idle, Busy, mutantAt
<1> QED
  BY <1>3, <1>4

LEMMA QuietResults ==
  ASSUME IInv, [Next]_vars, NEW c \in Component, Quietly(c), NEW d \in Component
  PROVE  ResultInv(d)'
<1>1. UNCHANGED <<result, sent, recorded>> /\ pending' = pending
  BY QuietFrame, KnownStands DEF IInv
<1> QED
  BY <1>1 DEF IInv, ResultInv, unsent

LEMMA QuietDispatch ==
  ASSUME IInv, [Next]_vars, NEW c \in Component, Quietly(c), NEW d \in Component
  PROVE  DispatchInv(d)'
<1>0. Types /\ DispatchInv(d)
  BY DEF IInv
<1>1. UNCHANGED <<doing, at, result, sent, cause>> /\ pending' = pending /\ Crew' = Crew
  BY <1>0, QuietFrame, KnownStands DEF worker
<1>2. \A i \in pending'[d] :
          i <= sent'[d] /\ result'[d][i] = "cutshort"
            => cancelled' \/ \E w \in Crew'[d] : Busy(w)' /\ at'[w] = i
  BY <1>0, <1>1 DEF DispatchInv, Busy, cancelled
<1>3. CASE step[c] = "executing" \/ c # d
  <2>1. step'[d] = step[d]
    BY <1>0, <1>3, QuietFrame
  <2>2. dispatch'[d] = dispatch[d] \/ Check(d)
    <3>1. CASE c # d
      BY <1>0, <3>1, QuietFrame
    <3>2. CASE c = d /\ step[c] = "executing"
      BY <3>2 DEF Quietly, Start, Prepare, StartBaseline, AbandonBaseline, EndBaseline, OpenWorkers
    <3> QED
      BY <1>3, <3>1, <3>2
  <2>3. CASE dispatch'[d] = dispatch[d]
    BY <1>0, <1>1, <1>2, <2>1, <2>3 DEF DispatchInv, unsent, cancelled
  <2>4. CASE Check(d)
    <3>1. dispatch'[d] = IF cancelled \/ unsent(d) = {} THEN "closed" ELSE "sending"
      BY <1>0, <2>4 DEF Check, Types
    <3>2. step[d] = "executing"
      BY <2>4 DEF Check
    <3> QED
      BY <1>1, <1>2, <2>1, <3>1, <3>2 DEF DispatchInv, unsent, cancelled
  <2> QED
    BY <2>2, <2>3, <2>4
<1>4. CASE step[c] # "executing" /\ c = d
  <2>1. step[c] # "returned" /\ dispatch' = dispatch
    BY <1>0, <1>4, QuietFrame
  <2>2. dispatch[c] = "checking" /\ sent[c] = 0
    BY <1>0, <1>4, <2>1 DEF DispatchInv
  <2> QED
    BY <1>1, <1>2, <1>4, <2>1, <2>2 DEF DispatchInv
<1> QED
  BY <1>3, <1>4

LEMMA QuietKinds ==
  ASSUME IInv, [Next]_vars, NEW c \in Component, Quietly(c), NEW d \in Component
  PROVE  KindInv(d)'
<1>0. Types /\ KindInv(d) /\ DispatchInv(d) /\ ResultInv(d)
  BY DEF IInv
<1>1. UNCHANGED <<result, cause, interrupted>>
  BY <1>0, QuietFrame
<1>2. CASE kind'[d] = kind[d] /\ step'[d] = step[d]
  BY <1>0, <1>1, <1>2 DEF KindInv, CutShort
<1>3. CASE c = d /\ step[c] # "executing"
  <2>1. kind[d] = "notrun" /\ sent[d] = 0
    BY <1>0, <1>3, QuietFrame DEF KindInv, DispatchInv
  <2>2. CASE kind' = kind
    BY <1>0, <2>1, <2>2 DEF KindInv
  <2>3. CASE \E k \in {"stopped", "baseline-interrupted"} : Returns(c, k)
    BY <1>0, <1>3, <2>3 DEF Returns, KindInv, Types
  <2>4. CASE pending[d] = {} /\ Returns(c, kindOfResults(c))
    <3>1. ~CutShort(d)
      BY <1>0, <2>4 DEF ResultInv, CutShort
    <3>2. kindOfResults(d) = "completed"
      BY <3>1 DEF kindOfResults, CutShort
    <3> QED
      BY <1>0, <1>1, <1>3, <2>4, <3>1, <3>2 DEF Returns, KindInv, CutShort, Types
  <2>5. CASE pending[d] # {} /\ Returns(c, IF cause = "deadline" THEN "incomplete" ELSE "stopped")
    <3>1. CutShort(d)
      BY <1>0, <2>1, <2>5, Positions DEF ResultInv, CutShort, unsent
    <3> QED
      BY <1>0, <1>1, <1>3, <2>5, <3>1 DEF Returns, KindInv, CutShort, Types
  <2> QED
    BY <1>3, <2>2, <2>3, <2>4, <2>5 DEF Quietly, Start, Prepare, StartBaseline, AbandonBaseline,
      EndBaseline, OpenWorkers, Check, beforeMutants
<1> QED
  BY <1>0, <1>2, <1>3, QuietFrame

LEMMA QuietReport ==
  ASSUME IInv, [Next]_vars, NEW c \in Component, Quietly(c)
  PROVE  ReportInv'
<1>0. Types /\ ReportInv
  BY DEF IInv
<1>1. UNCHANGED <<cause, interrupted, published, counted, partial>>
  BY <1>0, QuietFrame DEF report
<1>2. ~published
  <2>1. step[c] # "returned"
    BY <1>0, QuietFrame
  <2>2. ~(step[c] = "notrun" /\ cancelled)
    BY DEF Quietly, Start, Prepare, StartBaseline, AbandonBaseline, EndBaseline, OpenWorkers, Check
  <2> QED
    BY <1>0, <2>1, <2>2 DEF ReportInv
<1> QED
  BY <1>0, <1>1, <1>2 DEF ReportInv

-------------------------------------------------------------------------------
(***************************************************************************)
(* Execute returns: its workers are idle, and their copies are removed.    *)
(***************************************************************************)
LEMMA ReturnInv ==
  ASSUME IInv, [Next]_vars, NEW c \in Component, Return(c)
  PROVE  /\ Types' /\ Apart' /\ ReportInv'
         /\ \A w \in Worker : WorkerInv(w)'
         /\ \A d \in Component : ResultInv(d)' /\ DispatchInv(d)' /\ KindInv(d)'
<1>0. Types /\ ReportInv
  BY DEF IInv
<1>1. /\ UNCHANGED <<sent, dispatch, result, doing, at, phase, slots, recorded, cause, interrupted,
                     published, counted, partial, known>>
      /\ pending' = pending /\ Crew' = Crew
      /\ step' = [step EXCEPT ![c] = "returned"] /\ kind' = [kind EXCEPT ![c] = kindOfResults(c)]
      /\ step[c] = "executing" /\ dispatch[c] = "closed"
      /\ \A w \in Crew[c] : ~Busy(w)
      /\ tree' = [w \in Worker |-> IF w \in Crew[c] THEN Pristine ELSE tree[w]]
  BY KnownStands DEF Return, Returns, report, Busy
<1>2. Pristine \in [File -> Mutant \cup {Source, Torn}]
  BY DEF Pristine
<1>3. Types'
  BY <1>0, <1>1, <1>2 DEF Types, kindOfResults
<1>4. Apart'
  BY <1>1 DEF IInv, Apart, Busy
<1>5. ASSUME NEW w \in Worker
      PROVE  WorkerInv(w)'
  <2>1. WorkerInv(w) /\ w[1] \in Component
    BY Workers DEF IInv
  <2>2. CASE w \in Crew[c]
    BY <1>1, <2>1, <2>2 DEF WorkerInv, Idle, Busy, Pristine
  <2>3. CASE w \notin Crew[c]
    <3>1. tree'[w] = tree[w] /\ Busy(w)' = Busy(w)
      BY <1>1, <2>3 DEF Busy
    <3>2. Busy(w) => w[1] # c
      BY <2>1, <2>3 DEF WorkerInv, Held
    <3>3. w[1] # c => step'[w[1]] = step[w[1]]
      BY <1>0, <1>1, <2>1 DEF Types
    <3> QED
      BY <1>1, <2>1, <3>1, <3>2, <3>3 DEF WorkerInv, Held, Idle, mutantAt
  <2> QED
    BY <2>2, <2>3
<1>6. ASSUME NEW d \in Component
      PROVE  ResultInv(d)' /\ DispatchInv(d)'
  <2>1. ResultInv(d) /\ DispatchInv(d)
    BY DEF IInv
  <2>2. ResultInv(d)'
    BY <1>1, <2>1 DEF ResultInv, unsent
  <2>3. step'[d] = step[d] \/ (d = c /\ step'[d] = "returned")
    BY <1>0, <1>1 DEF Types
  <2>4. dispatch'[d] = "sending" => step'[d] = "executing"
    BY <1>1, <2>1, <2>3 DEF DispatchInv
  <2> QED
    BY <1>1, <2>1, <2>2, <2>3, <2>4 DEF DispatchInv, unsent, Busy, cancelled
<1>7. ASSUME NEW d \in Component
      PROVE  KindInv(d)'
  <2>1. KindInv(d) /\ DispatchInv(c) /\ ResultInv(c)
    BY DEF IInv
  <2>2. CASE d # c
    BY <1>0, <1>1, <2>1, <2>2 DEF KindInv, CutShort, Types
  <2>3. CASE d = c
    <3>1. kind'[c] = kindOfResults(c) /\ step'[c] = "returned"
      BY <1>0, <1>1 DEF Types
    <3>2. CutShort(c) => cancelled
      <4>1. ASSUME NEW i \in Position(c), result[c][i] = "cutshort"
            PROVE  cancelled
        <5>1. i \in pending[c]
          BY <2>1, <4>1 DEF ResultInv
        <5>2. CASE i <= sent[c]
          BY <1>1, <2>1, <4>1, <5>1, <5>2 DEF DispatchInv
        <5>3. CASE ~(i <= sent[c])
          <6>1. i \in unsent(c)
            BY <1>0, <5>1, <5>3, Positions DEF unsent, Types
          <6> QED
            BY <1>1, <2>1, <6>1 DEF DispatchInv
        <5> QED
          BY <5>2, <5>3
      <4> QED
        BY <4>1 DEF CutShort
    <3>3. CutShort(c) /\ cause # "deadline" => interrupted
      BY <1>0, <3>2 DEF ReportInv, cancelled, Types
    <3> QED
      BY <1>1, <2>3, <3>1, <3>3 DEF KindInv, CutShort, kindOfResults
  <2> QED
    BY <2>2, <2>3
<1>8. ReportInv'
  <2>1. ~published
    BY <1>0, <1>1 DEF ReportInv
  <2> QED
    BY <1>0, <1>1, <2>1 DEF ReportInv
<1> QED
  BY <1>3, <1>4, <1>5, <1>6, <1>7, <1>8

-------------------------------------------------------------------------------
(***************************************************************************)
(* What a worker's step comes to: it takes a mutant and stages it, answers *)
(* one it could not stage, starts a command, goes on to the next suite, or *)
(* answers its mutant and withdraws it.                                    *)
(***************************************************************************)
Takes(c, i) ==
    /\ i \in unsent(c) /\ \A j \in unsent(c) : i <= j
    /\ dispatch[c] = "sending"
    /\ sent' = [sent EXCEPT ![c] = i] /\ dispatch' = [dispatch EXCEPT ![c] = "checking"]

Goes(c, w) ==
    /\ Busy(w) /\ doing' \in [Worker -> {"idle", "waiting", "running"}]
    /\ doing'[w] # "idle" /\ \A u \in Worker \ {w} : doing'[u] = doing[u]
    /\ phase' \in [Worker -> Nat]
    /\ UNCHANGED <<sent, dispatch, result, at, tree, recorded>>

Answers(c, w, v) ==
    /\ Busy(w) /\ Finish(c, w, v) /\ UNCHANGED <<sent, dispatch>>
    /\ v \in Decided \cup {"cutshort"} /\ (v = "cutshort" <=> cancelled)

LEMMA DecidedStays ==
  ASSUME NEW c, NEW n \in Nat, NEW end \in {"passed", "failed", "exceeded", "starved"}
  PROVE  LET v == settled(c, n, established(end))
         IN  /\ v \in Decided \cup {"cutshort", "open"}
             /\ v = "cutshort" <=> cancelled
BY DEF settled, established, Decided

LEMMA WorkFrame ==
  ASSUME Types, \A u \in Worker : WorkerInv(u), NEW c \in Component, NEW w \in Crew[c], Works(c, w)
  PROVE  /\ UNCHANGED <<step, kind, cause, interrupted, published, counted, partial>>
         /\ \/ Stage(c, w) \/ StageFails(c, w) \/ Goes(c, w)
            \/ \E v \in Decided \cup {"cutshort"} : Answers(c, w, v)
<1>0. w \in Worker /\ w[1] = c
  BY Positions
<1>1. UNCHANGED <<step, kind, cause, interrupted, published, counted, partial>>
  BY DEF Works, Stage, StageFails, StartCommand, GiveUp, EndCommand, component, report
<1>2. CASE StartCommand(c, w)
  <2>1. /\ doing[w] = "waiting" /\ doing' = [doing EXCEPT ![w] = "running"]
        /\ UNCHANGED <<sent, dispatch, result, at, phase, tree, recorded>>
    BY <1>2 DEF StartCommand, component
  <2>2. Goes(c, w)
    BY <1>0, <2>1 DEF Goes, Busy, Types
  <2> QED
    BY <1>1, <2>2
<1>3. CASE GiveUp(c, w)
  <2>1. doing[w] = "waiting" /\ cancelled /\ Finish(c, w, "cutshort") /\ UNCHANGED <<sent, dispatch>>
    BY <1>3 DEF GiveUp, component
  <2>2. Answers(c, w, "cutshort")
    BY <2>1 DEF Answers, Busy
  <2> QED
    BY <1>1, <2>2
<1>4. CASE EndCommand(c, w)
  <2>1. doing[w] = "running" /\ Busy(w) /\ phase[w] \in Nat
    BY <1>0, <1>4 DEF EndCommand, Busy, Types
  <2>2. at[w] \in Position(c)
    BY <1>0, <2>1, Positions DEF WorkerInv, Held
  <2>3. Ends[mutantAt(c, at[w])][IF phase[w] = 0 THEN "build" ELSE "suite"]
           \subseteq {"passed", "failed", "exceeded", "starved"}
    <3>1. Ends[mutantAt(c, at[w])] \in
             [{"build", "suite"} -> SUBSET {"passed", "failed", "exceeded", "starved"} \ {{}}]
      BY <2>2, Positions, MutationRunAssumption
    <3> QED
      BY <3>1
  <2>4. PICK end \in Ends[mutantAt(c, at[w])][IF phase[w] = 0 THEN "build" ELSE "suite"] :
          LET v == settled(c, phase[w], established(end))
          IN  \/ /\ v = "open"
                 /\ doing' = [doing EXCEPT ![w] = "waiting"]
                 /\ phase' = [phase EXCEPT ![w] = @ + 1]
                 /\ UNCHANGED <<result, at, tree, recorded>>
              \/ v # "open" /\ Finish(c, w, v)
    BY <1>4 DEF EndCommand
  <2> DEFINE v == settled(c, phase[w], established(end))
  <2>5. v \in Decided \cup {"cutshort", "open"} /\ (v = "cutshort" <=> cancelled)
    BY <2>1, <2>3, DecidedStays
  <2>6. UNCHANGED <<sent, dispatch>>
    BY <1>4 DEF EndCommand, component
  <2>7. CASE v = "open"
    <3>1. /\ doing' = [doing EXCEPT ![w] = "waiting"] /\ phase' = [phase EXCEPT ![w] = @ + 1]
          /\ UNCHANGED <<result, at, tree, recorded>>
      BY <2>4, <2>7
    <3> QED
      BY <1>0, <1>1, <2>1, <2>6, <3>1 DEF Goes, Types
  <2>8. CASE v # "open"
    <3>1. Finish(c, w, v)
      BY <2>4, <2>8
    <3>2. v \in Decided \cup {"cutshort"}
      BY <2>5, <2>8
    <3>3. Answers(c, w, v)
      BY <2>1, <2>5, <2>6, <3>1, <3>2 DEF Answers
    <3> HIDE DEF v
    <3> QED
      BY <1>1, <3>2, <3>3
  <2> QED
    BY <2>7, <2>8
<1> QED
  BY <1>1, <1>2, <1>3, <1>4 DEF Works

(* A mutant is staged on the component's own source, and withdrawn to it.   *)
LEMMA Staged ==
  ASSUME Types, NEW c \in Component, NEW w \in Crew[c], NEW i \in Position(c),
         c \notin Faulty => tree[w] = Pristine
  PROVE  LET m == mutantAt(c, i)
         IN  /\ staged(w, m) \in [File -> Mutant \cup {Source, Torn}]
             /\ staged(w, m)[FileOf[m]] = m
             /\ c \notin Faulty => \A f \in File \ {FileOf[m]} : staged(w, m)[f] = Source
<1>1. w \in Worker /\ mutantAt(c, i) \in Mutant /\ FileOf[mutantAt(c, i)] \in File
  BY Positions
<1>2. tree[w] \in [File -> Mutant \cup {Source, Torn}]
  BY <1>1 DEF Types
<1> QED
  BY <1>1, <1>2 DEF staged, Pristine

LEMMA Withdrawn ==
  ASSUME Types, NEW c \in Component, NEW w \in Crew[c], WorkerInv(w), Busy(w), tree' \in restored(c, w)
  PROVE  /\ tree' \in [Worker -> [File -> Mutant \cup {Source, Torn}]]
         /\ \A u \in Worker \ {w} : tree'[u] = tree[u]
         /\ c \notin Faulty => tree'[w] = Pristine
<1>1. w \in Worker /\ w[1] = c /\ at[w] \in Position(c)
  BY Positions DEF WorkerInv, Held
<1> DEFINE m == mutantAt(c, at[w])
<1>2. m \in Mutant /\ FileOf[m] \in File
  BY <1>1, Positions
<1>3. tree \in [Worker -> [File -> Mutant \cup {Source, Torn}]]
  BY DEF Types
<1>4. PICK held \in IF c \in Faulty \ Overlaid THEN {Source, Torn, m} ELSE {Source} :
         tree' = [tree EXCEPT ![w][FileOf[m]] = held]
  BY DEF restored
<1>5. tree' = [tree EXCEPT ![w] = [tree[w] EXCEPT ![FileOf[m]] = held]]
  BY <1>4
<1>6. c \notin Faulty => \A f \in File \ {FileOf[m]} : tree[w][f] = Source
  BY <1>1 DEF WorkerInv, Held
<1> HIDE DEF m
<1>7. tree'[w] = [tree[w] EXCEPT ![FileOf[m]] = held] /\ tree'[w] \in [File -> Mutant \cup {Source, Torn}]
  BY <1>1, <1>2, <1>3, <1>4, <1>5
<1>8. c \notin Faulty => tree'[w] = Pristine
  BY <1>1, <1>2, <1>3, <1>4, <1>6, <1>7 DEF Pristine
<1> QED
  BY <1>1, <1>3, <1>5, <1>7, <1>8

(***************************************************************************)
(* The four effects, one after the other, on the invariant.                *)
(***************************************************************************)
LEMMA StageInv ==
  ASSUME IInv, [Next]_vars, NEW c \in Component, NEW w \in Crew[c], Stage(c, w)
  PROVE  /\ Types' /\ Apart'
         /\ \A u \in Worker : WorkerInv(u)'
         /\ \A d \in Component : ResultInv(d)' /\ DispatchInv(d)'
<1>0. Types /\ w \in Worker /\ w[1] = c /\ WorkerInv(w)
  BY Positions DEF IInv
<1>1. PICK i \in unsent(c) :
        /\ Takes(c, i) /\ doing[w] = "idle"
        /\ at' = [at EXCEPT ![w] = i]
        /\ tree' = [tree EXCEPT ![w] = staged(w, mutantAt(c, i))]
  BY DEF Stage, handOver, Takes
<1>2. /\ doing' = [doing EXCEPT ![w] = "waiting"]
      /\ UNCHANGED <<step, kind, result, phase, recorded, cause, interrupted, published, counted, partial, known>>
      /\ pending' = pending /\ Crew' = Crew
  BY KnownStands DEF Stage, report
<1>3. i \in pending[c] /\ i \in Position(c) /\ i \in Nat /\ i > sent[c]
  BY <1>1, Positions DEF unsent
<1>4. c \notin Faulty => tree[w] = Pristine
  BY <1>0, <1>1 DEF WorkerInv, Idle, Busy
<1>5. LET m == mutantAt(c, i)
      IN  /\ staged(w, m) \in [File -> Mutant \cup {Source, Torn}]
          /\ staged(w, m)[FileOf[m]] = m
          /\ c \notin Faulty => \A f \in File \ {FileOf[m]} : staged(w, m)[f] = Source
  BY <1>0, <1>3, <1>4, Staged
<1>6. step[c] = "executing"
  BY <1>1 DEF IInv, DispatchInv, Takes
<1>7. result[c][i] = "cutshort"
  BY <1>1 DEF IInv, ResultInv
<1>8. Types'
  BY <1>0, <1>1, <1>2, <1>3, <1>5 DEF Types, Takes
<1>9. \A u \in Worker \ {w} : doing'[u] = doing[u] /\ at'[u] = at[u] /\ tree'[u] = tree[u]
  BY <1>0, <1>1, <1>2 DEF Types
<1>10. doing'[w] = "waiting" /\ at'[w] = i /\ tree'[w] = staged(w, mutantAt(c, i))
  BY <1>0, <1>1, <1>2 DEF Types
<1>11. sent'[c] = i /\ \A d \in Component \ {c} : sent'[d] = sent[d] /\ dispatch'[d] = dispatch[d]
  BY <1>0, <1>1 DEF Types, Takes
<1>12. \A u \in Worker \ {w} : Busy(u) /\ u[1] = c => at[u] <= sent[c] /\ at[u] \in pending[c]
  BY DEF IInv, WorkerInv, Held
<1>13. Apart'
  <2> SUFFICES ASSUME NEW u \in Worker, NEW v \in Worker, u # v, u[1] = v[1], Busy(u)', Busy(v)'
               PROVE  at'[u] # at'[v]
    BY DEF Apart
  <2>1. CASE u # w /\ v # w
    BY <1>9, <2>1 DEF IInv, Apart, Busy
  <2>2. ASSUME NEW x \in Worker \ {w}, x[1] = c, Busy(x)'
        PROVE  at'[x] # i
    <3>1. at[x] \in Nat /\ at[x] <= sent[c] /\ sent[c] \in Nat
      BY <1>0, <1>9, <1>12, <2>2 DEF Busy, Types
    <3> QED
      BY <1>3, <1>9, <3>1
  <2> QED
    BY <1>0, <1>10, <2>1, <2>2
<1>14. ASSUME NEW u \in Worker
       PROVE  WorkerInv(u)'
  <2>1. CASE u = w
    BY <1>0, <1>2, <1>3, <1>5, <1>6, <1>7, <1>10, <1>11, <2>1 DEF WorkerInv, Held, Busy, mutantAt
  <2>2. CASE u # w
    <3>1. WorkerInv(u) /\ u[1] \in Component
      BY Workers DEF IInv
    <3>2. sent[u[1]] <= sent'[u[1]]
      BY <1>0, <1>3, <1>11, <3>1 DEF Types
    <3>3. at[u] <= sent[u[1]] => at[u] <= sent'[u[1]]
      <4>1. at[u] \in Nat /\ sent[u[1]] \in Nat /\ sent'[u[1]] \in Nat
        BY <1>0, <1>8, <3>1 DEF Types
      <4> QED
        BY <3>2, <4>1
    <3> QED
      BY <1>2, <1>9, <2>2, <3>1, <3>3 DEF WorkerInv, Held, Idle, Busy, mutantAt
  <2> QED
    BY <2>1, <2>2
<1>15. ASSUME NEW d \in Component
       PROVE  ResultInv(d)' /\ DispatchInv(d)'
  <2>1. ResultInv(d) /\ DispatchInv(d)
    BY DEF IInv
  <2>2. CASE d # c
    <3>1. \A x \in Crew[d] : x # w
      BY <1>0, <2>2, Positions
    <3> QED
      BY <1>2, <1>9, <1>11, <2>1, <2>2, <3>1, Positions DEF ResultInv, DispatchInv, unsent, cancelled, Busy
  <2>3. CASE d = c
    <3>1. \A j \in pending[c] : j \in Nat /\ sent[c] \in Nat
      BY <1>0, Positions DEF Types
    <3>2. unsent(c)' \subseteq unsent(c)
      BY <1>2, <1>3, <1>11, <3>1 DEF unsent
    <3>3. ResultInv(c)'
      BY <1>2, <2>1, <2>3, <3>2 DEF ResultInv
    <3>4. dispatch'[c] = "checking" /\ step'[c] = "executing"
      BY <1>0, <1>1, <1>2, <1>6 DEF Types, Takes
    <3>5. ASSUME NEW j \in pending[c], j <= sent'[c], result[c][j] = "cutshort", ~cancelled
          PROVE  \E x \in Crew[c] : Busy(x)' /\ at'[x] = j
      <4>1. CASE j <= sent[c]
        <5>1. PICK x \in Crew[c] : Busy(x) /\ at[x] = j
          BY <2>1, <2>3, <3>5, <4>1 DEF DispatchInv
        <5>2. x # w /\ x \in Worker
          BY <1>1, <5>1, Positions DEF Busy
        <5> QED
          BY <1>9, <5>1, <5>2 DEF Busy
      <4>2. CASE ~(j <= sent[c])
        <5>1. j \in unsent(c)
          BY <3>1, <4>2 DEF unsent
        <5>2. j = i
          BY <1>1, <1>3, <1>11, <3>1, <3>5, <5>1 DEF Takes
        <5> QED
          BY <1>10, <5>2 DEF Busy
      <4> QED
        BY <4>1, <4>2
    <3> QED
      BY <1>2, <2>3, <3>3, <3>4, <3>5 DEF DispatchInv, cancelled
  <2> QED
    BY <2>2, <2>3
<1> QED
  BY <1>8, <1>13, <1>14, <1>15

OneAnswered(c, i, v) ==
    /\ \A d \in Component \ {c} : result'[d] = result[d] /\ recorded'[d] = recorded[d]
    /\ result'[c] = [result[c] EXCEPT ![i] = v]
    /\ recorded'[c] = IF v = "cutshort" THEN recorded[c] ELSE recorded[c] \cup {i}
    /\ result' = [d \in Component |-> result'[d]]
    /\ recorded' \in [Component -> SUBSET Nat]
    /\ \A d \in Component : result'[d] \in [Position(d) -> Answer]

LEMMA AnswerFrame ==
  ASSUME Types, NEW c \in Component, NEW i \in Position(c), NEW v \in Answer, answer(c, i, v)
  PROVE  OneAnswered(c, i, v)
<1>1. i \in Nat
  BY Positions
<1>2. result = [d \in Component |-> result[d]] /\ \A d \in Component : result[d] \in [Position(d) -> Answer]
  BY DEF Types
<1>3. result' = [result EXCEPT ![c] = [result[c] EXCEPT ![i] = v]]
  BY DEF answer
<1>4. [result[c] EXCEPT ![i] = v] \in [Position(c) -> Answer]
  BY <1>2
<1>5. recorded \in [Component -> SUBSET Nat]
      /\ recorded' = [recorded EXCEPT ![c] = IF v = "cutshort" THEN recorded[c] ELSE recorded[c] \cup {i}]
  BY DEF Types, answer
<1>6. result' = [d \in Component |-> IF d = c THEN [result[c] EXCEPT ![i] = v] ELSE result[d]]
  BY <1>2, <1>3
<1> QED
  BY <1>1, <1>2, <1>4, <1>5, <1>6 DEF OneAnswered

LEMMA StageFailsInv ==
  ASSUME IInv, [Next]_vars, NEW c \in Component, NEW w \in Crew[c], StageFails(c, w)
  PROVE  /\ Types' /\ Apart'
         /\ \A u \in Worker : WorkerInv(u)'
         /\ \A d \in Component : ResultInv(d)' /\ DispatchInv(d)'
<1>0. Types /\ w \in Worker /\ w[1] = c /\ c \in Faulty
  BY Positions DEF IInv, StageFails
<1>1. PICK i \in unsent(c) :
        /\ Takes(c, i) /\ doing[w] = "idle" /\ answer(c, i, "unviable")
        /\ \/ UNCHANGED tree
           \/ tree' = [tree EXCEPT ![w][FileOf[mutantAt(c, i)]] = Torn]
  BY DEF StageFails, handOver, Takes
<1>2. /\ UNCHANGED <<step, kind, doing, at, phase, cause, interrupted, published, counted, partial, known>>
      /\ pending' = pending /\ Crew' = Crew
  BY KnownStands DEF StageFails, report
<1>3. i \in pending[c] /\ i \in Position(c) /\ i \in Nat /\ i > sent[c] /\ sent[c] \in Nat
  BY <1>0, <1>1, Positions DEF unsent, Types
<1>4. step[c] = "executing"
  BY <1>1 DEF IInv, DispatchInv, Takes
<1>5. /\ \A d \in Component \ {c} : result'[d] = result[d] /\ recorded'[d] = recorded[d]
      /\ result'[c] = [result[c] EXCEPT ![i] = "unviable"]
      /\ recorded'[c] = recorded[c] \cup {i}
      /\ result' = [d \in Component |-> result'[d]]
      /\ recorded' \in [Component -> SUBSET Nat]
      /\ \A d \in Component : result'[d] \in [Position(d) -> Answer]
  <2>1. "unviable" \in Answer
    BY DEF Answer, Decided
  <2> QED
    <3>1. answer(c, i, "unviable")
      BY <1>1
    <3>2. OneAnswered(c, i, "unviable")
      BY <1>0, <1>3, <2>1, <3>1, AnswerFrame
    <3> QED
      BY <3>2 DEF OneAnswered
<1>6. /\ \A f \in File : [tree[w] EXCEPT ![f] = Torn] \in [File -> Mutant \cup {Source, Torn}]
      /\ tree' = tree \/ tree' = [tree EXCEPT ![w] = [tree[w] EXCEPT ![FileOf[mutantAt(c, i)]] = Torn]]
  BY <1>0, <1>1 DEF Types
<1>7. \A u \in Worker : u # w => tree'[u] = tree[u]
  BY <1>0, <1>1 DEF Types
<1>8. tree' \in [Worker -> [File -> Mutant \cup {Source, Torn}]]
  <2>1. FileOf[mutantAt(c, i)] \in File
    BY <1>3, Positions
  <2>2. tree \in [Worker -> [File -> Mutant \cup {Source, Torn}]]
    BY <1>0 DEF Types
  <2> QED
    BY <1>6, <2>1, <2>2
<1>9. sent'[c] = i /\ sent' \in [Component -> Nat]
      /\ dispatch' \in [Component -> {"checking", "sending", "closed"}]
      /\ \A d \in Component \ {c} : sent'[d] = sent[d] /\ dispatch'[d] = dispatch[d]
  BY <1>0, <1>1, <1>3 DEF Types, Takes
<1>10. Types'
  <2>1. \A d \in Component : sent'[d] \in {0} \cup Position(d)
    BY <1>0, <1>3, <1>9 DEF Types
  <2> QED
    BY <1>0, <1>2, <1>5, <1>8, <1>9, <2>1 DEF Types
<1>11. Apart'
  BY <1>2 DEF IInv, Apart, Busy
<1>12. ASSUME NEW u \in Worker
       PROVE  WorkerInv(u)'
  <2>1. WorkerInv(u) /\ u[1] \in Component
    BY Workers DEF IInv
  <2>2. CASE u = w
    BY <1>0, <1>1, <1>2, <2>1, <2>2 DEF WorkerInv, Idle, Busy
  <2>3. CASE u # w /\ ~Busy(u)
    BY <1>2, <1>7, <2>1, <2>3 DEF WorkerInv, Idle, Busy
  <2>4. CASE u # w /\ Busy(u)
    <3>1. Held(u)
      BY <2>1, <2>4 DEF WorkerInv
    <3>2. u[1] = c => at[u] # i /\ at[u] <= sent'[c]
      <4>1. at[u] \in Nat /\ at[u] <= sent[u[1]]
        BY <1>0, <3>1 DEF Types, Held
      <4> QED
        BY <1>3, <1>9, <4>1
    <3>3. at[u] <= sent'[u[1]] /\ result'[u[1]][at[u]] = "cutshort"
      BY <1>0, <1>5, <1>9, <2>1, <3>1, <3>2, Positions DEF Held, Types
    <3> QED
      BY <1>2, <1>7, <2>4, <3>1, <3>3 DEF WorkerInv, Held, Busy, mutantAt
  <2> QED
    BY <2>2, <2>3, <2>4
<1>13. ASSUME NEW d \in Component
       PROVE  ResultInv(d)' /\ DispatchInv(d)'
  <2>1. ResultInv(d) /\ DispatchInv(d)
    BY DEF IInv
  <2>2. CASE d # c
    BY <1>2, <1>5, <1>9, <2>1, <2>2 DEF ResultInv, DispatchInv, unsent, cancelled, Busy
  <2>3. CASE d = c
    <3>1. \A j \in pending[c] : j \in Nat
      BY Positions
    <3>2. \A j \in Position(c) : j # i => result'[c][j] = result[c][j]
      BY <1>0, <1>5 DEF Types
    <3>3. result'[c][i] = "unviable"
      BY <1>0, <1>3, <1>5 DEF Types
    <3>4. unsent(c)' \subseteq unsent(c) \ {i}
      BY <1>2, <1>3, <1>9, <3>1 DEF unsent
    <3>5. recorded'[c] = { j \in pending[c] : result'[c][j] # "cutshort" }
      BY <1>3, <1>5, <2>1, <2>3, <3>2, <3>3, Positions DEF ResultInv
    <3>6. ResultInv(c)'
      BY <1>2, <1>3, <2>1, <2>3, <3>2, <3>3, <3>4, <3>5, Positions DEF ResultInv, unsent
    <3>7. dispatch'[c] = "checking" /\ step'[c] = "executing"
      BY <1>0, <1>1, <1>2, <1>4 DEF Types, Takes
    <3>8. ASSUME NEW j \in pending[c], j <= sent'[c], result'[c][j] = "cutshort", ~cancelled
          PROVE  \E x \in Crew[c] : Busy(x)' /\ at'[x] = j
      <4>1. j # i /\ result[c][j] = "cutshort"
        BY <3>2, <3>3, <3>8, Positions
      <4>2. j <= sent[c]
        BY <1>1, <1>3, <1>9, <3>1, <3>8, <4>1 DEF Takes, unsent
      <4> QED
        BY <1>2, <2>1, <2>3, <3>8, <4>1, <4>2 DEF DispatchInv, Busy
    <3> QED
      BY <1>2, <2>3, <3>6, <3>7, <3>8 DEF DispatchInv, cancelled
  <2> QED
    BY <2>2, <2>3
<1> QED
  BY <1>10, <1>11, <1>12, <1>13

LEMMA GoesInv ==
  ASSUME IInv, [Next]_vars, NEW c \in Component, NEW w \in Crew[c], Goes(c, w),
         UNCHANGED <<step, kind, cause, interrupted, published, counted, partial>>
  PROVE  /\ Types' /\ Apart'
         /\ \A u \in Worker : WorkerInv(u)'
         /\ \A d \in Component : ResultInv(d)' /\ DispatchInv(d)'
<1>0. Types /\ w \in Worker
  BY Positions DEF IInv
<1>1. UNCHANGED <<sent, dispatch, result, at, tree, recorded, known>> /\ pending' = pending /\ Crew' = Crew
  BY KnownStands DEF Goes
<1>2. \A u \in Worker : Busy(u)' = Busy(u)
  BY <1>0 DEF Goes, Busy
<1>3. Types'
  BY <1>0, <1>1 DEF Types, Goes
<1>4. Apart'
  BY <1>1, <1>2 DEF IInv, Apart
<1>5. ASSUME NEW u \in Worker
      PROVE  WorkerInv(u)'
  BY <1>1, <1>2 DEF IInv, WorkerInv, Held, Idle, mutantAt
<1>6. ASSUME NEW d \in Component
      PROVE  ResultInv(d)' /\ DispatchInv(d)'
  <2>1. \A x \in Crew[d] : x \in Worker
    BY Positions
  <2> QED
    BY <1>1, <1>2, <2>1 DEF IInv, ResultInv, DispatchInv, unsent, cancelled
<1> QED
  BY <1>3, <1>4, <1>5, <1>6

LEMMA AnswersInv ==
  ASSUME IInv, [Next]_vars, NEW c \in Component, NEW w \in Crew[c],
         NEW v \in Decided \cup {"cutshort"}, Answers(c, w, v),
         UNCHANGED <<step, kind, cause, interrupted, published, counted, partial>>
  PROVE  /\ Types' /\ Apart'
         /\ \A u \in Worker : WorkerInv(u)'
         /\ \A d \in Component : ResultInv(d)' /\ DispatchInv(d)'
<1>0. Types /\ w \in Worker /\ w[1] = c /\ WorkerInv(w) /\ Held(w)
  BY Positions DEF IInv, Answers, WorkerInv
<1> DEFINE i == at[w]
<1>1. i \in pending[c] /\ i \in Position(c) /\ i \in Nat /\ i <= sent[c] /\ result[c][i] = "cutshort"
  BY <1>0, Positions DEF Held
<1>2. UNCHANGED <<sent, dispatch, known>> /\ pending' = pending /\ Crew' = Crew
  BY KnownStands DEF Answers
<1>3. /\ \A d \in Component \ {c} : result'[d] = result[d] /\ recorded'[d] = recorded[d]
      /\ result'[c] = [result[c] EXCEPT ![i] = v]
      /\ recorded'[c] = IF v = "cutshort" THEN recorded[c] ELSE recorded[c] \cup {i}
      /\ result' = [d \in Component |-> result'[d]]
      /\ recorded' \in [Component -> SUBSET Nat]
      /\ \A d \in Component : result'[d] \in [Position(d) -> Answer]
  <2>1. v \in Answer
    BY DEF Answer
  <2>2. answer(c, i, v)
    BY DEF Answers, Finish
  <2> HIDE DEF i
  <2> QED
    <3>1. OneAnswered(c, i, v)
      BY <1>0, <1>1, <2>1, <2>2, AnswerFrame
    <3> QED
      BY <3>1 DEF OneAnswered
<1>5. /\ tree' \in [Worker -> [File -> Mutant \cup {Source, Torn}]]
      /\ \A u \in Worker \ {w} : tree'[u] = tree[u]
      /\ c \notin Faulty => tree'[w] = Pristine
  BY <1>0, Withdrawn DEF Answers, Finish
<1>6. /\ doing'[w] = "idle" /\ at'[w] = 0
      /\ \A u \in Worker \ {w} : doing'[u] = doing[u] /\ at'[u] = at[u]
      /\ doing' \in [Worker -> {"idle", "waiting", "running"}] /\ at' \in [Worker -> Nat]
      /\ phase' \in [Worker -> Nat]
  BY <1>0 DEF Answers, Finish, Types
<1>7. Types'
  BY <1>0, <1>2, <1>3, <1>5, <1>6 DEF Types
<1>8. Apart'
  BY <1>6 DEF IInv, Apart, Busy
<1>9. ASSUME NEW u \in Worker
      PROVE  WorkerInv(u)'
  <2>1. WorkerInv(u) /\ u[1] \in Component
    BY Workers DEF IInv
  <2>2. CASE u = w
    BY <1>0, <1>5, <1>6, <2>2 DEF WorkerInv, Idle, Busy, Pristine
  <2>3. CASE u # w /\ ~Busy(u)
    BY <1>5, <1>6, <2>1, <2>3 DEF WorkerInv, Idle, Busy
  <2>4. CASE u # w /\ Busy(u)
    <3>1. Held(u)
      BY <2>1, <2>4 DEF WorkerInv
    <3>2. u[1] = c => at[u] # i
      BY <1>0, <2>4 DEF IInv, Apart, Answers
    <3>3. result'[u[1]][at[u]] = "cutshort"
      BY <1>0, <1>3, <2>1, <3>1, <3>2, Positions DEF Held, Types
    <3> QED
      BY <1>2, <1>5, <1>6, <2>4, <3>1, <3>3 DEF WorkerInv, Held, Busy, mutantAt
  <2> QED
    BY <2>2, <2>3, <2>4
<1>10. ASSUME NEW d \in Component
       PROVE  ResultInv(d)' /\ DispatchInv(d)'
  <2>1. ResultInv(d) /\ DispatchInv(d)
    BY DEF IInv
  <2>2. CASE d # c
    <3>1. \A x \in Crew[d] : x \in Worker /\ x # w
      BY <1>0, <2>2, Positions
    <3> QED
      BY <1>2, <1>3, <1>6, <2>1, <2>2, <3>1 DEF ResultInv, DispatchInv, unsent, cancelled, Busy
  <2>3. CASE d = c
    <3>1. \A j \in Position(c) : j # i => result'[c][j] = result[c][j]
      BY <1>0, <1>3 DEF Types
    <3>2. result'[c][i] = v
      BY <1>0, <1>1, <1>3 DEF Types
    <3>3. i \notin unsent(c)
      BY <1>0, <1>1 DEF unsent, Types
    <3>4. unsent(c)' = unsent(c)
      BY <1>2 DEF unsent
    <3>5. recorded'[c] = { j \in pending[c] : result'[c][j] # "cutshort" }
      BY <1>1, <1>3, <2>1, <2>3, <3>1, <3>2, Positions DEF ResultInv
    <3>6. ResultInv(c)'
      <4>1. \A j \in Position(c) \ pending[c] : result'[c][j] # "cutshort"
        BY <1>1, <2>1, <2>3, <3>1 DEF ResultInv
      <4>2. \A j \in unsent(c) : result'[c][j] = "cutshort"
        BY <2>1, <2>3, <3>1, <3>3, Positions DEF ResultInv, unsent
      <4> QED
        BY <1>2, <3>4, <3>5, <4>1, <4>2 DEF ResultInv
    <3>7. ASSUME NEW j \in pending[c], j <= sent[c], result'[c][j] = "cutshort", ~cancelled
          PROVE  \E x \in Crew[c] : Busy(x)' /\ at'[x] = j
      <4>1. j # i /\ result[c][j] = "cutshort"
        BY <3>1, <3>2, <3>7, Positions DEF Answers
      <4>2. PICK x \in Crew[c] : Busy(x) /\ at[x] = j
        BY <2>1, <2>3, <3>7, <4>1 DEF DispatchInv
      <4>3. x # w /\ x \in Worker
        BY <4>1, <4>2, Positions
      <4> QED
        BY <1>6, <4>2, <4>3 DEF Busy
    <3> QED
      BY <1>2, <2>1, <2>3, <3>4, <3>6, <3>7 DEF DispatchInv, cancelled
  <2> QED
    BY <2>2, <2>3
<1> QED
  BY <1>7, <1>8, <1>9, <1>10

-------------------------------------------------------------------------------
LEMMA WorksInv ==
  ASSUME IInv, [Next]_vars, NEW c \in Component, NEW w \in Crew[c], Works(c, w)
  PROVE  IInv'
<1>0. Types /\ SuitesBounded /\ \A u \in Worker : WorkerInv(u)
  BY DEF IInv
<1>1. /\ UNCHANGED <<step, kind, cause, interrupted, published, counted, partial>>
      /\ \/ Stage(c, w) \/ StageFails(c, w) \/ Goes(c, w)
         \/ \E v \in Decided \cup {"cutshort"} : Answers(c, w, v)
  BY <1>0, WorkFrame
<1>2. /\ Types' /\ Apart'
      /\ \A u \in Worker : WorkerInv(u)'
      /\ \A d \in Component : ResultInv(d)' /\ DispatchInv(d)'
  BY <1>1, StageInv, StageFailsInv, GoesInv, AnswersInv
<1>3. SuitesBounded'
  BY <1>0, WorkSlots
<1>4. ReportInv'
  BY <1>1 DEF IInv, ReportInv, cancelled
<1>5. step[c] = "executing"
  <2>1. doing[w] # "idle" \/ dispatch[c] = "sending"
    BY DEF Works, Stage, StageFails, StartCommand, GiveUp, EndCommand, handOver
  <2>2. w \in Worker /\ w[1] = c /\ WorkerInv(w) /\ DispatchInv(c)
    BY <1>0, Positions DEF IInv
  <2> QED
    BY <2>1, <2>2 DEF WorkerInv, Held, Busy, DispatchInv
<1>6. ASSUME NEW d \in Component
      PROVE  KindInv(d)'
  <2>1. CASE d = c
    BY <1>1, <1>5, <2>1 DEF IInv, KindInv
  <2>2. CASE d # c
    <3>1. result'[d] = result[d]
      <4>1. result = [x \in Component |-> result[x]]
        BY <1>0 DEF Types
      <4> QED
        BY <1>1, <2>2, <4>1 DEF Stage, StageFails, Goes, Answers, Finish, answer
    <3> QED
      BY <1>1, <3>1 DEF IInv, KindInv, CutShort
  <2> QED
    BY <2>1, <2>2
<1> QED
  BY <1>2, <1>3, <1>4, <1>6 DEF IInv

LEMMA WholeInv ==
  ASSUME IInv, [Next]_vars, Whole
  PROVE  IInv'
<1>0. Types /\ SuitesBounded /\ ReportInv
  BY DEF IInv
<1>1. /\ UNCHANGED <<step, kind, sent, dispatch, result, doing, at, phase, tree, slots, recorded, known>>
      /\ pending' = pending /\ Crew' = Crew
  BY KnownStands DEF Whole, Publish, Interrupt, Deadline, vars, component, worker
<1>2. /\ cause' \in {"none", "interrupt", "deadline"}
      /\ cancelled => cause' = cause
      /\ interrupted' \in BOOLEAN
      /\ interrupted => interrupted'
      /\ cause' = "interrupt" => interrupted'
  BY <1>0 DEF Whole, Publish, Interrupt, Deadline, vars, cancelled, Types, ReportInv
<1>3. SuitesBounded'
  BY <1>0, OtherSlots
<1>4. Types'
  BY <1>0, <1>1, <1>2 DEF Types, Whole, Publish, Interrupt, Deadline, vars, report
<1>5. Apart' /\ \A w \in Worker : WorkerInv(w)'
  BY <1>1 DEF IInv, Apart, WorkerInv, Held, Idle, Busy, mutantAt
<1>6. ASSUME NEW d \in Component
      PROVE  ResultInv(d)' /\ DispatchInv(d)' /\ KindInv(d)'
  <2>1. ResultInv(d) /\ DispatchInv(d) /\ KindInv(d)
    BY DEF IInv
  <2>2. ResultInv(d)'
    BY <1>1, <2>1 DEF ResultInv, unsent
  <2>3. cancelled => cancelled'
    BY <1>2 DEF cancelled
  <2>4. DispatchInv(d)'
    BY <1>1, <2>1, <2>3 DEF DispatchInv, unsent, Busy
  <2>5. KindInv(d)'
    <3>1. CutShort(d)' = CutShort(d) /\ kind'[d] = kind[d] /\ step'[d] = step[d]
      BY <1>1 DEF CutShort
    <3>2. cause = "deadline" => cause' = "deadline"
      BY <1>2 DEF cancelled
    <3>3. interrupted => interrupted'
      BY <1>2
    <3> QED
      BY <2>1, <3>1, <3>2, <3>3 DEF KindInv
  <2> QED
    BY <2>2, <2>4, <2>5
<1>7. ReportInv'
  <2>1. CASE Publish
    BY <1>1, <1>2, <2>1 DEF Publish, ReportInv, cancelled
  <2>2. CASE Interrupt \/ Deadline \/ UNCHANGED vars
    <3>1. UNCHANGED <<published, counted, partial>>
      BY <2>2 DEF Interrupt, Deadline, vars, report
    <3>2. cancelled => cancelled'
      BY <1>2 DEF cancelled
    <3> QED
      BY <1>0, <1>1, <1>2, <3>1, <3>2 DEF ReportInv
  <2> QED
    BY <2>1, <2>2 DEF Whole
<1> QED
  BY <1>3, <1>4, <1>5, <1>6, <1>7 DEF IInv

LEMMA Invariance ==
  ASSUME IInv, [Next]_vars
  PROVE  IInv'
<1>0. Types /\ SuitesBounded
  BY DEF IInv
<1>1. ASSUME NEW c \in Component, Quietly(c)
      PROVE  IInv'
  <2>1. Types' /\ SuitesBounded'
    BY <1>0, <1>1, QuietTypes, QuietSlots
  <2>2. Apart' /\ \A w \in Worker : WorkerInv(w)'
    BY <1>1, QuietWorkers
  <2>3. \A d \in Component : ResultInv(d)' /\ DispatchInv(d)' /\ KindInv(d)'
    BY <1>1, QuietResults, QuietDispatch, QuietKinds
  <2>4. ReportInv'
    BY <1>1, QuietReport
  <2> QED
    BY <2>1, <2>2, <2>3, <2>4 DEF IInv
<1>2. ASSUME NEW c \in Component, Return(c)
      PROVE  IInv'
  BY <1>0, <1>2, ReturnInv, OtherSlots DEF IInv
<1> QED
  BY <1>1, <1>2, WorksInv, WholeInv, Steps

LEMMA Initially == Init => IInv
<1> SUFFICES ASSUME Init PROVE IInv
  OBVIOUS
<1>1. ASSUME NEW c \in Component
      PROVE  /\ result[c] \in [Position(c) -> Answer]
             /\ \A i \in Position(c) : result[c][i] = "cutshort" <=> i \in pending[c]
             /\ \A i \in pending[c] : i > 0
  <2>1. known \in [DOMAIN known -> Decided]
    BY MutationRunAssumption DEF Init
  <2> QED
    <3>1. result[c] = preset[c]
      BY DEF Init
    <3>2. \A i \in Position(c) : preset[c][i] \in Answer /\ (preset[c][i] = "cutshort" <=> i \in pending[c])
      BY <2>1 DEF preset, pending, Answer, Decided
    <3>3. preset[c] \in [Position(c) -> Answer]
      BY <3>2 DEF preset
    <3> QED
      BY <3>1, <3>2, <3>3, Positions
<1>2. Types
  BY <1>1 DEF Init, Types, Answer, preset
<1>3. SuitesBounded
  <2>1. Baselines = {} /\ Commands = {}
    BY DEF Init, Baselines, Commands
  <2> QED
    BY <2>1, FS_EmptySet, MutationRunAssumption DEF Init, SuitesBounded
<1>4. Apart /\ \A w \in Worker : WorkerInv(w)
  BY DEF Init, Apart, WorkerInv, Idle, Busy, Pristine
<1>5. ReportInv
  BY DEF Init, ReportInv
<1>6. ASSUME NEW c \in Component
      PROVE  ResultInv(c) /\ DispatchInv(c) /\ KindInv(c)
  <2>1. \A i \in pending[c] : i \in Nat
    BY Positions
  <2> QED
    BY <1>1, <2>1, Positions DEF Init, ResultInv, DispatchInv, KindInv, unsent
<1> QED
  BY <1>2, <1>3, <1>4, <1>5, <1>6 DEF IInv

LEMMA Inductive == Spec => []IInv
BY Initially, Invariance, PTL DEF Spec

-------------------------------------------------------------------------------
(***************************************************************************)
(* TypeOK: a worker is never given a mutant somebody has an answer for.    *)
(***************************************************************************)
THEOREM TypeCorrect == Spec => []TypeOK
<1>1. IInv => TypeOK
  <2> SUFFICES ASSUME IInv PROVE TypeOK
    OBVIOUS
  <2>1. Types /\ SuitesBounded
    BY DEF IInv
  <2>2. slots \in Nat
    BY <2>1, Finite DEF SuitesBounded
  <2>3. ASSUME NEW w \in Worker
        PROVE  IF doing[w] = "idle" THEN at[w] = 0
               ELSE /\ at[w] \in Position(w[1])
                    /\ mutantAt(w[1], at[w]) \notin Acknowledged \cup DOMAIN known
    <3>1. WorkerInv(w) /\ w[1] \in Component
      BY Workers DEF IInv
    <3> QED
      BY <3>1 DEF WorkerInv, Held, Idle, Busy, pending, mutantAt
  <2>4. ASSUME NEW c \in Component
        PROVE  recorded[c] \subseteq Position(c)
    BY Positions DEF IInv, ResultInv
  <2> QED
    BY <2>1, <2>2, <2>3, <2>4 DEF Types, TypeOK, Answer
<1> QED
  BY <1>1, Inductive, PTL

(***************************************************************************)
(* SuitesBounded: the baselines and commands in flight, of all components, *)
(* hold the slots that are taken, and there are never more than Limit.     *)
(***************************************************************************)
THEOREM SuitesAreBounded == Spec => []SuitesBounded
<1>1. IInv => SuitesBounded
  BY DEF IInv
<1> QED
  BY <1>1, Inductive, PTL

(***************************************************************************)
(* ServicesNotShared: a component that publishes a port has one worker.    *)
(***************************************************************************)
THEOREM ServicesAreNotShared == Spec => []ServicesNotShared
<1>1. ASSUME NEW c \in Component, Declared[c].ports # {}
      PROVE  workersFor[c] = 1
  <2> DEFINE m == [dir |-> NoDir, occupies |-> <<>>, ports |-> Declared[c].ports]
             items == <<m, m>>
  <2>1. PICK p \in Declared[c].ports : TRUE
    BY <1>1
  <2>2. <<"port", p>> \in InCommon(m, m)
    BY <2>1 DEF InCommon, shared
  <2>3. DOMAIN items = 1..2 /\ items[1] = m /\ items[2] = m
    OBVIOUS
  <2>4. <<1, 2, <<"port", p>>>> \in Conflicts(items)
    <3>1. <<1, 2>> \in { q \in (DOMAIN items) \X (DOMAIN items) : q[1] < q[2] }
      BY <2>3
    <3>2. <<1, 2, <<"port", p>>>> \in
             { <<<<1, 2>>[1], <<1, 2>>[2], on>> : on \in InCommon(items[<<1, 2>>[1]], items[<<1, 2>>[2]]) }
      BY <2>2, <2>3
    <3> HIDE DEF items
    <3> QED
      BY <3>1, <3>2 DEF Conflicts
  <2> QED
    BY <2>4 DEF workersFor
<1>2. IInv => ServicesNotShared
  <2> SUFFICES ASSUME IInv, NEW v \in Commands, NEW w \in Commands, v # w, v[1] = w[1]
               PROVE  Declared[v[1]].ports = {}
    BY DEF ServicesNotShared
  <2>1. v \in Worker /\ w \in Worker /\ v[1] \in Component
    BY Workers DEF Commands
  <2>2. v \in Crew[v[1]] /\ w \in Crew[v[1]]
    BY <2>1 DEF IInv, WorkerInv, Held, Busy, Commands
  <2>3. v[2] \in Nat \ {0} /\ w[2] \in Nat \ {0} /\ v[2] <= workersFor[v[1]] /\ w[2] <= workersFor[v[1]]
    BY <2>1, <2>2 DEF Crew, Worker
  <2>4. v[2] # w[2]
    BY <2>1 DEF Worker
  <2>5. workersFor[v[1]] # 1
    BY <2>3, <2>4
  <2> QED
    BY <1>1, <2>1, <2>5
<1> QED
  BY <1>2, Inductive, PTL

(***************************************************************************)
(* MutantUnderTest: whatever became of the mutants before it, the file a   *)
(* suite runs against holds its mutant, and where no write can fail it is  *)
(* the only difference from the component.                                 *)
(***************************************************************************)
THEOREM EachMutantIsUnderTest == Spec => []MutantUnderTest
<1>1. IInv => MutantUnderTest
  <2> SUFFICES ASSUME IInv, NEW w \in Commands
               PROVE  LET m == mutantAt(w[1], at[w])
                      IN  /\ tree[w][FileOf[m]] = m
                          /\ w[1] \notin Faulty => \A f \in File \ {FileOf[m]} : tree[w][f] = Source
    BY DEF MutantUnderTest
  <2>1. w \in Worker /\ Held(w)
    BY DEF IInv, WorkerInv, Busy, Commands
  <2> QED
    BY <2>1 DEF Held
<1> QED
  BY <1>1, Inductive, PTL

(***************************************************************************)
(* RecordedAsDecided: what a later run may reuse is every verdict this one *)
(* reached, and no other.                                                  *)
(***************************************************************************)
THEOREM RecordsAreVerdicts == Spec => []RecordedAsDecided
<1>1. IInv => RecordedAsDecided
  BY DEF IInv, ResultInv, RecordedAsDecided
<1> QED
  BY <1>1, Inductive, PTL

(***************************************************************************)
(* CountsTellTheDeadline: a count listed as complete misses no mutant,     *)
(* unless the caller interrupted, and one listed as incomplete was stopped *)
(* by the deadline with a mutant left.                                     *)
(***************************************************************************)
THEOREM CountsAreHonest == Spec => []CountsTellTheDeadline
<1>1. IInv => CountsTellTheDeadline
  <2>1. ASSUME IInv, published, ~interrupted, NEW c \in counted, NEW i \in Position(c)
        PROVE  result[c][i] # "cutshort"
    BY <2>1 DEF IInv, ReportInv, KindInv, CutShort
  <2>2. ASSUME IInv, published, NEW c \in partial
        PROVE  cause = "deadline" /\ \E i \in Position(c) : result[c][i] = "cutshort"
    BY <2>2 DEF IInv, ReportInv, KindInv, CutShort
  <2> QED
    BY <2>1, <2>2 DEF CountsTellTheDeadline
<1> QED
  BY <1>1, Inductive, PTL

(***************************************************************************)
(* VerdictsStand: a suite in flight when the run was cancelled decides     *)
(* nothing, a verdict is never written over, and no mutant that has one is *)
(* given to a worker.                                                      *)
(***************************************************************************)
THEOREM VerdictsDoStand == Spec => VerdictsStand
<1>1. ASSUME IInv, Next
      PROVE  OnlyWholeSuitesDecide /\ VerdictsKept
  <2>0. Types /\ \A u \in Worker : WorkerInv(u)
    BY <1>1 DEF IInv
  <2>1. ASSUME UNCHANGED <<result, doing, at>>
        PROVE  OnlyWholeSuitesDecide /\ VerdictsKept
    BY <2>1 DEF OnlyWholeSuitesDecide, VerdictsKept
  <2>2. ASSUME NEW c \in Component, Quietly(c)
        PROVE  UNCHANGED <<result, doing, at>>
    BY <2>0, <2>2, QuietFrame DEF worker
  <2>3. ASSUME NEW c \in Component, Return(c)
        PROVE  UNCHANGED <<result, doing, at>>
    BY <2>3 DEF Return
  <2>4. ASSUME Whole
        PROVE  UNCHANGED <<result, doing, at>>
    BY <2>4 DEF Whole, Publish, Interrupt, Deadline, vars, worker
  <2>5. ASSUME NEW c \in Component, NEW w \in Crew[c], Works(c, w)
        PROVE  OnlyWholeSuitesDecide /\ VerdictsKept
    <3>0. w \in Worker /\ w[1] = c
      BY Positions
    <3>1. CASE Stage(c, w)
      <4>1. PICK i \in unsent(c) : at' = [at EXCEPT ![w] = i]
        BY <3>1 DEF Stage
      <4>2. result[c][i] = "cutshort" /\ result' = result
        BY <1>1, <3>1 DEF IInv, ResultInv, Stage
      <4>3. \A u \in Worker : at'[u] = IF u = w THEN i ELSE at[u]
        BY <2>0, <4>1 DEF Types
      <4> QED
        BY <3>0, <4>2, <4>3, Positions DEF OnlyWholeSuitesDecide, VerdictsKept
    <3>2. CASE StageFails(c, w)
      <4>1. PICK i \in unsent(c) : answer(c, i, "unviable")
        BY <3>2 DEF StageFails
      <4>2. i \in Position(c) /\ result[c][i] = "cutshort" /\ UNCHANGED <<doing, at>>
        BY <1>1, <3>2, <4>1, Positions DEF IInv, ResultInv, StageFails, unsent
      <4>3. OneAnswered(c, i, "unviable")
        BY <2>0, <4>1, <4>2, AnswerFrame DEF Answer, Decided
      <4>4. \A d \in Component : \A j \in Position(d) :
              result[d][j] # "cutshort" => result'[d][j] = result[d][j]
        BY <2>0, <4>2, <4>3 DEF OneAnswered, Types
      <4> QED
        BY <4>2, <4>4 DEF OnlyWholeSuitesDecide, VerdictsKept, Commands
    <3>3. CASE Goes(c, w)
      <4>1. UNCHANGED <<result, at>>
        BY <3>3 DEF Goes
      <4> QED
        BY <4>1 DEF OnlyWholeSuitesDecide, VerdictsKept
    <3>4. ASSUME NEW v \in Decided \cup {"cutshort"}, Answers(c, w, v)
          PROVE  OnlyWholeSuitesDecide /\ VerdictsKept
      <4>1. at[w] \in Position(c) /\ result[c][at[w]] = "cutshort"
        BY <2>0, <3>0, <3>4, Positions DEF WorkerInv, Held, Answers
      <4>2. OneAnswered(c, at[w], v)
        <5>1. answer(c, at[w], v) /\ v \in Answer
          BY <3>4 DEF Answers, Finish, Answer
        <5> QED
          BY <2>0, <4>1, <5>1, AnswerFrame
      <4>3. \A d \in Component : \A j \in Position(d) :
              result[d][j] # "cutshort" => result'[d][j] = result[d][j]
        <5>1. /\ \A d \in Component \ {c} : result'[d] = result[d]
              /\ result'[c] = [result[c] EXCEPT ![at[w]] = v]
          BY <4>2 DEF OneAnswered
        <5>2. result[c] \in [Position(c) -> Answer]
          BY <2>0 DEF Types
        <5>3. \A j \in Position(c) : j # at[w] => result'[c][j] = result[c][j]
          BY <5>1, <5>2
        <5> QED
          BY <4>1, <5>1, <5>3
      <4>4. \A u \in Worker : at'[u] = IF u = w THEN 0 ELSE at[u]
        BY <2>0, <3>4 DEF Answers, Finish, Types
      <4>5. VerdictsKept
        BY <3>0, <4>3, <4>4, Positions DEF VerdictsKept
      <4>6. cancelled => result' = result
        <5>1. SUFFICES ASSUME cancelled PROVE result' = result
          OBVIOUS
        <5>2. v = "cutshort"
          BY <3>4, <5>1 DEF Answers
        <5>3. result = [d \in Component |-> result[d]] /\ result[c] \in [Position(c) -> Answer]
          BY <2>0 DEF Types
        <5>4. result'[c] = result[c]
          BY <4>1, <4>2, <5>2, <5>3 DEF OneAnswered
        <5>5. result' = [d \in Component |-> result'[d]] /\ \A d \in Component : result'[d] = result[d]
          BY <4>2, <5>4 DEF OneAnswered
        <5> QED
          BY <5>3, <5>5
      <4> QED
        BY <4>5, <4>6 DEF OnlyWholeSuitesDecide
    <3> QED
      BY <2>0, <2>5, <3>1, <3>2, <3>3, <3>4, WorkFrame
  <2> QED
    BY <1>1, <2>1, <2>2, <2>3, <2>4, <2>5, Steps
<1>2. ASSUME IInv, [Next]_vars
      PROVE  [OnlyWholeSuitesDecide /\ VerdictsKept]_vars
  BY <1>1, <1>2
<1> QED
  BY <1>2, Inductive, PTL DEF Spec, VerdictsStand
-------------------------------------------------------------------------------
(***************************************************************************)
(*                           The state it leaves                           *)
(***************************************************************************)

(***************************************************************************)
(* A set of positions of a sequence has a largest element.                 *)
(***************************************************************************)
LEMMA Largest ==
  ASSUME NEW n \in Nat, NEW T \in SUBSET (1..n), T # {}
  PROVE  \E x \in T : \A y \in T : y <= x
<1> DEFINE Less == { ss \in Nat \X Nat : ss[1] < ss[2] }
           D == { n - y : y \in T }
<1>1. IsWellFoundedOn(Less, Nat)
  BY NatLessThanWellFounded DEF OpToRel
<1>2. D \subseteq Nat /\ D # {}
  <2>1. \A y \in T : y \in Int /\ y <= n
    OBVIOUS
  <2>2. \A y \in T : n - y \in Nat
    BY <2>1
  <2> QED
    BY <2>2
<1>3. PICK d \in D : \A e \in D : <<e, d>> \notin Less
  <2> HIDE DEF D, Less
  <2> QED BY <1>1, <1>2, WFMin
<1>4. PICK x \in T : d = n - x
  BY <1>3
<1>5. ASSUME NEW y \in T
      PROVE  y <= x
  <2>1. n - y \in D /\ n - y \in Nat /\ d \in Nat
    BY <1>2
  <2>2. ~(n - y < d)
    BY <2>1, <1>3
  <2>3. x \in Int /\ y \in Int
    OBVIOUS
  <2> QED
    BY <2>2, <2>3, <1>4
<1>6. QED
  BY <1>5

(***************************************************************************)
(* What is read of the verdicts file are lines of it, under their mutants. *)
(***************************************************************************)
LEMMA VerdictsAreLines ==
  ASSUME verdicts \in Seq(Line \cup {TornLine})
  PROVE  /\ DOMAIN Verdicts \subseteq TreeMutant
         /\ \A m \in DOMAIN Verdicts :
               /\ Verdicts[m] \in Line /\ Verdicts[m].of = m
               /\ \E i \in DOMAIN verdicts : verdicts[i] # TornLine /\ Verdicts[m] = verdicts[i]
<1>1. /\ DOMAIN verdicts = 1..Len(verdicts) /\ Len(verdicts) \in Nat
      /\ \A i \in DOMAIN verdicts : verdicts[i] \in Line \cup {TornLine}
  OBVIOUS
<1>2. /\ Readable \subseteq 1..Len(verdicts)
      /\ \A i \in Readable : verdicts[i] \in Line /\ verdicts[i].of \in TreeMutant /\ verdicts[i] # TornLine
  BY <1>1 DEF Readable, Line
<1>3. DOMAIN Verdicts = { verdicts[i].of : i \in Readable }
  BY DEF Verdicts
<1>4. ASSUME NEW m \in DOMAIN Verdicts
      PROVE  \E i \in Readable : Verdicts[m] = verdicts[i] /\ verdicts[i].of = m
  <2> DEFINE T == { i \in Readable : verdicts[i].of = m }
             P(i) == /\ verdicts[i].of = m
                     /\ \A j \in Readable : verdicts[j].of = m => j <= i
  <2>1. T \in SUBSET (1..Len(verdicts)) /\ T # {}
    BY <1>2, <1>3
  <2>2. PICK x \in T : \A y \in T : y <= x
    <3> HIDE DEF T
    <3> QED BY <2>1, <1>1, Largest
  <2>3. x \in Readable /\ P(x)
    BY <2>2
  <2>4. Verdicts[m] = verdicts[CHOOSE i \in Readable : P(i)]
    BY <1>3 DEF Verdicts
  <2>5. (CHOOSE i \in Readable : P(i)) \in Readable /\ P(CHOOSE i \in Readable : P(i))
    <3> HIDE DEF P
    <3> QED BY <2>3
  <2> QED
    BY <2>4, <2>5
<1> QED
  BY <1>1, <1>2, <1>3, <1>4

(***************************************************************************)
(* A write leaves a sequence of lines, whose new ones are those written.   *)
(***************************************************************************)
LEMMA WrittenLines ==
  ASSUME verdicts \in Seq(Line \cup {TornLine}), NEW line \in Line \cup {TornLine},
         ended \/ verdicts # <<>>
  PROVE  /\ written(line) \in Seq(Line \cup {TornLine})
         /\ written(line) # <<>>
         /\ \A i \in DOMAIN written(line) :
               \/ written(line)[i] \in {line, TornLine}
               \/ i \in DOMAIN verdicts /\ written(line)[i] = verdicts[i]
<1>1. CASE ended
  <2>1. written(line) = Append(verdicts, line)
    BY <1>1 DEF written
  <2> QED
    BY <2>1, AppendProperties
<1>2. CASE ~ended
  <2>1. written(line) = [verdicts EXCEPT ![Len(verdicts)] = TornLine]
    BY <1>2 DEF written
  <2>2. Len(verdicts) \in 1..Len(verdicts)
    BY <1>2
  <2>3. written(line) \in Seq(Line \cup {TornLine}) /\ Len(written(line)) = Len(verdicts)
    BY <2>1, <2>2, ExceptSeq
  <2> QED
    BY <2>1, <2>2, <2>3
<1> QED
  BY <1>1, <1>2

-------------------------------------------------------------------------------
(***************************************************************************)
(* The strengthening: from the moment its state is open, the fingerprint   *)
(* on disk is the run's; and what has been discarded of a state recorded   *)
(* under another fingerprint is gone before the fingerprint is replaced.   *)
(***************************************************************************)
Live == {"recalling", "waiting", "saving", "knowing", "executing"}

Discarding ==
    \/ discard = <<"verdicts", "baseline", "fingerprint">>
    \/ discard = <<"baseline", "fingerprint">> /\ verdicts = None
    \/ discard = <<"fingerprint">> /\ verdicts = None /\ baseline = None

Settled ==
    /\ place = "opening" \/ (open /\ place \in Live) => fingerprint = mine
    /\ place \in {"clearing", "reading", "discarding", "opening", "recalling", "saving", "knowing"} => open
    /\ place = "discarding" => Discarding
    /\ place # "executing" => decided = {} /\ recalled = nothing

ResumeInv == ResumeTypeOK /\ HeldUnderFingerprint /\ ReusedIsOwn /\ Settled

(***************************************************************************)
(* The verdict of a mutant, as written, is a line under the run's own      *)
(* fingerprint.                                                            *)
(***************************************************************************)
LEMMA VerdictIsALine ==
  ASSUME ResumeTypeOK, place = "executing", NEW m \in TreeMutant
  PROVE  verdictOf(m) \in Line /\ verdictOf(m).under = mine /\ verdictOf(m) # TornLine
<1>1. measured \in Baseline /\ mine \in Fingerprint
  BY DEF ResumeTypeOK
<1> QED
  BY <1>1, MutationResumeAssumption DEF verdictOf, Line, Baseline

(***************************************************************************)
(* A write to the verdicts file, whole or unfinished, leaves lines of the  *)
(* run's own fingerprint where there were only such.                       *)
(***************************************************************************)
LEMMA WritesKeepLines ==
  ASSUME ResumeTypeOK, HeldUnderFingerprint, Settled, place = "executing", open, NEW m \in TreeMutant,
         NEW line \in {TornLine, verdictOf(m)}
  PROVE  /\ written(line) \in Seq(Line \cup {TornLine})
         /\ written(line) \notin {None, <<>>}
         /\ \A i \in DOMAIN written(line) : written(line)[i] # TornLine => written(line)[i].under = fingerprint
<1>1. verdicts \in Seq(Line \cup {TornLine}) /\ (ended \/ verdicts # <<>>)
  BY DEF ResumeTypeOK
<1>2. fingerprint = mine /\ mine # None
  BY MutationResumeAssumption DEF Settled, Live, ResumeTypeOK
<1>3. verdictOf(m) \in Line /\ verdictOf(m).under = mine
  BY VerdictIsALine
<1>4. \A i \in DOMAIN verdicts : verdicts[i] # TornLine => verdicts[i].under = fingerprint
  BY <1>1, <1>2, MutationResumeAssumption DEF HeldUnderFingerprint
<1>5. line \in Line \cup {TornLine}
  BY <1>3
<1>6. /\ written(line) \in Seq(Line \cup {TornLine})
      /\ written(line) # <<>>
      /\ \A i \in DOMAIN written(line) :
            \/ written(line)[i] \in {line, TornLine}
            \/ i \in DOMAIN verdicts /\ written(line)[i] = verdicts[i]
  BY <1>1, <1>5, WrittenLines
<1>7. written(line) # None
  BY <1>6, MutationResumeAssumption
<1> QED
  BY <1>2, <1>3, <1>4, <1>6, <1>7

LEMMA NothingKnown == nothing \in [DOMAIN nothing -> Line] /\ DOMAIN nothing = {}
  BY DEF nothing

LEMMA EmptyIsTyped ==
  /\ <<>> \in Seq({"verdicts", "baseline", "fingerprint"})
  /\ <<>> \in Seq(Line \cup {TornLine}) /\ <<>> # None
  /\ \A i \in DOMAIN <<>> : FALSE
<1>1. <<>> \in Seq(Line \cup {TornLine})
  BY EmptySeq
<1>2. <<>> \in Seq({"verdicts", "baseline", "fingerprint"})
  BY EmptySeq
<1>3. \A i \in DOMAIN <<>> : FALSE
  OBVIOUS
<1> QED
  BY <1>1, <1>2, <1>3, MutationResumeAssumption

LEMMA InitInvariant == ResumeInit => ResumeInv
<1> SUFFICES ASSUME ResumeInit PROVE ResumeInv
  OBVIOUS
<1>1. ResumeTypeOK
  <2>1. recalled \in [DOMAIN recalled -> Line] /\ DOMAIN recalled \subseteq TreeMutant
    BY NothingKnown DEF ResumeInit
  <2>2. runs \in 0..MaxRuns /\ faults \in 0..MaxFaults
    BY MutationResumeAssumption DEF ResumeInit
  <2> QED
    BY <2>1, <2>2, EmptyIsTyped DEF ResumeInit, ResumeTypeOK
<1>2. HeldUnderFingerprint /\ Settled /\ ReusedIsOwn
  BY DEF ResumeInit, HeldUnderFingerprint, Settled, Live, ReusedIsOwn, nothing
<1> QED
  BY <1>1, <1>2 DEF ResumeInv

(***************************************************************************)
(* Every step of a run preserves it, one action at a time.                 *)
(***************************************************************************)
LEMMA StepInvariant == ResumeInv /\ [ResumeNext]_resumeVars => ResumeInv'
<1> SUFFICES ASSUME ResumeInv, [ResumeNext]_resumeVars PROVE ResumeInv'
  OBVIOUS
<1> USE MutationResumeAssumption DEF ResumeInv, Live, disk, run, history, over, fault
<1>1. ASSUME NEW f \in Fingerprint, NEW fresh \in BOOLEAN, Begin(f, fresh)
      PROVE  ResumeInv'
  <2>1. ResumeTypeOK'
    BY <1>1, NothingKnown DEF Begin, ResumeTypeOK
  <2>2. HeldUnderFingerprint' /\ ReusedIsOwn' /\ Settled'
    BY <1>1, NothingKnown DEF Begin, HeldUnderFingerprint, ReusedIsOwn, Settled
  <2> QED
    BY <2>1, <2>2
<1>2. CASE Clear
  <2>1. ResumeTypeOK'
    BY <1>2 DEF Clear, removed, ResumeTypeOK
  <2>2. HeldUnderFingerprint' /\ ReusedIsOwn' /\ Settled'
    BY <1>2 DEF Clear, removed, HeldUnderFingerprint, ReusedIsOwn, Settled
  <2> QED
    BY <2>1, <2>2
<1>3. CASE ReadFingerprint
  <2>1. discardOrder \in Seq({"verdicts", "baseline", "fingerprint"}) /\ discardOrder # <<>>
    BY DEF discardOrder
  <2>2. ResumeTypeOK'
    BY <1>3, <2>1 DEF ReadFingerprint, ResumeTypeOK
  <2>3. HeldUnderFingerprint' /\ ReusedIsOwn' /\ Settled'
    BY <1>3 DEF ReadFingerprint, mismatch, discardOrder, HeldUnderFingerprint, ReusedIsOwn, Settled, Discarding
  <2> QED
    BY <2>2, <2>3
<1>4. CASE Discard
  <2>1. Discarding /\ place = "discarding"
    BY <1>4 DEF Discard, Settled
  <2>5. Tail(discard) \in Seq({"verdicts", "baseline", "fingerprint"})
    BY <2>1, HeadTailProperties DEF ResumeTypeOK
  <2>2. CASE discard = <<"verdicts", "baseline", "fingerprint">>
    <3>1. Head(discard) = "verdicts" /\ Tail(discard) = <<"baseline", "fingerprint">>
      BY <2>2
    <3>2. ResumeTypeOK'
      BY <1>4, <2>5, <3>1 DEF Discard, removed, ResumeTypeOK
    <3>3. HeldUnderFingerprint' /\ ReusedIsOwn' /\ Settled'
      BY <1>4, <3>1 DEF Discard, removed, HeldUnderFingerprint, ReusedIsOwn, Settled, Discarding
    <3> QED
      BY <3>2, <3>3
  <2>3. CASE discard = <<"baseline", "fingerprint">> /\ verdicts = None
    <3>1. Head(discard) = "baseline" /\ Tail(discard) = <<"fingerprint">>
      BY <2>3
    <3>2. ResumeTypeOK'
      BY <1>4, <2>5, <3>1 DEF Discard, removed, ResumeTypeOK
    <3>3. HeldUnderFingerprint' /\ ReusedIsOwn' /\ Settled'
      BY <1>4, <2>3, <3>1 DEF Discard, removed, HeldUnderFingerprint, ReusedIsOwn, Settled, Discarding
    <3> QED
      BY <3>2, <3>3
  <2>4. CASE discard = <<"fingerprint">> /\ verdicts = None /\ baseline = None
    <3>1. Head(discard) = "fingerprint" /\ Tail(discard) = <<>>
      BY <2>4
    <3>2. ResumeTypeOK'
      BY <1>4, <2>5, <3>1 DEF Discard, removed, ResumeTypeOK
    <3>3. HeldUnderFingerprint' /\ ReusedIsOwn' /\ Settled'
      BY <1>4, <2>4, <3>1 DEF Discard, removed, HeldUnderFingerprint, ReusedIsOwn, Settled, Discarding
    <3> QED
      BY <3>2, <3>3
  <2> QED
    BY <2>1, <2>2, <2>3, <2>4 DEF Discarding
<1>5. CASE Open
  <2>1. <<>> \in Seq(Line \cup {TornLine}) /\ <<>> # None
    BY EmptyIsTyped
  <2>2. ResumeTypeOK'
    BY <1>5, <2>1 DEF Open, terminateTornLine, ResumeTypeOK
  <2>3. HeldUnderFingerprint'
    <3>1. CASE verdicts = None
      BY <1>5, <3>1, EmptyIsTyped DEF Open, HeldUnderFingerprint
    <3>2. CASE verdicts # None
      BY <1>5, <3>2 DEF Open, HeldUnderFingerprint
    <3> QED
      BY <3>1, <3>2
  <2>4. ReusedIsOwn' /\ Settled'
    BY <1>5 DEF Open, terminateTornLine, ReusedIsOwn, Settled
  <2> QED
    BY <2>2, <2>3, <2>4
<1>6. CASE StateFails
  <2>1. ResumeTypeOK'
    <3>1. faults' \in 0..MaxFaults
      BY <1>6 DEF StateFails, ResumeTypeOK
    <3>2. discard' \in Seq({"verdicts", "baseline", "fingerprint"}) /\ place' = "waiting" /\ open' = FALSE
      BY <1>6, EmptyIsTyped DEF StateFails
    <3> QED
      BY <1>6, <3>1, <3>2 DEF StateFails, ResumeTypeOK
  <2>2. HeldUnderFingerprint' /\ ReusedIsOwn' /\ Settled'
    BY <1>6 DEF StateFails, HeldUnderFingerprint, ReusedIsOwn, Settled
  <2> QED
    BY <2>1, <2>2
<1>7. CASE Recall
  <2>1. ResumeTypeOK'
    BY <1>7 DEF Recall, reusable, ResumeTypeOK
  <2>2. HeldUnderFingerprint' /\ ReusedIsOwn' /\ Settled'
    BY <1>7 DEF Recall, reusable, HeldUnderFingerprint, ReusedIsOwn, Settled, ResumeTypeOK
  <2> QED
    BY <2>1, <2>2
<1>8. CASE RecallFails
  BY <1>8 DEF RecallFails, ResumeTypeOK, HeldUnderFingerprint, ReusedIsOwn, Settled
<1>9. CASE Wait
  BY <1>9 DEF Wait, ResumeTypeOK, HeldUnderFingerprint, ReusedIsOwn, Settled
<1>10. CASE Measure
  <2>1. PICK took \in Elapsed : measured' = [under |-> mine, elapsed |-> waited + took, took |-> took]
    BY <1>10 DEF Measure
  <2>2. measured' \in Baseline /\ measured'.under = mine
    BY <1>10, <2>1 DEF Measure, Baseline, ResumeTypeOK
  <2>3. ResumeTypeOK'
    BY <1>10, <2>2 DEF Measure, ResumeTypeOK
  <2>4. HeldUnderFingerprint' /\ ReusedIsOwn' /\ Settled'
    BY <1>10, <2>2 DEF Measure, HeldUnderFingerprint, ReusedIsOwn, Settled
  <2> QED
    BY <2>3, <2>4
<1>11. CASE Save
  <2>1. ResumeTypeOK'
    BY <1>11 DEF Save, ResumeTypeOK
  <2>2. HeldUnderFingerprint' /\ ReusedIsOwn' /\ Settled'
    BY <1>11 DEF Save, HeldUnderFingerprint, ReusedIsOwn, Settled
  <2> QED
    BY <2>1, <2>2
<1>12. CASE SaveFails
  BY <1>12 DEF SaveFails, ResumeTypeOK, HeldUnderFingerprint, ReusedIsOwn, Settled
<1>13. CASE Know
  <2>1. verdicts \in Seq(Line \cup {TornLine}) /\ fingerprint = mine /\ mine # None
    BY <1>13 DEF Know, Settled, ResumeTypeOK
  <2>2. /\ DOMAIN Verdicts \subseteq TreeMutant
        /\ \A m \in DOMAIN Verdicts :
              /\ Verdicts[m] \in Line /\ Verdicts[m].of = m
              /\ \E i \in DOMAIN verdicts : verdicts[i] # TornLine /\ Verdicts[m] = verdicts[i]
    BY <2>1, VerdictsAreLines
  <2>3. Verdicts \in [DOMAIN Verdicts -> Line]
    BY <2>2 DEF Verdicts
  <2>4. \A m \in DOMAIN Verdicts : Verdicts[m].of = m /\ Verdicts[m].under = mine
    BY <2>1, <2>2 DEF HeldUnderFingerprint
  <2>5. ResumeTypeOK'
    BY <1>13, <2>2, <2>3 DEF Know, ResumeTypeOK, Settled
  <2>6. HeldUnderFingerprint' /\ ReusedIsOwn' /\ Settled'
    BY <1>13, <2>4 DEF Know, HeldUnderFingerprint, ReusedIsOwn, Settled
  <2> QED
    BY <2>5, <2>6
<1>14. CASE KnowFails
  BY <1>14 DEF KnowFails, ResumeTypeOK, HeldUnderFingerprint, ReusedIsOwn, Settled
<1>15. ASSUME NEW m \in TreeMutant, Record(m)
       PROVE  ResumeInv'
  <2>1. place = "executing" /\ m \in TreeMutant \ DOMAIN recalled
    BY <1>15 DEF Record, Unmeasured
  <2>2. CASE open
    <3>1. /\ written(verdictOf(m)) \in Seq(Line \cup {TornLine})
          /\ written(verdictOf(m)) \notin {None, <<>>}
          /\ \A i \in DOMAIN written(verdictOf(m)) :
                written(verdictOf(m))[i] # TornLine => written(verdictOf(m))[i].under = fingerprint
      BY <2>1, <2>2, WritesKeepLines
    <3>2. verdicts' = written(verdictOf(m)) /\ ended' = TRUE /\ kept' = kept \cup {m}
      BY <1>15, <2>2 DEF Record
    <3>3. ResumeTypeOK'
      BY <1>15, <2>1, <3>1, <3>2 DEF Record, ResumeTypeOK
    <3>4. HeldUnderFingerprint' /\ ReusedIsOwn' /\ Settled'
      BY <1>15, <3>1, <3>2 DEF Record, HeldUnderFingerprint, ReusedIsOwn, Settled
    <3> QED
      BY <3>3, <3>4
  <2>3. CASE ~open
    <3>1. ResumeTypeOK'
      BY <1>15, <2>1, <2>3 DEF Record, ResumeTypeOK
    <3>2. HeldUnderFingerprint' /\ ReusedIsOwn' /\ Settled'
      BY <1>15, <2>3 DEF Record, HeldUnderFingerprint, ReusedIsOwn, Settled
    <3> QED
      BY <3>1, <3>2
  <2> QED
    BY <2>2, <2>3
<1>16. ASSUME NEW m \in TreeMutant, place = "executing", open, Unfinished(m), fingerprint' = fingerprint
       PROVE  /\ verdicts' \in Seq(Line \cup {TornLine}) /\ ended' \in BOOLEAN
              /\ ~ended' => verdicts' \notin {None, <<>>}
              /\ \A i \in DOMAIN verdicts' : verdicts'[i] # TornLine => verdicts'[i].under = fingerprint
  <2>1. CASE UNCHANGED <<verdicts, ended>>
    <3>1. verdicts \in Seq(Line \cup {TornLine}) /\ fingerprint # None
      BY <1>16 DEF ResumeTypeOK, Settled
    <3> QED
      BY <2>1, <3>1 DEF ResumeTypeOK, HeldUnderFingerprint
  <2>2. ASSUME NEW line \in {TornLine, verdictOf(m)}, verdicts' = written(line), ended' = FALSE
        PROVE  /\ verdicts' \in Seq(Line \cup {TornLine}) /\ ended' \in BOOLEAN
               /\ ~ended' => verdicts' \notin {None, <<>>}
               /\ \A i \in DOMAIN verdicts' : verdicts'[i] # TornLine => verdicts'[i].under = fingerprint
    BY <1>16, <2>2, WritesKeepLines
  <2> QED
    BY <1>16, <2>1, <2>2 DEF Unfinished
<1>17. ASSUME NEW m \in TreeMutant, RecordFails(m)
       PROVE  ResumeInv'
  <2>1. /\ verdicts' \in Seq(Line \cup {TornLine}) /\ ended' \in BOOLEAN
        /\ ~ended' => verdicts' \notin {None, <<>>}
        /\ \A i \in DOMAIN verdicts' : verdicts'[i] # TornLine => verdicts'[i].under = fingerprint
    BY <1>16, <1>17 DEF RecordFails
  <2>2. ResumeTypeOK'
    BY <1>17, <2>1 DEF RecordFails, Unmeasured, ResumeTypeOK
  <2>3. HeldUnderFingerprint' /\ ReusedIsOwn' /\ Settled'
    BY <1>17, <2>1 DEF RecordFails, HeldUnderFingerprint, ReusedIsOwn, Settled
  <2> QED
    BY <2>2, <2>3
<1>18. ASSUME NEW m \in TreeMutant, KillWriting(m)
       PROVE  ResumeInv'
  <2>1. /\ verdicts' \in Seq(Line \cup {TornLine}) /\ ended' \in BOOLEAN
        /\ ~ended' => verdicts' \notin {None, <<>>}
        /\ \A i \in DOMAIN verdicts' : verdicts'[i] # TornLine => verdicts'[i].under = fingerprint
    BY <1>16, <1>18 DEF KillWriting
  <2>2. ResumeTypeOK'
    BY <1>18, <2>1, NothingKnown, EmptyIsTyped DEF KillWriting, ResumeTypeOK
  <2>3. HeldUnderFingerprint' /\ ReusedIsOwn' /\ Settled'
    BY <1>18, <2>1, NothingKnown DEF KillWriting, HeldUnderFingerprint, ReusedIsOwn, Settled
  <2> QED
    BY <2>2, <2>3
<1>19. CASE Kill \/ End
  <2>1. /\ place' = "idle" /\ discard' = <<>> /\ open' = FALSE /\ waited' = 0 /\ measured' = None
        /\ recalled' = nothing /\ decided' = {}
        /\ UNCHANGED <<fingerprint, baseline, verdicts, ended, mine, runs, faults, kept>>
    BY <1>19 DEF Kill, End
  <2>3. recalled' \in [DOMAIN recalled' -> Line] /\ DOMAIN recalled' = {}
    BY <2>1, NothingKnown
  <2>4. ResumeTypeOK'
    BY <2>1, <2>3, EmptyIsTyped DEF ResumeTypeOK
  <2>2. HeldUnderFingerprint' /\ ReusedIsOwn' /\ Settled'
    BY <1>19, NothingKnown DEF Kill, End, HeldUnderFingerprint, ReusedIsOwn, Settled
  <2> QED
    BY <2>2, <2>4
<1>20. CASE UNCHANGED resumeVars
  BY <1>20 DEF resumeVars, ResumeTypeOK, HeldUnderFingerprint, ReusedIsOwn, Settled, Discarding
<1>21. CASE Stop
  BY <1>20, <1>21 DEF Stop
<1> QED
  BY <1>1, <1>2, <1>3, <1>4, <1>5, <1>6, <1>7, <1>8, <1>9, <1>10, <1>11, <1>12, <1>13, <1>14,
     <1>15, <1>17, <1>18, <1>19, <1>20, <1>21 DEF ResumeNext

(***************************************************************************)
(* Every variable of the mutation state has its type, and no run measures  *)
(* a mutant it has a verdict for.                                          *)
(***************************************************************************)
THEOREM ResumeTypeCorrect == ResumeSpec => []ResumeTypeOK
<1>1. ResumeInv => ResumeTypeOK
  BY DEF ResumeInv
<1> QED
  BY <1>1, InitInvariant, StepInvariant, PTL DEF ResumeSpec

(***************************************************************************)
(* Wherever runs are killed and whatever fails, the directory never holds  *)
(* a verdict or a baseline under a fingerprint it was not measured under.  *)
(***************************************************************************)
THEOREM KeyedByFingerprint == ResumeSpec => []HeldUnderFingerprint
<1>1. ResumeInv => HeldUnderFingerprint
  BY DEF ResumeInv
<1> QED
  BY <1>1, InitInvariant, StepInvariant, PTL DEF ResumeSpec

(***************************************************************************)
(* No run goes by a baseline or a verdict of another fingerprint.          *)
(***************************************************************************)
THEOREM ReuseIsSound == ResumeSpec => []ReusedIsOwn
<1>1. ResumeInv => ReusedIsOwn
  BY DEF ResumeInv
<1> QED
  BY <1>1, InitInvariant, StepInvariant, PTL DEF ResumeSpec

-------------------------------------------------------------------------------
(***************************************************************************)
(* Why a kill loses nothing that was recorded: until a file operation      *)
(* fails, what was kept since the tree last changed is on disk in lines    *)
(* that end, under the fingerprint of the run that is on, or was last; and *)
(* a file that is being written to ends in a newline.                      *)
(***************************************************************************)
Lines(m) == { i \in Readable : verdicts[i].of = m }

OnDisk ==
    faults = 0 =>
        /\ kept # {} => place \notin {"clearing", "discarding"} /\ fingerprint = mine /\ verdicts # None
        /\ \A m \in kept : Lines(m) # {}
        /\ place \in Live => open /\ ended

KInv == ResumeInv /\ OnDisk /\ KeptIsReused

LEMMA InitKept == ResumeInit => KInv
<1> SUFFICES ASSUME ResumeInit PROVE KInv
  OBVIOUS
<1>1. ResumeInv
  BY InitInvariant
<1>2. OnDisk /\ KeptIsReused
  BY DEF ResumeInit, OnDisk, Live, KeptIsReused
<1> QED
  BY <1>1, <1>2 DEF KInv

(***************************************************************************)
(* A line appended hides none that could be read.                          *)
(***************************************************************************)
LEMMA AppendedLines ==
  ASSUME verdicts \in Seq(Line \cup {TornLine}), ended, NEW line \in Line \cup {TornLine},
         verdicts' = written(line)
  PROVE  /\ \A m : Lines(m) \subseteq Lines(m)'
         /\ ended' /\ line # TornLine => Lines(line.of)' # {}
<1>1. /\ verdicts' = Append(verdicts, line) /\ Len(verdicts) \in Nat
      /\ Len(verdicts') = Len(verdicts) + 1
      /\ DOMAIN verdicts = 1..Len(verdicts) /\ DOMAIN verdicts' = 1..(Len(verdicts) + 1)
      /\ verdicts'[Len(verdicts) + 1] = line
      /\ \A i \in 1..Len(verdicts) : verdicts'[i] = verdicts[i]
  BY AppendProperties DEF written
<1>2. \A i \in DOMAIN verdicts : i \in DOMAIN verdicts' /\ i < Len(verdicts') /\ verdicts'[i] = verdicts[i]
  BY <1>1
<1>3. ASSUME NEW m
      PROVE  Lines(m) \subseteq Lines(m)'
  BY <1>2 DEF Lines, Readable
<1>4. ASSUME ended', line # TornLine
      PROVE  Len(verdicts) + 1 \in Lines(line.of)'
  BY <1>1, <1>4 DEF Lines, Readable
<1> QED
  BY <1>3, <1>4

(***************************************************************************)
(* Where nothing has failed yet, nothing fails in the step.                *)
(***************************************************************************)
LEMMA FaultsAreCounted ==
  ASSUME ResumeTypeOK, [ResumeNext]_resumeVars, faults' = 0
  PROVE  faults = 0 /\ ~fault
<1>1. faults \in Nat /\ (fault => faults' = faults + 1)
  BY MutationResumeAssumption DEF ResumeTypeOK, fault
<1>2. faults' = faults \/ fault
  BY DEF ResumeNext, Begin, Clear, ReadFingerprint, Discard, Open, StateFails, Recall, RecallFails, Wait,
         Measure, Save, SaveFails, Know, KnowFails, Record, RecordFails, KillWriting, Kill, End,
         Stop, over, resumeVars, history
<1> QED
  BY <1>1, <1>2

LEMMA StepKept == KInv /\ [ResumeNext]_resumeVars => KInv'
<1> SUFFICES ASSUME KInv, [ResumeNext]_resumeVars PROVE KInv'
  OBVIOUS
<1>1. ResumeInv /\ ResumeInv'
  BY StepInvariant DEF KInv
<1> SUFFICES ASSUME faults' = 0 PROVE OnDisk' /\ KeptIsReused'
  BY <1>1 DEF KInv, OnDisk, KeptIsReused
<1>2. faults = 0 /\ ~fault
  BY <1>1, FaultsAreCounted DEF ResumeInv
<1>3. /\ kept # {} => place \notin {"clearing", "discarding"} /\ fingerprint = mine /\ verdicts # None
      /\ \A m \in kept : Lines(m) # {}
      /\ place \in Live => open /\ ended
      /\ place = "executing" => kept \subseteq DOMAIN recalled \cup decided
      /\ kept # {} => verdicts \in Seq(Line \cup {TornLine})
  BY <1>1, <1>2 DEF KInv, OnDisk, KeptIsReused, ResumeInv, ResumeTypeOK
<1> DEFINE Same == UNCHANGED <<verdicts, ended>>
<1>4. Same => \A m : Lines(m)' = Lines(m)
  BY DEF Lines, Readable
<1> USE DEF OnDisk, KeptIsReused, Live, disk, run, history
<1>5. ASSUME NEW f \in Fingerprint, NEW fresh \in BOOLEAN, Begin(f, fresh)
      PROVE  OnDisk' /\ KeptIsReused'
  BY <1>3, <1>4, <1>5 DEF Begin
<1>6. CASE Clear
  <2>1. kept' = {} /\ place' \in {"clearing", "reading"}
    BY <1>3, <1>6 DEF Clear
  <2> QED
    BY <2>1
<1>7. CASE ReadFingerprint
  <2>1. kept # {} => ~mismatch
    BY <1>3 DEF mismatch
  <2> QED
    BY <1>3, <1>4, <1>7, <2>1 DEF ReadFingerprint
<1>8. CASE Discard
  <2>1. kept' = {} /\ place' \in {"discarding", "opening"}
    BY <1>3, <1>8 DEF Discard
  <2> QED
    BY <2>1
<1>9. CASE Open
  <2>1. open
    BY <1>1, <1>9 DEF Open, ResumeInv, Settled
  <2>2. \A m \in kept : Lines(m) \subseteq Lines(m)'
    BY <1>3, <1>9 DEF Open, terminateTornLine, Lines, Readable
  <2>3. kept' = kept /\ place' = "recalling" /\ ended' /\ open' = open /\ UNCHANGED <<fingerprint, mine>>
    BY <1>9 DEF Open, terminateTornLine
  <2>4. kept' # {} => verdicts' # None
    BY <1>3, <1>9 DEF Open
  <2> QED
    BY <1>3, <2>1, <2>2, <2>3, <2>4
<1>10. CASE Recall \/ Wait \/ Measure \/ Save
  <2>1. place \in Live /\ place' \in Live /\ open' = open /\ Same /\ UNCHANGED <<fingerprint, mine, kept>>
    BY <1>10 DEF Recall, Wait, Measure, Save
  <2>2. place' # "executing"
    BY <1>3, <1>10 DEF Recall, Wait, Measure, Save
  <2> QED
    BY <1>3, <1>4, <2>1, <2>2
<1>11. CASE Know
  <2>1. \A m \in kept : m \in DOMAIN Verdicts
    <3>1. \A m \in kept : \E i \in Readable : verdicts[i].of = m
      BY <1>3 DEF Lines
    <3>2. DOMAIN Verdicts = { verdicts[i].of : i \in Readable }
      BY DEF Verdicts
    <3> QED
      BY <3>1, <3>2
  <2>2. recalled' = Verdicts /\ place = "knowing" /\ place' = "executing" /\ UNCHANGED <<disk, mine, open, kept>>
    BY <1>11 DEF Know
  <2> QED
    BY <1>3, <1>4, <2>1, <2>2
<1>12. ASSUME NEW m \in TreeMutant, Record(m)
       PROVE  OnDisk' /\ KeptIsReused'
  <2>1. place = "executing" /\ open /\ ended /\ place' = place /\ open' = open /\ ended' = TRUE
        /\ verdicts' = written(verdictOf(m)) /\ kept' = kept \cup {m}
        /\ decided' = decided \cup {m} /\ UNCHANGED <<fingerprint, mine, recalled>>
    BY <1>3, <1>12 DEF Record
  <2>2. verdictOf(m) \in Line /\ verdictOf(m) # TornLine /\ verdictOf(m).of = m
    BY <1>1, <2>1, VerdictIsALine DEF ResumeInv, verdictOf
  <2>3. verdicts \in Seq(Line \cup {TornLine}) /\ verdicts' # None /\ fingerprint = mine
    BY <1>1, <2>1 DEF ResumeInv, ResumeTypeOK, Settled
  <2>4. (\A n : Lines(n) \subseteq Lines(n)') /\ Lines(m)' # {}
    BY <2>1, <2>2, <2>3, AppendedLines
  <2>5. \A n \in kept' : Lines(n)' # {}
    BY <1>3, <2>1, <2>4
  <2>6. verdicts' # None
    BY <1>1, <2>1 DEF ResumeInv, ResumeTypeOK
  <2> QED
    BY <1>3, <2>1, <2>3, <2>5, <2>6
<1>13. ASSUME NEW m \in TreeMutant, KillWriting(m)
       PROVE  OnDisk' /\ KeptIsReused'
  <2>1. place = "executing" /\ open /\ ended /\ place' = "idle" /\ Unfinished(m)
        /\ UNCHANGED <<fingerprint, mine, kept>>
    BY <1>3, <1>13 DEF KillWriting, over
  <2>2. verdictOf(m) \in Line
    BY <1>1, <2>1, VerdictIsALine DEF ResumeInv
  <2>3. verdicts \in Seq(Line \cup {TornLine})
    BY <1>1, <2>1 DEF ResumeInv, ResumeTypeOK
  <2>4. \A n : Lines(n) \subseteq Lines(n)'
    <3>1. CASE Same
      BY <1>4, <3>1
    <3>2. ASSUME NEW line \in {TornLine, verdictOf(m)}, verdicts' = written(line)
          PROVE  \A n : Lines(n) \subseteq Lines(n)'
      BY <2>1, <2>2, <2>3, <3>2, AppendedLines
    <3> QED
      BY <2>1, <3>1, <3>2 DEF Unfinished
  <2>5. kept' # {} => verdicts' # None
    BY <1>1, <1>3, <2>1, <2>4 DEF ResumeInv, ResumeTypeOK, Unfinished
  <2> QED
    BY <1>3, <2>1, <2>4, <2>5
<1>14. CASE Kill \/ End
  <2>1. place' = "idle" /\ Same /\ UNCHANGED <<fingerprint, mine, kept>>
    BY <1>14 DEF Kill, End, over
  <2>2. kept # {} => place \notin {"clearing", "discarding"} /\ fingerprint = mine /\ verdicts # None
    BY <1>3
  <2> QED
    BY <1>3, <1>4, <2>1
<1>15. CASE UNCHANGED resumeVars \/ Stop
  BY <1>2, <1>3, <1>4, <1>15 DEF Stop, resumeVars
<1> QED
  BY <1>2, <1>5, <1>6, <1>7, <1>8, <1>9, <1>10, <1>11, <1>12, <1>13, <1>14, <1>15
     DEF ResumeNext, StateFails, RecallFails, SaveFails, KnowFails, RecordFails

(***************************************************************************)
(* Until a file operation fails, a run on an unchanged tree reuses every   *)
(* verdict whose recording returned, however many runs were killed before. *)
(***************************************************************************)
THEOREM KillLosesOnlyInFlight == ResumeSpec => []KeptIsReused
<1>1. KInv => KeptIsReused
  BY DEF KInv
<1> QED
  BY <1>1, InitKept, StepKept, PTL DEF ResumeSpec
-------------------------------------------------------------------------------
(***************************************************************************)
(* Why a resumed run has the budget of the one it resumes: until a file    *)
(* operation fails, a run measures a baseline of its own only where none   *)
(* is recorded, so nothing is kept; and of the lines about a mutant that   *)
(* is kept, one is such that it and those after it have the recorded       *)
(* baseline's time.  Lines before it may have another: --fresh removes the *)
(* baseline and the verdicts one after the other, and may be killed        *)
(* between the two.                                                        *)
(***************************************************************************)
LinesOf(m) == { i \in DOMAIN verdicts : verdicts[i] # TornLine /\ verdicts[i].of = m }

InBudget(m) ==
    \E i \in LinesOf(m) :
        \A j \in LinesOf(m) : i <= j => verdicts[j].elapsed = baseline.elapsed

Budgeted ==
    faults = 0 =>
        /\ place \in {"waiting", "saving"} => baseline = None
        /\ place \in {"knowing", "executing"} => measured = baseline
        /\ kept # {} => baseline # None
        /\ \A m \in kept : InBudget(m)

BudgetInv == KInv /\ Budgeted /\ OneBudget

LEMMA InitBudget == ResumeInit => BudgetInv
<1> SUFFICES ASSUME ResumeInit PROVE BudgetInv
  OBVIOUS
<1>1. KInv
  BY InitKept
<1>2. Budgeted /\ OneBudget
  BY DEF ResumeInit, Budgeted, OneBudget
<1> QED
  BY <1>1, <1>2 DEF BudgetInv

(***************************************************************************)
(* A line in the budget, or a torn one, appended.                          *)
(***************************************************************************)
LEMMA BudgetedAppend ==
  ASSUME verdicts \in Seq(Line \cup {TornLine}), ended, NEW line \in Line \cup {TornLine},
         line # TornLine => line.elapsed = baseline.elapsed,
         verdicts' = written(line), baseline' = baseline
  PROVE  /\ \A m : InBudget(m) => InBudget(m)'
         /\ line # TornLine => InBudget(line.of)'
<1>1. /\ verdicts' = Append(verdicts, line) /\ Len(verdicts) \in Nat
      /\ DOMAIN verdicts = 1..Len(verdicts) /\ DOMAIN verdicts' = 1..(Len(verdicts) + 1)
      /\ verdicts'[Len(verdicts) + 1] = line
      /\ \A i \in 1..Len(verdicts) : verdicts'[i] = verdicts[i]
  BY AppendProperties DEF written
<1>2. ASSUME NEW m
      PROVE  /\ \A i \in LinesOf(m) : i \in LinesOf(m)'
             /\ \A i \in LinesOf(m)' : \/ i \in LinesOf(m) /\ verdicts'[i] = verdicts[i]
                                       \/ i = Len(verdicts) + 1 /\ verdicts'[i] = line
  BY <1>1 DEF LinesOf
<1>3. ASSUME NEW m, InBudget(m)
      PROVE  InBudget(m)'
  <2>1. PICK i \in LinesOf(m) :
           \A j \in LinesOf(m) : i <= j => verdicts[j].elapsed = baseline.elapsed
    BY <1>3 DEF InBudget
  <2>2. ASSUME NEW j \in LinesOf(m)', i <= j
        PROVE  verdicts'[j].elapsed = baseline'.elapsed
    <3>1. CASE j \in LinesOf(m) /\ verdicts'[j] = verdicts[j]
      BY <2>1, <2>2, <3>1
    <3>2. CASE verdicts'[j] = line
      <4>1. line # TornLine
        BY <3>2 DEF LinesOf
      <4> QED
        BY <3>2, <4>1
    <3> QED
      BY <1>2, <3>1, <3>2
  <2>3. i \in LinesOf(m)'
    BY <1>2
  <2> QED
    BY <2>2, <2>3 DEF InBudget
<1>4. ASSUME line # TornLine
      PROVE  InBudget(line.of)'
  <2>1. Len(verdicts) + 1 \in LinesOf(line.of)'
    BY <1>1, <1>4 DEF LinesOf
  <2>2. ASSUME NEW j \in LinesOf(line.of)', Len(verdicts) + 1 <= j
        PROVE  verdicts'[j].elapsed = baseline'.elapsed
    <3>1. j = Len(verdicts) + 1
      BY <1>1, <2>2 DEF LinesOf
    <3> QED
      BY <1>1, <1>4, <3>1
  <2> QED
    BY <2>1, <2>2 DEF InBudget
<1> QED
  BY <1>3, <1>4

(***************************************************************************)
(* What a run knows of a kept mutant is in the budget.                     *)
(***************************************************************************)
LEMMA KnownInBudget ==
  ASSUME verdicts \in Seq(Line \cup {TornLine}), ended, NEW m \in DOMAIN Verdicts, InBudget(m)
  PROVE  Verdicts[m].elapsed = baseline.elapsed
<1>1. /\ DOMAIN verdicts = 1..Len(verdicts) /\ Len(verdicts) \in Nat
      /\ Readable = { i \in DOMAIN verdicts : verdicts[i] # TornLine }
  BY DEF Readable
<1>2. LinesOf(m) = { i \in Readable : verdicts[i].of = m }
  BY <1>1 DEF LinesOf
<1> DEFINE P(i) == /\ verdicts[i].of = m
                   /\ \A j \in Readable : verdicts[j].of = m => j <= i
           last == CHOOSE i \in Readable : P(i)
<1>3. \E i \in Readable : P(i)
  <2>1. LinesOf(m) \in SUBSET (1..Len(verdicts)) /\ LinesOf(m) # {}
    BY <1>1 DEF LinesOf, InBudget
  <2>2. PICK x \in LinesOf(m) : \A y \in LinesOf(m) : y <= x
    BY <1>1, <2>1, Largest
  <2> QED
    BY <1>2, <2>2
<1>4. last \in Readable /\ P(last)
  <2> HIDE DEF P
  <2> QED BY <1>3
<1>5. Verdicts[m] = verdicts[last]
  BY DEF Verdicts
<1>6. PICK i \in LinesOf(m) : \A j \in LinesOf(m) : i <= j => verdicts[j].elapsed = baseline.elapsed
  BY DEF InBudget
<1>7. last \in LinesOf(m) /\ i <= last
  <2> HIDE DEF last
  <2> QED BY <1>2, <1>4
<1> QED
  <2> HIDE DEF last
  <2> QED BY <1>5, <1>6, <1>7

LEMMA StepBudget == BudgetInv /\ [ResumeNext]_resumeVars => BudgetInv'
<1> SUFFICES ASSUME BudgetInv, [ResumeNext]_resumeVars PROVE BudgetInv'
  OBVIOUS
<1>1. KInv /\ KInv' /\ ResumeTypeOK
  BY StepKept DEF BudgetInv, KInv, ResumeInv
<1> SUFFICES ASSUME faults' = 0 PROVE Budgeted' /\ OneBudget'
  BY <1>1 DEF BudgetInv, Budgeted, OneBudget
<1>2. faults = 0 /\ ~fault
  BY <1>1, FaultsAreCounted
<1>3. /\ place \in {"waiting", "saving"} => baseline = None
      /\ place \in {"knowing", "executing"} => measured = baseline
      /\ kept # {} => baseline # None
      /\ \A m \in kept : InBudget(m)
      /\ place = "executing" => \A m \in kept \cap DOMAIN recalled : recalled[m].elapsed = measured.elapsed
  BY <1>2 DEF BudgetInv, Budgeted, OneBudget
<1>4. /\ kept # {} => place \notin {"clearing", "discarding"} /\ fingerprint = mine /\ verdicts # None
      /\ place \in Live => open /\ ended
      /\ place = "executing" => kept \subseteq DOMAIN recalled \cup decided
      /\ verdicts # None => verdicts \in Seq(Line \cup {TornLine})
      /\ open /\ place \in Live => verdicts # None
  BY <1>1, <1>2 DEF KInv, OnDisk, KeptIsReused, ResumeTypeOK, Live
<1> DEFINE Same == UNCHANGED <<verdicts, baseline>>
<1>5. Same => \A m : InBudget(m)' = InBudget(m)
  BY DEF InBudget, LinesOf
<1> USE DEF Budgeted, OneBudget, Live, disk, run, history
<1>6. ASSUME NEW f \in Fingerprint, NEW fresh \in BOOLEAN, Begin(f, fresh)
      PROVE  Budgeted' /\ OneBudget'
  BY <1>3, <1>5, <1>6 DEF Begin
<1>7. CASE Clear \/ Discard
  <2>1. kept' = {} /\ place' \in {"clearing", "reading", "discarding", "opening"}
    BY <1>4, <1>7 DEF Clear, Discard
  <2> QED
    BY <2>1
<1>8. CASE ReadFingerprint
  <2>1. Same /\ kept' = kept /\ place' \in {"discarding", "opening"}
    BY <1>8 DEF ReadFingerprint
  <2> QED
    BY <1>3, <1>5, <2>1
<1>9. CASE Open
  <2>1. kept' = kept /\ baseline' = baseline /\ place' = "recalling"
    BY <1>9 DEF Open
  <2>2. kept # {} => Same
    BY <1>4, <1>9 DEF Open
  <2> QED
    BY <1>3, <1>5, <2>1, <2>2
<1>10. CASE Recall
  BY <1>3, <1>5, <1>10 DEF Recall, reusable
<1>11. CASE Wait \/ Measure
  <2>1. Same /\ UNCHANGED kept /\ place = "waiting" /\ place' \in {"waiting", "saving"}
    BY <1>4, <1>11 DEF Wait, Measure
  <2> QED
    BY <1>3, <1>5, <2>1
<1>12. CASE Save
  <2>1. kept' = {} /\ measured' = baseline' /\ place' = "knowing"
    BY <1>3, <1>12 DEF Save
  <2> QED
    BY <2>1
<1>13. CASE Know
  <2>1. /\ Same /\ UNCHANGED <<kept, measured>> /\ recalled' = Verdicts
        /\ place = "knowing" /\ place' = "executing"
    BY <1>13 DEF Know
  <2>2. ASSUME NEW m \in kept \cap DOMAIN Verdicts
        PROVE  Verdicts[m].elapsed = measured.elapsed
    BY <1>3, <1>4, <2>1, KnownInBudget
  <2> QED
    BY <1>3, <1>5, <2>1, <2>2
<1>14. ASSUME NEW m \in TreeMutant, Record(m)
       PROVE  Budgeted' /\ OneBudget'
  <2>1. /\ place = "executing" /\ place' = place /\ open /\ ended
        /\ m \notin DOMAIN recalled /\ kept' = kept \cup {m}
        /\ verdicts' = written(verdictOf(m)) /\ UNCHANGED <<baseline, measured, recalled>>
    BY <1>4, <1>14 DEF Record, Unmeasured
  <2>2. verdictOf(m) \in Line /\ verdictOf(m) # TornLine /\ verdictOf(m).of = m
        /\ verdictOf(m).elapsed = baseline.elapsed
    BY <1>1, <1>3, <2>1, VerdictIsALine DEF verdictOf
  <2>3. (\A n : InBudget(n) => InBudget(n)') /\ InBudget(m)'
    BY <1>4, <2>1, <2>2, BudgetedAppend
  <2>4. baseline # None
    BY <1>1, <1>3, <2>1 DEF ResumeTypeOK
  <2> QED
    BY <1>3, <2>1, <2>3, <2>4
<1>15. ASSUME NEW m \in TreeMutant, KillWriting(m)
       PROVE  Budgeted' /\ OneBudget'
  <2>1. /\ place = "executing" /\ place' = "idle" /\ open /\ ended /\ Unfinished(m)
        /\ UNCHANGED <<kept, baseline>>
    BY <1>4, <1>15 DEF KillWriting, over
  <2>2. verdictOf(m) \in Line /\ verdictOf(m).elapsed = baseline.elapsed
    BY <1>1, <1>3, <2>1, VerdictIsALine DEF verdictOf
  <2>3. \A n : InBudget(n) => InBudget(n)'
    <3>1. CASE Same
      BY <1>5, <3>1
    <3>2. ASSUME NEW line \in {TornLine, verdictOf(m)}, verdicts' = written(line)
          PROVE  \A n : InBudget(n) => InBudget(n)'
      BY <1>4, <2>1, <2>2, <3>2, BudgetedAppend
    <3> QED
      BY <2>1, <3>1, <3>2 DEF Unfinished
  <2> QED
    BY <1>3, <2>1, <2>3
<1>16. CASE Kill \/ End
  <2>1. Same /\ UNCHANGED kept /\ place' = "idle"
    BY <1>16 DEF Kill, End, over
  <2> QED
    BY <1>3, <1>5, <2>1
<1>17. CASE UNCHANGED resumeVars \/ Stop
  BY <1>3, <1>5, <1>17 DEF Stop, resumeVars
<1> QED
  BY <1>2, <1>6, <1>7, <1>8, <1>9, <1>10, <1>11, <1>12, <1>13, <1>14, <1>15, <1>16, <1>17
     DEF ResumeNext, StateFails, RecallFails, SaveFails, KnowFails, RecordFails

(***************************************************************************)
(* Until a file operation fails, the verdicts recorded since the state was *)
(* last asked to be discarded, which a run reuses, were measured against   *)
(* the budget it measures the others against, however many runs were       *)
(* killed in between.                                                      *)
(***************************************************************************)
THEOREM TheBudgetIsOne == ResumeSpec => []OneBudget
<1>1. BudgetInv => OneBudget
  BY DEF BudgetInv
<1> QED
  BY <1>1, InitBudget, StepBudget, PTL DEF ResumeSpec
===============================================================================
