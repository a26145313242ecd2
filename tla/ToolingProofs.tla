---------------------------- MODULE ToolingProofs ----------------------------
(***************************************************************************)
(* Theorems about the tools: installing one into a shared directory, for   *)
(* any number of goroutines and processes, any environments, and whatever  *)
(* earlier runs left there; and what is made of their answers by a scan of *)
(* any repository that is declared and formed as ScanAssumption says, over *)
(* any number of changes, recordings and crashes.                          *)
(***************************************************************************)
EXTENDS ToolCache, Scan, WellFoundedInduction, TLAPS

-----------------------------------------------------------------------------
(* What stands where a tool is looked for is the whole of it.               *)
SlotWhole ==
    /\ kind # "workspace" /\ "bin" \in slot => Whole(slot)
    /\ kind = "toolchain" /\ slot # Absent => Whole(slot)

(* Whoever installs under a mutex holds it; a workspace is installed by     *)
(* nobody of a process once it is installed, and answered on those terms.  *)
Held(a) ==
    /\ Locks /\ pc[a] \in Installing => lock[Mine(a)] = a
    /\ kind = "workspace" /\ pc[a] \in Installing => installed[Mine(a)] = Nobody
    /\ kind = "workspace" /\ pc[a] = "answered" => installed[Mine(a)] = Env[a]

(* A directory that is not what an actor left or found there was moved      *)
(* aside, and another actor is past its rename.                            *)
Early == {"looking", "staging", "renaming"}
Disturbed(a) == aside # {} /\ \E b \in Actors \ {a} : pc[b] \notin Early

Healing(a) ==
    /\ kind = "toolchain" /\ pc[a] = "outraced" => slot # Absent
    /\ kind = "npm" =>
         /\ pc[a] \in {"outraced", "setting aside", "answered"} /\ slot = Absent => Disturbed(a)
         /\ pc[a] = "replacing" => a \in aside /\ (slot # Absent => Disturbed(a))
    /\ pc[a] = "failed" =>
         \/ a \in faulted
         \/ kind = "workspace" /\ installed[Mine(a)] \notin {Nobody, Env[a]}
         \/ kind = "npm" /\ Disturbed(a)

IInv == TypeOK /\ SlotWhole /\ \A a \in Actors : Held(a) /\ Healing(a)

-----------------------------------------------------------------------------
(***************************************************************************)
(* What the case analyses on the installer come to.                         *)
(***************************************************************************)
LEMMA KindFacts ==
  ASSUME TypeOK
  PROVE  /\ kind \in {"npm", "toolchain", "cargo", "go", "workspace"}
         /\ FirstStep = IF kind \in {"go", "workspace"} THEN "building" ELSE "staging"
         /\ \A a \in Actors :
              /\ pc[a] \in Route(kind) /\ Mine(a) \in Processes
              /\ Env[a] # Nobody /\ a # Nobody
              /\ kind = "toolchain" => (Present(a) <=> slot # Absent)
              /\ kind = "workspace" => (Present(a) <=> installed[Mine(a)] # Nobody)
              /\ kind \in {"npm", "cargo", "go"} => (Present(a) <=> "bin" \in slot)
<1>1. kind \in {"npm", "toolchain", "cargo", "go", "workspace"}
  BY ToolCacheAssumption DEF TypeOK
<1>2. FirstStep = IF kind \in {"go", "workspace"} THEN "building" ELSE "staging"
  BY <1>1 DEF FirstStep
<1>3. ASSUME NEW a \in Actors
      PROVE  /\ pc[a] \in Route(kind) /\ Mine(a) \in Processes
             /\ Env[a] # Nobody /\ a # Nobody
  BY ToolCacheAssumption DEF TypeOK, Mine, Processes
<1>4. ASSUME NEW a \in Actors
      PROVE  /\ kind = "toolchain" => (Present(a) <=> slot # Absent)
             /\ kind = "workspace" => (Present(a) <=> installed[Mine(a)] # Nobody)
             /\ kind \in {"npm", "cargo", "go"} => (Present(a) <=> "bin" \in slot)
  BY <1>1 DEF Present
<1> QED
  BY <1>1, <1>2, <1>3, <1>4

LEMMA RouteFacts ==
  ASSUME TypeOK
  PROVE  /\ {"looking", "answered", "used", "failed", "killed"} \subseteq Route(kind)
         /\ kind \in {"npm", "toolchain", "cargo"} =>
              {"staging", "renaming", "outraced"} \subseteq Route(kind)
         /\ kind = "npm" => {"setting aside", "replacing", "configured"} \subseteq Route(kind)
         /\ kind \in {"cargo", "go", "workspace"} => {"building", "filling"} \subseteq Route(kind)
         /\ kind \in {"cargo", "workspace"} => "waiting" \in Route(kind)
         /\ \A p \in Route(kind) :
              /\ p \in {"staging", "renaming", "outraced"} => kind \in {"npm", "toolchain", "cargo"}
              /\ p \in {"setting aside", "replacing", "configured"} => kind = "npm"
              /\ p \in {"building", "filling"} => kind \in {"cargo", "go", "workspace"}
              /\ p = "waiting" => kind \in {"cargo", "workspace"}
<1>1. CASE kind = "npm"
  BY <1>1 DEF Route, Common, Beside, InPlace
<1>2. CASE kind = "toolchain"
  BY <1>2 DEF Route, Common, Beside, InPlace
<1>3. CASE kind = "cargo"
  BY <1>3 DEF Route, Common, Beside, InPlace
<1>4. CASE kind = "go"
  BY <1>4 DEF Route, Common, Beside, InPlace
<1>5. CASE kind = "workspace"
  BY <1>5 DEF Route, Common, Beside, InPlace
<1> QED
  BY <1>1, <1>2, <1>3, <1>4, <1>5, KindFacts

(***************************************************************************)
(* What is left of earlier installs satisfies the invariant.                *)
(***************************************************************************)
LEMMA InitInv == Init => IInv
<1> SUFFICES ASSUME Init PROVE IInv
  OBVIOUS
<1>1. kind \in Kinds /\ kind \in {"npm", "toolchain", "cargo", "go", "workspace"}
  BY ToolCacheAssumption DEF Init
<1>2. TypeOK
  <2>1. "looking" \in Route(kind)
    BY <1>1 DEF Route, Common
  <2> QED
    BY <1>1, <2>1, ToolCacheAssumption DEF Init, TypeOK
<1>3. SlotWhole
  BY <1>1, ToolCacheAssumption DEF Init, SlotWhole
<1>4. \A a \in Actors : Held(a)
  BY DEF Init, Held, Installing
<1>5. \A a \in Actors : Healing(a)
  BY DEF Init, Healing
<1> QED
  BY <1>2, <1>3, <1>4, <1>5 DEF IInv

-----------------------------------------------------------------------------
(***************************************************************************)
(* What every step of an actor has in common: it moves alone, touches no    *)
(* mutex but its process's and no install but its own, and leaves a trace   *)
(* where it takes a directory away or puts one down.                        *)
(***************************************************************************)
Moves(a, w) ==
    /\ kind' = kind
    /\ pc' = [pc EXCEPT ![a] = w] /\ w \in Route(kind)
    /\ kind = "npm" /\ pc[a] \notin Early => w \notin Early
    /\ slot' \in SUBSET Parts
    /\ \/ lock' = lock
       \/ lock' = Released(a)
       \/ lock[Mine(a)] = Nobody /\ lock' = [lock EXCEPT ![Mine(a)] = a]
    /\ \/ installed' = installed
       \/ /\ kind = "workspace" /\ pc[a] \in Installing
          /\ installed' = [installed EXCEPT ![Mine(a)] = Env[a]]
    /\ aside \subseteq aside' /\ faulted \subseteq faulted'
    /\ {aside', faulted', found'} \subseteq SUBSET Actors
    /\ kind = "npm" /\ slot' = Absent /\ slot # Absent => w \notin Early /\ aside' # {}
    /\ kind = "npm" /\ slot = Absent /\ slot' # Absent => w \notin Early
    /\ kind = "toolchain" /\ slot # Absent => slot' # Absent

LEMMA MovesType ==
  ASSUME TypeOK, NEW a \in Actors, NEW w, Moves(a, w)
  PROVE  TypeOK'
<1>1. Released(a) \in [Processes -> Actors \cup {Nobody}]
  BY DEF TypeOK, Released
<1>2. lock' \in [Processes -> Actors \cup {Nobody}]
  BY <1>1 DEF TypeOK, Moves
<1>3. installed' \in [Processes -> {Env[b] : b \in Actors} \cup {Nobody}]
  BY DEF TypeOK, Moves
<1>4. pc' \in [Actors -> Route(kind')]
  BY DEF TypeOK, Moves
<1> QED
  BY <1>2, <1>3, <1>4 DEF TypeOK, Moves

(***************************************************************************)
(* No step disturbs what the invariant says of the other actors.            *)
(***************************************************************************)
LEMMA DisturbedStays ==
  ASSUME TypeOK, NEW a \in Actors, NEW w, Moves(a, w), NEW b \in Actors, kind = "npm", Disturbed(b)
  PROVE  Disturbed(b)'
<1>1. PICK d \in Actors \ {b} : pc[d] \notin Early
  BY DEF Disturbed
<1>2. pc'[d] \notin Early
  BY <1>1 DEF Moves, TypeOK
<1>3. aside' # {}
  BY DEF Moves, Disturbed
<1> QED
  BY <1>1, <1>2, <1>3 DEF Disturbed

LEMMA OthersHeld ==
  ASSUME IInv, NEW a \in Actors, NEW w, Moves(a, w), NEW b \in Actors, b # a
  PROVE  Held(b)'
<1>0. /\ TypeOK /\ Held(a) /\ Held(b) /\ Mine(a) \in Processes /\ Mine(b) \in Processes
      /\ Env[b] # Nobody /\ a # Nobody
  BY KindFacts DEF IInv
<1>1. pc'[b] = pc[b] /\ kind' = kind /\ Locks' = Locks
  BY <1>0 DEF Moves, TypeOK, Locks
<1>2. lock[Mine(b)] = b => lock'[Mine(b)] = b
  <2>1. CASE lock' = lock
    BY <2>1
  <2>2. CASE lock' = Released(a)
    BY <1>0, <2>2 DEF Released, TypeOK
  <2>3. CASE lock[Mine(a)] = Nobody /\ lock' = [lock EXCEPT ![Mine(a)] = a]
    <3>1. b # Nobody
      BY KindFacts, <1>0
    <3> QED
      BY <1>0, <2>3, <3>1 DEF TypeOK
  <2> QED
    BY <2>1, <2>2, <2>3 DEF Moves
<1>3. CASE installed' = installed
  BY <1>0, <1>1, <1>2, <1>3 DEF Held, Mine
<1>4. CASE /\ kind = "workspace" /\ pc[a] \in Installing
           /\ installed' = [installed EXCEPT ![Mine(a)] = Env[a]]
  <2>1. lock[Mine(a)] = a /\ installed[Mine(a)] = Nobody /\ Locks
    BY <1>0, <1>4 DEF Held, Locks
  <2>2. CASE Mine(b) = Mine(a)
    <3>1. pc[b] \notin Installing /\ pc[b] # "answered"
      BY <1>0, <1>4, <2>1, <2>2 DEF Held
    <3> QED
      BY <1>1, <3>1 DEF Held
  <2>3. CASE Mine(b) # Mine(a)
    <3>1. installed'[Mine(b)] = installed[Mine(b)]
      BY <1>0, <1>4, <2>3 DEF TypeOK
    <3> QED
      BY <1>0, <1>1, <1>2, <3>1 DEF Held, Mine
  <2> QED
    BY <2>2, <2>3
<1> QED
  BY <1>3, <1>4 DEF Moves

LEMMA OthersHealing ==
  ASSUME IInv, NEW a \in Actors, NEW w, Moves(a, w), NEW b \in Actors, b # a
  PROVE  Healing(b)'
<1>0. /\ TypeOK /\ Healing(b) /\ Held(a) /\ Mine(a) \in Processes /\ Mine(b) \in Processes
  BY KindFacts DEF IInv
<1>1. pc'[b] = pc[b] /\ kind' = kind /\ pc'[a] = w
  BY <1>0 DEF Moves, TypeOK
<1>2. kind = "npm" /\ Disturbed(b) => Disturbed(b)'
  BY <1>0, DisturbedStays
<1>3. kind = "npm" /\ w \notin Early /\ aside' # {} => Disturbed(b)'
  BY <1>1 DEF Disturbed
<1>4. kind = "toolchain" /\ pc'[b] = "outraced" => slot' # Absent
  BY <1>0, <1>1 DEF Healing, Moves
<1>5. kind = "npm" /\ pc'[b] \in {"outraced", "setting aside", "answered"} /\ slot' = Absent
        => Disturbed(b)'
  BY <1>0, <1>1, <1>2, <1>3 DEF Healing, Moves
<1>6. kind = "npm" /\ pc'[b] = "replacing" => b \in aside' /\ (slot' # Absent => Disturbed(b)')
  <2> SUFFICES ASSUME kind = "npm", pc'[b] = "replacing"
               PROVE  b \in aside' /\ (slot' # Absent => Disturbed(b)')
    OBVIOUS
  <2>1. b \in aside /\ b \in aside' /\ aside' # {}
    BY <1>0, <1>1 DEF Healing, Moves
  <2>2. CASE slot = Absent
    BY <1>3, <2>1, <2>2 DEF Moves
  <2>3. CASE slot # Absent
    BY <1>0, <1>1, <1>2, <2>1, <2>3 DEF Healing
  <2> QED
    BY <2>2, <2>3
<1>7. kind = "workspace" /\ installed[Mine(b)] \notin {Nobody, Env[b]}
        => installed'[Mine(b)] \notin {Nobody, Env[b]}
  BY <1>0 DEF Moves, Held, TypeOK
<1>8. faulted \subseteq faulted'
  BY DEF Moves
<1> QED
  BY <1>0, <1>1, <1>2, <1>4, <1>5, <1>6, <1>7, <1>8 DEF Healing, Mine

LEMMA StepFrom ==
  ASSUME IInv, NEW a \in Actors, NEW w, Moves(a, w), SlotWhole', Held(a)', Healing(a)'
  PROVE  IInv'
<1>1. \A b \in Actors : Held(b)' /\ Healing(b)'
  BY OthersHeld, OthersHealing
<1> QED
  BY <1>1, MovesType DEF IInv

-----------------------------------------------------------------------------
(***************************************************************************)
(* Each step of an actor, which then has what the invariant says of it.     *)
(***************************************************************************)
Facts(a) ==
    /\ TypeOK /\ SlotWhole /\ Held(a) /\ Healing(a)
    /\ kind \in {"npm", "toolchain", "cargo", "go", "workspace"}
    /\ pc[a] \in Route(kind) /\ Mine(a) \in Processes
    /\ Env[a] # Nobody /\ a # Nobody

LEMMA FactsHold == ASSUME IInv, NEW a \in Actors PROVE Facts(a)
  BY KindFacts DEF IInv, Facts

(***************************************************************************)
(* Looking, and looking again under the mutex.                              *)
(***************************************************************************)
LEMMA LookStep ==
  ASSUME IInv, NEW a \in Actors, Look(a) \/ Acquire(a)
  PROVE  IInv'
<1>0. Facts(a)
  BY FactsHold
<1>1. UNCHANGED <<kind, slot, installed, aside, faulted, found>>
  BY DEF Look, Acquire
<1>2. SlotWhole'
  BY <1>0, <1>1 DEF Facts, SlotWhole
<1>3. PICK w :
        /\ pc' = [pc EXCEPT ![a] = w]
        /\ \/ Present(a) /\ w = Answer(a) /\ lock' = lock
           \/ ~Present(a) /\ ~Locks /\ w = FirstStep /\ lock' = lock
           \/ ~Present(a) /\ Locks /\ w = "waiting" /\ lock' = lock
           \/ /\ ~Present(a) /\ Locks /\ w = FirstStep /\ lock[Mine(a)] = Nobody
              /\ lock' = [lock EXCEPT ![Mine(a)] = a]
        /\ pc[a] \in {"looking", "waiting"}
  <2>1. CASE Look(a)
    BY <2>1 DEF Look, Goes
  <2>2. CASE Acquire(a)
    <3>1. Locks
      <4>1. kind \in {"cargo", "workspace"}
        BY <1>0, <2>2, RouteFacts DEF Acquire, Facts
      <4> QED
        BY <4>1 DEF Locks
    <3> QED
      BY <2>2, <3>1 DEF Acquire, Goes
  <2> QED
    BY <2>1, <2>2
<1>4. w \in Route(kind)
  <2>1. Answer(a) \in {"failed", "answered"}
    BY DEF Answer
  <2>2. FirstStep \in Route(kind)
    BY <1>0, KindFacts, RouteFacts DEF Facts
  <2>3. Locks => "waiting" \in Route(kind)
    BY <1>0, RouteFacts DEF Facts, Locks
  <2> QED
    BY <1>0, <1>3, <2>1, <2>2, <2>3, RouteFacts DEF Facts
<1>5. kind = "npm" => pc[a] \in Early
  BY <1>0, <1>3, RouteFacts DEF Facts, Early
<1>6. Moves(a, w)
  BY <1>0, <1>1, <1>3, <1>4, <1>5 DEF Moves, Facts, TypeOK
<1>7. pc'[a] = w
  BY <1>0, <1>3 DEF Facts, TypeOK
<1>8. kind = "workspace" /\ w = "answered" => installed[Mine(a)] = Env[a]
  <2>1. "answered" # "waiting" /\ FirstStep # "answered"
    BY <1>0, KindFacts DEF Facts
  <2> QED
    BY <1>3, <2>1 DEF Answer
<1>9. w \in Installing => ~Present(a) /\ (Locks => lock'[Mine(a)] = a)
  <2>1. Answer(a) \notin Installing
    BY DEF Answer, Installing
  <2>2. Locks /\ lock[Mine(a)] = Nobody => [lock EXCEPT ![Mine(a)] = a][Mine(a)] = a
    BY <1>0 DEF Facts, TypeOK
  <2> QED
    BY <1>3, <2>1, <2>2 DEF Installing
<1>10. kind = "workspace" /\ ~Present(a) => installed[Mine(a)] = Nobody
  BY <1>0, KindFacts DEF Facts
<1>11. Held(a)'
  BY <1>1, <1>7, <1>8, <1>9, <1>10 DEF Held, Locks, Mine
<1>12. Healing(a)'
  <2>1. w = "failed" => kind = "workspace" /\ installed[Mine(a)] \notin {Nobody, Env[a]}
    <3>1. FirstStep # "failed"
      BY <1>0, KindFacts DEF Facts
    <3> QED
      BY <1>0, <1>3, <3>1, KindFacts DEF Answer, Facts
  <2>2. w \notin {"outraced", "setting aside", "replacing"}
    BY <1>0, <1>3, KindFacts DEF Answer, Facts
  <2>3. kind = "npm" /\ w = "answered" => slot # Absent
    <3>1. FirstStep # "answered"
      BY <1>0, KindFacts DEF Facts
    <3>2. kind = "npm" /\ w = "answered" => "bin" \in slot
      BY <1>0, <1>3, <3>1, KindFacts DEF Facts
    <3> QED
      BY <3>2 DEF Absent
  <2> QED
    BY <1>1, <1>7, <2>1, <2>2, <2>3 DEF Healing, Mine
<1> QED
  BY <1>2, <1>6, <1>11, <1>12, StepFrom

(***************************************************************************)
(* An install that ends in failure by a command's own fault.                *)
(***************************************************************************)
LEMMA FaultStep ==
  ASSUME IInv, NEW a \in Actors, StageFails(a) \/ BuildFails(a)
  PROVE  IInv'
<1>0. Facts(a)
  BY FactsHold
<1>1. UNCHANGED <<kind, slot, installed, aside, found>>
  BY DEF StageFails, BuildFails
<1>2. SlotWhole'
  BY <1>0, <1>1 DEF Facts, SlotWhole
<1>3. PICK w :
        /\ pc' = [pc EXCEPT ![a] = w]
        /\ \/ /\ w = "failed" /\ lock' = Released(a) /\ faulted' = faulted \cup {a}
           \/ /\ w = "building" /\ kind = "cargo" /\ pc[a] = "staging"
              /\ lock' = lock /\ faulted' = faulted
  BY DEF StageFails, BuildFails, Goes, Ends
<1>4. Moves(a, w)
  BY <1>0, <1>1, <1>3, RouteFacts DEF Moves, Facts, TypeOK, Early
<1>5. pc'[a] = w
  BY <1>0, <1>3 DEF Facts, TypeOK
<1>6. Held(a)'
  BY <1>0, <1>1, <1>3, <1>5 DEF Facts, Held, Installing, Locks, Mine
<1>7. Healing(a)'
  BY <1>0, <1>1, <1>3, <1>5 DEF Facts, Healing
<1> QED
  BY <1>2, <1>4, <1>6, <1>7, StepFrom

(***************************************************************************)
(* An install beside the directory.                                         *)
(***************************************************************************)
LEMMA StageStep ==
  ASSUME IInv, NEW a \in Actors, Stage(a)
  PROVE  IInv'
<1>0. Facts(a)
  BY FactsHold
<1>1. /\ UNCHANGED <<kind, slot, installed, aside, faulted, found, lock>>
      /\ pc' = [pc EXCEPT ![a] = "renaming"] /\ pc[a] = "staging"
  BY DEF Stage, Goes
<1>2. SlotWhole'
  BY <1>0, <1>1 DEF Facts, SlotWhole
<1>3. Moves(a, "renaming")
  BY <1>0, <1>1, RouteFacts DEF Moves, Facts, TypeOK, Early
<1>4. pc'[a] = "renaming"
  BY <1>0, <1>1 DEF Facts, TypeOK
<1>5. Held(a)'
  BY <1>0, <1>1, <1>4 DEF Facts, Held, Installing, Locks, Mine
<1>6. Healing(a)'
  BY <1>4 DEF Healing
<1> QED
  BY <1>2, <1>3, <1>5, <1>6, StepFrom

LEMMA RenameStep ==
  ASSUME IInv, NEW a \in Actors, Rename(a) \/ Replace(a)
  PROVE  IInv'
<1>0. Facts(a)
  BY FactsHold
<1>1. /\ UNCHANGED <<kind, installed, aside, faulted, found>>
      /\ pc[a] \in {"renaming", "replacing"}
  BY DEF Rename, Replace
<1>2. kind \in {"npm", "toolchain", "cargo"} /\ (pc[a] = "replacing" => kind = "npm")
  BY <1>0, <1>1, RouteFacts DEF Facts
<1>3. PICK w :
        /\ pc' = [pc EXCEPT ![a] = w]
        /\ \/ w = "answered" /\ slot' = Full /\ lock' = Released(a)
           \/ /\ w = "outraced" /\ pc[a] = "renaming" /\ slot' = slot /\ lock' = lock
              /\ slot # Absent
           \/ /\ w = "failed" /\ pc[a] = "replacing" /\ slot' = slot /\ lock' = Released(a)
              /\ slot # Absent
  BY DEF Rename, Replace, Goes, Ends
<1>4. SlotWhole'
  BY <1>0, <1>1, <1>3 DEF Facts, SlotWhole, Whole, Full
<1>5. Full # Absent /\ Full \in SUBSET Parts
  BY DEF Full, Absent, Parts
<1>6. Moves(a, w)
  BY <1>0, <1>1, <1>2, <1>3, <1>5, RouteFacts DEF Moves, Facts, TypeOK, Early
<1>7. pc'[a] = w
  BY <1>0, <1>3 DEF Facts, TypeOK
<1>8. Held(a)'
  BY <1>0, <1>1, <1>2, <1>3, <1>7 DEF Facts, Held, Installing, Locks, Mine
<1>9. Healing(a)'
  <2>1. CASE w # "failed"
    BY <1>0, <1>1, <1>3, <1>5, <1>7, <2>1 DEF Healing
  <2>2. CASE w = "failed"
    <3>1. Disturbed(a) /\ kind = "npm"
      BY <1>0, <1>2, <1>3, <2>2 DEF Facts, Healing
    <3>2. Disturbed(a)'
      BY <1>0, <1>6, <3>1, DisturbedStays DEF Facts
    <3> QED
      BY <1>1, <1>7, <2>2, <3>1, <3>2 DEF Healing
  <2> QED
    BY <2>1, <2>2
<1> QED
  BY <1>4, <1>6, <1>8, <1>9, StepFrom

LEMMA OutracedStep ==
  ASSUME IInv, NEW a \in Actors, Outraced(a)
  PROVE  IInv'
<1>0. Facts(a)
  BY FactsHold
<1>1. /\ UNCHANGED <<kind, slot, installed, aside, faulted, found>>
      /\ pc[a] = "outraced"
  BY DEF Outraced
<1>2. kind \in {"npm", "toolchain", "cargo"}
  BY <1>0, <1>1, RouteFacts DEF Facts
<1>3. SlotWhole'
  BY <1>0, <1>1 DEF Facts, SlotWhole
<1>4. PICK w :
        /\ pc' = [pc EXCEPT ![a] = w]
        /\ \/ w = "answered" /\ Present(a) /\ lock' = Released(a)
           \/ w = "setting aside" /\ kind = "npm" /\ lock' = lock
           \/ w = "building" /\ kind = "cargo" /\ lock' = lock
           \/ w = "failed" /\ kind = "toolchain" /\ ~Present(a) /\ lock' = Released(a)
  BY <1>2 DEF Outraced, Goes, Ends
<1>5. Moves(a, w)
  BY <1>0, <1>1, <1>4, RouteFacts DEF Moves, Facts, TypeOK, Early
<1>6. pc'[a] = w
  BY <1>0, <1>4 DEF Facts, TypeOK
<1>7. Held(a)'
  BY <1>0, <1>1, <1>2, <1>4, <1>6 DEF Facts, Held, Installing, Locks, Mine
<1>8. Healing(a)'
  <2>1. w # "failed"
    BY <1>0, <1>1, <1>4, KindFacts DEF Facts, Healing
  <2>2. kind = "npm" /\ w = "answered" => slot # Absent
    <3>1. kind = "npm" /\ w = "answered" => "bin" \in slot
      BY <1>0, <1>4, KindFacts DEF Facts
    <3> QED
      BY <3>1 DEF Absent
  <2>3. kind = "npm" /\ w = "setting aside" /\ slot = Absent => Disturbed(a)'
    BY <1>0, <1>1, <1>5, DisturbedStays DEF Facts, Healing
  <2> QED
    BY <1>1, <1>4, <1>6, <2>1, <2>2, <2>3 DEF Healing
<1> QED
  BY <1>3, <1>5, <1>7, <1>8, StepFrom

LEMMA SetAsideStep ==
  ASSUME IInv, NEW a \in Actors, SetAside(a)
  PROVE  IInv'
<1>0. Facts(a)
  BY FactsHold
<1>1. /\ UNCHANGED <<kind, installed, faulted, found>>
      /\ pc[a] = "setting aside"
  BY DEF SetAside
<1>2. kind = "npm"
  BY <1>0, <1>1, RouteFacts DEF Facts
<1>3. PICK w :
        /\ pc' = [pc EXCEPT ![a] = w]
        /\ \/ /\ w = "failed" /\ slot = Absent /\ slot' = slot /\ aside' = aside
              /\ lock' = Released(a)
           \/ /\ w = "replacing" /\ slot # Absent /\ slot' = Absent /\ aside' = aside \cup {a}
              /\ lock' = lock
  BY DEF SetAside, Goes, Ends
<1>4. SlotWhole'
  BY <1>0, <1>1, <1>2, <1>3 DEF Facts, SlotWhole, Absent
<1>5. Absent \in SUBSET Parts
  BY DEF Absent
<1>6. Moves(a, w)
  BY <1>0, <1>1, <1>2, <1>3, <1>5, RouteFacts DEF Moves, Facts, TypeOK, Early
<1>7. pc'[a] = w
  BY <1>0, <1>3 DEF Facts, TypeOK
<1>8. Held(a)'
  BY <1>1, <1>2, <1>7 DEF Held, Locks
<1>9. Healing(a)'
  <2>1. CASE w = "failed"
    <3>1. Disturbed(a)
      BY <1>0, <1>1, <1>2, <1>3, <2>1 DEF Facts, Healing
    <3>2. Disturbed(a)'
      BY <1>0, <1>2, <1>6, <3>1, DisturbedStays DEF Facts
    <3> QED
      BY <1>1, <1>2, <1>7, <2>1, <3>2 DEF Healing
  <2>2. CASE w = "replacing"
    BY <1>3, <1>7, <2>2 DEF Healing
  <2> QED
    BY <1>3, <2>1, <2>2
<1> QED
  BY <1>4, <1>6, <1>8, <1>9, StepFrom

(***************************************************************************)
(* An install into the directory itself.                                    *)
(***************************************************************************)
LEMMA BuildStep ==
  ASSUME IInv, NEW a \in Actors, Build(a)
  PROVE  IInv'
<1>0. Facts(a)
  BY FactsHold
<1>1. /\ UNCHANGED <<kind, installed, aside, faulted, found, lock>>
      /\ pc[a] = "building" /\ pc' = [pc EXCEPT ![a] = "filling"]
      /\ slot' = (IF kind = "workspace" THEN slot \ {"bin"} ELSE slot) \cup {"dir", "rest"}
  BY DEF Build, Goes
<1>2. kind \in {"cargo", "go", "workspace"}
  BY <1>0, <1>1, RouteFacts DEF Facts
<1>3. SlotWhole'
  BY <1>0, <1>1, <1>2 DEF Facts, SlotWhole, Whole, Full
<1>4. slot' \in SUBSET Parts
  BY <1>0, <1>1 DEF Facts, TypeOK, Parts
<1>5. Moves(a, "filling")
  BY <1>0, <1>1, <1>2, <1>4, RouteFacts DEF Moves, Facts, TypeOK, Early
<1>6. pc'[a] = "filling"
  BY <1>0, <1>1 DEF Facts, TypeOK
<1>7. Held(a)'
  BY <1>0, <1>1, <1>6 DEF Facts, Held, Installing, Locks, Mine
<1>8. Healing(a)'
  BY <1>6 DEF Healing
<1> QED
  BY <1>3, <1>5, <1>7, <1>8, StepFrom

LEMMA FillStep ==
  ASSUME IInv, NEW a \in Actors, Fill(a)
  PROVE  IInv'
<1>0. Facts(a)
  BY FactsHold
<1>1. /\ UNCHANGED <<kind, aside, faulted, found>>
      /\ pc[a] = "filling" /\ pc' = [pc EXCEPT ![a] = "answered"]
      /\ slot' = slot \cup Full /\ lock' = Released(a)
      /\ installed' = IF kind = "workspace" THEN [installed EXCEPT ![Mine(a)] = Env[a]]
                                            ELSE installed
  BY DEF Fill, Ends
<1>2. kind \in {"cargo", "go", "workspace"}
  BY <1>0, <1>1, RouteFacts DEF Facts
<1>3. SlotWhole'
  BY <1>1 DEF SlotWhole, Whole, Full
<1>4. slot' \in SUBSET Parts
  BY <1>0, <1>1 DEF Facts, TypeOK, Parts, Full
<1>5. Moves(a, "answered")
  BY <1>0, <1>1, <1>2, <1>4, RouteFacts DEF Moves, Facts, TypeOK, Early, Installing
<1>6. pc'[a] = "answered"
  BY <1>0, <1>1 DEF Facts, TypeOK
<1>7. kind = "workspace" => installed'[Mine(a)] = Env[a]
  BY <1>0, <1>1 DEF Facts, TypeOK
<1>8. Held(a)'
  BY <1>1, <1>6, <1>7 DEF Held, Installing, Locks, Mine
<1>9. Healing(a)'
  BY <1>1, <1>2, <1>6 DEF Healing
<1> QED
  BY <1>3, <1>5, <1>8, <1>9, StepFrom

(***************************************************************************)
(* What is answered, configured and run.                                    *)
(***************************************************************************)
LEMMA ConfigStep ==
  ASSUME IInv, NEW a \in Actors, WriteConfig(a)
  PROVE  IInv'
<1>0. Facts(a)
  BY FactsHold
<1>1. /\ UNCHANGED <<kind, installed, aside, faulted, found>>
      /\ pc[a] = "answered" /\ kind = "npm"
  BY DEF WriteConfig
<1>2. PICK w :
        /\ pc' = [pc EXCEPT ![a] = w]
        /\ \/ w = "failed" /\ slot = Absent /\ slot' = slot /\ lock' = Released(a)
           \/ /\ w = "configured" /\ slot # Absent /\ slot' = slot \cup {"config"} /\ lock' = lock
  BY DEF WriteConfig, Goes, Ends
<1>3. SlotWhole' /\ slot' \in SUBSET Parts /\ (slot = Absent <=> slot' = Absent)
  BY <1>0, <1>1, <1>2 DEF Facts, SlotWhole, Whole, Full, TypeOK, Parts, Absent
<1>4. Moves(a, w)
  BY <1>0, <1>1, <1>2, <1>3, RouteFacts DEF Moves, Facts, TypeOK, Early
<1>5. pc'[a] = w
  BY <1>0, <1>2 DEF Facts, TypeOK
<1>6. Held(a)'
  BY <1>1, <1>5 DEF Held, Locks
<1>7. Healing(a)'
  <2>1. CASE w = "failed"
    <3>1. Disturbed(a)
      BY <1>0, <1>1, <1>2, <2>1 DEF Facts, Healing
    <3>2. Disturbed(a)'
      BY <1>0, <1>1, <1>4, <3>1, DisturbedStays DEF Facts
    <3> QED
      BY <1>1, <1>5, <2>1, <3>2 DEF Healing
  <2>2. CASE w = "configured"
    BY <1>5, <2>2 DEF Healing
  <2> QED
    BY <1>2, <2>1, <2>2
<1> QED
  BY <1>3, <1>4, <1>6, <1>7, StepFrom

LEMMA UseStep ==
  ASSUME IInv, NEW a \in Actors, Use(a)
  PROVE  IInv'
<1>0. Facts(a)
  BY FactsHold
<1>1. /\ UNCHANGED <<kind, slot, installed, aside, faulted, lock>>
      /\ pc' = [pc EXCEPT ![a] = "used"] /\ found' \subseteq found \cup {a}
  BY DEF Use, Goes
<1>2. SlotWhole'
  BY <1>0, <1>1 DEF Facts, SlotWhole
<1>3. Moves(a, "used")
  <2>1. {aside', faulted', found'} \subseteq SUBSET Actors
    BY <1>0, <1>1 DEF Facts, TypeOK
  <2> QED
    BY <1>0, <1>1, <2>1, RouteFacts DEF Moves, Facts, TypeOK, Early
<1>4. pc'[a] = "used"
  BY <1>0, <1>1 DEF Facts, TypeOK
<1>5. Held(a)'
  BY <1>4 DEF Held, Installing
<1>6. Healing(a)'
  BY <1>4 DEF Healing
<1> QED
  BY <1>2, <1>3, <1>5, <1>6, StepFrom

(***************************************************************************)
(* A process dies with all its actors, and what they left stays.            *)
(***************************************************************************)
LEMMA KillStep ==
  ASSUME IInv, NEW p \in Processes, Kill(p)
  PROVE  IInv'
<1>0. TypeOK /\ SlotWhole
  BY DEF IInv
<1>1. /\ UNCHANGED <<kind, slot, installed, aside, faulted, found>>
      /\ pc' = [a \in Actors |-> IF Mine(a) = p /\ pc[a] \notin Over THEN "killed" ELSE pc[a]]
      /\ lock' = [lock EXCEPT ![p] = Nobody]
  BY DEF Kill
<1>2. TypeOK'
  BY <1>0, <1>1, RouteFacts DEF TypeOK
<1>3. SlotWhole'
  BY <1>0, <1>1 DEF SlotWhole
<1>4. ASSUME NEW a \in Actors
      PROVE  Held(a)' /\ Healing(a)'
  <2>1. /\ Held(a) /\ Healing(a) /\ Mine(a) \in Processes
        /\ pc'[a] = IF Mine(a) = p /\ pc[a] \notin Over THEN "killed" ELSE pc[a]
    BY <1>1, KindFacts DEF IInv
  <2>2. Held(a)'
    <3>1. pc'[a] \in Installing => pc'[a] = pc[a] /\ lock'[Mine(a)] = lock[Mine(a)]
      BY <1>0, <1>1, <2>1 DEF Installing, Over, TypeOK
    <3> QED
      BY <1>1, <2>1, <3>1 DEF Held, Locks, Mine
  <2>3. Disturbed(a) => Disturbed(a)'
    <3>1. \A b \in Actors : pc[b] \notin Early => pc'[b] \notin Early
      BY <1>1 DEF Early
    <3> QED
      BY <1>1, <3>1 DEF Disturbed
  <2>4. Healing(a)'
    BY <1>1, <2>1, <2>3 DEF Healing, Mine
  <2> QED
    BY <2>2, <2>4
<1> QED
  BY <1>2, <1>3, <1>4 DEF IInv

LEMMA StepInv == IInv /\ [Next]_vars => IInv'
<1> SUFFICES ASSUME IInv, [Next]_vars PROVE IInv'
  OBVIOUS
<1>1. CASE UNCHANGED vars
  BY <1>1 DEF vars, IInv, TypeOK, SlotWhole, Held, Healing, Disturbed, Locks, Mine
<1>2. ASSUME NEW a \in Actors, Step(a) PROVE IInv'
  BY <1>2, LookStep, FaultStep, StageStep, RenameStep, OutracedStep, SetAsideStep, BuildStep,
     FillStep, ConfigStep, UseStep DEF Step
<1>3. ASSUME NEW p \in Processes, Kill(p) PROVE IInv'
  BY <1>3, KillStep
<1> QED
  BY <1>1, <1>2, <1>3 DEF Next

(***************************************************************************)
(* The inductive invariant holds of every behaviour.                        *)
(***************************************************************************)
THEOREM Invariance == Spec => []IInv
<1> QED
  BY InitInv, StepInv, PTL DEF Spec

(***************************************************************************)
(* Every variable has its type, and an actor is only ever at a step its     *)
(* installer takes.                                                         *)
(***************************************************************************)
THEOREM TypeCorrect == Spec => []TypeOK
<1>1. IInv => TypeOK
  BY DEF IInv
<1> QED
  BY <1>1, Invariance, PTL

(***************************************************************************)
(* A tool is answered when the whole of it is there, whoever was killed     *)
(* half way and however many install it at once.                            *)
(***************************************************************************)
THEOREM AnswersAreWhole == Spec => AnsweredWhole
<1> DEFINE Whether == \A a \in Actors :
             pc[a] # "answered" /\ pc'[a] = "answered" /\ kind # "workspace" => Whole(slot')
<1>1. IInv /\ [Next]_vars => Whether
  <2> SUFFICES ASSUME IInv, [Next]_vars, NEW a \in Actors,
                      pc[a] # "answered", pc'[a] = "answered", kind # "workspace"
               PROVE  Whole(slot')
    OBVIOUS
  <2>0. Facts(a)
    BY FactsHold
  <2>1. CASE UNCHANGED vars
    BY <2>1 DEF vars
  <2>2. ASSUME NEW b \in Actors, Step(b)
        PROVE  Whole(slot')
    <3>1. PICK w : pc' = [pc EXCEPT ![b] = w]
      BY <2>2 DEF Step, Look, Acquire, Stage, StageFails, Rename, Outraced, SetAside, Replace,
                  Build, Fill, BuildFails, WriteConfig, Use, Goes, Ends
    <3>2. b = a
      BY <2>0, <3>1 DEF Facts, TypeOK
    <3>3. Present(a) => Whole(slot)
      BY <2>0, KindFacts DEF Facts, SlotWhole
    <3>4. CASE Look(a) \/ Acquire(a) \/ Outraced(a)
      <4>1. Present(a) /\ slot' = slot
        <5>1. FirstStep # "answered"
          BY <2>0, KindFacts DEF Facts
        <5> QED
          BY <2>0, <3>4, <5>1 DEF Facts, TypeOK, Look, Acquire, Outraced, Goes, Ends
      <4> QED
        BY <3>3, <4>1
    <3>5. CASE Rename(a) \/ Replace(a) \/ Fill(a)
      BY <2>0, <3>5 DEF Facts, TypeOK, Rename, Replace, Fill, Goes, Ends, Whole, Full
    <3>6. CASE Stage(a) \/ StageFails(a) \/ SetAside(a) \/ Build(a) \/ BuildFails(a)
                 \/ WriteConfig(a) \/ Use(a)
      BY <2>0, <3>6 DEF Facts, TypeOK, Stage, StageFails, SetAside, Build, BuildFails,
                        WriteConfig, Use, Goes, Ends
    <3> QED
      BY <2>2, <3>2, <3>4, <3>5, <3>6 DEF Step
  <2>3. ASSUME NEW p \in Processes, Kill(p)
        PROVE  Whole(slot')
    BY <2>3 DEF Kill
  <2> QED
    BY <2>1, <2>2, <2>3 DEF Next
<1>2. Whether => [Whether]_vars
  OBVIOUS
<1> QED
  BY <1>1, Invariance, PTL DEF Spec, AnsweredWhole

(***************************************************************************)
(* An install fails only by its own command, its component's environment,   *)
(* or another actor's racing replacement of a husk.                         *)
(***************************************************************************)
THEOREM InstallsHeal == Spec => []HealsAlone
<1>1. IInv => HealsAlone
  <2> SUFFICES ASSUME IInv, NEW a \in Actors, pc[a] = "failed"
               PROVE  \/ a \in faulted
                      \/ kind = "workspace" /\ installed[Mine(a)] \notin {Nobody, Env[a]}
                      \/ /\ kind = "npm" /\ aside # {}
                         /\ \E b \in Actors \ {a} : pc[b] \notin {"looking", "staging", "renaming"}
    BY DEF HealsAlone
  <2> QED
    BY DEF IInv, Healing, Disturbed, Early
<1> QED
  BY <1>1, Invariance, PTL

(***************************************************************************)
(* One install of a directory at a time in a process, and a workspace that  *)
(* was answered is not installed over by its own process.                   *)
(***************************************************************************)
THEOREM InstallsAreShared == Spec => []SharedOnItsTerms
<1>1. IInv => SharedOnItsTerms
  <2> SUFFICES ASSUME IInv, NEW a \in Actors, NEW b \in Actors, a # b, Mine(a) = Mine(b), Locks,
                      pc[b] \in Installing
               PROVE  /\ pc[a] \notin Installing
                      /\ kind = "workspace" => pc[a] # "answered" /\ installed[Mine(a)] = Nobody
    BY DEF SharedOnItsTerms
  <2>1. Held(a) /\ Held(b) /\ Env[a] # Nobody
    BY KindFacts DEF IInv
  <2> QED
    BY <2>1 DEF Held
<1> QED
  BY <1>1, Invariance, PTL

-----------------------------------------------------------------------------
(***************************************************************************)
(* A scan of any repository, under ScanAssumption.  What a tool answers is *)
(* earned one tool at a time; the invariant says which tool of which       *)
(* component each result came from, and that none is missing.              *)
(***************************************************************************)
Stages == {"idle", "checks", "licences", "semgrep", "secrets", "report", "reported", "failed"}

CheckGates(lang) ==
    CASE lang = "go"         -> {"gosec", "govulncheck"}
      [] lang = "rust"       -> {"cargo fmt", "cargo clippy", "cargo-audit", "cargo-deny"}
      [] lang = "typescript" -> {"biome"}
      [] lang = "shell"      -> {"shellcheck"}
      [] OTHER               -> {}

ScanShape ==
    /\ repo \in Repos
    /\ main \in ToSet(repo.trees) /\ tree \in ToSet(repo.trees)
    /\ stage \in Stages /\ at \in Components
    /\ stage # "idle" => \A i \in Components : Dir(i) \in DOMAIN tree.at
    /\ stage \in {"idle", "reported", "failed"} => DOMAIN checks = {} /\ DOMAIN licences = {}

(* The components whose checks have run, and those whose licences were gated. *)
Checked == IF stage \in {"idle", "reported", "failed"} THEN {}
           ELSE { i \in Components : Disposition(i) = "scan" /\ (stage = "checks" => i < at) }

LicenceGated == IF stage \in {"idle", "reported", "failed", "checks"} THEN {}
           ELSE { i \in Components : Disposition(i) = "scan" /\ (stage = "licences" => i < at) }

(* A result is some tool's answer, over a component that was scanned or over *)
(* the whole tree, and one cut short is known to be; none is missing.        *)
FromComponent(b, r) ==
    \E i \in Checked : \E results \in checksFor(Language(i), Truth(tree, i)) :
        Named(i) = b[2] /\ b[1] \in CheckGates(Language(i)) /\ r = results[b[1]]

FromRoot(b, r) ==
    \/ b = <<"semgrep", "">> /\ stage \in {"secrets", "report"} /\ repo.semgrep /\ r \in SemgrepCheck
    \/ b = <<"gitleaks", "">> /\ stage = "report" /\ repo.secrets /\ r \in SecretsCheck

AllAnswered ==
    /\ \A b \in DOMAIN checks :
         /\ b = <<b[1], b[2]>>
         /\ FromComponent(b, checks[b]) \/ FromRoot(b, checks[b])
         /\ checks[b].cut => b \in cut
    /\ \A i \in Checked : \A g \in CheckGates(Language(i)) : <<g, Named(i)>> \in DOMAIN checks
    /\ stage \in {"secrets", "report"} /\ repo.semgrep => <<"semgrep", "">> \in DOMAIN checks
    /\ stage = "report" /\ repo.secrets => <<"gitleaks", "">> \in DOMAIN checks

(* A verdict compares a read of what the component ships with a base.        *)
BaseAnswers(i) ==
    IF ~Compares(i) \/ baseSHA = <<>> THEN {Base(NoDiffBase, FALSE, "open")}
    ELSE {Base(UnmeasuredBase, FALSE, "open")} \cup BasesIn(baseSHA[1], i)

AllGated ==
    /\ \A n \in DOMAIN licences :
         \E i \in LicenceGated : \E current \in CurrentReads(i), base \in BaseAnswers(i) :
            /\ n = Named(i)
            /\ current.cut \/ base.cut => <<"licence", n>> \in cut
            /\ licences[n] = licenceGateFor(i, current.read, base.base)
    /\ \A i \in LicenceGated : Named(i) \in DOMAIN licences

(* What is reported of each bucket when there was nothing to compare with.   *)
ReportedWhole ==
    stage = "reported" /\ baseSHA = <<>> =>
      \A b \in Buckets :
        /\ b \in Counted \ (crashed \cup cut) => ClaimsOf(claims, b) = Standing(tree, b)
        /\ ClaimsOf(claims, b) # {} => b \in Counted

ScanInv == ScanShape /\ AllAnswered /\ AllGated /\ ReportedWhole /\ PassesAreEarned

-----------------------------------------------------------------------------
(***************************************************************************)
(* What each tool's answer is worth: unless it says it crashed, or was cut  *)
(* short unseen, its claims are all there are, and it does not pass over    *)
(* anything it fails for.                                                  *)
(***************************************************************************)
LEMMA NumberOfNone == \A S : Number(S) = {} <=> S = {}
BY DEF Number

Earns(gate, truth, r) ==
    ~r.crashed /\ ~r.cut =>
      /\ ~r.failed => ~Fatal(gate, truth)
      /\ gate # "cargo fmt" => r.findings = TruthOf(gate, truth)

LEMMA NothingInstalled == \A gate, truth : Earns(gate, truth, Uninstalled)
BY DEF Earns, Uninstalled, Result

LEMMA GosecEarns ==
  ASSUME NEW truth, NEW run \in GosecRuns(truth)
  PROVE  Earns("gosec", truth, gosecResult(run))
<1> DEFINE issues == { o \in truth.issues : o.unit \notin truth.broken }
           errors == { [unit |-> u, located |-> FALSE] : u \in truth.broken }
           more == errors \cup { [unit |-> u, located |-> TRUE] : u \in truth.broken }
           report == [issues |-> issues, errors |-> errors]
           status == IF truth.broken # {} THEN {"clean", "found"} ELSE {IF issues = {} THEN "clean" ELSE "found"}
<1>1. CASE run.report = <<>>
  BY <1>1 DEF Earns, gosecResult, Result
<1>2. CASE run.report # <<>>
  <2>1. /\ run.exit \in status
        /\ run.report[1].issues = issues
        /\ run.report[1].errors = errors \/ run.report[1].errors = more
    <3>1. PICK e \in status : \/ run = [exit |-> e, report |-> <<report>>]
                              \/ run = [exit |-> e, report |-> <<[report EXCEPT !.errors = more]>>]
      BY <1>2 DEF GosecRuns
    <3>2. CASE run = [exit |-> e, report |-> <<report>>]
      BY <3>2
    <3>3. CASE run = [exit |-> e, report |-> <<[report EXCEPT !.errors = more]>>]
      BY <3>3
    <3>4. QED
      BY <3>1, <3>2, <3>3
  <2>2. buildErrors(run.report[1]) = {} => truth.broken = {}
    <3>1. SUFFICES ASSUME NEW u \in truth.broken PROVE \E e \in buildErrors(run.report[1]) : TRUE
      OBVIOUS
    <3>2. CASE run.report[1].errors = errors
      <4>1. [unit |-> u, located |-> FALSE] \in errors
        OBVIOUS
      <4>2. \A f \in errors : f.located = FALSE
        OBVIOUS
      <4>3. QED
        BY <3>2, <4>1, <4>2 DEF buildErrors
    <3>3. CASE run.report[1].errors = more
      <4>1. [unit |-> u, located |-> TRUE] \in more
        OBVIOUS
      <4>2. QED
        BY <3>3, <4>1 DEF buildErrors
    <3>4. QED
      BY <2>1, <3>2, <3>3
  <2>3. gosecResult(run) = Result(run.exit # "clean" \/ buildErrors(run.report[1]) # {},
                                  gosecFindings(run.report[1]), buildErrors(run.report[1]) # {}, FALSE)
    BY <1>2 DEF gosecResult
  <2>4. SUFFICES ASSUME buildErrors(run.report[1]) = {}
                 PROVE  /\ run.exit = "clean" => ~Fatal("gosec", truth)
                        /\ gosecFindings(run.report[1]) = TruthOf("gosec", truth)
    <3>1. gosecResult(run).crashed = (buildErrors(run.report[1]) # {})
      BY <2>3 DEF Result
    <3>2. gosecResult(run).failed = (run.exit # "clean" \/ buildErrors(run.report[1]) # {})
      BY <2>3 DEF Result
    <3>3. gosecResult(run).findings = gosecFindings(run.report[1])
      BY <2>3 DEF Result
    <3>4. QED
      BY <3>1, <3>2, <3>3 DEF Earns
  <2>5. truth.broken = {} /\ issues = truth.issues
    BY <2>2, <2>4
  <2>6. run.exit = "clean" => truth.issues = {}
    BY <2>1, <2>5
  <2>7. QED
    BY <2>1, <2>5, <2>6 DEF Fatal, TruthOf, gosecFindings
<1>3. QED
  BY <1>1, <1>2

LEMMA GovulncheckEarns ==
  ASSUME NEW truth, NEW run \in GovulncheckRuns(truth)
  PROVE  Earns("govulncheck", truth, govulncheckResult(run))
<1> DEFINE all == UNION { Messages(a) : a \in truth.advisories }
<1>1. /\ run.text = "clean" => ~\E a \in truth.advisories : a.called
      /\ run.data.output \in {"whole", "empty", "torn"}
      /\ run.data.output = "whole" => run.data.messages = all
  BY DEF GovulncheckRuns
<1>2. SUFFICES ASSUME run.data.output = "whole"
               PROVE  /\ run.text = "clean" => ~Fatal("govulncheck", truth)
                      /\ govulncheckFindings(run.data.messages) = TruthOf("govulncheck", truth)
  <2>1. govulncheckResult(run).failed = (run.text # "clean")
    BY DEF govulncheckResult, Result
  <2>2. govulncheckResult(run).crashed = (govulncheckCrashed(run.text, run.data) \/ run.data.output = "torn")
    BY DEF govulncheckResult, Result
  <2>3. run.data.output = "whole" => govulncheckResult(run).findings = govulncheckFindings(run.data.messages)
    BY DEF govulncheckResult, Result
  <2>4. ~govulncheckResult(run).crashed => run.data.output = "whole"
    BY <1>1, <2>2 DEF govulncheckCrashed
  <2>5. QED
    BY <2>1, <2>3, <2>4 DEF Earns
<1>3. govulncheckFindings(all) = { << <<a.osv, a.module>>, 0 >> : a \in truth.advisories }
  <2>1. ASSUME NEW a \in truth.advisories
        PROVE  \E m \in all : m.osv = a.osv /\ m.module = a.module
    <3>1. [osv |-> a.osv, module |-> a.module, depth |-> 1] \in Messages(a)
      BY DEF Messages
    <3>2. QED
      BY <3>1
  <2>2. ASSUME NEW m \in all
        PROVE  \E a \in truth.advisories : m.osv = a.osv /\ m.module = a.module
    BY DEF Messages
  <2>3. QED
    BY <2>1, <2>2 DEF govulncheckFindings
<1>4. QED
  BY <1>1, <1>2, <1>3 DEF Fatal, TruthOf

LEMMA FmtEarns ==
  ASSUME NEW truth, NEW run \in FmtRuns(truth)
  PROVE  Earns("cargo fmt", truth, fmtResult(run))
BY DEF Earns, FmtRuns, fmtResult, Fatal, Result

(* A whole run of clippy reached every crate: it is clean when none fails,   *)
(* and stopped nowhere before the last when all it states are lints.         *)
LEMMA ClippyEarns ==
  ASSUME NEW truth, WellFormed("rust", truth), NEW run \in ClippyRuns(truth)
  PROVE  Earns("cargo clippy", truth, clippyResult(run))
<1> DEFINE reached == Compiled(truth)
           failing == { c \in reached : Fails(truth, c) }
           summary == { [reason |-> "build-finished", code |-> "none", target |-> "lib", span |-> <<>>] }
           whole == [exit |-> IF failing = {} THEN "clean" ELSE "found",
                     messages |-> Diagnostics(truth, reached) \cup summary,
                     cut |-> reached # ToSet(truth.crates)]
           linted == { p \in truth.lints : p.unit \in reached \ truth.broken }
           lint(o, t) == [reason |-> "compiler-message", code |-> "lint", target |-> t, span |-> <<o>>]
           error(c) == [reason |-> "compiler-message", code |-> "rustc", target |-> "lib",
                        span |-> << Occurrence(<<"rustc", c>>, 1, c, TRUE) >>]
           lints == { lint(o, t) : o \in linted, t \in {"lib", "test"} }
           errors == { error(c) : c \in reached \cap truth.broken }
<1>1. /\ \A o \in truth.lints : o.unit \in ToSet(truth.crates)
      /\ truth.broken \subseteq ToSet(truth.crates)
  BY DEF WellFormed
<1>2. \/ run = whole
      \/ run.exit \in {"error", "killed"} /\ run.messages = {}
  BY DEF ClippyRuns
<1>3. /\ clippyResult(run).failed = (run.exit # "clean")
      /\ clippyResult(run).findings = clippyFindings(run.messages)
      /\ clippyResult(run).crashed = (run.exit # "clean" /\ ~clippyOnlyLinted(run.messages))
      /\ clippyResult(run).cut = run.cut
  BY DEF clippyResult, Result
<1>4. CASE run.exit \in {"error", "killed"} /\ run.messages = {}
  <2>1. ~clippyOnlyLinted(run.messages)
    BY <1>4 DEF clippyOnlyLinted
  <2>2. QED
    BY <1>3, <1>4, <2>1 DEF Earns
<1>5. CASE run = whole
  <2>1. SUFFICES ASSUME reached = ToSet(truth.crates), run.exit # "clean" => clippyOnlyLinted(run.messages)
                 PROVE  /\ run.exit = "clean" => ~Fatal("cargo clippy", truth)
                        /\ clippyFindings(run.messages) = TruthOf("cargo clippy", truth)
    BY <1>3, <1>5 DEF Earns
  <2>2. /\ run.messages = lints \cup errors \cup summary
        /\ run.exit = IF failing = {} THEN "clean" ELSE "found"
    BY <1>5 DEF Diagnostics
  <2>3. CASE failing = {}
    <3>1. truth.lints = {} /\ truth.broken = {}
      BY <1>1, <2>1, <2>3 DEF Fails
    <3>2. { m \in run.messages : m.reason = "compiler-message" /\ m.span # <<>> } = {}
      BY <2>2, <3>1
    <3>3. clippyFindings(run.messages) = Number({})
      BY <3>2 DEF clippyFindings
    <3>4. QED
      BY <3>1, <3>3 DEF Fatal, TruthOf
  <2>4. CASE failing # {}
    <3>1. clippyOnlyLinted(run.messages) /\ run.exit # "clean"
      BY <2>1, <2>2, <2>4
    <3>2. truth.broken = {}
      <4>1. SUFFICES ASSUME NEW c \in truth.broken PROVE FALSE
        OBVIOUS
      <4>2. error(c) \in run.messages
        <5>1. c \in reached \cap truth.broken
          BY <1>1, <2>1
        <5>2. error(c) \in errors
          BY <5>1
        <5> HIDE DEF lints, errors, error, summary
        <5>3. QED
          BY <2>2, <5>2
      <4>3. error(c).reason = "compiler-message" /\ error(c).code # "lint"
        OBVIOUS
      <4>4. QED
        BY <3>1, <4>2, <4>3 DEF clippyOnlyLinted
    <3>3. linted = truth.lints
      BY <1>1, <2>1, <3>2
    <3>4. { m \in run.messages : m.reason = "compiler-message" /\ m.span # <<>> } = lints
      <4>1. errors = {}
        BY <3>2
      <4>2. ASSUME NEW m \in lints PROVE m.reason = "compiler-message" /\ m.span # <<>>
        <5>1. PICK o \in linted, t \in {"lib", "test"} : m = lint(o, t)
          OBVIOUS
        <5>2. m.reason = "compiler-message" /\ m.span = <<o>>
          BY <5>1
        <5>3. QED
          BY <5>2
      <4>3. \A m \in summary : m.reason # "compiler-message"
        OBVIOUS
      <4>4. QED
        <5> HIDE DEF lints, errors, summary
        <5>1. run.messages = lints \cup summary
          BY <2>2, <4>1
        <5>2. QED
          BY <4>2, <4>3, <5>1
    <3>5. { m.span[1] : m \in lints } = truth.lints
      <4>1. ASSUME NEW o \in truth.lints PROVE \E m \in lints : m.span[1] = o
        <5>1. o \in linted
          BY <3>3
        <5> HIDE DEF linted
        <5>2. lint(o, "lib") \in lints
          BY <5>1
        <5>3. lint(o, "lib").span[1] = o
          OBVIOUS
        <5> HIDE DEF lints, lint
        <5>4. QED
          BY <5>2, <5>3
      <4>2. ASSUME NEW m \in lints PROVE m.span[1] \in truth.lints
        <5>1. PICK o \in linted, t \in {"lib", "test"} : m = lint(o, t)
          OBVIOUS
        <5>2. m.span = <<o>>
          BY <5>1
        <5>3. QED
          BY <5>2
      <4> HIDE DEF lints
      <4>3. QED
        BY <4>1, <4>2
    <3>6. QED
      <4> HIDE DEF lints
      <4>1. clippyFindings(run.messages) = Number(truth.lints)
        BY <3>4, <3>5 DEF clippyFindings
      <4>2. QED
        BY <3>1, <4>1 DEF TruthOf
  <2>5. QED
    BY <2>3, <2>4
<1>6. QED
  BY <1>2, <1>4, <1>5

LEMMA AuditEarns ==
  ASSUME NEW truth, NEW run \in AuditRuns(truth)
  PROVE  Earns("cargo-audit", truth, auditResult(run))
<1>1. CASE run.report = <<>>
  BY <1>1 DEF Earns, auditResult, Result
<1>2. CASE run.report # <<>>
  <2>1. /\ run.exit = ExitOver(truth.advisories)
        /\ run.report[1].vulnerabilities = Blocking(truth.advisories)
        /\ run.report[1].warnings = truth.advisories \ Blocking(truth.advisories)
    BY <1>2 DEF AuditRuns
  <2>2. auditFindings(run.report[1]) = Number(truth.advisories)
    BY <2>1 DEF auditFindings, Blocking
  <2>3. run.exit = "clean" => ~Fatal("cargo-audit", truth)
    BY <2>1 DEF ExitOver, Blocking, Fatal
  <2>4. QED
    BY <1>2, <2>2, <2>3 DEF Earns, auditResult, Result, TruthOf
<1>3. QED
  BY <1>1, <1>2

LEMMA DenyEarns ==
  ASSUME NEW truth, NEW run \in DenyRuns(truth)
  PROVE  Earns("cargo-deny", truth, denyResult(run))
<1> DEFINE all == { [severity |-> IF o.blocks THEN "error" ELSE "warning", at |-> o] : o \in truth.bans }
<1>1. /\ denyResult(run).failed = (run.exit # "clean")
      /\ denyResult(run).findings = denyFindings(run.stream)
      /\ denyResult(run).crashed = (run.exit # "clean" /\ ~denyStatesAnError(run.stream))
      /\ denyResult(run).cut = run.cut
  BY DEF denyResult, Result
<1>2. \/ run.exit = ExitOver(truth.bans) /\ run.stream = all
      \/ run.exit = "error" /\ run.stream = {}
      \/ run.cut
  BY DEF DenyRuns
<1>3. CASE run.exit = ExitOver(truth.bans) /\ run.stream = all
  <2>1. { d.at : d \in all } = truth.bans
    <3>1. ASSUME NEW o \in truth.bans PROVE \E d \in all : d.at = o
      <4>1. [severity |-> IF o.blocks THEN "error" ELSE "warning", at |-> o] \in all
        OBVIOUS
      <4>2. QED
        BY <4>1
    <3>2. \A d \in all : d.at \in truth.bans
      OBVIOUS
    <3> HIDE DEF all
    <3>3. QED
      BY <3>1, <3>2
  <2>2. run.exit = "clean" => ~Fatal("cargo-deny", truth)
    BY <1>3 DEF ExitOver, Blocking, Fatal
  <2>3. QED
    BY <1>1, <1>3, <2>1, <2>2 DEF Earns, denyFindings, TruthOf
<1>4. CASE run.exit = "error" /\ run.stream = {}
  BY <1>1, <1>4 DEF Earns, denyStatesAnError
<1>5. CASE run.cut
  BY <1>1, <1>5 DEF Earns
<1>6. QED
  BY <1>2, <1>3, <1>4, <1>5

(* A report with nothing in it that was not asked for is every file's.       *)
LEMMA BiomeEarns ==
  ASSUME NEW truth, WellFormed("typescript", truth), NEW run \in BiomeRuns(truth)
  PROVE  Earns("biome", truth, lintDirBiome(run))
<1> DEFINE asked(o) == [category |-> "lint/asked", at |-> o]
           opinion(c) == [category |-> c, at |-> Occurrence(<<c>>, 1, "any", FALSE)]
           unparsed(f, line) == [category |-> "parse", at |-> Occurrence(<<"parse", f>>, line, f, TRUE)]
           read == { p \in truth.claims : p.unit \notin truth.unread }
           lints == { asked(o) : o \in read }
           opinions == { opinion(c) : c \in truth.opinions }
           failures(line) == { unparsed(f, line) : f \in truth.unread }
<1>1. Located(truth.claims) = truth.claims /\ "lint/asked" \notin truth.opinions
  BY DEF WellFormed
<1>2. CASE run.nested \/ run.report = <<>>
  BY <1>2 DEF Earns, lintDirBiome, Result
<1>3. CASE ~run.nested /\ run.report # <<>>
  <2>1. PICK line \in {0, 1} : run.report[1] = lints \cup opinions \cup failures(line)
    <3>1. PICK line \in {0, 1} : run.report = <<lints \cup opinions \cup failures(line)>>
      <4> DEFINE exits == IF lints = {} THEN {"clean", "found"} ELSE {"found"}
                 reported(e, line) == [exit |-> e, nested |-> FALSE,
                                       report |-> <<lints \cup opinions \cup failures(line)>>]
                 written == { reported(e, line) : e \in exits, line \in {0, 1} }
                 unwritten == { [exit |-> "found", nested |-> TRUE, report |-> <<>>],
                                [exit |-> "clean", nested |-> FALSE, report |-> <<>>],
                                [exit |-> "error", nested |-> FALSE, report |-> <<>>],
                                [exit |-> "killed", nested |-> FALSE, report |-> <<>>] }
      <4>1. BiomeRuns(truth) = written \cup unwritten
        BY DEF BiomeRuns
      <4>2. run \notin unwritten
        <5>1. \A r \in unwritten : r.nested \/ r.report = <<>>
          OBVIOUS
        <5> HIDE DEF unwritten
        <5>2. QED
          BY <1>3, <5>1
      <4> HIDE DEF lints, opinions, failures, exits, reported, written, unwritten
      <4>3. run \in written
        BY <4>1, <4>2
      <4> USE DEF written, reported
      <4>4. PICK e \in exits, line \in {0, 1} : run = reported(e, line)
        BY <4>3
      <4>5. QED
        BY <4>4
    <3> HIDE DEF lints, opinions, failures
    <3>2. run.report[1] = lints \cup opinions \cup failures(line)
      BY <3>1
    <3>3. QED
      BY <3>2
  <2> DEFINE report == run.report[1]
  <2>2. /\ lintDirBiome(run).failed = (biomeFindings(report) # {})
        /\ lintDirBiome(run).findings = biomeFindings(report)
        /\ lintDirBiome(run).crashed = biomeIncomplete(report)
    BY <1>3 DEF lintDirBiome, Result
  <2>3. SUFFICES ASSUME ~biomeIncomplete(report)
                 PROVE  biomeFindings(report) = Number(truth.claims)
    BY <2>2, NumberOfNone DEF Earns, Fatal, TruthOf
  <2>4. \A d \in report : reportableBiome(d.category) => d.category = "lint/asked"
    BY <2>3 DEF biomeIncomplete
  <2>5. truth.unread = {}
    <3>1. SUFFICES ASSUME NEW f \in truth.unread PROVE FALSE
      OBVIOUS
    <3>2. unparsed(f, line) \in failures(line)
      OBVIOUS
    <3>3. unparsed(f, line).category = "parse"
      OBVIOUS
    <3> HIDE DEF lints, opinions, failures, unparsed
    <3>4. unparsed(f, line) \in report
      BY <2>1, <3>2
    <3>5. QED
      BY <2>4, <3>3, <3>4 DEF reportableBiome
  <2>6. ASSUME NEW d \in lints PROVE d.category = "lint/asked" /\ d.at \in truth.claims
    OBVIOUS
  <2>7. ASSUME NEW d \in opinions PROVE d.category # "lint/asked"
    <3>1. PICK c \in truth.opinions : d = opinion(c)
      OBVIOUS
    <3>2. d.category = c
      BY <3>1
    <3>3. QED
      BY <1>1, <3>2
  <2>8. failures(line) = {}
    BY <2>5
  <2>9. ASSUME NEW o \in truth.claims PROVE \E d \in lints : d.at = o
    <3>1. asked(o) \in lints /\ asked(o).at = o
      BY <2>5
    <3> HIDE DEF lints, asked
    <3>2. QED
      BY <3>1
  <2> HIDE DEF lints, opinions, failures
  <2>10. report = lints \cup opinions
    BY <2>1, <2>8
  <2> HIDE DEF report
  <2>11. { e \in report : reportableBiome(e.category) } = lints
    BY <2>4, <2>6, <2>7, <2>10 DEF reportableBiome
  <2>12. { d.at : d \in lints } = truth.claims
    BY <2>6, <2>9
  <2>13. QED
    BY <1>1, <2>11, <2>12 DEF biomeFindings
<1>4. QED
  BY <1>2, <1>3

LEMMA ShellcheckEarns ==
  ASSUME NEW truth, NEW listed, NEW r \in shellCheck(truth, listed)
  PROVE  Earns("shellcheck", truth, r)
<1> DEFINE comments == { o \in truth.comments : o.unit \notin truth.unread }
<1>1. CASE ~listed \/ truth.scripts = {}
  BY <1>1, NothingInstalled DEF shellCheck
<1>2. CASE listed /\ truth.scripts # {}
  <2>1. PICK run \in ShellcheckRuns(truth) : r = shellcheckResult(run, truth.files)
    BY <1>2 DEF shellCheck
  <2>2. CASE run.report = <<>>
    BY <2>1, <2>2 DEF Earns, shellcheckResult, Result
  <2>3. CASE run.report # <<>>
    <3>1. /\ run.report[1] = comments
          /\ run.exit = IF truth.unread # {} THEN "error" ELSE IF comments = {} THEN "clean" ELSE "found"
      BY <2>3 DEF ShellcheckRuns
    <3>2. /\ r.failed = (run.exit # "clean")
          /\ r.findings = shellcheckFindings(run.report[1], truth.files)
          /\ r.crashed = ~Accounted(run.exit)
      BY <2>1, <2>3 DEF shellcheckResult, Result
    <3>3. SUFFICES ASSUME Accounted(run.exit)
                   PROVE  /\ run.exit = "clean" => ~Fatal("shellcheck", truth)
                          /\ run.report[1] = truth.comments
      BY <3>2 DEF Earns, TruthOf
    <3>4. truth.unread = {}
      BY <3>1, <3>3 DEF Accounted
    <3>5. comments = truth.comments
      BY <3>4
    <3>6. QED
      BY <1>2, <3>1, <3>4, <3>5 DEF Fatal
  <2>4. QED
    BY <2>2, <2>3
<1>3. QED
  BY <1>1, <1>2

(* Semgrep's answer is about what the base had not.                          *)
LEMMA SemgrepEarns ==
  ASSUME NEW args, NEW truth, NEW run \in SemgrepRuns(args, truth), ~reportResult(run).crashed
  PROVE  LET new == truth.results \ args.baseline
         IN  /\ reportResult(run).findings = Number(Located(new))
             /\ ~reportResult(run).failed =>
                  IF args.mode = "scan" THEN new = {} ELSE ~\E o \in new : o.blocks
<1> DEFINE new == truth.results \ args.baseline
           exit(seen) == IF args.mode = "scan" THEN (IF seen = {} THEN "clean" ELSE "found")
                                               ELSE ExitOver(seen)
<1>1. run.report # <<>>
  BY DEF reportResult, Result
<1>2. \/ run.exit = exit(new) /\ run.report[1].results = new
      \/ run.report[1].errors = {"error"}
      \/ run.exit = "error"
  BY <1>1 DEF SemgrepRuns
<1>3. /\ reportResult(run).failed = (run.exit # "clean" \/ blocking(run.report[1]) # {})
      /\ reportResult(run).findings = semgrepFindings(run.report[1])
      /\ reportResult(run).crashed = (~Accounted(run.exit) \/ blocking(run.report[1]) # {})
  BY <1>1 DEF reportResult, Result
<1>4. run.exit # "error"
  BY <1>3 DEF Accounted
<1>5. run.report[1].errors # {"error"}
  BY <1>3 DEF blocking
<1>6. run.exit = exit(new) /\ run.report[1].results = new
  BY <1>2, <1>4, <1>5
<1>7. run.exit = "clean" => IF args.mode = "scan" THEN new = {} ELSE ~\E o \in new : o.blocks
  BY <1>6 DEF ExitOver, Blocking
<1>8. QED
  BY <1>3, <1>6, <1>7 DEF semgrepFindings

(* A walk that ended and was asked for the right files found all of theirs.  *)
LEMMA GitleaksEarns ==
  ASSUME NEW truth, NEW run \in GitleaksRuns(truth), NEW scope \in Scopes(truth),
         ~gitleaksResult(run, truth, scope).crashed, ~gitleaksResult(run, truth, scope).cut
  PROVE  LET r == gitleaksResult(run, truth, scope)
             all == gitleaksFindings(truth.leaks, truth.carried \cup truth.nested, truth.files)
         IN  r.findings = all /\ (~r.failed => all = {})
<1> DEFINE r == gitleaksResult(run, truth, scope)
           all == gitleaksFindings(truth.leaks, truth.carried \cup truth.nested, truth.files)
           kept == IF run.report = <<>> THEN {}
                    ELSE gitleaksFindings(run.report[1], tracked(truth, scope).keep, truth.files)
<1>1. r.findings = kept /\ r.crashed = gitleaksCrashed(run, scope) /\ r.cut = run.cut
  BY DEF gitleaksResult, Result
<1>2. r.failed = (\/ run.report = <<>> \/ ~ranToCompletion(run) \/ scopeFailure(scope, run.report[1])
                  \/ unplaced(run.report[1]) # {} \/ kept # {})
  BY DEF gitleaksResult, Result
<1>3. run.report # <<>> /\ ranToCompletion(run) /\ ~scopeFailure(scope, run.report[1])
  BY <1>1 DEF gitleaksCrashed
<1>4. run.report[1] = truth.leaks
  BY <1>1, <1>3 DEF GitleaksRuns, ranToCompletion
<1>5. kept = all
  <2>1. CASE scope = "asked"
    BY <1>3, <1>4, <2>1 DEF tracked
  <2>2. CASE scope = "empty"
    <3>1. truth.leaks = {}
      BY <1>3, <1>4, <2>2 DEF scopeFailure
    <3>2. \A keep, files : gitleaksFindings({}, keep, files) = {}
      BY NumberOfNone DEF gitleaksFindings, sited, Located
    <3>3. QED
      BY <1>3, <1>4, <3>1, <3>2
  <2>3. QED
    BY <1>3, <2>1, <2>2 DEF Scopes, scopeFailure
<1>6. QED
  BY <1>1, <1>2, <1>5

(* The checks of a language are its gates, and each earns its answer.        *)
LEMMA ChecksEarn ==
  ASSUME NEW lang \in {"go", "rust", "typescript", "shell"}, NEW truth, WellFormed(lang, truth),
         NEW results \in checksFor(lang, truth)
  PROVE  /\ DOMAIN results = CheckGates(lang)
         /\ \A g \in CheckGates(lang) : Earns(g, truth, results[g])
<1>1. CASE lang = "go"
  <2>1. PICK a \in {Uninstalled} \cup { gosecResult(r) : r \in GosecRuns(truth) },
             b \in {Uninstalled} \cup { govulncheckResult(r) : r \in GovulncheckRuns(truth) } :
               results = [gate \in {"gosec", "govulncheck"} |-> IF gate = "gosec" THEN a ELSE b]
    BY <1>1 DEF checksFor, GoCheck
  <2>2. Earns("gosec", truth, a) /\ Earns("govulncheck", truth, b)
    BY NothingInstalled, GosecEarns, GovulncheckEarns
  <2>3. QED
    BY <1>1, <2>1, <2>2 DEF CheckGates
<1>2. CASE lang = "rust"
  <2>1. PICK f \in { fmtResult(r) : r \in FmtRuns(truth) },
             c \in { clippyResult(r) : r \in ClippyRuns(truth) },
             a \in {Uninstalled} \cup { auditResult(r) : r \in AuditRuns(truth) },
             d \in {Uninstalled} \cup { denyResult(r) : r \in DenyRuns(truth) } :
               results = RustResults(f, c, a, d)
    BY <1>2 DEF checksFor, RustCheck
  <2>2. /\ Earns("cargo fmt", truth, f) /\ Earns("cargo clippy", truth, c)
        /\ Earns("cargo-audit", truth, a) /\ Earns("cargo-deny", truth, d)
    BY <1>2, NothingInstalled, FmtEarns, ClippyEarns, AuditEarns, DenyEarns
  <2>3. QED
    BY <1>2, <2>1, <2>2 DEF CheckGates, RustResults
<1>3. CASE lang = "typescript"
  <2>1. PICK b \in {Uninstalled} \cup { lintDirBiome(r) : r \in BiomeRuns(truth) } :
               results = [gate \in {"biome"} |-> b]
    BY <1>3 DEF checksFor, TypescriptCheck
  <2>2. Earns("biome", truth, b)
    BY <1>3, NothingInstalled, BiomeEarns
  <2>3. QED
    BY <1>3, <2>1, <2>2 DEF CheckGates
<1>4. CASE lang = "shell"
  <2>1. PICK s \in {Uninstalled} \cup UNION { shellCheck(truth, listed) : listed \in BOOLEAN } :
               results = [gate \in {"shellcheck"} |-> s]
    BY <1>4 DEF checksFor, ShellCheck
  <2>2. Earns("shellcheck", truth, s)
    BY NothingInstalled, ShellcheckEarns
  <2>3. QED
    BY <1>4, <2>1, <2>2 DEF CheckGates
<1>5. QED
  BY <1>1, <1>2, <1>3, <1>4

RootEarns(gate, r) ==
    ~r.crashed /\ ~r.cut =>
      /\ ~r.failed => ~FatalAtRoot(gate)
      /\ baseSHA = <<>> => r.findings = Standing(tree, <<gate, "">>)

LEMMA SemgrepCheckEarns ==
  ASSUME NEW r \in SemgrepCheck
  PROVE  RootEarns("semgrep", r)
<1> DEFINE base == IF repo.token \/ baseSHA = <<>> THEN {} ELSE baseSHA[1].semgrep.results
           args == buildArgs(repo.token, base)
<1>1. CASE r = Uninstalled
  BY <1>1 DEF RootEarns, Uninstalled, Result
<1>2. CASE r # Uninstalled
  <2>1. PICK run \in SemgrepRuns(args, tree.semgrep) : r = reportResult(run)
    BY <1>2 DEF SemgrepCheck
  <2>2. SUFFICES ASSUME ~r.crashed
                 PROVE  /\ ~r.failed => ~FatalAtRoot("semgrep")
                        /\ baseSHA = <<>> => r.findings = Standing(tree, <<"semgrep", "">>)
    BY DEF RootEarns
  <2>3. /\ r.findings = Number(Located(tree.semgrep.results \ args.baseline))
        /\ ~r.failed => IF args.mode = "scan" THEN tree.semgrep.results \ args.baseline = {}
                        ELSE ~\E o \in tree.semgrep.results \ args.baseline : o.blocks
    <3>1. ~reportResult(run).crashed
      BY <2>1, <2>2
    <3> HIDE DEF args
    <3>2. QED
      BY <2>1, <3>1, SemgrepEarns
  <2>4. CASE repo.token
    <3>1. args.mode = "ci" /\ args.baseline = {}
      BY <2>4 DEF buildArgs
    <3>2. tree.semgrep.results \ args.baseline = tree.semgrep.results
      BY <3>1
    <3>3. QED
      BY <2>3, <2>4, <3>1, <3>2 DEF FatalAtRoot, Standing
  <2>5. CASE ~repo.token
    <3>1. args.mode = "scan" /\ args.baseline = BaseResults
      BY <2>5 DEF buildArgs, BaseResults
    <3>2. baseSHA = <<>> => tree.semgrep.results \ args.baseline = tree.semgrep.results
      BY <3>1 DEF BaseResults
    <3>3. QED
      BY <2>3, <2>5, <3>1, <3>2 DEF FatalAtRoot, Standing
  <2>6. QED
    BY <2>4, <2>5
<1>3. QED
  BY <1>1, <1>2

LEMMA SecretsCheckEarns ==
  ASSUME NEW r \in SecretsCheck
  PROVE  RootEarns("gitleaks", r)
<1>1. CASE r = Uninstalled
  BY <1>1 DEF RootEarns, Uninstalled, Result
<1>2. CASE r # Uninstalled
  <2>1. PICK run \in GitleaksRuns(tree.secrets), scope \in Scopes(tree.secrets) :
               r = gitleaksResult(run, tree.secrets, scope)
    BY <1>2 DEF SecretsCheck
  <2>2. Standing(tree, <<"gitleaks", "">>)
          = gitleaksFindings(tree.secrets.leaks, tree.secrets.carried \cup tree.secrets.nested,
                             tree.secrets.files)
    BY DEF Standing
  <2>3. FatalAtRoot("gitleaks") = (Standing(tree, <<"gitleaks", "">>) # {})
    BY DEF FatalAtRoot
  <2>4. QED
    <3>1. SUFFICES ASSUME ~r.crashed, ~r.cut
                   PROVE  /\ ~r.failed => ~FatalAtRoot("gitleaks")
                          /\ r.findings = Standing(tree, <<"gitleaks", "">>)
      BY DEF RootEarns
    <3>2. /\ r.findings = Standing(tree, <<"gitleaks", "">>)
          /\ ~r.failed => Standing(tree, <<"gitleaks", "">>) = {}
      BY <2>1, <2>2, <3>1, GitleaksEarns
    <3>3. QED
      BY <2>3, <3>2
<1>3. QED
  BY <1>1, <1>2

-----------------------------------------------------------------------------
(***************************************************************************)
(* While a scan runs, what it is over stays as it was.                     *)
(***************************************************************************)
LEMMA ScanFrame ==
  ASSUME UNCHANGED <<repo, tree, baseSHA>>
  PROVE  /\ Components' = Components
         /\ \A i : /\ Named(i)' = Named(i) /\ Language(i)' = Language(i) /\ Dir(i)' = Dir(i)
                   /\ Disposition(i)' = Disposition(i)
                   /\ Truth(tree, i)' = Truth(tree, i)
                   /\ CurrentReads(i)' = CurrentReads(i)
                   /\ BaseAnswers(i)' = BaseAnswers(i)
         /\ SemgrepCheck' = SemgrepCheck /\ SecretsCheck' = SecretsCheck
<1>1. repo' = repo /\ tree' = tree /\ baseSHA' = baseSHA
  OBVIOUS
<1>2. /\ Components' = Components
      /\ \A i : /\ Named(i)' = Named(i) /\ Language(i)' = Language(i) /\ Dir(i)' = Dir(i)
                /\ Truth(tree, i)' = Truth(tree, i)
  BY <1>1 DEF Components, Named, Language, Dir, Truth
<1>3. \A i : Disposition(i)' = Disposition(i)
  BY <1>1 DEF Disposition, Enabled, Key, Language, Dir, Components
<1>4. \A i : CurrentReads(i)' = CurrentReads(i)
  BY <1>1 DEF CurrentReads, rustReads, goReads, typescriptReads, Policy, Language, Dir, Truth
<1>5. \A i : BaseAnswers(i)' = BaseAnswers(i)
  BY <1>1 DEF BaseAnswers, BasesIn, BaseReads, Compares, rustReads, goReads, typescriptReads, Policy, Language, Dir, Truth
<1>6. SemgrepCheck' = SemgrepCheck /\ SecretsCheck' = SecretsCheck
  BY <1>1 DEF SemgrepCheck, SecretsCheck
<1>7. QED
  BY <1>2, <1>3, <1>4, <1>5, <1>6

(***************************************************************************)
(* What the declaration and the trees are known to be.                     *)
(***************************************************************************)
LEMMA ComponentsOwn ==
  ASSUME repo \in Repos
  PROVE  /\ Len(repo.components) \in Nat \ {0} /\ Components = 1..Len(repo.components)
         /\ 1 \in Components /\ \A i \in Components : i \in Nat /\ ~(i < 1)
         /\ \A i, j \in Components : Named(i) # "" /\ (Named(i) = Named(j) => i = j)
<1>1. Declared(repo.components)
  BY ScanAssumption
<1>2. Len(repo.components) \in Nat \ {0} /\ Components = 1..Len(repo.components)
  BY <1>1 DEF Declared, Components
<1>3. \A i, j \in Components : Named(i) # "" /\ (Named(i) = Named(j) => i = j)
  BY <1>1 DEF Declared, Components, Named
<1>4. 1 \in Components /\ \A i \in Components : i \in Nat /\ ~(i < 1)
  <2> DEFINE n == Len(repo.components)
  <2>1. n \in Nat \ {0} /\ Components = 1..n
    BY <1>2
  <2> HIDE DEF n
  <2>2. QED
    BY <2>1
<1>5. QED
  BY <1>2, <1>3, <1>4

LEMMA ScannedIsFormed ==
  ASSUME ScanShape, stage # "idle", NEW i \in Components, Disposition(i) = "scan"
  PROVE  /\ Language(i) \in {"go", "rust", "typescript", "shell"} /\ Enabled(Language(i))
         /\ WellFormed(Language(i), Truth(tree, i))
<1>1. Scanned(Language(i)) /\ Enabled(Language(i))
  BY DEF Disposition
<1>2. repo \in Repos /\ tree \in ToSet(repo.trees) /\ Dir(i) \in DOMAIN tree.at
  BY DEF ScanShape
<1>3. repo.components[i] \in ToSet(repo.components)
  BY DEF Components, ToSet
<1>4. QED
  BY <1>1, <1>2, <1>3, ScanAssumption DEF Scanned, Enabled, Language, Dir, Truth

LEMMA WithBoth ==
  ASSUME NEW f, NEW g
  PROVE  /\ DOMAIN With(f, g) = DOMAIN f \cup DOMAIN g
         /\ \A x \in DOMAIN f : With(f, g)[x] = f[x]
         /\ \A x \in DOMAIN g \ DOMAIN f : With(f, g)[x] = g[x]
BY DEF With

LEMMA Labels ==
  ASSUME NEW results, NEW component
  PROVE  /\ DOMAIN labelled(results, component) = (DOMAIN results) \X {component}
         /\ \A g \in DOMAIN results :
              /\ <<g, component>> \in DOMAIN labelled(results, component)
              /\ labelled(results, component)[<<g, component>>] = results[g]
         /\ \A b \in DOMAIN labelled(results, component) :
              b = <<b[1], b[2]>> /\ b[1] \in DOMAIN results /\ b[2] = component
BY DEF labelled

(***************************************************************************)
(* The invariant holds at first, and each step keeps it.                   *)
(***************************************************************************)
LEMMA ScanStarts == ScanInit => ScanInv
<1> SUFFICES ASSUME ScanInit PROVE ScanInv
  OBVIOUS
<1>1. DOMAIN checks = {} /\ DOMAIN licences = {} /\ stage = "idle"
  BY DEF ScanInit
<1>2. main \in ToSet(repo.trees) /\ tree = main /\ repo \in Repos
  BY ScanAssumption DEF ScanInit, ToSet
<1>3. at \in Components
  BY <1>2, ComponentsOwn DEF ScanInit
<1>4. Checked = {} /\ LicenceGated = {}
  BY <1>1 DEF Checked, LicenceGated
<1>5. QED
  BY <1>1, <1>2, <1>3, <1>4
     DEF ScanInv, ScanShape, AllAnswered, AllGated, ReportedWhole, PassesAreEarned, Stages

LEMMA ScanBegins ==
  ASSUME ScanInv, NEW t \in ToSet(repo.trees), NEW base, Begin(t, base)
  PROVE  ScanInv'
<1>1. /\ repo' = repo /\ main' = main /\ tree' = t /\ stage' = "checks" /\ at' = 1
      /\ checks' = checks /\ licences' = licences /\ stage = "idle"
      /\ \A i \in Components : Dir(i) \in DOMAIN t.at
  BY DEF Begin
<1>2. DOMAIN checks = {} /\ DOMAIN licences = {} /\ repo \in Repos /\ main \in ToSet(repo.trees)
  BY <1>1 DEF ScanInv, ScanShape
<1>3. Components' = Components /\ 1 \in Components /\ \A i : Dir(i)' = Dir(i)
  BY <1>1, <1>2, ComponentsOwn DEF Components, Dir
<1>4. ScanShape'
  BY <1>1, <1>2, <1>3 DEF ScanShape, Stages
<1>5. Checked' = {} /\ LicenceGated' = {}
  BY <1>1, <1>2, <1>3, ComponentsOwn DEF Checked, LicenceGated
<1>6. QED
  BY <1>1, <1>2, <1>4, <1>5 DEF ScanInv, AllAnswered, AllGated, ReportedWhole, PassesAreEarned

LEMMA ScanGivesUp ==
  ASSUME ScanInv, NothingToReport
  PROVE  ScanInv'
<1>1. /\ stage = "checks" /\ at = 1 /\ stage' = "failed" /\ checks' = checks /\ licences' = licences
      /\ UNCHANGED <<repo, main, tree, at>>
  BY DEF NothingToReport
<1>2. Checked = {} /\ LicenceGated = {}
  BY <1>1, ComponentsOwn DEF ScanInv, ScanShape, Checked, LicenceGated
<1>3. DOMAIN checks = {} /\ DOMAIN licences = {}
  BY <1>1, <1>2 DEF ScanInv, AllAnswered, AllGated, FromComponent, FromRoot
<1>4. Components' = Components /\ \A i : Dir(i)' = Dir(i)
  BY <1>1 DEF Components, Dir
<1>5. ScanShape'
  BY <1>1, <1>3, <1>4 DEF ScanInv, ScanShape, Stages
<1>6. Checked' = {} /\ LicenceGated' = {}
  BY <1>1 DEF Checked, LicenceGated
<1>7. QED
  BY <1>1, <1>3, <1>5, <1>6 DEF ScanInv, AllAnswered, AllGated, ReportedWhole, PassesAreEarned

(* The stage moves to the next component, or past the last.                  *)
LEMMA Advances ==
  ASSUME repo \in Repos, at \in Components, NEW this, NEW next, Advance(this, next), this # next
  PROVE  /\ at' \in Components /\ stage' \in {this, next}
         /\ \A i \in Components : (stage' = this => i < at') <=> i < at \/ i = at
         /\ stage' = next => at' = 1
<1> DEFINE n == Len(repo.components)
<1>1. n \in Nat \ {0} /\ Components = 1..n
  BY ComponentsOwn
<1>2. IF at < n THEN stage' = this /\ at' = at + 1 ELSE stage' = next /\ at' = 1
  BY DEF Advance
<1> HIDE DEF n
<1>3. QED
  BY <1>1, <1>2

LEMMA ScanChecks ==
  ASSUME ScanInv, RunChecks
  PROVE  ScanInv'
<1>1. /\ stage = "checks" /\ UNCHANGED <<repo, main, tree, baseSHA, licences>>
      /\ Advance("checks", "licences")
  BY DEF RunChecks
<1>2. repo \in Repos /\ at \in Components /\ (\A i \in Components : Dir(i) \in DOMAIN tree.at)
  BY <1>1 DEF ScanInv, ScanShape
<1>3. /\ at' \in Components /\ stage' \in {"checks", "licences"}
      /\ \A i \in Components : (stage' = "checks" => i < at') <=> i < at \/ i = at
      /\ stage' = "licences" => at' = 1
  BY <1>1, <1>2, Advances
<1>4. Checked' = Checked \cup { i \in {at} : Disposition(i) = "scan" }
  BY <1>1, <1>2, <1>3, ScanFrame DEF Checked
<1>5. LicenceGated' = {} /\ LicenceGated = {}
  <2>1. \A i \in Components : ~(i < 1)
    BY <1>2, ComponentsOwn
  <2>2. Components' = Components
    BY <1>1, ScanFrame
  <2>3. QED
    BY <1>1, <1>3, <2>1, <2>2 DEF LicenceGated
<1>6. DOMAIN licences = {}
  BY <1>5 DEF ScanInv, AllGated
<1>7. ScanShape' /\ AllGated'
  BY <1>1, <1>2, <1>3, <1>5, <1>6, ScanFrame DEF ScanInv, ScanShape, AllGated, Stages
<1>8. AllAnswered'
  <2>1. /\ \A b \in DOMAIN checks : /\ b = <<b[1], b[2]>> /\ (checks[b].cut => b \in cut)
                                    /\ \E i \in Checked : \E results \in checksFor(Language(i), Truth(tree, i)) :
                                         Named(i) = b[2] /\ b[1] \in CheckGates(Language(i)) /\ checks[b] = results[b[1]]
        /\ \A i \in Checked : \A g \in CheckGates(Language(i)) : <<g, Named(i)>> \in DOMAIN checks
    BY <1>1 DEF ScanInv, AllAnswered, FromComponent, FromRoot
  <2>2. CASE Disposition(at) # "scan"
    <3>1. checks' = checks /\ cut' = cut /\ Checked' = Checked
      BY <1>4, <2>2 DEF RunChecks
    <3>2. \A b \in DOMAIN checks : FromComponent(b, checks[b])'
      BY <1>1, <2>1, <3>1, ScanFrame DEF FromComponent
    <3>3. QED
      BY <1>1, <1>3, <2>1, <3>1, <3>2, ScanFrame DEF AllAnswered
  <2>3. CASE Disposition(at) = "scan"
    <3>1. PICK results \in checksFor(Language(at), Truth(tree, at)) :
              /\ checks' = With(checks, labelled(results, Named(at)))
              /\ cut' = cut \cup CutOf(labelled(results, Named(at)))
      BY <2>3 DEF RunChecks
    <3> DEFINE new == labelled(results, Named(at))
    <3>2. /\ Language(at) \in {"go", "rust", "typescript", "shell"}
          /\ WellFormed(Language(at), Truth(tree, at))
      BY <1>1, <1>2, <2>3, ScannedIsFormed DEF ScanInv
    <3>3. DOMAIN results = CheckGates(Language(at))
      BY <3>1, <3>2, ChecksEarn
    <3>4. at \in Checked' /\ Checked' = Checked \cup {at}
      BY <1>4, <2>3
    <3>5. /\ DOMAIN checks' = DOMAIN checks \cup DOMAIN new
          /\ \A b \in DOMAIN checks : checks'[b] = checks[b]
          /\ \A b \in DOMAIN new \ DOMAIN checks : checks'[b] = new[b]
      <4>1. checks' = With(checks, new)
        BY <3>1
      <4> HIDE DEF new
      <4>2. /\ DOMAIN With(checks, new) = DOMAIN checks \cup DOMAIN new
            /\ \A b \in DOMAIN checks : With(checks, new)[b] = checks[b]
            /\ \A b \in DOMAIN new \ DOMAIN checks : With(checks, new)[b] = new[b]
        BY WithBoth
      <4>3. QED
        BY <4>1, <4>2
    <3>6. \A b \in DOMAIN new : /\ b = <<b[1], b[2]>> /\ b[1] \in CheckGates(Language(at)) /\ b[2] = Named(at)
                                /\ new[b] = results[b[1]]
      <4>1. \A b \in DOMAIN new : b = <<b[1], b[2]>> /\ b[1] \in CheckGates(Language(at)) /\ b[2] = Named(at)
        BY <3>3 DEF labelled
      <4>2. \A b \in DOMAIN new : new[b] = results[b[1]]
        BY DEF labelled
      <4>3. QED
        BY <4>1, <4>2
    <3>7. \A g \in CheckGates(Language(at)) : <<g, Named(at)>> \in DOMAIN new
      BY <3>3, Labels
    <3>8. \A b \in DOMAIN new : new[b].cut => b \in cut'
      BY <3>1 DEF CutOf
    <3>9. cut \subseteq cut'
      BY <3>1
    <3> HIDE DEF new
    <3>10. ASSUME NEW b \in DOMAIN checks'
           PROVE  /\ b = <<b[1], b[2]>> /\ (checks'[b].cut => b \in cut')
                  /\ \E i \in Checked' : \E rs \in checksFor(Language(i), Truth(tree, i)) :
                       Named(i) = b[2] /\ b[1] \in CheckGates(Language(i)) /\ checks'[b] = rs[b[1]]
      <4>1. CASE b \in DOMAIN checks
        BY <2>1, <3>4, <3>5, <3>9, <4>1
      <4>2. CASE b \in DOMAIN new \ DOMAIN checks
        BY <3>1, <3>4, <3>5, <3>6, <3>8, <4>2
      <4>3. QED
        BY <3>5, <4>1, <4>2
    <3>11. \A b \in DOMAIN checks' : FromComponent(b, checks[b])'
      BY <1>1, <3>10, ScanFrame DEF FromComponent
    <3>12. \A i \in Checked' : \A g \in CheckGates(Language(i)) : <<g, Named(i)>> \in DOMAIN checks'
      BY <2>1, <3>4, <3>5, <3>7
    <3>13. QED
      BY <1>1, <1>3, <3>10, <3>11, <3>12, ScanFrame DEF AllAnswered
  <2>4. QED
    BY <2>2, <2>3
<1>9. QED
  BY <1>3, <1>7, <1>8 DEF ScanInv, ReportedWhole, PassesAreEarned

LEMMA BasesAnswer ==
  ASSUME NEW i, NEW base \in Bases(i)
  PROVE  \E b \in BaseAnswers(i) : b.base = base.base /\ b.cut = base.cut
<1>1. CASE ~Compares(i) \/ baseSHA = <<>>
  <2>1. base = Base(NoDiffBase, FALSE, worktree)
    BY <1>1 DEF Bases
  <2>2. Base(NoDiffBase, FALSE, "open") \in BaseAnswers(i)
    BY <1>1 DEF BaseAnswers
  <2>3. QED
    BY <2>1, <2>2 DEF Base
<1>2. CASE Compares(i) /\ baseSHA # <<>>
  <2>1. PICK w \in Opened :
          base \in IF w = "failed" THEN { Base(UnmeasuredBase, FALSE, w) } ELSE BasesIn(baseSHA[1], i)
    BY <1>2 DEF Bases
  <2>2. CASE w = "failed"
    <3>1. base = Base(UnmeasuredBase, FALSE, w)
      BY <2>1, <2>2
    <3>2. Base(UnmeasuredBase, FALSE, "open") \in BaseAnswers(i)
      BY <1>2 DEF BaseAnswers
    <3>3. QED
      BY <3>1, <3>2 DEF Base
  <2>3. CASE w # "failed"
    BY <1>2, <2>1, <2>3 DEF BaseAnswers
  <2>4. QED
    BY <2>2, <2>3
<1>3. QED
  BY <1>1, <1>2

LEMMA ScanGates ==
  ASSUME ScanInv, GateLicences
  PROVE  ScanInv'
<1>1. /\ stage = "licences" /\ UNCHANGED <<repo, main, tree, baseSHA, checks>>
      /\ Advance("licences", "semgrep")
  BY DEF GateLicences
<1>2. repo \in Repos /\ at \in Components /\ (\A i \in Components : Dir(i) \in DOMAIN tree.at)
  BY <1>1 DEF ScanInv, ScanShape
<1>3. /\ at' \in Components /\ stage' \in {"licences", "semgrep"}
      /\ \A i \in Components : (stage' = "licences" => i < at') <=> i < at \/ i = at
  BY <1>1, <1>2, Advances
<1>4. LicenceGated' = LicenceGated \cup { i \in {at} : Disposition(i) = "scan" }
  BY <1>1, <1>2, <1>3, ScanFrame DEF LicenceGated
<1>5. Checked' = Checked
  BY <1>1, <1>3, ScanFrame DEF Checked
<1>6. ScanShape'
  BY <1>1, <1>2, <1>3, ScanFrame DEF ScanInv, ScanShape, Stages
<1>7. AllAnswered' /\ AllGated'
  <2>1. /\ \A b \in DOMAIN checks : /\ b = <<b[1], b[2]>> /\ (checks[b].cut => b \in cut)
                                    /\ FromComponent(b, checks[b])
        /\ \A i \in Checked : \A g \in CheckGates(Language(i)) : <<g, Named(i)>> \in DOMAIN checks
    BY <1>1 DEF ScanInv, AllAnswered, FromRoot
  <2>2. \A b \in DOMAIN checks : FromComponent(b, checks[b])'
    BY <1>1, <1>5, <2>1, ScanFrame DEF FromComponent
  <2>3. cut \subseteq cut' => AllAnswered'
    BY <1>1, <1>3, <1>5, <2>1, <2>2, ScanFrame DEF AllAnswered
  <2>0. \A i, c, of : licenceGateFor(i, c, of)' = licenceGateFor(i, c, of)
    BY <1>1 DEF licenceGateFor, goLicence, rustLicence, typescriptLicence, Language, Policy, Truth, Dir
  <2>4. CASE Disposition(at) # "scan"
    <3>1. licences' = licences /\ cut' = cut /\ LicenceGated' = LicenceGated
      BY <1>4, <2>4 DEF GateLicences
    <3>2. AllGated'
      BY <1>1, <2>0, <3>1, ScanFrame DEF ScanInv, AllGated
    <3>3. QED
      BY <2>3, <3>1, <3>2
  <2>5. CASE Disposition(at) = "scan"
    <3>1. PICK base \in Bases(at), current \in CurrentReads(at) : GateLicence(base, current)
      BY <2>5 DEF GateLicences
    <3>2. PICK b \in BaseAnswers(at) : b.base = base.base /\ b.cut = base.cut
      BY <3>1, BasesAnswer
    <3> DEFINE v == licenceGateFor(at, current.read, base.base)
               new == [n \in {Named(at)} |-> v]
    <3>3. /\ licences' = With(licences, new)
          /\ cut' = cut \cup IF base.cut \/ current.cut THEN {<<"licence", Named(at)>>} ELSE {}
      BY <3>1 DEF GateLicence
    <3>4. DOMAIN new = {Named(at)} /\ new[Named(at)] = v
      OBVIOUS
    <3> HIDE DEF new
    <3>5. /\ DOMAIN licences' = DOMAIN licences \cup {Named(at)}
          /\ \A n \in DOMAIN licences : licences'[n] = licences[n]
          /\ Named(at) \notin DOMAIN licences => licences'[Named(at)] = v
      BY <3>3, <3>4, WithBoth
    <3> HIDE DEF v
    <3>6. LicenceGated' = LicenceGated \cup {at} /\ cut \subseteq cut'
      BY <1>4, <2>5, <3>3
    <3>8. ASSUME NEW n \in DOMAIN licences'
          PROVE  \E i \in LicenceGated' : \E c \in CurrentReads(i), of \in BaseAnswers(i) :
                   /\ n = Named(i)
                   /\ c.cut \/ of.cut => <<"licence", n>> \in cut'
                   /\ licences'[n] = licenceGateFor(i, c.read, of.base)
      <4>1. CASE n \in DOMAIN licences
        BY <3>5, <3>6, <4>1 DEF ScanInv, AllGated
      <4>2. CASE n \notin DOMAIN licences
        BY <3>1, <3>2, <3>3, <3>5, <3>6, <4>2 DEF v
      <4>3. QED
        BY <4>1, <4>2
    <3>9. \A i \in LicenceGated' : Named(i) \in DOMAIN licences'
      BY <3>5, <3>6 DEF ScanInv, AllGated
    <3>10. AllGated'
      BY <1>1, <2>0, <3>8, <3>9, ScanFrame DEF AllGated
    <3>11. QED
      BY <2>3, <3>6, <3>10
  <2>6. QED
    BY <2>4, <2>5
<1>8. QED
  BY <1>3, <1>6, <1>7 DEF ScanInv, ReportedWhole, PassesAreEarned

LEMMA ScanRoots ==
  ASSUME ScanInv, NEW gate, NEW enabled, NEW answers, RootScan(gate, enabled, answers),
         \/ /\ stage = "semgrep" /\ stage' = "secrets"
            /\ gate = "semgrep" /\ enabled = repo.semgrep /\ answers = SemgrepCheck
         \/ /\ stage = "secrets" /\ stage' = "report"
            /\ gate = "gitleaks" /\ enabled = repo.secrets /\ answers = SecretsCheck
  PROVE  ScanInv'
<1>1. /\ UNCHANGED <<repo, main, tree, baseSHA, at, licences>>
      /\ stage \in {"semgrep", "secrets"} /\ stage' \in {"secrets", "report"}
  BY DEF RootScan
<1>2. Checked' = Checked /\ LicenceGated' = LicenceGated
  BY <1>1, ScanFrame DEF Checked, LicenceGated
<1>3. ScanShape'
  BY <1>1, ScanFrame DEF ScanInv, ScanShape, Stages
<1>4. \A i, c, of : licenceGateFor(i, c, of)' = licenceGateFor(i, c, of)
  BY <1>1 DEF licenceGateFor, goLicence, rustLicence, typescriptLicence, Language, Policy, Truth, Dir
<1>5. cut \subseteq cut' => AllGated'
  <2>1. SUFFICES ASSUME cut \subseteq cut' PROVE AllGated'
    OBVIOUS
  <2>2. ASSUME NEW n \in DOMAIN licences
        PROVE  \E i \in LicenceGated : \E c \in CurrentReads(i), of \in BaseAnswers(i) :
                 /\ n = Named(i)
                 /\ c.cut \/ of.cut => <<"licence", n>> \in cut'
                 /\ licences[n] = licenceGateFor(i, c.read, of.base)
    BY <2>1 DEF ScanInv, AllGated
  <2>3. \A i \in LicenceGated : Named(i) \in DOMAIN licences
    BY DEF ScanInv, AllGated
  <2>4. QED
    BY <1>1, <1>2, <1>4, <2>2, <2>3, ScanFrame DEF AllGated
<1>6. /\ \A b \in DOMAIN checks : /\ b = <<b[1], b[2]>> /\ (checks[b].cut => b \in cut)
                                  /\ FromComponent(b, checks[b]) \/ FromRoot(b, checks[b])
      /\ \A i \in Checked : \A g \in CheckGates(Language(i)) : <<g, Named(i)>> \in DOMAIN checks
      /\ stage = "secrets" /\ repo.semgrep => <<"semgrep", "">> \in DOMAIN checks
  BY DEF ScanInv, AllAnswered
<1>7. \A b, r : FromComponent(b, r) \/ FromRoot(b, r) => FromComponent(b, r)' \/ FromRoot(b, r)'
  BY <1>1, <1>2, ScanFrame DEF FromComponent, FromRoot
<1>8. CASE ~enabled
  <2>1. checks' = checks /\ cut' = cut
    BY <1>8 DEF RootScan
  <2>2. AllAnswered'
    BY <1>1, <1>2, <1>6, <1>7, <1>8, <2>1, ScanFrame DEF AllAnswered
  <2>3. QED
    BY <1>1, <1>3, <1>5, <2>1, <2>2 DEF ScanInv, ReportedWhole, PassesAreEarned
<1>9. CASE enabled
  <2>1. PICK result \in answers :
          LET results == labelled([g \in {gate} |-> result], "")
          IN  checks' = With(checks, results) /\ cut' = cut \cup CutOf(results)
    BY <1>9 DEF RootScan
  <2> DEFINE new == labelled([g \in {gate} |-> result], "")
             bucket == <<gate, "">>
  <2>2. checks' = With(checks, new) /\ cut' = cut \cup CutOf(new)
    BY <2>1
  <2>3. DOMAIN new = {bucket} /\ new[bucket] = result
    <3>1. DOMAIN [g \in {gate} |-> result] = {gate} /\ [g \in {gate} |-> result][gate] = result
      OBVIOUS
    <3> DEFINE one == [g \in {gate} |-> result]
    <3> HIDE DEF one
    <3>2. bucket \in DOMAIN labelled(one, "") /\ labelled(one, "")[bucket] = result
      BY <3>1, Labels DEF one
    <3>3. \A b \in DOMAIN labelled(one, "") : b = bucket
      <4>1. \A b \in DOMAIN labelled(one, "") : b = <<b[1], b[2]>> /\ b[1] \in DOMAIN one /\ b[2] = ""
        BY Labels
      <4>2. DOMAIN one = {gate}
        BY <3>1 DEF one
      <4>3. QED
        BY <4>1, <4>2
    <3>4. QED
      BY <3>2, <3>3 DEF one
  <2>4. result.cut => bucket \in CutOf(new)
    BY <2>3 DEF CutOf
  <2> HIDE DEF new
  <2>5. /\ DOMAIN With(checks, new) = DOMAIN checks \cup DOMAIN new
        /\ \A b \in DOMAIN checks : With(checks, new)[b] = checks[b]
        /\ \A b \in DOMAIN new \ DOMAIN checks : With(checks, new)[b] = new[b]
    BY WithBoth
  <2>6. /\ DOMAIN checks' = DOMAIN checks \cup {bucket}
        /\ \A b \in DOMAIN checks : checks'[b] = checks[b]
        /\ bucket \notin DOMAIN checks => checks'[bucket] = result
    BY <2>2, <2>3, <2>5
  <2>7. FromRoot(bucket, result)'
    BY <1>1, <1>9, ScanFrame DEF FromRoot
  <2>8. bucket[1] = gate /\ bucket[2] = "" /\ (result.cut => bucket \in cut') /\ cut \subseteq cut'
    BY <2>2, <2>4
  <2> HIDE DEF bucket
  <2>9. ASSUME NEW b \in DOMAIN checks'
        PROVE  /\ b = <<b[1], b[2]>> /\ (checks'[b].cut => b \in cut')
               /\ FromComponent(b, checks[b])' \/ FromRoot(b, checks[b])'
    <3>1. CASE b \in DOMAIN checks
      <4>1. FromComponent(b, checks[b]) \/ FromRoot(b, checks[b])
        BY <1>6, <3>1
      <4>2. checks'[b] = checks[b]
        BY <2>6, <3>1
      <4>3. FromComponent(b, checks[b])' \/ FromRoot(b, checks[b])'
        <5>1. CASE FromComponent(b, checks[b])
          BY <1>1, <1>2, <4>2, <5>1, ScanFrame DEF FromComponent
        <5>2. CASE FromRoot(b, checks[b])
          <6>1. SemgrepCheck' = SemgrepCheck /\ SecretsCheck' = SecretsCheck /\ repo' = repo
            BY <1>1, ScanFrame
          <6>2. QED
            BY <1>1, <4>2, <5>2, <6>1 DEF FromRoot
        <5>3. QED
          BY <4>1, <5>1, <5>2
      <4>4. QED
        BY <1>6, <2>8, <3>1, <4>2, <4>3
    <3>2. CASE b \notin DOMAIN checks
      <4>1. b = bucket /\ checks'[b] = result
        BY <2>6, <3>2
      <4>2. FromRoot(b, checks[b])'
        BY <2>7, <4>1 DEF FromRoot
      <4>3. QED
        BY <2>8, <4>1, <4>2 DEF bucket
    <3>3. QED
      BY <3>1, <3>2
  <2>10. /\ stage' \in {"secrets", "report"} /\ repo.semgrep => <<"semgrep", "">> \in DOMAIN checks'
         /\ stage' = "report" /\ repo.secrets => <<"gitleaks", "">> \in DOMAIN checks'
    BY <1>1, <1>6, <2>6 DEF bucket
  <2>11. AllAnswered'
    BY <1>1, <1>2, <1>6, <2>6, <2>9, <2>10, ScanFrame DEF AllAnswered
  <2>12. QED
    BY <1>1, <1>3, <1>5, <2>8, <2>11 DEF ScanInv, ReportedWhole, PassesAreEarned
<1>10. QED
  BY <1>8, <1>9

(***************************************************************************)
(* The licence verdict of a tree compared with nothing: only a deny.toml of *)
(* the component's own decides it, and cargo-deny named all that fails it. *)
(***************************************************************************)
LEMMA DenyReadsAll ==
  ASSUME NEW allow, NEW crates,
         \A d \in crates : d.package # "" /\ ("?" \in d.licence => d.licence \cap allow = {}),
         NEW run \in DenyLicenceRuns(allow, crates), ~run.cut, ~denyLicenceSet(run).err
  PROVE  denyLicenceSet(run).set = Nonconforming(crates, allow)
<1> DEFINE bad == { d \in crates : d.licence \cap allow = {} }
           stated(d) == [severity |-> "error",
                         code     |-> IF d.licence = Unknown THEN "unlicensed" ELSE "rejected",
                         package  |-> d.package, licence |-> d.licence]
           nameless == [severity |-> "error", code |-> "config", package |-> "", licence |-> Unknown]
<1>1. { e \in crates : ~Readable(e.licence) \/ e.licence \cap allow = {} } = bad
  BY DEF Readable, Unknown
<1>2. Stated(allow, crates) = { stated(d) : d \in bad }
  BY <1>1 DEF Stated
<1>3. ASSUME NEW d \in bad
      PROVE  /\ stated(d).severity = "error" /\ stated(d).package = d.package /\ d.package # ""
             /\ denyLicenceOf(stated(d)) = d.licence
  BY DEF denyLicenceOf
<1> HIDE DEF stated
<1>4. NewSet(rustDependencies(Stated(allow, crates))) = Nonconforming(crates, allow)
  <2> DEFINE named(x) == [package |-> x.package, licence |-> denyLicenceOf(x)]
             all == { stated(d) : d \in bad }
             erring == { x \in all : x.severity = "error" /\ x.package # "" }
             deps == { named(x) : x \in erring }
  <2>1. erring = all
    BY <1>3
  <2>2. ASSUME NEW d \in bad PROVE named(stated(d)) \in deps /\ named(stated(d)).package = d.package
                                   /\ named(stated(d)).licence = d.licence
    BY <1>3, <2>1
  <2>3. ASSUME NEW x \in deps PROVE \E d \in bad : x.package = d.package /\ x.licence = d.licence
    <3>1. PICK y \in erring : x = named(y)
      OBVIOUS
    <3>2. PICK d \in bad : y = stated(d)
      BY <2>1, <3>1
    <3>3. QED
      BY <1>3, <3>1, <3>2
  <2>4. rustDependencies(Stated(allow, crates)) = deps
    BY <1>2 DEF rustDependencies
  <2> HIDE DEF deps, named
  <2>5. NewSet(deps) = { <<d.package, d.licence>> : d \in bad }
    <3>1. ASSUME NEW x \in deps PROVE <<x.package, x.licence>> \in { <<d.package, d.licence>> : d \in bad }
      BY <2>3
    <3>2. ASSUME NEW d \in bad PROVE <<d.package, d.licence>> \in NewSet(deps)
      BY <2>2 DEF NewSet
    <3>3. QED
      BY <3>1, <3>2 DEF NewSet
  <2>6. QED
    BY <2>4, <2>5 DEF Nonconforming
<1>5. /\ ~run.ok => rustDependencies(run.stream) # {}
      /\ denyLicenceSet(run).set = NewSet(rustDependencies(run.stream))
  BY DEF denyLicenceSet, NotRead, Read
<1>6. rustDependencies({nameless}) = {}
  <2>1. nameless.package = ""
    OBVIOUS
  <2> HIDE DEF nameless
  <2>2. { e \in {nameless} : e.severity = "error" /\ e.package # "" } = {}
    BY <2>1
  <2>3. QED
    BY <2>2 DEF rustDependencies
<1>7. \/ run.stream = Stated(allow, crates)
      \/ ~run.ok /\ run.stream = {nameless}
  <2> DEFINE every == Stated(allow, crates)
  <2>1. \/ run = [ok |-> every = {}, stream |-> every, cut |-> FALSE]
        \/ run = [ok |-> FALSE, stream |-> {nameless}, cut |-> FALSE]
        \/ \E part \in SUBSET every : run = [ok |-> FALSE, stream |-> part, cut |-> TRUE]
    BY DEF DenyLicenceRuns
  <2> HIDE DEF every, nameless
  <2>2. CASE run = [ok |-> every = {}, stream |-> every, cut |-> FALSE]
    BY <2>2 DEF every
  <2>3. CASE run = [ok |-> FALSE, stream |-> {nameless}, cut |-> FALSE]
    BY <2>3
  <2>4. ASSUME NEW part, run = [ok |-> FALSE, stream |-> part, cut |-> TRUE] PROVE FALSE
    <3>1. run.cut = TRUE
      BY <2>4
    <3>2. QED
      BY <3>1
  <2>5. QED
    BY <2>1, <2>2, <2>3, <2>4
<1>8. run.stream = Stated(allow, crates)
  BY <1>5, <1>6, <1>7
<1>9. QED
  BY <1>4, <1>5, <1>8

LEMMA LandedLicences ==
  ASSUME ScanInv, stage # "idle", baseSHA = <<>>, NEW n \in DOMAIN licences
  PROVE  \E i \in Components :
           /\ n = Named(i) /\ Disposition(i) = "scan"
           /\ licenceFindings(licences[n]) # {} => licenceGated(i)
           /\ licenceGated(i) /\ ~licenceCrashed(licences[n]) /\ <<"licence", n>> \notin cut =>
                licenceFindings(licences[n]) = TruthOf("licence", Truth(tree, i))
<1>0. PICK i \in LicenceGated : \E current \in CurrentReads(i), base \in BaseAnswers(i) :
         /\ n = Named(i)
         /\ current.cut \/ base.cut => <<"licence", n>> \in cut
         /\ licences[n] = licenceGateFor(i, current.read, base.base)
  BY DEF ScanInv, AllGated
<1>1. PICK current \in CurrentReads(i), base \in BaseAnswers(i) :
         /\ n = Named(i)
         /\ current.cut \/ base.cut => <<"licence", n>> \in cut
         /\ licences[n] = licenceGateFor(i, current.read, base.base)
  BY <1>0
<1>2. i \in Components /\ Disposition(i) = "scan"
  BY DEF LicenceGated
<1>3. Language(i) \in {"go", "rust", "typescript", "shell"} /\ WellFormed(Language(i), Truth(tree, i))
  BY <1>2, ScannedIsFormed DEF ScanInv
<1>4. base.base = NoDiffBase
  BY DEF BaseAnswers, Base
<1> DEFINE v == licences[n]
           read == current.read
           none == Compare(repo.allow, read.set, NoDiffBase)
<1>5. none.verdict = IF Configured(repo.allow) THEN "context" ELSE "not configured"
  BY DEF Compare, Comparison, NoDiffBase
<1>6. ASSUME NEW of
      PROVE  LET g == Gated(read, of)
             IN  /\ licenceCrashed(g) = (read.err \/ of.verdict \in {"unmeasured", "context"})
                 /\ ~read.err => licenceFindings(g) = IF of.verdict = "fail" THEN LicenceFindings(of.pairs) ELSE {}
                 /\ read.err => licenceFindings(g) = {}
  BY DEF Gated, licenceCrashed, licenceFindings, Comparison
<1>7. CASE Language(i) = "shell"
  <2>1. v = noLicenceGate
    BY <1>1, <1>7 DEF licenceGateFor
  <2>2. licenceFindings(v) = {} /\ ~licenceGated(i)
    <3>1. ~v.gated
      <4>1. noLicenceGate.gated = FALSE
        BY DEF noLicenceGate
      <4> HIDE DEF v
      <4>2. QED
        BY <2>1, <4>1
    <3>2. ~licenceGated(i)
      BY <1>7 DEF licenceGated
    <3>3. QED
      BY <3>1, <3>2 DEF licenceFindings
  <2>3. QED
    BY <1>1, <1>2, <2>2
<1>8. CASE Language(i) \in {"go", "typescript"}
  <2>1. v = Gated(read, none)
    BY <1>1, <1>4, <1>8 DEF licenceGateFor, goLicence, typescriptLicence
  <2>2. licenceFindings(v) = {}
    BY <1>5, <1>6, <2>1
  <2>3. licenceGated(i) => licenceCrashed(v)
    BY <1>5, <1>6, <1>8, <2>1 DEF licenceGated
  <2>4. QED
    BY <1>1, <1>2, <2>2, <2>3
<1>9. CASE Language(i) = "rust"
  <2> DEFINE source == Policy(tree, i)
             truth == Truth(tree, i)
             of == licenceVerdict(repo.allow, source, read.set, NoDiffBase)
  <2>1. v = Gated(read, of)
    BY <1>1, <1>4, <1>9 DEF licenceGateFor, rustLicence
  <2>2. licenceGated(i) <=> source # "none"
    BY <1>9 DEF licenceGated, Policy
  <2>3. CASE source = "none"
    <3>1. of.verdict = "not configured"
      BY <2>3 DEF licenceVerdict, Comparison
    <3>2. licenceFindings(v) = {}
      BY <1>6, <2>1, <3>1
    <3>3. QED
      BY <1>1, <1>2, <2>2, <2>3, <3>2
  <2>4. CASE source = "lydite"
    <3>1. of.verdict = "context"
      BY <1>5, <2>4 DEF licenceVerdict, Policy, PolicyFor
    <3>2. licenceCrashed(v) /\ licenceFindings(v) = {}
      BY <1>6, <2>1, <3>1
    <3>3. QED
      BY <1>1, <1>2, <3>2
  <2>5. CASE source = "consumer"
    <3>1. of = Comparison(IF read.set = {} THEN "pass" ELSE "fail", read.set)
      BY <2>5 DEF licenceVerdict
    <3>2. SUFFICES ASSUME ~licenceCrashed(v), ~current.cut
                   PROVE  licenceFindings(v) = TruthOf("licence", truth)
      BY <1>1, <1>2, <2>2, <2>5
    <3>3. ~read.err
      BY <1>6, <2>1, <3>2
    <3>4. licenceFindings(v) = LicenceFindings(read.set)
      <4>1. of.pairs = read.set /\ of.verdict = IF read.set = {} THEN "pass" ELSE "fail"
        BY <3>1 DEF Comparison
      <4>2. licenceFindings(v) = IF of.verdict = "fail" THEN LicenceFindings(of.pairs) ELSE {}
        BY <1>6, <2>1, <3>3
      <4>3. LicenceFindings({}) = {}
        BY DEF LicenceFindings
      <4>4. QED
        BY <4>1, <4>2, <4>3
    <3>5. /\ truth.denyToml # {} /\ truth.carries = truth.ships
          /\ \A d \in truth.ships : d.package # "" /\ ("?" \in d.licence => d.licence \cap Allowed(truth.denyToml) = {})
      <4>1. WellFormed("rust", truth) /\ PolicyFor(truth.denyToml, repo.allow) = "consumer"
        BY <1>3, <1>9, <2>5 DEF Policy
      <4> HIDE DEF truth
      <4>2. truth.denyToml # {}
        BY <4>1 DEF PolicyFor
      <4>3. QED
        BY <4>1, <4>2 DEF WellFormed
    <3>6. PICK here \in BOOLEAN, run \in DenyLicenceRuns(Allowed(truth.denyToml), truth.carries) :
             current = Answered(rustLicenceSet(source, here, run), run.cut)
      BY <1>9, <2>5 DEF CurrentReads, rustReads
    <3>7. read = rustLicenceSet(source, here, run) /\ ~run.cut
      BY <3>2, <3>6 DEF Answered
    <3>8. read = denyLicenceSet(run)
      BY <2>5, <3>3, <3>7 DEF rustLicenceSet, NotRead
    <3>9. read.set = Nonconforming(truth.ships, Allowed(truth.denyToml))
      <4>1. ~denyLicenceSet(run).err
        BY <3>3, <3>8
      <4> HIDE DEF truth, read
      <4>2. denyLicenceSet(run).set = Nonconforming(truth.carries, Allowed(truth.denyToml))
        BY <3>5, <3>6, <3>7, <4>1, DenyReadsAll
      <4>3. QED
        BY <3>5, <3>8, <4>2
    <3>10. QED
      BY <3>4, <3>9 DEF LicenceFindings, TruthOf
  <2>6. QED
    BY <2>3, <2>4, <2>5 DEF Policy, PolicyFor
<1>10. QED
  BY <1>3, <1>7, <1>8, <1>9

(***************************************************************************)
(* The report: each result was earned, and each bucket was answered.       *)
(***************************************************************************)
LEMMA ResultsEarn ==
  ASSUME ScanInv, stage = "report", NEW b \in DOMAIN checks
  PROVE  /\ b = <<b[1], b[2]>> /\ (checks[b].cut => b \in cut)
         /\ \/ \E i \in Components :
                 /\ Disposition(i) = "scan" /\ Named(i) = b[2] /\ b[2] # ""
                 /\ b[1] \in CheckGates(Language(i)) /\ Earns(b[1], Truth(tree, i), checks[b])
            \/ /\ b[2] = "" /\ RootEarns(b[1], checks[b])
               /\ (b[1] = "semgrep" /\ repo.semgrep) \/ (b[1] = "gitleaks" /\ repo.secrets)
<1>1. /\ b = <<b[1], b[2]>> /\ (checks[b].cut => b \in cut)
      /\ FromComponent(b, checks[b]) \/ FromRoot(b, checks[b])
  BY DEF ScanInv, AllAnswered
<1>2. CASE FromComponent(b, checks[b])
  <2>1. PICK i \in Checked : \E results \in checksFor(Language(i), Truth(tree, i)) :
          Named(i) = b[2] /\ b[1] \in CheckGates(Language(i)) /\ checks[b] = results[b[1]]
    BY <1>2 DEF FromComponent
  <2>2. PICK results \in checksFor(Language(i), Truth(tree, i)) :
          Named(i) = b[2] /\ b[1] \in CheckGates(Language(i)) /\ checks[b] = results[b[1]]
    BY <2>1
  <2>3. i \in Components /\ Disposition(i) = "scan"
    BY DEF Checked
  <2>4. /\ Language(i) \in {"go", "rust", "typescript", "shell"} /\ WellFormed(Language(i), Truth(tree, i))
    BY <2>3, ScannedIsFormed DEF ScanInv
  <2>5. Earns(b[1], Truth(tree, i), checks[b])
    BY <2>2, <2>4, ChecksEarn
  <2>6. Named(i) # ""
    BY <2>3, ComponentsOwn DEF ScanInv, ScanShape
  <2>7. QED
    BY <1>1, <2>2, <2>3, <2>5, <2>6
<1>3. CASE FromRoot(b, checks[b])
  <2>1. CASE b = <<"semgrep", "">> /\ repo.semgrep /\ checks[b] \in SemgrepCheck
    BY <1>1, <2>1, SemgrepCheckEarns
  <2>2. CASE b = <<"gitleaks", "">> /\ repo.secrets /\ checks[b] \in SecretsCheck
    BY <1>1, <2>2, SecretsCheckEarns
  <2>3. QED
    BY <1>3, <2>1, <2>2 DEF FromRoot
<1>4. QED
  BY <1>1, <1>2, <1>3

(* Where a passing row comes from.                                           *)
Reportable == declaredRows \cup resultRows(Results(""))
                \cup IF ~ranAnyCheck /\ Results("") = {} THEN {Row("scan", "", "unmeasured")} ELSE {}

LEMMA PassingRows ==
  ASSUME NEW r \in Reportable, r.status = "pass", r.gate # "licence"
  PROVE  \E b \in DOMAIN checks : r.gate = b[1] /\ r.component = b[2] /\ ~checks[b].failed
<1>1. \A gate, component, status :
        /\ Row(gate, component, status).gate = gate
        /\ Row(gate, component, status).component = component
        /\ Row(gate, component, status).status = status
  BY DEF Row
<1>2. ASSUME NEW component, r \in resultRows(Results(component))
      PROVE  \E b \in DOMAIN checks : r.gate = b[1] /\ r.component = b[2] /\ ~checks[b].failed
  <2>1. PICK b \in Results(component) : r = Row(b[1], b[2], IF checks[b].failed THEN "fail" ELSE "pass")
    BY <1>2 DEF resultRows
  <2>2. b \in DOMAIN checks
    BY DEF Results
  <2>3. QED
    BY <1>1, <2>1, <2>2
<1>3. r # Row("scan", "", "unmeasured")
  <2>1. Row("scan", "", "unmeasured").status = "unmeasured"
    BY DEF Row
  <2>2. QED
    BY <2>1
<1>4. CASE r \in declaredRows
  <2>1. PICK i \in Components : r \in componentRows(i)
    BY <1>4 DEF declaredRows
  <2>2. \A x \in unmeasuredRows(i) : x.status = "unmeasured"
    BY <1>1 DEF unmeasuredRows
  <2>3. r \notin unmeasuredRows(i) /\ r # Row("scan", Named(i), "unmeasured")
    BY <1>1, <2>2
  <2>4. r # Row("licence", Named(i), licenceStatus(licences[Named(i)]))
    BY <1>1
  <2>5. r \in resultRows(Results(Named(i)))
    BY <2>1, <2>3, <2>4 DEF componentRows
  <2>6. QED
    BY <1>2, <2>5
<1>5. QED
  BY <1>2, <1>3, <1>4 DEF Reportable

(* Nobody is passed over, but for a language that was switched off.          *)
LEMMA EachIsNamed ==
  /\ \A i \in Components : \/ \E r \in Reportable : r.component = Named(i)
                           \/ Language(i) \in {"go", "rust", "typescript"} /\ ~Enabled(Language(i))
  /\ Reportable # {}
<1>1. \A gate, component, status : Row(gate, component, status).component = component
  BY DEF Row
<1>2. ASSUME NEW i \in Components
      PROVE  \/ \E r \in componentRows(i) : r.component = Named(i)
             \/ Language(i) \in {"go", "rust", "typescript"} /\ ~Enabled(Language(i))
  <2>1. Row("scan", Named(i), "unmeasured") \in unmeasuredRows(i)
    BY DEF unmeasuredRows
  <2>2. CASE Disposition(i) = "unscanned"
    BY <1>1, <2>1, <2>2 DEF componentRows
  <2>3. CASE Disposition(i) = "disabled"
    <3>1. Scanned(Language(i)) /\ ~Enabled(Language(i))
      BY <2>3 DEF Disposition
    <3>2. CASE Language(i) = "shell"
      BY <1>1, <2>1, <2>3, <3>2 DEF componentRows
    <3>3. QED
      BY <3>1, <3>2 DEF Scanned
  <2>4. CASE Disposition(i) = "duplicate"
    BY <1>1, <2>4 DEF componentRows
  <2>5. CASE Disposition(i) \notin {"unscanned", "disabled", "duplicate"}
    <3>1. Row("licence", Named(i), licenceStatus(licences[Named(i)])) \in componentRows(i)
      BY <2>5 DEF componentRows
    <3>2. QED
      BY <1>1, <3>1
  <2>6. QED
    BY <2>2, <2>3, <2>4, <2>5
<1>3. \A i \in Components : componentRows(i) \subseteq Reportable
  BY DEF Reportable, declaredRows
<1>4. Reportable # {}
  <2>1. CASE ~ranAnyCheck /\ Results("") = {}
    BY <2>1 DEF Reportable
  <2>2. CASE ranAnyCheck
    BY <2>2 DEF Reportable, ranAnyCheck
  <2>3. CASE Results("") # {}
    BY <2>3 DEF Reportable, resultRows
  <2>4. QED
    BY <2>1, <2>2, <2>3
<1>5. QED
  BY <1>2, <1>3, <1>4

LEMMA PassesAreReported ==
  ASSUME ScanInv, stage = "report", NEW r \in Reportable, r.status = "pass", r.gate # "licence",
         <<r.gate, r.component>> \notin crashesOf(checks) \cup cut
  PROVE  IF r.component = "" THEN ~FatalAtRoot(r.gate)
         ELSE \A i \in ScannedAs(r.component) : ~Fatal(r.gate, Truth(tree, i))
<1>1. PICK b \in DOMAIN checks : r.gate = b[1] /\ r.component = b[2] /\ ~checks[b].failed
  BY PassingRows
<1>2. /\ b = <<b[1], b[2]>> /\ (checks[b].cut => b \in cut)
      /\ \/ \E i \in Components :
              /\ Disposition(i) = "scan" /\ Named(i) = b[2] /\ b[2] # ""
              /\ b[1] \in CheckGates(Language(i)) /\ Earns(b[1], Truth(tree, i), checks[b])
         \/ b[2] = "" /\ RootEarns(b[1], checks[b])
  BY ResultsEarn
<1>3. ~checks[b].crashed /\ ~checks[b].cut
  BY <1>1, <1>2 DEF crashesOf
<1>4. CASE b[2] = ""
  <2>1. RootEarns(b[1], checks[b])
    BY <1>2, <1>4
  <2>2. QED
    BY <1>1, <1>3, <1>4, <2>1 DEF RootEarns
<1>5. CASE b[2] # ""
  <2>1. PICK i \in Components : Named(i) = b[2] /\ Earns(b[1], Truth(tree, i), checks[b])
    BY <1>2, <1>5
  <2>2. \A j \in ScannedAs(r.component) : j = i
    BY <1>1, <2>1, ComponentsOwn DEF ScannedAs, ScanInv, ScanShape
  <2>3. QED
    BY <1>1, <1>3, <1>5, <2>1, <2>2 DEF Earns
<1>6. QED
  BY <1>4, <1>5

(* The claims of one bucket: its tool's, or its verdict's.                   *)
Claims == (UNION { Claimed(x, checks[x].findings) : x \in DOMAIN checks })
            \cup (UNION { Claimed(<<"licence", n>>, licenceFindings(licences[n])) : n \in LicencesRun })

LEMMA ClaimsInBuckets ==
  ASSUME NEW b
  PROVE  ClaimsOf(Claims, b) = (IF b \in DOMAIN checks THEN checks[b].findings ELSE {})
                                 \cup UNION { licenceFindings(licences[n]) : n \in { m \in DOMAIN licences : b = <<"licence", m>> } }
<1> DEFINE first == UNION { Claimed(x, checks[x].findings) : x \in DOMAIN checks }
           second == UNION { Claimed(<<"licence", n>>, licenceFindings(licences[n])) : n \in DOMAIN licences }
<1>1. \A bucket, of, x : x \in Claimed(bucket, of) <=> \E f \in of : x = <<bucket, f>>
  BY DEF Claimed
<1>2. ClaimsOf(first, b) = IF b \in DOMAIN checks THEN checks[b].findings ELSE {}
  <2>1. ASSUME NEW f PROVE f \in ClaimsOf(first, b) <=> <<b, f>> \in first
    <3>1. \A x \in first : x = <<x[1], x[2]>>
      BY <1>1
    <3>2. QED
      BY <3>1 DEF ClaimsOf
  <2>2. ASSUME NEW f PROVE <<b, f>> \in first <=> b \in DOMAIN checks /\ f \in checks[b].findings
    BY <1>1
  <2>3. QED
    BY <2>1, <2>2
<1>3. ClaimsOf(second, b) = UNION { licenceFindings(licences[n]) : n \in { m \in DOMAIN licences : b = <<"licence", m>> } }
  <2>1. ASSUME NEW x
        PROVE  x \in second <=> \E n \in DOMAIN licences : \E f \in licenceFindings(licences[n]) : x = << <<"licence", n>>, f >>
    <3>1. x \in second <=> \E n \in DOMAIN licences : x \in Claimed(<<"licence", n>>, licenceFindings(licences[n]))
      OBVIOUS
    <3>2. \A n : x \in Claimed(<<"licence", n>>, licenceFindings(licences[n]))
                   <=> \E f \in licenceFindings(licences[n]) : x = << <<"licence", n>>, f >>
      BY <1>1
    <3>3. QED
      BY <3>1, <3>2
  <2> HIDE DEF second
  <2>2. ASSUME NEW f PROVE f \in ClaimsOf(second, b) <=> \E n \in DOMAIN licences : b = <<"licence", n>> /\ f \in licenceFindings(licences[n])
    <3>1. f \in ClaimsOf(second, b) <=> \E x \in second : x[1] = b /\ x[2] = f
      BY DEF ClaimsOf
    <3>2. ASSUME NEW x \in second, x[1] = b, x[2] = f
          PROVE  \E n \in DOMAIN licences : b = <<"licence", n>> /\ f \in licenceFindings(licences[n])
      <4>1. PICK n \in DOMAIN licences : \E g \in licenceFindings(licences[n]) : x = << <<"licence", n>>, g >>
        BY <2>1, <3>2
      <4>2. PICK g \in licenceFindings(licences[n]) : x = << <<"licence", n>>, g >>
        BY <4>1
      <4>3. x[1] = <<"licence", n>> /\ x[2] = g
        BY <4>2
      <4>4. QED
        BY <3>2, <4>3
    <3>3. ASSUME NEW n \in DOMAIN licences, b = <<"licence", n>>, f \in licenceFindings(licences[n])
          PROVE  \E x \in second : x[1] = b /\ x[2] = f
      <4>1. << <<"licence", n>>, f >> \in second
        BY <2>1, <3>3
      <4>2. QED
        BY <3>3, <4>1
    <3>4. QED
      BY <3>1, <3>2, <3>3
  <2>3. QED
    BY <2>2
<1>4. Claims = first \cup second
  BY DEF Claims, LicencesRun
<1> HIDE DEF first, second
<1>5. ClaimsOf(Claims, b) = ClaimsOf(first, b) \cup ClaimsOf(second, b)
  BY <1>4 DEF ClaimsOf
<1>6. QED
  BY <1>2, <1>3, <1>5

Crashed == crashesOf(checks) \cup { <<"licence", n>> : n \in { m \in LicencesRun : licenceCrashed(licences[m]) } }

(* A root bucket is answered where the configuration asks for it.            *)
LEMMA RootsReported ==
  ASSUME ScanInv, stage = "report", baseSHA = <<>>, NEW b \in {<<"semgrep", "">>, <<"gitleaks", "">>}
  PROVE  /\ b \in Counted \ (Crashed \cup cut) => ClaimsOf(Claims, b) = Standing(tree, b)
         /\ ClaimsOf(Claims, b) # {} => b \in Counted
<1> DEFINE enabled == IF b[1] = "semgrep" THEN repo.semgrep ELSE repo.secrets
<1>1. b = <<b[1], "">> /\ b[1] \in {"semgrep", "gitleaks"} /\ b[2] = ""
  <2>1. CASE b = <<"semgrep", "">>
    BY <2>1
  <2>2. CASE b = <<"gitleaks", "">>
    BY <2>2
  <2>3. QED
    BY <2>1, <2>2
<1>2. enabled => b \in DOMAIN checks
  <2>1. CASE b = <<"semgrep", "">>
    BY <2>1 DEF ScanInv, AllAnswered
  <2>2. CASE b = <<"gitleaks", "">>
    BY <2>2 DEF ScanInv, AllAnswered
  <2>3. QED
    BY <2>1, <2>2
<1>3. ASSUME b \in DOMAIN checks
      PROVE  enabled /\ RootEarns(b[1], checks[b]) /\ (checks[b].cut => b \in cut)
  BY <1>1, <1>3, ResultsEarn
<1>4. ClaimsOf(Claims, b) = IF enabled THEN checks[b].findings ELSE {}
  <2>1. ASSUME NEW m, b = <<"licence", m>> PROVE FALSE
    <3>1. b[1] = "licence"
      BY <2>1
    <3>2. QED
      BY <1>1, <3>1
  <2>2. UNION { licenceFindings(licences[n]) : n \in { m \in DOMAIN licences : b = <<"licence", m>> } } = {}
    BY <2>1
  <2>3. QED
    BY <1>2, <1>3, <2>2, ClaimsInBuckets
<1>5. b \in Counted <=> enabled
  <2>1. \A i \in Components : b \notin Seeded(i)
    <3>1. \A i \in Components : Named(i) # ""
      BY ComponentsOwn DEF ScanInv, ScanShape
    <3>2. QED
      BY <1>1, <3>1 DEF Seeded
  <2>2. QED
    BY <2>1 DEF Counted
<1>6. b \in DOMAIN checks /\ b \notin Crashed => ~checks[b].crashed
  BY DEF Crashed, crashesOf
<1>7. QED
  BY <1>1, <1>2, <1>3, <1>4, <1>5, <1>6 DEF RootEarns

(* A component that was not scanned claims nothing, and nothing is held      *)
(* against it.                                                               *)
LEMMA UnscannedReported ==
  ASSUME ScanInv, stage = "report", baseSHA = <<>>, NEW i \in Components, Disposition(i) # "scan",
         NEW b \in FindingGates(Language(i)) \X {Named(i)}
  PROVE  ClaimsOf(Claims, b) = {} /\ Standing(tree, b) = {}
<1>1. b = <<b[1], Named(i)>> /\ b[2] = Named(i) /\ b[1] \in FindingGates(Language(i))
  OBVIOUS
<1>2. \A j, k \in Components : Named(j) # "" /\ (Named(j) = Named(k) => j = k)
  BY ComponentsOwn DEF ScanInv, ScanShape
<1>3. b \notin DOMAIN checks
  <2>1. SUFFICES ASSUME b \in DOMAIN checks PROVE FALSE
    OBVIOUS
  <2>2. \/ \E j \in Components : Disposition(j) = "scan" /\ Named(j) = b[2]
        \/ b[2] = ""
    BY <2>1, ResultsEarn
  <2>3. QED
    BY <1>1, <1>2, <2>2
<1>4. \A n \in DOMAIN licences : b # <<"licence", n>>
  <2>1. SUFFICES ASSUME NEW n \in DOMAIN licences, b = <<"licence", n>> PROVE FALSE
    OBVIOUS
  <2>2. \E j \in Components : n = Named(j) /\ Disposition(j) = "scan"
    BY LandedLicences
  <2>3. QED
    BY <1>1, <1>2, <2>1, <2>2
<1>5. ClaimsOf(Claims, b) = {}
  <2>1. UNION { licenceFindings(licences[n]) : n \in { m \in DOMAIN licences : b = <<"licence", m>> } } = {}
    BY <1>4
  <2>2. QED
    BY <1>3, <2>1, ClaimsInBuckets
<1>6. b[1] \notin {"semgrep", "gitleaks"}
  BY <1>1 DEF FindingGates
<1>7. ScannedAs(b[2]) = {}
  BY <1>1, <1>2 DEF ScannedAs
<1>8. Standing(tree, b) = {}
  BY <1>6, <1>7 DEF Standing
<1>9. QED
  BY <1>5, <1>8

LEMMA ScannedReported ==
  ASSUME ScanInv, stage = "report", baseSHA = <<>>, NEW i \in Components, Disposition(i) = "scan",
         NEW b \in FindingGates(Language(i)) \X {Named(i)}
  PROVE  /\ b \in Counted \ (Crashed \cup cut) => ClaimsOf(Claims, b) = Standing(tree, b)
         /\ ClaimsOf(Claims, b) # {} => b \in Counted
<1>1. b = <<b[1], Named(i)>> /\ b[2] = Named(i) /\ b[1] \in FindingGates(Language(i))
  OBVIOUS
<1>2. \A j, k \in Components : Named(j) # "" /\ (Named(j) = Named(k) => j = k)
  BY ComponentsOwn DEF ScanInv, ScanShape
<1>3. Enabled(Language(i)) /\ Language(i) \in {"go", "rust", "typescript", "shell"}
  BY ScannedIsFormed DEF ScanInv
<1>4. Standing(tree, b) = TruthOf(b[1], Truth(tree, i))
  <2>1. b[1] \notin {"semgrep", "gitleaks"}
    BY <1>1 DEF FindingGates
  <2>2. ScannedAs(b[2]) = {i}
    BY <1>1, <1>2 DEF ScannedAs
  <2>3. QED
    BY <2>1, <2>2 DEF Standing
<1>5. b \in Counted <=> b[1] # "licence" \/ licenceGated(i)
  <2>1. ASSUME NEW j \in Components
        PROVE  b \in Seeded(j) <=> j = i /\ (b[1] # "licence" \/ licenceGated(i))
    <3>1. b \in Seeded(j) <=> /\ b[1] \in FindingGates(Language(j)) /\ (b[1] # "licence" \/ licenceGated(j))
                              /\ b[2] = Named(j)
      BY <1>1 DEF Seeded
    <3>2. QED
      BY <1>1, <1>2, <3>1
  <2>2. b \notin {<<"semgrep", "">>, <<"gitleaks", "">>}
    <3>1. b[2] # ""
      BY <1>1, <1>2
    <3>2. b # <<"semgrep", "">> /\ b # <<"gitleaks", "">>
      <4>1. <<"semgrep", "">>[2] = "" /\ <<"gitleaks", "">>[2] = ""
        OBVIOUS
      <4>2. QED
        BY <3>1, <4>1
    <3>3. QED
      BY <3>2
  <2>3. b \in Counted <=> \E j \in Components : Enabled(Language(j)) /\ b \in Seeded(j)
    BY <2>2 DEF Counted
  <2>4. QED
    BY <1>3, <2>1, <2>3
<1>6. CASE b[1] # "licence"
  <2>1. b[1] \in CheckGates(Language(i)) /\ b[1] # "cargo fmt"
    BY <1>1, <1>3, <1>6 DEF FindingGates, CheckGates
  <2>2. b \in DOMAIN checks
    <3>1. i \in Checked
      BY DEF Checked
    <3>2. <<b[1], Named(i)>> \in DOMAIN checks
      BY <2>1, <3>1 DEF ScanInv, AllAnswered
    <3>3. QED
      BY <1>1, <3>2
  <2>3. Earns(b[1], Truth(tree, i), checks[b]) /\ (checks[b].cut => b \in cut)
    BY <1>1, <1>2, <2>2, ResultsEarn
  <2>4. ClaimsOf(Claims, b) = checks[b].findings
    <3>1. UNION { licenceFindings(licences[n]) : n \in { m \in DOMAIN licences : b = <<"licence", m>> } } = {}
      BY <1>1, <1>6
    <3>2. QED
      BY <2>2, <3>1, ClaimsInBuckets
  <2>5. b \notin Crashed => ~checks[b].crashed
    BY <2>2 DEF Crashed, crashesOf
  <2>6. QED
    BY <1>4, <1>5, <1>6, <2>1, <2>3, <2>4, <2>5 DEF Earns
<1>7. CASE b[1] = "licence"
  <2> DEFINE n == Named(i)
  <2>1. n \in DOMAIN licences
    <3>1. i \in LicenceGated
      BY DEF LicenceGated
    <3>2. QED
      BY <3>1 DEF ScanInv, AllGated
  <2>2. b \notin DOMAIN checks
    <3>1. \A j \in Components : "licence" \notin CheckGates(Language(j))
      BY DEF CheckGates
    <3>2. QED
      BY <1>1, <1>2, <1>7, <3>1, ResultsEarn
  <2>3. ClaimsOf(Claims, b) = licenceFindings(licences[n])
    <3>1. { m \in DOMAIN licences : b = <<"licence", m>> } = {n}
      BY <1>1, <1>7, <2>1
    <3>2. UNION { licenceFindings(licences[m]) : m \in {n} } = licenceFindings(licences[n])
      OBVIOUS
    <3>3. QED
      BY <2>2, <3>1, <3>2, ClaimsInBuckets
  <2>4. /\ licenceFindings(licences[n]) # {} => licenceGated(i)
        /\ licenceGated(i) /\ ~licenceCrashed(licences[n]) /\ <<"licence", n>> \notin cut =>
             licenceFindings(licences[n]) = TruthOf("licence", Truth(tree, i))
    BY <1>2, <2>1, LandedLicences
  <2>5. b \notin Crashed => ~licenceCrashed(licences[n])
    BY <1>1, <1>7, <2>1 DEF Crashed, LicencesRun
  <2>6. QED
    BY <1>1, <1>4, <1>5, <1>7, <2>3, <2>4, <2>5
<1>8. QED
  BY <1>6, <1>7

(* What is true of the tree does not change while it is scanned.             *)
LEMMA TruthStands ==
  ASSUME UNCHANGED <<repo, tree, baseSHA>>
  PROVE  /\ Buckets' = Buckets /\ Counted' = Counted
         /\ \A b : Standing(tree, b)' = Standing(tree, b)
         /\ \A c : ScannedAs(c)' = ScannedAs(c)
         /\ \A gate : FatalAtRoot(gate)' = FatalAtRoot(gate)
<1>1. /\ repo' = repo /\ tree' = tree /\ baseSHA' = baseSHA /\ Components' = Components
      /\ \A i : /\ Named(i)' = Named(i) /\ Language(i)' = Language(i) /\ Dir(i)' = Dir(i)
                /\ Disposition(i)' = Disposition(i) /\ Truth(tree, i)' = Truth(tree, i)
  BY ScanFrame
<1>2. \A c : ScannedAs(c)' = ScannedAs(c)
  BY <1>1 DEF ScannedAs
<1>3. \A b : Standing(tree, b)' = Standing(tree, b)
  BY <1>1, <1>2 DEF Standing
<1>4. Buckets' = Buckets
  BY <1>1 DEF Buckets
<1>5. \A i : Seeded(i)' = Seeded(i)
  BY <1>1 DEF Seeded, licenceGated
<1>6. Counted' = Counted
  BY <1>1, <1>5 DEF Counted, Enabled
<1>7. \A gate : FatalAtRoot(gate)' = FatalAtRoot(gate)
  BY <1>1, <1>3 DEF FatalAtRoot, BaseResults
<1>8. QED
  BY <1>2, <1>3, <1>4, <1>6, <1>7

LEMMA ScanReports ==
  ASSUME ScanInv, Report
  PROVE  ScanInv'
<1>1. /\ stage = "report" /\ stage' = "reported"
      /\ rows' = Reportable /\ claims' = Claims /\ crashed' = Crashed
      /\ UNCHANGED <<repo, main, tree, baseSHA, at, cut>>
  BY DEF Report, Reportable, Claims, Crashed
<1>2. DOMAIN checks' = {} /\ DOMAIN licences' = {}
  <2>1. checks' = <<>> /\ licences' = <<>>
    BY DEF Report
  <2>2. QED
    BY <2>1
<1>3. ScanShape'
  BY <1>1, <1>2, ScanFrame DEF ScanInv, ScanShape, Stages
<1>4. Checked' = {} /\ LicenceGated' = {}
  BY <1>1 DEF Checked, LicenceGated
<1>5. AllAnswered' /\ AllGated'
  BY <1>1, <1>2, <1>4 DEF AllAnswered, AllGated
<1>6. ReportedWhole'
  <2>1. SUFFICES ASSUME baseSHA = <<>>, NEW b \in Buckets
                 PROVE  /\ b \in Counted \ (Crashed \cup cut) => ClaimsOf(Claims, b) = Standing(tree, b)
                        /\ ClaimsOf(Claims, b) # {} => b \in Counted
    BY <1>1, TruthStands DEF ReportedWhole, ClaimsOf
  <2>2. CASE b \in {<<"semgrep", "">>, <<"gitleaks", "">>}
    BY <1>1, <2>1, <2>2, RootsReported
  <2>3. ASSUME NEW i \in Components, b \in FindingGates(Language(i)) \X {Named(i)}
        PROVE  /\ b \in Counted \ (Crashed \cup cut) => ClaimsOf(Claims, b) = Standing(tree, b)
               /\ ClaimsOf(Claims, b) # {} => b \in Counted
    <3>1. CASE Disposition(i) = "scan"
      BY <1>1, <2>1, <2>3, <3>1, ScannedReported
    <3>2. CASE Disposition(i) # "scan"
      BY <1>1, <2>1, <2>3, <3>2, UnscannedReported
    <3>3. QED
      BY <3>1, <3>2
  <2>4. QED
    BY <2>1, <2>2, <2>3 DEF Buckets
<1>7. PassesAreEarned'
  <2>1. ASSUME NEW r \in Reportable, r.status = "pass", r.gate # "licence",
               <<r.gate, r.component>> \notin Crashed \cup cut
        PROVE  IF r.component = "" THEN ~FatalAtRoot(r.gate)
               ELSE \A i \in ScannedAs(r.component) : ~Fatal(r.gate, Truth(tree, i))
    <3>1. <<r.gate, r.component>> \notin crashesOf(checks) \cup cut
      BY <2>1 DEF Crashed
    <3>2. QED
      BY <1>1, <2>1, <3>1, PassesAreReported
  <2>2. /\ \A i \in Components : \/ \E r \in Reportable : r.component = Named(i)
                                 \/ Language(i) \in {"go", "rust", "typescript"} /\ ~Enabled(Language(i))
        /\ Reportable # {}
    BY EachIsNamed
  <2>3. /\ Components' = Components
        /\ \A i : Named(i)' = Named(i) /\ Language(i)' = Language(i) /\ Truth(tree, i)' = Truth(tree, i)
        /\ \A i : Enabled(Language(i))' = Enabled(Language(i))
    BY <1>1, ScanFrame DEF Enabled
  <2>4. /\ \A c : ScannedAs(c)' = ScannedAs(c)
        /\ \A gate : FatalAtRoot(gate)' = FatalAtRoot(gate)
    BY <1>1, TruthStands
  <2>5. \A r \in rows' :
            (r.status = "pass" /\ r.gate # "licence" /\ <<r.gate, r.component>> \notin crashed' \cup cut') =>
               IF r.component = "" THEN ~FatalAtRoot(r.gate)'
               ELSE \A i \in ScannedAs(r.component)' : ~Fatal(r.gate, Truth(tree, i)')
    BY <1>1, <2>1, <2>3, <2>4
  <2>6. QED
    BY <1>1, <2>2, <2>3, <2>5 DEF PassesAreEarned
<1>8. QED
  BY <1>3, <1>5, <1>6, <1>7 DEF ScanInv

(* What is made of a report leaves nothing of the scan behind.               *)
LEMMA ScanEnds ==
  ASSUME ScanInv, Decide \/ \E scanned \in BOOLEAN : Record(scanned)
  PROVE  ScanInv'
<1>1. /\ stage \in {"reported", "failed"} /\ stage' = "idle" /\ main' \in {main, tree}
      /\ UNCHANGED <<repo, tree, at, checks, licences>>
  BY DEF Decide, Record
<1>2. DOMAIN checks = {} /\ DOMAIN licences = {}
  BY <1>1 DEF ScanInv, ScanShape
<1>3. Components' = Components
  BY <1>1 DEF Components
<1>4. ScanShape'
  BY <1>1, <1>2, <1>3 DEF ScanInv, ScanShape, Stages
<1>5. Checked' = {} /\ LicenceGated' = {}
  BY <1>1 DEF Checked, LicenceGated
<1>6. QED
  BY <1>1, <1>2, <1>4, <1>5 DEF ScanInv, AllAnswered, AllGated, ReportedWhole, PassesAreEarned

LEMMA ScanStutters ==
  ASSUME ScanInv, UNCHANGED scanVars
  PROVE  ScanInv'
<1>1. UNCHANGED <<repo, main, tree, baseSHA, stage, at, checks, licences, rows, claims, crashed, cut>>
  BY DEF scanVars
<1>2. ScanShape'
  BY <1>1, ScanFrame DEF ScanInv, ScanShape
<1>3. Checked' = Checked /\ LicenceGated' = LicenceGated
  BY <1>1, ScanFrame DEF Checked, LicenceGated
<1>4. \A b : FromComponent(b, checks[b])' = FromComponent(b, checks[b]) /\ FromRoot(b, checks[b])' = FromRoot(b, checks[b])
  BY <1>1, <1>3, ScanFrame DEF FromComponent, FromRoot
<1>5. AllAnswered'
  BY <1>1, <1>3, <1>4, ScanFrame DEF ScanInv, AllAnswered
<1>6. \A i, c, of : licenceGateFor(i, c, of)' = licenceGateFor(i, c, of)
  BY <1>1 DEF licenceGateFor, goLicence, rustLicence, typescriptLicence, Language, Policy, Truth, Dir
<1>7. AllGated'
  BY <1>1, <1>3, <1>6, ScanFrame DEF ScanInv, AllGated
<1>8. ReportedWhole'
  BY <1>1, TruthStands DEF ScanInv, ReportedWhole, ClaimsOf
<1>9. PassesAreEarned'
  <2>1. /\ Components' = Components
        /\ \A i : Named(i)' = Named(i) /\ Language(i)' = Language(i) /\ Truth(tree, i)' = Truth(tree, i)
        /\ \A i : Enabled(Language(i))' = Enabled(Language(i))
    BY <1>1, ScanFrame DEF Enabled
  <2>2. QED
    BY <1>1, <2>1, TruthStands DEF ScanInv, PassesAreEarned
<1>10. QED
  BY <1>2, <1>5, <1>7, <1>8, <1>9 DEF ScanInv

(***************************************************************************)
(* A scan's results, verdicts and report are those of what it scanned.     *)
(***************************************************************************)
LEMMA ScanSteps == ScanInv /\ [ScanNext]_scanVars => ScanInv'
<1> SUFFICES ASSUME ScanInv, [ScanNext]_scanVars PROVE ScanInv'
  OBVIOUS
<1>1. ASSUME NEW t \in ToSet(repo.trees), ScanChange(t) \/ ScanLanded(t) PROVE ScanInv'
  BY <1>1, ScanBegins DEF ScanChange, ScanLanded
<1>2. CASE Semgrep
  BY <1>2, ScanRoots DEF Semgrep
<1>3. CASE Secrets
  BY <1>3, ScanRoots DEF Secrets
<1>4. QED
  BY <1>1, <1>2, <1>3, ScanGivesUp, ScanChecks, ScanGates, ScanReports, ScanEnds, ScanStutters DEF ScanNext

LEMMA ScanInvariant == ScanSpec => []ScanInv
BY ScanStarts, ScanSteps, PTL DEF ScanSpec

(***************************************************************************)
(* Passes are earned, whatever is declared, scanned and answered: a        *)
(* passing row stands for a tree its tool has nothing to fail over, and    *)
(* no component is passed over in silence (stages/scan/scan.go).           *)
(***************************************************************************)
THEOREM PassesEarned == ScanSpec => []PassesAreEarned
<1>1. ScanInv => PassesAreEarned
  BY DEF ScanInv
<1>2. QED
  BY <1>1, ScanInvariant, PTL

(***************************************************************************)
(* Silence is earned: a recording replaces a bucket's open claims by those *)
(* that stand in what was scanned, or leaves them (record/history.go:69).  *)
(***************************************************************************)
LEMMA RecordingsReplace ==
  ASSUME NEW scanned \in BOOLEAN, Record(scanned), NEW b
  PROVE  ClaimsOf(open', b) = IF b \in findingScope(scanned) THEN ClaimsOf(claims, b) ELSE ClaimsOf(open, b)
<1> DEFINE events == history!findingEvents([scope |-> findingScope(scanned), found |-> claims], open)
           of(transition) == { e.claim : e \in { f \in events : f.transition = transition } }
<1>1. open' = (open \cup of("appeared")) \ of("resolved")
  BY DEF Record
<1>2. \A c : /\ c \in of("appeared") <=> c \in claims \ open /\ c[1] \in findingScope(scanned)
             /\ c \in of("resolved") <=> c \in open \ claims /\ c[1] \in findingScope(scanned)
  <2>1. ASSUME NEW c
        PROVE  /\ [transition |-> "appeared", claim |-> c] \in events <=> c \in claims \ open /\ c[1] \in findingScope(scanned)
               /\ [transition |-> "resolved", claim |-> c] \in events <=> c \in open \ claims /\ c[1] \in findingScope(scanned)
    BY DEF history!findingEvents
  <2>2. \A e \in events : e = [transition |-> e.transition, claim |-> e.claim]
    BY DEF history!findingEvents
  <2> HIDE DEF events
  <2>3. ASSUME NEW c, NEW t PROVE c \in of(t) <=> [transition |-> t, claim |-> c] \in events
    <3>1. c \in of(t) <=> \E e \in events : e.transition = t /\ e.claim = c
      OBVIOUS
    <3>2. QED
      BY <2>2, <3>1
  <2> HIDE DEF of
  <2>4. QED
    BY <2>1, <2>3
<1> HIDE DEF of
<1>3. \A c : c \in open' <=> IF c[1] \in findingScope(scanned) THEN c \in claims ELSE c \in open
  BY <1>1, <1>2
<1>4. QED
  BY <1>3 DEF ClaimsOf

THEOREM SilenceEarned == ScanSpec => SilenceIsEarned
<1> DEFINE A == stage = "reported" /\ open' # open =>
          \A b \in Buckets :
             IF b \in Counted \ crashed
             THEN b \in cut \/ ClaimsOf(open', b) = Standing(tree, b)
             ELSE ClaimsOf(open', b) = ClaimsOf(open, b)
<1>1. ScanInv /\ [ScanNext]_scanVars => [A]_scanVars
  <2>1. SUFFICES ASSUME ScanInv, ScanNext, stage = "reported", open' # open, NEW b \in Buckets
                 PROVE  IF b \in Counted \ crashed
                        THEN b \in cut \/ ClaimsOf(open', b) = Standing(tree, b)
                        ELSE ClaimsOf(open', b) = ClaimsOf(open, b)
    OBVIOUS
  <2>2. PICK scanned \in BOOLEAN : Record(scanned)
    BY <2>1 DEF ScanNext, ScanChange, ScanLanded, Begin, NothingToReport, RunChecks, GateLicences, Semgrep,
                Secrets, Report, Decide
  <2>3. baseSHA = <<>>
    BY <2>2 DEF Record
  <2>4. \A c : ClaimsOf(open', c) = IF c \in findingScope(scanned) THEN ClaimsOf(claims, c) ELSE ClaimsOf(open, c)
    BY <2>2, RecordingsReplace
  <2>5. CASE ~scanned
    <3>1. findingScope(scanned) = {}
      BY <2>5 DEF findingScope, FindingCounts
    <3>2. open' = open
      BY <2>2, <3>1 DEF Record, history!findingEvents
    <3>3. QED
      BY <2>1, <3>2
  <2>6. CASE scanned
    <3>1. /\ b \in Counted \ (crashed \cup cut) => ClaimsOf(claims, b) = Standing(tree, b)
          /\ ClaimsOf(claims, b) # {} => b \in Counted
      BY <2>1, <2>3 DEF ScanInv, ReportedWhole
    <3> DEFINE seeded == UNION { Seeded(i) : i \in { j \in Components : Enabled(Language(j)) } }
               root == { <<g, "">> : g \in { h \in {"semgrep", "gitleaks"} :
                           (h = "semgrep" /\ repo.semgrep) \/ (h = "gitleaks" /\ repo.secrets) } }
               roots == { c \in {<<"semgrep", "">>, <<"gitleaks", "">>} :
                           IF c[1] = "semgrep" THEN repo.semgrep ELSE repo.secrets }
               named == { claim[1] : claim \in { f \in claims : f[1][2] \in { c[2] : c \in seeded } \cup {""} } }
    <3>2. FindingCounts(scanned) = (seeded \cup root) \cup named
      BY <2>6 DEF FindingCounts
    <3>3. b \in Counted <=> b \in seeded \cup root
      <4>1. Counted = seeded \cup roots
        BY DEF Counted
      <4>2. root = roots
        <5>1. ASSUME NEW c
              PROVE  c \in root <=> (c = <<"semgrep", "">> /\ repo.semgrep) \/ (c = <<"gitleaks", "">> /\ repo.secrets)
          <6>1. c \in root <=> \E g \in {"semgrep", "gitleaks"} :
                  c = <<g, "">> /\ ((g = "semgrep" /\ repo.semgrep) \/ (g = "gitleaks" /\ repo.secrets))
            OBVIOUS
          <6> HIDE DEF root
          <6>2. QED
            BY <6>1
        <5>2. ASSUME NEW c
              PROVE  c \in roots <=> (c = <<"semgrep", "">> /\ repo.semgrep) \/ (c = <<"gitleaks", "">> /\ repo.secrets)
          <6>1. c \in roots <=> /\ c = <<"semgrep", "">> \/ c = <<"gitleaks", "">>
                                /\ IF c[1] = "semgrep" THEN repo.semgrep ELSE repo.secrets
            OBVIOUS
          <6> HIDE DEF roots
          <6>2. CASE c = <<"semgrep", "">>
            <7>1. c[1] = "semgrep" /\ c # <<"gitleaks", "">>
              BY <6>2
            <7>2. QED
              BY <6>1, <6>2, <7>1
          <6>3. CASE c = <<"gitleaks", "">>
            <7>1. c[1] = "gitleaks" /\ c # <<"semgrep", "">>
              BY <6>3
            <7>2. QED
              BY <6>1, <6>3, <7>1
          <6>4. QED
            BY <6>1, <6>2, <6>3
        <5> HIDE DEF root, roots
        <5>3. QED
          BY <5>1, <5>2
      <4> HIDE DEF seeded, root, roots
      <4>3. QED
        BY <4>1, <4>2
    <3>4. b \in named => b \in Counted
      <4>1. ASSUME NEW claim \in claims, b = claim[1] PROVE b \in Counted
        BY <3>1, <4>1 DEF ClaimsOf
      <4>2. QED
        BY <4>1
    <3> HIDE DEF seeded, root, roots, named
    <3>5. b \in findingScope(scanned) <=> b \in Counted \ crashed
      BY <3>2, <3>3, <3>4 DEF findingScope
    <3>6. QED
      BY <2>4, <3>1, <3>5
  <2>7. QED
    BY <2>5, <2>6
<1>2. QED
  BY <1>1, ScanInvariant, PTL DEF ScanSpec, SilenceIsEarned

-----------------------------------------------------------------------------
(* Of a set of columns one is the least.                                    *)
Smaller == { ss \in Nat \X Nat : ss[1] < ss[2] }

LEMMA LeastOf ==
  ASSUME NEW S \in SUBSET Nat, S # {}
  PROVE  Min(S) \in S /\ \A y \in S : Min(S) <= y
<1>1. IsWellFoundedOn(Smaller, Nat)
  BY NatLessThanWellFounded DEF OpToRel, Smaller
<1>2. PICK x \in S : \A y \in S : <<y, x>> \notin Smaller
  BY <1>1, WFMin
<1>3. \A y \in S : x <= y
  <2>1. ASSUME NEW y \in S PROVE x <= y
    <3>1. x \in Nat /\ y \in Nat
      OBVIOUS
    <3>2. y < x => <<y, x>> \in Smaller
      BY <3>1 DEF Smaller
    <3>3. QED
      BY <1>2, <3>1, <3>2
  <2>2. QED
    BY <2>1
<1>4. QED
  BY <1>3 DEF Min

(* A line's site ends before the first match of the line.                    *)
LEMMA SitesEndBefore ==
  ASSUME NEW occs, NEW files, FlaggedEverywhere(occs, files), NEW report \in SUBSET occs,
         \A p \in report, q \in occs : q.unit = p.unit => q \in report,
         NEW withholding \in BOOLEAN, NEW o \in sited(report, files, withholding)
  PROVE  ToSet(o.site[3]) \cap Matched(occs, files) = {}
<1> DEFINE before(p) == prefix(files, p, earliestColumn(report, p))
           shown(p) == IF withholding THEN safePrefix(before(p)) ELSE before(p)
<1>1. PICK p \in Located(report) : o = [p EXCEPT !.site = <<p.unit, @, shown(p)>>]
  BY DEF sited
<1>2. /\ p \in report /\ p \in occs /\ p.line > 0 /\ p.line \in Nat
      /\ p = Match(p.site, p.line, p.col, p.unit, p.blocks)
  BY DEF Located, FlaggedEverywhere
<1>3. o.site = <<p.unit, p.site, shown(p)>>
  BY <1>1, <1>2 DEF Match
<1>4. o.site[3] = shown(p)
  BY <1>3
<1>5. shown(p) = before(p) \/ shown(p) = <<>>
  BY DEF safePrefix
<1> HIDE DEF shown, before
<1>6. SUFFICES ASSUME NEW k \in DOMAIN before(p), before(p)[k] \in Matched(occs, files)
               PROVE  FALSE
  BY <1>4, <1>5 DEF ToSet
<1> DEFINE line == files[p.unit][p.line]
           columns == { q.col : q \in { x \in report : x.unit = p.unit /\ x.line = p.line } }
           first == Min(columns)
           last == Min({first - 1, Len(line)})
<1>7. p.unit \in DOMAIN files /\ p.line <= Len(files[p.unit]) /\ before(p) = SubSeq(line, 1, last)
  <2>1. earliestColumn(report, p) = first
    BY DEF earliestColumn
  <2>2. before(p) # <<>>
    BY <1>6
  <2> HIDE DEF first
  <2>3. QED
    BY <2>1, <2>2 DEF before, prefix
<1>8. first \in Nat \ {0} /\ \A y \in columns : first <= y
  <2>1. columns \subseteq Nat \ {0}
    BY DEF FlaggedEverywhere
  <2>2. p.col \in columns
    BY <1>2
  <2> HIDE DEF columns
  <2>3. QED
    BY <2>1, <2>2, LeastOf
<1>9. PICK words : files[p.unit] \in Seq(Seq(words))
  BY <1>7 DEF FlaggedEverywhere
<1>10. p.line \in DOMAIN files[p.unit] /\ line \in Seq(words)
  BY <1>2, <1>7, <1>9
<1>11. last \in Nat /\ last <= first - 1 /\ last <= Len(line)
  <2>1. {first - 1, Len(line)} \in SUBSET Nat
    BY <1>8, <1>10
  <2> HIDE DEF first, line
  <2>2. QED
    BY <2>1, LeastOf
<1> HIDE DEF line, columns, first, last
<1>12. k \in Nat /\ k \in DOMAIN line /\ k < first /\ before(p)[k] = line[k]
  BY <1>6, <1>7, <1>8, <1>10, <1>11
<1>13. PICK q \in occs : q.unit = p.unit /\ q.line = p.line /\ q.col = k
  <2>1. \A u \in DOMAIN files : \A l \in DOMAIN files[u] : \A x \in DOMAIN files[u][l] :
          files[u][l][x] \in Matched(occs, files) => \E y \in occs : y.unit = u /\ y.line = l /\ y.col = x
    BY DEF FlaggedEverywhere
  <2>2. k \in DOMAIN files[p.unit][p.line] /\ files[p.unit][p.line][k] \in Matched(occs, files)
    BY <1>6, <1>12 DEF line
  <2>3. QED
    BY <1>7, <1>10, <2>1, <2>2
<1>14. q.col \in columns
  BY <1>2, <1>13 DEF columns
<1>15. QED
  BY <1>8, <1>12, <1>13, <1>14

LEMMA NumberKeepsSites ==
  ASSUME NEW S, NEW f \in Number(S)
  PROVE  \E o \in S : f[1] = o.site
<1> DEFINE nth(o) == Cardinality({ p \in S : p.site = o.site /\ inSourceOrder(p, o) })
<1>1. PICK o \in S : f = <<o.site, nth(o)>>
  BY DEF Number
<1> HIDE DEF nth
<1>2. QED
  BY <1>1

LEMMA ShellcheckHides ==
  ASSUME NEW truth, FlaggedEverywhere(truth.comments, truth.files),
         NEW results \in ShellCheck(truth), NEW f \in results["shellcheck"].findings
  PROVE  ToSet(f[1][3]) \cap Matched(truth.comments, truth.files) = {}
<1>1. PICK s \in {Uninstalled} \cup UNION { shellCheck(truth, listed) : listed \in BOOLEAN } :
             results = [gate \in {"shellcheck"} |-> s]
  BY DEF ShellCheck
<1>2. f \in s.findings
  BY <1>1
<1>3. s # Uninstalled
  BY <1>2 DEF Uninstalled, Result
<1>4. PICK run \in ShellcheckRuns(truth) : s = shellcheckResult(run, truth.files)
  BY <1>1, <1>3 DEF shellCheck
<1>5. run.report # <<>> /\ f \in shellcheckFindings(run.report[1], truth.files)
  BY <1>2, <1>4 DEF shellcheckResult, Result
<1>6. run.report[1] = { o \in truth.comments : o.unit \notin truth.unread }
  BY <1>5 DEF ShellcheckRuns
<1>7. PICK o \in sited(run.report[1], truth.files, FALSE) : f[1] = o.site
  BY <1>5, NumberKeepsSites DEF shellcheckFindings, shellcheckSites
<1>8. QED
  BY <1>6, <1>7, SitesEndBefore

LEMMA GitleaksHides ==
  ASSUME NEW truth, FlaggedEverywhere(truth.leaks, truth.files),
         NEW run \in GitleaksRuns(truth), NEW scope, NEW f \in gitleaksResult(run, truth, scope).findings
  PROVE  ToSet(f[1][3]) \cap Matched(truth.leaks, truth.files) = {}
<1> DEFINE report == run.report[1]
<1>1. /\ run.report # <<>>
      /\ f \in gitleaksFindings(report, tracked(truth, scope).keep, truth.files)
  BY DEF gitleaksResult, Result
<1>2. \/ report = truth.leaks \/ report = {}
      \/ \E walked : report = { o \in truth.leaks : o.unit \in walked }
  BY <1>1 DEF GitleaksRuns
<1>3. /\ report \subseteq truth.leaks
      /\ \A p \in report, q \in truth.leaks : q.unit = p.unit => q \in report
  BY <1>2
<1> HIDE DEF report
<1>4. PICK o \in sited(report, truth.files, TRUE) : f[1] = o.site
  BY <1>1, NumberKeepsSites DEF gitleaksFindings
<1>5. QED
  BY <1>3, <1>4, SitesEndBefore

LEMMA ClaimsHide ==
  ASSUME TextsAreFlagged, ScanInv, stage = "report",
         NEW b \in DOMAIN checks, b[1] \in {"gitleaks", "shellcheck"}, NEW f \in checks[b].findings
  PROVE  ToSet(f[1][3]) \cap MatchedIn(b) = {}
<1>0. repo \in Repos /\ tree \in ToSet(repo.trees)
  BY DEF ScanInv, ScanShape
<1>1. CASE FromComponent(b, checks[b])
  <2>1. PICK i \in Checked : \E results \in checksFor(Language(i), Truth(tree, i)) :
          Named(i) = b[2] /\ b[1] \in CheckGates(Language(i)) /\ checks[b] = results[b[1]]
    BY <1>1 DEF FromComponent
  <2>2. PICK results \in checksFor(Language(i), Truth(tree, i)) :
          Named(i) = b[2] /\ b[1] \in CheckGates(Language(i)) /\ checks[b] = results[b[1]]
    BY <2>1
  <2>3. i \in Components /\ Disposition(i) = "scan"
    BY DEF Checked
  <2>4. b[1] = "shellcheck" /\ Language(i) = "shell"
    BY <2>2 DEF CheckGates
  <2>5. FlaggedEverywhere(Truth(tree, i).comments, Truth(tree, i).files)
    <3>1. Enabled("shell") /\ Dir(i) \in DOMAIN tree.at
      BY <2>3, <2>4, ScannedIsFormed DEF ScanInv, ScanShape
    <3>2. repo.components[i] \in ToSet(repo.components)
      BY <2>3 DEF Components, ToSet
    <3>3. QED
      BY <1>0, <2>4, <3>1, <3>2 DEF TextsAreFlagged, Enabled, Language, Dir, Truth
  <2>6. ToSet(f[1][3]) \cap Matched(Truth(tree, i).comments, Truth(tree, i).files) = {}
    <3>1. results \in ShellCheck(Truth(tree, i))
      BY <2>2, <2>4 DEF checksFor
    <3>2. f \in results["shellcheck"].findings
      BY <2>2, <2>4
    <3>3. QED
      BY <2>5, <3>1, <3>2, ShellcheckHides
  <2>7. ScannedAs(b[2]) = {i}
    <3>1. \A j, k \in Components : Named(j) = Named(k) => j = k
      BY <1>0, ComponentsOwn
    <3>2. QED
      BY <2>2, <2>3, <3>1 DEF ScannedAs
  <2>8. MatchedIn(b) = Matched(Truth(tree, i).comments, Truth(tree, i).files)
    BY <2>4, <2>7 DEF MatchedIn
  <2>9. QED
    BY <2>6, <2>8
<1>2. CASE FromRoot(b, checks[b])
  <2>1. b = <<"gitleaks", "">> /\ repo.secrets /\ checks[b] \in SecretsCheck
    <3>1. b # <<"semgrep", "">>
      <4>1. <<"semgrep", "">>[1] = "semgrep"
        OBVIOUS
      <4>2. QED
        BY <4>1
    <3>2. QED
      BY <1>2, <3>1 DEF FromRoot
  <2>2. checks[b] # Uninstalled
    BY DEF Uninstalled, Result
  <2>3. PICK run \in GitleaksRuns(tree.secrets), scope \in Scopes(tree.secrets) :
               checks[b] = gitleaksResult(run, tree.secrets, scope)
    <3>1. checks[b] \in SecretsCheck \ {Uninstalled}
      BY <2>1, <2>2
    <3>2. QED
      BY <3>1 DEF SecretsCheck
  <2>4. FlaggedEverywhere(tree.secrets.leaks, tree.secrets.files)
    BY <1>0, <2>1 DEF TextsAreFlagged
  <2>5. ToSet(f[1][3]) \cap Matched(tree.secrets.leaks, tree.secrets.files) = {}
    BY <2>3, <2>4, GitleaksHides
  <2>6. MatchedIn(b) = Matched(tree.secrets.leaks, tree.secrets.files)
    BY <2>1 DEF MatchedIn
  <2>7. QED
    BY <2>5, <2>6
<1>3. QED
  BY <1>1, <1>2 DEF ScanInv, AllAnswered

LEMMA SitesStep ==
  ASSUME TextsAreFlagged, ScanInv, SitesHoldNoMatch, [ScanNext]_scanVars
  PROVE  SitesHoldNoMatch'
<1>1. CASE UNCHANGED scanVars
  <2>1. UNCHANGED <<repo, tree, baseSHA, stage, claims>>
    BY <1>1 DEF scanVars
  <2>2. \A b : MatchedIn(b)' = MatchedIn(b)
    BY <2>1, ScanFrame, TruthStands DEF MatchedIn
  <2>3. QED
    BY <2>1, <2>2 DEF SitesHoldNoMatch
<1>2. CASE Report
  <2>1. stage = "report" /\ claims' = Claims
    BY <1>2 DEF Report, Claims
  <2>2. \A b : MatchedIn(b)' = MatchedIn(b)
    <3>1. UNCHANGED <<repo, tree, baseSHA>>
      BY <1>2 DEF Report
    <3>2. QED
      BY <3>1, ScanFrame, TruthStands DEF MatchedIn
  <2>3. ASSUME NEW c \in Claims, c[1][1] \in {"gitleaks", "shellcheck"}
        PROVE  ToSet(c[2][1][3]) \cap MatchedIn(c[1]) = {}
    <3>1. CASE \E b \in DOMAIN checks : c \in Claimed(b, checks[b].findings)
      BY <2>1, <2>3, <3>1, ClaimsHide DEF Claimed
    <3>2. CASE \E n \in LicencesRun : c \in Claimed(<<"licence", n>>, licenceFindings(licences[n]))
      <4>1. PICK n : c \in Claimed(<<"licence", n>>, licenceFindings(licences[n]))
        BY <3>2
      <4>2. c[1] = <<"licence", n>>
        BY <4>1 DEF Claimed
      <4>3. QED
        BY <2>3, <4>2
    <3>3. QED
      BY <3>1, <3>2 DEF Claims
  <2>4. QED
    BY <2>1, <2>2, <2>3 DEF SitesHoldNoMatch
<1>3. CASE ScanNext /\ ~Report
  <2>1. stage' # "reported"
    BY <1>3 DEF ScanNext, ScanChange, ScanLanded, Begin, NothingToReport, RunChecks, GateLicences, Semgrep,
                Secrets, Record, Decide, Advance
  <2>2. QED
    BY <2>1 DEF SitesHoldNoMatch
<1>4. QED
  BY <1>1, <1>2, <1>3

(***************************************************************************)
(* Sites hold no match, where what is matched is matched wherever it       *)
(* stands (secrets/findings.go:334, shell/findings.go:61).                 *)
(***************************************************************************)
THEOREM SitesAreClear ==
  ASSUME TextsAreFlagged
  PROVE  ScanSpec => []SitesHoldNoMatch
<1>1. ScanInit => SitesHoldNoMatch
  BY DEF ScanInit, SitesHoldNoMatch
<1>2. ScanInv /\ SitesHoldNoMatch /\ [ScanNext]_scanVars => SitesHoldNoMatch'
  BY SitesStep
<1>3. QED
  BY <1>1, <1>2, ScanInvariant, PTL DEF ScanSpec

-----------------------------------------------------------------------------
(***************************************************************************)
(* What is rejected of a set of dependencies is what does not conform of   *)
(* the shipped ones, where the set is theirs.                              *)
(***************************************************************************)
LEMMA RejectsNonconforming ==
  ASSUME NEW allow, allow # {}, NEW deps, NEW ships, NewSet(deps) = NewSet(ships),
         \A d \in ships : "?" \notin d.licence
  PROVE  Reject(allow, deps) = Nonconforming(ships, allow)
<1>1. ASSUME NEW d \in deps PROVE \E s \in ships : s.package = d.package /\ s.licence = d.licence
  <2>1. <<d.package, d.licence>> \in NewSet(ships)
    BY DEF NewSet
  <2>2. QED
    BY <2>1 DEF NewSet
<1>2. ASSUME NEW s \in ships PROVE \E d \in deps : s.package = d.package /\ s.licence = d.licence
  <2>1. <<s.package, s.licence>> \in NewSet(deps)
    BY DEF NewSet
  <2>2. QED
    BY <2>1 DEF NewSet
<1>3. ASSUME NEW d \in deps
      PROVE  /\ Evaluate(allow, d) = "rejected" <=> (d.licence # Unknown /\ d.licence \cap allow = {})
             /\ Evaluate(allow, d) = "unclassifiable" <=> d.licence = Unknown
  <2>1. "?" \notin d.licence
    BY <1>1
  <2>2. QED
    BY <2>1 DEF Evaluate, Configured, Readable
<1> DEFINE rejected == { d \in deps : Evaluate(allow, d) = "rejected" }
           nameless == { d \in deps : Evaluate(allow, d) = "unclassifiable" }
           bad == { s \in ships : s.licence \cap allow = {} }
<1>4. Reject(allow, deps) = { <<d.package, d.licence>> : d \in rejected } \cup { <<d.package, Unknown>> : d \in nameless }
  BY DEF Reject, NewSet
<1>5. ASSUME NEW d \in rejected PROVE <<d.package, d.licence>> \in { <<s.package, s.licence>> : s \in bad }
  <2>1. PICK s \in ships : s.package = d.package /\ s.licence = d.licence
    BY <1>1
  <2>2. s \in bad
    BY <1>3, <2>1
  <2>3. QED
    BY <2>1, <2>2
<1>6. ASSUME NEW d \in nameless PROVE <<d.package, Unknown>> \in { <<s.package, s.licence>> : s \in bad }
  <2>1. PICK s \in ships : s.package = d.package /\ s.licence = d.licence
    BY <1>1
  <2>2. s \in bad /\ s.licence = Unknown
    BY <1>3, <2>1 DEF Unknown
  <2>3. QED
    BY <2>1, <2>2
<1>7. ASSUME NEW s \in bad PROVE <<s.package, s.licence>> \in Reject(allow, deps)
  <2>1. PICK d \in deps : s.package = d.package /\ s.licence = d.licence
    BY <1>2
  <2>2. CASE d.licence = Unknown
    BY <1>3, <1>4, <2>1, <2>2
  <2>3. CASE d.licence # Unknown
    BY <1>3, <1>4, <2>1, <2>3
  <2>4. QED
    BY <2>2, <2>3
<1>8. Nonconforming(ships, allow) = { <<s.package, s.licence>> : s \in bad }
  BY DEF Nonconforming
<1> HIDE DEF rejected, nameless, bad
<1>9. QED
  BY <1>4, <1>5, <1>6, <1>7, <1>8

(***************************************************************************)
(* What each reader answers, if it answers, of a component in a tree.      *)
(***************************************************************************)
Told(t, i, a) == a.cut \/ a.read.err \/ a.read.set = Nonconforming(Truth(t, i).ships, repo.allow)

LEMMA ReaderIsTold ==
  ASSUME ReadersTell, repo \in Repos, NEW t \in ToSet(repo.trees), NEW i \in Components,
         Compares(i), Enabled(Language(i)), Dir(i) \in DOMAIN t.at
  PROVE  ReaderTells(Language(i), t, Dir(i)) /\ WellFormed(Language(i), Truth(t, i)) /\ repo.allow # {}
<1>1. repo.components[i] \in ToSet(repo.components)
  BY DEF Components, ToSet
<1>2. repo.components[i].lang \in repo.enabled \cap {"go", "rust", "typescript"} /\ Configured(repo.allow)
  BY DEF Compares, Enabled, Language
<1>3. ReaderTells(Language(i), t, Dir(i))
  BY <1>1, <1>2 DEF ReadersTell, Language, Dir
<1>4. WellFormed(Language(i), Truth(t, i))
  BY <1>1, <1>2, ScanAssumption DEF Language, Dir, Truth
<1>5. QED
  BY <1>2, <1>3, <1>4 DEF Configured

LEMMA GoIsTold ==
  ASSUME NEW t, NEW i, Language(i) = "go", repo.allow # {}, ReaderTells("go", t, Dir(i)), NEW a \in goReads(t, i)
  PROVE  Told(t, i, a)
<1>1. PICK run \in GoListRuns(Truth(t, i).pkgs) : a = Answered(goLicenceSet(run, repo.allow), FALSE)
  BY DEF goReads
<1>2. a.read = goLicenceSet(run, repo.allow)
  BY <1>1 DEF Answered
<1>3. /\ \A d \in Truth(t, i).ships : "?" \notin d.licence
      /\ NewSet(goDependencies(Truth(t, i).pkgs)) = NewSet(Truth(t, i).ships)
  BY DEF ReaderTells, Truth
<1>4. CASE run.ok
  <2>1. run.pkgs = Truth(t, i).pkgs
    BY <1>4 DEF GoListRuns
  <2>2. a.read.set = Reject(repo.allow, goDependencies(Truth(t, i).pkgs))
    BY <1>2, <1>4, <2>1 DEF goLicenceSet, Read
  <2>3. QED
    BY <1>3, <2>2, RejectsNonconforming DEF Told
<1>5. CASE ~run.ok
  BY <1>2, <1>5 DEF goLicenceSet, NotRead, Told
<1>6. QED
  BY <1>4, <1>5

LEMMA RustIsTold ==
  ASSUME NEW t, NEW i, Language(i) = "rust", repo.allow # {}, ReaderTells("rust", t, Dir(i)),
         WellFormed("rust", Truth(t, i)), NEW a \in rustReads(t, i)
  PROVE  Told(t, i, a)
<1>1. Policy(t, i) = "lydite"
  BY DEF Policy, PolicyFor, Configured
<1>2. PICK here \in BOOLEAN, run \in DenyLicenceRuns(repo.allow, Truth(t, i).carries) :
        a = Answered(rustLicenceSet("lydite", here, run), run.cut)
  BY <1>1 DEF rustReads
<1>3. a.read = rustLicenceSet("lydite", here, run) /\ a.cut = run.cut
  BY <1>2 DEF Answered
<1>4. /\ Truth(t, i).carries = Truth(t, i).ships
      /\ \A d \in Truth(t, i).ships : d.package # "" /\ "?" \notin d.licence
  BY DEF WellFormed, ReaderTells, Truth
<1>5. CASE ~here
  <2>1. a.read = NotRead
    BY <1>3, <1>5 DEF rustLicenceSet
  <2>2. QED
    BY <2>1 DEF NotRead, Told
<1>6. CASE here
  <2>1. a.read = denyLicenceSet(run)
    BY <1>3, <1>6 DEF rustLicenceSet
  <2>2. run.cut \/ denyLicenceSet(run).err
          \/ denyLicenceSet(run).set = Nonconforming(Truth(t, i).carries, repo.allow)
    BY <1>4, DenyReadsAll
  <2>3. QED
    BY <1>3, <1>4, <2>1, <2>2 DEF Told
<1>7. QED
  BY <1>5, <1>6

(* A checkout nothing was installed in is read as the other, or not at all.  *)
LEMMA TypescriptIsTold ==
  ASSUME NEW t, NEW i, Language(i) = "typescript", repo.allow # {}, ReaderTells("typescript", t, Dir(i)),
         NEW checkout \in {t.checkout, [t.checkout EXCEPT !.install = FALSE]},
         NEW a \in typescriptReads(checkout, i)
  PROVE  Told(t, i, a)
<1> DEFINE dir == Dir(i)
           ships == Truth(t, i).ships
           root == WorkspaceRoot(t.checkout.lockfiles, dir)
           member == SubSeq(dir, Len(root[1]) + 1, Len(dir))
           read == lockfileDependencies(t.checkout.lock, member)
           onDisk == installedDependencies(t.checkout.installed)
           answer == typescriptLicenceSet(checkout, dir, repo.allow)
           tells(deps) == NewSet(deps) = NewSet(ships)
<1>1. a.read = answer
  BY DEF typescriptReads, Answered
<1>2. /\ DOMAIN t.checkout = {"lockfiles", "lock", "install", "installed"}
      /\ \A d \in ships : "?" \notin d.licence
      /\ (root # <<>> /\ t.checkout.lockfiles[root[1]] = {"npm"}) => read.err \/ tells(read.set)
      /\ (root # <<>> /\ t.checkout.lockfiles[root[1]] # {"npm"} /\ member = <<>> /\ t.checkout.install) =>
           tells(onDisk)
  BY DEF ReaderTells, Truth
<1>3. /\ checkout.lockfiles = t.checkout.lockfiles /\ checkout.lock = t.checkout.lock
      /\ checkout.installed = t.checkout.installed /\ (checkout.install => t.checkout.install)
  BY <1>2
<1>4. answer = IF root = <<>> THEN NotRead
               ELSE IF t.checkout.lockfiles[root[1]] = {"npm"}
               THEN IF read.err THEN NotRead ELSE Read(Reject(repo.allow, read.set))
               ELSE IF member # <<>> \/ ~checkout.install THEN NotRead
               ELSE Read(Reject(repo.allow, onDisk))
  BY <1>3 DEF typescriptLicenceSet
<1>5. \A deps : tells(deps) => Reject(repo.allow, deps) = Nonconforming(ships, repo.allow)
  BY <1>2, RejectsNonconforming
<1>6. NotRead.err /\ \A set : Read(set).set = set
  BY DEF NotRead, Read
<1> HIDE DEF ships, root, member, read, onDisk, answer, tells
<1>7. answer.err \/ answer.set = Nonconforming(ships, repo.allow)
  BY <1>2, <1>3, <1>4, <1>5, <1>6
<1>8. QED
  BY <1>1, <1>7 DEF Told, ships

(* The tree compared with is one of the repository's.                        *)
BaseKnown == baseSHA = <<>> \/ baseSHA[1] \in ToSet(repo.trees)

LEMMA LicenceBasesKnown ==
  ASSUME ScanInv, BaseKnown, [ScanNext]_scanVars
  PROVE  BaseKnown'
<1>1. ASSUME NEW t, ScanChange(t) PROVE BaseKnown'
  <2>1. baseSHA' = <<main>> /\ repo' = repo /\ main \in ToSet(repo.trees)
    BY <1>1 DEF ScanChange, Begin, ScanInv, ScanShape
  <2>2. <<main>>[1] = main
    OBVIOUS
  <2>3. QED
    BY <2>1, <2>2 DEF BaseKnown
<1>2. ASSUME NEW t, ScanLanded(t) PROVE BaseKnown'
  BY <1>2 DEF ScanLanded, Begin, BaseKnown
<1>3. CASE UNCHANGED <<repo, baseSHA>>
  BY <1>3 DEF BaseKnown
<1>4. QED
  BY <1>1, <1>2, <1>3 DEF ScanNext, NothingToReport, RunChecks, GateLicences, Semgrep, Secrets, RootScan,
                          Report, Record, Decide, scanVars

(* What a component shipped before is what its base was measured to hold.    *)
LEMMA BasesAreTold ==
  ASSUME ReadersTell, ScanInv, BaseKnown, NEW i \in Components, Disposition(i) = "scan",
         Compares(i), baseSHA # <<>>, NEW base \in BaseAnswers(i), ~base.cut
  PROVE  \/ base.base = UnmeasuredBase
         \/ base.base = MeasuredBase(Nonconforming(ShippedBefore(i), repo.allow))
<1> DEFINE t == baseSHA[1]
<1>1. t \in ToSet(repo.trees) /\ repo \in Repos /\ Enabled(Language(i))
  BY DEF BaseKnown, ScanInv, ScanShape, Disposition
<1>2. CASE base = Base(UnmeasuredBase, FALSE, "open")
  BY <1>2 DEF Base
<1>3. CASE base \in BasesIn(t, i) /\ Dir(i) \notin DOMAIN t.at
  <2>1. base.base = MeasuredBase({})
    BY <1>3 DEF BasesIn, Base
  <2>2. Nonconforming(ShippedBefore(i), repo.allow) = {}
    BY <1>3 DEF Nonconforming, ShippedBefore
  <2>3. QED
    BY <2>1, <2>2
<1>4. CASE base \in BasesIn(t, i) /\ Dir(i) \in DOMAIN t.at
  <2>1. PICK a \in BaseReads(t, i) : base = Base(baseOf(a.read), a.cut, "open")
    BY <1>4 DEF BasesIn
  <2>2. base.base = baseOf(a.read) /\ ~a.cut
    BY <2>1 DEF Base
  <2>3. ReaderTells(Language(i), t, Dir(i)) /\ WellFormed(Language(i), Truth(t, i)) /\ repo.allow # {}
    BY <1>1, <1>4, ReaderIsTold
  <2>4. Told(t, i, a)
    <3>1. CASE Language(i) = "go"
      BY <2>3, <3>1, GoIsTold DEF BaseReads
    <3>2. CASE Language(i) = "rust"
      BY <2>3, <3>2, RustIsTold DEF BaseReads
    <3>3. CASE Language(i) = "typescript"
      BY <2>3, <3>3, TypescriptIsTold DEF BaseReads
    <3>4. QED
      BY <3>1, <3>2, <3>3 DEF Compares
  <2>5. ShippedBefore(i) = Truth(t, i).ships
    BY <1>4 DEF ShippedBefore
  <2>6. CASE a.read.err
    BY <2>2, <2>6 DEF baseOf
  <2>7. CASE ~a.read.err
    BY <2>2, <2>4, <2>5, <2>7 DEF baseOf, Told
  <2>8. QED
    BY <2>6, <2>7
<1>5. QED
  BY <1>2, <1>3, <1>4 DEF BaseAnswers

(* And what it ships now is what was read of the tree.                       *)
LEMMA CurrentsAreTold ==
  ASSUME ReadersTell, ScanInv, stage # "idle", NEW i \in Components, Disposition(i) = "scan",
         Compares(i), NEW current \in CurrentReads(i)
  PROVE  Told(tree, i, current)
<1>1. tree \in ToSet(repo.trees) /\ repo \in Repos /\ Enabled(Language(i)) /\ Dir(i) \in DOMAIN tree.at
  BY DEF ScanInv, ScanShape, Disposition
<1>2. ReaderTells(Language(i), tree, Dir(i)) /\ WellFormed(Language(i), Truth(tree, i)) /\ repo.allow # {}
  BY <1>1, ReaderIsTold
<1>3. CASE Language(i) = "go"
  BY <1>2, <1>3, GoIsTold DEF CurrentReads, Configured
<1>4. CASE Language(i) = "rust"
  BY <1>2, <1>4, RustIsTold DEF CurrentReads
<1>5. CASE Language(i) = "typescript"
  BY <1>2, <1>5, TypescriptIsTold DEF CurrentReads, Configured
<1>6. QED
  BY <1>3, <1>4, <1>5 DEF Compares

(***************************************************************************)
(* The verdict a licence row states, where it passes or fails.             *)
(***************************************************************************)
VerdictIsTheChange(i, status) ==
    LET truth == Truth(tree, i)
        introduced == IF repo.allow # {}
                      THEN Nonconforming(truth.ships, repo.allow) \ Nonconforming(ShippedBefore(i), repo.allow)
                      ELSE Nonconforming(truth.ships, Allowed(truth.denyToml))
    IN  /\ (status = "fail") = (introduced # {})
        /\ repo.allow # {} => baseSHA # <<>>

LEMMA StatusOfVerdict ==
  ASSUME NEW current, NEW of
  PROVE  licenceStatus(Gated(current, of)) =
           IF current.err THEN "unmeasured"
           ELSE IF of.verdict \in {"context", "not configured"} THEN "context" ELSE of.verdict
<1> DEFINE v == Gated(current, of)
<1>1. v.gated /\ (v.err <=> current.err) /\ (~current.err => v.of = of)
  BY DEF Gated
<1> HIDE DEF v
<1>2. CASE current.err
  <2>1. ~v.gated \/ v.err
    BY <1>1, <1>2
  <2>2. ~(v.gated /\ ~v.err /\ v.of.verdict \in {"context", "not configured"})
    BY <1>1, <1>2
  <2>3. licenceStatus(v) = "unmeasured"
    BY <2>1, <2>2 DEF licenceStatus
  <2>4. QED
    BY <1>2, <2>3 DEF v
<1>3. CASE ~current.err
  <2>1. ~(~v.gated \/ v.err) /\ v.of.verdict = of.verdict
    BY <1>1, <1>3
  <2>2. v.gated /\ ~v.err
    BY <2>1
  <2>3. licenceStatus(v) = IF of.verdict \in {"context", "not configured"} THEN "context" ELSE of.verdict
    BY <2>1, <2>2 DEF licenceStatus
  <2>4. QED
    BY <1>3, <2>3 DEF v
<1>4. QED
  BY <1>2, <1>3

(* Where a policy compares, against what the base held.                      *)
LEMMA ComparedIsTheChange ==
  ASSUME ReadersTell, ScanInv, BaseKnown, stage # "idle", NEW i \in Components, Disposition(i) = "scan",
         Compares(i), NEW current \in CurrentReads(i), NEW base \in BaseAnswers(i), ~current.cut, ~base.cut,
         NEW status, status = licenceStatus(Gated(current.read, Compare(repo.allow, current.read.set, base.base))),
         status \in {"pass", "fail"}
  PROVE  VerdictIsTheChange(i, status)
<1> DEFINE of == Compare(repo.allow, current.read.set, base.base)
           before == Nonconforming(ShippedBefore(i), repo.allow)
           ships == Nonconforming(Truth(tree, i).ships, repo.allow)
<1>1. repo.allow # {} /\ Configured(repo.allow)
  BY DEF Compares, Configured
<1>2. ~current.read.err /\ of.verdict = status
  BY StatusOfVerdict
<1>3. current.read.set = ships
  BY <1>2, CurrentsAreTold DEF Told
<1>4. baseSHA # <<>>
  <2>1. SUFFICES ASSUME baseSHA = <<>> PROVE FALSE
    OBVIOUS
  <2>2. base.base = NoDiffBase
    BY <2>1 DEF BaseAnswers, Base
  <2>3. of.verdict = "context"
    BY <1>1, <2>2 DEF Compare, NoDiffBase, Comparison
  <2>4. QED
    BY <1>2, <2>3
<1>5. base.base = UnmeasuredBase \/ base.base = MeasuredBase(before)
  BY <1>4, BasesAreTold
<1>6. base.base # UnmeasuredBase
  <2>1. base.base = UnmeasuredBase => of.verdict = "unmeasured"
    BY <1>1 DEF Compare, UnmeasuredBase, Comparison
  <2>2. QED
    BY <1>2, <2>1
<1>7. of.verdict = IF ships \ before = {} THEN "pass" ELSE "fail"
  <2>1. base.base.state = "measured" /\ base.base.set = before
    BY <1>5, <1>6 DEF MeasuredBase
  <2> HIDE DEF ships, before
  <2>2. QED
    BY <1>1, <1>3, <2>1 DEF Compare, Comparison, Without
<1>8. QED
  BY <1>1, <1>2, <1>4, <1>7 DEF VerdictIsTheChange

LEMMA LicencesAreTheChange ==
  ASSUME ReadersTell, ScanInv, BaseKnown, stage # "idle", NEW n \in DOMAIN licences, <<"licence", n>> \notin cut,
         licenceStatus(licences[n]) \in {"pass", "fail"}
  PROVE  \E i \in Components : n = Named(i) /\ VerdictIsTheChange(i, licenceStatus(licences[n]))
<1>0. PICK i \in LicenceGated : \E current \in CurrentReads(i), base \in BaseAnswers(i) :
         /\ n = Named(i)
         /\ current.cut \/ base.cut => <<"licence", n>> \in cut
         /\ licences[n] = licenceGateFor(i, current.read, base.base)
  BY DEF ScanInv, AllGated
<1>1. PICK current \in CurrentReads(i), base \in BaseAnswers(i) :
         /\ n = Named(i)
         /\ current.cut \/ base.cut => <<"licence", n>> \in cut
         /\ licences[n] = licenceGateFor(i, current.read, base.base)
  BY <1>0
<1>2. i \in Components /\ Disposition(i) = "scan" /\ ~current.cut /\ ~base.cut
  BY <1>1 DEF LicenceGated
<1>3. Language(i) \in {"go", "rust", "typescript", "shell"} /\ WellFormed(Language(i), Truth(tree, i))
  BY <1>2, ScannedIsFormed DEF ScanInv
<1> DEFINE v == licences[n]
           read == current.read
           compared == Compare(repo.allow, read.set, base.base)
<1>4. Language(i) # "shell"
  <2>1. SUFFICES ASSUME Language(i) = "shell" PROVE FALSE
    OBVIOUS
  <2>2. v = noLicenceGate
    BY <1>1, <2>1 DEF licenceGateFor
  <2>3. noLicenceGate.gated = FALSE
    BY DEF noLicenceGate
  <2> HIDE DEF v
  <2>4. licenceStatus(v) = "unmeasured"
    BY <2>2, <2>3 DEF licenceStatus
  <2>5. QED
    BY <2>4 DEF v
<1>5. CASE Language(i) \in {"go", "typescript"}
  <2>1. v = Gated(read, compared)
    BY <1>1, <1>5 DEF licenceGateFor, goLicence, typescriptLicence
  <2>2. Configured(repo.allow)
    <3>1. SUFFICES ASSUME ~Configured(repo.allow) PROVE FALSE
      OBVIOUS
    <3>2. compared.verdict = "not configured"
      BY <3>1 DEF Compare, Comparison
    <3>3. licenceStatus(v) \in {"unmeasured", "context"}
      BY <2>1, <3>2, StatusOfVerdict
    <3>4. QED
      BY <3>3
  <2>3. Compares(i)
    BY <1>5, <2>2 DEF Compares
  <2>4. VerdictIsTheChange(i, licenceStatus(v))
    BY <1>2, <2>1, <2>3, ComparedIsTheChange
  <2>5. QED
    BY <1>1, <1>2, <2>4
<1>6. CASE Language(i) = "rust"
  <2> DEFINE source == Policy(tree, i)
             truth == Truth(tree, i)
             of == licenceVerdict(repo.allow, source, read.set, base.base)
  <2>1. v = Gated(read, of)
    BY <1>1, <1>6 DEF licenceGateFor, rustLicence
  <2>2. ~read.err /\ of.verdict \notin {"context", "not configured"} /\ of.verdict = licenceStatus(v)
    BY <2>1, StatusOfVerdict
  <2>3. source # "none"
    <3>1. source = "none" => of.verdict = "not configured"
      BY DEF licenceVerdict, Comparison
    <3>2. QED
      BY <2>2, <3>1
  <2>4. CASE source = "lydite"
    <3>1. of = compared
      BY <2>4 DEF licenceVerdict
    <3>2. Compares(i)
      BY <1>6, <2>4 DEF Compares, Policy, PolicyFor
    <3>3. VerdictIsTheChange(i, licenceStatus(v))
      BY <1>2, <2>1, <3>1, <3>2, ComparedIsTheChange
    <3>4. QED
      BY <1>1, <1>2, <3>3
  <2>5. CASE source = "consumer"
    <3>1. /\ repo.allow = {} /\ truth.denyToml # {} /\ truth.carries = truth.ships
          /\ \A d \in truth.ships : d.package # "" /\ ("?" \in d.licence => d.licence \cap Allowed(truth.denyToml) = {})
      <4>1. WellFormed("rust", truth) /\ PolicyFor(truth.denyToml, repo.allow) = "consumer"
        BY <1>3, <1>6, <2>5 DEF Policy
      <4> HIDE DEF truth
      <4>2. repo.allow = {} /\ truth.denyToml # {}
        BY <4>1 DEF PolicyFor, Configured
      <4>3. QED
        BY <4>1, <4>2 DEF WellFormed
    <3>2. PICK here \in BOOLEAN, run \in DenyLicenceRuns(Allowed(truth.denyToml), truth.carries) :
             current = Answered(rustLicenceSet(source, here, run), run.cut)
      BY <1>6, <2>5 DEF CurrentReads, rustReads
    <3>3. read = rustLicenceSet(source, here, run) /\ ~run.cut
      BY <1>2, <3>2 DEF Answered
    <3>4. read = denyLicenceSet(run)
      <4>1. ~read.err
        BY <2>2
      <4> HIDE DEF source, truth, read
      <4>2. QED
        BY <2>5, <3>3, <4>1 DEF rustLicenceSet, NotRead
    <3>5. read.set = Nonconforming(truth.ships, Allowed(truth.denyToml))
      <4>1. ~denyLicenceSet(run).err
        BY <2>2, <3>4
      <4> HIDE DEF truth, read
      <4>2. denyLicenceSet(run).set = Nonconforming(truth.carries, Allowed(truth.denyToml))
        BY <3>1, <3>2, <3>3, <4>1, DenyReadsAll
      <4>3. QED
        BY <3>1, <3>4, <4>2
    <3>6. of.verdict = IF read.set = {} THEN "pass" ELSE "fail"
      BY <2>5 DEF licenceVerdict, Comparison
    <3>7. VerdictIsTheChange(i, licenceStatus(v))
      BY <2>2, <3>1, <3>5, <3>6 DEF VerdictIsTheChange
    <3>8. QED
      BY <1>1, <1>2, <3>7
  <2>6. QED
    BY <2>3, <2>4, <2>5 DEF Policy, PolicyFor
<1>7. QED
  BY <1>3, <1>4, <1>5, <1>6

(* A licence row that passes or fails states its component's verdict.        *)
LEMMA LicenceRows ==
  ASSUME ScanInv, stage = "report", NEW r \in Reportable, r.gate = "licence", r.status \in {"pass", "fail"},
         NEW i \in Components, r.component = Named(i)
  PROVE  Named(i) \in DOMAIN licences /\ r.status = licenceStatus(licences[Named(i)])
<1>1. \A gate, component, status :
        /\ Row(gate, component, status).gate = gate
        /\ Row(gate, component, status).component = component
        /\ Row(gate, component, status).status = status
  BY DEF Row
<1>2. \A component : r \notin resultRows(Results(component))
  <2>1. SUFFICES ASSUME NEW component, r \in resultRows(Results(component)) PROVE FALSE
    OBVIOUS
  <2>2. PICK b \in Results(component) : r = Row(b[1], b[2], IF checks[b].failed THEN "fail" ELSE "pass")
    BY <2>1 DEF resultRows
  <2>3. b \in DOMAIN checks /\ b[1] = "licence"
    BY <1>1, <2>2 DEF Results
  <2>4. FromComponent(b, checks[b]) \/ FromRoot(b, checks[b])
    BY <2>3 DEF ScanInv, AllAnswered
  <2>5. ~FromComponent(b, checks[b])
    <3>1. \A lang : "licence" \notin CheckGates(lang)
      BY DEF CheckGates
    <3>2. QED
      BY <2>3, <3>1 DEF FromComponent
  <2>6. ~FromRoot(b, checks[b])
    <3>1. b # <<"semgrep", "">> /\ b # <<"gitleaks", "">>
      <4>1. <<"semgrep", "">>[1] = "semgrep" /\ <<"gitleaks", "">>[1] = "gitleaks"
        OBVIOUS
      <4>2. "semgrep" # "licence" /\ "gitleaks" # "licence"
        OBVIOUS
      <4>3. b[1] = "licence"
        BY <2>3
      <4>4. QED
        BY ONLY <4>1, <4>2, <4>3
    <3>2. QED
      BY <3>1 DEF FromRoot
  <2>7. QED
    BY <2>4, <2>5, <2>6
<1>3. r # Row("scan", "", "unmeasured")
  <2>1. Row("scan", "", "unmeasured").gate = "scan"
    BY <1>1
  <2>2. QED
    BY <2>1
<1>4. PICK j \in Components : r \in componentRows(j)
  BY <1>2, <1>3 DEF Reportable, declaredRows
<1>5. \A x \in unmeasuredRows(j) : x.status = "unmeasured"
  BY <1>1 DEF unmeasuredRows
<1>6. r \notin unmeasuredRows(j) /\ r # Row("scan", Named(j), "unmeasured")
  BY <1>1, <1>5
<1>7. /\ Disposition(j) \notin {"unscanned", "disabled", "duplicate"}
      /\ r = Row("licence", Named(j), licenceStatus(licences[Named(j)]))
  BY <1>2, <1>4, <1>6 DEF componentRows
<1>8. j = i
  <2>1. Row("licence", Named(j), licenceStatus(licences[Named(j)])).component = Named(j)
    BY <1>1
  <2>2. Named(j) = Named(i)
    BY <1>7, <2>1
  <2>3. QED
    BY <2>2, ComponentsOwn DEF ScanInv, ScanShape
<1>9. Disposition(j) = "scan"
  BY <1>7 DEF Disposition
<1>10. j \in LicenceGated
  BY <1>9 DEF LicenceGated
<1>11. QED
  BY <1>1, <1>7, <1>8, <1>10 DEF ScanInv, AllGated

LEMMA LicenceStep ==
  ASSUME ReadersTell, ScanInv, BaseKnown, LicenceIsTheChange, [ScanNext]_scanVars
  PROVE  LicenceIsTheChange'
<1>1. CASE UNCHANGED scanVars
  BY <1>1 DEF scanVars, LicenceIsTheChange, Components, Named, ShippedBefore, Dir, Truth
<1>2. CASE Report
  <2>1. stage = "report" /\ rows' = Reportable /\ UNCHANGED <<repo, tree, baseSHA, cut>>
    BY <1>2 DEF Report, Reportable
  <2>2. ASSUME NEW r \in Reportable, NEW i \in Components,
               r = Row("licence", Named(i), r.status), r.status \in {"pass", "fail"},
               <<"licence", Named(i)>> \notin cut
        PROVE  VerdictIsTheChange(i, r.status)
    <3>1. r.gate = "licence" /\ r.component = Named(i)
      BY <2>2 DEF Row
    <3>2. Named(i) \in DOMAIN licences /\ r.status = licenceStatus(licences[Named(i)])
      BY <2>1, <2>2, <3>1, LicenceRows
    <3>3. PICK j \in Components : Named(i) = Named(j) /\ VerdictIsTheChange(j, r.status)
      BY <2>1, <2>2, <3>2, LicencesAreTheChange
    <3>4. i = j
      BY <3>3, ComponentsOwn DEF ScanInv, ScanShape
    <3>5. QED
      BY <3>3, <3>4
  <2>3. \A i, status : VerdictIsTheChange(i, status)' = VerdictIsTheChange(i, status)
    BY <2>1 DEF VerdictIsTheChange, Truth, Dir, ShippedBefore
  <2>4. Components' = Components /\ \A i : Named(i)' = Named(i)
    BY <2>1, ScanFrame
  <2>5. ASSUME NEW r \in rows', NEW i \in Components',
               r = Row("licence", Named(i)', r.status), r.status \in {"pass", "fail"},
               <<"licence", Named(i)'>> \notin cut'
        PROVE  VerdictIsTheChange(i, r.status)'
    BY <2>1, <2>2, <2>3, <2>4, <2>5
  <2>6. QED
    BY <2>5 DEF LicenceIsTheChange, VerdictIsTheChange
<1>3. CASE ScanNext /\ ~Report
  <2>1. stage' # "reported"
    BY <1>3 DEF ScanNext, ScanChange, ScanLanded, Begin, NothingToReport, RunChecks, GateLicences, Semgrep,
                Secrets, Record, Decide, Advance
  <2>2. QED
    BY <2>1 DEF LicenceIsTheChange
<1>4. QED
  BY <1>1, <1>2, <1>3

(***************************************************************************)
(* The licence verdict is the change's, where the readers tell what is     *)
(* shipped (stages/scan/licences.go:382).                                  *)
(***************************************************************************)
THEOREM LicencesAreOfTheChange ==
  ASSUME ReadersTell
  PROVE  ScanSpec => []LicenceIsTheChange
<1>1. ScanInit => BaseKnown /\ LicenceIsTheChange
  BY DEF ScanInit, BaseKnown, LicenceIsTheChange
<1>2. ScanInv /\ BaseKnown /\ LicenceIsTheChange /\ [ScanNext]_scanVars => BaseKnown' /\ LicenceIsTheChange'
  BY LicenceBasesKnown, LicenceStep
<1>3. QED
  BY <1>1, <1>2, ScanInvariant, PTL DEF ScanSpec
=============================================================================
