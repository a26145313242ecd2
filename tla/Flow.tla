-------------------------------- MODULE Flow --------------------------------
(***************************************************************************)
(* internal/flow: a flow is a strictly sequential list of stages.  A stage *)
(* reads the run's inputs and what earlier stages gave, runs only if its   *)
(* conditions hold, and leaves it to the flow what its error does.         *)
(*                                                                         *)
(* A source is <<"input", key>> or <<stage, field>>.  Of the fields a      *)
(* stage is handed only the stages they come from are kept, in reads: what *)
(* matters is whether the value exists.  Of what a stage gives, gives has  *)
(* the fields that somebody branches on.  Types, and literals, which are   *)
(* always there, are left out.                                             *)
(***************************************************************************)
EXTENDS Naturals, Sequences

CONSTANTS
    Flows,          \* the declared flows: a sequence of stages for each name
    Given,          \* for each flow, the inputs it may be run with
    Interruptible   \* the flows run under a context that a signal cancels

VARIABLES
    flow,       \* the name of the flow that runs, or that ran last
    given,      \* its inputs
    at,         \* the index of the stage whose turn it is
    status,     \* how far each stage got
    output,     \* what each stage gave
    recorded,   \* the stages whose errors the Result lists
    ended,      \* how Run ended
    done        \* whether the run's context is done

flowVars == <<flow, given, at, status, output, recorded, ended, done>>

FailFlow == "fail-flow"
RecordAndContinue == "record-and-continue"
BestEffort == "best-effort"
Policy == {FailFlow, RecordAndContinue, BestEffort}

NotReached == "not reached"
Skipped == "skipped"
Succeeded == "succeeded"
Failed == "failed"
Status == {NotReached, Skipped, Succeeded, Failed}

Input == "input"
FromInput(key) == <<Input, key>>
FromStage(stage, field) == <<stage, field>>
When(src) == [src |-> src, want |-> TRUE]
Unless(src) == [src |-> src, want |-> FALSE]

Nothing == [field \in {} |-> FALSE]      \* struct{}, or no field anybody branches on

(* The Builder: a stage with no condition, that may fail and fails the      *)
(* flow; and what the flow adds to it.                                     *)
Stage(name, reads) ==
    [name |-> name, reads |-> reads, conds |-> <<>>, gives |-> {Nothing},
     errs |-> TRUE, policy |-> FailFlow]
On(conds, s) == [s EXCEPT !.conds = conds]
Gives(outs, s) == [s EXCEPT !.gives = outs]
Sure(s) == [s EXCEPT !.errs = FALSE]     \* a stage whose function returns no error
OnError(policy, s) == [s EXCEPT !.policy = policy]

Names(f) == {f[i].name : i \in DOMAIN f}

-----------------------------------------------------------------------------
(* Build: every name is declared once, every stage that is read is declared *)
(* before its reader, and every condition can be a boolean.  (That none is  *)
(* called as the inputs are marked is the model's own condition.)          *)
DeclaredBefore(f, i, name) == \E j \in 1..(i - 1) : f[j].name = name

Compiles(f, i) ==
    /\ f[i].name \notin {"", Input} /\ ~DeclaredBefore(f, i, f[i].name)
    /\ f[i].policy \in Policy
    /\ \A r \in f[i].reads : DeclaredBefore(f, i, r)
    /\ \A k \in DOMAIN f[i].conds :
         LET src == f[i].conds[k].src
         IN  src[1] # Input => \E j \in 1..(i - 1) :
                 f[j].name = src[1] /\ \A out \in f[j].gives : out[src[2]] \in BOOLEAN

Builds(f) == \A i \in DOMAIN f : Compiles(f, i)

Condition == [src : STRING \X STRING, want : BOOLEAN]

FlowAssumption ==
    /\ \A n \in DOMAIN Flows :
         /\ Flows[n] = [i \in 1..Len(Flows[n]) |-> Flows[n][i]] /\ Len(Flows[n]) \in Nat
         /\ Builds(Flows[n])
         /\ \A i \in DOMAIN Flows[n] :
              LET s == Flows[n][i]
              IN  /\ s.conds = [k \in 1..Len(s.conds) |-> s.conds[k]] /\ Len(s.conds) \in Nat
                  /\ \A k \in DOMAIN s.conds : s.conds[k] \in Condition
    /\ DOMAIN Given = DOMAIN Flows
ASSUME FlowAssumption

-----------------------------------------------------------------------------
Current == Flows[flow][at]
Running == ended = "running"

(* value *)
Readable(src) == IF src[1] = Input THEN TRUE ELSE status[src[1]] = Succeeded
Value(src) == IF src[1] = Input THEN given[src[2]] ELSE output[src[1]][src[2]]

(* holds: the conditions are asked in order, up to the first that does not  *)
(* hold or cannot be read.                                                 *)
Met(c) == Readable(c.src) /\ Value(c.src) = c.want

Skips(s) ==
    \E k \in DOMAIN s.conds :
      /\ \A j \in 1..(k - 1) : Met(s.conds[j])
      /\ Readable(s.conds[k].src) /\ ~Met(s.conds[k])

(* argument: every field is read before the stage is called. *)
Runs(s) ==
    /\ \A k \in DOMAIN s.conds : Met(s.conds[k])
    /\ \A r \in s.reads : status[r] = Succeeded

Unavailable(s) == ~Skips(s) /\ ~Runs(s)

(* What a stage's error does. *)
Stops(s) == s.policy = FailFlow

-----------------------------------------------------------------------------
(* A command calls Run: nothing is kept of an earlier run, and its context  *)
(* is its own.                                                             *)
Begin(n, in) ==
    /\ flow' = n
    /\ given' = in
    /\ at' = 1
    /\ status' = [s \in Names(Flows[n]) |-> NotReached]
    /\ output' = [s \in Names(Flows[n]) |-> Nothing]
    /\ recorded' = {}
    /\ ended' = "running"
    /\ done' = FALSE

FlowInit ==
    \E n \in DOMAIN Flows : \E in \in Given[n] :
      /\ flow = n
      /\ given = in
      /\ at = 1
      /\ status = [s \in Names(Flows[n]) |-> NotReached]
      /\ output = [s \in Names(Flows[n]) |-> Nothing]
      /\ recorded = {}
      /\ ended = "running"
      /\ done = FALSE

AtStage == Running /\ at \in DOMAIN Flows[flow]

(* The context is looked at before each stage only; a value that is not     *)
(* there is the reading stage's flow's mistake and stops the run.          *)
Stop ==
    /\ AtStage
    /\ done \/ Unavailable(Current)
    /\ ended' = IF done THEN "cancelled" ELSE "unavailable"
    /\ UNCHANGED <<flow, given, at, status, output, recorded, done>>

Skip ==
    /\ AtStage /\ ~done
    /\ Skips(Current)
    /\ status' = [status EXCEPT ![Current.name] = Skipped]
    /\ at' = at + 1
    /\ UNCHANGED <<flow, given, output, recorded, ended, done>>

Succeed ==
    /\ AtStage /\ ~done
    /\ Runs(Current)
    /\ \E out \in Current.gives : output' = [output EXCEPT ![Current.name] = out]
    /\ status' = [status EXCEPT ![Current.name] = Succeeded]
    /\ at' = at + 1
    /\ UNCHANGED <<flow, given, recorded, ended, done>>

Fail ==
    /\ AtStage /\ ~done
    /\ Runs(Current)
    /\ Current.errs
    /\ status' = [status EXCEPT ![Current.name] = Failed]
    /\ recorded' = IF Current.policy = RecordAndContinue
                   THEN recorded \cup {Current.name} ELSE recorded
    /\ IF Stops(Current)
       THEN ended' = "failed" /\ UNCHANGED at
       ELSE at' = at + 1 /\ UNCHANGED ended
    /\ UNCHANGED <<flow, given, output, done>>

ReturnResult ==
    /\ Running /\ at \notin DOMAIN Flows[flow]
    /\ ended' = "returned"
    /\ UNCHANGED <<flow, given, at, status, output, recorded, done>>

(* A signal, at any point: a stage that is running may fail for it or end   *)
(* well, and the next look at the context sees it.                         *)
Interrupt ==
    /\ Running /\ ~done
    /\ flow \in Interruptible
    /\ done' = TRUE
    /\ UNCHANGED <<flow, given, at, status, output, recorded, ended>>

FlowStep == Stop \/ Skip \/ Succeed \/ Fail \/ ReturnResult \/ Interrupt

FlowNext ==
    \/ FlowStep
    \/ ~Running /\ \E n \in DOMAIN Flows : \E in \in Given[n] : Begin(n, in)

FlowSpec == FlowInit /\ [][FlowNext]_flowVars

-----------------------------------------------------------------------------
FlowTypeOK ==
    /\ flow \in DOMAIN Flows
    /\ given \in Given[flow]
    /\ at \in 1..(Len(Flows[flow]) + 1)
    /\ status \in [Names(Flows[flow]) -> Status]
    /\ DOMAIN output = Names(Flows[flow])
    /\ recorded \subseteq Names(Flows[flow])
    /\ ended \in {"running", "cancelled", "unavailable", "failed", "returned"}
    /\ done \in BOOLEAN

(* How a flow must be declared for every read to find a value: the stage    *)
(* read fails the flow if it fails, and whatever could have skipped it     *)
(* skips its reader too - for a condition's source, before that condition  *)
(* is asked.                                                               *)
Asked(s, k) == {s.conds[j] : j \in 1..k}

SafeSource(f, i, name, asked) ==
    \E j \in 1..(i - 1) :
      /\ f[j].name = name /\ f[j].policy = FailFlow
      /\ Asked(f[j], Len(f[j].conds)) \subseteq asked

Guarded(f) ==
    \A i \in DOMAIN f :
      /\ \A r \in f[i].reads : SafeSource(f, i, r, Asked(f[i], Len(f[i].conds)))
      /\ \A k \in DOMAIN f[i].conds :
           f[i].conds[k].src[1] # Input =>
             SafeSource(f, i, f[i].conds[k].src[1], Asked(f[i], k - 1))

(* run.go, Run: "a flow reading an output it did not guard is miswired, and *)
(* a zero value in its place would read as a real one".  No flow does.     *)
NeverMiswired == ended # "unavailable"

(* A stage that failed under FailFlow is never passed over, and the errors  *)
(* the Result lists are of stages that failed and were meant to be.        *)
FailuresStop ==
    /\ \A i \in DOMAIN Flows[flow] :
         status[Flows[flow][i].name] = Failed /\ Flows[flow][i].policy = FailFlow
           => ended = "failed"
    /\ \A s \in recorded : status[s] = Failed
=============================================================================
