---------------------------- MODULE MutationResume -----------------------------
(***************************************************************************)
(* The mutation state of one component: the directory a run of `lydite     *)
(* mutation` leaves for the next (internal/mutation/state.go), and how the *)
(* component is measured from it (stages/mutation/run.go, mutateComponent  *)
(* and openComponentState).  Runs follow one another on the directory,     *)
(* each on the tree it finds; a run may be killed between any two steps,   *)
(* in the middle of a write included, and any operation on a file may      *)
(* fail, which the run survives by measuring what it could not read.       *)
(*                                                                         *)
(* A kill is the process's, not the machine's: what was written is there.  *)
(* One run at a time has the directory.                                    *)
(***************************************************************************)
EXTENDS Naturals, Sequences, FiniteSets

CONSTANTS
    TreeMutant,  \* the mutants the component's tree has
    Fingerprint, \* what a run's verdicts may be valid under
    Elapsed,     \* how long the baseline suite may take
    MaxWait,     \* bound on the ticks a baseline waits for a slot
    MaxRuns,     \* bound on the runs
    MaxFaults,   \* bound on the file operations that fail
    None, TornLine \* no such file, and a line that does not parse

\* A verdict as recorded, with what it was measured under.
Line == [of : TreeMutant, under : Fingerprint, elapsed : Nat]

\* took is how long the suite ran.
Baseline == [under : Fingerprint, elapsed : Nat, took : Nat]

ASSUME MutationResumeAssumption ==
    /\ Elapsed \subseteq Nat /\ MaxWait \in Nat /\ MaxRuns \in Nat /\ MaxFaults \in Nat
    /\ None \notin Fingerprint \cup Baseline \cup Seq(Line \cup {TornLine})
    /\ TornLine \notin Line

VARIABLES
    fingerprint, \* the file of that name
    baseline,    \* the recorded baseline
    verdicts,    \* the lines of the verdicts file
    ended,       \* whether the last of them ends in a newline
    place,       \* where the run is: idle, clearing, reading, discarding, opening,
                 \* recalling (the baseline), waiting (for a slot), saving, knowing, executing
    discard,     \* what is left to do of a state recorded under another fingerprint
    mine,        \* the run's own fingerprint
    open,        \* whether it has a state to read and to record in
    waited,      \* how long its baseline waited
    measured,    \* the baseline it goes by
    recalled,    \* the verdicts it reuses, by mutant
    decided,     \* the mutants it measured
    runs, faults,
    kept         \* the mutants whose recording returned, since the tree last changed

disk == <<fingerprint, baseline, verdicts, ended>>
run == <<place, discard, mine, open, waited, measured, recalled, decided>>
history == <<runs, faults, kept>>
resumeVars == <<disk, run, history>>

nothing == [m \in {} |-> None]

ResumeInit ==
    /\ fingerprint = None /\ baseline = None /\ verdicts = None /\ ended = TRUE
    /\ place = "idle" /\ discard = <<>> /\ mine = None /\ open = FALSE
    /\ waited = 0 /\ measured = None /\ recalled = nothing /\ decided = {}
    /\ runs = 0 /\ faults = 0 /\ kept = {}

-------------------------------------------------------------------------------
(***************************************************************************)
(* A run starts on the tree as it is, and may be asked to start afresh.    *)
(***************************************************************************)
Begin(f, fresh) ==
    /\ place = "idle" /\ runs < MaxRuns
    /\ runs' = runs + 1
    /\ place' = IF fresh THEN "clearing" ELSE "reading"
    /\ mine' = f
    /\ open' = TRUE /\ waited' = 0 /\ measured' = None /\ recalled' = nothing /\ decided' = {}
    /\ kept' = IF fresh \/ f # mine THEN {} ELSE kept
    /\ UNCHANGED <<disk, discard, faults>>

removed(file) ==
    /\ baseline' = IF file = "baseline" THEN None ELSE baseline
    /\ verdicts' = IF file = "verdicts" THEN None ELSE verdicts
    /\ ended' = (file = "verdicts" \/ ended)

(***************************************************************************)
(* --fresh: the directory is removed, file by file in no known order.      *)
(***************************************************************************)
Clear ==
    /\ place = "clearing"
    /\ \/ \E file \in {"fingerprint", "baseline", "verdicts"} :
             /\ removed(file)
             /\ fingerprint' = IF file = "fingerprint" THEN None ELSE fingerprint
             /\ UNCHANGED place
       \/ /\ fingerprint = None /\ baseline = None /\ verdicts = None
          /\ place' = "reading"
          /\ UNCHANGED disk
    /\ UNCHANGED <<discard, mine, open, waited, measured, recalled, decided, history>>

\* Mutation: a state with no fingerprint is nobody else's.
mismatchOther == fingerprint \notin {None, mine}

mismatch == fingerprint # mine

discardOrder == <<"verdicts", "baseline", "fingerprint">>

ReadFingerprint ==
    /\ place = "reading"
    /\ place' = IF mismatch THEN "discarding" ELSE "opening"
    /\ discard' = IF mismatch THEN discardOrder ELSE <<>>
    /\ UNCHANGED <<disk, mine, open, waited, measured, recalled, decided, history>>

Discard ==
    /\ place = "discarding"
    /\ removed(Head(discard))
    /\ fingerprint' = IF Head(discard) = "fingerprint" THEN mine ELSE fingerprint
    /\ discard' = Tail(discard)
    /\ place' = IF Tail(discard) = <<>> THEN "opening" ELSE place
    /\ UNCHANGED <<mine, open, waited, measured, recalled, decided, history>>

\* Mutation: a torn line is left as it is.
terminateNothing == UNCHANGED ended

terminateTornLine == ended' = TRUE

(***************************************************************************)
(* The verdicts file is opened, made where there is none, and a line that  *)
(* a kill left unfinished is finished.                                     *)
(***************************************************************************)
Open ==
    /\ place = "opening"
    /\ verdicts' = IF verdicts = None THEN <<>> ELSE verdicts
    /\ terminateTornLine
    /\ place' = "recalling"
    /\ UNCHANGED <<fingerprint, baseline, discard, mine, open, waited, measured, recalled, decided, history>>

fault == faults < MaxFaults /\ faults' = faults + 1

(***************************************************************************)
(* A state that cannot be cleared, read, discarded or opened: the run goes *)
(* on without one.                                                         *)
(***************************************************************************)
StateFails ==
    /\ place \in {"clearing", "reading", "discarding", "opening"} /\ fault
    /\ open' = FALSE
    /\ place' = "waiting" /\ discard' = <<>>
    /\ UNCHANGED <<disk, mine, waited, measured, recalled, decided, runs, kept>>

-------------------------------------------------------------------------------
\* Mutation: every run measures its own baseline.
reusableNever == FALSE

reusable == baseline # None

Recall ==
    /\ place = "recalling"
    /\ measured' = IF reusable THEN baseline ELSE None
    /\ place' = IF reusable THEN "knowing" ELSE "waiting"
    /\ UNCHANGED <<disk, discard, mine, open, waited, recalled, decided, history>>

RecallFails ==
    /\ place = "recalling" /\ fault
    /\ place' = "waiting"
    /\ UNCHANGED <<disk, discard, mine, open, waited, measured, recalled, decided, runs, kept>>

(***************************************************************************)
(* Another component's suites hold the slots.                              *)
(***************************************************************************)
Wait ==
    /\ place = "waiting" /\ waited < MaxWait
    /\ waited' = waited + 1
    /\ UNCHANGED <<disk, place, discard, mine, open, measured, recalled, decided, history>>

(***************************************************************************)
(* The baseline suite passes.  Its time is read off a clock started before *)
(* the run asked for a slot.                                               *)
(***************************************************************************)
Measure ==
    /\ place = "waiting"
    /\ \E took \in Elapsed :
          measured' = [under |-> mine, elapsed |-> waited + took, took |-> took]
    /\ place' = IF open THEN "saving" ELSE "executing"
    /\ UNCHANGED <<disk, discard, mine, open, waited, recalled, decided, history>>

\* A rename: the old baseline or the new one.
Save ==
    /\ place = "saving"
    /\ baseline' = measured
    /\ place' = "knowing"
    /\ UNCHANGED <<fingerprint, verdicts, ended, discard, mine, open, waited, measured, recalled, decided, history>>

SaveFails ==
    /\ place = "saving" /\ fault
    /\ place' = "knowing"
    /\ UNCHANGED <<disk, discard, mine, open, waited, measured, recalled, decided, runs, kept>>

-------------------------------------------------------------------------------
(***************************************************************************)
(* The lines that end and parse; of two for one mutant, the later.         *)
(***************************************************************************)
Readable == { i \in DOMAIN verdicts : verdicts[i] # TornLine /\ (ended \/ i < Len(verdicts)) }

Verdicts ==
    [m \in { verdicts[i].of : i \in Readable } |->
        verdicts[CHOOSE i \in Readable :
                    /\ verdicts[i].of = m
                    /\ \A j \in Readable : verdicts[j].of = m => j <= i]]

Know ==
    /\ place = "knowing"
    /\ recalled' = Verdicts
    /\ place' = "executing"
    /\ UNCHANGED <<disk, discard, mine, open, waited, measured, decided, history>>

KnowFails ==
    /\ place = "knowing" /\ fault
    /\ place' = "executing"
    /\ UNCHANGED <<disk, discard, mine, open, waited, measured, recalled, decided, runs, kept>>

verdictOf(m) == [of |-> m, under |-> mine, elapsed |-> measured.elapsed]

(***************************************************************************)
(* A line goes after the last; after one that has no end, it continues it, *)
(* and the two together do not parse.                                      *)
(***************************************************************************)
written(line) ==
    IF ended THEN Append(verdicts, line) ELSE [verdicts EXCEPT ![Len(verdicts)] = TornLine]

Unmeasured == TreeMutant \ (DOMAIN recalled \cup decided)

(***************************************************************************)
(* A mutant no verdict answers is measured, and its verdict recorded.      *)
(***************************************************************************)
Record(m) ==
    /\ place = "executing" /\ m \in Unmeasured
    /\ decided' = decided \cup {m}
    /\ IF open
       THEN verdicts' = written(verdictOf(m)) /\ ended' = TRUE /\ kept' = kept \cup {m}
       ELSE UNCHANGED <<verdicts, ended, kept>>
    /\ UNCHANGED <<fingerprint, baseline, place, discard, mine, open, waited, measured, recalled, runs, faults>>

(***************************************************************************)
(* What a write that does not finish leaves: nothing, some of the line, or *)
(* all of it but the newline.                                              *)
(***************************************************************************)
Unfinished(m) ==
    \/ UNCHANGED <<verdicts, ended>>
    \/ /\ verdicts' \in { written(TornLine), written(verdictOf(m)) }
       /\ ended' = FALSE

RecordFails(m) ==
    /\ place = "executing" /\ open /\ m \in Unmeasured /\ fault
    /\ decided' = decided \cup {m}
    /\ Unfinished(m)
    /\ UNCHANGED <<fingerprint, baseline, place, discard, mine, open, waited, measured, recalled, runs, kept>>

over ==
    /\ place' = "idle"
    /\ discard' = <<>> /\ open' = FALSE /\ waited' = 0 /\ measured' = None
    /\ recalled' = nothing /\ decided' = {}
    /\ UNCHANGED <<mine, history>>

(***************************************************************************)
(* The run is killed, or ends before its mutants do: the baseline fails,   *)
(* an interrupt, its deadline.                                             *)
(***************************************************************************)
Kill == place # "idle" /\ over /\ UNCHANGED disk

KillWriting(m) ==
    /\ place = "executing" /\ open /\ m \in Unmeasured
    /\ Unfinished(m)
    /\ over
    /\ UNCHANGED <<fingerprint, baseline>>

End == place = "executing" /\ Unmeasured = {} /\ over /\ UNCHANGED disk

Stop == place = "idle" /\ runs = MaxRuns /\ UNCHANGED resumeVars

ResumeNext ==
    \/ \E f \in Fingerprint, fresh \in BOOLEAN : Begin(f, fresh)
    \/ Clear \/ ReadFingerprint \/ Discard \/ Open \/ StateFails
    \/ Recall \/ RecallFails \/ Wait \/ Measure \/ Save \/ SaveFails
    \/ Know \/ KnowFails
    \/ \E m \in TreeMutant : Record(m) \/ RecordFails(m) \/ KillWriting(m)
    \/ Kill \/ End \/ Stop

ResumeSpec == ResumeInit /\ [][ResumeNext]_resumeVars
-------------------------------------------------------------------------------
(***************************************************************************)
(* Every variable has its type, and nothing is recorded without a state or *)
(* measured twice by one run.                                              *)
(***************************************************************************)
ResumeTypeOK ==
    /\ fingerprint \in Fingerprint \cup {None}
    /\ baseline \in Baseline \cup {None}
    /\ verdicts \in Seq(Line \cup {TornLine}) \cup {None}
    /\ ended \in BOOLEAN /\ (~ended => verdicts \notin {None, <<>>})
    /\ place \in {"idle", "clearing", "reading", "discarding", "opening", "recalling", "waiting",
               "saving", "knowing", "executing"}
    /\ discard \in Seq({"verdicts", "baseline", "fingerprint"})
    /\ place = "discarding" => discard # <<>>
    /\ mine \in Fingerprint \cup {None} /\ (place # "idle" => mine \in Fingerprint)
    /\ open \in BOOLEAN
    /\ waited \in Nat
    /\ measured \in Baseline \cup {None}
    /\ place \in {"saving", "knowing", "executing"} => measured # None
    /\ recalled \in [DOMAIN recalled -> Line] /\ DOMAIN recalled \subseteq TreeMutant
    /\ decided \subseteq TreeMutant \ DOMAIN recalled
    /\ open /\ place \in {"recalling", "waiting", "saving", "knowing", "executing"} => verdicts # None
    /\ runs \in 0..MaxRuns /\ faults \in 0..MaxFaults
    /\ kept \subseteq TreeMutant

(***************************************************************************)
(* What the directory holds is valid under the fingerprint it names,       *)
(* wherever a run was killed or failed: "never old verdicts under a new    *)
(* fingerprint" (state.go, OpenState).                                     *)
(***************************************************************************)
HeldUnderFingerprint ==
    fingerprint # None =>
        /\ baseline # None => baseline.under = fingerprint
        /\ verdicts # None =>
              \A i \in DOMAIN verdicts : verdicts[i] # TornLine => verdicts[i].under = fingerprint

(***************************************************************************)
(* What a run reuses was measured under its own fingerprint: the tree, the *)
(* suite and the budget a verdict depends on (docs/adr/0075, "What the     *)
(* fingerprint trusts").                                                   *)
(***************************************************************************)
ReusedIsOwn ==
    /\ measured # None => measured.under = mine
    /\ \A m \in DOMAIN recalled : recalled[m].of = m /\ recalled[m].under = mine

(***************************************************************************)
(* "A hard kill loses at most the mutants that were in flight" (docs/adr/  *)
(* 0075): where no file operation failed, a run on an unchanged tree       *)
(* reuses every verdict whose recording returned.                          *)
(***************************************************************************)
KeptIsReused ==
    place = "executing" /\ faults = 0 => kept \subseteq DOMAIN recalled \cup decided

(***************************************************************************)
(* "the resumed run reuses that same baseline, so its budget is identical" *)
(* (docs/adr/0075): where no file operation failed, the verdicts recorded  *)
(* since the state was last asked to be discarded were measured against    *)
(* the budget this run measures the rest against.                          *)
(***************************************************************************)
OneBudget ==
    place = "executing" /\ faults = 0 =>
        \A m \in kept \cap DOMAIN recalled : recalled[m].elapsed = measured.elapsed

(***************************************************************************)
(* "Elapsed is how long the baseline took, which the per-mutant timeout is *)
(* derived from" (state.go, Baseline).                                     *)
(***************************************************************************)
ElapsedIsTheBaselines == baseline # None => baseline.elapsed = baseline.took

===============================================================================
