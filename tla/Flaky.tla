--------------------------------- MODULE Flaky ---------------------------------
(***************************************************************************)
(* The flaky gate's comparison of two runs of the tests a change           *)
(* introduces (internal/flaky/rerun.go, internal/test/run/flaky.go,        *)
(* internal/junit/junit.go): how a report is read, which tests are         *)
(* examined, and what two outcomes establish.                              *)
(***************************************************************************)
EXTENDS FiniteSets

CONSTANTS Test,
          Suite,      \* the component whose suite runs the test
          Scope,      \* what one rerun covers: a Go package, else the component
          Class,      \* the classname the runner records it under
          Name,
          Introduced, \* the tests the change introduces
          ByName      \* the components whose tests are known by name alone: Go's

Outcome == {"pass", "fail", "skip"}

ASSUME FlakyAssumption == Introduced \subseteq Test

(***************************************************************************)
(* One key space for both reports of a component.                          *)
(***************************************************************************)
\* Mutation: the name alone, whatever the runner.
keyByName(t) == Name[t]

key(t) == IF Suite[t] \in ByName THEN Name[t] ELSE <<Class[t], Name[t]>>

(***************************************************************************)
(* What a report of the outcomes ran says of a key: the worst recorded     *)
(* under it, or nothing.                                                   *)
(***************************************************************************)
ReadOutcome(ran, k) ==
    LET recorded == { ran[t] : t \in { u \in DOMAIN ran : key(u) = k } }
    IN  IF recorded = {} THEN "absent"
        ELSE CHOOSE o \in recorded :
                \/ o = "fail"
                \/ o = "skip" /\ "fail" \notin recorded
                \/ recorded = {"pass"}

NewTests(c) == { t \in Introduced : Suite[t] = c }

(***************************************************************************)
(* The tests examined: each new one, and where the classname is part of    *)
(* the key every test run 1 recorded under a new one's name; a new one it  *)
(* did not record stands for itself.                                       *)
(***************************************************************************)
NewNames(c) == { Name[t] : t \in NewTests(c) }

expand(c, run1) ==
    IF c \in ByName THEN NewTests(c)
    ELSE { t \in DOMAIN run1 : Suite[t] = c /\ Name[t] \in NewNames(c) }
           \cup { t \in NewTests(c) : \A u \in DOMAIN run1 : Name[u] # Name[t] }

(***************************************************************************)
(* A test no rerun can address, and the tests a scope's rerun runs: every  *)
(* one in it by a name that is examined.                                   *)
(***************************************************************************)
undecidable(c, t, run1) == c \notin ByName /\ t \notin DOMAIN run1

Runnable(c, s, run1) == { t \in expand(c, run1) : Scope[t] = s /\ ~undecidable(c, t, run1) }

scopes(c, run1) == { Scope[t] : t \in { u \in expand(c, run1) : ~undecidable(c, u, run1) } }

Filtered(c, s, run1) ==
    { t \in Test : /\ Suite[t] = c /\ Scope[t] = s
                   /\ Name[t] \in { Name[u] : u \in Runnable(c, s, run1) } }

compare(one, two) ==
    IF "absent" \in {one, two} THEN "unmeasured"
    ELSE IF one # two THEN "disagreed"
    ELSE IF one = "skip" THEN "skipped"
    ELSE "agreed"

(***************************************************************************)
(* The row: a disagreement fails it, and a test not run twice keeps it     *)
(* from passing.                                                           *)
(***************************************************************************)
flakyRow(verdicts) ==
    IF "disagreed" \in verdicts THEN "disagreed"
    ELSE IF verdicts \cap {"unmeasured", "skipped"} # {} THEN "unexamined"
    ELSE "agreed"
================================================================================
