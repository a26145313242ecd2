---------------------------- MODULE MCStateBranch -----------------------------
(***************************************************************************)
(* Small instances of the state branch: three jobs on one history.         *)
(*                                                                         *)
(*   a <- b <- c <- d      the branch's line, d after more months than a   *)
(*                         writer looks back                               *)
(*   a <- x                a commit a force-push replaced                  *)
(*   x, b <- m             a merge of b into x                             *)
(*   a, b <- n             b merged into a, where it began                 *)
(***************************************************************************)
EXTENDS StateBranch

MCCommit == {"a", "b", "c", "d", "x", "m", "n"}
MCBranch == {"main", "release"}
MCRecording == 1..3
MCBucket == {"gate"}
MCFingerprint == {"f"}
MCMetric == {"coverage", "crap"}
MCContent == {"high", "low"}
MCTrees == {"t1", "t2"}

MCChain == [k \in MCCommit |->
    CASE k = "a" -> <<>>
      [] k = "b" -> <<"a">>
      [] k = "c" -> <<"b", "a">>
      [] k = "d" -> <<"c", "b", "a">>
      [] k = "m" -> <<"x", "a">>
      [] k \in {"x", "n"} -> <<"a">>]

MCPast == [k \in MCCommit |->
    ToSet(MCChain[k]) \cup (IF k \in {"m", "n"} THEN {"b"} ELSE {})]

\* c restores the tree of a.
MCTree == [k \in MCCommit |-> IF k \in {"a", "c"} THEN "t1" ELSE "t2"]

\* A month is four ticks, a day two: a and x share a day, c is in the next month.
MCDate == [k \in MCCommit |->
    CASE k = "a" -> 0 [] k = "x" -> 1 [] k = "b" -> 2 [] k \in {"m", "n"} -> 3
      [] k = "c" -> 4 [] k = "d" -> 12]

\* Commits made in one second: b and c.
MCTiedDate == [k \in MCCommit |->
    CASE k = "a" -> 0 [] k = "x" -> 1 [] k = "b" -> 1 [] k = "c" -> 1 [] k \in {"d", "m", "n"} -> 2]

\* One commit a month.
MCMonthlyDate == [k \in MCCommit |->
    CASE k = "a" -> 0 [] k = "x" -> 1 [] k = "b" -> 4 [] k \in {"c", "m", "n"} -> 8
      [] k = "d" -> 12]

F == <<"gate", "f">>

measure(k, b, scope, found) ==
    [commit |-> k, branch |-> b, scope |-> scope, found |-> found, shallow |-> FALSE]

Clean(k) == measure(k, "main", MCBucket, {})
Dirty(k) == measure(k, "main", MCBucket, {F})
Unscanned(k) == measure(k, "main", {}, {})
Crashed(k) == measure(k, "main", {}, {F})

NoBaseline == [m \in MCMetric |-> Nothing]
Both(v) == [m \in MCMetric |-> v]
CoverageOnly == [m \in MCMetric |-> IF m = "coverage" THEN "low" ELSE Nothing]

\* Three jobs: their measurements, each with a history, and their snapshots.
jobsOf(m1, m2, m3, s1, s2, s3) ==
    << [measured |-> m1, history |-> TRUE, snapshot |-> s1],
       [measured |-> m2, history |-> TRUE, snapshot |-> s2],
       [measured |-> m3, history |-> TRUE, snapshot |-> s3] >>

Line ==
    { jobsOf(m[1], m[2], m[3], Both("high"), NoBaseline, CoverageOnly) :
        m \in { <<Dirty("a"), Clean("b"), Dirty("c")>>,
                <<Dirty("a"), Unscanned("b"), Clean("c")>>,
                <<Clean("a"), Crashed("b"), Dirty("c")>> } }

Rerun ==
    { jobsOf(Dirty("a"), Clean("a"), Clean("b"), Both("high"), CoverageOnly, Both("low")),
      jobsOf(Clean("a"), Dirty("c"), Unscanned("c"), Both("low"), Both("high"), CoverageOnly) }

Broken ==
    { jobsOf(Dirty("a"), Dirty("x"), Clean("b"), NoBaseline, NoBaseline, NoBaseline),
      jobsOf(Clean("a"), [Dirty("c") EXCEPT !.shallow = TRUE], Clean("d"), NoBaseline, NoBaseline, NoBaseline),
      jobsOf(Dirty("b"), Clean("c"), Dirty("d"), CoverageOnly, NoBaseline, NoBaseline) }

\* Two branches carry one commit; a job without a history; a job without anything.
Mixed ==
    { jobsOf(Dirty("a"), [Clean("a") EXCEPT !.branch = "release"], Clean("b"),
             Both("high"), CoverageOnly, NoBaseline),
      [jobsOf(Dirty("a"), Clean("b"), Clean("c"), Both("high"), NoBaseline, Both("low"))
         EXCEPT ![1].history = FALSE],
      [jobsOf(Dirty("a"), Clean("b"), Clean("c"), Both("high"), NoBaseline, CoverageOnly)
         EXCEPT ![2].history = FALSE] }

\* What was recorded last is a second parent: of a merge into a line that was
\* replaced, into one never recorded, and into a commit b descends from.
Merged ==
    { jobsOf(Dirty("x"), Clean("b"), Dirty("m"), Both("low"), NoBaseline, CoverageOnly),
      jobsOf(Dirty("a"), Clean("b"), Dirty("m"), NoBaseline, Both("high"), NoBaseline),
      jobsOf(Clean("a"), Dirty("b"), Clean("n"), NoBaseline, NoBaseline, Both("low")) }

MCPlans == Line \cup Rerun \cup Broken \cup Mixed \cup Merged

\* Three jobs of the line, one after the other's commit.
MCLinePlans == { jobsOf(Dirty("a"), Dirty("b"), Dirty("c"), NoBaseline, NoBaseline, NoBaseline) }

\* The three youngest of the line.
MCTiedPlans == { jobsOf(Clean("b"), Clean("c"), Clean("d"), NoBaseline, NoBaseline, NoBaseline) }
===============================================================================
