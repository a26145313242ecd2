------------------------------- MODULE MCMatrix -------------------------------
(***************************************************************************)
(* Small instance of a matrix.  Every declaration of up to four components *)
(* of a palette is planned: roots that nest, are siblings and reach into   *)
(* one another, ports that overlap in a chain, a component without a       *)
(* suite, one with a stack that does not load, and two pairs of names that *)
(* join to the same: a-b with c, and a with b-c.  The matrices of two of   *)
(* them are run: three suites in two jobs beside a component without one,  *)
(* and two jobs one of which runs a raw command.                           *)
(***************************************************************************)
EXTENDS Matrix

MCSegment == {"web", "src", "api"}
MCPort == {5432, 6379}
MCWord == {"a", "b", "c", "d", "e"}

comp(name, dir, occupies, ports) ==
    [name |-> name, hasSuite |-> TRUE, loads |-> TRUE,
     item |-> [dir |-> dir, occupies |-> occupies, ports |-> ports]]

ab == comp(<<"a", "b">>, <<"web", "src">>, <<>>, {5432})
c == comp(<<"c">>, <<"web">>, <<>>, {})
a == comp(<<"a">>, <<"api">>, << <<"src">> >>, {})
bc == comp(<<"b", "c">>, <<"src", "api">>, <<>>, {6379})
d == comp(<<"d">>, <<"src", "web">>, << <<"api", "src">> >>, {5432, 6379})
e == [comp(<<"e">>, <<>>, <<>>, {}) EXCEPT !.hasSuite = FALSE]
b == [comp(<<"b">>, <<"api", "web">>, <<>>, {}) EXCEPT !.loads = FALSE]

MCFiles ==
    { f \in UNION { [1..n -> {ab, c, a, bc, d, e, b}] : n \in 0..4 } :
        \A i, j \in DOMAIN f : f[i].name = f[j].name => i = j }

MCTested == {<<ab, e, a, c>>, <<c, bc>>}
MCCommanded == {bc.name}

lines(covered, total) == [covered |-> covered, total |-> total]

entry(covered, total, producer, above) ==
    [lines |-> lines(covered, total), producer |-> producer, scored |-> TRUE, above |-> above]

(***************************************************************************)
(* A suite that failed; one without a figure; within the tolerance of the  *)
(* baseline, below it and below the floor, measured by another instrument, *)
(* without a baseline; unselected with a baseline and without.  The        *)
(* tolerance is one point.                                                 *)
(***************************************************************************)
profile(suite, covered, touched, new, above, base) ==
    [suite |-> suite, lines |-> lines(covered, IF covered = 0 THEN 0 ELSE 200), touched |-> touched, new |-> new,
     scored |-> above > 0, above |-> above, base |-> base]

MCProfiles ==
    { profile("failed", 0, TRUE, NoLines, 0, entry(180, 200, "now", 1)),
      profile("passed", 0, FALSE, NoLines, 0, NoEntry),
      profile("passed", 179, TRUE, lines(9, 10), 1, entry(180, 200, "now", 1)),
      profile("passed", 100, TRUE, lines(1, 10), 2, entry(180, 200, "now", 1)),
      profile("passed", 180, TRUE, NoLines, 0, entry(150, 200, "before", 3)),
      profile("unselected", 0, FALSE, NoLines, 0, entry(190, 200, "now", 2)),
      profile("unselected", 0, FALSE, NoLines, 0, NoEntry) }

(***************************************************************************)
(* Mutants all killed, one of two alive, none that says anything of the    *)
(* suite, a teardown that failed after mutants that do and after none that *)
(* does; stopped with none alive, with one, and with a teardown that       *)
(* failed.                                                                 *)
(***************************************************************************)
outcome(kind, killed, survived, measured, wanted, teardown) ==
    [kind |-> kind, killed |-> killed, survived |-> survived, measured |-> measured, wanted |-> wanted,
     teardown |-> teardown]

MCOutcomes ==
    { outcome(kind, 0, 0, 0, 0, FALSE) : kind \in OutcomeKind \ {"off", "incomplete"} } \cup
    { outcome("completed", 2, 0, 2, 2, FALSE), outcome("completed", 1, 1, 2, 2, FALSE),
      outcome("completed", 3, 0, 3, 3, TRUE), outcome("completed", 0, 0, 1, 1, TRUE),
      outcome("incomplete", 1, 0, 1, 2, FALSE), outcome("incomplete", 0, 1, 1, 3, FALSE),
      outcome("incomplete", 1, 0, 1, 3, TRUE) }

MCModes == {"off", "ungated", "own base", "gated"}
===============================================================================
