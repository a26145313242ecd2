---- MODULE MCClearance ----
(* A small pull request: two revisions, people's comments and a queue entry. *)
EXTENDS Clearance, TLC

MCPaths == {"a", "b", "rules"}
OnlyA == [paths |-> {"a"}, marks |-> {}, declared |-> FALSE, surfaces |-> <<>>, deps |-> <<>>]
BrokenA == [OnlyA EXCEPT !.surfaces = [api |-> "broken"]]
MCChanges == {OnlyA, BrokenA}

\* Fails when its surfaces are compared, is referred when they cannot be, and
\* carries a mark no exemption forgives: every verdict but a first success.
BrokenMarkedA == [BrokenA EXCEPT !.marks = {<<"inline ignore added", "a">>}]
QueuedChanges == {BrokenMarkedA}

CoversA == {[covers |-> {"a"}, conditional |-> FALSE]}
MCRuleFiles == {{}, CoversA}
NoRules == {{}}
MCCommands ==
    {[verb |-> "clear", sha |-> 0, writer |-> TRUE], [verb |-> "clear", sha |-> 1, writer |-> TRUE],
     [verb |-> "clear", sha |-> 0, writer |-> FALSE], [verb |-> "exempt", sha |-> 0, writer |-> TRUE]}
MCBatches == {Alone, [Alone EXCEPT !.paths = {"b"}], [Alone EXCEPT !.altered = TRUE]}
====
