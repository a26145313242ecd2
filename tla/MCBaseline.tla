---- MODULE MCBaseline ----
(* Two components, the second depending on the first, and a raw command. *)
EXTENDS Baseline, TLC

MCComponents == {"a", "b", "script"}
MCFiles == {"a/x", "b/x", "Makefile", "go.sum"}
MCUnder == [a |-> {"a/x"}, b |-> {"b/x"}, script |-> {}]
MCWatch == [c \in MCComponents |-> {}]
MCDependsOn == [a |-> {}, b |-> {"a"}, script |-> {}]
MCReaches == ("a/x" :> {"b"}) @@ ("b/x" :> {"b"}) @@ ("Makefile" :> {"a"}) @@ ("go.sum" :> {"a"})
MCShards == [all |-> MCComponents, justB |-> {"b"}]

Edit(files, lines) == [files |-> files, declared |-> MCComponents, lines |-> lines, rebuilt |-> FALSE]
MCChanges ==
    {Edit({"a/x"}, 50), Edit({"b/x"}, 49), Edit({"Makefile"}, 50),
     [Edit({"go.sum"}, 50) EXCEPT !.rebuilt = TRUE],
     [Edit({"go.sum"}, 50) EXCEPT !.declared = {"a", "script"}]}
MCUncovered == {10, 11}
====
