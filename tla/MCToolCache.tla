---- MODULE MCToolCache ----
(* Two goroutines of one process and one of another, on one directory. *)
EXTENDS ToolCache, TLC

MCActors == {"first", "second", "other"}
MCProcess == [first |-> "run", second |-> "run", other |-> "another run"]
MCEnv == [first |-> "env", second |-> "other env", other |-> "env"]
MCKinds == {"npm", "toolchain", "cargo", "go", "workspace"}

\* What is left: nothing, what was killed half way or pruned, or all of it.
MCRemains == [npm |-> {Absent, {"dir", "config"}, Full},
              toolchain |-> {Absent, Full},
              cargo |-> {Absent, Empty, {"dir", "rest"}, Full},
              go |-> {Absent, Empty, Full},
              workspace |-> {Absent, {"dir", "rest"}, Full}]

OneEnv == [a \in MCActors |-> "env"]
NPMOnly == {"npm"}
====
