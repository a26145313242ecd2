---------------------------- MODULE MCMutationRun -----------------------------
(***************************************************************************)
(* Small instance of a mutation run: a component with a service, and one  *)
(* with none whose two mutants run side by side.  The previous run left a  *)
(* verdict on a mutant since acknowledged, or all there is to know of the  *)
(* first component.                                                        *)
(***************************************************************************)
EXTENDS MutationRun

MCSegment == {"api", "web"}
MCPort == {5432}
MCComponent == {"api", "web"}

item(dir, ports) == [dir |-> <<dir>>, occupies |-> <<>>, ports |-> ports]
MCDeclared == [c \in MCComponent |->
    CASE c = "api" -> item("api", {5432})
      [] c = "web" -> item("web", {})]

MCMutant == {"a1", "a2", "w1", "w2", "w3"}
MCFile == {"x", "y"}
MCMutantsOf == [c \in MCComponent |->
    CASE c = "api" -> <<"a1", "a2">>
      [] c = "web" -> <<"w1", "w2", "w3">>]
MCFileOf == [m \in MCMutant |-> IF m = "w3" THEN "y" ELSE "x"]
MCFileOfEach == [m \in MCMutant |-> IF m = "a1" THEN "x" ELSE "y"]
MCAcknowledged == {"w2"}
MCLeft == { [m \in {"w2"} |-> "killed"], [m \in {"a1", "a2"} |-> "survived"] }
MCMeasured == {"web"}
MCOverlaid == {}
MCFaulty == {"api"}
ends(build, suite) == [of \in {"build", "suite"} |-> IF of = "build" THEN build ELSE suite]
MCEnds == [m \in MCMutant |->
    CASE m = "a1" -> ends({"passed"}, {"passed", "failed"})
      [] m = "a2" -> ends({"passed", "starved"}, {"exceeded"})
      [] m = "w1" -> ends({"passed"}, {"passed", "starved"})
      [] OTHER -> ends({"failed", "passed"}, {"failed"})]
MCPhases == [c \in MCComponent |-> 1]
===============================================================================
