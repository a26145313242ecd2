------------------------------- MODULE MCTestRun -------------------------------
(***************************************************************************)
(* Small instance of `lydite test`: two components publish one port, one   *)
(* of them only through a dependency; two share a root and so a report     *)
(* file; one's services cannot be waited for.  The change introduces a     *)
(* test by a name two suites of a component record.                        *)
(***************************************************************************)
EXTENDS TestRun

MCComponent == {"api", "web", "cli", "ops"}
MCSegment == {"api", "web", "ops"}
MCPort == 5432 .. 5433
MCService == {"app", "db", "pg", "mq"}
Single(p) == <<p, p>>
Nothing == [s \in {} |-> s]
MCServices ==
    [api |-> [s \in {"app", "db"} |->
                IF s = "app" THEN [ports |-> {}, deps |-> {"db"}, health |-> TRUE]
                ELSE [ports |-> {Single(5432)}, deps |-> {}, health |-> TRUE]],
     web |-> [s \in {"pg"} |-> [ports |-> {Single(5432)}, deps |-> {}, health |-> TRUE]],
     ops |-> [s \in {"mq"} |-> [ports |-> {Single(5433)}, deps |-> {}, health |-> FALSE]],
     cli |-> Nothing]
MCUp == [api |-> {"app"}, web |-> {}, ops |-> {}, cli |-> {}]
MCWait == [c \in MCComponent |-> "healthy"]
MCDir == [api |-> <<"api">>, web |-> <<"web">>, ops |-> <<"ops">>, cli |-> <<"api">>]
MCOccupies == [c \in MCComponent |-> <<>>]
MCReportOf == [api |-> "api", web |-> "web", ops |-> "ops", cli |-> "api"]
MCSelections == { {"api", "web", "cli"}, {"api", "ops"} }

\* new and old have one name, in two suites of web; only old is flaky.
MCTest == {"new", "old"}
MCSuite == [t \in MCTest |-> "web"]
MCScope == [t \in MCTest |-> t]
OneScope == [t \in MCTest |-> "web"]
MCClass == [t \in MCTest |-> t]
MCName == [t \in MCTest |-> "TestX"]
MCIntroduced == {"new"}
MCOutcomes ==
    [c \in MCComponent |->
        IF c = "web" THEN { [t \in MCTest |-> IF t = "new" THEN "pass" ELSE o] : o \in {"pass", "fail"} }
        ELSE { [t \in {} |-> "pass"] }]
Nobody == {}
Web == {"web"}

\* What the theorems about ports and reports suppose is so here.
ASSUME MCNoRanges == NoRanges
ASSUME MCReportsAreTold == ReportsAreTold
================================================================================
