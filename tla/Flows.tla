-------------------------------- MODULE Flows -------------------------------
(***************************************************************************)
(* Every flow lydite declares (internal/flows) and the command that runs   *)
(* it (cmd/lydite): which stages' outputs the command reads afterwards and *)
(* what it exits with.  A stage gives what a condition or a command        *)
(* branches on; red is that some row the command has of it fails, also    *)
(* where the command judges what the stage handed over (the orphan row of  *)
(* a plan, the rows of a fold).                                            *)
(***************************************************************************)
EXTENDS Flow

VARIABLES
    red,    \* whether the command's report has a failing row
    exit    \* what the process said: nothing yet, green, red, error, or
            \* unread, the error of an output that was not there

vars == <<flowVars, red, exit>>

-----------------------------------------------------------------------------
\* What stages give.
Says(field) == [{field} -> BOOLEAN]
Rows == Says("red")

-----------------------------------------------------------------------------
\* internal/flows/test
TestFlow == <<
    Gives(Rows, Stage("declaration", {})),
    Stage("toolchains", {"declaration"}),
    Gives(Rows, Stage("select-affected", {"declaration"})),
    Sure(Stage("prepare-flaky-gate", {})),
    Sure(Gives(Rows, Stage("run",
        {"declaration", "select-affected", "toolchains", "prepare-flaky-gate"}))),
    Sure(Gives(Rows, Stage("flaky-gate", {"run", "declaration"}))),
    Sure(Gives(Rows, Stage("coverage", {"declaration", "run"})))>>

PlanFlow ==
    LET declared == When(FromStage("load-plan-components", "Declared"))
    IN  << Gives(Says("Declared"), Stage("load-plan-components", {})),
           On(<<declared>>, Gives(Rows, Stage("group-shards", {"load-plan-components"})))>>

TestMergeFlow ==
    LET declared == When(FromStage("load-merge-components", "Declared"))
    IN  << Gives(Says("Declared"), Stage("load-merge-components", {})),
           On(<<declared>>, Sure(Gives(Rows, Stage("read-shards", {})))),
           On(<<declared>>, Sure(Stage("read-shard-measurements", {"read-shards"})))>>

\* internal/flows/mutation
MutationFlow ==
    LET declared == <<When(FromStage("load-declaration", "Declared"))>>
    IN  << Gives(Says("Declared"), Stage("load-declaration", {})),
           On(declared, Stage("provision-toolchains", {"load-declaration"})),
           On(declared, Stage("resolve-base", {})),
           On(declared, Stage("select-affected", {"load-declaration", "resolve-base"})),
           On(declared, Stage("scope-change", {"resolve-base", "select-affected"})),
           On(declared, Sure(Gives(Rows, Stage("run-mutants",
               {"select-affected", "load-declaration", "provision-toolchains", "scope-change"}))))>>

MutationRecordFlow == << Sure(Stage("record-mutants", {})) >>

MutationMergeFlow ==
    LET declared == <<When(FromStage("load-components", "Declared"))>>
    IN  << Gives(Says("Declared"), Stage("load-components", {})),
           On(declared, Sure(Gives(Rows, Stage("read-shards", {})))),
           On(declared, Sure(Stage("read-shard-counts", {"read-shards"}))),
           On(declared, Sure(Stage("fold-shard-counts", {"read-shard-counts"}))),
           On(declared, Sure(Stage("read-projections", {"load-components"})))>>

\* internal/flows/review
ReviewFlow ==
    LET publish == When(FromInput("Publish"))
        direct == <<publish, When(FromInput("PostsDirectly"))>>
        renders == <<publish, When(FromInput("RendersOnly"))>>
    IN  << Stage("resolve-base", {}),
           Stage("surfaces", {"resolve-base"}),
           Gives(Rows, Stage("decide", {"resolve-base", "surfaces"})),
           Sure(Stage("check-dirty", {})),
           On(direct, Stage("init-trust", {})),
           On(direct, Stage("init-scm", {"init-trust"})),
           On(<<publish>>, Stage("load-pull-request", {})),
           On(<<publish>>, Stage("compose-status", {"decide", "load-pull-request"})),
           On(renders, Stage("render-status", {"compose-status"})),
           On(direct, Stage("post-status", {"init-scm", "compose-status"}))>>

CompareFlow == <<
    Stage("resolve-base", {}),
    Stage("compare-surfaces", {"resolve-base"}),
    Stage("write-surfaces", {"resolve-base", "compare-surfaces"})>>

-----------------------------------------------------------------------------
\* internal/flows/clearance.  A comment on an issue is never parsed; a
\* decision either clears or answers.
Comments == {[OnPullRequest |-> p, Addressed |-> a] : p, a \in BOOLEAN}
                \ {[OnPullRequest |-> FALSE, Addressed |-> TRUE]}

Decisions ==
    {[Kind |-> k, Clears |-> k = "clear", Answers |-> k # "clear"] :
        k \in {"clear", "exempt", "explain", "refuse"}}

ClearanceFlow ==
    LET addressed == When(FromStage("parse-command", "Addressed"))
        clears == <<addressed, When(FromStage("decide", "Clears"))>>
        answers == <<addressed, When(FromStage("decide", "Answers"))>>
        render == FromInput("Render")
    IN  << Stage("init-trust", {}),
           Stage("init-scm", {"init-trust"}),
           Stage("load-comment", {"init-trust", "init-scm"}),
           Sure(Gives(Comments, Stage("parse-command", {"load-comment"}))),
           On(<<addressed>>, Stage("resolve-head", {"init-scm", "parse-command"})),
           On(<<addressed>>, Stage("check-permission", {"init-scm", "parse-command"})),
           On(<<addressed>>, Stage("read-referral", {"init-scm", "resolve-head"})),
           On(<<addressed>>, Sure(Gives(Decisions, Stage("decide",
               {"init-scm", "parse-command", "resolve-head", "check-permission", "read-referral"})))),
           On(clears, Sure(Stage("fingerprint", {"init-scm", "parse-command", "resolve-head"}))),
           On(clears, Sure(Stage("describe-clearance",
               {"parse-command", "resolve-head", "fingerprint"}))),
           On(Append(clears, Unless(render)), Stage("record-statuses",
               {"init-scm", "resolve-head", "parse-command", "describe-clearance"})),
           On(Append(clears, When(render)), Stage("render-statuses",
               {"resolve-head", "parse-command", "describe-clearance"})),
           On(clears, OnError(RecordAndContinue, Stage("reply-clearance",
               {"init-scm", "parse-command", "describe-clearance"}))),
           On(answers, Stage("compose-reply",
               {"decide", "parse-command", "resolve-head", "read-referral"})),
           On(answers, OnError(RecordAndContinue, Stage("reply",
               {"init-scm", "parse-command", "compose-reply"})))>>

\* internal/flows/record.  Snapshot says whether the baseline decided on holds
\* an entry at all.
Baselines ==
    {[Verdict |-> v, Snapshot |-> s] :
        v \in {"to record", "unchanged", "refused", "nothing to record"}, s \in BOOLEAN}
      \ ({[Verdict |-> "unchanged", Snapshot |-> FALSE]}
         \cup {[Verdict |-> v, Snapshot |-> TRUE] : v \in {"refused", "nothing to record"}})

RecordFlow ==
    LET bound == <<When(FromStage("bind-tree", "Bound"))>>
    IN  << Stage("load-declaration", {}),
           Sure(Stage("read-reports", {})),
           Stage("fold-measurements", {"read-reports"}),
           Gives(Says("Bound"), Stage("bind-tree", {"fold-measurements"})),
           On(bound, Sure(Stage("count-findings", {"load-declaration", "read-reports"}))),
           On(bound, Sure(Stage("bind-mutants", {"read-reports", "bind-tree"}))),
           On(bound, Sure(Stage("compose-ledger-inputs",
               {"fold-measurements", "count-findings", "read-reports", "bind-mutants"}))),
           On(bound, Sure(Stage("compose-records", {"compose-ledger-inputs", "read-reports"}))),
           On(bound, Sure(Gives(Baselines, Stage("decide-baseline",
               {"load-declaration", "fold-measurements", "bind-tree"})))),
           On(bound, OnError(RecordAndContinue, Stage("write-state",
               {"bind-tree", "decide-baseline", "compose-records"})))>>

-----------------------------------------------------------------------------
\* internal/flows/publish, queue, release, scan and threads
PublishFlow == <<
    Sure(Stage("gather-reports", {})),
    Sure(Stage("build-comment", {"gather-reports"})),
    Stage("write-comment", {"build-comment"})>>

QueueFlow == <<
    Stage("load-event", {}),
    Stage("resolve-base", {"load-event"}),
    Stage("recompute-decision", {"resolve-base"}),
    Stage("mint-token", {}),
    Stage("submit-comparison", {"mint-token", "load-event", "resolve-base", "recompute-decision"})>>

ReleaseFlow ==
    LET notFirst == <<Unless(FromStage("previous-tag", "First"))>>
    IN  << Stage("resolve-tag", {}),
           Gives(Says("First"), Stage("previous-tag", {"resolve-tag"})),
           On(notFirst, Stage("read-commits", {"previous-tag"})),
           On(notFirst, Sure(Gives(Rows, Stage("judge",
               {"previous-tag", "resolve-tag", "read-commits"}))))>>

ScanFlow == <<
    Gives([{"SemgrepEnabled", "SecretsEnabled"} -> BOOLEAN], Stage("load-config", {})),
    Stage("load-components", {}),
    Stage("resolve-diff-base", {}),
    Stage("read-changed-lines", {"resolve-diff-base"}),
    Stage("provision-toolchains", {"load-components", "load-config"}),
    Sure(Stage("warn-unscanned", {"load-components", "load-config"})),
    Sure(Stage("plan-components", {"load-components", "load-config", "provision-toolchains"})),
    Gives(Rows, Stage("run-checks", {"plan-components", "read-changed-lines"})),
    Gives(Rows, Stage("gate-licences",
        {"resolve-diff-base", "plan-components", "load-config", "read-changed-lines"})),
    On(<<When(FromStage("load-config", "SemgrepEnabled"))>>, Sure(Gives(Rows, Stage("semgrep",
        {"resolve-diff-base", "load-config", "read-changed-lines"})))),
    On(<<When(FromStage("load-config", "SecretsEnabled"))>>, Sure(Gives(Rows, Stage("secrets",
        {"read-changed-lines"}))))>>

ThreadsFlow ==
    LET apply == <<When(FromInput("Apply"))>>
    IN  << Stage("init-trust", {}),
           Stage("init-scm", {"init-trust"}),
           Stage("load-pull-request", {}),
           Sure(Stage("read-findings", {})),
           Stage("list-threads", {"init-scm", "load-pull-request"}),
           Sure(Stage("plan", {"read-findings", "list-threads", "load-pull-request"})),
           Stage("write-ops", {"plan"}),
           On(apply, Stage("take-down", {"init-scm", "load-pull-request", "plan"})),
           On(apply, Stage("answer", {"init-scm", "load-pull-request", "plan"})),
           On(apply, Stage("open", {"init-scm", "load-pull-request", "plan"}))>>

-----------------------------------------------------------------------------
Declared ==
    [test |-> TestFlow, plan |-> PlanFlow, testMerge |-> TestMergeFlow,
     mutation |-> MutationFlow, mutationRecord |-> MutationRecordFlow,
     mutationMerge |-> MutationMergeFlow, review |-> ReviewFlow, compare |-> CompareFlow,
     clearance |-> ClearanceFlow, record |-> RecordFlow, publish |-> PublishFlow,
     queue |-> QueueFlow, release |-> ReleaseFlow, scan |-> ScanFlow, threads |-> ThreadsFlow]

(* The inputs conditions read.  lydite review posts or renders what it      *)
(* publishes; a rendered status without a publish is refused beforehand.   *)
Inputs ==
    [n \in DOMAIN Declared |->
       CASE n = "review" ->
              {[Publish |-> p, PostsDirectly |-> p /\ ~out, RendersOnly |-> p /\ out] :
                  p, out \in BOOLEAN}
         [] n = "clearance" -> Says("Render")
         [] n = "threads" -> Says("Apply")
         [] OTHER -> {Nothing}]

\* Only these two commands run under signal.NotifyContext.
Signalled == {"test", "mutation"}

ASSUME DeclaredFlowsAreGuarded == \A n \in DOMAIN Flows : Guarded(Flows[n])

-----------------------------------------------------------------------------
\* The commands
Has(s) == status[s] = Succeeded
Reached(s) == status[s] # NotReached
Field(s, f) == Has(s) /\ output[s][f]

(* lydite test reports what ran when a signal stopped the flow after its    *)
(* suites, and lydite threads what it had planned once it began to write.  *)
interrupted == ended = "cancelled" /\ Has("run")
StillReports ==
    \/ flow = "test" /\ interrupted
    \/ flow = "threads" /\ Reached("take-down")

(* clearanceRow *)
clearanceReads ==
    {"parse-command"} \cup
    (IF ~Field("parse-command", "Addressed") THEN {} ELSE {"decide"} \cup
      IF ~Has("decide") THEN {}
      ELSE CASE output["decide"].Kind = "clear" -> {"describe-clearance"}
             [] output["decide"].Kind \in {"explain", "refuse"} -> {"compose-reply"}
             [] OTHER -> {})

(* recordRows *)
recordReads ==
    {"read-reports", "bind-tree"} \cup
    (IF ~Field("bind-tree", "Bound") THEN {}
     ELSE {"count-findings", "compose-records", "decide-baseline"}
            \cup (IF status["write-state"] = Failed THEN {} ELSE {"write-state"}))

(* releaseRow, addTestRows, addThreadsRows, rootScanned *)
releaseReads == {"resolve-tag", "previous-tag"} \cup
    (IF Field("previous-tag", "First") THEN {} ELSE {"judge"})
testReads == {"declaration", "select-affected", "run"} \cup
    {s \in {"flaky-gate", "coverage"} : Reached(s)}
threadsReads == {"read-findings", "init-trust", "load-pull-request", "list-threads", "plan"} \cup
    (IF Has("open") THEN {"take-down"} ELSE {})
scanReads == {"plan-components", "run-checks", "gate-licences"} \cup
    {s \in {"semgrep", "secrets"} : status[s] # Skipped}

(* planShards, mergeTestShards, mergeMutationShards and the mutation        *)
(* command read the rest only of a declaration that names a component.     *)
whenDeclared(load, rest) == {load} \cup (IF Field(load, "Declared") THEN rest ELSE {})
planReads == whenDeclared("load-plan-components", {"group-shards"})
testMergeReads ==
    whenDeclared("load-merge-components", {"read-shards", "read-shard-measurements"})
mutationReads == whenDeclared("load-declaration", {"select-affected", "run-mutants"})
mutationMergeReads ==
    whenDeclared("load-components",
        {"read-shards", "read-shard-counts", "fold-shard-counts", "read-projections"})

(* runReviewFlow, queueRows *)
reviewReads == {"check-dirty", "decide"}
queueReads == {"load-event", "resolve-base", "recompute-decision", "submit-comparison"}

Reads ==
    CASE flow = "test" -> testReads
      [] flow = "plan" -> planReads
      [] flow = "testMerge" -> testMergeReads
      [] flow = "mutation" -> mutationReads
      [] flow = "mutationMerge" -> mutationMergeReads
      [] flow = "review" -> reviewReads
      [] flow = "clearance" -> clearanceReads
      [] flow = "record" -> recordReads
      [] flow = "queue" -> queueReads
      [] flow = "release" -> releaseReads
      [] flow = "scan" -> scanReads
      [] flow = "threads" -> threadsReads
      [] OTHER -> {}

\* Mutation: only a snapshot with entries was a baseline to land.
recordFailsRecorded ==
    \/ ~output["bind-tree"].Bound
    \/ output["decide-baseline"].Verdict = "refused"
    \/ status["write-state"] = Failed /\ output["decide-baseline"].Snapshot

(* recordRows: a tree that is not the measured one, a baseline that is      *)
(* refused, and a write that did not land when there was one to land.      *)
recordFails ==
    \/ ~output["bind-tree"].Bound
    \/ output["decide-baseline"].Verdict = "refused"
    \/ /\ status["write-state"] = Failed
       /\ output["decide-baseline"].Snapshot \/ output["decide-baseline"].Verdict = "to record"

RowsFail ==
    \/ flow = "record" /\ recordFails
    \/ \E s \in DOMAIN output : "red" \in DOMAIN output[s] /\ output[s].red

(* A matrix with no entry and a fold over no component are refused.         *)
NothingDeclared ==
    \E c \in {<<"plan", "load-plan-components">>, <<"testMerge", "load-merge-components">>,
              <<"mutationMerge", "load-components">>} :
        flow = c[1] /\ ~Field(c[2], "Declared")

Ends(code) == exit' = code /\ UNCHANGED <<flowVars, red>>

(* The report, or what goes with it, may fail to be written. *)
Writes(code) == Ends(code) \/ Ends("error")

(* lydite mutation records what it counted once it has its rows. *)
Record ==
    /\ red' = RowsFail
    /\ Begin("mutationRecord", Nothing)
    /\ UNCHANGED exit

(* A flow that stopped is its error, said before any row is.  lydite        *)
(* threads writes its rows and is the error all the same; lydite test,     *)
(* interrupted, is the error unless a row fails.                           *)
Report ==
    /\ ~Running /\ exit = "none"
    /\ IF ended # "returned" /\ ~StillReports THEN Ends("error")
       ELSE IF ~(\A s \in Reads : Has(s)) THEN Ends("unread")
       ELSE IF NothingDeclared THEN Ends("error")
       ELSE IF flow = "mutation" /\ Field("load-declaration", "Declared") THEN Record
       ELSE IF flow # "threads" /\ (red \/ RowsFail) THEN Writes("red")
       ELSE IF ended # "returned" THEN Ends("error")
       ELSE Writes("green")

-----------------------------------------------------------------------------
Init ==
    /\ FlowInit
    /\ flow # "mutationRecord"      \* no command of its own
    /\ red = FALSE
    /\ exit = "none"

Finished == exit # "none" /\ UNCHANGED vars

Next ==
    \/ FlowStep /\ UNCHANGED <<red, exit>>
    \/ Report
    \/ Finished

Spec == Init /\ [][Next]_vars

-----------------------------------------------------------------------------
TypeOK ==
    /\ FlowTypeOK
    /\ red \in BOOLEAN
    /\ exit \in {"none", "green", "red", "error", "unread"}

(* flow.Run, flow.Output: whatever stages fail, are skipped or are cut off,  *)
(* no stage and no command reads a value that is not there.  Each flow's   *)
(* conditions, its stages' answers and its command's branches are written  *)
(* in three packages and have to agree.                                    *)
NothingUnread == NeverMiswired /\ exit # "unread"

Tried(s) == status[s] \in {Succeeded, Failed}
Done(S) == \A s \in S : Has(s)

(* What each command must have done to say that all is well.  A reply that  *)
(* was not posted, and a history that was not appended when there was no   *)
(* baseline to land, are only warned of.                                   *)
Owed ==
    CASE flow = "clearance" ->
           IF ~Field("parse-command", "Addressed") THEN {"parse-command"}
           ELSE IF ~Field("decide", "Clears") THEN {"decide", "compose-reply"}
           ELSE {"decide", IF given.Render THEN "render-statuses" ELSE "record-statuses"}
      [] flow = "review" ->
           {"decide"} \cup (IF given.RendersOnly THEN {"render-status"} ELSE {})
                      \cup (IF given.PostsDirectly THEN {"post-status"} ELSE {})
      [] flow = "record" ->
           {"read-reports", "decide-baseline"} \cup
           (IF output["decide-baseline"].Verdict = "nothing to record" THEN {} ELSE {"write-state"})
      [] flow = "release" ->
           {"previous-tag"} \cup (IF Field("previous-tag", "First") THEN {} ELSE {"judge"})
      [] flow = "scan" ->
           {"run-checks", "gate-licences"}
             \cup (IF Field("load-config", "SemgrepEnabled") THEN {"semgrep"} ELSE {})
             \cup (IF Field("load-config", "SecretsEnabled") THEN {"secrets"} ELSE {})
      [] flow = "threads" ->
           {"write-ops"} \cup (IF given.Apply THEN {"take-down", "answer", "open"} ELSE {})
      [] flow = "mutation" -> {"load-declaration"}
      [] OTHER -> Names(Flows[flow])

GreenIsEarned == exit = "green" => ended = "returned" /\ Done(Owed)

(* What reaches the forge or the branch comes after what it speaks of: a    *)
(* clearance is replied to as recorded once it is, by one route; a review  *)
(* that renders holds no credential; a baseline is written where its tree  *)
(* is checked out; threads are taken down and answered before new ones.    *)
EffectsAreEarned ==
    /\ flow = "clearance" =>
         /\ Tried("reply-clearance") =>
              /\ Has("record-statuses") # Has("render-statuses")
              /\ Has("record-statuses") = ~given.Render
         /\ Tried("reply") => ~Tried("record-statuses") /\ ~Tried("render-statuses")
    /\ flow = "review" =>
         /\ Tried("init-trust") \/ Tried("init-scm") => given.PostsDirectly
         /\ Tried("post-status") \/ Tried("render-status") => Done({"decide", "load-pull-request"})
         /\ ~(Tried("post-status") /\ Tried("render-status"))
    /\ flow = "record" /\ Tried("write-state") => Field("bind-tree", "Bound")
    /\ flow = "threads" /\ Tried("open") => Done({"write-ops", "take-down", "answer"})

(* The commands: no output is read that is not there, and an exit of        *)
(* success, and whatever was written before it, stand on the stages they   *)
(* speak for, wherever a run failed or was cut.                            *)
AnswersAreEarned == NothingUnread /\ GreenIsEarned /\ EffectsAreEarned
=============================================================================
