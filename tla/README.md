# A verification development for lydite

lydite is a command line tool (`src/source/cli`, Go) that gates pull requests: it runs a
repository's test suites, scanners and mutation testing, records what they measured on a *state
branch* of the repository, and publishes verdicts through a small relay
(`src/source/cloud-services`, TypeScript). This directory holds TLA+ models of the parts of it
that are concurrent, crash-prone, retried or decided from many partial answers, the TLC
configurations that check them, and theorems about them checked by TLAPS. `PROJECT.json` is the
machine-readable index: components, runs, the mutation of the model that breaks each property, the
source lines behind each definition, hazards, findings and theorems. Paths below are relative to
`src/source/cli` unless they say otherwise.

1. [The system](#1-the-system) · 2. [Plan](#2-plan) · 3. [Modules and the code](#3-modules-and-the-code)
· 4. [What the runs check](#4-what-the-runs-check) · 5. [Disagreements found](#5-disagreements-found)
· 6. [What is proved](#6-what-is-proved) · 7. [What is not covered](#7-what-is-not-covered)

## 1. The system

### Components with state of their own

| component | state it keeps | operations | what makes it correct |
|---|---|---|---|
| **scheduler** (`internal/scheduler`) | pending items, held paths and ports, a running count, a mutex and a condition variable | `Run`: one loop, one goroutine per item | items that write into one tree or publish one port never run together; at most `limit` at once; no sleep while something could start; every wait ends; nothing runs or is held when it returns |
| **test runner** (`internal/test/run`, `internal/compose`) | services, reports and results per component | plan, setup, suite, rerun, measure, teardown; the stages after | no path leaks a stack; a component meets no other's ports and measures its own report; an interrupted run is not green |
| **matrix** (`internal/stages/test/plan.go`, `cmd/lydite` merge, fold, measurements) | a union-find forest; the report directories of the jobs | `GroupShards`; `lydite test` or `lydite mutation` per job; `lydite test merge`, `lydite mutation merge` | the jobs are the partition by contention; a merged report that passes stands for a whole run; sharding does not show in it |
| **affected components and baseline** (`internal/affected`, `internal/stages/test/candidate.go`, `internal/stages/record`, `internal/test/measure`) | a baseline document per metric and tree, on the state branch | select, compare, carry, restore a dip, fold, record | a baseline covers every component, describes its own tree, and does not sink through tolerated dips |
| **state branch** (`internal/gitstate`) | a git branch every recording job shares: baselines and the quality history | `Write`: fetch, stage, commit, push, up to 3 attempts; `ReadSnapshot` | nothing another job recorded is lost; one record per commit, branch and kind; success means it is there; a baseline and its record land together |
| **ledger** (`internal/ledger`, `internal/stages/ledger`) | the history's files: monthly partitions of lines, daily rollups | `Append`, `Recorded`, `BranchState`, `project`; `ComposeRecords` | gaps tell the truth, holes are marked, the open findings are what the last scan saw, rollups agree with the lines |
| **mutation run** (`internal/mutation/executor.go`, `worktree.go`, `internal/stages/mutation`) | suite slots, a queue of mutants, workers' copies of the tree, results | `RunMutants`, `Execute`, the command's report | a verdict is from a whole suite of that mutant alone; a cut-short run is reported as one |
| **mutation state** (`internal/mutation/state.go`) | a directory: fingerprint, baseline, appended verdicts | `OpenState`, `Record`, `Verdicts`, `SaveBaseline`, `Baseline`, `Close` | a resumed run reuses only what is valid for its tree, and all of it that was recorded |
| **tool cache** (`internal/toolchain`, `internal/download`, `internal/typescript`, `internal/cargotool`, `internal/nodedeps`) | directories every process of a machine shares | look, lock, stage, rename, recover, build in place, answer | no half install passes for a finished one; a husk heals without anybody's help |
| **referral and clearance** (`internal/referral`, `internal/reviewdecision`, `internal/clearance`, `internal/stages/clearance`) | two commit statuses on the forge | decide, post directly or through the relay | a referral is cleared only for the change and the reasons its reviewer saw, and never without its record |
| **merge queue, relay** (`internal/stages/queue`, `../cloud-services`) | none of their own; read and write the forge | `/status`, queue outcome, review threads | a merge group gets its pull request's verdict; nobody writes where their token does not say |
| **scan and its scanners** (`internal/stages/scan`, `internal/golang`, `rust`, `typescript`, `shell`, `semgrep`, `secrets`, `licence`; `internal/stages/record`) | one document per scan; the open findings of the state branch | plan, check, gate licences, scan the whole repository, report; count, scope and record | a claim is called resolved only by a tool that looked; a pass stands for a clean tree; a licence verdict is the change's |
| **review threads** (`internal/threads`, `internal/stages/threads`) | threads and a standing comment on the forge | list, take down, answer, open | one thread per claim, nobody's words deleted, a partial failure heals on the next run |
| **flow engine and flows** (`internal/flow`, `internal/flows`, the commands of `cmd/lydite`) | how far each stage of a run got and what it gave | `Build`, `Run`, `Output`; fifteen declared flows and what each command reads of its flow | no stage and no command reads a value that is not there; a command that says all is well did what it owed |

The rest (coverage and JUnit parsers, declarations, forge client, tree-sitter bindings, the
command line) are functions of text or thin I/O. `PROJECT.json` lists every one with the reason it is
not modelled, or what of it is.

### How they interact

```
 declarations -> shard planner -> jobs of a CI matrix (one machine each)
                     | same Conflicts relation             \
 lydite test / mutation -> scheduler.Run -> one goroutine    report directories -> the merge
              |                              per component        |  measurements.json
        tool cache (per machine)        | lydite mutation         v
                                        v                    record flow (ratchet)
          slots <- baseline suite, Execute: dispatcher -> workers |
                                        | Record / Verdicts       v
                       mutation state directory      ComposeRecords -> gitstate.Write
                                                                  |
   affected.Select <- baseline of the tree it forks from <- state branch <- other jobs' Write
 
 referral -> pending status -> a person's comment -> clearance -> statuses (direct, or relay)
 lydite scan -> scanners, licence gate -> scan.json -> record flow (findings) -> ComposeRecords
 findings -> threads (App through the relay, or the workflow's token) -> forge
 merge group -> queue -> relay reads the head's status, posts the outcome
```

Shared state: the scheduler's locks, the slots and the install locks inside one process; the mutation
state directory between successive processes; the tool cache between processes of one machine; the
report directories between the jobs of a matrix and its merge; the state branch between concurrent
CI jobs; statuses, threads and comments on the forge between jobs, the relay and people.

### Which behaviours are hard

* **Interleaving.** The scheduler's goroutines release while its loop sleeps or is about to; the
  executor's workers, dispatcher and contexts; two installers of one tool; recordings that push to one
  branch at once; a person who replies while a run deletes.
* **Cancellation.** An interrupt or a deadline at any step. Two causes cancel one context, and a
  killed process looks the same whatever killed it.
* **Retries and lost answers.** A push that landed and was not acknowledged; a re-run job; a run that
  falls back from one identity to another.
* **Stale reads.** What an attempt stages is computed from the branch as it fetched it; a status is read
  and then posted over; a report of an earlier run lies where this one's should.
* **Ordering.** Recordings land in another order than their commits; commits share a second.
* **Crashes.** A process killed between two file operations, in the middle of a line, half way through an
  install, or between two statuses.
* **Partial failure.** Staging, restoring, saving, pushing, or one job of a matrix fails; a scanner crashes,
  skips what it cannot parse, or stops half-way, and each says so in its own way or not at all.
* **Rounding.** A count restored from a percentage, change after change.
* **Limits.** The concurrency limit, the attempts, the months looked back.

The forty places where these bite are in `PROJECT.json` under `hazards`, each with its line and the
properties that watch it.

## 2. Plan

The order put what every command rests on first, then what outlives a process, then what is
decided from it, then what people and other systems do to that decision.

| # | modules | composes | abstract specification | state |
|---|---|---|---|---|
| 1 | `Items`, `Scheduler`, `EngineProofs` | | `BoundedExclusion` | done |
| 2 | `ShardPlan`, `EngineProofs` | `Items` | the finest conflict grouping, as an invariant | done |
| 3 | `Ledger`, `StateBranch`, `StateBranchProofs` | `StateBranch` extends `Ledger` | the history only grows (`NothingIsLost`) | done |
| 4 | `MutationRun`, `MutationProofs` | `Items`; the scheduler through what `BoundedExclusion` promises | | done |
| 5 | `MutationResume`, `MutationProofs` | | | done |
| 6 | `Referral`, `RelayRules`, `Clearance`, `ClearanceProofs` | `Clearance` extends both | | done |
| 7 | `Threads`, `ThreadsProofs` | `RelayRules`' admission of the review route | | done |
| 8 | `Affected`, `Figures`, `Baseline`, `BaselineProofs` | `Baseline` extends both; `Write` as `StateBranch` describes it | | done |
| 9 | `ToolCache`, `ToolingProofs` | | | done |
| 10 | `Compose`, `Flaky`, `TestRun`, `TestRunProofs` | `Items`; the scheduler through what `BoundedExclusion` promises | | done |
| 11 | `Rows`, `TestReport`, `Fold`, `Matrix`, `EngineProofs` | `ShardPlan`, `Figures`, and one another | one unsharded run (`ShardingIsInvisible`) | done |
| 12 | `MutationFold`, `EngineProofs` | `Fold`; `Matrix` extends it | one unsharded run (`ShardingIsInvisible`) | done |
| 13 | `Flow`, `Flows`, `EngineProofs` | `Flows` extends `Flow` | | done |
| 14 | `Scanners`, `Licences`, `Scan`, `ToolingProofs` | `Scan` extends both, and takes `findingEvents` of `Ledger` | what each tool would claim if it looked at everything (`Standing`) | done |
| 15 | the size cap of a month's parts under `Ledger` | | one sequence of lines | open |

Every safety property that a run checks is also proved, but for one: `AnswersAreEarned` of `Flows`. That
module declares no constants, so TLC's exploration of it is exhaustive and a theorem would say no more.

## 3. Modules and the code

A convention throughout: definitions keep the source's names where TLA+ allows it, and an operator
after a comment `Mutation: ...` is a plausible bug. It is never used by the specification; it is
what `PROJECT.json` puts in place of the real definition to see that a property notices.

**`Items`** is the top of `internal/scheduler/scheduler.go`: what an item holds (`occupied`), when
two paths overlap (`contains`, `dirsOverlap`), what two items share (`sharedTrees`, `shared`), and
`Conflicts`, `Pairs`. A path is the sequence of its segments.

**`Scheduler`** is `Run`. The loop holds the mutex except in `cond.Wait`, so the loop's body is
`Start`, `Park`, `Wake` and `Return`, and a goroutine's deferred release (`Release`) is possible only
while the loop is parked or signalled. The caller's function ends in `Finish`, which needs no lock.
`Cancel` may come at any point. `heldDirs` is a bag, because the code keeps a list and removes one
equal entry per path. **`BoundedExclusion`** says the same with no lock or thread.

**`ShardPlan`** is `GroupShards`: `planItems`, one `Union` per conflict (in any order; the code uses
one), `Group` (the shards in the order their roots are first met), `uniqueShardNames`. Names are sequences of the words between hyphens, so that joining
them is as ambiguous as it is in the code.

**`Ledger`** is what a recording appends and derives: `Recorded` (identity), `previous` and `open`
(`BranchState`'s two answers), `findingEvents`, `gapBefore`, `landing` (`Append`) and `project`. The
monthly files are one sequence of records in landing order; the module's header says why that is
exact. A commit has its first-parent chain (`Chain`) and its ancestors by any parents (`Past`), since
`CommitsBetween` asks git about both: whether the last recorded commit is an ancestor at all, and how many
commits of the chain it does not reach. A shallow checkout is one of depth one.

**`StateBranch`** is `gitstate.Write`. `Stage` is fetch and staging on what was fetched (or the
discovery that there is nothing to commit), `Push` and `PushRefused` the push, `PushUnacknowledged`
a push whose answer is lost, `StageOrphan` a failing `ls-remote` read as "no branch", `GitFails` any
other failure, `Kill` the end of the job. The remote accepts a push exactly when it fast-forwards.
What a job brings (`plan`) is chosen once. `faulty` is a history variable the properties read.

**`MutationRun`** is one `lydite mutation`: `Start` is the scheduler as `BoundedExclusion` promises
it; `Prepare`, `StartBaseline`, `AbandonBaseline`, `EndBaseline`, `OpenWorkers` are `mutateComponent`
up to the mutants; `Check` and `handOver` the dispatcher and its unbuffered queue; `Stage`,
`StartCommand`, `EndCommand`, `GiveUp` and `StageFails` a worker; `Return` the end of `Execute`;
`Publish` the command's report with its counts and withdrawals. A worker's tree says what each file
holds: the source, a mutant, or half of one. A command's end is drawn from the ends its mutant can
have, and a cancellation overrides it, as the code asks the run's context first.

**`MutationResume`** is the state directory across runs, one file operation per step, so that a kill
can fall between any two: `ReadFingerprint`, `Discard` (verdicts, baseline, then the fingerprint),
`Open` with `terminateTornLine`, `Recall`, `Measure`, `Save`, `Know`, `Record`. `Unfinished` is what an
interrupted write leaves. A verdict carries, as history, the fingerprint and the budget it was
measured under.

**`Referral`** is what makes a change a person's to decide: `referral.Decide` with its exemptions, the
fingerprint of the reasons, and `reviewdecision`'s verdict, as operators on the set of paths a change
touches and the rules file it carries. **`RelayRules`** is who may write where: which claims a token
carries, the target they resolve to, and the routes' conditions. **`Clearance`** is one pull request:
pushes; reviews that publish a verdict (`Review`); a person's `Comment`; the job that answers it,
reading the head and the referral, refusing in the code's order, then posting the record and the
resolution, directly or through the relay, each request a step that may be the job's last; and merge
group entries, whose outcome the relay computes from the head's status. A status is the last one
posted for its context. `read` is a history variable: what the comment's author had in front of them.

**`Threads`** is one flow at a time over one pull request: list once, plan (`Located`, `Group`,
`Delta`), then take down, answer and open, a request per step, each of which may fail, be refused or
be the last. A run writes as the App, through the relay, or as the workflow's token when that fails;
the two have different names and different rights, which is what `OneOfEach` is about. A plan
is three sets, what to delete, where to answer and what to open; the deletes come one thread after the
other, each root after its replies (`Sooner`). A revision makes finitely many claims. A person may
reply between any two requests.

**`Affected`** is `affected.Select`: invalidators, declared roots, watches, and the dependents of what was
reached (`Spread`: what every set closed under dependents that holds the touched components holds, which
is where the loop of the code ends).
**`Figures`** is how a percentage is rounded, compared and restored, in tenths of a point.
**`Baseline`** puts them in a history of trees: a change edits files and what they leave uncovered; a
run of `lydite test`, whole or affected, sharded or not, reads the baseline of the tree it forks from
and proposes a candidate; `lydite test record` folds what arrived, binds it to its tree, decides
against what the branch already holds for it, and writes with `Write`'s retries, two such jobs at once.
Of an entry the history variable `high` is the most lines it held since its component last changed size
or regressed; the code does not keep it.

**`ToolCache`** is every installer's use of its directory: the five kinds differ in what they look
at, whether they lock, whether they stage beside the target and rename or build in place, and what
they do on finding another's remnant. One step per file-system call; a process may die at any one,
and the cache starts with anything a dead process could have left (`Remains`).

**`Compose`** is which services a component's compose file brings up, the wait that is refused, and
the host ports read for the scheduler. **`Flaky`** is how the flaky gate reads the outcomes of two
reports and compares them. **`TestRun`** is `lydite test` on one machine, twice: planning, then per
component services up and waited for, setup, suite, rerun of new tests, measurement, services down;
then the stages after the last suite and the exit, with an interrupt at any step and a second signal
after it. Places (directories), stacks and ports outlive a run.

**`Rows`** is the rows of a report: component, patch, composed, CRAP and floor
(`internal/test/measure/rows.go`). A report is a set of rows, each a label, a status and a value.
**`TestReport`** is what one `lydite test` leaves in its report directory: the rows, and
`measurements.json` in the modes that write one (gated; compared with its own base; a gate whose
baseline could not be read; ungated; off). A component's run is summed up in a *profile*: how its suite
went and what was measured. **`Fold`** is `lydite test merge` on the directories that arrived.
**`MutationFold`** is the same for mutants: what one `lydite mutation` leaves (the rows of its report,
whether it was left incomplete, and the counts of `mutants.json`), given what became of each component's
mutants, a teardown that failed, an interrupt that withdraws verdicts and a deadline; and `lydite
mutation merge` on the directories that arrived, with counts that disagree, rows that contradict counts
and rows that stand alone. **`Matrix`** is all of it in a row: `Planning` (the steps of `ShardPlan`),
`StartJobs`, which picks the command and its flags, one `RunJob` per job with what may happen to it, `Merge`,
which refuses when no directory arrived.

**`Flow`** is `flow.Run`: what becomes of the stage whose turn it is (`Stop`, `Skip`, `Succeed`, `Fail`), the
end (`ReturnResult`), and a signal (`Interrupt`), which is seen before the next stage and not earlier. Of `Build`'s
checks it keeps those that decide whether a value can be read (`Builds`, an assumption on the declared
flows). A stage's bindings are reduced to the stages they come from. **`Flows`** is the fifteen flows as
`internal/flows` declares them, each a sequence of stages with conditions, reads and error policy, and then
each command: which outputs it reads afterwards (`Reads`), when it fails a row (`RowsFail`), and its exit
(`Report`). `lydite mutation` runs two flows, one after the other (`Record`). A report that could not be
written is an error (`Writes`). Where the command itself judges what a stage handed over, such as the
orphan row of a plan, the stage's `red` stands for that too.

**`Scanners`** has a section per tool. `XRuns(truth)` are the runs the tool may make over what is true of a
tree, each what the process leaves behind: how it exited and what it wrote, whole, torn or absent.
`XResult(run)` is the wrapper: whether the row fails, the claims, and whether they are a complete answer
(`crashed`). A claim is its site and the number of claims of that site before it (`Number`), so a report
with one left out renames the next; ShellCheck's and gitleaks' sites are cut out of the line (`sited`).
`cut` in a result is not the code's: it marks a run that was cut short and left no trace a wrapper could
tell from a whole one. **`Licences`** is `internal/licence` (`Evaluate`, `Reject`, `Compare`) with the three
readers of dependencies: `go list`, `cargo deny` under one of two policies, and the nearest lockfile's
workspace, whose npm part is Node's own resolution walked to a fixpoint (`memberClosure`). **`Scan`** is the
flow over one repository: `ScanChange` (against the merge-base) or `ScanLanded`; `RunChecks` and
`GateLicences`, a component per step, with the base's worktree opened once; `Semgrep`, `Secrets`; `Report`,
which forgets everything but the document; then `Record`, which turns the document into the transitions
`Ledger`'s `findingEvents` allows, or `Decide`. `NothingToReport` is every stage before the checks failing. `ScanAssumption` says what is
scanned: a declaration that names each component once (`Declared`, `component.go:332`), and trees a
language's tools can be run over (`WellFormed`).

How the modules compose rather than repeat: `MutationRun.Start` and `TestRun` rely on
`BoundedExclusion`, which `Scheduler` is shown to implement; `MutationRun` begins with verdicts a
previous run left (`Left`), which is what `MutationResume` establishes of the directory; `Baseline`
and `Rows` share `Figures`, so that the ratchet and the rows round alike; `Matrix` extends the planner
and the fold; `Scan` records through the same `findingEvents` that `StateBranch` lands.

## 4. What the runs check

Run one with `tlc -config <cfg> <module>.tla`.

| run | bounds | distinct states |
|---|---|---|
| `scheduler` | all lists of at most 3 of 7 items and of 4 of a chain of conflicts; limits 0, 2, 3 | 159,728 |
| `state_branch` | 3 jobs, 11 plans over 5 commits and 2 branches, 2 attempts | 88,046 |
| `mutation_run` | 2 components, 5 mutants, 2 slots, at most 2 workers each | 141,791 |
| `mutation_resume` | 4 runs, 2 mutants, 2 fingerprints, 2 faults, any number of kills among the runs | 1,463,495 |
| `matrix` | all declarations of at most 4 of 7 components planned; two of them run, for tests with 7 profiles and 4 modes, for mutants with 14 outcomes and a gate or none; at most 2 jobs something happens to | 1,162,082 |
| `pull_request` | 2 revisions, 2 posts of a verdict each, 1 comment, 1 queue entry | 876,632 |
| `threads` | 1 claim on a line or on its file, 2 pushes, 3 runs, 1 reply, 2 identities | 1.78 million |
| `baseline` | 3 components, one a raw command, 2 trees, 2 runs, 2 recording jobs, 3 attempts | 94,425 |
| `tool_cache` | 3 actors in 2 processes, 5 kinds of installer, every remnant | 8,647 |
| `test_run` | 2 runs over a selection of 4 components, limit 2, an interrupt and a second signal anywhere | 329,946 |
| `flows` | all fifteen flows, every input their conditions read, any stage failing, a signal anywhere in the two commands that take one | 1,411 |
| `scan` | 10 repositories of 1 to 3 components and 2 or 3 trees, 2 recordings, any number of changes scanned | 835,850 |

**`scheduler`.** The palette holds the shapes paths can have to one another (equal, nested, sibling,
none), an item that repeats a path and nests another in its own root, shared and unshared ports. Three
items are enough for two releases between a `Wait` and the wake; the four-item chain has an item
blocked by two others that do not block each other. Limit 0 is the code's normalisation, 2 is met
and exceeded, 3 is not reached by every list. Checked: the refinement of `BoundedExclusion`, and
`RunReturns` under fairness.

**`state_branch`.** The plans are the situations the ledger distinguishes: commits in and out of order,
a re-run, one commit on two branches, a force-push, three merges (of what was recorded last into a replaced
line, into a commit never recorded, and into the one it began at), a shallow clone, a bucket that was not scanned or
whose scanner crashed, a restored tree, a baseline without a history, a silence longer than the
months looked back. The calendar is scaled down (a month is four ticks, a day two). The code makes
3 attempts; the run makes 2, which is where three jobs can exhaust them, and an attempt keeps nothing
of the one before it but the count. What does depend on the count (`OverlapTolerated`) is proved for
every number. Checked: nothing is lost or doubled; a recording fails only when
as many others landed; a baseline has its entry; a gap is true when it lands, lines replaced and merged back apart (section 5),
and every hole has one (`GapsAreTheHoles`); readers are told what the records say (`ReadersAgree`): the open set is the last
scan's, the rollup agrees. The open set is asked for one tick after its scan, in the same month: in a
later month the months looked back are others, and an old claim may have left them.

**`mutation_run`.** One component publishes a port, so has one worker, whose writes may fail; both of its
mutants are in one file. The other has two workers and three mutants, one acknowledged. Interrupt and
deadline come at any point, both in one run too. Two slots are fewer than the three suites that would
run. Checked: `VerdictsStand` (no verdict from a suite in flight when the run was cancelled, and none changes
or is decided twice), `MutantUnderTest`, and `RunReports` under fairness.

**`mutation_resume`.** Four runs are enough for one to record, one to be killed while discarding or
in the middle of a write, one to continue it, and one to come back to the first tree. Checked:
`ReusedIsOwn`, `KeptIsReused` (a kill loses what was in flight and no more) and `OneBudget`. The last
two are stated for histories in which no file operation failed, the kills not counted; `OneBudget` is
also only about verdicts recorded since the state was last asked to be discarded. Both conditions are
needed: after a failed `SaveBaseline`, or a `--fresh` killed between two files of its removal, verdicts
do stand beside a baseline measured anew.

**`matrix`.** Planning ranges over every declaration of up to four components of a palette with a
chain whose ends do not conflict, separate groups, and pairs of names that join to one; checked there,
`MatrixIsThePartition` against a reference definition of contention that does not use `Conflicts`. Two
of the declarations are run: three suites in two jobs with a component that has none, and two jobs one
of which runs a raw command. The seven profiles are a suite that failed; one without a figure; figures
within the tolerance of the baseline, below it and below the floor, and of another instrument; and
unselected components with a baseline and without. The tolerance is one point, the floor 60%. Two faults are enough for two jobs to
disagree, or for one to be lost while the other is torn. The outcomes of a component's mutants are all
killed, one of two alive, a teardown that failed after mutants died and after none that says anything of
the suite, the first three stopped half way, and every way of not having any. `MergeIsWhole`: a merged report that does not fail and is not incomplete stands for a whole
run, except that a job's measurements may be missing without anybody failing (see section 5). `ShardingIsInvisible`: when nothing went wrong and every job had counts to hand over,
the merge says of each suite, component and of the repository what one run over everything says, of
mutants too when jobs ran into their deadline. Its
premises (`HandedOver`) exclude the cases section 5 lists.

**`pull_request`.** Two revisions let a review, a comment and its answer each be about the one or the
other; two posts let a verdict be published again while a person writes. The paths include the rules
file itself and an exempt path. `RecordBeforeResolution`: no resolution without its record, wherever the
job stops. `ResolvedWasPending`: only a referral, never a failure, is resolved, although the direct post
does not read the status it replaces. `ClearedWasRead`: what is cleared is what the comment's author
could have read; it assumes a verdict and a comment do not share a second (`SameSecond = FALSE`; see
section 5). `QueueSuccessEarned`: a merge group that passes on a person's word has the content and the
reasons that were cleared.

**`threads`.** Three runs are one that is cut short, one in the other identity, and one that nobody
disturbs, over a claim that moves, goes and returns. `PeopleKept`: a thread in which a person wrote is
not deleted. `OneOfEach`: no claim has two threads, no thread one sentence twice. `Reconciled`: after an
undisturbed run, the threads are what its revision says.

**`baseline`.** Three components, the second depending on the first, the third a raw command; a file that
invalidates everything, one that touches another component's figure, and a change that drops a component. `NoPartialBaseline`: what is recorded for a tree covers
every component, whatever shards were missing and whatever was carried. `DescribesItsTree`: each entry
was measured on that component's content in that tree. `NothingSinks`, of every step: through tolerated
dips at one size the recorded lines stay where they were, and recording a tree again does not lower what
the branch holds, unless another recording landed after the decision was taken. Where the size changes
as well, the figure does sink (section 5).

**`tool_cache`.** Two goroutines of one process and one of another are enough for a process-wide lock
to help some and not all. Every starting remnant is tried for each kind. `AnsweredWhole`: an installer
answers with an install that is whole. `HealsAlone`: a husk does not make later installs fail for ever.

**`test_run`.** Two components publish one port, one of them only through a compose dependency; two share
a root and so a report file; one's services cannot be waited for. The commands of each may fail; two runs, so that what the first leaves (stacks, reports) is there for the
second. `StacksAccountedFor`: a stack still up has a reason, a killed process or a teardown that
failed. `RefusedOnlyByLeftovers`: a port that is taken is taken by such a leftover, never by a
component of the same run. `MeasuredIsOwn`, `VerdictIsOwn`: the coverage and the flaky verdict are
the component's own, of this run. `GreenIsWhole`: an exit of success means every stage ran.
`InterruptEnds`: after an interrupt the process ends.

**`flows`.** Nothing is bounded: the flows are the declared ones. `AnswersAreEarned` says that no output is
read that is not there, by a stage or by a command, whichever stages failed, were skipped or cut off;
that an exit of success stands on the stages it speaks for (`Owed`), which are not all of them: a
reply that could not be posted, or a history that was not appended when there was no baseline to land,
is only warned of; and that what reaches the forge or the branch comes after what it speaks of
(`EffectsAreEarned`). A flow's conditions, its stages' answers and its command's branches are written in
three packages, and this is where they have to agree.

**`scan`.** A repository is small but has what its languages make hard. Go: one directory declared twice
under one environment and under two, two claims of one site of which one disappears, a package that
stops compiling, an advisory that comes to be called. Rust: two crates, the second behind the first, and
the policy lydite's, the component's own or nobody's. TypeScript: an npm workspace of two members, each
resolving its own copy of a name, that come to depend on one another, and a pnpm package beside it. A
component that is new in the change, compared in the worktree another opened. Shell off by default, a
language nothing scans, lines with several matches, ignored and nested files, semgrep with a token and
without. Two recordings are one that opens claims and one that may resolve them; how often a change is
scanned is not bounded, as nothing outlives a scan but the open set. `SilenceIsEarned`: a recording
replaces a bucket's open claims by exactly those that stand in the tree, or leaves them as they were.
`PassesAreEarned`: a row passes only over a tree its tool has nothing to fail over, and no component is
passed over in silence. `LicenceIsTheChange`: the licence row fails exactly when the change ships a licence
its merge-base did not, for that component alone. `SitesHoldNoMatch`: a published site holds none of the
text a tool matched on its line. The first three say nothing of a bucket in `cut` (section 5).

Also stated in the modules, provable or checkable by adding them to a `cfg`, and left out of the runs
above because another property implies them or a theorem covers them: `TypeOK` everywhere;
`LocksMatchHolders`, `ConcurrencyReached`, `WorkConserving`, `ReturnedClean` (Scheduler);
`ShardsAreConflictGroups`, `EveryComponentInOneJob` (ShardPlan); `GapTrueWhenLanded`,
`EveryHoleIsMarked`, `ReportedIsLanded` (StateBranch); `SuitesBounded`, `RecordedAsDecided`, `ServicesNotShared`,
`CountsTellTheDeadline` (MutationRun); `HeldUnderFingerprint` (MutationResume); `SharedOnItsTerms`
(ToolCache).

### Fairness

* `Scheduler`: weak fairness of the loop, of *some* item's `Finish` and of *some* item's `Release`.
  Suites run under a time budget, so the caller's function returns; a goroutine that wants a mutex the
  loop gives up in `Wait` gets it. Each item finishes once, so nothing stronger is needed.
* `MutationRun`: weak fairness of `Work`, that is, something that can move does. Every command ends by
  itself or by its budget, and every step is one of finitely many. Neither the interrupt nor the
  deadline is assumed to come.
* `TestRun`: weak fairness only after the interrupt. A command under the context is killed by it, and
  the deferred ones (teardown) run under a time of their own; a suite nobody interrupts may hang.
* The others state safety only.

`CHECK_DEADLOCK` is on where a step marks the end that is meant (`Finished`, `Over`, `Stop`). It is
off in the five configurations whose inputs are bounded (`MCClearance`, `Threads`, `MCBaseline`,
`MCToolCache`, `MCTestRun`): there the behaviour simply runs out of pushes, runs or actors.

## 5. Disagreements found

Where the code and what is said of it part, with the way to see it. Each names a definition that the modules state
(add it to the `cfg` named, with the change given), or the definition that shows the case.

| what the code does | what is said | how to see it |
|---|---|---|
| a dip within the tolerance is restored to the baseline's *percentage* of the component's size now, rounded to whole lines: a component that loses a covered line per change (32 of 40, 31 of 39, 30 of 38, tolerance 1.0) is restored to what it was measured at and drifts by more than the tolerance | `internal/test/measure/record.go:139-140`: "caps the total tolerated drift at one tolerance" | theorem `TheAnchorDrifts` of `BaselineProofs`: with a tolerance of 1.0, the restored counts of 40, 39 and 38 lines step from 80.0% to below 79.0%, and no step is a regression |
| a gap may name a commit whose entry lands afterwards and stays beside it | `internal/ledger/ledger.go:131`: the records "will never arrive" | `GapsAreFinal`, `MCStateBranch` with `Plans <- MCLinePlans` |
| of two entries of one date, the first that landed is "the previous" of the next commit, so a false gap can be written | `ledger.go:506`, `:523-524` | `GapTrueWhenLanded` with `Date <- MCTiedDate`, `Plans <- MCTiedPlans` |
| a gap's width may be 0: when the last recorded commit is the second parent of a merge into a commit it descends from (a merge that could have been a fast-forward), no commit of the first-parent range lies between | `internal/stages/ledger/compose.go:203-205`: "never nought" | `GapsHaveWidth`, `MCStateBranch` |
| a gap may count a commit that is on the branch: recorded, replaced by a force-push, and merged back in as a first parent | `compose.go:214`: they "were never recorded" | `NothingClaimedIsRecorded`, `MCStateBranch` |
| in a checkout of depth one git states no parent, so also the commit right after the last recorded one gets a gap, of unknown width | `compose.go:177-178`: a gap is "when the newest record on this branch is not this commit's parent" | `ParentSeen` in `Ledger` |
| a finding open for longer than the months looked back appears again, on a branch recorded all along | `src/docs/adr/0058`, lines 41 and 44-45 | `TransitionsAlternate`, `MCStateBranch` with `Date <- MCMonthlyDate`, `Plans <- MCLinePlans` |
| a component an interrupt cut short, without a survivor so far, is listed as complete in `mutants.json` (`cmd/lydite/mutation.go:908`) | `internal/mutation/counts.go:40` | `CountedRanToTheEnd`, `MCMutationRun` |
| after a failed restore, a mutant in another file is tested together with the earlier one | `internal/mutation/worktree.go:33-35`, `:254` | `CannotCompound` with `Faulty <- MCOverlaid`, `FileOf <- MCFileOfEach` |
| the baseline's recorded time includes its wait for a slot, so does every mutant's timeout | `internal/mutation/state.go:87` | `ElapsedIsTheBaselines`, `MutationResume` |
| a tool installed for a workspace may be removed by another install while it is in use | `internal/typescript/npm.go:93-95` | `ToolStays`, `MCToolCache` |
| the rerun of a new Go test is compared with an outcome any package's test of that name had in the suite | `internal/flaky/rerun.go:68-71`, `internal/junit/junit.go:165-167`: a name cannot collide | `VerdictIsOwn` with `Scope <- MCScope`, `ByName <- Web` |
| an interrupt after the gates exits green when the patch gate is off | `cmd/lydite/test.go:117-120` | `GreenIsWhole` with `PatchGated = FALSE`, `MCTestRun` |
| a published port *range* locks its first port only, so two components may meet on another | `internal/compose/compose.go`, `shortSyntaxHostPort`: naming one of them is enough | `RefusedOnlyByLeftovers` with a range in `MCServices` and without `MCNoRanges` |
| after a root is taken down, a reply of the workflow's may head what is left of the thread | `internal/threads/threads.go:302-307` | `NoHeadlessReply`, `Threads` |
| a verdict published in the second a comment was written counts as read | `internal/clearance/decide.go:265-266` | `ClearedWasRead` with `SameSecond = TRUE`, `MCClearance` |
| a refused delete is posted again by every later run | `src/docs/adr/0031`, line 138 | `close` in `Threads` |
| a resolution is also posted through the relay | `internal/stages/clearance/statuses.go:71`: never relayed | `index.ts`, `referralResolution`; `Clearance` |
| a document of measurements that could not be written is a warning in its job and a context row the merge drops: the repository's figure is composed over the rest and may pass | `cmd/lydite/coverage.go:49-56` against `internal/stages/test/candidate.go:140-150` | fault `lost` in `Matrix` |
| the merge calls the base of a reinstrumented component "no baseline yet" | the comment of `ComposedRow`, `internal/test/measure/rows.go` | `Fold`'s `composedOf` |
| with a base of its own and `--affected`, a run over everything counts no carried entries, the merge does | the aim stated in `cmd/lydite/fold.go` | `HandedOver` without its second conjunct |
| a raw command that failed or was not selected counts as measurable in one run and not in the fold | the same | `HandedOver` without its third conjunct |
| a failing clippy whose errors are all lints is read as a whole answer, but cargo stops at the first crate that fails: the claims of the crates behind it are recorded resolved. So are those a killed cargo-deny had not streamed yet after its first error | `internal/rust/clippy.go:190-191`: "a failing run is a whole answer only when every error it states is a lint" | `SilenceIsEarned` without `b \in cut`, `MCScan` |
| Biome's parse error that names no line leaves the row passing: with no located finding the error is cleared (`internal/typescript/biome.go:188-190`). Its claims are still left alone | `biome.go:250-253`: such a diagnostic is the reason the row fails | `lintDirBiome`; `PassesAreEarned` without `\notin crashed` |
| gosec or Biome that exits clean and writes no report passes its row, though nothing was scanned | the same | `gosecResult`, `lintDirBiome`; `PassesAreEarned` without `\notin crashed` |
| of two components over one directory and environment the second is not scanned and counts 0, and its buckets are in scope: "every bucket this recording measured" includes some it did not | `internal/stages/record/history.go`, `findingScope` | `Disposition`, `findingScope` in `Scan` |
| what landed has no base, so under lydite's policy the licence bucket is always incomplete, and no licence claim is ever opened or resolved by a recording | `internal/stages/record/findings.go`, which seeds the bucket | `ScanLanded`, `licenceCrashed` in `Scan` |

Known to the authors and left as they are: a gitleaks walk that fails after its first leak reads as a whole
one (`internal/secrets/findings.go:570-574`); the relay reads a status and posts over it in two requests
(`index.ts:377-388`); the standing comment is looked for and then created, so two jobs may create two
(`comment.ts:34`); a rendered clearance says "cleared" before its statuses are posted.

## 6. What is proved

The theorems below, in eight modules, hold for every value of the constants that satisfies the named
assumptions. Most of those (`DeclarationsAssumption`, `LimitsAssumption`, `LedgerAssumption`,
`StateBranchAssumption`, `MutationResumeAssumption` and their like) say only what type each constant
has; the few that say more are named below. All are evaluated by the runs. Check the proofs with
`tlapm <module>.tla`.

**`EngineProofs`**, the scheduler (any items, any limit). The inductive invariant `IInv` is the type, `HoldersApart`
(no two holders conflict), `LocksMatchHolders` and `running <= limit`. Exclusion is not inductive by
itself: that a startable item shares nothing with the holders follows only from the held locks being
exactly theirs, and a release of one entry per path is right only because overlapping paths never
have two holders, so that each path's count in the bag is its holder's own. Results:
`TypeCorrect`, `LocksExact`, `HoldersExclude`, `Refinement` (each step of `Run` enters, leaves or
stutters in `BoundedExclusion`; the bound is on those inside the function, fewer than those that
hold), `ReturnIsClean` (with `Returning`, which ties `Started` to the items no longer pending).

**`EngineProofs`**, the flows (any flows, any inputs). `FlowInv` is the type with `Settled` (what the run has passed was
reached, no failure among it was one that fails the flow, and what was skipped has a condition that can
be read and is not met; what lies ahead was not reached) and `RecordedFailed`. `Settled` is what lets
a skipped source be traced to its reader: the condition that skipped it is among the reader's own, and
does not hold there either. Results: `FlowsTypeCorrect`, `FailuresStopTheRun`, and `NeverReadUnguarded`, for
flows that are all `Guarded`: whatever a stage reads fails the flow if it fails, and is skipped only by
conditions asked of the reader too. TLC evaluates that of the declared flows
(`DeclaredFlowsAreGuarded`), and every step of `Flows` that moves the engine is a step of `FlowNext`.

**`EngineProofs`**, the shard planner (any suites and files, under `FilesAssumption`). `PlanInv` is the type with
three parts. `Grouped`, while conflicts are joined: `parent` is a forest (a walk from every position ends at
a root), the two sides of a conflict that was joined have one root, and whatever set of positions parts no
conflict holds a position exactly when it holds its root. The last is why no two groups are ever merged
without a cause: the positions that contend, step by step, with a given one are such a set. `Listed`, once
grouped: each shard is the suites of one root, and each root has one. `NamesDiffer`: no two shards named so
far share a name. Lemmas: `AscendingLists` (each position at its rank is a listing in order), `WalksExist`
and `WalksEnd` (`find` ends, at a root), `JoiningMerges` (a union changes the root of one tree's positions
and no others), `ContentionIsConflict` (the reference definition of contention, which does not use
`Conflicts`, comes to it). Results: `PlansTypeCorrect`, `MatrixPartitions` (of `PlanSpec`) and
`MatrixRunsThePartition` (of `MatrixSpec`, whose steps are the planner's or leave `planVars` alone).

**`EngineProofs`**, the matrix and its merge (any declarations and groupings, any profiles, outcomes and modes, any
number of faults). `MatrixInv` adds to `PlanInv` what the directories are: there is a map `From` from them to
the jobs such that each is what its job left (`HandedBy`), every job that did not die has one, and one that
was handed over twice has two; `JobsRun` says what a component's answer and a job's fault may be, and
`Folded` that the merged report is the fold of exactly these. A fold says nothing of the state before it, so both
results are then about one state, and each is proved from the rows of one job, without following the jobs one
after another.

`PassingMergesAreWhole` (`MergeIsWhole`) goes by what a merge cannot hide. A row the merge demands of
every component is there once (`OneAnswer`, `StandsWhole`), so a job that is missing or there twice fails the
shards row; a row that fails, or a run that was cut short, fails the report it is in, and the report fails the
fold; and what is left for a job that passes is a whole answer for each of its components (`TestJobPassed`,
`MutationJobPassed`).

`MatricesShowNoSharding` (`ShardingIsInvisible`) has two halves, the same for tests (`TestInvisible`) and for
mutants (`MutantInvisible`). Each directory says of the components that are its own what one run over all of
them says (`TestHanded`, `MutantHanded`: jobs differ in nothing they were asked but the deadline); and beyond
those the merge has rows of the run alone, none of which fails (`OfTheRun`, `TestQuiet`, `MutantQuiet`). What
remains is the one row that is about all of them. For tests it is composed from the
measurements the jobs carried, which are folded to what one run holds (`MeasurementIs`, `CandidateIs`,
`FoldIs`): sums of counts, the floor and the patch (`EntriesAre`, `FloorIs`, `ScoresAre`). For mutants it is the sum over the counts,
where every component is in one document and none is left to be read from its rows (`MutantCounts`,
`NothingStated`); it differs from one run's only in the components left out, which `sameFigures` leaves
out. That a finite sum of naturals is one (`SumsAreNat`, `SumOfCounts`) would be an induction; it is proved by
the least number of elements for which it fails.

**`StateBranchProofs`** (any number of recordings, any history of commits, any number of attempts). Three
layers. `TypeInv` is the types with the count of attempts (`Tries`). `BranchInv` says that the branch is
`Good` (one record each, every document accounted for) and that a staged worktree is good and, while
its base is still the branch's commit, an extension of the branch (`StagedOn`), which is what
makes a push safe: it lands only while its base is current. Results: `TypeCorrect`, `OneRecordEach`,
`BaselinesAreRecorded`, `HistoryIsKept` (an action property), `OverlapIsTolerated` (failures are
charged to distinct recordings that landed since), `SuccessIsReal` (what was landed stays landed).
`HistoryInv` says that the branch and every staged worktree is `Consistent`, in four parts. `Marked`: an
entry has its parent's ahead of it or its gap right before it, and a gap is beside the entry it was
written for; the second half is needed because `Append` leaves out a gap that is there already, so that
an entry could otherwise land without the gap it was offered with. `Truthful`: no gap claims a
commit of its own line recorded ahead of it. `Derived`: an entry's transitions are what its scan makes of what was open ahead of
it. `RollsUp`: each row counts its day. Results: `HolesAreMarked`, for any dates; `GapsAreHoles`, where
`DatesDescend` (a commit is younger than those it descends from; with equal dates it is false, section 5).
What a gap counts are the first positions of the chain (`DistanceFacts`): what is behind a commit the last
recorded one reaches, it reaches too. A claimed commit is therefore none of its ancestors, and one that
descends from it and was recorded would have been the newer of the two. The rest:
`TheOpenSetIsLastScan`, `TheRollupAgrees` and their conjunction `ReadersDoAgree`.

**`MutationProofs`**, the run (any components, mutants, slots and workers). `IInv` ties five places to one
another: what a worker is doing to its slot, its mutant and its tree (`WorkerInv`: an idle worker's tree
is the source's unless its writes may fail); no two workers of a component on one mutant (`Apart`); a
result is cut short exactly while nobody decided it (`ResultInv`); a mutant handed out without a verdict is
with a worker or the run was cancelled (`DispatchInv`); what a component is reported as (`KindInv`,
`ReportInv`). Results: `TypeCorrect`, `EachMutantIsUnderTest`, `VerdictsDoStand` (an action property),
`SuitesAreBounded`, `ServicesAreNotShared`, `RecordsAreVerdicts`, `CountsAreHonest`.

**`MutationProofs`**, the state directory (any mutants, fingerprints, runs, kills and failures). `ResumeInv` adds `Settled` to
the properties: once the state is open the fingerprint on disk is the run's own, and while it is
discarded, what was removed is gone before the fingerprint is replaced. Without it the order of the
three operations in `OpenState` would not be visible to the step that reads. Results: `ResumeTypeCorrect`,
`KeyedByFingerprint`, `ReuseIsSound`; and, from `KInv` (`ResumeInv` with the fact that every verdict kept
has a readable line on disk), `KillLosesOnlyInFlight`, which rests on the lemma that an append to
a terminated file hides no line that could be read.
`TheBudgetIsOne` comes from `BudgetInv`: of every mutant known, the lines from some
one on were measured under the baseline that is there (`InBudget`), which outlives a kill because the
baseline is removed before a verdict is measured anew, and a baseline saved is the one the run goes by.

**`ThreadsProofs`** (any finite set of claims, any places, pushes, runs and words). `Base` is the types with
the shape of the comments (a reply is under a root that was there first) and of the plans (`PlansOK`: a
run deletes only what carries its marker, a root with its replies). Each property adds what a plan knew
when it was made: `PeopleAreKept` adds that under a root about to be taken down only words written since
the listing stand (`TakenUnheard`); `EachIsOne` that a claim about to be opened has no other thread
(`Opens`), that what is about to be said is not said yet (`Unsaid`), and who replied under whom
(`Echoes`, `DownInv`); `RunsReconcile` that what a run nobody disturbed has not done yet is still in its
plan (`Progress`). Results: those and `ThreadsTypeCorrect`. `EachIsOne` is about histories in which no run
listed while another was applying its plan, which the concurrency group is there for.

**`ClearanceProofs`** (any paths, rules, commands, revisions, posts, comments and entries). Four parts,
each about one place a value waits between being read and being used: `StatusStands` (a status the
review published is its last verdict, and whoever commented after it had read that verdict), `JobInv` (a
job is where its answer lets it be, and one that posts cleared what its comment could clear), `Posted`
(a status some job posted is that job's, with the fingerprint it read, and a resolution is a later
step of the same job than its record) and `EntryInv` (a queue entry that succeeds on a referred change
earned it). Results: `TypeCorrect`, `RecordComesFirst`, `ResolutionsWerePending`,
`QueueSuccessesAreEarned`, `ClearancesWereRead`.

**`ToolingProofs`**, the installers (any processes, goroutines and environments, and any remnant). `SlotWhole`: what is
where a tool is looked for, with the file that is looked at, is all of it; `Held`: who installs under a
mutex holds it, and a workspace is installed by nobody of a process once it is installed; `Healing`:
an actor that lost the race for a directory finds one there, unless another has just moved it aside.
`ToolCacheAssumption` says that a remnant with `bin` in it is whole, outside workspaces, which is what
the rename establishes and nobody but the tool writes there. Results: `TypeCorrect`,
`AnswersAreWhole`, `InstallsHeal`, `InstallsAreShared`.

**`ToolingProofs`**, the scan (any repositories under `ScanAssumption`, any answers). A property about a report
says nothing of the state before it, so `ScanInv` says what the report will be made of. `AllAnswered`: each
result is an answer one tool may give over the component it is filed under, or over the whole tree (`FromComponent`,
`FromRoot`), one cut short is in `cut`, and no gate of a component that has been checked lacks a result; `AllGated`
says it of licence verdicts. `ReportedWhole` is what the report of a landed tree then says of each bucket: what
stands, or that it crashed, or that it was cut short. What an answer is worth is a lemma per tool (`GosecEarns`
to `GitleaksEarn`, `LandedLicences`): unless it says it crashed, its claims are all there are, and it passes over
nothing it fails for. Where the wrapper goes by less than the whole report the lemma shows that no other run
could have left it: a gosec report with no error of a whole package passed over none, and a Biome report with
no diagnostic that was not asked for is of every file. Names are distinct and not empty (`Declared`), which is why no component's
bucket is another's or the repository's. Results: `PassesEarned`, and `SilenceEarned` (an action property); and `SitesAreClear`, with `TextsAreFlagged`
(a text that is matched anywhere is matched wherever it stands, and columns count from 1), which `MCScan`
evaluates of its repositories. A report may leave files out but never some of the matches of a line, so the first
match of a line, which there is because columns are well-founded, bounds every site of it (`SitesEndBefore`);
and what stands before it was matched nowhere. Where a rule matches a text here and not there, the site of a later match
may hold it, and nothing in the code says otherwise. And `LicencesAreOfTheChange`, with `ReadersTell`, which
`MCScan` evaluates too: what a reader of dependencies reads is what the component ships, if it reads anything,
and no shipped licence is one no SPDX parser can read. The first is where the walk of npm's lockfile is held
against what each member ships, by TLC and on those repositories alone. The second is needed: such a licence is rejected under no name, so
one that was unreadable and another that now is are one pair to the comparison. Each reader is a lemma
(`GoIsTold` to `TypescriptIsTold`), read in the tree and in the base's checkout alike; `ComparedIsTheChange`
compares them, `BaseKnown` says the base is a tree of the repository, and a `deny.toml` of the component's own
is compared with nothing.

**`BaselineProofs`** (any components, changes, shards, runs and jobs). `IInv` is the shape of the state with
`ReportInv`, `JobInv` and `BranchInv`: a report's candidate covers what it says, what a job folded
covers every component or is refused, and so does every document on the branch. Result:
`BaselinesAreWhole`. `DescribedInv` says what the entries are about: each is of the content its tree has
(`TreeDescribed`, `JobDescribes`), a component a change could not have broken has the content of the tree
forked from (`Unbroken`), and an entry counts no fewer lines than it did at this size (`Sound`, `Held`).
What the selection reaches is not followed dependent by dependent, which would be an induction: `Spread`
is the least closed set, so it grows with what is touched (`SpreadGrows`). The arithmetic is two lemmas:
a percentage restored at its own size is the count it came from (`RoundedExactly`), and a count that is
not a dip at one size is not below (`BelowAtOneSize`). Results: `NumbersAreOfTheirTree`,
`DipsDoNotAddUp`, `NeitherWaySinks` (an action property); and `TheAnchorDrifts`, which shows by an instance
that at changing sizes they do.

**`TestRunProofs`** (any components, services, paths and limit). `RunInv` is the type with where each
component is (`PlaceInv`), what is up for it (`ServicesInv`) and the rows written (`RowInv`); `OwnInv`
adds that components inside a run are apart and that a report found is the one just written
(`InsideApart`, `ReportInv`, `MeasInv`); `EndInv` that the exit agrees with the gates (`GateInv`).
Results: `TypeCorrect`, `NoPathLeaksAStack`; `PortsAreFree`, with `NoRanges` (with a published range it is false, see section 5);
`ReportsAreOwn`, with `ReportsAreTold` (components that write one report file overlap in their trees);
`GreenWasWhole`, with `PatchGated`; and `VerdictsAreOwn`, from `VerdictInv` (what is compared is what the
component itself recorded of the tests its keys name), with `KeysAreOwn`: tests that run in one component
do not share a key. Go's keys are names without their package, so there it is an assumption on the
tests; section 5 has the case where it fails. `MCTestRun` evaluates `NoRanges` and `ReportsAreTold` of its declarations.
`PortsAreFree` rests on `ClosureIsStarted`: the walk over `depends_on` that the scheduler's ports are read from
reaches what compose starts, the least set that holds the named services and what they depend on. What n steps
reach is the ends of the walks of n steps (`LayersExist`); it grows and stays inside every closed set (`LayersGrow`), and
a step that is not the last adds a service, so there are no more of them than services (`LayersEnd`).

Only model-checked: the liveness properties (`RunReturns`, `RunReports`, `InterruptEnds`), since the
prover does not reason about fairness with `ENABLED`; and `AnswersAreEarned`, which is about the declared
flows themselves and is decided by evaluating them. Induction over data is out of the installed provers'
reach, as a theorem with an operator for a parameter cannot be instantiated. Over finite sets and numbers a least
counterexample does in its place, where what is proved is one formula that can be named (`WalksExist`,
`SumsExist`, `SumsAreNat`, `LayersGrow`).

## 7. What is not covered

* **`Scheduler`**: all of `Run` is modelled. The "." special case of the sorted candidates in
  `sharedTrees` can name one pair twice in a report; see the comment in `Items`.
* **`StateBranch`, `Ledger`**: a month's parts are one sequence, so their size cap (`ledger.go:611`) is not
  seen. The read side of the other documents keeps no state; a failing `git fetch` there is read as
  "no branch" (`gitstate.go:649-653`).
* **`MutationRun`**: how mutants are generated and what their source looks like; time and memory
  budgets, which enter only as the ways a command may end; a failed teardown (`MutationFold` has it);
  an unlimited run (no slots for a limit of 2^20 or more). The number of suite phases of a
  component is constant.
* **`MutationResume`**: two `lydite mutation` processes on one directory, where one may rename its
  baseline under a fingerprint the other has just written; and a machine that loses writes the
  process had finished. The property `KeptIsReused` says nothing of them.
* **`Clearance`**: the words of replies, the signature of a token, the App's own tokens: claims are what
  they say. Which surface broke and which dependency moved are data.
* **`Threads`**: what a claim says is a value; paging and rate limits are left out. Two runs at once may
  open a thread twice; the workflow's concurrency group is what keeps them apart, and is assumed.
* **`Baseline`**: CRAP entries follow the coverage ones and are left out, as are counts of findings and the
  binding of mutants. Shards that each measure a base of their own may compare with different ones.
* **`TestRun`**: test counts, the rows of installs, the arguments runners are given, and the writer that
  prefixes the output of concurrent suites (`cmd/lydite/test.go:566-720`). An interrupt after the gates
  loses the candidate; rows that really failed are reported as not completed. Neither is a property.
* **`Matrix`**: with `--no-coverage` the merge adds unmeasured CRAP and floor rows one run lacks; mode
  `off` is therefore outside `HandedOver`.
* **`Flow`**: the types of values, literals, and `BestEffort`'s log, which no declared flow asks for. In `Flows`
  a referral counts as a failing row, and exit codes other than success and failure are not told apart.
* **`Scan`**: how a report is parsed, the words of a claim, the line of a manifest it is put on, and the
  review's anchors; toolchains, which are a stage that succeeds or fails; a file that changes while it is
  scanned; coarse outcomes of tools nobody has seen. Of a `deny.toml` what counts is that there is one and which
  licences it allows; exceptions and clarifications of cargo-deny's are left out.
* **Not modelled**: parsers, the readers of API surfaces and dependencies, downloads' contents, rendering, the OAuth exchange's single
  request, process execution. They are functions of text or I/O and keep no state another step
  relies on.
