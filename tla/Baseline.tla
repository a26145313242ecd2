------------------------------ MODULE Baseline ------------------------------
(***************************************************************************)
(* The coverage baseline of every tree: what `lydite test` proposes for    *)
(* the tree it measured (internal/stages/test, internal/test/measure), and *)
(* what `lydite test record` makes of the reports of several such runs     *)
(* (internal/flows/record, internal/stages/record) and lands on the state  *)
(* branch.  A run measures only what the change could have broken and      *)
(* carries the rest; a dip within the tolerance is anchored to the number  *)
(* it dipped from; and the branch is read twice, once to decide and once,  *)
(* later, to stage.                                                        *)
(*                                                                         *)
(* Trees are numbered along the default branch: tree t forks from t - 1.   *)
(* Percentages are compared in tenths, so they stay fractions of counts.   *)
(***************************************************************************)
EXTENDS Affected, Figures, Sequences

CONSTANTS Raw,           \* the components that declare a raw command
          Shards,        \* the responsibility set of each job of a run
          Reaches,       \* file -> the components whose figure an edit of it changes
          Changes,       \* what a commit may change
          Uncovered,     \* the lines a suite may leave uncovered
          Tolerance,     \* coverage.tolerance, in tenths of a percentage point
          Attempts,      \* how often one recording is pushed
          FirstLines,    \* the size of a component when lydite is adopted
          MaxTree, MaxRuns, MaxJobs      \* bounds

Change == [files : SUBSET Files, declared : SUBSET Components,
           lines : Nat \ {0}, rebuilt : BOOLEAN]

(* A file of a declared component reaches only that component, those that   *)
(* watch it, and their dependents: the declaration tells the truth.  What  *)
(* components there are, and what measures them, is decided by invalidators;*)
(* and a suite leaves uncovered lines of those there are.                  *)
ASSUME BaselineAssumption ==
    /\ Raw \subseteq Components
    /\ {Tolerance, MaxTree, MaxRuns, MaxJobs} \subseteq Nat /\ {Attempts, FirstLines} \subseteq Nat \ {0}
    /\ Uncovered \subseteq 0..FirstLines
    /\ Reaches \in [Files -> SUBSET Components]
    /\ \A f \in Files : ~Widens(f) => Reaches[f] \subseteq Spread(Touched({f}))
    /\ \A change \in Changes :
         /\ change \in Change
         /\ Uncovered \subseteq 0..change.lines
         /\ change.rebuilt => change.files \cap Invalidators # {}

VARIABLES trees,      \* the tree each commit of the default branch carries
          reports,    \* the document each shard of a tree's last run left
          runs,       \* runs so far
          jobs,       \* the recordings
          branch,     \* the baseline the state branch holds for each tree
          landings    \* commits on the state branch

vars == <<trees, reports, runs, jobs, branch, landings>>

Trees == 1..Len(trees)
Nothing == <<>>                    \* no entry for any component: a miss
Recorded(baseline) == DOMAIN baseline # {}
NoReport == [components |-> Nothing, carried |-> {}, tree |-> 0]

Measurable(t) == trees[t].declared \ Raw

-----------------------------------------------------------------------------
(* Figures.  An entry is what a component is recorded at, and by which      *)
(* instrument; `of` and `high` are history: the commit whose content was   *)
(* measured, and the most lines it was recorded at since it last regressed *)
(* or changed its size.                                                    *)

Comparable(e, baseline, c) ==
    c \in DOMAIN baseline /\ baseline[c].instrument = e.instrument

Higher(x, y) == IF x < y THEN y ELSE x

(* A figure that did not regress, of a size that did not change.            *)
Following(e, b) ==
    IF e.total = b.total /\ ~RegressedBeyond(e, b, Tolerance)
    THEN [e EXCEPT !.high = Higher(e.high, b.high)]
    ELSE e

\* Mutation: a dip is recorded as measured.
WithDipsAsMeasured(record, baseline) ==
    [c \in DOMAIN record |->
       IF Comparable(record[c], baseline, c) THEN Following(record[c], baseline[c]) ELSE record[c]]

Counting(e, lines) == [e EXCEPT !.covered = lines, !.high = lines]

WithToleratedDipsRestored(record, baseline) ==
    [c \in DOMAIN record |->
       LET e == record[c]
       IN  IF ~Comparable(e, baseline, c) THEN e
           ELSE IF ToleratedDip(e, baseline[c], Tolerance)
             THEN Following(Counting(e, AtPercentOf(baseline[c], e.total)), baseline[c])
           ELSE Following(e, baseline[c])]

-----------------------------------------------------------------------------
(* Lydite is adopted on a tree that declares everything.                    *)
Adopted ==
    [affected |-> Components, declared |-> Components, instrument |-> 1,
     version |-> [c \in Components |-> 1], total |-> [c \in Components |-> FirstLines]]

Init ==
    /\ trees = <<Adopted>>
    /\ reports = <<[s \in DOMAIN Shards |-> NoReport]>>
    /\ runs = 0
    /\ jobs = <<>>
    /\ branch = <<Nothing>>
    /\ landings = 0

(* The next commit: the components its files reach change, to the size it   *)
(* leaves them at, and an invalidator may change what measures them all.   *)
Commit(change) ==
    LET t    == Len(trees) + 1
        old  == trees[t - 1]
        hit  == UNION {Reaches[f] : f \in change.files}
        new(c) == c \in hit \/ c \notin old.declared
    IN  /\ t <= MaxTree
        /\ change.files \cap Invalidators = {} => change.declared = old.declared
        /\ trees' = Append(trees,
             [affected   |-> Select(change.files),
              declared   |-> change.declared,
              instrument |-> IF change.rebuilt THEN t ELSE old.instrument,
              version    |-> [c \in change.declared |-> IF new(c) THEN t ELSE old.version[c]],
              total      |-> [c \in change.declared |-> IF new(c) THEN change.lines ELSE old.total[c]]])
        /\ reports' = Append(reports, [s \in DOMAIN Shards |-> NoReport])
        /\ branch' = Append(branch, Nothing)
        /\ UNCHANGED <<runs, jobs, landings>>

-----------------------------------------------------------------------------
(* One job of a run, `lydite test`.                                         *)

Measured(t, c, uncovered) ==
    LET total == trees[t].total[c]
    IN  [covered |-> total - uncovered, total |-> total,
         instrument |-> trees[t].instrument, of |-> trees[t].version[c],
         high |-> total - uncovered]

(* A base tree is measured completely or not at all.                        *)
MeasuredBase(t) ==
    {[c \in Measurable(t) |-> Measured(t, c, f[c])] : f \in [Measurable(t) -> Uncovered]}
      \cup {Nothing}

(* What the run compares with: on a pull request the baseline of the tree   *)
(* it forks from, measured where the branch holds none or cannot be read;  *)
(* on the default branch the previous tree's, or nothing.                  *)
Anchors(t, pullRequest) ==
    IF t = 1 THEN {Nothing}
    ELSE {branch[t - 1], Nothing} \cup (IF pullRequest THEN MeasuredBase(t - 1) ELSE {})

Selected(t, own, affected) ==
    IF affected THEN own \cap trees[t].affected ELSE own

Carried(t, own, selected, measured, anchor) ==
    (own \ selected) \cap DOMAIN anchor

(* candidateThisTree: what passed and was measured, then what was not       *)
(* selected and the anchor holds; what ran and failed is left out.         *)
Measure(t, s, pullRequest, affected, anchor, passed) ==
    LET own      == Shards[s] \cap Measurable(t)
        selected == Selected(t, own, affected)
        measured == [c \in DOMAIN passed |-> Measured(t, c, passed[c])]
        carried  == Carried(t, own, selected, measured, anchor)
    IN  /\ runs < MaxRuns
        /\ reports' = [reports EXCEPT ![t][s] =
             [tree       |-> t,
              carried    |-> carried,
              components |-> WithToleratedDipsRestored(
                               [c \in DOMAIN measured \cup carried |->
                                  IF c \in carried THEN anchor[c] ELSE measured[c]], anchor)]]
        /\ runs' = runs + 1
        /\ UNCHANGED <<trees, jobs, branch, landings>>

-----------------------------------------------------------------------------
(* One recording, `lydite test record`, over the report directories it is   *)
(* given.                                                                  *)

Written == {r \in Trees \X DOMAIN Shards : reports[r[1]][r[2]] # NoReport}

Report(r) == reports[r[1]][r[2]]

(* A measured entry beats a carried one; of two measured ones the first     *)
(* directory's is kept, and any directory may come first.                  *)
Folds(dirs) ==
    LET names == UNION {DOMAIN Report(r).components : r \in dirs}
        from(c) == {r \in dirs : c \in DOMAIN Report(r).components}
        measured(c) == {r \in from(c) : c \notin Report(r).carried}
    IN  {[c \in names |-> Report(source[c]).components[c]] :
           source \in {f \in [names -> dirs] :
             \A c \in names : f[c] \in IF measured(c) = {} THEN from(c) ELSE measured(c)}}

Bound(head, dirs) == \A r \in dirs : Report(r).tree = head

(* ReadReports, FoldMeasurements and BindTree: documents of several trees   *)
(* fail the run and another tree's are not recorded; either way it ends.   *)
ReadAndBind(head, dirs, folded) ==
    /\ Len(jobs) < MaxJobs
    /\ dirs # {} /\ folded \in Folds(dirs)
    /\ jobs' = Append(jobs,
         [pc |-> IF Bound(head, dirs) THEN "deciding" ELSE "not bound", head |-> head,
          folded |-> IF Bound(head, dirs) THEN folded ELSE Nothing,
          existing |-> Nothing, snapshot |-> Nothing, fetched |-> 0, tried |-> 0])
    /\ UNCHANGED <<trees, reports, runs, branch, landings>>

\* Mutation: a fold that lacks a declared component is recorded all the same.
MissingIgnored(head, folded) == {}

MissingFromRecord(head, folded) == Measurable(head) \ DOMAIN folded

DeclaredOnly(head, baseline) ==
    [c \in DOMAIN baseline \cap trees[head].declared |-> baseline[c]]

(* What the write lands: the fold, anchored to and merged onto what the     *)
(* branch held for this tree when it was decided.                          *)
RecordOnto(head, record, existing) ==
    LET anchored == WithToleratedDipsRestored(record, existing)
        kept     == DeclaredOnly(head, existing)
    IN  [c \in DOMAIN record \cup DOMAIN kept |->
           IF c \in DOMAIN record THEN anchored[c] ELSE kept[c]]

(* DecideBaseline.  A branch that cannot be read holds nothing.             *)
DecideBaseline(j, readable) ==
    LET job      == jobs[j]
        existing == IF readable THEN branch[job.head] ELSE Nothing
        refused  == MissingFromRecord(job.head, job.folded) # {}
    IN  /\ job.pc = "deciding"
        /\ jobs' = [jobs EXCEPT ![j] =
             IF ~Recorded(job.folded) \/ refused
               THEN [@ EXCEPT !.pc = "refused", !.folded = Nothing]
               ELSE [@ EXCEPT !.pc = "fetching", !.folded = Nothing, !.existing = existing,
                       !.snapshot = RecordOnto(job.head, DeclaredOnly(job.head, job.folded), existing)]]
        /\ UNCHANGED <<trees, reports, runs, branch, landings>>

Ended(job, pc) == [job EXCEPT !.pc = pc, !.existing = Nothing, !.snapshot = Nothing, !.fetched = 0]

(* pushState stages the same bytes on whatever it fetched; already there,   *)
(* there is nothing to push.                                               *)
FetchAndStage(j) ==
    /\ jobs[j].pc = "fetching"
    /\ jobs' = [jobs EXCEPT ![j] =
         IF branch[@.head] = @.snapshot THEN Ended(@, "recorded")
         ELSE [@ EXCEPT !.pc = "pushing", !.fetched = landings]]
    /\ UNCHANGED <<trees, reports, runs, branch, landings>>

PushLands(j) ==
    /\ jobs[j].pc = "pushing" /\ jobs[j].fetched = landings
    /\ branch' = [branch EXCEPT ![jobs[j].head] = jobs[j].snapshot]
    /\ landings' = landings + 1
    /\ jobs' = [jobs EXCEPT ![j] = Ended(@, "recorded")]
    /\ UNCHANGED <<trees, reports, runs>>

PushRejected(j) ==
    /\ jobs[j].pc = "pushing" /\ jobs[j].fetched # landings
    /\ jobs' = [jobs EXCEPT ![j] =
         IF @.tried + 1 = Attempts THEN Ended(@, "failed")
         ELSE [@ EXCEPT !.pc = "fetching", !.tried = jobs[j].tried + 1, !.fetched = 0]]
    /\ UNCHANGED <<trees, reports, runs, branch, landings>>

-----------------------------------------------------------------------------
Next ==
    \/ \E change \in Changes : Commit(change)
    \/ \E t \in Trees, s \in DOMAIN Shards, pullRequest \in BOOLEAN :
         \E affected \in {pullRequest, FALSE}, anchor \in Anchors(t, pullRequest) :
           \E suites \in SUBSET Selected(t, Shards[s] \cap Measurable(t), affected) :
             \E passed \in [suites -> Uncovered] :
               Measure(t, s, pullRequest, affected, anchor, passed)
    \/ \E head \in Trees, dirs \in SUBSET Written :
         \E folded \in Folds(dirs) : ReadAndBind(head, dirs, folded)
    \/ \E j \in DOMAIN jobs :
         \/ \E readable \in BOOLEAN : DecideBaseline(j, readable)
         \/ FetchAndStage(j)
         \/ PushLands(j)
         \/ PushRejected(j)

Spec == Init /\ [][Next]_vars

-----------------------------------------------------------------------------
(* A partial baseline reads as a hit, and every later change would gate     *)
(* against nothing for what it lacks (MissingFromRecord, baseline.go:144): *)
(* whichever shards ran, failed or were handed over, what the branch holds *)
(* for a tree covers exactly the components that tree can measure.         *)
NoPartialBaseline ==
    \A t \in Trees : Recorded(branch[t]) => DOMAIN branch[t] = Measurable(t)

(* Every number filed under a tree was measured on that tree's content: by  *)
(* a run of it, or carried from a base whose component is the same         *)
(* (candidate.go:96, measurements.go:212, tree.go:43).                     *)
DescribesItsTree ==
    \A t \in Trees : \A c \in DOMAIN branch[t] :
       /\ branch[t][c].of = trees[t].version[c]
       /\ branch[t][c].total = trees[t].total[c]
       /\ branch[t][c].instrument = trees[t].instrument

(* Tolerated dips do not compound at one size (record.go:135): a component  *)
(* is recorded at no fewer lines than it ever was, through changes that    *)
(* neither regressed nor resized it.                                       *)
HighWaterHeld ==
    \A t \in Trees : \A c \in DOMAIN branch[t] : branch[t][c].covered >= branch[t][c].high

(* Recording a tree again never lowers an entry by a tolerated dip          *)
(* (baseline.go:113), unless what the recording decided on is no longer    *)
(* what it overwrites: another recording landed in between, or the branch  *)
(* could not be read.                                                      *)
ReRecordingHolds ==
    \A t \in Trees : \A c \in DOMAIN branch[t] \cap DOMAIN branch'[t] :
       /\ branch[t][c].instrument = branch'[t][c].instrument
       /\ ToleratedDip(branch'[t][c], branch[t][c], Tolerance)
       => \E j \in DOMAIN jobs :
            /\ jobs[j].pc = "pushing" /\ jobs[j].head = t
            /\ jobs[j].existing # branch[t]

(* Nothing sinks: by neither way, a change's tolerated dip or a second      *)
(* recording of one tree, is a baseline lowered by what the gate let pass. *)
NothingSinks == [][HighWaterHeld' /\ ReRecordingHolds]_vars
=============================================================================
