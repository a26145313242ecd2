--------------------------- MODULE BaselineProofs ---------------------------
(***************************************************************************)
(* A baseline is recorded for every component its tree can measure or not  *)
(* at all; every entry describes its tree; and no entry sinks by what the  *)
(* gate tolerates: for any components and shards, any history of commits,  *)
(* and any runs, failures and recordings of them, however they overlap.    *)
(***************************************************************************)
EXTENDS Baseline, TLAPS

-----------------------------------------------------------------------------
(* Sequences of anything.                                                   *)
IsSeq(s) == \E S : s \in Seq(S)

LEMMA Appended ==
  ASSUME NEW s, IsSeq(s), NEW x
  PROVE  /\ IsSeq(Append(s, x)) /\ Len(s) \in Nat /\ DOMAIN s = 1..Len(s)
         /\ Len(Append(s, x)) = Len(s) + 1 /\ DOMAIN Append(s, x) = 1..(Len(s) + 1)
         /\ \A i \in 1..Len(s) : Append(s, x)[i] = s[i]
         /\ Append(s, x)[Len(s) + 1] = x
<1>1. PICK S : s \in Seq(S)
  BY DEF IsSeq
<1>2. s \in Seq(S \cup {x}) /\ x \in S \cup {x}
  BY <1>1
<1>3. Append(s, x) \in Seq(S \cup {x})
  BY <1>2
<1>4. IsSeq(Append(s, x))
  BY <1>3 DEF IsSeq
<1> QED
  BY <1>1, <1>4

LEMMA Excepted ==
  ASSUME NEW s, IsSeq(s), NEW i \in DOMAIN s, NEW x
  PROVE  LET t == [s EXCEPT ![i] = x]
         IN  /\ IsSeq(t) /\ Len(t) = Len(s) /\ DOMAIN t = DOMAIN s
             /\ t[i] = x /\ \A k \in DOMAIN s : k # i => t[k] = s[k]
<1>1. PICK S : s \in Seq(S)
  BY DEF IsSeq
<1>2. s \in Seq(S \cup {x}) /\ x \in S \cup {x}
  BY <1>1
<1>3. [s EXCEPT ![i] = x] \in Seq(S \cup {x})
  BY <1>2
<1>4. IsSeq([s EXCEPT ![i] = x])
  BY <1>3 DEF IsSeq
<1> QED
  BY <1>1, <1>4

-----------------------------------------------------------------------------
Shape ==
    /\ IsSeq(trees) /\ IsSeq(branch) /\ IsSeq(reports) /\ IsSeq(jobs)
    /\ Len(branch) = Len(trees) /\ Len(reports) = Len(trees)
    /\ \A t \in Trees : reports[t] = [s \in DOMAIN Shards |-> reports[t][s]]

(* A report speaks of components its own tree can measure, ...             *)
ReportInv(t, s) ==
    /\ DOMAIN reports[t][s].components \subseteq Measurable(t)
    /\ reports[t][s] # NoReport => reports[t][s].tree = t

IsJob(job) ==
    job = [pc |-> job.pc, head |-> job.head, folded |-> job.folded, existing |-> job.existing,
           snapshot |-> job.snapshot, fetched |-> job.fetched, tried |-> job.tried]

(* ... so does what a recording folded, ...                                 *)
JobInv(j) ==
    LET job == jobs[j]
    IN  /\ IsJob(job)
        /\ job.pc \in {"deciding", "fetching", "pushing"} => job.head \in Trees
        /\ job.pc = "deciding" => DOMAIN job.folded \subseteq Measurable(job.head)
        /\ job.pc \in {"fetching", "pushing"} => DOMAIN job.snapshot = Measurable(job.head)

(* ... and what lands is all of them.                                       *)
BranchInv(t) == Recorded(branch[t]) => DOMAIN branch[t] = Measurable(t)

IInv ==
    /\ Shape
    /\ \A t \in Trees : BranchInv(t) /\ \A s \in DOMAIN Shards : ReportInv(t, s)
    /\ \A j \in DOMAIN jobs : JobInv(j)

-----------------------------------------------------------------------------
LEMMA Indices ==
  ASSUME Shape
  PROVE  /\ Len(trees) \in Nat
         /\ DOMAIN trees = Trees /\ DOMAIN branch = Trees /\ DOMAIN reports = Trees
         /\ DOMAIN jobs = 1..Len(jobs) /\ Len(jobs) \in Nat
  BY Appended DEF Shape, Trees

LEMMA NothingIsEmpty == DOMAIN Nothing = {} /\ DOMAIN NoReport.components = {} /\ ~Recorded(Nothing)
  BY DEF Nothing, NoReport, Recorded

LEMMA RestoredDomain ==
  ASSUME NEW record, NEW baseline
  PROVE  DOMAIN WithToleratedDipsRestored(record, baseline) = DOMAIN record
  BY DEF WithToleratedDipsRestored

(***************************************************************************)
(* A tree's components are fixed when it is committed.                      *)
(***************************************************************************)
TreesGrow ==
    /\ Len(trees) <= Len(trees')
    /\ \A t \in Trees : trees'[t] = trees[t] /\ t \in Trees'

LEMMA Growth ==
  ASSUME Shape, [Next]_vars
  PROVE  TreesGrow /\ \A t \in Trees : Measurable(t)' = Measurable(t)
<1>1. TreesGrow
  <2>1. CASE UNCHANGED trees
    BY <2>1, Indices DEF TreesGrow, Trees
  <2>2. ASSUME NEW change \in Changes, Commit(change)
        PROVE  TreesGrow
    <3>1. PICK x : trees' = Append(trees, x)
      BY <2>2 DEF Commit
    <3> QED
      BY <3>1, Appended DEF Shape, TreesGrow, Trees
  <2>3. \A t, s, p, a, f, m : Measure(t, s, p, a, f, m) => UNCHANGED trees
    BY DEF Measure
  <2>4. \A h, d, f : ReadAndBind(h, d, f) => UNCHANGED trees
    BY DEF ReadAndBind
  <2>5. \A j, r : DecideBaseline(j, r) => UNCHANGED trees
    BY DEF DecideBaseline
  <2>6. \A j : FetchAndStage(j) \/ PushLands(j) \/ PushRejected(j) => UNCHANGED trees
    BY DEF FetchAndStage, PushLands, PushRejected
  <2>7. UNCHANGED vars => UNCHANGED trees
    BY DEF vars
  <2> HIDE DEF TreesGrow
  <2> QED
    BY <2>1, <2>2, <2>3, <2>4, <2>5, <2>6, <2>7 DEF Next
<1> QED
  BY <1>1 DEF TreesGrow, Measurable

LEMMA InitInv == Init => IInv
<1> SUFFICES ASSUME Init PROVE IInv
  OBVIOUS
<1>1. IsSeq(trees) /\ IsSeq(branch) /\ IsSeq(reports) /\ IsSeq(jobs)
  <2>1. \A x : <<x>> \in Seq({x})
    OBVIOUS
  <2>2. jobs \in Seq({})
    BY DEF Init
  <2> QED
    BY <2>1, <2>2 DEF Init, IsSeq
<1>2. Len(trees) = 1 /\ Len(branch) = 1 /\ Len(reports) = 1 /\ DOMAIN jobs = {}
  BY DEF Init
<1>3. Trees = {1}
  BY <1>2 DEF Trees
<1>4. branch[1] = Nothing /\ reports[1] = [s \in DOMAIN Shards |-> NoReport]
  BY DEF Init
<1>5. \A s \in DOMAIN Shards : reports[1][s] = NoReport
  BY <1>4
<1>6. Shape
  BY <1>1, <1>2, <1>3, <1>4, <1>5 DEF Shape
<1>7. BranchInv(1) /\ \A s \in DOMAIN Shards : ReportInv(1, s)
  BY <1>4, <1>5, NothingIsEmpty DEF BranchInv, ReportInv
<1> QED
  BY <1>2, <1>3, <1>6, <1>7 DEF IInv

-----------------------------------------------------------------------------
(***************************************************************************)
(* A commit adds a tree nothing is known of.                                *)
(***************************************************************************)
LEMMA CommitStep ==
  ASSUME IInv, NEW change \in Changes, Commit(change)
  PROVE  IInv'
<1> DEFINE blank == [s \in DOMAIN Shards |-> NoReport]
           n == Len(trees) + 1
<1>0. Shape /\ Len(trees) \in Nat /\ [Next]_vars
  BY Indices DEF IInv, Next
<1>1. PICK x : trees' = Append(trees, x)
  BY DEF Commit
<1>2. /\ reports' = Append(reports, blank) /\ branch' = Append(branch, Nothing)
      /\ UNCHANGED <<runs, jobs, landings>>
  BY DEF Commit
<1>3. /\ IsSeq(trees') /\ IsSeq(branch') /\ IsSeq(reports')
      /\ Len(trees') = n /\ Len(branch') = n /\ Len(reports') = n
      /\ Trees' = 1..n
      /\ \A t \in Trees : reports'[t] = reports[t] /\ branch'[t] = branch[t]
      /\ reports'[n] = blank /\ branch'[n] = Nothing
  <2> HIDE DEF blank
  <2> QED
    BY <1>0, <1>1, <1>2, Appended DEF Shape, Trees
<1>4. \A t \in Trees' : t \in Trees \/ t = n
  BY <1>0, <1>3 DEF Trees
<1>5. \A s \in DOMAIN Shards : blank[s] = NoReport
  OBVIOUS
<1>6. ASSUME NEW t \in Trees'
      PROVE  /\ reports'[t] = [s \in DOMAIN Shards |-> reports'[t][s]]
             /\ BranchInv(t)' /\ \A s \in DOMAIN Shards : ReportInv(t, s)'
  <2>1. CASE t \in Trees
    <3>1. Measurable(t)' = Measurable(t)
      BY <1>0, <2>1, Growth
    <3>2. BranchInv(t) /\ \A s \in DOMAIN Shards : ReportInv(t, s)
      BY <2>1 DEF IInv
    <3> QED
      BY <1>0, <1>3, <2>1, <3>1, <3>2 DEF BranchInv, ReportInv, Shape
  <2>2. CASE t = n
    <3>1. \A s \in DOMAIN Shards : reports'[t][s] = NoReport
      BY <1>3, <1>5, <2>2
    <3> QED
      BY <1>3, <2>2, <3>1, NothingIsEmpty DEF BranchInv, ReportInv
  <2> QED
    BY <1>4, <2>1, <2>2
<1>7. Shape'
  BY <1>0, <1>2, <1>3, <1>6 DEF Shape
<1>8. \A j \in DOMAIN jobs : JobInv(j)'
  <2> TAKE j \in DOMAIN jobs
  <2>1. JobInv(j) /\ \A t \in Trees : Measurable(t)' = Measurable(t) /\ t \in Trees'
    BY <1>0, Growth DEF IInv, TreesGrow
  <2> QED
    BY <1>2, <2>1 DEF JobInv
<1> QED
  BY <1>2, <1>6, <1>7, <1>8 DEF IInv

(***************************************************************************)
(* A run reports on its own tree, its own components.                       *)
(***************************************************************************)
LEMMA MeasureStep ==
  ASSUME IInv, NEW t \in Trees, NEW s \in DOMAIN Shards, NEW pullRequest, NEW affected, NEW anchor,
         NEW suites \in SUBSET Selected(t, Shards[s] \cap Measurable(t), affected),
         NEW passed \in [suites -> Uncovered],
         Measure(t, s, pullRequest, affected, anchor, passed)
  PROVE  IInv'
<1> DEFINE own == Shards[s] \cap Measurable(t)
           selected == Selected(t, own, affected)
           measured == [c \in DOMAIN passed |-> Measured(t, c, passed[c])]
           carried == Carried(t, own, selected, measured, anchor)
           record == [c \in DOMAIN measured \cup carried |->
                        IF c \in carried THEN anchor[c] ELSE measured[c]]
           report == [tree |-> t, carried |-> carried,
                      components |-> WithToleratedDipsRestored(record, anchor)]
<1>0. Shape /\ DOMAIN reports = Trees
  BY Indices DEF IInv
<1>1. /\ reports' = [reports EXCEPT ![t][s] = report]
      /\ UNCHANGED <<trees, jobs, branch, landings>>
  BY DEF Measure
<1>2. DOMAIN report.components \subseteq Measurable(t) /\ report.tree = t
  <2>1. DOMAIN measured \subseteq own
    BY DEF Selected
  <2>2. carried \subseteq own
    BY DEF Carried
  <2>3. DOMAIN record = DOMAIN measured \cup carried
    OBVIOUS
  <2> HIDE DEF record, measured, carried
  <2>4. DOMAIN report.components = DOMAIN record
    BY RestoredDomain
  <2> QED
    BY <2>1, <2>2, <2>3, <2>4
<1> HIDE DEF report
<1>3. reports' = [reports EXCEPT ![t] = [reports[t] EXCEPT ![s] = report]]
  BY <1>1
<1>4. /\ IsSeq(reports') /\ Len(reports') = Len(reports)
      /\ reports'[t] = [reports[t] EXCEPT ![s] = report]
      /\ \A u \in Trees : u # t => reports'[u] = reports[u]
  BY <1>0, <1>3, Excepted DEF Shape
<1>5. reports[t] = [q \in DOMAIN Shards |-> reports[t][q]]
  BY <1>0 DEF Shape
<1>6. /\ reports'[t] = [q \in DOMAIN Shards |-> reports'[t][q]]
      /\ reports'[t][s] = report
      /\ \A q \in DOMAIN Shards : q # s => reports'[t][q] = reports[t][q]
  BY <1>4, <1>5
<1>7. Trees' = Trees /\ \A u \in Trees : Measurable(u)' = Measurable(u)
  BY <1>1 DEF Trees, Measurable
<1>8. Shape'
  BY <1>0, <1>1, <1>4, <1>6, <1>7 DEF Shape
<1>9. ASSUME NEW u \in Trees, NEW q \in DOMAIN Shards
      PROVE  ReportInv(u, q)'
  <2>1. ReportInv(u, q)
    BY DEF IInv
  <2> QED
    BY <1>2, <1>4, <1>6, <1>7, <2>1 DEF ReportInv
<1>10. \A u \in Trees : BranchInv(u)'
  BY <1>1, <1>7 DEF IInv, BranchInv
<1>11. \A j \in DOMAIN jobs : JobInv(j)'
  BY <1>1, <1>7 DEF IInv, JobInv
<1> QED
  BY <1>1, <1>7, <1>8, <1>9, <1>10, <1>11 DEF IInv

(***************************************************************************)
(* A step of a recording that lands nothing: one job becomes another.       *)
(***************************************************************************)
LEMMA JobStep ==
  ASSUME IInv, UNCHANGED <<trees, reports, branch>>, IsSeq(jobs'),
         \A j \in DOMAIN jobs' : JobInv(j)' \/ (j \in DOMAIN jobs /\ jobs'[j] = jobs[j])
  PROVE  IInv'
<1>1. Trees' = Trees /\ \A u \in Trees : Measurable(u)' = Measurable(u)
  BY DEF Trees, Measurable
<1>2. Shape'
  BY <1>1 DEF IInv, Shape
<1>3. \A t \in Trees : BranchInv(t)' /\ \A s \in DOMAIN Shards : ReportInv(t, s)'
  BY <1>1 DEF IInv, BranchInv, ReportInv
<1>4. \A j \in DOMAIN jobs' : JobInv(j)'
  BY <1>1 DEF IInv, JobInv
<1> QED
  BY <1>1, <1>2, <1>3, <1>4 DEF IInv

(***************************************************************************)
(* What is folded of a tree's reports is of that tree.                      *)
(***************************************************************************)
LEMMA FoldedOfTree ==
  ASSUME IInv, NEW head \in Trees, NEW dirs \in SUBSET Written, NEW folded \in Folds(dirs),
         Bound(head, dirs)
  PROVE  DOMAIN folded \subseteq Measurable(head)
<1>1. DOMAIN folded = UNION {DOMAIN Report(r).components : r \in dirs}
  BY DEF Folds
<1>2. ASSUME NEW r \in dirs
      PROVE  DOMAIN Report(r).components \subseteq Measurable(head)
  <2>1. r[1] \in Trees /\ r[2] \in DOMAIN Shards /\ Report(r) # NoReport
    BY DEF Written, Report
  <2>2. ReportInv(r[1], r[2])
    BY <2>1 DEF IInv
  <2>3. Report(r).tree = head
    BY DEF Bound
  <2> QED
    BY <2>1, <2>2, <2>3 DEF ReportInv, Report
<1> QED
  BY <1>1, <1>2

LEMMA BindStep ==
  ASSUME IInv, NEW head \in Trees, NEW dirs \in SUBSET Written, NEW folded \in Folds(dirs),
         ReadAndBind(head, dirs, folded)
  PROVE  IInv'
<1> DEFINE job == [pc |-> IF Bound(head, dirs) THEN "deciding" ELSE "not bound", head |-> head,
                   folded |-> IF Bound(head, dirs) THEN folded ELSE Nothing,
                   existing |-> Nothing, snapshot |-> Nothing, fetched |-> 0, tried |-> 0]
<1>1. jobs' = Append(jobs, job) /\ UNCHANGED <<trees, reports, branch>>
  BY DEF ReadAndBind
<1>2. /\ job.pc = "deciding" => DOMAIN job.folded \subseteq Measurable(job.head)
      /\ job.head \in Trees /\ job.pc \notin {"fetching", "pushing"} /\ IsJob(job)
  BY FoldedOfTree DEF IsJob
<1> HIDE DEF job
<1>0. PICK n : n = Len(jobs) + 1
  OBVIOUS
<1>3. /\ IsSeq(jobs') /\ DOMAIN jobs = 1..Len(jobs) /\ Len(jobs) \in Nat
      /\ DOMAIN jobs' = 1..n /\ jobs'[n] = job
      /\ \A j \in DOMAIN jobs : jobs'[j] = jobs[j]
  BY <1>1, <1>0, Appended DEF IInv, Shape
<1>4. JobInv(n)'
  BY <1>1, <1>2, <1>3 DEF JobInv, Trees, Measurable
<1>5. \A j \in DOMAIN jobs' : JobInv(j)' \/ (j \in DOMAIN jobs /\ jobs'[j] = jobs[j])
  <2> TAKE j \in DOMAIN jobs'
  <2>1. j \in DOMAIN jobs \/ j = n
    BY <1>3, <1>0
  <2> QED
    BY <1>3, <1>4, <2>1
<1> QED
  BY <1>1, <1>3, <1>5, JobStep

(***************************************************************************)
(* What is decided on covers what the tree measures, merged or not.         *)
(***************************************************************************)
LEMMA WholeSnapshot ==
  ASSUME NEW head, NEW folded, NEW existing,
         DOMAIN folded \subseteq Measurable(head), MissingFromRecord(head, folded) = {},
         Recorded(existing) => DOMAIN existing = Measurable(head)
  PROVE  DOMAIN RecordOnto(head, DeclaredOnly(head, folded), existing) = Measurable(head)
<1>1. DOMAIN DeclaredOnly(head, folded) = Measurable(head)
  BY DEF DeclaredOnly, MissingFromRecord, Measurable
<1>2. DOMAIN DeclaredOnly(head, existing) \subseteq Measurable(head)
  BY DEF DeclaredOnly, Recorded
<1>3. DOMAIN RecordOnto(head, DeclaredOnly(head, folded), existing)
        = DOMAIN DeclaredOnly(head, folded) \cup DOMAIN DeclaredOnly(head, existing)
  BY DEF RecordOnto
<1> QED
  BY <1>1, <1>2, <1>3

LEMMA DecideStep ==
  ASSUME IInv, NEW j \in DOMAIN jobs, NEW readable \in BOOLEAN, DecideBaseline(j, readable)
  PROVE  IInv'
<1> DEFINE job == jobs[j]
           existing == IF readable THEN branch[job.head] ELSE Nothing
           snapshot == RecordOnto(job.head, DeclaredOnly(job.head, job.folded), existing)
           refused == ~Recorded(job.folded) \/ MissingFromRecord(job.head, job.folded) # {}
           new == IF refused THEN [job EXCEPT !.pc = "refused", !.folded = Nothing]
                  ELSE [job EXCEPT !.pc = "fetching", !.folded = Nothing, !.existing = existing,
                                   !.snapshot = snapshot]
<1>1. /\ job.pc = "deciding" /\ jobs' = [jobs EXCEPT ![j] = new]
      /\ UNCHANGED <<trees, reports, branch>>
  BY DEF DecideBaseline
<1>2. job.head \in Trees /\ DOMAIN job.folded \subseteq Measurable(job.head) /\ BranchInv(job.head)
  BY <1>1 DEF IInv, JobInv
<1>3. ~refused => DOMAIN snapshot = Measurable(job.head)
  <2>1. Recorded(existing) => DOMAIN existing = Measurable(job.head)
    BY <1>2, NothingIsEmpty DEF BranchInv
  <2> HIDE DEF existing
  <2> QED
    BY <1>2, <2>1, WholeSnapshot
<1> HIDE DEF snapshot, existing
<1>4. /\ IsSeq(jobs') /\ DOMAIN jobs' = DOMAIN jobs /\ jobs'[j] = new
      /\ \A k \in DOMAIN jobs : k # j => jobs'[k] = jobs[k]
  <2> HIDE DEF new
  <2> QED
    BY <1>1, Excepted DEF IInv, Shape
<1>5. JobInv(j)'
  <2>1. IsJob(job)
    BY DEF IInv, JobInv
  <2> HIDE DEF job
  <2>2. CASE refused
    <3>1. IsJob(new) /\ new.pc = "refused"
      BY <2>1, <2>2 DEF IsJob
    <3> HIDE DEF new
    <3> QED
      BY <1>4, <3>1 DEF JobInv
  <2>3. CASE ~refused
    <3>1. /\ IsJob(new) /\ new.pc = "fetching" /\ new.head = job.head
          /\ DOMAIN new.snapshot = Measurable(job.head)
      BY <1>3, <2>1, <2>3 DEF IsJob
    <3> HIDE DEF new
    <3> QED
      BY <1>1, <1>2, <1>4, <3>1 DEF JobInv, Trees, Measurable
  <2> QED
    BY <2>2, <2>3
<1> QED
  BY <1>1, <1>4, <1>5, JobStep

-----------------------------------------------------------------------------
(* Staging and pushing keep the snapshot that was decided, or end.          *)
LEMMA EndedIsJob ==
  ASSUME NEW job, IsJob(job), NEW pc
  PROVE  IsJob(Ended(job, pc)) /\ Ended(job, pc).pc = pc
<1> DEFINE a == [job EXCEPT !.pc = pc]
           b == [a EXCEPT !.existing = Nothing]
           c == [b EXCEPT !.snapshot = Nothing]
           d == [c EXCEPT !.fetched = 0]
<1>1. IsJob(a) /\ a.pc = pc
  BY DEF IsJob
<1> HIDE DEF a
<1>2. IsJob(b) /\ b.pc = pc
  BY <1>1 DEF IsJob
<1> HIDE DEF b
<1>3. IsJob(c) /\ c.pc = pc
  BY <1>2 DEF IsJob
<1> HIDE DEF c
<1>4. IsJob(d) /\ d.pc = pc
  BY <1>3 DEF IsJob
<1>5. Ended(job, pc) = d
  BY DEF Ended, a, b, c
<1> QED
  BY <1>4, <1>5

LEMMA FetchStep ==
  ASSUME IInv, NEW j \in DOMAIN jobs, FetchAndStage(j)
  PROVE  IInv'
<1> DEFINE job == jobs[j]
           staged == branch[job.head] = job.snapshot
           new == IF staged THEN Ended(job, "recorded")
                  ELSE [job EXCEPT !.pc = "pushing", !.fetched = landings]
<1>1. /\ job.pc = "fetching" /\ jobs' = [jobs EXCEPT ![j] = new]
      /\ UNCHANGED <<trees, reports, branch>>
  BY DEF FetchAndStage
<1>2. IsJob(job) /\ job.head \in Trees /\ DOMAIN job.snapshot = Measurable(job.head)
  BY <1>1 DEF IInv, JobInv
<1>3. /\ IsSeq(jobs') /\ DOMAIN jobs' = DOMAIN jobs /\ jobs'[j] = new
      /\ \A k \in DOMAIN jobs : k # j => jobs'[k] = jobs[k]
  <2> HIDE DEF new
  <2> QED
    BY <1>1, Excepted DEF IInv, Shape
<1>4. JobInv(j)'
  <2> HIDE DEF job, staged
  <2>1. CASE staged
    <3>1. IsJob(new) /\ new.pc = "recorded"
      BY <1>2, <2>1, EndedIsJob
    <3> HIDE DEF new
    <3> QED
      BY <1>3, <3>1 DEF JobInv
  <2>2. CASE ~staged
    <3>1. /\ IsJob(new) /\ new.pc = "pushing" /\ new.head = job.head
          /\ new.snapshot = job.snapshot
      BY <1>2, <2>2 DEF IsJob
    <3> HIDE DEF new
    <3> QED
      BY <1>1, <1>2, <1>3, <3>1 DEF JobInv, Trees, Measurable
  <2> QED
    BY <2>1, <2>2
<1> QED
  BY <1>1, <1>3, <1>4, JobStep

LEMMA RejectedStep ==
  ASSUME IInv, NEW j \in DOMAIN jobs, PushRejected(j)
  PROVE  IInv'
<1> DEFINE job == jobs[j]
           last == job.tried + 1 = Attempts
           new == IF last THEN Ended(job, "failed")
                  ELSE [job EXCEPT !.pc = "fetching", !.tried = job.tried + 1, !.fetched = 0]
<1>1. /\ job.pc = "pushing" /\ jobs' = [jobs EXCEPT ![j] = new]
      /\ UNCHANGED <<trees, reports, branch>>
  BY DEF PushRejected
<1>2. IsJob(job) /\ job.head \in Trees /\ DOMAIN job.snapshot = Measurable(job.head)
  BY <1>1 DEF IInv, JobInv
<1>3. /\ IsSeq(jobs') /\ DOMAIN jobs' = DOMAIN jobs /\ jobs'[j] = new
      /\ \A k \in DOMAIN jobs : k # j => jobs'[k] = jobs[k]
  <2> HIDE DEF new
  <2> QED
    BY <1>1, Excepted DEF IInv, Shape
<1>4. JobInv(j)'
  <2> HIDE DEF job, last
  <2>1. CASE last
    <3>1. IsJob(new) /\ new.pc = "failed"
      BY <1>2, <2>1, EndedIsJob
    <3> HIDE DEF new
    <3> QED
      BY <1>3, <3>1 DEF JobInv
  <2>2. CASE ~last
    <3>1. /\ IsJob(new) /\ new.pc = "fetching" /\ new.head = job.head
          /\ new.snapshot = job.snapshot
      BY <1>2, <2>2 DEF IsJob
    <3> HIDE DEF new
    <3> QED
      BY <1>1, <1>2, <1>3, <3>1 DEF JobInv, Trees, Measurable
  <2> QED
    BY <2>1, <2>2
<1> QED
  BY <1>1, <1>3, <1>4, JobStep

(***************************************************************************)
(* The push that lands files the snapshot under its tree.                   *)
(***************************************************************************)
LEMMA LandsStep ==
  ASSUME IInv, NEW j \in DOMAIN jobs, PushLands(j)
  PROVE  IInv'
<1>0. PICK head : head = jobs[j].head
  OBVIOUS
<1>1. /\ jobs[j].pc = "pushing" /\ branch' = [branch EXCEPT ![head] = jobs[j].snapshot]
      /\ jobs' = [jobs EXCEPT ![j] = Ended(jobs[j], "recorded")]
      /\ UNCHANGED <<trees, reports>>
  BY <1>0 DEF PushLands
<1>2. IsJob(jobs[j]) /\ head \in Trees /\ DOMAIN jobs[j].snapshot = Measurable(head)
  BY <1>1, <1>0 DEF IInv, JobInv
<1>3. /\ IsSeq(jobs') /\ DOMAIN jobs' = DOMAIN jobs /\ jobs'[j] = Ended(jobs[j], "recorded")
      /\ \A k \in DOMAIN jobs : k # j => jobs'[k] = jobs[k]
  <2>1. PICK new : new = Ended(jobs[j], "recorded")
    OBVIOUS
  <2>2. jobs' = [jobs EXCEPT ![j] = new]
    BY <1>1, <2>1
  <2> QED
    BY <2>1, <2>2, Excepted DEF IInv, Shape
<1>4. /\ IsSeq(branch') /\ Len(branch') = Len(branch) /\ branch'[head] = jobs[j].snapshot
      /\ \A t \in Trees : t # head => branch'[t] = branch[t]
  <2>1. PICK landed : landed = jobs[j].snapshot
    OBVIOUS
  <2>2. branch' = [branch EXCEPT ![head] = landed]
    BY <1>1, <2>1
  <2>3. IsSeq(branch) /\ DOMAIN branch = Trees
    BY Indices DEF IInv, Shape
  <2>4. head \in DOMAIN branch
    BY <1>2, <2>3
  <2>5. /\ IsSeq(branch') /\ Len(branch') = Len(branch) /\ branch'[head] = landed
        /\ \A t \in DOMAIN branch : t # head => branch'[t] = branch[t]
    BY <2>2, <2>3, <2>4, Excepted
  <2> QED
    BY <2>1, <2>3, <2>5
<1>5. Trees' = Trees /\ \A t \in Trees : Measurable(t)' = Measurable(t)
  BY <1>1 DEF Trees, Measurable
<1>6. Shape'
  BY <1>1, <1>3, <1>4, <1>5 DEF IInv, Shape
<1>7. ASSUME NEW t \in Trees
      PROVE  BranchInv(t)' /\ \A s \in DOMAIN Shards : ReportInv(t, s)'
  <2>1. BranchInv(t) /\ \A s \in DOMAIN Shards : ReportInv(t, s)
    BY DEF IInv
  <2> QED
    <3>1. t = head => BranchInv(t)'
      BY <1>2, <1>4, <1>5 DEF BranchInv
    <3>2. t # head => BranchInv(t)'
      BY <1>4, <1>5, <2>1 DEF BranchInv
    <3>3. \A s \in DOMAIN Shards : ReportInv(t, s)'
      BY <1>1, <1>5, <2>1 DEF ReportInv
    <3> QED
      BY <3>1, <3>2, <3>3
<1>8. ASSUME NEW k \in DOMAIN jobs
      PROVE  JobInv(k)'
  <2>1. JobInv(k)
    BY DEF IInv
  <2>2. CASE k = j
    <3>1. IsJob(jobs'[j]) /\ jobs'[j].pc = "recorded"
      BY <1>2, <1>3, EndedIsJob
    <3> QED
      BY <2>2, <3>1 DEF JobInv
  <2>3. CASE k # j
    BY <1>3, <1>5, <2>1, <2>3 DEF JobInv
  <2> QED
    BY <2>2, <2>3
<1> QED
  BY <1>3, <1>5, <1>6, <1>7, <1>8 DEF IInv

-----------------------------------------------------------------------------
LEMMA StepInv == IInv /\ [Next]_vars => IInv'
<1> SUFFICES ASSUME IInv, [Next]_vars PROVE IInv'
  OBVIOUS
<1>1. CASE \E change \in Changes : Commit(change)
  BY <1>1, CommitStep
<1>2. CASE \E t \in Trees, s \in DOMAIN Shards, pullRequest \in BOOLEAN :
             \E affected \in {pullRequest, FALSE}, anchor \in Anchors(t, pullRequest) :
               \E suites \in SUBSET Selected(t, Shards[s] \cap Measurable(t), affected) :
                 \E passed \in [suites -> Uncovered] :
                   Measure(t, s, pullRequest, affected, anchor, passed)
  BY <1>2, MeasureStep
<1>3. CASE \E head \in Trees, dirs \in SUBSET Written :
             \E folded \in Folds(dirs) : ReadAndBind(head, dirs, folded)
  BY <1>3, BindStep
<1>4. CASE \E j \in DOMAIN jobs :
             \/ \E readable \in BOOLEAN : DecideBaseline(j, readable)
             \/ FetchAndStage(j)
             \/ PushLands(j)
             \/ PushRejected(j)
  BY <1>4, DecideStep, FetchStep, LandsStep, RejectedStep
<1>5. CASE UNCHANGED vars
  <2>1. UNCHANGED <<trees, reports, branch>> /\ jobs' = jobs
    BY <1>5 DEF vars
  <2>2. IsSeq(jobs')
    BY <2>1 DEF IInv, Shape
  <2> QED
    BY <2>1, <2>2, JobStep
<1> QED
  BY <1>1, <1>2, <1>3, <1>4, <1>5 DEF Next

THEOREM Invariance == Spec => []IInv
<1> QED
  BY InitInv, StepInv, PTL DEF Spec

(***************************************************************************)
(* What the state branch holds for a tree covers exactly what that tree    *)
(* can measure: whichever shards ran, failed or were handed over, and      *)
(* however many recordings of however many trees overlap                   *)
(* (MissingFromRecord, baseline.go:144, and the merge of baseline.go:113). *)
(***************************************************************************)
THEOREM BaselinesAreWhole == Spec => []NoPartialBaseline
<1>1. IInv => NoPartialBaseline
  BY DEF IInv, BranchInv, NoPartialBaseline
<1> QED
  BY <1>1, Invariance, PTL

-----------------------------------------------------------------------------
(***************************************************************************)
(* Rounding: a whole number of lines is rounded to itself.                  *)
(***************************************************************************)
LEMMA RoundedIsNat ==
  ASSUME NEW n \in Nat, NEW d \in Nat \ {0}
  PROVE  Rounded(n, d) \in Nat
<1>1. \A a \in Nat, m \in Nat \ {0} : a \div m \in Nat
  OBVIOUS
<1>2. 2 * n + d \in Nat /\ 2 * d \in Nat \ {0}
  OBVIOUS
<1> QED
  BY <1>1, <1>2 DEF Rounded

LEMMA RoundedExactly ==
  ASSUME NEW n \in Nat, NEW d \in Nat \ {0}
  PROVE  Rounded(n * d, d) = n
<1>1. ASSUME NEW a \in Nat, NEW m \in Nat \ {0}, NEW q \in Nat, q * m <= a, a < q * m + m
      PROVE  a \div m = q
  <2>1. PICK k \in Nat : k = a \div m
    OBVIOUS
  <2>2. k * m <= a /\ a < k * m + m
    BY <2>1
  <2>3. ~(k < q)
    <3> SUFFICES ASSUME k + 1 <= q PROVE FALSE
      OBVIOUS
    <3>1. (k + 1) * m <= q * m
      OBVIOUS
    <3>2. (k + 1) * m = k * m + m
      OBVIOUS
    <3> QED
      BY <1>1, <2>2, <3>1, <3>2
  <2>4. ~(q < k)
    <3> SUFFICES ASSUME q + 1 <= k PROVE FALSE
      OBVIOUS
    <3>1. (q + 1) * m <= k * m
      OBVIOUS
    <3>2. (q + 1) * m = q * m + m
      OBVIOUS
    <3> QED
      BY <1>1, <2>2, <3>1, <3>2
  <2> QED
    BY <2>1, <2>3, <2>4
<1>2. PICK p \in Nat : p = n * d
  OBVIOUS
<1>3. n * (2 * d) = 2 * p
  BY <1>2
<1>4. (2 * p + d) \div (2 * d) = n
  <2>1. 2 * p + d \in Nat /\ 2 * d \in Nat \ {0} /\ n * (2 * d) <= 2 * p + d /\ 2 * p + d < n * (2 * d) + 2 * d
    BY <1>3
  <2> QED
    BY <1>1, <2>1
<1> QED
  BY <1>2, <1>4 DEF Rounded

-----------------------------------------------------------------------------
(***************************************************************************)
(* What an entry describes.                                                 *)
(***************************************************************************)
IsEntry(e) ==
    e = [covered |-> e.covered, total |-> e.total, instrument |-> e.instrument,
         of |-> e.of, high |-> e.high]

(* It counts no fewer lines than it did at this size.                       *)
Sound(e) ==
    /\ e.covered \in Nat /\ e.total \in Nat \ {0} /\ e.high \in Nat
    /\ e.covered >= e.high

Describes(e, tree, c) ==
    /\ IsEntry(e) /\ Sound(e)
    /\ e.of = tree.version[c] /\ e.total = tree.total[c] /\ e.instrument = tree.instrument

(* Every entry of a baseline is of the content a tree has, ...              *)
Describing(baseline, tree) == \A c \in DOMAIN baseline : Describes(baseline[c], tree, c)

(* ... a component a tree's change could not have broken is, content, size *)
(* and instrument, the one the tree it forks from has, ...                 *)
Unbroken(t) ==
    t - 1 \in Trees =>
        \A c \in Measurable(t) \ trees[t].affected :
            /\ c \in Measurable(t - 1)
            /\ trees[t].version[c] = trees[t - 1].version[c]
            /\ trees[t].total[c] = trees[t - 1].total[c]
            /\ trees[t].instrument = trees[t - 1].instrument

(* ... a tree's components have lines, the uncovered ones among them, ...   *)
Sized(tree) ==
    \A c \in tree.declared : tree.total[c] \in Nat \ {0} /\ Uncovered \subseteq 0..tree.total[c]

(* ... and a recording holds what describes the tree it is of, and gives no *)
(* component fewer lines, within the tolerance, than what it decided on.   *)
Held(record, existing) ==
    \A c \in DOMAIN record \cap DOMAIN existing :
        record[c].instrument = existing[c].instrument
        => ~ToleratedDip(record[c], existing[c], Tolerance)

JobDescribes(j) ==
    LET job == jobs[j]
    IN  /\ job.pc = "deciding" => Describing(job.folded, trees[job.head])
        /\ job.pc \in {"fetching", "pushing"} =>
             /\ Describing(job.snapshot, trees[job.head])
             /\ Held(job.snapshot, job.existing)

TreeDescribed(t) ==
    /\ Describing(branch[t], trees[t])
    /\ \A s \in DOMAIN Shards : Describing(reports[t][s].components, trees[t])

DescribedInv ==
    /\ 1 \in Trees
    /\ \A t \in Trees : Sized(trees[t]) /\ Unbroken(t) /\ TreeDescribed(t)
    /\ \A j \in DOMAIN jobs : JobDescribes(j)

-----------------------------------------------------------------------------
(* Selection: what a change selects grows with the files it touches.        *)
LEMMA SpreadGrows ==
  ASSUME NEW S, NEW T, S \subseteq T
  PROVE  Spread(S) \subseteq Spread(T)
  BY DEF Spread

LEMMA SelectedIsReached ==
  ASSUME NEW change \in Changes, NEW c \in Components, c \notin Select(change.files)
  PROVE  /\ c \notin UNION {Reaches[f] : f \in change.files}
         /\ change.files \cap Invalidators = {} /\ ~change.rebuilt
<1>1. change.files \subseteq Files
  BY BaselineAssumption DEF Change
<1>2. \A f \in change.files : ~Widens(f)
  BY DEF Select
<1>3. c \notin Spread(Touched(change.files))
  BY <1>2 DEF Select
<1>4. change.files \cap Invalidators = {}
  BY <1>2 DEF Widens
<1>5. ~change.rebuilt
  BY <1>4, BaselineAssumption
<1>6. ASSUME NEW f \in change.files
      PROVE  c \notin Reaches[f]
  <2>1. Touched({f}) \subseteq Touched(change.files)
    BY DEF Touched
  <2>2. Spread(Touched({f})) \subseteq Spread(Touched(change.files))
    BY <2>1, SpreadGrows
  <2>3. Reaches[f] \subseteq Spread(Touched({f}))
    BY <1>1, <1>2, BaselineAssumption
  <2> QED
    BY <1>3, <2>2, <2>3
<1> QED
  BY <1>4, <1>5, <1>6

(***************************************************************************)
(* At one size, percentages are compared as their lines are.                *)
(***************************************************************************)
LEMMA BelowAtOneSize ==
  ASSUME NEW e, NEW b, Sound(e), Sound(b), e.total = b.total
  PROVE  Below(e, b) <=> e.covered < b.covered
<1> DEFINE x == e.covered
           y == b.covered
           n == b.total
<1>1. x \in Nat /\ y \in Nat /\ n \in Nat \ {0}
  BY DEF Sound
<1>2. Below(e, b) <=> x * n < y * n
  BY DEF Below
<1> HIDE DEF x, y, n
<1>3. x < y => x * n < y * n
  <2> SUFFICES ASSUME x + 1 <= y PROVE x * n < y * n
    BY <1>1
  <2>1. (x + 1) * n <= y * n
    BY <1>1
  <2>2. (x + 1) * n = x * n + n
    BY <1>1
  <2> QED
    BY <1>1, <2>1, <2>2
<1>4. y <= x => y * n <= x * n
  BY <1>1
<1>5. x * n \in Nat /\ y * n \in Nat
  BY <1>1
<1> QED
  BY <1>1, <1>2, <1>3, <1>4, <1>5 DEF x, y

(***************************************************************************)
(* Anchoring a record changes what it covers, never what it is of.          *)
(***************************************************************************)
LEMMA CountingDescribes ==
  ASSUME NEW e, NEW tree, NEW c, Describes(e, tree, c), NEW lines \in Nat
  PROVE  /\ Describes(Counting(e, lines), tree, c)
         /\ Counting(e, lines).covered = lines /\ Counting(e, lines).total = e.total
         /\ Counting(e, lines).instrument = e.instrument
<1> DEFINE a == [e EXCEPT !.covered = lines]
<1>1. /\ IsEntry(a) /\ a.covered = lines /\ a.total = e.total
      /\ a.of = e.of /\ a.instrument = e.instrument
  BY DEF Describes, IsEntry
<1>2. Counting(e, lines) = [a EXCEPT !.high = lines]
  BY DEF Counting
<1> HIDE DEF a
<1>3. LET b == [a EXCEPT !.high = lines]
      IN  /\ IsEntry(b) /\ b.covered = lines /\ b.total = e.total /\ b.high = lines
          /\ b.of = e.of /\ b.instrument = e.instrument
  BY <1>1 DEF IsEntry
<1> QED
  BY <1>2, <1>3 DEF Describes, Sound

LEMMA FollowingDescribes ==
  ASSUME NEW e, NEW b, NEW tree, NEW c, Describes(e, tree, c), Sound(b),
         e.total = b.total /\ ~RegressedBeyond(e, b, Tolerance) => e.covered >= b.covered
  PROVE  /\ Describes(Following(e, b), tree, c)
         /\ Following(e, b).covered = e.covered /\ Following(e, b).total = e.total
         /\ Following(e, b).instrument = e.instrument
<1> DEFINE high == Higher(e.high, b.high)
<1>1. CASE e.total = b.total /\ ~RegressedBeyond(e, b, Tolerance)
  <2>1. high \in Nat /\ high <= e.covered
    BY <1>1 DEF Describes, Sound, Higher
  <2>2. Following(e, b) = [e EXCEPT !.high = high]
    BY <1>1 DEF Following
  <2> HIDE DEF high
  <2> QED
    BY <2>1, <2>2 DEF Describes, Sound, IsEntry
<1>2. CASE ~(e.total = b.total /\ ~RegressedBeyond(e, b, Tolerance))
  BY <1>2 DEF Following
<1> QED
  BY <1>1, <1>2

(***************************************************************************)
(* What is recorded of a component: of the same content, and, at the size  *)
(* the baseline has it at, no tolerated dip below it.                       *)
(***************************************************************************)
LEMMA RestoredDescribes ==
  ASSUME NEW record, NEW baseline, NEW tree, NEW other,
         Describing(record, tree), Describing(baseline, other)
  PROVE  Describing(WithToleratedDipsRestored(record, baseline), tree)
<1> DEFINE restored == WithToleratedDipsRestored(record, baseline)
<1>1. ASSUME NEW c \in DOMAIN restored
      PROVE  Describes(restored[c], tree, c)
  <2> DEFINE e == record[c]
             b == baseline[c]
             counted == Counting(e, AtPercentOf(b, e.total))
  <2>1. c \in DOMAIN record /\ Describes(e, tree, c)
    BY <1>1, RestoredDomain DEF Describing
  <2>2. \/ ~Comparable(e, baseline, c) /\ restored[c] = e
        \/ /\ c \in DOMAIN baseline /\ ToleratedDip(e, b, Tolerance)
           /\ restored[c] = Following(counted, b)
        \/ /\ c \in DOMAIN baseline /\ ~ToleratedDip(e, b, Tolerance)
           /\ restored[c] = Following(e, b)
    BY <2>1 DEF WithToleratedDipsRestored, Comparable
  <2>3. c \in DOMAIN baseline => Sound(b)
    BY DEF Describing, Describes
  <2> HIDE DEF e, b, counted, restored
  <2>4. CASE restored[c] = e
    BY <2>1, <2>4
  <2>5. CASE c \in DOMAIN baseline /\ ToleratedDip(e, b, Tolerance) /\ restored[c] = Following(counted, b)
    <3>1. Sound(e) /\ Sound(b)
      BY <2>1, <2>3, <2>5 DEF Describes
    <3>2. AtPercentOf(b, e.total) \in Nat
      BY <3>1, RoundedIsNat DEF Sound, AtPercentOf
    <3>3. /\ Describes(counted, tree, c)
          /\ counted.covered = AtPercentOf(b, e.total) /\ counted.total = e.total
      BY <2>1, <3>2, CountingDescribes DEF counted
    <3>4. e.total = b.total => AtPercentOf(b, e.total) = b.covered
      BY <3>1, RoundedExactly DEF Sound, AtPercentOf
    <3>5. counted.total = b.total => counted.covered >= b.covered
      BY <3>1, <3>3, <3>4 DEF Sound
    <3> QED
      BY <2>5, <3>1, <3>3, <3>5, FollowingDescribes
  <2>6. CASE c \in DOMAIN baseline /\ ~ToleratedDip(e, b, Tolerance) /\ restored[c] = Following(e, b)
    <3>1. Sound(e) /\ Sound(b)
      BY <2>1, <2>3, <2>6 DEF Describes
    <3>2. e.total = b.total /\ ~RegressedBeyond(e, b, Tolerance) => e.covered >= b.covered
      BY <2>6, <3>1, BelowAtOneSize DEF ToleratedDip, Sound
    <3> QED
      BY <2>1, <2>6, <3>1, <3>2, FollowingDescribes
  <2> QED
    BY <2>2, <2>4, <2>5, <2>6
<1> QED
  BY <1>1 DEF Describing

LEMMA RestoredHolds ==
  ASSUME NEW record, NEW baseline, NEW tree, Describing(record, tree), Describing(baseline, tree)
  PROVE  Held(WithToleratedDipsRestored(record, baseline), baseline)
<1> DEFINE restored == WithToleratedDipsRestored(record, baseline)
<1>1. ASSUME NEW c \in DOMAIN restored \cap DOMAIN baseline,
             restored[c].instrument = baseline[c].instrument
      PROVE  ~ToleratedDip(restored[c], baseline[c], Tolerance)
  <2> DEFINE e == record[c]
             b == baseline[c]
             counted == Counting(e, AtPercentOf(b, e.total))
  <2>1. c \in DOMAIN record /\ Describes(e, tree, c) /\ Describes(b, tree, c)
    BY <1>1, RestoredDomain DEF Describing
  <2>2. \/ e.instrument # b.instrument /\ restored[c] = e
        \/ ToleratedDip(e, b, Tolerance) /\ restored[c] = Following(counted, b)
        \/ ~ToleratedDip(e, b, Tolerance) /\ restored[c] = Following(e, b)
    BY <1>1, <2>1 DEF WithToleratedDipsRestored, Comparable
  <2> HIDE DEF e, counted, restored
  <2>3. Sound(e) /\ Sound(b) /\ e.total = b.total
    BY <2>1 DEF Describes
  <2>4. CASE e.instrument # b.instrument /\ restored[c] = e
    BY <1>1, <2>4
  <2>5. CASE ToleratedDip(e, b, Tolerance) /\ restored[c] = Following(counted, b)
    <3>1. AtPercentOf(b, e.total) = b.covered
      BY <2>3, RoundedExactly DEF Sound, AtPercentOf
    <3>2. Describes(counted, tree, c) /\ counted.covered = b.covered /\ counted.total = e.total
      BY <2>1, <2>3, <3>1, CountingDescribes DEF counted, Sound
    <3>3. /\ Describes(restored[c], tree, c)
          /\ restored[c].covered = b.covered /\ restored[c].total = b.total
      BY <2>3, <2>5, <3>2, FollowingDescribes DEF Sound
    <3>4. ~Below(restored[c], b)
      BY <2>3, <3>3, BelowAtOneSize DEF Describes, Sound
    <3> QED
      BY <3>4 DEF ToleratedDip
  <2>6. CASE ~ToleratedDip(e, b, Tolerance) /\ restored[c] = Following(e, b)
    <3>1. e.total = b.total /\ ~RegressedBeyond(e, b, Tolerance) => e.covered >= b.covered
      BY <2>3, <2>6, BelowAtOneSize DEF ToleratedDip, Sound
    <3>2. restored[c].covered = e.covered /\ restored[c].total = e.total
      BY <2>1, <2>3, <2>6, <3>1, FollowingDescribes
    <3> QED
      BY <2>6, <3>2 DEF ToleratedDip, Below, RegressedBeyond
  <2> QED
    BY <2>2, <2>4, <2>5, <2>6
<1> QED
  BY <1>1 DEF Held

LEMMA MeasuredDescribes ==
  ASSUME NEW t, NEW c \in Measurable(t), NEW uncovered \in Uncovered, Sized(trees[t])
  PROVE  Describes(Measured(t, c, uncovered), trees[t], c)
<1>1. trees[t].total[c] \in Nat \ {0} /\ uncovered \in 0..trees[t].total[c]
  BY DEF Sized, Measurable
<1>2. trees[t].total[c] - uncovered \in Nat
  BY <1>1
<1> QED
  BY <1>1, <1>2 DEF Describes, IsEntry, Sound, Measured

LEMMA RecordDescribes ==
  ASSUME NEW head, NEW tree, NEW record, NEW existing,
         Describing(record, tree), Describing(existing, tree)
  PROVE  LET landed == RecordOnto(head, DeclaredOnly(head, record), existing)
         IN  Describing(landed, tree) /\ Held(landed, existing)
<1> DEFINE declared == DeclaredOnly(head, record)
           kept == DeclaredOnly(head, existing)
           anchored == WithToleratedDipsRestored(declared, existing)
           landed == RecordOnto(head, declared, existing)
<1>1. Describing(declared, tree) /\ Describing(kept, tree)
  BY DEF Describing, DeclaredOnly
<1>2. /\ Describing(anchored, tree) /\ DOMAIN anchored = DOMAIN declared
      /\ Held(anchored, existing)
  BY <1>1, RestoredDescribes, RestoredHolds, RestoredDomain
<1>3. \A c \in DOMAIN kept : c \in DOMAIN existing /\ kept[c] = existing[c]
  BY DEF DeclaredOnly
<1> HIDE DEF declared, kept, anchored
<1>4. landed = [c \in DOMAIN declared \cup DOMAIN kept |->
                  IF c \in DOMAIN declared THEN anchored[c] ELSE kept[c]]
  BY DEF RecordOnto, kept, anchored
<1> HIDE DEF landed
<1>5. Describing(landed, tree)
  BY <1>1, <1>2, <1>4 DEF Describing
<1>6. \A c \in DOMAIN existing : ~ToleratedDip(existing[c], existing[c], Tolerance)
  <2> TAKE c \in DOMAIN existing
  <2>1. Sound(existing[c])
    BY DEF Describing, Describes
  <2> QED
    BY <2>1, BelowAtOneSize DEF ToleratedDip, Sound
<1>7. Held(landed, existing)
  BY <1>2, <1>3, <1>4, <1>6 DEF Held
<1> QED
  BY <1>5, <1>7 DEF landed, declared

LEMMA NothingDescribes ==
  ASSUME NEW tree
  PROVE  Describing(Nothing, tree) /\ Describing(NoReport.components, tree)
  BY NothingIsEmpty DEF Describing

-----------------------------------------------------------------------------
LEMMA InitDescribed == Init => DescribedInv
<1> SUFFICES ASSUME Init PROVE DescribedInv
  OBVIOUS
<1>1. Trees = {1} /\ DOMAIN jobs = {}
  BY DEF Init, Trees
<1>2. branch[1] = Nothing /\ \A s \in DOMAIN Shards : reports[1][s] = NoReport
  BY DEF Init
<1>3. Unbroken(1)
  BY <1>1 DEF Unbroken
<1>4. Sized(trees[1])
  <2>1. trees[1] = Adopted
    BY DEF Init
  <2> QED
    BY <2>1, BaselineAssumption DEF Sized, Adopted
<1>5. TreeDescribed(1)
  BY <1>2, NothingDescribes DEF TreeDescribed
<1> QED
  BY <1>1, <1>3, <1>4, <1>5 DEF DescribedInv

(***************************************************************************)
(* A commit adds a tree nothing is known of; what its change could not have *)
(* broken is as it was.                                                    *)
(***************************************************************************)
LEMMA CommitDescribes ==
  ASSUME IInv, DescribedInv, NEW change \in Changes, Commit(change)
  PROVE  DescribedInv'
<1>n. PICK n : n = Len(trees) + 1
  OBVIOUS
<1> DEFINE old == trees[Len(trees)]
           hit == UNION {Reaches[f] : f \in change.files}
           blank == [s \in DOMAIN Shards |-> NoReport]
           tree == [affected   |-> Select(change.files),
                    declared   |-> change.declared,
                    instrument |-> IF change.rebuilt THEN n ELSE old.instrument,
                    version    |-> [c \in change.declared |->
                                      IF c \in hit \/ c \notin old.declared THEN n ELSE old.version[c]],
                    total      |-> [c \in change.declared |->
                                      IF c \in hit \/ c \notin old.declared
                                      THEN change.lines ELSE old.total[c]]]
<1>0. Shape /\ Len(trees) \in Nat
  BY Indices DEF IInv
<1>1. /\ trees' = Append(trees, tree)
      /\ reports' = Append(reports, blank) /\ branch' = Append(branch, Nothing) /\ jobs' = jobs
      /\ change.files \cap Invalidators = {} => change.declared = old.declared
  <2>1. n - 1 = Len(trees) /\ Len(trees) + 1 = n
    BY <1>0, <1>n
  <2> QED
    BY <2>1 DEF Commit
<1>2. /\ Trees' = 1..n
      /\ \A t \in Trees : trees'[t] = trees[t] /\ reports'[t] = reports[t] /\ branch'[t] = branch[t]
      /\ trees'[n] = tree /\ reports'[n] = blank /\ branch'[n] = Nothing
  <2> HIDE DEF tree, blank
  <2> QED
    BY <1>0, <1>1, <1>n, Appended DEF Shape, Trees
<1>3. Trees = 1..(n - 1) /\ n \in Nat /\ n - 1 = Len(trees) /\ \A t \in Trees' : t \in Trees \/ t = n
  BY <1>0, <1>2, <1>n DEF Trees
<1>4. \A t \in Trees : Measurable(t)' = Measurable(t)
  BY <1>2 DEF Measurable
<1>5. \A t \in Trees : TreeDescribed(t)'
  BY <1>2 DEF DescribedInv, TreeDescribed
<1>6. TreeDescribed(n)'
  <2>1. \A s \in DOMAIN Shards : blank[s] = NoReport
    OBVIOUS
  <2>2. /\ Describing(Nothing, tree)
        /\ \A s \in DOMAIN Shards : Describing(blank[s].components, tree)
    BY <2>1, NothingDescribes
  <2>3. /\ Describing(branch'[n], trees'[n])
        /\ \A s \in DOMAIN Shards : Describing(reports'[n][s].components, trees'[n])
    <3> HIDE DEF tree, blank
    <3> QED
      BY <1>2, <2>2
  <2> QED
    BY <2>3 DEF TreeDescribed
<1>7. \A t \in Trees : Unbroken(t)'
  <2> SUFFICES ASSUME NEW t \in Trees PROVE Unbroken(t)'
    OBVIOUS
  <2>1. t - 1 \in Trees' => t - 1 \in Trees
    BY <1>2, <1>3
  <2>2. t \in Trees /\ Unbroken(t)
    BY DEF DescribedInv
  <2> QED
    BY <1>2, <1>4, <2>1, <2>2 DEF Unbroken
<1>8. Unbroken(n)'
  <2> SUFFICES ASSUME n - 1 \in Trees, NEW c \in (Measurable(n))' \ tree.affected
               PROVE  /\ c \in Measurable(n - 1)
                      /\ tree.version[c] = old.version[c] /\ tree.total[c] = old.total[c]
                      /\ tree.instrument = old.instrument
    <3>1. n - 1 \in Trees' => n - 1 \in Trees
      BY <1>3
    <3>2. n - 1 \in Trees => trees'[n - 1] = old
      BY <1>2, <1>3
    <3>3. trees'[n] = tree
      BY <1>2
    <3>4. n - 1 \in Trees => (Measurable(n - 1))' = Measurable(n - 1)
      BY <1>4
    <3> HIDE DEF tree, old
    <3>5. ASSUME n - 1 \in Trees', NEW c \in (Measurable(n))' \ trees'[n].affected
          PROVE  /\ c \in (Measurable(n - 1))'
                 /\ trees'[n].version[c] = trees'[n - 1].version[c]
                 /\ trees'[n].total[c] = trees'[n - 1].total[c]
                 /\ trees'[n].instrument = trees'[n - 1].instrument
      BY <3>1, <3>2, <3>3, <3>4, <3>5
    <3> QED
      BY <3>5 DEF Unbroken
  <2>1. c \in change.declared \ Raw
    <3>1. (Measurable(n))' = tree.declared \ Raw
      <4>1. trees'[n] = tree
        BY <1>2
      <4> HIDE DEF tree
      <4> QED
        BY <4>1 DEF Measurable
    <3> QED
      BY <3>1
  <2>2. c \in Components
    BY <2>1, BaselineAssumption DEF Change
  <2>3. c \notin hit /\ change.files \cap Invalidators = {} /\ ~change.rebuilt
    BY <2>2, SelectedIsReached
  <2>4. c \in old.declared
    BY <1>1, <2>1, <2>3
  <2>5. c \in Measurable(n - 1)
    BY <1>3, <2>1, <2>4 DEF Measurable
  <2> QED
    BY <2>1, <2>3, <2>4, <2>5
<1>9. \A t \in Trees' : Sized(trees'[t])
  <2>1. \A t \in Trees : Sized(trees'[t])
    BY <1>2 DEF DescribedInv
  <2>2. Sized(tree)
    <3> SUFFICES ASSUME NEW c \in change.declared
                 PROVE  tree.total[c] \in Nat \ {0} /\ Uncovered \subseteq 0..tree.total[c]
      BY DEF Sized
    <3>1. CASE c \in hit \/ c \notin old.declared
      BY <3>1, BaselineAssumption DEF Change
    <3>2. CASE ~(c \in hit \/ c \notin old.declared)
      <4>1. change.files \subseteq Files /\ c \in old.declared /\ tree.total[c] = old.total[c]
        BY <3>2, BaselineAssumption DEF Change
      <4>2. Len(trees) \in Trees
        BY <1>0 DEF DescribedInv, Trees
      <4>3. Sized(old)
        BY <4>2 DEF DescribedInv
      <4> HIDE DEF tree, old
      <4> QED
        BY <4>1, <4>3 DEF Sized
    <3> QED
      BY <3>1, <3>2
  <2>3. Sized(trees'[n])
    <3>1. trees'[n] = tree
      BY <1>2
    <3> HIDE DEF tree
    <3> QED
      BY <2>2, <3>1
  <2> QED
    BY <1>3, <2>1, <2>3
<1>10. \A j \in DOMAIN jobs : JobDescribes(j)'
  <2> SUFFICES ASSUME NEW j \in DOMAIN jobs PROVE JobDescribes(j)'
    OBVIOUS
  <2>1. JobDescribes(j) /\ JobInv(j)
    BY DEF DescribedInv, IInv
  <2>2. /\ jobs' = jobs
        /\ jobs[j].head \in Trees => trees'[jobs[j].head] = trees[jobs[j].head]
    BY <1>1, <1>2
  <2> HIDE DEF tree, blank
  <2> QED
    BY <2>1, <2>2 DEF JobDescribes, JobInv
<1> HIDE DEF tree, blank
<1> QED
  BY <1>1, <1>2, <1>3, <1>5, <1>6, <1>7, <1>8, <1>9, <1>10 DEF DescribedInv

(***************************************************************************)
(* What a run compares with describes the tree it forks from.               *)
(***************************************************************************)
LEMMA AnchorDescribes ==
  ASSUME IInv, DescribedInv, NEW t \in Trees, NEW pullRequest, NEW anchor \in Anchors(t, pullRequest)
  PROVE  \/ anchor = Nothing
         \/ t - 1 \in Trees /\ Describing(anchor, trees[t - 1])
<1>1. CASE t = 1
  BY <1>1 DEF Anchors
<1>2. CASE t # 1
  <2>1. t - 1 \in Trees
    BY <1>2, Indices DEF IInv, Trees
  <2>2. Describing(branch[t - 1], trees[t - 1])
    BY <2>1 DEF DescribedInv, TreeDescribed
  <2>3. ASSUME NEW b \in MeasuredBase(t - 1)
        PROVE  b = Nothing \/ Describing(b, trees[t - 1])
    <3> SUFFICES ASSUME b # Nothing PROVE Describing(b, trees[t - 1])
      OBVIOUS
    <3>1. PICK f \in [Measurable(t - 1) -> Uncovered] :
             b = [c \in Measurable(t - 1) |-> Measured(t - 1, c, f[c])]
      BY <2>3 DEF MeasuredBase
    <3>2. Sized(trees[t - 1])
      BY <2>1 DEF DescribedInv
    <3>3. \A c \in Measurable(t - 1) : Describes(Measured(t - 1, c, f[c]), trees[t - 1], c)
      BY <3>2, MeasuredDescribes
    <3> QED
      BY <3>1, <3>3 DEF Describing
  <2>4. anchor \in {branch[t - 1], Nothing} \cup MeasuredBase(t - 1)
    BY <1>2 DEF Anchors
  <2> QED
    BY <2>1, <2>2, <2>3, <2>4
<1> QED
  BY <1>1, <1>2

(***************************************************************************)
(* What a run measures is of its tree, and what it carries is too.          *)
(***************************************************************************)
LEMMA MeasureDescribes ==
  ASSUME IInv, DescribedInv, NEW t \in Trees, NEW s \in DOMAIN Shards,
         NEW pullRequest \in BOOLEAN, NEW affected \in {pullRequest, FALSE},
         NEW anchor \in Anchors(t, pullRequest),
         NEW suites \in SUBSET Selected(t, Shards[s] \cap Measurable(t), affected),
         NEW passed \in [suites -> Uncovered],
         Measure(t, s, pullRequest, affected, anchor, passed)
  PROVE  DescribedInv'
<1> DEFINE own == Shards[s] \cap Measurable(t)
           selected == Selected(t, own, affected)
           measured == [c \in DOMAIN passed |-> Measured(t, c, passed[c])]
           carried == Carried(t, own, selected, measured, anchor)
           record == [c \in DOMAIN measured \cup carried |->
                        IF c \in carried THEN anchor[c] ELSE measured[c]]
           report == [tree |-> t, carried |-> carried,
                      components |-> WithToleratedDipsRestored(record, anchor)]
<1>0. Shape /\ DOMAIN reports = Trees
  BY Indices DEF IInv
<1>1. /\ reports' = [reports EXCEPT ![t][s] = report]
      /\ UNCHANGED <<trees, jobs, branch, landings>>
  BY DEF Measure
<1>2. ASSUME NEW c \in carried
      PROVE  Describes(anchor[c], trees[t], c)
  <2>1. c \in own /\ c \notin selected /\ c \in DOMAIN anchor
    BY DEF Carried
  <2>2. c \in Measurable(t) \ trees[t].affected
    BY <2>1 DEF Selected
  <2>3. t - 1 \in Trees /\ Describing(anchor, trees[t - 1])
    BY <2>1, AnchorDescribes, NothingIsEmpty
  <2>4. Describes(anchor[c], trees[t - 1], c)
    BY <2>1, <2>3 DEF Describing
  <2>5. Unbroken(t)
    BY DEF DescribedInv
  <2> HIDE DEF own, selected
  <2> QED
    BY <2>2, <2>3, <2>4, <2>5 DEF Unbroken, Describes
<1>3. Describing(record, trees[t])
  <2>1. \A c \in DOMAIN record : c \notin carried =>
          record[c] = Measured(t, c, passed[c]) /\ c \in suites
    OBVIOUS
  <2>2. \A c \in DOMAIN record : c \in carried => record[c] = anchor[c]
    OBVIOUS
  <2>3. \A c \in suites : c \in Measurable(t) /\ passed[c] \in Uncovered
    BY DEF Selected
  <2>4. Sized(trees[t])
    BY DEF DescribedInv
  <2>5. \A c \in suites : Describes(Measured(t, c, passed[c]), trees[t], c)
    BY <2>3, <2>4, MeasuredDescribes
  <2> HIDE DEF record, carried, measured
  <2> QED
    BY <1>2, <2>1, <2>2, <2>5 DEF Describing
<1>4. Describing(report.components, trees[t])
  <2>1. \E other : Describing(anchor, other)
    BY AnchorDescribes, NothingDescribes
  <2> HIDE DEF record
  <2> QED
    BY <1>3, <2>1, RestoredDescribes
<1> HIDE DEF report
<1>5. /\ reports'[t] = [reports[t] EXCEPT ![s] = report]
      /\ \A u \in Trees : u # t => reports'[u] = reports[u]
  BY <1>0, <1>1
<1>6. /\ reports'[t][s] = report
      /\ \A q \in DOMAIN Shards : q # s => reports'[t][q] = reports[t][q]
  <2>1. reports[t] = [q \in DOMAIN Shards |-> reports[t][q]]
    BY <1>0 DEF Shape
  <2> QED
    BY <1>5, <2>1
<1>7. ASSUME NEW u \in Trees
      PROVE  TreeDescribed(u)' /\ Unbroken(u)'
  <2>1. TreeDescribed(u) /\ Unbroken(u)
    BY DEF DescribedInv
  <2>2. Unbroken(u)'
    BY <1>1, <2>1 DEF Unbroken, Trees, Measurable
  <2>3. \A q \in DOMAIN Shards : Describing(reports'[u][q].components, trees[u])
    BY <1>4, <1>5, <1>6, <2>1 DEF TreeDescribed
  <2> QED
    BY <1>1, <2>1, <2>2, <2>3 DEF TreeDescribed
<1>8. \A j \in DOMAIN jobs : JobDescribes(j)'
  BY <1>1 DEF DescribedInv, JobDescribes
<1> QED
  BY <1>1, <1>7, <1>8 DEF DescribedInv, Trees

(***************************************************************************)
(* A step of a recording that lands nothing.                                *)
(***************************************************************************)
LEMMA JobDescribing ==
  ASSUME IInv, DescribedInv, UNCHANGED <<trees, reports, branch>>,
         \A j \in DOMAIN jobs' : JobDescribes(j)' \/ (j \in DOMAIN jobs /\ jobs'[j] = jobs[j])
  PROVE  DescribedInv'
<1>1. \A t \in Trees : TreeDescribed(t)' /\ Unbroken(t)'
  BY DEF DescribedInv, TreeDescribed, Unbroken, Trees, Measurable
<1>2. \A j \in DOMAIN jobs' : JobDescribes(j)'
  BY DEF DescribedInv, JobDescribes
<1> QED
  BY <1>1, <1>2 DEF DescribedInv, Trees

LEMMA BindDescribes ==
  ASSUME IInv, DescribedInv, NEW head \in Trees, NEW dirs \in SUBSET Written,
         NEW folded \in Folds(dirs), ReadAndBind(head, dirs, folded)
  PROVE  DescribedInv'
<1> DEFINE job == [pc |-> IF Bound(head, dirs) THEN "deciding" ELSE "not bound", head |-> head,
                   folded |-> IF Bound(head, dirs) THEN folded ELSE Nothing,
                   existing |-> Nothing, snapshot |-> Nothing, fetched |-> 0, tried |-> 0]
<1>1. jobs' = Append(jobs, job) /\ UNCHANGED <<trees, reports, branch>>
  BY DEF ReadAndBind
<1>2. ASSUME Bound(head, dirs)
      PROVE  Describing(folded, trees[head])
  <2>1. ASSUME NEW r \in dirs
        PROVE  Describing(Report(r).components, trees[head])
    <3>1. r[1] \in Trees /\ r[2] \in DOMAIN Shards /\ Report(r) # NoReport
      BY DEF Written, Report
    <3>2. ReportInv(r[1], r[2]) /\ TreeDescribed(r[1])
      BY <3>1 DEF IInv, DescribedInv
    <3>3. r[1] = head
      BY <1>2, <3>1, <3>2 DEF Bound, ReportInv, Report
    <3> QED
      BY <3>1, <3>2, <3>3 DEF TreeDescribed, Report
  <2> DEFINE names == UNION {DOMAIN Report(r).components : r \in dirs}
             from(c) == {r \in dirs : c \in DOMAIN Report(r).components}
             measured(c) == {r \in from(c) : c \notin Report(r).carried}
  <2>2. PICK source \in [names -> dirs] :
           /\ folded = [c \in names |-> Report(source[c]).components[c]]
           /\ \A c \in names : source[c] \in IF measured(c) = {} THEN from(c) ELSE measured(c)
    BY DEF Folds
  <2>3. \A c \in names : source[c] \in dirs /\ c \in DOMAIN Report(source[c]).components
    BY <2>2
  <2>4. DOMAIN folded = names /\ \A c \in names : folded[c] = Report(source[c]).components[c]
    BY <2>2
  <2> HIDE DEF names
  <2> QED
    BY <2>1, <2>3, <2>4 DEF Describing
<1>3. /\ job.pc = "deciding" => Describing(job.folded, trees[job.head])
      /\ job.pc \notin {"fetching", "pushing"}
  BY <1>2
<1> HIDE DEF job
<1>0. PICK n : n = Len(jobs) + 1
  OBVIOUS
<1>4. /\ DOMAIN jobs = 1..Len(jobs) /\ Len(jobs) \in Nat
      /\ DOMAIN jobs' = 1..n /\ jobs'[n] = job
      /\ \A j \in DOMAIN jobs : jobs'[j] = jobs[j]
  BY <1>1, <1>0, Appended DEF IInv, Shape
<1>5. JobDescribes(n)'
  BY <1>1, <1>3, <1>4 DEF JobDescribes
<1>6. \A j \in DOMAIN jobs' : JobDescribes(j)' \/ (j \in DOMAIN jobs /\ jobs'[j] = jobs[j])
  <2> TAKE j \in DOMAIN jobs'
  <2>1. j \in DOMAIN jobs \/ j = n
    BY <1>4, <1>0
  <2> QED
    BY <1>4, <1>5, <2>1
<1> QED
  BY <1>1, <1>6, JobDescribing

LEMMA DecideDescribes ==
  ASSUME IInv, DescribedInv, NEW j \in DOMAIN jobs, NEW readable \in BOOLEAN, DecideBaseline(j, readable)
  PROVE  DescribedInv'
<1> DEFINE job == jobs[j]
           existing == IF readable THEN branch[job.head] ELSE Nothing
           snapshot == RecordOnto(job.head, DeclaredOnly(job.head, job.folded), existing)
           refused == ~Recorded(job.folded) \/ MissingFromRecord(job.head, job.folded) # {}
           new == IF refused THEN [job EXCEPT !.pc = "refused", !.folded = Nothing]
                  ELSE [job EXCEPT !.pc = "fetching", !.folded = Nothing, !.existing = existing,
                                   !.snapshot = snapshot]
<1>1. /\ job.pc = "deciding" /\ jobs' = [jobs EXCEPT ![j] = new]
      /\ UNCHANGED <<trees, reports, branch>>
  BY DEF DecideBaseline
<1>2. /\ IsJob(job) /\ job.head \in Trees
      /\ Describing(job.folded, trees[job.head]) /\ Describing(branch[job.head], trees[job.head])
  BY <1>1 DEF IInv, JobInv, DescribedInv, JobDescribes, TreeDescribed
<1>3. Describing(snapshot, trees[job.head]) /\ Held(snapshot, existing)
  <2>1. Describing(existing, trees[job.head])
    BY <1>2, NothingDescribes
  <2> HIDE DEF existing
  <2> QED
    BY <1>2, <2>1, RecordDescribes
<1> HIDE DEF snapshot, existing
<1>4. /\ DOMAIN jobs' = DOMAIN jobs /\ jobs'[j] = new
      /\ \A k \in DOMAIN jobs : k # j => jobs'[k] = jobs[k]
  BY <1>1
<1>5. JobDescribes(j)'
  <2>1. refused => new.pc = "refused"
    <3> HIDE DEF refused
    <3> QED
      BY <1>2 DEF IsJob
  <2>2. ~refused => new.pc = "fetching" /\ new.head = job.head
                   /\ new.snapshot = snapshot /\ new.existing = existing
    <3> HIDE DEF refused
    <3> QED
      BY <1>2 DEF IsJob
  <2> HIDE DEF new, refused
  <2> QED
    BY <1>1, <1>3, <1>4, <2>1, <2>2 DEF JobDescribes
<1> QED
  BY <1>1, <1>4, <1>5, JobDescribing

LEMMA FetchDescribes ==
  ASSUME IInv, DescribedInv, NEW j \in DOMAIN jobs, FetchAndStage(j)
  PROVE  DescribedInv'
<1> DEFINE job == jobs[j]
           staged == branch[job.head] = job.snapshot
           new == IF staged THEN Ended(job, "recorded")
                  ELSE [job EXCEPT !.pc = "pushing", !.fetched = landings]
<1>1. /\ job.pc = "fetching" /\ jobs' = [jobs EXCEPT ![j] = new]
      /\ UNCHANGED <<trees, reports, branch>>
  BY DEF FetchAndStage
<1>2. IsJob(job) /\ Describing(job.snapshot, trees[job.head]) /\ Held(job.snapshot, job.existing)
  BY <1>1 DEF IInv, JobInv, DescribedInv, JobDescribes
<1>3. /\ DOMAIN jobs' = DOMAIN jobs /\ jobs'[j] = new
      /\ \A k \in DOMAIN jobs : k # j => jobs'[k] = jobs[k]
  BY <1>1
<1>4. \/ new.pc = "recorded"
      \/ new.pc = "pushing" /\ new.head = job.head /\ new.snapshot = job.snapshot
         /\ new.existing = job.existing
  <2> HIDE DEF job, staged
  <2> QED
    BY <1>2, EndedIsJob DEF IsJob
<1>5. JobDescribes(j)'
  <2> HIDE DEF new
  <2> QED
    BY <1>1, <1>2, <1>3, <1>4 DEF JobDescribes
<1> QED
  BY <1>1, <1>3, <1>5, JobDescribing

LEMMA RejectedDescribes ==
  ASSUME IInv, DescribedInv, NEW j \in DOMAIN jobs, PushRejected(j)
  PROVE  DescribedInv'
<1> DEFINE job == jobs[j]
           last == job.tried + 1 = Attempts
           new == IF last THEN Ended(job, "failed")
                  ELSE [job EXCEPT !.pc = "fetching", !.tried = job.tried + 1, !.fetched = 0]
<1>1. /\ job.pc = "pushing" /\ jobs' = [jobs EXCEPT ![j] = new]
      /\ UNCHANGED <<trees, reports, branch>>
  BY DEF PushRejected
<1>2. IsJob(job) /\ Describing(job.snapshot, trees[job.head]) /\ Held(job.snapshot, job.existing)
  BY <1>1 DEF IInv, JobInv, DescribedInv, JobDescribes
<1>3. /\ DOMAIN jobs' = DOMAIN jobs /\ jobs'[j] = new
      /\ \A k \in DOMAIN jobs : k # j => jobs'[k] = jobs[k]
  BY <1>1
<1>4. \/ new.pc = "failed"
      \/ new.pc = "fetching" /\ new.head = job.head /\ new.snapshot = job.snapshot
         /\ new.existing = job.existing
  <2> HIDE DEF job, last
  <2> QED
    BY <1>2, EndedIsJob DEF IsJob
<1>5. JobDescribes(j)'
  <2> HIDE DEF new
  <2> QED
    BY <1>1, <1>2, <1>3, <1>4 DEF JobDescribes
<1> QED
  BY <1>1, <1>3, <1>5, JobDescribing

LEMMA LandsDescribes ==
  ASSUME IInv, DescribedInv, NEW j \in DOMAIN jobs, PushLands(j)
  PROVE  DescribedInv'
<1>0. PICK head : head = jobs[j].head
  OBVIOUS
<1>1. /\ jobs[j].pc = "pushing" /\ branch' = [branch EXCEPT ![head] = jobs[j].snapshot]
      /\ jobs' = [jobs EXCEPT ![j] = Ended(jobs[j], "recorded")]
      /\ UNCHANGED <<trees, reports>>
  BY <1>0 DEF PushLands
<1>2. IsJob(jobs[j]) /\ head \in Trees /\ Describing(jobs[j].snapshot, trees[head])
  BY <1>1, <1>0 DEF IInv, JobInv, DescribedInv, JobDescribes
<1>3. Ended(jobs[j], "recorded").pc = "recorded"
  BY <1>2, EndedIsJob
<1>4. \A k \in DOMAIN jobs : JobDescribes(k)'
  <2> TAKE k \in DOMAIN jobs
  <2>1. JobDescribes(k)
    BY DEF DescribedInv
  <2>2. jobs'[j] = Ended(jobs[j], "recorded") /\ (k # j => jobs'[k] = jobs[k])
    BY <1>1
  <2> QED
    BY <1>1, <1>3, <2>1, <2>2 DEF JobDescribes
<1>5. ASSUME NEW t \in Trees
      PROVE  TreeDescribed(t)' /\ Unbroken(t)'
  <2>1. TreeDescribed(t) /\ Unbroken(t)
    BY DEF DescribedInv
  <2>2. DOMAIN branch = Trees
    BY Indices DEF IInv
  <2>3. branch'[t] = branch[t] \/ (t = head /\ branch'[t] = jobs[j].snapshot)
    BY <1>1, <2>2
  <2>4. Describing(branch'[t], trees[t])
    BY <1>2, <2>1, <2>3 DEF TreeDescribed
  <2> QED
    BY <1>1, <2>1, <2>4 DEF TreeDescribed, Unbroken, Trees, Measurable
<1>6. DOMAIN jobs' = DOMAIN jobs
  BY <1>1
<1> QED
  BY <1>1, <1>4, <1>5, <1>6 DEF DescribedInv, Trees

LEMMA StepDescribes == IInv /\ DescribedInv /\ [Next]_vars => DescribedInv'
<1> SUFFICES ASSUME IInv, DescribedInv, [Next]_vars PROVE DescribedInv'
  OBVIOUS
<1>1. CASE \E change \in Changes : Commit(change)
  BY <1>1, CommitDescribes
<1>2. CASE \E t \in Trees, s \in DOMAIN Shards, pullRequest \in BOOLEAN :
             \E affected \in {pullRequest, FALSE}, anchor \in Anchors(t, pullRequest) :
               \E suites \in SUBSET Selected(t, Shards[s] \cap Measurable(t), affected) :
                 \E passed \in [suites -> Uncovered] :
                   Measure(t, s, pullRequest, affected, anchor, passed)
  BY <1>2, MeasureDescribes
<1>3. CASE \E head \in Trees, dirs \in SUBSET Written :
             \E folded \in Folds(dirs) : ReadAndBind(head, dirs, folded)
  BY <1>3, BindDescribes
<1>4. CASE \E j \in DOMAIN jobs :
             \/ \E readable \in BOOLEAN : DecideBaseline(j, readable)
             \/ FetchAndStage(j)
             \/ PushLands(j)
             \/ PushRejected(j)
  BY <1>4, DecideDescribes, FetchDescribes, LandsDescribes, RejectedDescribes
<1>5. CASE UNCHANGED vars
  BY <1>5, JobDescribing DEF vars
<1> QED
  BY <1>1, <1>2, <1>3, <1>4, <1>5 DEF Next

(***************************************************************************)
(* Every number filed under a tree was measured on that tree's content, at *)
(* its size and by its instrument: by a run of it, or carried from a base  *)
(* whose component the change could not have touched, whatever was         *)
(* selected, tolerated, folded or merged on the way (candidate.go:96,      *)
(* measurements.go:212, tree.go:43).                                       *)
(***************************************************************************)
THEOREM NumbersAreOfTheirTree == Spec => []DescribesItsTree
<1>1. DescribedInv => DescribesItsTree
  BY DEF DescribedInv, TreeDescribed, Describing, Describes, DescribesItsTree
<1> QED
  BY <1>1, InitDescribed, StepDescribes, Invariance, PTL DEF Spec

(***************************************************************************)
(* Nothing sinks.  A component is recorded at no fewer lines than it ever  *)
(* was while its size stayed and no change regressed it: tolerated dips do *)
(* not add up (record.go:135).  And a second recording of a tree does not  *)
(* lower an entry by a tolerated dip (baseline.go:113), unless another     *)
(* landed after it was decided or the branch could not be read.            *)
(***************************************************************************)
THEOREM DipsDoNotAddUp == Spec => []HighWaterHeld
<1>1. DescribedInv => HighWaterHeld
  BY DEF DescribedInv, TreeDescribed, Describing, Describes, Sound, HighWaterHeld
<1> QED
  BY <1>1, InitDescribed, StepDescribes, Invariance, PTL DEF Spec

LEMMA StepHolds == IInv /\ DescribedInv /\ [Next]_vars => ReRecordingHolds \/ UNCHANGED vars
<1> SUFFICES ASSUME IInv, DescribedInv, [Next]_vars,
                    NEW t \in Trees, NEW c \in DOMAIN branch[t] \cap DOMAIN branch'[t],
                    branch[t][c].instrument = branch'[t][c].instrument,
                    ToleratedDip(branch'[t][c], branch[t][c], Tolerance)
             PROVE  \E j \in DOMAIN jobs :
                      /\ jobs[j].pc = "pushing" /\ jobs[j].head = t
                      /\ jobs[j].existing # branch[t]
  BY DEF ReRecordingHolds
<1>1. DOMAIN branch = Trees /\ IsSeq(branch)
  BY Indices DEF IInv, Shape
<1>2. branch'[t] # branch[t]
  <2>1. Sound(branch[t][c])
    BY DEF DescribedInv, TreeDescribed, Describing, Describes
  <2>2. ~Below(branch[t][c], branch[t][c])
    BY <2>1, BelowAtOneSize DEF Sound
  <2> QED
    BY <2>2 DEF ToleratedDip
<1>3. PICK j \in DOMAIN jobs : PushLands(j)
  <2>1. \A change \in Changes : ~Commit(change)
    <3> SUFFICES ASSUME NEW change \in Changes, Commit(change) PROVE FALSE
      OBVIOUS
    <3>1. branch' = Append(branch, Nothing)
      BY DEF Commit
    <3> QED
      BY <1>1, <1>2, <3>1, Appended
  <2>2. UNCHANGED branch => FALSE
    BY <1>2
  <2>3. \A u, s, p, a, f, m : Measure(u, s, p, a, f, m) => UNCHANGED branch
    BY DEF Measure
  <2>4. \A h, d, f : ReadAndBind(h, d, f) => UNCHANGED branch
    BY DEF ReadAndBind
  <2>5. \A j, r : DecideBaseline(j, r) => UNCHANGED branch
    BY DEF DecideBaseline
  <2>6. \A j : FetchAndStage(j) \/ PushRejected(j) => UNCHANGED branch
    BY DEF FetchAndStage, PushRejected
  <2>7. UNCHANGED vars => UNCHANGED branch
    BY DEF vars
  <2> QED
    BY <2>1, <2>2, <2>3, <2>4, <2>5, <2>6, <2>7 DEF Next
<1>4. /\ jobs[j].pc = "pushing" /\ branch' = [branch EXCEPT ![jobs[j].head] = jobs[j].snapshot]
  BY <1>3 DEF PushLands
<1>5. jobs[j].head = t /\ branch'[t] = jobs[j].snapshot
  BY <1>1, <1>2, <1>4
<1>6. Held(jobs[j].snapshot, jobs[j].existing)
  BY <1>4 DEF DescribedInv, JobDescribes
<1>7. jobs[j].existing # branch[t]
  BY <1>5, <1>6 DEF Held
<1> QED
  BY <1>4, <1>5, <1>7

THEOREM NeitherWaySinks == Spec => NothingSinks
<1>1. DescribedInv' => HighWaterHeld'
  BY DEF DescribedInv, TreeDescribed, Describing, Describes, Sound, HighWaterHeld
<1>2. IInv /\ DescribedInv /\ [Next]_vars => [HighWaterHeld' /\ ReRecordingHolds]_vars
  BY <1>1, StepDescribes, StepHolds
<1> QED
  BY <1>2, InitDescribed, StepDescribes, Invariance, PTL DEF Spec, NothingSinks

(***************************************************************************)
(* The anchor is a percentage, in whole lines of the size the component is *)
(* now, and so it drifts with the size: in two changes of one line each,   *)
(* both restored, a component loses more than the tolerance, where the     *)
(* comment has "caps the total tolerated drift at one tolerance"           *)
(* (record.go:139).                                                        *)
(***************************************************************************)
THEOREM TheAnchorDrifts ==
  LET first  == [covered |-> 32, total |-> 40]
      second == [covered |-> AtPercentOf(first, 39), total |-> 39]
      third  == [covered |-> AtPercentOf(second, 38), total |-> 38]
  IN  /\ ToleratedDip(second, first, 10) /\ ToleratedDip(third, second, 10)
      /\ RegressedBeyond(third, first, 10)
  BY DEF AtPercentOf, ToleratedDip, RegressedBeyond, Below, Rounded
===============================================================================
