----------------------------- MODULE StateBranch ------------------------------
(***************************************************************************)
(* gitstate.Write: the recordings of concurrent jobs, each landing its     *)
(* baseline documents and its history records on the one shared branch in  *)
(* one commit.  An attempt fetches the branch, stages on what it fetched,  *)
(* and pushes without force, so it is refused when another job's commit    *)
(* landed in between; Attempts attempts are made.                          *)
(***************************************************************************)
EXTENDS Ledger

CONSTANTS Metric,     \* coverage and CRAP, one document each
          Content,    \* what a document may hold
          Nothing,    \* no document
          Tree,       \* a commit's tree, the key of its documents
          Trees,
          Attempts,
          Plans       \* what the jobs of one history may have measured

(***************************************************************************)
(* What one call of Write is given: the measurement its records are        *)
(* composed from, whether there is a history to append, and the snapshot.  *)
(* A re-run of a job is another recording of the same commit.              *)
(***************************************************************************)
Plan == [measured : Measurement, history : BOOLEAN, snapshot : [Metric -> Content \cup {Nothing}]]

ASSUME StateBranchAssumption ==
    /\ IsFiniteSet(Recording)
    /\ Nothing \notin Content
    /\ Tree \in [Commit -> Trees]
    /\ Attempts \in Nat \ {0}
    /\ Plans \subseteq [Recording -> Plan]

VARIABLES
    plan,       \* what each recording brings
    pc,         \* ready (to attempt), staged (to push), landed, nothing (already
                \* there), failed, killed
    failures,   \* how many of its attempts failed
    base,       \* the commit of the branch its attempt was staged on
    staging,    \* the worktree of its attempt
    appended,   \* the records its attempt appended
    branch,     \* the state branch's content
    version,    \* the state branch's commit; 0 is no such branch
    faulty      \* whether any git command failed for another reason than a race,
                \* which only the properties read

jobs == <<pc, failures, base, staging, appended>>
vars == <<plan, jobs, branch, version, faulty>>

Worktree == [docs : [Metric \X Trees -> Content \cup {Nothing}],
             ledger : Seq(Record),
             rollup : [Branch \X Days -> Rollup]]

Empty == [docs |-> [k \in Metric \X Trees |-> Nothing],
          ledger |-> <<>>,
          rollup |-> [k \in Branch \X Days |-> NoRow]]

(***************************************************************************)
(* stageRecording: a document for each metric with an entry, then the      *)
(* records not yet on the branch as fetched, and the rows they change.     *)
(***************************************************************************)
documents(docs, p) ==
    [k \in Metric \X Trees |->
        IF k[2] = Tree[p.measured.commit] /\ p.snapshot[k[1]] # Nothing
        THEN p.snapshot[k[1]] ELSE docs[k]]

appends(r, view) ==
    IF plan[r].history
    THEN landing(view.ledger, records(r, plan[r].measured, view.ledger))
    ELSE <<>>

\* Mutation: a baseline that changes the branch lands on its own.
stageRecordingApart(r, view) ==
    IF documents(view.docs, plan[r]) # view.docs
    THEN [view EXCEPT !.docs = documents(view.docs, plan[r])]
    ELSE [docs   |-> view.docs,
          ledger |-> view.ledger \o appends(r, view),
          rollup |-> project(view.rollup, plan[r].measured, appends(r, view))]

stageRecording(r, view) ==
    [docs   |-> documents(view.docs, plan[r]),
     ledger |-> view.ledger \o appends(r, view),
     rollup |-> project(view.rollup, plan[r].measured, appends(r, view))]

HasSomething(r) ==
    plan[r].history \/ \E m \in Metric : plan[r].snapshot[m] # Nothing

-------------------------------------------------------------------------------
Init ==
    /\ plan \in Plans
    /\ pc = [r \in Recording |-> IF HasSomething(r) THEN "ready" ELSE "nothing"]
    /\ failures = [r \in Recording |-> 0]
    /\ base = [r \in Recording |-> 0]
    /\ staging = [r \in Recording |-> Empty]
    /\ appended = [r \in Recording |-> <<>>]
    /\ branch = Empty
    /\ version = 0
    /\ faulty = FALSE

(***************************************************************************)
(* The worktree is removed when its attempt is over; `appended` outlives   *)
(* the attempt that landed, since Write returns it.                        *)
(***************************************************************************)
Discard(r) ==
    /\ base' = [base EXCEPT ![r] = 0]
    /\ staging' = [staging EXCEPT ![r] = Empty]
    /\ appended' = [appended EXCEPT ![r] = <<>>]

(***************************************************************************)
(* Stage the recording on `view`, at the commit `at` of the branch.  When  *)
(* the branch as fetched already holds all of it there is nothing to       *)
(* commit, and the recording is over with success.                         *)
(***************************************************************************)
StageOn(r, view, at) ==
    /\ pc[r] = "ready"
    /\ \/ /\ stageRecording(r, view) = view
          /\ pc' = [pc EXCEPT ![r] = "nothing"]
          /\ UNCHANGED <<base, staging, appended>>
       \/ /\ stageRecording(r, view) # view
          /\ pc' = [pc EXCEPT ![r] = "staged"]
          /\ base' = [base EXCEPT ![r] = at]
          /\ staging' = [staging EXCEPT ![r] = stageRecording(r, view)]
          /\ appended' = [appended EXCEPT ![r] = appends(r, view)]
    /\ UNCHANGED <<plan, failures, branch, version>>

Stage(r) == StageOn(r, branch, version) /\ UNCHANGED faulty

(***************************************************************************)
(* ls-remote cannot tell a branch that is not there from a remote it could *)
(* not reach: either starts the branch anew from an orphan commit.         *)
(***************************************************************************)
StageOrphan(r) ==
    /\ version # 0
    /\ StageOn(r, Empty, 0)
    /\ faulty' = TRUE

(***************************************************************************)
(* An attempt that failed is made again until there is none left.          *)
(***************************************************************************)
\* Mutation: one attempt fewer.
AttemptFailedEarly(r) ==
    /\ failures' = [failures EXCEPT ![r] = @ + 1]
    /\ pc' = [pc EXCEPT ![r] = IF failures[r] + 2 < Attempts THEN "ready" ELSE "failed"]
    /\ Discard(r)

AttemptFailed(r) ==
    /\ failures' = [failures EXCEPT ![r] = @ + 1]
    /\ pc' = [pc EXCEPT ![r] = IF failures[r] + 1 < Attempts THEN "ready" ELSE "failed"]
    /\ Discard(r)

Land(r) ==
    /\ branch' = staging[r]
    /\ version' = version + 1

\* Mutation: the push is forced.
FastForwardForced(r) == pc[r] = "staged"

FastForward(r) == pc[r] = "staged" /\ base[r] = version

Push(r) ==
    /\ FastForward(r)
    /\ Land(r)
    /\ pc' = [pc EXCEPT ![r] = "landed"]
    /\ base' = [base EXCEPT ![r] = 0]
    /\ staging' = [staging EXCEPT ![r] = Empty]
    /\ UNCHANGED <<plan, failures, appended, faulty>>

(***************************************************************************)
(* The commit landed and the answer did not come back: to the job this is  *)
(* a failed attempt like any other.                                        *)
(***************************************************************************)
PushUnacknowledged(r) ==
    /\ FastForward(r)
    /\ Land(r)
    /\ AttemptFailed(r)
    /\ faulty' = TRUE
    /\ UNCHANGED plan

\* Mutation: a push that was refused is reported as a recording.
PushRefusedSwallowed(r) ==
    /\ pc[r] = "staged" /\ base[r] # version
    /\ pc' = [pc EXCEPT ![r] = "landed"]
    /\ UNCHANGED <<plan, failures, base, staging, appended, branch, version, faulty>>

PushRefused(r) ==
    /\ pc[r] = "staged" /\ base[r] # version
    /\ AttemptFailed(r)
    /\ UNCHANGED <<plan, branch, version, faulty>>

(***************************************************************************)
(* Any git command of the attempt may fail, and the job may be killed.     *)
(***************************************************************************)
GitFails(r) ==
    /\ pc[r] \in {"ready", "staged"}
    /\ AttemptFailed(r)
    /\ faulty' = TRUE
    /\ UNCHANGED <<plan, branch, version>>

Kill(r) ==
    /\ pc[r] \in {"ready", "staged"}
    /\ pc' = [pc EXCEPT ![r] = "killed"]
    /\ Discard(r)
    /\ faulty' = TRUE
    /\ UNCHANGED <<plan, failures, branch, version>>

Over(r) == pc[r] \in {"landed", "nothing", "failed", "killed"}

Finished == (\A r \in Recording : Over(r)) /\ UNCHANGED vars

Next ==
    \/ \E r \in Recording :
          Stage(r) \/ StageOrphan(r) \/ Push(r) \/ PushUnacknowledged(r)
            \/ PushRefused(r) \/ GitFails(r) \/ Kill(r)
    \/ Finished

Spec == Init /\ [][Next]_vars
-------------------------------------------------------------------------------
(***************************************************************************)
(* Every variable has its type; in particular no recording makes more than *)
(* the attempts Write allows it (gitstate.go, the loop of Write).          *)
(***************************************************************************)
TypeOK ==
    /\ plan \in Plans
    /\ pc \in [Recording -> {"ready", "staged", "landed", "nothing", "failed", "killed"}]
    /\ failures \in [Recording -> 0..Attempts]
    /\ base \in [Recording -> Nat]
    /\ staging \in [Recording -> Worktree]
    /\ appended \in [Recording -> Seq(Record)]
    /\ branch \in Worktree
    /\ version \in Nat
    /\ faulty \in BOOLEAN

(***************************************************************************)
(* A commit is one point on a branch's line: whatever is retried, re-run,  *)
(* killed or acknowledged late, a commit, branch and kind has one record   *)
(* (ledger.go, Append: "must leave one line, not two").                    *)
(***************************************************************************)
NoDuplicates ==
    \A i, j \in DOMAIN branch.ledger :
        /\ branch.ledger[i].commit = branch.ledger[j].commit
        /\ branch.ledger[i].branch = branch.ledger[j].branch
        /\ branch.ledger[i].kind = branch.ledger[j].kind
        => i = j

(***************************************************************************)
(* What a job landed no other job undoes: the history is only extended,    *)
(* and a document is replaced but never removed, also by a job that        *)
(* started the branch anew because it could not see it.                    *)
(***************************************************************************)
NothingIsLost ==
    [][ /\ IsPrefix(branch.ledger, branch'.ledger)
        /\ \A k \in DOMAIN branch.docs : branch.docs[k] # Nothing => branch'.docs[k] # Nothing
      ]_vars

(***************************************************************************)
(* A recording that ends in success is on the branch, entry and documents, *)
(* whoever put them there; what it says it appended is on the branch; and  *)
(* no two recordings say they appended the same data point (gitstate.go,   *)
(* Write: "it must never be reported as recorded").                        *)
(***************************************************************************)
Has(c, b) ==
    \E i \in DOMAIN branch.ledger :
        /\ branch.ledger[i].kind = "entry"
        /\ branch.ledger[i].commit = c
        /\ branch.ledger[i].branch = b

ReportedIsLanded ==
    \A r \in Recording : pc[r] \in {"landed", "nothing"} =>
        /\ plan[r].history => Has(plan[r].measured.commit, plan[r].measured.branch)
        /\ \A m \in Metric : plan[r].snapshot[m] # Nothing =>
               branch.docs[<<m, Tree[plan[r].measured.commit]>>] # Nothing
        /\ ToSet(appended[r]) \subseteq ToSet(branch.ledger)
        /\ \A s \in Recording \ {r} :
               pc[s] = "landed" => ToSet(appended[r]) \cap ToSet(appended[s]) = {}

(***************************************************************************)
(* A baseline lands with its record or not at all: whatever document the   *)
(* branch holds was measured by a recording whose entry, when it had one   *)
(* to make, is there too (gitstate.go, Write: a baseline with no record    *)
(* beside it "is a hole in the history that lydite's own write path        *)
(* invented").                                                             *)
(***************************************************************************)
BaselineHasItsEntry ==
    \A k \in DOMAIN branch.docs : branch.docs[k] # Nothing =>
        \E r \in Recording :
            /\ Tree[plan[r].measured.commit] = k[2]
            /\ plan[r].snapshot[k[1]] = branch.docs[k]
            /\ plan[r].history => Has(plan[r].measured.commit, plan[r].measured.branch)

(***************************************************************************)
(* A recording gives up only to a fault or to as many others as it had     *)
(* attempts: when nothing fails, Attempts concurrent recordings all land   *)
(* (gitstate.go, the comment on attempts).                                 *)
(***************************************************************************)
OverlapTolerated ==
    \A r \in Recording : pc[r] = "failed" /\ ~faulty =>
        Cardinality({ s \in Recording \ {r} : pc[s] = "landed" }) >= Attempts

(***************************************************************************)
(* The commits a gap says were never recorded.                             *)
(***************************************************************************)
ClaimedMissing(g) ==
    IF g.missing = Unknown THEN {} ELSE { Chain[g.commit][n] : n \in 1..g.missing }

\* One of the two descends from the other, or they are the same.
Related(a, c) == a = c \/ a \in Past[c] \/ c \in Past[a]

(***************************************************************************)
(* When a gap lands, none of the commits it says were never recorded is on *)
(* the branch, though the recording that wrote it may have been retried on *)
(* a branch others advanced (gitstate.go, the comment on Records).  What   *)
(* was recorded on a line a force-push replaced, and was merged in again   *)
(* since, is the exception: it and the last recorded commit do not descend *)
(* from each other, and the gap may count it (NothingClaimedIsRecorded).   *)
(***************************************************************************)
GapTrueWhenLanded ==
    \A i \in DOMAIN branch.ledger : branch.ledger[i].kind = "gap" =>
        \A j \in 1..(i - 1) :
            ~ /\ branch.ledger[j].kind = "entry"
              /\ branch.ledger[j].branch = branch.ledger[i].branch
              /\ branch.ledger[j].commit \in ClaimedMissing(branch.ledger[i])
              /\ Related(branch.ledger[j].commit, branch.ledger[i].from)

(***************************************************************************)
(* The same without exception: a gap's commits "were never recorded" when  *)
(* it lands (compose.go, gapBefore).  False after such a merge.            *)
(***************************************************************************)
NothingClaimedIsRecorded ==
    \A i \in DOMAIN branch.ledger : branch.ledger[i].kind = "gap" =>
        \A j \in 1..(i - 1) :
            ~ /\ branch.ledger[j].kind = "entry"
              /\ branch.ledger[j].branch = branch.ledger[i].branch
              /\ branch.ledger[j].commit \in ClaimedMissing(branch.ledger[i])

(***************************************************************************)
(* A gap is a hole: its width is "at least one commit ... and never        *)
(* nought" (compose.go, gapBefore).  False where the last recorded commit  *)
(* is a second parent, merged into a commit it already contains.           *)
(***************************************************************************)
GapsHaveWidth ==
    \A i \in DOMAIN branch.ledger :
        branch.ledger[i].kind = "gap" => branch.ledger[i].missing # 0

(***************************************************************************)
(* A gap says commits are missing "and will never arrive" (ledger.go,      *)
(* KindGap): no entry for one of them is ever on the branch.               *)
(***************************************************************************)
GapsAreFinal ==
    \A i, j \in DOMAIN branch.ledger :
        branch.ledger[i].kind = "gap" =>
            ~ /\ branch.ledger[j].kind = "entry"
              /\ branch.ledger[j].branch = branch.ledger[i].branch
              /\ branch.ledger[j].commit \in ClaimedMissing(branch.ledger[i])

(***************************************************************************)
(* No silent hole: an entry that lands on a branch where something older   *)
(* is recorded, within the months looked back, either follows its parent's *)
(* entry or has an explicit gap right before it (compose.go, gapBefore).   *)
(***************************************************************************)
EveryHoleIsMarked ==
    LET L == branch.ledger
    IN  \A i \in DOMAIN L : L[i].kind = "entry" =>
            LET before == SubSeq(L, 1, i - 1)
                older == { j \in Walked(before, L[i].branch, Date[L[i].commit]) :
                             Date[L[j].commit] <= Date[L[i].commit] }
            IN  older # {} =>
                  \/ \E j \in older : L[j].commit = Parent(L[i].commit)
                  \/ L[i-1].kind = "gap" /\ L[i-1].commit = L[i].commit
                                         /\ L[i-1].branch = L[i].branch

(***************************************************************************)
(* The gaps on the branch are its holes, and no other commits: none claims *)
(* what is there when it lands, lines a force-push replaced apart, and no  *)
(* entry follows a hole unmarked.                                          *)
(***************************************************************************)
GapsAreTheHoles == GapTrueWhenLanded /\ EveryHoleIsMarked

(***************************************************************************)
(* The open set is what was last seen: once the newest commit's entry has  *)
(* landed after every other of its branch, the replay asked for in the     *)
(* same month leaves open what its scan found in the buckets it measured,  *)
(* and in every other bucket exactly what was open before, whatever order  *)
(* the older ones landed in (ledger.go, FindingBucket and BranchState).    *)
(* In a later month the months looked back are others.                     *)
(***************************************************************************)
OpenSetIsLastScan ==
    LET L == branch.ledger
    IN  \A i \in DOMAIN L :
            ( /\ L[i].kind = "entry"
              /\ \A j \in DOMAIN L : j # i /\ L[j].kind = "entry" /\ L[j].branch = L[i].branch
                                       => j < i /\ Date[L[j].commit] < Date[L[i].commit]
              /\ Month(Date[L[i].commit] + 1) = Month(Date[L[i].commit]) )
            => LET after == Date[L[i].commit] + 1
                   m == plan[L[i].scalars].measured
               IN  open(L, L[i].branch, after) =
                     { c \in m.found : c[1] \in m.scope }
                       \cup { c \in open(SubSeq(L, 1, i - 1), L[i].branch, after) : c[1] \notin m.scope }

(***************************************************************************)
(* A claim that appeared does not appear again before it was resolved, on  *)
(* a branch whose entries landed in the order of their dates, unless the   *)
(* branch had no entry at all in the months looked back (ledger.go,        *)
(* FindingAppeared: "a fingerprint this recording's scan holds that the    *)
(* branch's open set, replayed up to this commit, did not").               *)
(***************************************************************************)
TransitionsAlternate ==
    LET L == branch.ledger
        Line(b) == { i \in DOMAIN L : L[i].kind = "entry" /\ L[i].branch = b }
        says(i, what, c) == [transition |-> what, claim |-> c] \in L[i].events
        adopts(j) == Walked(SubSeq(L, 1, j - 1), L[j].branch, Date[L[j].commit]) = {}
    IN  \A b \in Branch :
            (\A i, j \in Line(b) : i < j => Date[L[i].commit] < Date[L[j].commit])
            => \A i, j \in Line(b) : \A c \in Claim :
                  i < j /\ says(i, "appeared", c) /\ says(j, "appeared", c) /\ ~adopts(j)
                  => \E n \in Line(b) : i < n /\ n < j /\ says(n, "resolved", c)

(***************************************************************************)
(* The projection is what the records say: each day's row counts the day's *)
(* records and describes the newest commit of the day, in whatever order   *)
(* they landed (ledger.go, project).                                       *)
(***************************************************************************)
RollupAgrees ==
    LET L == branch.ledger
    IN  \A b \in Branch, d \in Days :
            LET of(kind) == { i \in DOMAIN L : L[i].kind = kind /\ L[i].branch = b
                                               /\ Day(Date[L[i].commit]) = d }
                row == branch.rollup[<<b, d>>]
            IN  /\ row.entries = Cardinality(of("entry"))
                /\ row.gaps = Cardinality(of("gap"))
                /\ IF of("entry") = {} THEN row.commit = NoCommit
                   ELSE \E i \in of("entry") :
                          /\ L[i].commit = row.commit
                          /\ \A j \in of("entry") : Date[L[j].commit] <= Date[L[i].commit]

(***************************************************************************)
(* What readers are told is what the records say, in whatever order they   *)
(* landed: the open findings, and each day's row.                          *)
(***************************************************************************)
ReadersAgree == OpenSetIsLastScan /\ RollupAgrees
===============================================================================
