-------------------------------- MODULE Ledger --------------------------------
(***************************************************************************)
(* The quality history of the state branch: what one recording appends to  *)
(* it and what it derives from what is already there (internal/ledger and  *)
(* internal/stages/ledger/compose.go).                                     *)
(*                                                                         *)
(* The partitions are one sequence of records, in the order they landed.   *)
(* That is exact for every question the code asks of them: a record's      *)
(* month is a function of its commit's date, so two records of equal date  *)
(* are in one month, whose parts are read in landing order, and every      *)
(* other question is decided by the dates.  A record's date and tree are   *)
(* functions of its commit, so the commit stands for them, and its parent  *)
(* nothing here reads; its scalars are whatever the recording measured, so *)
(* the recording stands for them.                                          *)
(***************************************************************************)
EXTENDS Naturals, Sequences, FiniteSets, SequencesExt

CONSTANTS Commit, Branch, Recording, Bucket, Fingerprint,
          NoCommit,     \* no previous record, no parent
          Unknown,      \* the width of a gap that cannot be established
          Chain,        \* a commit's first-parent chain, nearest ancestor first
          Past,         \* a commit's ancestors, every parent followed
          Date,         \* a commit's own date
          DayLength, MonthLength,   \* the calendar
          lookbackMonths

ASSUME LedgerAssumption ==
    /\ NoCommit \notin Commit
    /\ Unknown \notin Nat
    /\ Chain \in [Commit -> Seq(Commit)]
    /\ Date \in [Commit -> Nat]
    /\ DayLength \in Nat \ {0}
    /\ MonthLength \in Nat \ {0}
    /\ lookbackMonths \in Nat \ {0}

(***************************************************************************)
(* A history of commits, merges included: nothing is its own ancestor, an  *)
(* ancestor's ancestors are ancestors, a commit with any has a first       *)
(* parent, and the chain of each commit on a chain is the rest of it.      *)
(***************************************************************************)
ASSUME HistoryAssumption ==
    /\ Past \in [Commit -> SUBSET Commit]
    /\ \A c \in Commit :
        /\ c \notin Past[c]
        /\ \A a \in Past[c] : Past[a] \subseteq Past[c]
        /\ Past[c] # {} => Chain[c] # <<>>
        /\ \A n \in DOMAIN Chain[c] :
             /\ Chain[c][n] \in Past[c]
             /\ Chain[Chain[c][n]] = SubSeq(Chain[c], n + 1, Len(Chain[c]))

Day(date) == date \div DayLength
Month(date) == date \div MonthLength

Days == { Day(Date[c]) : c \in Commit }

(***************************************************************************)
(* A located claim lives in a bucket, one gate over one component, and is  *)
(* told apart by its fingerprint.                                          *)
(***************************************************************************)
Claim == Bucket \X Fingerprint

FindingEvent == [transition : {"appeared", "resolved"}, claim : Claim]

Entry == [kind : {"entry"}, commit : Commit, branch : Branch, scalars : Recording,
          events : SUBSET FindingEvent]

Gap == [kind : {"gap"}, commit : Commit, branch : Branch, from : Commit,
        missing : Nat \cup {Unknown}]

Record == Entry \cup Gap

(***************************************************************************)
(* One row per branch and day; entries + gaps = 0 is a row not there.      *)
(***************************************************************************)
Rollup == [entries : Nat, gaps : Nat, commit : Commit \cup {NoCommit}]

NoRow == [entries |-> 0, gaps |-> 0, commit |-> NoCommit]

(***************************************************************************)
(* A recording: the commit checked out, the branch it is filed under, the  *)
(* buckets its scan measured and what it found.  A claim outside the scope *)
(* is one a crashed scanner made before it went down.  A shallow checkout, *)
(* of depth one, holds its own commit and says it has no parent.           *)
(***************************************************************************)
Measurement == [commit : Commit, branch : Branch, scope : SUBSET Bucket,
                found : SUBSET Claim, shallow : BOOLEAN]

Parent(c) == IF Chain[c] = <<>> THEN NoCommit ELSE Head(Chain[c])

\* The parent DescribeCommit reads.
ParentSeen(m) == IF m.shallow THEN NoCommit ELSE Parent(m.commit)

\* git merge-base --is-ancestor: by any parents.
IsAncestor(a, c) == a \in Past[c]

(***************************************************************************)
(* git rev-list --first-parent a..c, without c itself: what a reaches by   *)
(* any parents is left out, and of the rest only c's own chain is counted. *)
(* A commit merged in as a second parent may leave nothing to count.       *)
(***************************************************************************)
\* Mutation: the commits that were merged in are counted as well.
DistanceEveryParent(a, c) == Cardinality(Past[c] \ (Past[a] \cup {a}))

Distance(a, c) ==
    Cardinality({ n \in DOMAIN Chain[c] : Chain[c][n] \notin Past[a] \cup {a} })

CommitsBetween(a, m) ==
    IF IsAncestor(a, m.commit) /\ ~m.shallow THEN Distance(a, m.commit) ELSE Unknown

-------------------------------------------------------------------------------
(***************************************************************************)
(* Identity is the commit, the branch and the kind, whatever the content.  *)
(***************************************************************************)
\* Mutation: a record is identified by its whole content.
RecordedVerbatim(ledger, rec) == rec \in ToSet(ledger)

Recorded(ledger, rec) ==
    \E i \in DOMAIN ledger :
        /\ ledger[i].commit = rec.commit
        /\ ledger[i].branch = rec.branch
        /\ ledger[i].kind = rec.kind

(***************************************************************************)
(* The positions of the branch's entries in the months a writer at this    *)
(* date walks: its own month, entries after the date included, and those   *)
(* before it, lookbackMonths in all.                                       *)
(***************************************************************************)
Walked(ledger, b, before) ==
    { i \in DOMAIN ledger :
        /\ ledger[i].kind = "entry"
        /\ ledger[i].branch = b
        /\ Month(Date[ledger[i].commit]) <= Month(before)
        /\ Month(Date[ledger[i].commit]) + lookbackMonths > Month(before) }

(***************************************************************************)
(* BranchState, its second answer: the newest entry at or before the date. *)
(* Among entries of one date the first read is kept.                       *)
(***************************************************************************)
\* Mutation: the last recording that landed, whatever its date.
previousLanded(ledger, b, before) ==
    LET candidates == Walked(ledger, b, before)
    IN  IF candidates = {} THEN NoCommit
        ELSE ledger[CHOOSE i \in candidates : \A j \in candidates : j <= i].commit

previous(ledger, b, before) ==
    LET at(i) == Date[ledger[i].commit]
        candidates == { i \in Walked(ledger, b, before) : at(i) <= before }
    IN  IF candidates = {} THEN NoCommit
        ELSE ledger[CHOOSE i \in candidates :
                       \A j \in candidates : at(j) < at(i) \/ (at(j) = at(i) /\ i <= j)].commit

(***************************************************************************)
(* BranchState, its first answer: the claims the replay of the entries     *)
(* strictly before the date leaves open.  The replay is in the order of    *)
(* dates, positions breaking ties: a claim is open when some entry says it *)
(* appeared and no later one says it was resolved.                         *)
(***************************************************************************)
open(ledger, b, before) ==
    LET at(i) == Date[ledger[i].commit]
        replay == { i \in Walked(ledger, b, before) : at(i) < before }
        earlier(j, i) == at(j) < at(i) \/ (at(j) = at(i) /\ j < i)
        says(i, what, c) == [transition |-> what, claim |-> c] \in ledger[i].events
    IN  { c \in Claim : \E i \in replay :
            /\ says(i, "appeared", c)
            /\ \A j \in replay : says(j, "resolved", c) => earlier(j, i) }

(***************************************************************************)
(* What became of each claim in scope since the branch's open set.         *)
(***************************************************************************)
\* Mutation: a bucket nothing measured is diffed as well.
findingEventsUnscoped(m, opened) ==
    { [transition |-> "appeared", claim |-> c] : c \in { d \in m.found \ opened : d[1] \in m.scope } }
      \cup { [transition |-> "resolved", claim |-> c] : c \in opened \ m.found }

findingEvents(m, opened) ==
    { e \in { [transition |-> "appeared", claim |-> c] : c \in m.found \ opened }
              \cup { [transition |-> "resolved", claim |-> c] : c \in opened \ m.found } :
        e.claim[1] \in m.scope }

(***************************************************************************)
(* The explicit break ahead of this commit's entry: none when nothing was  *)
(* recorded before it, or when the newest record is its parent or itself.  *)
(***************************************************************************)
\* Mutation: a break whose width is unknown is not recorded.
gapBeforeKnown(m, prev) ==
    IF prev \in {NoCommit, ParentSeen(m), m.commit} \/ CommitsBetween(prev, m) = Unknown
    THEN <<>>
    ELSE << [kind |-> "gap", commit |-> m.commit, branch |-> m.branch,
             from |-> prev, missing |-> CommitsBetween(prev, m)] >>

gapBefore(m, prev) ==
    IF prev \in {NoCommit, ParentSeen(m), m.commit}
    THEN <<>>
    ELSE << [kind |-> "gap", commit |-> m.commit, branch |-> m.branch,
             from |-> prev, missing |-> CommitsBetween(prev, m)] >>

entryOf(r, m, ledger) ==
    [kind |-> "entry", commit |-> m.commit, branch |-> m.branch, scalars |-> r,
     events |-> findingEvents(m, open(ledger, m.branch, Date[m.commit]))]

(***************************************************************************)
(* The function ComposeRecords answers with, asked of the ledger the       *)
(* attempt fetched.                                                        *)
(***************************************************************************)
records(r, m, ledger) ==
    Append(gapBefore(m, previous(ledger, m.branch, Date[m.commit])), entryOf(r, m, ledger))

(***************************************************************************)
(* ledger.Append: of the one or two records a recording offers, those not  *)
(* already there land, in order.  The two differ in kind, so that the      *)
(* first is there by then hides nothing of the second.                     *)
(***************************************************************************)
unlessRecorded(ledger, rec) == IF Recorded(ledger, rec) THEN <<>> ELSE <<rec>>

landing(ledger, recs) ==
    IF Len(recs) = 1
    THEN unlessRecorded(ledger, recs[1])
    ELSE unlessRecorded(ledger, recs[1]) \o unlessRecorded(ledger, recs[2])

(***************************************************************************)
(* The daily rollup after those records land: the counts of the day's      *)
(* records and the last entry of the day, an entry no older than the row's *)
(* replacing it.  All the records of one recording are of one day.         *)
(***************************************************************************)
project(rows, m, recs) ==
    LET row == rows[<<m.branch, Day(Date[m.commit])>>]
        of(kind) == { i \in DOMAIN recs : recs[i].kind = kind }
        newer == row.commit = NoCommit \/ Date[row.commit] <= Date[m.commit]
    IN  [rows EXCEPT ![<<m.branch, Day(Date[m.commit])>>] =
           [entries |-> row.entries + Cardinality(of("entry")),
            gaps    |-> row.gaps + Cardinality(of("gap")),
            commit  |-> IF of("entry") # {} /\ newer THEN m.commit ELSE row.commit]]
===============================================================================
