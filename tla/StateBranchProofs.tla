--------------------------- MODULE StateBranchProofs ---------------------------
(***************************************************************************)
(* Theorems about the state branch, for every history, every set of        *)
(* recordings and every number of attempts.                                *)
(***************************************************************************)
EXTENDS StateBranch, FiniteSetTheorems, NaturalsInduction, WellFoundedInduction, TLAPS

(***************************************************************************)
(* A set of naturals has a smallest element.                               *)
(***************************************************************************)
Less == { ss \in Nat \X Nat : ss[1] < ss[2] }

LEMMA Smallest ==
  ASSUME NEW T \in SUBSET Nat, T # {}
  PROVE  \E x \in T : \A y \in T : x <= y
<1>1. IsWellFoundedOn(Less, Nat)
  BY NatLessThanWellFounded DEF OpToRel, Less
<1>2. PICK x \in T : \A y \in T : <<y, x>> \notin Less
  BY <1>1, WFMin
<1>3. ASSUME NEW y \in T
      PROVE  x <= y
  <2>1. x \in Nat /\ y \in Nat
    OBVIOUS
  <2>2. y < x => <<y, x>> \in Less
    BY <2>1 DEF Less
  <2>3. QED
    BY <1>2, <2>1, <2>2
<1>4. QED
  BY <1>3

(***************************************************************************)
(* The previous record a writer finds is a commit of the branch's history. *)
(***************************************************************************)
Candidates(ledger, b, before) ==
    { i \in Walked(ledger, b, before) : Date[ledger[i].commit] <= before }

LEMMA PreviousFacts ==
  ASSUME NEW ledger \in Seq(Record), NEW b, NEW before \in Nat
  PROVE  \/ Candidates(ledger, b, before) = {} /\ previous(ledger, b, before) = NoCommit
         \/ \E i \in Candidates(ledger, b, before) :
              /\ i \in DOMAIN ledger /\ ledger[i].commit \in Commit
              /\ previous(ledger, b, before) = ledger[i].commit
              /\ \A j \in Candidates(ledger, b, before) :
                   Date[ledger[j].commit] <= Date[ledger[i].commit]
<1> DEFINE at(i) == Date[ledger[i].commit]
           C == { i \in Walked(ledger, b, before) : at(i) <= before }
           P(i) == \A j \in C : at(j) < at(i) \/ (at(j) = at(i) /\ i <= j)
<1>1. C \subseteq DOMAIN ledger /\ DOMAIN ledger \subseteq Nat
  BY DEF Walked
<1>2. \A i \in DOMAIN ledger : ledger[i].commit \in Commit
  BY DEF Record, Entry, Gap
<1>3. \A i \in C : at(i) \in Nat /\ at(i) <= before
  BY <1>1, <1>2, LedgerAssumption
<1>4. ASSUME C # {}
      PROVE  \E i \in C : P(i)
  <2> DEFINE D == { before - at(i) : i \in C }
  <2>0. \A i \in C : before - at(i) \in Nat
    BY <1>3
  <2> HIDE DEF C, at
  <2>1. D \in SUBSET Nat /\ D # {}
    BY <2>0, <1>4
  <2>2. PICK d \in D : \A e \in D : d <= e
    BY <2>1, Smallest
  <2> DEFINE E == { i \in C : before - at(i) = d }
  <2>3. E \in SUBSET Nat /\ E # {}
    <3>1. C \subseteq Nat
      BY <1>1 DEF C
    <3>2. \E i \in C : before - at(i) = d
      BY <2>2
    <3>3. QED
      BY <3>1, <3>2
  <2>4. PICK i \in E : \A j \in E : i <= j
    BY <2>3, Smallest
  <2>5. i \in C /\ before - at(i) = d
    BY <2>4
  <2>6. ASSUME NEW j \in C
        PROVE  at(j) < at(i) \/ (at(j) = at(i) /\ i <= j)
    <3>1. d <= before - at(j)
      BY <2>2
    <3>2. at(j) <= at(i)
      BY <3>1, <2>5, <1>3
    <3>3. CASE at(j) = at(i)
      <4>1. j \in E
        BY <3>3, <2>5
      <4>2. QED
        BY <4>1, <2>4, <3>3
    <3>4. QED
      BY <3>2, <3>3, <1>3, <2>5
  <2>7. QED
    BY <2>5, <2>6
<1>5. previous(ledger, b, before) =
        IF C = {} THEN NoCommit ELSE ledger[CHOOSE i \in C : P(i)].commit
  BY DEF previous
<1>6. C = Candidates(ledger, b, before)
  BY DEF Candidates
<1>7. \A i, j \in C : P(i) => at(j) <= at(i)
  BY <1>3
<1> HIDE DEF P, C
<1>8. CASE C = {}
  BY <1>5, <1>6, <1>8
<1>9. CASE C # {}
  <2> DEFINE found == CHOOSE i \in C : P(i)
  <2>1. found \in C /\ P(found)
    BY <1>4, <1>9
  <2> HIDE DEF found
  <2>2. previous(ledger, b, before) = ledger[found].commit
    BY <1>5, <1>9 DEF found
  <2>3. QED
    BY <1>1, <1>2, <1>6, <1>7, <2>1, <2>2
<1>10. QED
  BY <1>8, <1>9

LEMMA PreviousType ==
  ASSUME NEW ledger \in Seq(Record), NEW b, NEW before \in Nat
  PROVE  previous(ledger, b, before) \in Commit \cup {NoCommit}
  BY PreviousFacts

(***************************************************************************)
(* The width of a gap counts positions of the chain from its first on: no  *)
(* commit it claims is reached by the one it is counted from.              *)
(***************************************************************************)
LEMMA DistanceFacts ==
  ASSUME NEW a \in Commit, NEW c \in Commit
  PROVE  /\ Distance(a, c) \in Nat
         /\ \A n \in 1..Distance(a, c) :
              n \in DOMAIN Chain[c] /\ Chain[c][n] \notin Past[a] \cup {a}
<1> DEFINE U == { n \in DOMAIN Chain[c] : Chain[c][n] \notin Past[a] \cup {a} }
<1>1. Chain[c] \in Seq(Commit) /\ DOMAIN Chain[c] = 1..Len(Chain[c]) /\ Len(Chain[c]) \in Nat
  BY LedgerAssumption
<1>2. Distance(a, c) = Cardinality(U)
  BY DEF Distance
<1>3. ASSUME NEW k \in DOMAIN Chain[c], NEW n \in DOMAIN Chain[c], n \in U, k < n
      PROVE  k \in U
  <2> DEFINE p == Chain[c][k]
  <2>1. p \in Commit /\ Chain[p] = SubSeq(Chain[c], k + 1, Len(Chain[c]))
    BY <1>1, HistoryAssumption
  <2>2. n - k \in DOMAIN SubSeq(Chain[c], k + 1, Len(Chain[c]))
        /\ SubSeq(Chain[c], k + 1, Len(Chain[c]))[n - k] = Chain[c][n]
    BY <1>1, <1>3
  <2> HIDE DEF p
  <2>3. Chain[c][n] \in Past[p]
    BY <2>1, <2>2, HistoryAssumption
  <2>4. p \in Past[a] \cup {a} => Chain[c][n] \in Past[a]
    BY <2>3, HistoryAssumption
  <2> QED
    BY <1>3, <2>4 DEF p
<1>4. ASSUME NEW n \in Nat, U \subseteq 1..n
      PROVE  Cardinality(U) \in Nat /\ Cardinality(U) <= n
  <2> HIDE DEF U
  <2>1. IsFiniteSet(1..n) /\ Cardinality(1..n) = n
    BY <1>4, FS_Interval
  <2> QED
    BY <1>4, <2>1, FS_Subset, FS_CardinalityType
<1>5. Cardinality(U) \in Nat /\ Cardinality(U) <= Len(Chain[c])
  BY <1>1, <1>4
<1>6. ASSUME NEW n \in 1..Cardinality(U), n \notin U
      PROVE  FALSE
  <2>1. n \in DOMAIN Chain[c] /\ n \in Nat /\ n - 1 \in Nat
    BY <1>1, <1>5
  <2>2. \A x \in U : x \in DOMAIN Chain[c] /\ x <= n - 1
    <3> SUFFICES ASSUME NEW x \in U PROVE x <= n - 1
      OBVIOUS
    <3>1. x \in DOMAIN Chain[c] /\ x # n /\ ~(n < x)
      BY <1>3, <1>6, <2>1
    <3> QED
      BY <1>1, <2>1, <3>1
  <2> HIDE DEF U
  <2>3. U \subseteq 1..(n - 1)
    BY <1>1, <2>2
  <2>4. Cardinality(U) <= n - 1
    BY <1>4, <2>1, <2>3
  <2> QED
    BY <1>5, <2>4
<1> QED
  BY <1>2, <1>5, <1>6

(***************************************************************************)
(* A gap's width is a number or not known.                                 *)
(***************************************************************************)
LEMMA BetweenType ==
  ASSUME NEW a \in Commit, NEW m \in Measurement
  PROVE  CommitsBetween(a, m) \in Nat \cup {Unknown}
<1>1. m.commit \in Commit
  BY DEF Measurement
<1> QED
  BY <1>1, DistanceFacts DEF CommitsBetween

(***************************************************************************)
(* The records a recording offers: an entry, and a gap ahead of it or not. *)
(***************************************************************************)
LEMMA EntryType ==
  ASSUME NEW r \in Recording, NEW m \in Measurement, NEW ledger
  PROVE  entryOf(r, m, ledger) \in Entry
<1>1. m.commit \in Commit /\ m.branch \in Branch /\ m.found \subseteq Claim
  BY DEF Measurement
<1>2. open(ledger, m.branch, Date[m.commit]) \subseteq Claim
  BY DEF open
<1>3. findingEvents(m, open(ledger, m.branch, Date[m.commit])) \subseteq FindingEvent
  BY <1>1, <1>2 DEF findingEvents, FindingEvent
<1>4. QED
  BY <1>1, <1>3 DEF entryOf, Entry

LEMMA GapType ==
  ASSUME NEW m \in Measurement, NEW prev \in Commit \cup {NoCommit}
  PROVE  \/ gapBefore(m, prev) = <<>>
         \/ \E g \in Gap : /\ gapBefore(m, prev) = <<g>>
                           /\ g.commit = m.commit /\ g.branch = m.branch
<1>1. CASE prev \in {NoCommit, ParentSeen(m), m.commit}
  BY <1>1 DEF gapBefore
<1>2. CASE prev \notin {NoCommit, ParentSeen(m), m.commit}
  <2> DEFINE g == [kind |-> "gap", commit |-> m.commit, branch |-> m.branch,
                   from |-> prev, missing |-> CommitsBetween(prev, m)]
  <2>1. prev \in Commit
    BY <1>2
  <2>2. CommitsBetween(prev, m) \in Nat \cup {Unknown}
    BY <2>1, BetweenType
  <2>3. m.commit \in Commit /\ m.branch \in Branch
    BY DEF Measurement
  <2>4. g \in Gap
    BY <2>1, <2>2, <2>3 DEF Gap
  <2>5. gapBefore(m, prev) = <<g>>
    BY <1>2 DEF gapBefore
  <2>6. QED
    BY <2>4, <2>5
<1>3. QED
  BY <1>1, <1>2

(***************************************************************************)
(* What of it lands: records, at most one of a kind, none of them there    *)
(* before; and the entry is there afterwards, now or already.              *)
(***************************************************************************)
HasEntry(L, c, b) ==
    \E i \in DOMAIN L : L[i].kind = "entry" /\ L[i].commit = c /\ L[i].branch = b

LEMMA LandingFacts ==
  ASSUME NEW r \in Recording, NEW m \in Measurement, NEW ledger \in Seq(Record),
         NEW A, A = landing(ledger, records(r, m, ledger))
  PROVE  /\ A \in Seq(Record)
         /\ Len(A) <= 2
         /\ \A i \in DOMAIN A : ~Recorded(ledger, A[i])
         /\ \A i, j \in DOMAIN A : A[i].kind = A[j].kind => i = j
         /\ HasEntry(ledger \o A, m.commit, m.branch)
<1> DEFINE prev == previous(ledger, m.branch, Date[m.commit])
           e == entryOf(r, m, ledger)
<1>1. Date[m.commit] \in Nat
  BY LedgerAssumption DEF Measurement
<1>2. prev \in Commit \cup {NoCommit}
  BY <1>1, PreviousType
<1>3. e \in Record /\ e.kind = "entry" /\ e.commit = m.commit /\ e.branch = m.branch
  BY EntryType DEF entryOf, Record
<1>4. records(r, m, ledger) = Append(gapBefore(m, prev), e)
  BY DEF records
<1>5. ASSUME NEW rec \in Record
      PROVE  LET N == unlessRecorded(ledger, rec)
             IN  /\ N \in Seq(Record)
                 /\ Len(N) = 0 \/ (Len(N) = 1 /\ N[1] = rec /\ ~Recorded(ledger, rec))
                 /\ Len(N) = 0 => Recorded(ledger, rec)
  BY DEF unlessRecorded
<1> DEFINE N == unlessRecorded(ledger, e)
<1>6. Len(N) = 0 => HasEntry(ledger, m.commit, m.branch)
  <2>1. Len(N) = 0 => Recorded(ledger, e)
    BY <1>3, <1>5
  <2>2. QED
    BY <2>1, <1>3 DEF Recorded, HasEntry
<1>7. N \in Seq(Record) /\ (Len(N) = 0 \/ (Len(N) = 1 /\ N[1] = e /\ ~Recorded(ledger, e)))
  BY <1>3, <1>5
<1> HIDE DEF prev, e, N
<1>8. ASSUME NEW B \in Seq(Record),
             Len(B) = 0 \/ (Len(B) = 1 /\ B[1].kind = "gap" /\ ~Recorded(ledger, B[1])),
             A = B \o N
      PROVE  /\ A \in Seq(Record)
             /\ Len(A) <= 2
             /\ \A i \in DOMAIN A : ~Recorded(ledger, A[i])
             /\ \A i, j \in DOMAIN A : A[i].kind = A[j].kind => i = j
             /\ HasEntry(ledger \o A, m.commit, m.branch)
  <2>1. A \in Seq(Record) /\ Len(A) = Len(B) + Len(N)
    BY <1>7, <1>8
  <2>2. \A i \in DOMAIN A : IF i <= Len(B) THEN i \in DOMAIN B /\ A[i] = B[i]
                                           ELSE i = Len(B) + 1 /\ A[i] = e /\ Len(N) = 1
    BY <1>7, <1>8, <2>1
  <2>3. \A i \in DOMAIN A : ~Recorded(ledger, A[i])
    BY <1>7, <1>8, <2>2
  <2>4. \A i, j \in DOMAIN A : A[i].kind = A[j].kind => i = j
    BY <1>3, <1>7, <1>8, <2>1, <2>2
  <2>5. HasEntry(ledger \o A, m.commit, m.branch)
    <3>1. CASE Len(N) = 0
      <4>1. PICK i \in DOMAIN ledger : ledger[i].kind = "entry" /\ ledger[i].commit = m.commit
                                       /\ ledger[i].branch = m.branch
        BY <3>1, <1>6 DEF HasEntry
      <4>2. i \in DOMAIN (ledger \o A) /\ (ledger \o A)[i] = ledger[i]
        BY <2>1
      <4>3. QED
        BY <4>1, <4>2 DEF HasEntry
    <3>2. CASE Len(N) = 1
      <4> DEFINE k == Len(ledger) + Len(A)
      <4>1. Len(A) \in DOMAIN A /\ A[Len(A)] = e
        BY <3>2, <1>7, <1>8, <2>1, <2>2
      <4>2. k \in DOMAIN (ledger \o A) /\ (ledger \o A)[k] = A[Len(A)]
        BY <4>1, <2>1
      <4>3. QED
        BY <4>1, <4>2, <1>3 DEF HasEntry
    <3>3. QED
      BY <3>1, <3>2, <1>7
  <2>6. Len(A) <= 2
    BY <1>7, <1>8, <2>1
  <2>7. QED
    BY <2>1, <2>3, <2>4, <2>5, <2>6
<1>9. CASE gapBefore(m, prev) = <<>>
  <2>1. Len(records(r, m, ledger)) = 1 /\ records(r, m, ledger)[1] = e
    BY <1>4, <1>9
  <2>2. A = N
    BY <2>1 DEF landing, N
  <2> DEFINE B == <<>>
  <2>3. B \in Seq(Record) /\ Len(B) = 0
    OBVIOUS
  <2>4. A = B \o N
    BY <2>2, <1>7
  <2> HIDE DEF B
  <2>5. QED
    BY <2>3, <2>4, <1>8
<1>10. CASE \E g \in Gap : gapBefore(m, prev) = <<g>>
  <2>1. PICK g \in Gap : gapBefore(m, prev) = <<g>>
    BY <1>10
  <2>2. /\ Len(records(r, m, ledger)) = 2
        /\ records(r, m, ledger)[1] = g /\ records(r, m, ledger)[2] = e
    BY <1>4, <2>1
  <2>3. A = unlessRecorded(ledger, g) \o N
    BY <2>2 DEF landing, N
  <2>4. g \in Record /\ g.kind = "gap"
    BY DEF Record, Gap
  <2> DEFINE B == unlessRecorded(ledger, g)
  <2>5. B \in Seq(Record) /\ (Len(B) = 0 \/ (Len(B) = 1 /\ B[1] = g /\ ~Recorded(ledger, g)))
    BY <2>4, <1>5
  <2> HIDE DEF B
  <2>6. A = B \o N
    BY <2>3 DEF B
  <2>7. QED
    BY <2>4, <2>5, <2>6, <1>8
<1>11. QED
  BY <1>2, <1>9, <1>10, GapType

-------------------------------------------------------------------------------
(***************************************************************************)
(* A row of the rollup stays one.                                          *)
(***************************************************************************)
LEMMA ProjectType ==
  ASSUME NEW m \in Measurement, NEW rows \in [Branch \X Days -> Rollup], NEW recs \in Seq(Record)
  PROVE  project(rows, m, recs) \in [Branch \X Days -> Rollup]
<1> DEFINE k == <<m.branch, Day(Date[m.commit])>>
           of(kind) == { i \in DOMAIN recs : recs[i].kind = kind }
           newer == rows[k].commit = NoCommit \/ Date[rows[k].commit] <= Date[m.commit]
           row == [entries |-> rows[k].entries + Cardinality(of("entry")),
                   gaps    |-> rows[k].gaps + Cardinality(of("gap")),
                   commit  |-> IF of("entry") # {} /\ newer THEN m.commit ELSE rows[k].commit]
<1>1. m.commit \in Commit /\ m.branch \in Branch
  BY DEF Measurement
<1>2. k \in Branch \X Days
  BY <1>1 DEF Days
<1>3. rows[k] \in Rollup
  BY <1>2
<1>4. rows[k].entries \in Nat /\ rows[k].gaps \in Nat /\ rows[k].commit \in Commit \cup {NoCommit}
  BY <1>3 DEF Rollup
<1>5. \A kind : Cardinality(of(kind)) \in Nat
  <2>1. DOMAIN recs = 1..Len(recs) /\ Len(recs) \in Nat
    OBVIOUS
  <2>2. IsFiniteSet(DOMAIN recs)
    BY <2>1, FS_Interval
  <2>3. \A kind : of(kind) \in SUBSET DOMAIN recs
    OBVIOUS
  <2>4. QED
    BY <2>2, <2>3, FS_Subset, FS_CardinalityType
<1>6. project(rows, m, recs) = [rows EXCEPT ![k] = row]
  BY DEF project
<1>7. row \in Rollup
  <2> HIDE DEF k, of
  <2>1. (IF of("entry") # {} /\ newer THEN m.commit ELSE rows[k].commit) \in Commit \cup {NoCommit}
    BY <1>1, <1>4
  <2>2. rows[k].entries + Cardinality(of("entry")) \in Nat
    BY <1>4, <1>5
  <2>3. rows[k].gaps + Cardinality(of("gap")) \in Nat
    BY <1>4, <1>5
  <2> HIDE DEF newer
  <2>4. QED
    BY <2>1, <2>2, <2>3 DEF Rollup
<1> HIDE DEF k, row
<1>8. QED
  BY <1>6, <1>7

(***************************************************************************)
(* What staging a recording on a view of the branch keeps and adds.        *)
(***************************************************************************)
OneEach(L) ==
    \A i, j \in DOMAIN L :
        L[i].commit = L[j].commit /\ L[i].branch = L[j].branch /\ L[i].kind = L[j].kind => i = j

\* What one content of the branch holds, another that extends it holds too.
Extends(v, w) ==
    /\ IsPrefix(v.ledger, w.ledger)
    /\ \A k \in Metric \X Trees : v.docs[k] # Nothing => w.docs[k] # Nothing

\* The recording is all there.
Complete(p, w) ==
    /\ p.history => HasEntry(w.ledger, p.measured.commit, p.measured.branch)
    /\ \A m \in Metric : p.snapshot[m] # Nothing => w.docs[<<m, Tree[p.measured.commit]>>] # Nothing

LEMMA ConcatOneEach ==
  ASSUME NEW L \in Seq(Record), NEW A \in Seq(Record), OneEach(L),
         \A i \in DOMAIN A : ~Recorded(L, A[i]),
         \A i, j \in DOMAIN A : A[i].kind = A[j].kind => i = j
  PROVE  OneEach(L \o A)
<1>1. \A i \in DOMAIN (L \o A) :
        \/ i \in DOMAIN L /\ (L \o A)[i] = L[i]
        \/ i - Len(L) \in DOMAIN A /\ (L \o A)[i] = A[i - Len(L)] /\ i \in Nat
  OBVIOUS
<1>2. \A i \in DOMAIN L : \A j \in DOMAIN A :
        ~(L[i].commit = A[j].commit /\ L[i].branch = A[j].branch /\ L[i].kind = A[j].kind)
  BY DEF Recorded
<1>3. SUFFICES ASSUME NEW i \in DOMAIN (L \o A), NEW j \in DOMAIN (L \o A),
                      (L \o A)[i].commit = (L \o A)[j].commit,
                      (L \o A)[i].branch = (L \o A)[j].branch,
                      (L \o A)[i].kind = (L \o A)[j].kind
               PROVE  i = j
  BY DEF OneEach
<1>4. CASE i \in DOMAIN L /\ j \in DOMAIN L
  BY <1>3, <1>4 DEF OneEach
<1>5. CASE i \in DOMAIN L /\ j \notin DOMAIN L
  BY <1>1, <1>2, <1>3, <1>5
<1>6. CASE i \notin DOMAIN L /\ j \in DOMAIN L
  BY <1>1, <1>2, <1>3, <1>6
<1>7. CASE i \notin DOMAIN L /\ j \notin DOMAIN L
  <2>1. i - Len(L) = j - Len(L)
    BY <1>1, <1>3, <1>7
  <2>2. QED
    BY <2>1, <1>1, <1>7
<1>8. QED
  BY <1>4, <1>5, <1>6, <1>7

LEMMA PlanType ==
  ASSUME plan \in Plans, NEW r \in Recording
  PROVE  /\ plan[r] \in Plan
         /\ plan[r].measured \in Measurement
         /\ plan[r].history \in BOOLEAN
         /\ plan[r].snapshot \in [Metric -> Content \cup {Nothing}]
         /\ Tree[plan[r].measured.commit] \in Trees
<1>1. plan[r] \in Plan
  BY StateBranchAssumption
<1>2. plan[r].measured \in Measurement
  BY <1>1 DEF Plan
<1>3. QED
  BY <1>1, <1>2, StateBranchAssumption DEF Plan, Measurement

LEMMA Staged ==
  ASSUME plan \in Plans, NEW r \in Recording, NEW view \in Worktree,
         NEW w, w = stageRecording(r, view)
  PROVE  /\ w \in Worktree
         /\ appends(r, view) \in Seq(Record)
         /\ w.ledger = view.ledger \o appends(r, view)
         /\ Extends(view, w)
         /\ Complete(plan[r], w)
         /\ OneEach(view.ledger) => OneEach(w.ledger)
         /\ ToSet(appends(r, view)) \subseteq ToSet(w.ledger)
         /\ ToSet(appends(r, view)) \cap ToSet(view.ledger) = {}
<1> DEFINE A == appends(r, view)
           L == view.ledger
           p == plan[r]
<1>1. /\ view.docs \in [Metric \X Trees -> Content \cup {Nothing}]
      /\ L \in Seq(Record)
      /\ view.rollup \in [Branch \X Days -> Rollup]
  BY DEF Worktree
<1>2. w = [docs   |-> documents(view.docs, p),
           ledger |-> L \o A,
           rollup |-> project(view.rollup, p.measured, A)]
  BY DEF stageRecording
<1>3. /\ A \in Seq(Record)
      /\ \A i \in DOMAIN A : ~Recorded(L, A[i])
      /\ \A i, j \in DOMAIN A : A[i].kind = A[j].kind => i = j
      /\ p.history => HasEntry(L \o A, p.measured.commit, p.measured.branch)
  <2>1. CASE p.history
    <3>1. A = landing(L, records(r, p.measured, L))
      BY <2>1 DEF appends
    <3>2. QED
      BY <3>1, <1>1, PlanType, LandingFacts
  <2>2. CASE ~p.history
    <3>1. A = <<>>
      BY <2>2 DEF appends
    <3>2. QED
      BY <3>1, <2>2
  <2>3. QED
    BY <2>1, <2>2
<1> HIDE DEF A, L, p
<1>4. documents(view.docs, p) \in [Metric \X Trees -> Content \cup {Nothing}]
  <2>1. \A k \in Metric \X Trees : k[1] \in Metric /\ p.snapshot[k[1]] \in Content \cup {Nothing}
    BY PlanType DEF p
  <2>2. QED
    BY <1>1, <2>1 DEF documents
<1>5. \A k \in Metric \X Trees : view.docs[k] # Nothing => documents(view.docs, p)[k] # Nothing
  BY DEF documents
<1>6. \A m \in Metric : p.snapshot[m] # Nothing =>
                       documents(view.docs, p)[<<m, Tree[p.measured.commit]>>] # Nothing
  <2>1. \A m \in Metric : <<m, Tree[p.measured.commit]>> \in Metric \X Trees
    BY PlanType DEF p
  <2>2. QED
    BY <2>1 DEF documents
<1>7. project(view.rollup, p.measured, A) \in [Branch \X Days -> Rollup]
  BY <1>1, <1>3, ProjectType, PlanType DEF p
<1>8. L \o A \in Seq(Record)
  BY <1>1, <1>3
<1>9. w \in Worktree
  BY <1>2, <1>4, <1>7, <1>8 DEF Worktree
<1>10. IsPrefix(L, L \o A)
  BY <1>1, <1>3 DEF IsPrefix
<1>11. OneEach(L) => OneEach(L \o A)
  BY <1>1, <1>3, ConcatOneEach
<1>12. ToSet(A) \subseteq ToSet(L \o A)
  <2>1. \A i \in DOMAIN A : Len(L) + i \in DOMAIN (L \o A) /\ (L \o A)[Len(L) + i] = A[i]
    BY <1>1, <1>3
  <2>2. QED
    BY <2>1 DEF ToSet
<1>13. ToSet(A) \cap ToSet(L) = {}
  BY <1>3 DEF ToSet, Recorded
<1>14. Extends(view, w)
  BY <1>2, <1>5, <1>10 DEF Extends, L
<1>15. Complete(p, w)
  BY <1>2, <1>3, <1>6 DEF Complete
<1>16. QED
  BY <1>2, <1>3, <1>9, <1>11, <1>12, <1>13, <1>14, <1>15 DEF A, L, p

LEMMA EmptyType == Empty \in Worktree /\ OneEach(Empty.ledger) /\ NoRow \in Rollup
<1>1. NoRow \in Rollup
  BY DEF NoRow, Rollup
<1>2. QED
  BY <1>1 DEF Empty, Worktree, OneEach

-------------------------------------------------------------------------------
(***************************************************************************)
(* Types.  That no more than Attempts attempts fail is inductive with what *)
(* the loop of Write knows: a recording that may still attempt has one     *)
(* left, and one that gave up has none.                                    *)
(***************************************************************************)
Tries ==
    \A r \in Recording :
        /\ pc[r] \in {"ready", "staged"} => failures[r] < Attempts
        /\ pc[r] = "failed" => failures[r] = Attempts

TypeInv == TypeOK /\ Tries

JobsType ==
    /\ pc \in [Recording -> {"ready", "staged", "landed", "nothing", "failed", "killed"}]
    /\ failures \in [Recording -> 0..Attempts]
    /\ base \in [Recording -> Nat]
    /\ staging \in [Recording -> Worktree]
    /\ appended \in [Recording -> Seq(Record)]
    /\ Tries

LEMMA DiscardType ==
  ASSUME TypeInv, NEW r \in Recording, Discard(r)
  PROVE  /\ base' \in [Recording -> Nat]
         /\ staging' \in [Recording -> Worktree]
         /\ appended' \in [Recording -> Seq(Record)]
<1>1. <<>> \in Seq(Record) /\ 0 \in Nat /\ Empty \in Worktree
  BY EmptyType
<1>2. QED
  BY <1>1 DEF Discard, TypeInv, TypeOK

LEMMA FailedType ==
  ASSUME TypeInv, NEW r \in Recording, pc[r] \in {"ready", "staged"}, AttemptFailed(r)
  PROVE  JobsType'
<1>1. failures[r] \in Nat /\ failures[r] < Attempts /\ Attempts \in Nat
  BY StateBranchAssumption DEF TypeInv, TypeOK, Tries
<1>2. failures' \in [Recording -> 0..Attempts]
  BY <1>1 DEF AttemptFailed, TypeInv, TypeOK
<1>3. pc' \in [Recording -> {"ready", "staged", "landed", "nothing", "failed", "killed"}]
  BY DEF AttemptFailed, TypeInv, TypeOK
<1>4. Tries'
  <2> SUFFICES ASSUME NEW s \in Recording
               PROVE  /\ pc'[s] \in {"ready", "staged"} => failures'[s] < Attempts
                      /\ pc'[s] = "failed" => failures'[s] = Attempts
    BY DEF Tries
  <2>1. CASE s = r
    BY <2>1, <1>1 DEF AttemptFailed, TypeInv, TypeOK
  <2>2. CASE s # r
    BY <2>2 DEF AttemptFailed, TypeInv, TypeOK, Tries
  <2>3. QED
    BY <2>1, <2>2
<1>5. QED
  BY <1>2, <1>3, <1>4, DiscardType DEF AttemptFailed, JobsType

LEMMA StageOnType ==
  ASSUME TypeInv, NEW r \in Recording, NEW view \in Worktree, NEW at \in Nat, StageOn(r, view, at)
  PROVE  JobsType'
<1>1. stageRecording(r, view) \in Worktree /\ appends(r, view) \in Seq(Record)
  BY Staged DEF TypeInv, TypeOK
<1>2. pc[r] = "ready" /\ failures' = failures
  BY DEF StageOn
<1>3. \/ /\ pc' = [pc EXCEPT ![r] = "nothing"]
         /\ UNCHANGED <<base, staging, appended>>
      \/ /\ pc' = [pc EXCEPT ![r] = "staged"]
         /\ base' = [base EXCEPT ![r] = at]
         /\ staging' = [staging EXCEPT ![r] = stageRecording(r, view)]
         /\ appended' = [appended EXCEPT ![r] = appends(r, view)]
  BY DEF StageOn
<1>4. Tries'
  BY <1>2, <1>3 DEF Tries, TypeInv, TypeOK
<1>5. pc' \in [Recording -> {"ready", "staged", "landed", "nothing", "failed", "killed"}]
  BY <1>3 DEF TypeInv, TypeOK
<1>6. base' \in [Recording -> Nat] /\ staging' \in [Recording -> Worktree]
      /\ appended' \in [Recording -> Seq(Record)]
  BY <1>1, <1>3 DEF TypeInv, TypeOK
<1>7. QED
  BY <1>2, <1>4, <1>5, <1>6 DEF JobsType, TypeInv, TypeOK

(***************************************************************************)
(* The types and the count of attempts are invariant together.             *)
(***************************************************************************)
LEMMA TypeInductive == Spec => []TypeInv
<1>1. Init => TypeInv
  <2> SUFFICES ASSUME Init PROVE TypeInv
    OBVIOUS
  <2>1. <<>> \in Seq(Record) /\ Empty \in Worktree
    BY EmptyType
  <2>2. Attempts \in Nat /\ 0 < Attempts
    BY StateBranchAssumption
  <2>3. Tries
    BY <2>2 DEF Init, Tries
  <2>4. pc \in [Recording -> {"ready", "staged", "landed", "nothing", "failed", "killed"}]
    BY DEF Init
  <2>5. 0 \in 0..Attempts /\ 0 \in Nat
    BY <2>2
  <2>6. failures \in [Recording -> 0..Attempts] /\ base \in [Recording -> Nat]
    BY <2>5 DEF Init
  <2>7. staging \in [Recording -> Worktree] /\ appended \in [Recording -> Seq(Record)]
    BY <2>1 DEF Init
  <2>8. plan \in Plans /\ branch \in Worktree /\ version \in Nat /\ faulty \in BOOLEAN
    BY <2>1 DEF Init
  <2>9. QED
    BY <2>3, <2>4, <2>6, <2>7, <2>8 DEF TypeInv, TypeOK
<1>2. TypeInv /\ [Next]_vars => TypeInv'
  <2> SUFFICES ASSUME TypeInv, [Next]_vars PROVE TypeInv'
    OBVIOUS
  <2>1. branch \in Worktree /\ version \in Nat /\ plan \in Plans /\ faulty \in BOOLEAN
    BY DEF TypeInv, TypeOK
  <2>2. ASSUME JobsType', plan' = plan, branch' \in Worktree, version' \in Nat, faulty' \in BOOLEAN
        PROVE  TypeInv'
    BY <2>1, <2>2 DEF JobsType, TypeInv, TypeOK
  <2>3. ASSUME NEW r \in Recording, Stage(r)
        PROVE  TypeInv'
    BY <2>1, <2>2, <2>3, StageOnType DEF Stage, StageOn
  <2>4. ASSUME NEW r \in Recording, StageOrphan(r)
        PROVE  TypeInv'
    BY <2>1, <2>2, <2>4, StageOnType, EmptyType DEF StageOrphan, StageOn
  <2>5. ASSUME NEW r \in Recording, FastForward(r), Land(r)
        PROVE  branch' \in Worktree /\ version' \in Nat /\ pc[r] = "staged"
    BY <2>1, <2>5 DEF FastForward, Land, TypeInv, TypeOK
  <2>6. ASSUME NEW r \in Recording, Push(r)
        PROVE  TypeInv'
    <3>1. branch' \in Worktree /\ version' \in Nat
      BY <2>5, <2>6 DEF Push
    <3>2. /\ pc' = [pc EXCEPT ![r] = "landed"]
          /\ base' = [base EXCEPT ![r] = 0]
          /\ staging' = [staging EXCEPT ![r] = Empty]
          /\ UNCHANGED <<plan, failures, appended, faulty>>
      BY <2>6 DEF Push
    <3>3. JobsType'
      BY <3>2, EmptyType DEF JobsType, TypeInv, TypeOK, Tries
    <3>4. QED
      BY <2>1, <2>2, <3>1, <3>2, <3>3
  <2>7. ASSUME NEW r \in Recording, PushUnacknowledged(r)
        PROVE  TypeInv'
    BY <2>2, <2>5, <2>7, FailedType DEF PushUnacknowledged
  <2>8. ASSUME NEW r \in Recording, PushRefused(r)
        PROVE  TypeInv'
    BY <2>1, <2>2, <2>8, FailedType DEF PushRefused
  <2>9. ASSUME NEW r \in Recording, GitFails(r)
        PROVE  TypeInv'
    BY <2>1, <2>2, <2>9, FailedType DEF GitFails
  <2>10. ASSUME NEW r \in Recording, Kill(r)
         PROVE  TypeInv'
    <3>1. pc' = [pc EXCEPT ![r] = "killed"] /\ failures' = failures
      BY <2>10 DEF Kill
    <3>2. Tries'
      BY <3>1 DEF TypeInv, TypeOK, Tries
    <3>3. JobsType'
      BY <2>10, <3>1, <3>2, DiscardType DEF Kill, JobsType, TypeInv, TypeOK
    <3>4. QED
      BY <2>1, <2>2, <2>10, <3>3 DEF Kill
  <2>11. CASE UNCHANGED vars
    BY <2>11 DEF vars, jobs, TypeInv, TypeOK, Tries
  <2>12. QED
    BY <2>3, <2>4, <2>6, <2>7, <2>8, <2>9, <2>10, <2>11 DEF Next, Finished
<1>3. QED
  BY <1>1, <1>2, PTL DEF Spec

(***************************************************************************)
(* TypeOK holds in every reachable state: no recording makes more attempts *)
(* than Write allows it, and what is on the branch is well formed.         *)
(***************************************************************************)
THEOREM TypeCorrect == Spec => []TypeOK
BY TypeInductive, PTL DEF TypeInv

-------------------------------------------------------------------------------
(***************************************************************************)
(* What a worktree holds.  That the branch never loses or repeats anything *)
(* is inductive only with what is staged: a worktree whose base is still   *)
(* the branch's commit extends the branch, and one whose base is not will  *)
(* be refused.                                                             *)
(***************************************************************************)
Attributed(w) ==
    \A k \in Metric \X Trees : w.docs[k] # Nothing =>
        \E r \in Recording :
            /\ Tree[plan[r].measured.commit] = k[2]
            /\ plan[r].snapshot[k[1]] = w.docs[k]
            /\ plan[r].history => HasEntry(w.ledger, plan[r].measured.commit, plan[r].measured.branch)

Good(w) == OneEach(w.ledger) /\ Attributed(w)

StagedOn(r) ==
    /\ base[r] <= version
    /\ Good(staging[r])
    /\ Complete(plan[r], staging[r])
    /\ ToSet(appended[r]) \subseteq ToSet(staging[r].ledger)
    /\ base[r] = version =>
          /\ Extends(branch, staging[r])
          /\ ToSet(appended[r]) \cap ToSet(branch.ledger) = {}

BranchInv ==
    /\ Good(branch)
    /\ \A r \in Recording :
          /\ pc[r] = "staged" => StagedOn(r)
          /\ pc[r] \in {"ready", "staged"} => HasSomething(r)

LEMMA PrefixKeeps ==
  ASSUME NEW L \in Seq(Record), NEW M \in Seq(Record), IsPrefix(L, M)
  PROVE  /\ \A c, b : HasEntry(L, c, b) => HasEntry(M, c, b)
         /\ ToSet(L) \subseteq ToSet(M)
<1>1. \A i \in DOMAIN L : i \in DOMAIN M /\ M[i] = L[i]
  <2>1. Len(L) <= Len(M) /\ SubSeq(L, 1, Len(L)) = SubSeq(M, 1, Len(L))
    BY DEF IsPrefix
  <2>2. \A i \in 1..Len(L) : SubSeq(L, 1, Len(L))[i] = L[i] /\ SubSeq(M, 1, Len(L))[i] = M[i]
    BY <2>1
  <2>3. QED
    BY <2>1, <2>2
<1>2. QED
  BY <1>1 DEF HasEntry, ToSet

LEMMA StagedGood ==
  ASSUME TypeInv, NEW r \in Recording, NEW view \in Worktree, Good(view)
  PROVE  Good(stageRecording(r, view))
<1> DEFINE w == stageRecording(r, view)
<1>1. /\ w \in Worktree /\ Extends(view, w) /\ Complete(plan[r], w)
      /\ OneEach(view.ledger) => OneEach(w.ledger)
  BY Staged DEF TypeInv, TypeOK
<1>2. w.docs = documents(view.docs, plan[r])
  BY DEF stageRecording
<1> HIDE DEF w
<1>3. \A c, b : HasEntry(view.ledger, c, b) => HasEntry(w.ledger, c, b)
  BY <1>1, PrefixKeeps DEF Extends, Worktree
<1>4. ASSUME NEW k \in Metric \X Trees, w.docs[k] # Nothing
      PROVE  \E s \in Recording :
               /\ Tree[plan[s].measured.commit] = k[2]
               /\ plan[s].snapshot[k[1]] = w.docs[k]
               /\ plan[s].history => HasEntry(w.ledger, plan[s].measured.commit, plan[s].measured.branch)
  <2>1. CASE k[2] = Tree[plan[r].measured.commit] /\ plan[r].snapshot[k[1]] # Nothing
    <3>1. w.docs[k] = plan[r].snapshot[k[1]]
      BY <1>2, <2>1 DEF documents
    <3>2. plan[r].history => HasEntry(w.ledger, plan[r].measured.commit, plan[r].measured.branch)
      BY <1>1 DEF Complete
    <3>3. QED
      BY <2>1, <3>1, <3>2
  <2>2. CASE ~(k[2] = Tree[plan[r].measured.commit] /\ plan[r].snapshot[k[1]] # Nothing)
    <3>1. w.docs[k] = view.docs[k]
      BY <1>2, <2>2 DEF documents
    <3>2. PICK s \in Recording :
               /\ Tree[plan[s].measured.commit] = k[2]
               /\ plan[s].snapshot[k[1]] = view.docs[k]
               /\ plan[s].history => HasEntry(view.ledger, plan[s].measured.commit, plan[s].measured.branch)
      BY <1>4, <3>1 DEF Good, Attributed
    <3>3. QED
      BY <3>1, <3>2, <1>3
  <2>3. QED
    BY <2>1, <2>2
<1>5. Attributed(w)
  BY <1>4 DEF Attributed
<1>6. QED
  BY <1>1, <1>5 DEF Good, w

\* What is there with nothing staged is not all of a recording that has something.
LEMMA EmptyIsIncomplete ==
  ASSUME TypeInv, NEW r \in Recording, HasSomething(r)
  PROVE  ~Complete(plan[r], Empty)
<1>1. CASE plan[r].history
  BY <1>1 DEF Complete, HasEntry, Empty
<1>2. CASE \E m \in Metric : plan[r].snapshot[m] # Nothing
  <2>1. PICK m \in Metric : plan[r].snapshot[m] # Nothing
    BY <1>2
  <2>2. <<m, Tree[plan[r].measured.commit]>> \in Metric \X Trees
    BY PlanType DEF TypeInv, TypeOK
  <2>3. Empty.docs[<<m, Tree[plan[r].measured.commit]>>] = Nothing
    BY <2>2 DEF Empty
  <2>4. QED
    BY <2>1, <2>3 DEF Complete
<1>3. QED
  BY <1>1, <1>2 DEF HasSomething

(***************************************************************************)
(* Every step changes one recording's attempt, and the branch only by      *)
(* landing what is staged on it.                                           *)
(***************************************************************************)
Apart(r) ==
    \A s \in Recording \ {r} :
        /\ pc'[s] = pc[s] /\ failures'[s] = failures[s] /\ base'[s] = base[s]
        /\ staging'[s] = staging[s] /\ appended'[s] = appended[s]

Quiet == branch' = branch /\ version' = version

LEMMA StepShape ==
  ASSUME TypeInv, NEW r \in Recording,
         Stage(r) \/ StageOrphan(r) \/ Push(r) \/ PushUnacknowledged(r)
           \/ PushRefused(r) \/ GitFails(r) \/ Kill(r)
  PROVE  /\ Apart(r) /\ plan' = plan
         /\ Quiet \/ (FastForward(r) /\ Land(r))
<1> USE DEF TypeInv, TypeOK, Apart, Quiet
<1>1. ASSUME Discard(r)
      PROVE  \A s \in Recording \ {r} :
               base'[s] = base[s] /\ staging'[s] = staging[s] /\ appended'[s] = appended[s]
  BY <1>1 DEF Discard
<1>2. ASSUME AttemptFailed(r)
      PROVE  Apart(r)
  BY <1>1, <1>2 DEF AttemptFailed
<1>3. CASE Stage(r)
  BY <1>3 DEF Stage, StageOn
<1>4. CASE StageOrphan(r)
  BY <1>4 DEF StageOrphan, StageOn
<1>5. CASE Push(r)
  BY <1>5 DEF Push
<1>6. CASE PushUnacknowledged(r)
  BY <1>2, <1>6 DEF PushUnacknowledged
<1>7. CASE PushRefused(r)
  BY <1>2, <1>7 DEF PushRefused
<1>8. CASE GitFails(r)
  BY <1>2, <1>8 DEF GitFails
<1>9. CASE Kill(r)
  BY <1>1, <1>9 DEF Kill
<1>10. QED
  BY <1>3, <1>4, <1>5, <1>6, <1>7, <1>8, <1>9

LEMMA BranchStep ==
  ASSUME TypeInv, TypeInv', BranchInv, [Next]_vars
  PROVE  BranchInv' /\ Extends(branch, branch')
<1>1. ASSUME NEW v \in Worktree
      PROVE  Extends(v, v)
  BY DEF Extends, IsPrefix, Worktree
<1>2. CASE UNCHANGED vars
  <2>1. Extends(branch, branch')
    BY <1>1, <1>2 DEF vars, TypeInv, TypeOK
  <2>2. /\ plan' = plan /\ pc' = pc /\ base' = base /\ staging' = staging
        /\ appended' = appended /\ branch' = branch /\ version' = version
    BY <1>2 DEF vars, jobs
  <2>3. Good(branch)'
    BY <2>2 DEF BranchInv, Good, Attributed
  <2>4. ASSUME NEW r \in Recording
        PROVE  /\ (pc[r] = "staged" => StagedOn(r))'
               /\ (pc[r] \in {"ready", "staged"} => HasSomething(r))'
    <3>1. ASSUME pc[r] = "staged"
          PROVE  StagedOn(r)'
      <4>1. StagedOn(r)
        BY <3>1 DEF BranchInv
      <4>2. Good(staging[r])'
        BY <4>1, <2>2 DEF StagedOn, Good, Attributed
      <4>3. QED
        BY <4>1, <4>2, <2>2 DEF StagedOn
    <3>2. pc[r] \in {"ready", "staged"} => HasSomething(r)'
      BY <2>2 DEF BranchInv, HasSomething
    <3>3. QED
      BY <2>2, <3>1, <3>2
  <2>5. QED
    BY <2>1, <2>3, <2>4 DEF BranchInv
<1>3. ASSUME NEW r \in Recording, Apart(r), plan' = plan,
             Quiet \/ (FastForward(r) /\ Land(r)),
             pc'[r] = "staged" => Quiet /\ StagedOn(r)',
             pc'[r] \in {"ready", "staged"} => HasSomething(r)
      PROVE  BranchInv' /\ Extends(branch, branch')
  <2>1. /\ Good(branch')
        /\ Extends(branch, branch')
    <3>1. CASE Quiet
      BY <3>1, <1>1 DEF Quiet, BranchInv, TypeInv, TypeOK
    <3>2. CASE FastForward(r) /\ Land(r)
      BY <3>2 DEF FastForward, Land, BranchInv, StagedOn
    <3>3. QED
      BY <3>1, <3>2, <1>3
  <2>2. Good(branch)'
    BY <2>1, <1>3 DEF Good, Attributed
  <2>3. ASSUME NEW s \in Recording
        PROVE  /\ pc'[s] = "staged" => StagedOn(s)'
               /\ pc'[s] \in {"ready", "staged"} => HasSomething(s)'
    <3>1. CASE s = r
      BY <3>1, <1>3 DEF HasSomething
    <3>2. CASE s # r
      <4>1. /\ pc'[s] = pc[s] /\ base'[s] = base[s]
            /\ staging'[s] = staging[s] /\ appended'[s] = appended[s]
        BY <3>2, <1>3 DEF Apart
      <4>2. pc[s] \in {"ready", "staged"} => HasSomething(s)'
        BY <1>3 DEF BranchInv, HasSomething
      <4>3. ASSUME pc[s] = "staged"
            PROVE  StagedOn(s)'
        <5>1. StagedOn(s)
          BY <4>3 DEF BranchInv
        <5>2. CASE Quiet
          BY <5>1, <5>2, <4>1, <1>3 DEF Quiet, StagedOn, Good, Attributed
        <5>3. CASE FastForward(r) /\ Land(r)
          <6>1. base'[s] <= version' /\ base'[s] # version'
            BY <5>1, <5>3, <4>1 DEF StagedOn, Land, TypeInv, TypeOK
          <6>2. Good(staging[s])'
            BY <5>1, <4>1, <1>3 DEF StagedOn, Good, Attributed
          <6>3. QED
            BY <5>1, <6>1, <6>2, <4>1, <1>3 DEF StagedOn
        <5>4. QED
          BY <5>2, <5>3, <1>3
      <4>4. QED
        BY <4>1, <4>2, <4>3
    <3>3. QED
      BY <3>1, <3>2
  <2>4. QED
    BY <2>1, <2>2, <2>3 DEF BranchInv
<1>4. ASSUME NEW r \in Recording, NEW view \in Worktree, NEW at \in Nat,
             Good(view), at <= version, at = version => view = branch, StageOn(r, view, at),
             pc'[r] = "staged"
      PROVE  StagedOn(r)'
  <2>1. /\ base'[r] = at
        /\ staging'[r] = stageRecording(r, view)
        /\ appended'[r] = appends(r, view)
        /\ plan' = plan /\ branch' = branch /\ version' = version
    BY <1>4 DEF StageOn, TypeInv, TypeOK
  <2>2. /\ Extends(view, stageRecording(r, view))
        /\ Complete(plan[r], stageRecording(r, view))
        /\ ToSet(appends(r, view)) \subseteq ToSet(stageRecording(r, view).ledger)
        /\ ToSet(appends(r, view)) \cap ToSet(view.ledger) = {}
    BY Staged DEF TypeInv, TypeOK
  <2>3. Good(stageRecording(r, view))
    BY <1>4, StagedGood
  <2> DEFINE w == stageRecording(r, view)
             A == appends(r, view)
  <2> HIDE DEF w, A
  <2>4. Good(staging'[r])
    BY <2>1, <2>3 DEF w
  <2>5. Good(staging[r])'
    BY <2>1, <2>4 DEF Good, Attributed
  <2>6. QED
    BY <2>1, <2>2, <2>5, <1>4 DEF StagedOn, w, A
<1>5. ASSUME NEW r \in Recording, AttemptFailed(r), pc[r] \in {"ready", "staged"}
      PROVE  pc'[r] # "staged" /\ HasSomething(r)
  BY <1>5 DEF AttemptFailed, BranchInv, TypeInv, TypeOK
<1>6. ASSUME NEW r \in Recording,
             Stage(r) \/ StageOrphan(r) \/ Push(r) \/ PushUnacknowledged(r)
               \/ PushRefused(r) \/ GitFails(r) \/ Kill(r)
      PROVE  /\ pc'[r] = "staged" => Quiet /\ StagedOn(r)'
             /\ pc'[r] \in {"ready", "staged"} => HasSomething(r)
  <2> USE DEF TypeInv, TypeOK
  <2>1. CASE Stage(r)
    <3>1. StageOn(r, branch, version) /\ pc[r] = "ready"
      BY <2>1 DEF Stage, StageOn
    <3>2. branch \in Worktree /\ version \in Nat /\ Good(branch) /\ HasSomething(r) /\ version <= version
      BY <3>1 DEF BranchInv
    <3>3. Quiet
      BY <3>1 DEF StageOn, Quiet
    <3>4. pc'[r] = "staged" => StagedOn(r)'
      BY <3>1, <3>2, <1>4
    <3>5. QED
      BY <3>2, <3>3, <3>4
  <2>2. CASE StageOrphan(r)
    <3>1. StageOn(r, Empty, 0) /\ pc[r] = "ready" /\ version # 0
      BY <2>2 DEF StageOrphan, StageOn
    <3>2. HasSomething(r) /\ version \in Nat /\ 0 <= version
      BY <3>1 DEF BranchInv
    <3>3. Good(Empty) /\ Empty \in Worktree
      BY EmptyType DEF Good, Attributed, Empty
    <3>4. Quiet
      BY <3>1 DEF StageOn, Quiet
    <3>5. pc'[r] = "staged" => StagedOn(r)'
      BY <3>1, <3>2, <3>3, <1>4
    <3>6. QED
      BY <3>2, <3>4, <3>5
  <2>3. CASE Push(r)
    BY <2>3 DEF Push
  <2>4. CASE PushUnacknowledged(r) \/ PushRefused(r) \/ GitFails(r)
    BY <2>4, <1>5 DEF PushUnacknowledged, PushRefused, GitFails, FastForward
  <2>5. CASE Kill(r)
    BY <2>5 DEF Kill
  <2>6. QED
    BY <1>6, <2>1, <2>2, <2>3, <2>4, <2>5
<1>7. QED
  BY <1>2, <1>3, <1>6, StepShape DEF Next, Finished

LEMMA BranchInductive == Spec => [](TypeInv /\ BranchInv)
<1>1. Init => BranchInv
  <2>1. Init => Good(branch)
    BY EmptyType DEF Init, Good, Attributed, Empty
  <2>2. Init => \A r \in Recording : /\ pc[r] # "staged"
                                     /\ pc[r] \in {"ready", "staged"} => HasSomething(r)
    BY DEF Init
  <2>3. QED
    BY <2>1, <2>2 DEF BranchInv
<1>2. TypeInv /\ TypeInv' /\ BranchInv /\ [Next]_vars => BranchInv'
  BY BranchStep
<1>3. QED
  BY <1>1, <1>2, TypeInductive, PTL DEF Spec

(***************************************************************************)
(* In every reachable state a commit has one record of a kind on a branch, *)
(* whatever was retried, re-run, killed or acknowledged late.              *)
(***************************************************************************)
THEOREM OneRecordEach == Spec => []NoDuplicates
<1>1. BranchInv => NoDuplicates
  BY DEF BranchInv, Good, OneEach, NoDuplicates
<1>2. QED
  BY <1>1, BranchInductive, PTL

(***************************************************************************)
(* Every document on the branch was measured by a recording whose entry,   *)
(* when it had one to make, is there too.                                  *)
(***************************************************************************)
THEOREM BaselinesAreRecorded == Spec => []BaselineHasItsEntry
<1>1. TypeInv /\ BranchInv => BaselineHasItsEntry
  <2> SUFFICES ASSUME TypeInv, BranchInv PROVE BaselineHasItsEntry
    OBVIOUS
  <2>1. DOMAIN branch.docs = Metric \X Trees
    BY DEF TypeInv, TypeOK, Worktree
  <2>2. Attributed(branch)
    BY DEF BranchInv, Good
  <2>3. \A c, b : HasEntry(branch.ledger, c, b) => Has(c, b)
    BY DEF HasEntry, Has
  <2>4. QED
    BY <2>1, <2>2, <2>3 DEF Attributed, BaselineHasItsEntry
<1>2. QED
  BY <1>1, BranchInductive, PTL

(***************************************************************************)
(* No step takes a record or a document off the branch: history is only    *)
(* ever extended, also by a job that could not see the branch.             *)
(***************************************************************************)
THEOREM HistoryIsKept == Spec => NothingIsLost
<1>1. TypeInv /\ TypeInv' /\ BranchInv /\ [Next]_vars
        => [ /\ IsPrefix(branch.ledger, branch'.ledger)
             /\ \A k \in DOMAIN branch.docs : branch.docs[k] # Nothing => branch'.docs[k] # Nothing
           ]_vars
  <2> SUFFICES ASSUME TypeInv, TypeInv', BranchInv, [Next]_vars
               PROVE  /\ IsPrefix(branch.ledger, branch'.ledger)
                      /\ \A k \in DOMAIN branch.docs : branch.docs[k] # Nothing => branch'.docs[k] # Nothing
    OBVIOUS
  <2>1. Extends(branch, branch')
    BY BranchStep
  <2>2. DOMAIN branch.docs = Metric \X Trees
    BY DEF TypeInv, TypeOK, Worktree
  <2>3. QED
    BY <2>1, <2>2 DEF Extends
<1>2. QED
  BY <1>1, BranchInductive, PTL DEF Spec, NothingIsLost

-------------------------------------------------------------------------------
(***************************************************************************)
(* Overlap.  Without a fault every failure of a recording is a refused     *)
(* push, and every refused push is one other recording that landed after   *)
(* the attempt's fetch: the failures so far, and the one a stale worktree  *)
(* is bound to become, are at most the others that landed.                 *)
(***************************************************************************)
LandedBut(r) == { s \in Recording \ {r} : pc[s] = "landed" }

Stale(r) == IF pc[r] = "staged" /\ base[r] # version THEN 1 ELSE 0

OverlapInv == ~faulty => \A r \in Recording : failures[r] + Stale(r) <= Cardinality(LandedBut(r))

LEMMA LandedButFinite ==
  ASSUME NEW r
  PROVE  /\ IsFiniteSet(LandedBut(r)) /\ Cardinality(LandedBut(r)) \in Nat
         /\ IsFiniteSet(LandedBut(r)') /\ Cardinality(LandedBut(r)') \in Nat
<1>1. LandedBut(r) \in SUBSET Recording /\ LandedBut(r)' \in SUBSET Recording
  BY DEF LandedBut
<1>2. IsFiniteSet(LandedBut(r)) /\ IsFiniteSet(LandedBut(r)')
  BY <1>1, FS_Subset, StateBranchAssumption
<1>3. QED
  BY <1>2, FS_CardinalityType

LEMMA OverlapStep ==
  ASSUME TypeInv, TypeInv', BranchInv, OverlapInv, [Next]_vars
  PROVE  OverlapInv'
<1> USE DEF TypeInv, TypeOK
<1> SUFFICES ASSUME ~faulty', NEW s \in Recording
             PROVE  (failures[s] + Stale(s) <= Cardinality(LandedBut(s)))'
  BY DEF OverlapInv
<1>1. failures[s] \in Nat /\ failures'[s] \in Nat /\ Stale(s) \in 0..1 /\ Stale(s)' \in 0..1
  BY StateBranchAssumption DEF Stale
<1>2. Cardinality(LandedBut(s)) \in Nat /\ Cardinality(LandedBut(s))' \in Nat
  BY LandedButFinite
<1>3. ASSUME ~faulty
      PROVE  failures[s] + Stale(s) <= Cardinality(LandedBut(s))
  BY <1>3 DEF OverlapInv
<1>4. CASE UNCHANGED vars
  BY <1>3, <1>4 DEF vars, jobs, Stale, LandedBut
<1>5. ASSUME NEW r \in Recording, Stage(r)
      PROVE  (failures[s] + Stale(s) <= Cardinality(LandedBut(s)))'
  <2>1. ~faulty /\ failures' = failures /\ version' = version /\ pc[r] = "ready"
        /\ pc'[r] \in {"nothing", "staged"} /\ Apart(r)
    BY <1>5, StepShape DEF Stage, StageOn
  <2>2. LandedBut(s)' = LandedBut(s)
    BY <2>1 DEF LandedBut, Apart
  <2>3. Stale(s)' <= Stale(s)
    <3>1. CASE s = r
      BY <1>5, <3>1 DEF Stage, StageOn, Stale
    <3>2. CASE s # r
      BY <2>1, <3>2 DEF Stale, Apart
    <3>3. QED
      BY <3>1, <3>2
  <2>4. QED
    BY <2>1, <2>2, <2>3, <1>1, <1>2, <1>3
<1>6. ASSUME NEW r \in Recording, Push(r)
      PROVE  (failures[s] + Stale(s) <= Cardinality(LandedBut(s)))'
  <2>1. ~faulty /\ failures' = failures /\ pc[r] = "staged" /\ pc'[r] = "landed" /\ Apart(r)
    BY <1>6, StepShape DEF Push, FastForward
  <2>2. CASE s = r
    <3>1. LandedBut(s)' = LandedBut(s)
      BY <2>1, <2>2 DEF LandedBut, Apart
    <3>2. Stale(s)' = 0
      BY <2>1, <2>2 DEF Stale
    <3>3. QED
      BY <2>1, <3>1, <3>2, <1>1, <1>2, <1>3
  <2>3. CASE s # r
    <3>1. LandedBut(s)' = LandedBut(s) \cup {r} /\ r \notin LandedBut(s)
      BY <2>1, <2>3 DEF LandedBut, Apart
    <3>2. Cardinality(LandedBut(s))' = Cardinality(LandedBut(s)) + 1
      BY <3>1, LandedButFinite, FS_AddElement
    <3>3. QED
      BY <2>1, <3>2, <1>1, <1>2, <1>3
  <2>4. QED
    BY <2>2, <2>3
<1>7. ASSUME NEW r \in Recording, PushRefused(r)
      PROVE  (failures[s] + Stale(s) <= Cardinality(LandedBut(s)))'
  <2>1. /\ ~faulty /\ version' = version /\ pc[r] = "staged" /\ base[r] # version
        /\ pc'[r] \in {"ready", "failed"} /\ failures'[r] = failures[r] + 1 /\ Apart(r)
    BY <1>7, StepShape DEF PushRefused, AttemptFailed
  <2>2. LandedBut(s)' = LandedBut(s)
    BY <2>1 DEF LandedBut, Apart
  <2>3. CASE s = r
    <3>1. Stale(s) = 1 /\ Stale(s)' = 0
      BY <2>1, <2>3 DEF Stale
    <3>2. QED
      BY <2>1, <2>2, <2>3, <3>1, <1>1, <1>2, <1>3
  <2>4. CASE s # r
    <3>1. Stale(s)' = Stale(s) /\ failures'[s] = failures[s]
      BY <2>1, <2>4 DEF Stale, Apart
    <3>2. QED
      BY <2>1, <2>2, <3>1, <1>3
  <2>5. QED
    BY <2>3, <2>4
<1>8. ASSUME NEW r \in Recording, StageOrphan(r) \/ PushUnacknowledged(r) \/ GitFails(r) \/ Kill(r)
      PROVE  FALSE
  BY <1>8 DEF StageOrphan, PushUnacknowledged, GitFails, Kill
<1>9. QED
  BY <1>4, <1>5, <1>6, <1>7, <1>8 DEF Next, Finished

(***************************************************************************)
(* When no git command fails, a recording gives up only after as many      *)
(* others landed as it has attempts: Attempts concurrent recordings all    *)
(* land, whatever their order, for every number of attempts.               *)
(***************************************************************************)
THEOREM OverlapIsTolerated == Spec => []OverlapTolerated
<1>1. Init => OverlapInv
  <2> SUFFICES ASSUME Init, NEW r \in Recording
               PROVE  failures[r] + Stale(r) <= Cardinality(LandedBut(r))
    BY DEF OverlapInv
  <2>1. failures[r] = 0 /\ Stale(r) = 0
    BY DEF Init, Stale
  <2>2. QED
    BY <2>1, LandedButFinite
<1>2. TypeInv /\ TypeInv' /\ BranchInv /\ OverlapInv /\ [Next]_vars => OverlapInv'
  BY OverlapStep
<1>3. TypeInv /\ OverlapInv => OverlapTolerated
  <2> SUFFICES ASSUME TypeInv, OverlapInv, NEW r \in Recording, pc[r] = "failed", ~faulty
               PROVE  Cardinality({ s \in Recording \ {r} : pc[s] = "landed" }) >= Attempts
    BY DEF OverlapTolerated
  <2>1. failures[r] = Attempts /\ Attempts \in Nat /\ Stale(r) = 0
    BY StateBranchAssumption DEF TypeInv, Tries, Stale
  <2>2. failures[r] + Stale(r) <= Cardinality(LandedBut(r)) /\ Cardinality(LandedBut(r)) \in Nat
    BY LandedButFinite DEF OverlapInv
  <2>3. QED
    BY <2>1, <2>2 DEF LandedBut
<1>4. QED
  BY <1>1, <1>2, <1>3, BranchInductive, PTL DEF Spec

-------------------------------------------------------------------------------
(***************************************************************************)
(* Success.  What a recording claims to have appended was not on the       *)
(* branch it landed on, and everything claimed before was.                 *)
(***************************************************************************)
DoneInv ==
    /\ \A r \in Recording :
          /\ pc[r] \in {"landed", "nothing"} =>
                Complete(plan[r], branch) /\ ToSet(appended[r]) \subseteq ToSet(branch.ledger)
          /\ pc[r] \notin {"staged", "landed"} => appended[r] = <<>>
    /\ \A r, s \in Recording :
          r # s /\ pc[r] = "landed" /\ pc[s] = "landed" => ToSet(appended[r]) \cap ToSet(appended[s]) = {}

LEMMA ExtendedIsComplete ==
  ASSUME TypeInv, NEW r \in Recording, NEW v \in Worktree, NEW w \in Worktree,
         Extends(v, w), Complete(plan[r], v)
  PROVE  Complete(plan[r], w)
<1>1. \A c, b : HasEntry(v.ledger, c, b) => HasEntry(w.ledger, c, b)
  BY PrefixKeeps DEF Extends, Worktree
<1>2. \A m \in Metric : <<m, Tree[plan[r].measured.commit]>> \in Metric \X Trees
  BY PlanType DEF TypeInv, TypeOK
<1>3. QED
  BY <1>1, <1>2 DEF Complete, Extends

LEMMA DoneStep ==
  ASSUME TypeInv, TypeInv', BranchInv, DoneInv, [Next]_vars
  PROVE  DoneInv'
<1> USE DEF TypeInv, TypeOK
<1>1. Extends(branch, branch') /\ branch \in Worktree /\ branch' \in Worktree
  BY BranchStep
<1>2. ToSet(branch.ledger) \subseteq ToSet(branch'.ledger)
  BY <1>1, PrefixKeeps DEF Extends, Worktree
<1>3. CASE UNCHANGED vars
  BY <1>3 DEF vars, jobs, DoneInv, Complete
<1>4. ASSUME NEW r \in Recording, Apart(r), plan' = plan,
             pc'[r] \in {"landed", "nothing"} =>
               Complete(plan[r], branch') /\ ToSet(appended'[r]) \subseteq ToSet(branch'.ledger),
             pc'[r] \notin {"staged", "landed"} => appended'[r] = <<>>,
             pc'[r] = "landed" => ToSet(appended'[r]) \cap ToSet(branch.ledger) = {}
      PROVE  DoneInv'
  <2>1. ASSUME NEW s \in Recording
        PROVE  /\ pc'[s] \in {"landed", "nothing"} =>
                     Complete(plan'[s], branch') /\ ToSet(appended'[s]) \subseteq ToSet(branch'.ledger)
               /\ pc'[s] \notin {"staged", "landed"} => appended'[s] = <<>>
    <3>1. CASE s = r
      BY <3>1, <1>4
    <3>2. CASE s # r
      <4>1. pc'[s] = pc[s] /\ appended'[s] = appended[s]
        BY <3>2, <1>4 DEF Apart
      <4>2. pc[s] \in {"landed", "nothing"} =>
              Complete(plan[s], branch') /\ ToSet(appended[s]) \subseteq ToSet(branch'.ledger)
        BY <1>1, <1>2, ExtendedIsComplete DEF DoneInv
      <4>3. QED
        BY <4>1, <4>2, <1>4 DEF DoneInv
    <3>3. QED
      BY <3>1, <3>2
  <2>2. ASSUME NEW s \in Recording, s # r, pc'[s] = "landed", pc'[r] = "landed"
        PROVE  ToSet(appended'[s]) \cap ToSet(appended'[r]) = {}
    <3>1. pc[s] = "landed" /\ appended'[s] = appended[s]
      BY <2>2, <1>4 DEF Apart
    <3>2. ToSet(appended[s]) \subseteq ToSet(branch.ledger)
      BY <3>1 DEF DoneInv
    <3>3. QED
      BY <3>1, <3>2, <2>2, <1>4
  <2>3. ASSUME NEW s \in Recording, NEW t \in Recording,
               s # t, pc'[s] = "landed", pc'[t] = "landed"
        PROVE  ToSet(appended'[s]) \cap ToSet(appended'[t]) = {}
    <3>1. CASE s = r \/ t = r
      BY <2>2, <2>3, <3>1
    <3>2. CASE s # r /\ t # r
      BY <2>3, <3>2, <1>4 DEF Apart, DoneInv
    <3>3. QED
      BY <3>1, <3>2
  <2>4. QED
    BY <2>1, <2>3 DEF DoneInv, Complete
<1>5. ASSUME NEW r \in Recording, Stage(r) \/ StageOrphan(r)
      PROVE  DoneInv'
  <2>1. PICK view \in Worktree, at \in Nat :
          StageOn(r, view, at) /\ (view = branch \/ view = Empty)
    BY <1>5, EmptyType DEF Stage, StageOrphan
  <2>2. /\ pc[r] = "ready" /\ HasSomething(r) /\ branch' = branch /\ plan' = plan /\ Apart(r)
        /\ pc'[r] \in {"nothing", "staged"}
        /\ pc'[r] = "nothing" => stageRecording(r, view) = view /\ appended' = appended
    BY <1>5, <2>1, StepShape DEF StageOn, BranchInv
  <2>3. pc'[r] = "nothing" => Complete(plan[r], branch)
    BY <2>1, <2>2, Staged, EmptyIsIncomplete
  <2>4. pc'[r] = "nothing" => appended'[r] = <<>>
    BY <2>2 DEF DoneInv
  <2>5. ToSet(<<>>) = {}
    BY DEF ToSet
  <2>6. QED
    BY <2>2, <2>3, <2>4, <2>5, <1>4
<1>6. ASSUME NEW r \in Recording, Push(r)
      PROVE  DoneInv'
  <2>1. /\ pc[r] = "staged" /\ base[r] = version /\ branch' = staging[r] /\ plan' = plan
        /\ pc'[r] = "landed" /\ appended' = appended /\ Apart(r)
    BY <1>6, StepShape DEF Push, FastForward, Land
  <2>2. StagedOn(r)
    BY <2>1 DEF BranchInv
  <2>3. QED
    BY <2>1, <2>2, <1>4 DEF StagedOn
<1>7. ASSUME NEW r \in Recording, PushUnacknowledged(r) \/ PushRefused(r) \/ GitFails(r) \/ Kill(r)
      PROVE  DoneInv'
  <2>1. pc'[r] \in {"ready", "failed", "killed"} /\ appended'[r] = <<>>
    BY <1>7 DEF PushUnacknowledged, PushRefused, GitFails, Kill, AttemptFailed, Discard
  <2>2. QED
    BY <1>4, <1>7, <2>1, StepShape
<1>8. QED
  BY <1>3, <1>5, <1>6, <1>7 DEF Next, Finished

(***************************************************************************)
(* A recording that ends in success is on the branch, what it says it      *)
(* appended is there, and no other recording says it appended the same.    *)
(***************************************************************************)
THEOREM SuccessIsReal == Spec => []ReportedIsLanded
<1>1. Init => DoneInv
  <2> SUFFICES ASSUME Init, NEW r \in Recording
               PROVE  /\ pc[r] \notin {"staged", "landed"} /\ appended[r] = <<>>
                      /\ pc[r] = "nothing" => Complete(plan[r], branch)
    BY DEF DoneInv, ToSet
  <2>1. pc[r] \notin {"staged", "landed"} /\ appended[r] = <<>>
    BY DEF Init
  <2>2. pc[r] = "nothing" => ~HasSomething(r)
    BY DEF Init
  <2>3. QED
    BY <2>1, <2>2 DEF HasSomething, Complete
<1>2. TypeInv /\ TypeInv' /\ BranchInv /\ DoneInv /\ [Next]_vars => DoneInv'
  BY DoneStep
<1>3. DoneInv => ReportedIsLanded
  <2> SUFFICES ASSUME DoneInv, NEW r \in Recording, pc[r] \in {"landed", "nothing"}
               PROVE  /\ plan[r].history => Has(plan[r].measured.commit, plan[r].measured.branch)
                      /\ \A m \in Metric : plan[r].snapshot[m] # Nothing =>
                             branch.docs[<<m, Tree[plan[r].measured.commit]>>] # Nothing
                      /\ ToSet(appended[r]) \subseteq ToSet(branch.ledger)
                      /\ \A s \in Recording \ {r} :
                             pc[s] = "landed" => ToSet(appended[r]) \cap ToSet(appended[s]) = {}
    BY DEF ReportedIsLanded
  <2>1. Complete(plan[r], branch) /\ ToSet(appended[r]) \subseteq ToSet(branch.ledger)
    BY DEF DoneInv
  <2>2. \A c, b : HasEntry(branch.ledger, c, b) => Has(c, b)
    BY DEF HasEntry, Has
  <2>3. ASSUME NEW s \in Recording \ {r}, pc[s] = "landed"
        PROVE  ToSet(appended[r]) \cap ToSet(appended[s]) = {}
    <3>1. CASE pc[r] = "landed"
      BY <2>3, <3>1 DEF DoneInv
    <3>2. CASE pc[r] = "nothing"
      <4>1. appended[r] = <<>>
        BY <3>2 DEF DoneInv
      <4>2. QED
        BY <4>1 DEF ToSet
    <3>3. QED
      BY <3>1, <3>2
  <2>4. QED
    BY <2>1, <2>2, <2>3 DEF Complete
<1>4. QED
  BY <1>1, <1>2, <1>3, BranchInductive, PTL DEF Spec

-------------------------------------------------------------------------------
(***************************************************************************)
(* Sequences of records are told apart by their elements.                   *)
(***************************************************************************)
LEMMA SameElements ==
  ASSUME NEW s \in Seq(Record), NEW t \in Seq(Record), Len(s) = Len(t),
         \A i \in 1..Len(s) : s[i] = t[i]
  PROVE  s = t
<1>1. /\ s = [i \in 1..Len(s) |-> s[i]] /\ t = [i \in 1..Len(t) |-> t[i]]
  OBVIOUS
<1> QED
  BY <1>1

LEMMA OneAndTwo ==
  ASSUME NEW g \in Record, NEW e \in Record
  PROVE  /\ <<>> \o <<>> = <<>> /\ <<>> \o <<e>> = <<e>> /\ <<g>> \o <<>> = <<g>>
         /\ <<g>> \o <<e>> = <<g, e>> /\ Append(<<>>, e) = <<e>> /\ Append(<<g>>, e) = <<g, e>>
         /\ <<e>> \in Seq(Record) /\ <<g, e>> \in Seq(Record)
<1>1. /\ <<g>> \in Seq(Record) /\ <<e>> \in Seq(Record) /\ <<g, e>> \in Seq(Record)
      /\ Len(<<g, e>>) = 2 /\ <<g, e>>[1] = g /\ <<g, e>>[2] = e /\ <<>> \in Seq(Record)
  OBVIOUS
<1>2. <<g>> \o <<e>> = <<g, e>>
  <2>1. /\ Len(<<g>> \o <<e>>) = 2 /\ (<<g>> \o <<e>>)[1] = g /\ (<<g>> \o <<e>>)[2] = e
        /\ <<g>> \o <<e>> \in Seq(Record)
    BY <1>1
  <2>2. \A i \in 1..2 : i = 1 \/ i = 2
    OBVIOUS
  <2> QED
    BY <1>1, <2>1, <2>2, SameElements
<1>3. Append(<<g>>, e) = <<g, e>>
  <2>1. /\ Len(Append(<<g>>, e)) = 2 /\ Append(<<g>>, e)[1] = g /\ Append(<<g>>, e)[2] = e
        /\ Append(<<g>>, e) \in Seq(Record)
    BY <1>1
  <2>2. \A i \in 1..2 : i = 1 \/ i = 2
    OBVIOUS
  <2> QED
    BY <1>1, <2>1, <2>2, SameElements
<1> QED
  BY <1>1, <1>2, <1>3

LEMMA ConcatOneAndTwo ==
  ASSUME NEW L \in Seq(Record), NEW g \in Record, NEW e \in Record
  PROVE  /\ L \o <<>> = L /\ L \o <<e>> = Append(L, e)
         /\ L \o <<g, e>> = Append(Append(L, g), e)
<1>1. <<e>> \in Seq(Record) /\ <<g, e>> \in Seq(Record)
  BY OneAndTwo
<1>2. L \o <<g, e>> = Append(Append(L, g), e)
  <2>1. /\ L \o <<g, e>> \in Seq(Record) /\ Append(Append(L, g), e) \in Seq(Record)
        /\ Len(L \o <<g, e>>) = Len(L) + 2 /\ Len(Append(Append(L, g), e)) = Len(L) + 2
    BY <1>1
  <2>2. ASSUME NEW i \in 1..(Len(L) + 2)
        PROVE  (L \o <<g, e>>)[i] = Append(Append(L, g), e)[i]
    <3>1. i \in 1..Len(L) \/ i = Len(L) + 1 \/ i = Len(L) + 2
      OBVIOUS
    <3> QED
      BY <1>1, <3>1
  <2> QED
    BY <2>1, <2>2, SameElements
<1>3. L \o <<e>> = Append(L, e)
  <2>1. /\ L \o <<e>> \in Seq(Record) /\ Append(L, e) \in Seq(Record)
        /\ Len(L \o <<e>>) = Len(L) + 1 /\ Len(Append(L, e)) = Len(L) + 1
    BY <1>1
  <2>2. ASSUME NEW i \in 1..(Len(L) + 1)
        PROVE  (L \o <<e>>)[i] = Append(L, e)[i]
    <3>1. i \in 1..Len(L) \/ i = Len(L) + 1
      OBVIOUS
    <3> QED
      BY <1>1, <3>1
  <2> QED
    BY <2>1, <2>2, SameElements
<1> QED
  BY <1>2, <1>3

(***************************************************************************)
(* What lands, record by record: nothing, the entry, the gap, or both.     *)
(***************************************************************************)
LEMMA WhatLands ==
  ASSUME NEW r \in Recording, NEW m \in Measurement, NEW ledger \in Seq(Record),
         NEW A, A = landing(ledger, records(r, m, ledger))
  PROVE  LET e == entryOf(r, m, ledger)
             gaps == gapBefore(m, previous(ledger, m.branch, Date[m.commit]))
         IN  \/ A = <<>>
             \/ /\ A = <<e>> /\ ~Recorded(ledger, e)
                /\ gaps = <<>> \/ \E g \in Gap : gaps = <<g>> /\ Recorded(ledger, g)
             \/ \E g \in Gap :
                  /\ gaps = <<g>> /\ ~Recorded(ledger, g)
                  /\ \/ A = <<g>> /\ Recorded(ledger, e)
                     \/ A = <<g, e>> /\ ~Recorded(ledger, e)
<1> DEFINE e == entryOf(r, m, ledger)
           gaps == gapBefore(m, previous(ledger, m.branch, Date[m.commit]))
<1>1. previous(ledger, m.branch, Date[m.commit]) \in Commit \cup {NoCommit}
  BY PreviousType, LedgerAssumption DEF Measurement
<1>2. gaps = <<>> \/ \E g \in Gap : gaps = <<g>>
  BY <1>1, GapType
<1>3. records(r, m, ledger) = Append(gaps, e)
  BY DEF records
<1>6. e \in Record
  BY EntryType DEF Record
<1> HIDE DEF e, gaps
<1>4. CASE gaps = <<>>
  <2>1. Append(gaps, e) = <<e>>
    BY <1>4, <1>6, OneAndTwo
  <2>2. A = unlessRecorded(ledger, e)
    BY <1>3, <2>1 DEF landing
  <2> QED
    BY <1>4, <2>2 DEF unlessRecorded, e, gaps
<1>5. ASSUME NEW g \in Gap, gaps = <<g>>
      PROVE  \/ A = <<>>
             \/ A = <<e>> /\ ~Recorded(ledger, e) /\ Recorded(ledger, g)
             \/ /\ ~Recorded(ledger, g)
                /\ \/ A = <<g>> /\ Recorded(ledger, e)
                   \/ A = <<g, e>> /\ ~Recorded(ledger, e)
  <2>0. g \in Record
    BY DEF Record
  <2>1. Append(gaps, e) = <<g, e>>
    BY <1>5, <1>6, <2>0, OneAndTwo
  <2>2. A = unlessRecorded(ledger, g) \o unlessRecorded(ledger, e)
    BY <1>3, <2>1 DEF landing
  <2> QED
    BY <1>6, <2>0, <2>2, OneAndTwo DEF unlessRecorded
<1> QED
  BY <1>2, <1>4, <1>5 DEF e, gaps

(***************************************************************************)
(* The records ahead of one, as the recording that wrote it saw them.       *)
(***************************************************************************)
Ahead(L, i) ==
    { j \in 1..(i - 1) :
        /\ L[j].kind = "entry" /\ L[j].branch = L[i].branch
        /\ Month(Date[L[j].commit]) <= Month(Date[L[i].commit])
        /\ Month(Date[L[j].commit]) + lookbackMonths > Month(Date[L[i].commit])
        /\ Date[L[j].commit] <= Date[L[i].commit] }

HoleMarked(L, i) ==
    L[i].kind = "entry" /\ Ahead(L, i) # {} =>
        \/ \E j \in Ahead(L, i) : L[j].commit = Parent(L[i].commit)
        \/ L[i-1].kind = "gap" /\ L[i-1].commit = L[i].commit /\ L[i-1].branch = L[i].branch

GapTrue(L, i) ==
    L[i].kind = "gap" =>
        \A j \in 1..(i - 1) :
            ~ /\ L[j].kind = "entry" /\ L[j].branch = L[i].branch
              /\ L[j].commit \in ClaimedMissing(L[i])
              /\ Related(L[j].commit, L[i].from)

(* A gap is beside the entry it was written for, so that the entry never    *)
(* lands behind a gap that was there before.                               *)
Marked(L) ==
    \A i \in DOMAIN L :
        /\ L[i].kind = "gap" => HasEntry(L, L[i].commit, L[i].branch)
        /\ HoleMarked(L, i)

LEMMA AheadKept ==
  ASSUME NEW L \in Seq(Record), NEW M \in Seq(Record), NEW i \in DOMAIN L,
         \A k \in DOMAIN L : M[k] = L[k]
  PROVE  Ahead(M, i) = Ahead(L, i) /\ (HoleMarked(L, i) => HoleMarked(M, i))
         /\ (GapTrue(L, i) => GapTrue(M, i))
<1>1. \A j \in 1..(i - 1) : j \in DOMAIN L /\ M[j] = L[j]
  OBVIOUS
<1>2. M[i] = L[i]
  OBVIOUS
<1>3. Ahead(M, i) = Ahead(L, i)
  BY <1>1, <1>2 DEF Ahead
<1>4. Ahead(L, i) # {} => i - 1 \in DOMAIN L
  BY DEF Ahead
<1>5. Ahead(L, i) \subseteq 1..(i - 1)
  BY DEF Ahead
<1>6. HoleMarked(L, i) => HoleMarked(M, i)
  BY <1>1, <1>2, <1>3, <1>4, <1>5 DEF HoleMarked
<1> QED
  BY <1>1, <1>2, <1>3, <1>6 DEF GapTrue

LEMMA Appending ==
  ASSUME NEW L \in Seq(Record), NEW x \in Record
  PROVE  /\ Append(L, x) \in Seq(Record) /\ Len(Append(L, x)) = Len(L) + 1
         /\ DOMAIN Append(L, x) = 1..(Len(L) + 1) /\ DOMAIN L = 1..Len(L) /\ Len(L) \in Nat
         /\ \A k \in DOMAIN L : k \in DOMAIN Append(L, x) /\ Append(L, x)[k] = L[k]
         /\ Append(L, x)[Len(L) + 1] = x
  OBVIOUS

LEMMA HasEntryKept ==
  ASSUME NEW L \in Seq(Record), NEW x \in Record, NEW c, NEW b
  PROVE  /\ HasEntry(L, c, b) => HasEntry(Append(L, x), c, b)
         /\ x.kind = "entry" /\ x.commit = c /\ x.branch = b => HasEntry(Append(L, x), c, b)
<1>1. /\ \A k \in DOMAIN L : k \in DOMAIN Append(L, x) /\ Append(L, x)[k] = L[k]
      /\ Len(L) + 1 \in DOMAIN Append(L, x) /\ Append(L, x)[Len(L) + 1] = x
  BY Appending
<1> QED
  BY <1>1 DEF HasEntry

LEMMA GapIs ==
  ASSUME NEW m, NEW prev, NEW g \in Gap, gapBefore(m, prev) = <<g>>
  PROVE  /\ g.kind = "gap" /\ g.commit = m.commit /\ g.branch = m.branch
         /\ g.from = prev /\ g.missing = CommitsBetween(prev, m)
         /\ prev \notin {NoCommit, ParentSeen(m), m.commit}
<1> DEFINE h == [kind |-> "gap", commit |-> m.commit, branch |-> m.branch,
                 from |-> prev, missing |-> CommitsBetween(prev, m)]
<1>1. gapBefore(m, prev) # <<>>
  <2>1. Len(<<g>>) = 1 /\ Len(<<>>) = 0
    OBVIOUS
  <2> QED
    BY <2>1
<1>2. prev \notin {NoCommit, ParentSeen(m), m.commit} /\ <<g>> = <<h>>
  BY <1>1 DEF gapBefore
<1>3. g = h
  <2> HIDE DEF h
  <2>1. <<g>>[1] = g /\ <<h>>[1] = h
    OBVIOUS
  <2> QED
    BY <1>2, <2>1
<1> QED
  BY <1>2, <1>3

LEMMA EntryIs ==
  ASSUME NEW r, NEW m, NEW L
  PROVE  LET e == entryOf(r, m, L)
         IN  /\ e.kind = "entry" /\ e.commit = m.commit /\ e.branch = m.branch /\ e.scalars = r
             /\ e.events = findingEvents(m, open(L, m.branch, Date[m.commit]))
             /\ Recorded(L, e) <=> HasEntry(L, m.commit, m.branch)
  BY DEF entryOf, Recorded, HasEntry

(***************************************************************************)
(* An entry that lands with no gap ahead of it follows its parent's.        *)
(***************************************************************************)
LEMMA FollowsItsParent ==
  ASSUME NEW r \in Recording, NEW m \in Measurement, NEW L \in Seq(Record),
         gapBefore(m, previous(L, m.branch, Date[m.commit])) = <<>>,
         ~HasEntry(L, m.commit, m.branch), Candidates(L, m.branch, Date[m.commit]) # {}
  PROVE  \E j \in Candidates(L, m.branch, Date[m.commit]) : L[j].commit = Parent(m.commit)
<1> DEFINE prev == previous(L, m.branch, Date[m.commit])
<1>1. Date[m.commit] \in Nat
  BY LedgerAssumption DEF Measurement
<1>2. PICK j \in Candidates(L, m.branch, Date[m.commit]) :
         j \in DOMAIN L /\ L[j].commit \in Commit /\ prev = L[j].commit
  BY <1>1, PreviousFacts
<1>3. L[j].kind = "entry" /\ L[j].branch = m.branch
  BY DEF Candidates, Walked
<1>4. prev # NoCommit /\ prev # m.commit
  BY <1>2, <1>3, LedgerAssumption DEF HasEntry
<1>5. prev \in {NoCommit, ParentSeen(m), m.commit}
  <2>1. \A x : <<x>> # <<>>
    <3> TAKE x
    <3>1. Len(<<x>>) = 1 /\ Len(<<>>) = 0
      OBVIOUS
    <3> QED
      BY <3>1
  <2> HIDE DEF prev
  <2>2. gapBefore(m, prev) = <<>>
    BY DEF prev
  <2> QED
    BY <2>1, <2>2 DEF gapBefore
<1>6. prev = Parent(m.commit)
  BY <1>4, <1>5 DEF ParentSeen
<1> QED
  BY <1>2, <1>6

LEMMA AheadIsCandidates ==
  ASSUME NEW L \in Seq(Record), NEW x \in Record
  PROVE  Ahead(Append(L, x), Len(L) + 1) = Candidates(L, x.branch, Date[x.commit])
<1>1. /\ Append(L, x)[Len(L) + 1] = x /\ DOMAIN L = 1..Len(L) /\ Len(L) \in Nat
      /\ \A k \in DOMAIN L : Append(L, x)[k] = L[k]
  BY Appending
<1>2. (Len(L) + 1) - 1 = Len(L)
  BY <1>1
<1> QED
  BY <1>1, <1>2 DEF Ahead, Candidates, Walked

LEMMA MarkedLands ==
  ASSUME NEW r \in Recording, NEW m \in Measurement, NEW L \in Seq(Record), Marked(L),
         NEW A, A = landing(L, records(r, m, L))
  PROVE  Marked(L \o A)
<1> DEFINE e == entryOf(r, m, L)
           gaps == gapBefore(m, previous(L, m.branch, Date[m.commit]))
<1>1. /\ e \in Record /\ e.kind = "entry" /\ e.commit = m.commit /\ e.branch = m.branch
      /\ Recorded(L, e) <=> HasEntry(L, m.commit, m.branch)
  BY EntryIs, EntryType DEF Record
<1>2. \A g \in Gap : gaps = <<g>> =>
         g \in Record /\ g.kind = "gap" /\ g.commit = m.commit /\ g.branch = m.branch
  BY GapIs DEF Record
<1>3. \/ A = <<>>
      \/ /\ A = <<e>> /\ ~Recorded(L, e)
         /\ gaps = <<>> \/ \E g \in Gap : gaps = <<g>> /\ Recorded(L, g)
      \/ \E g \in Gap :
           /\ gaps = <<g>> /\ ~Recorded(L, g)
           /\ \/ A = <<g>> /\ Recorded(L, e)
              \/ A = <<g, e>> /\ ~Recorded(L, e)
  BY WhatLands
<1>4. ~HasEntry(L, m.commit, m.branch) /\ Candidates(L, m.branch, Date[m.commit]) # {} /\ gaps = <<>>
         => \E j \in Candidates(L, m.branch, Date[m.commit]) : L[j].commit = Parent(m.commit)
  BY FollowsItsParent
<1> HIDE DEF e, gaps
<1>5. ASSUME NEW M \in Seq(Record), Marked(M), NEW x \in Record,
             x.kind = "gap" => HasEntry(M, x.commit, x.branch),
             x.kind = "entry" /\ Candidates(M, x.branch, Date[x.commit]) # {} =>
               \E j \in Candidates(M, x.branch, Date[x.commit]) : M[j].commit = Parent(x.commit)
      PROVE  Marked(Append(M, x))
  <2> DEFINE N == Append(M, x)
  <2>0. /\ N \in Seq(Record) /\ DOMAIN N = 1..(Len(M) + 1) /\ DOMAIN M = 1..Len(M) /\ Len(M) \in Nat
        /\ N[Len(M) + 1] = x /\ \A k \in DOMAIN M : N[k] = M[k]
    BY Appending
  <2>1. ASSUME NEW i \in DOMAIN M
        PROVE  (N[i].kind = "gap" => HasEntry(N, N[i].commit, N[i].branch)) /\ HoleMarked(N, i)
    BY <1>5, <2>0, AheadKept, HasEntryKept DEF Marked
  <2>2. x.kind = "gap" => HasEntry(N, x.commit, x.branch)
    BY <1>5, HasEntryKept
  <2>3. HoleMarked(N, Len(M) + 1)
    <3>1. Ahead(N, Len(M) + 1) = Candidates(M, x.branch, Date[x.commit])
      BY AheadIsCandidates
    <3>2. \A j \in Candidates(M, x.branch, Date[x.commit]) : j \in DOMAIN M
      BY DEF Candidates, Walked
    <3> HIDE DEF N
    <3> QED
      BY <1>5, <2>0, <3>1, <3>2 DEF HoleMarked
  <2>4. \A i \in DOMAIN N : i \in DOMAIN M \/ i = Len(M) + 1
    BY <2>0
  <2> HIDE DEF N
  <2>5. Marked(N)
    BY <2>0, <2>1, <2>2, <2>3, <2>4 DEF Marked
  <2> QED
    BY <2>5 DEF N
<1>6. CASE A = <<>>
  BY <1>1, <1>6, ConcatOneAndTwo
<1>7. CASE /\ A = <<e>> /\ ~Recorded(L, e)
           /\ gaps = <<>> \/ \E g \in Gap : gaps = <<g>> /\ Recorded(L, g)
  <2>1. ASSUME NEW g \in Gap, gaps = <<g>>, Recorded(L, g)
        PROVE  FALSE
    <3>1. PICK i \in DOMAIN L : L[i].kind = "gap" /\ L[i].commit = m.commit /\ L[i].branch = m.branch
      BY <1>2, <2>1 DEF Recorded
    <3>2. HasEntry(L, m.commit, m.branch)
      BY <3>1 DEF Marked
    <3> QED
      BY <1>1, <1>7, <3>2
  <2>2. Marked(Append(L, e))
    BY <1>1, <1>4, <1>5, <1>7, <2>1
  <2> QED
    BY <1>1, <1>7, <2>2, ConcatOneAndTwo
<1>8. ASSUME NEW g \in Gap, gaps = <<g>>, A = <<g>>, Recorded(L, e)
      PROVE  Marked(L \o A)
  <2>1. Marked(Append(L, g))
    BY <1>1, <1>2, <1>5, <1>8
  <2> QED
    BY <1>2, <1>8, <2>1, ConcatOneAndTwo
<1>9. ASSUME NEW g \in Gap, gaps = <<g>>, A = <<g, e>>
      PROVE  Marked(L \o A)
  <2> DEFINE M == Append(L, g)
             N == Append(M, e)
             n == Len(L) + 1
  <2>1. /\ g \in Record /\ g.kind = "gap" /\ g.commit = m.commit /\ g.branch = m.branch
    BY <1>2, <1>9
  <2>2. /\ M \in Seq(Record) /\ DOMAIN M = 1..n /\ DOMAIN L = 1..Len(L) /\ Len(L) \in Nat
        /\ M[n] = g /\ Len(M) = n /\ \A k \in DOMAIN L : M[k] = L[k]
    BY <2>1, Appending
  <2>3. /\ N \in Seq(Record) /\ DOMAIN N = 1..(n + 1)
        /\ N[n + 1] = e /\ \A k \in DOMAIN M : N[k] = M[k]
    BY <1>1, <2>2, Appending
  <2> HIDE DEF M, N
  <2>4. HasEntry(N, m.commit, m.branch)
    BY <1>1, <2>2, HasEntryKept DEF N
  <2>5. ASSUME NEW i \in DOMAIN L
        PROVE  (N[i].kind = "gap" => HasEntry(N, N[i].commit, N[i].branch)) /\ HoleMarked(N, i)
    <3>1. (L[i].kind = "gap" => HasEntry(L, L[i].commit, L[i].branch)) /\ HoleMarked(L, i)
      BY DEF Marked
    <3>2. i \in DOMAIN M /\ HoleMarked(M, i)
      BY <2>2, <3>1, AheadKept
    <3>3. HoleMarked(N, i)
      BY <2>2, <2>3, <3>2, AheadKept
    <3>4. \A c, b : HasEntry(L, c, b) => HasEntry(N, c, b)
      BY <1>1, <2>1, <2>2, HasEntryKept DEF M, N
    <3> QED
      BY <2>2, <2>3, <3>1, <3>2, <3>3, <3>4
  <2>6. N[n].kind = "gap" /\ N[n].commit = m.commit /\ N[n].branch = m.branch
    BY <2>1, <2>2, <2>3
  <2>7. HoleMarked(N, n)
    BY <2>6 DEF HoleMarked
  <2>8. HoleMarked(N, n + 1)
    <3>1. (n + 1) - 1 = n
      BY <2>2
    <3> QED
      BY <1>1, <2>3, <2>6, <3>1 DEF HoleMarked
  <2>9. \A i \in DOMAIN N : i \in DOMAIN L \/ i = n \/ i = n + 1
    BY <2>2, <2>3
  <2>10. N[n + 1].kind = "entry"
    BY <1>1, <2>3
  <2> HIDE DEF n
  <2>11. Marked(N)
    BY <2>4, <2>5, <2>6, <2>7, <2>8, <2>9, <2>10 DEF Marked
  <2> QED
    BY <1>1, <1>9, <2>1, <2>11, ConcatOneAndTwo DEF M, N
<1> QED
  BY <1>3, <1>6, <1>7, <1>8, <1>9

(***************************************************************************)
(* What a gap's truth supposes: a commit is younger than those it descends *)
(* from, by any parents.  Commits of one second, or a clock set back, are  *)
(* the exception.                                                          *)
(***************************************************************************)
DatesDescend == \A c \in Commit : \A a \in Past[c] : Date[a] < Date[c]

Truthful(L) == \A i \in DOMAIN L : GapTrue(L, i)

LEMMA MonthsFollowDates ==
  ASSUME NEW a \in Nat, NEW b \in Nat, a <= b
  PROVE  Month(a) \in Nat /\ Month(b) \in Nat /\ Month(a) <= Month(b)
<1> DEFINE x == a \div MonthLength
           y == b \div MonthLength
<1>1. MonthLength \in Nat \ {0}
  BY LedgerAssumption
<1>2. /\ x \in Nat /\ y \in Nat
      /\ MonthLength * x <= a /\ b < MonthLength * (y + 1)
  BY <1>1
<1> HIDE DEF x, y
<1>3. ~(y + 1 <= x)
  <2> SUFFICES ASSUME y + 1 <= x PROVE FALSE
    OBVIOUS
  <2>1. MonthLength * (y + 1) <= MonthLength * x
    BY <1>1, <1>2
  <2>2. MonthLength * (y + 1) \in Nat /\ MonthLength * x \in Nat
    BY <1>1, <1>2
  <2> QED
    BY <1>2, <2>1, <2>2
<1> QED
  BY <1>2, <1>3 DEF Month, x, y

LEMMA GapIsTrue ==
  ASSUME DatesDescend, NEW m \in Measurement, NEW L \in Seq(Record), NEW g \in Gap,
         gapBefore(m, previous(L, m.branch, Date[m.commit])) = <<g>>,
         NEW j \in DOMAIN L, L[j].kind = "entry", L[j].branch = m.branch,
         Related(L[j].commit, g.from)
  PROVE  L[j].commit \notin ClaimedMissing(g)
<1> DEFINE prev == previous(L, m.branch, Date[m.commit])
           c == m.commit
           d == L[j].commit
<1>1. c \in Commit /\ Date[c] \in Nat /\ Chain[c] \in Seq(Commit) /\ m.branch \in Branch
  BY LedgerAssumption DEF Measurement
<1>2. g.commit = c /\ g.from = prev /\ g.missing = CommitsBetween(prev, m) /\ prev # NoCommit
  BY GapIs
<1>3. PICK i \in Candidates(L, m.branch, Date[c]) :
         /\ i \in DOMAIN L /\ L[i].commit \in Commit /\ prev = L[i].commit
         /\ \A k \in Candidates(L, m.branch, Date[c]) : Date[L[k].commit] <= Date[L[i].commit]
  BY <1>1, <1>2, PreviousFacts
<1> HIDE DEF prev, d
<1> SUFFICES ASSUME d \in ClaimedMissing(g) PROVE FALSE
  BY DEF d
<1>4. g.missing # Unknown /\ \E n \in 1..g.missing : d = Chain[c][n]
  BY <1>2 DEF ClaimedMissing
<1>5. g.missing = Distance(prev, c)
  BY <1>2, <1>4 DEF CommitsBetween
<1>6. PICK n \in 1..Distance(prev, c) : d = Chain[c][n]
  BY <1>4, <1>5
<1>7. n \in DOMAIN Chain[c] /\ d \notin Past[prev] \cup {prev}
  BY <1>1, <1>3, <1>6, DistanceFacts
<1>8. d \in Commit /\ d \in Past[c] /\ prev \in Past[d]
  BY <1>1, <1>2, <1>6, <1>7, HistoryAssumption DEF Related, d
<1>9. Date[prev] < Date[d] /\ Date[d] < Date[c]
  BY <1>1, <1>8 DEF DatesDescend
<1>10. Date[prev] \in Nat /\ Date[d] \in Nat
  BY <1>3, <1>8, LedgerAssumption
<1>11. /\ Month(Date[prev]) <= Month(Date[d]) /\ Month(Date[d]) <= Month(Date[c])
       /\ Month(Date[prev]) \in Nat /\ Month(Date[d]) \in Nat /\ Month(Date[c]) \in Nat
  <2>1. Date[prev] <= Date[d] /\ Date[d] <= Date[c]
    BY <1>1, <1>9, <1>10
  <2>2. Month(Date[prev]) <= Month(Date[d]) /\ Month(Date[prev]) \in Nat /\ Month(Date[d]) \in Nat
    BY <1>10, <2>1, MonthsFollowDates
  <2>3. Month(Date[d]) <= Month(Date[c]) /\ Month(Date[c]) \in Nat
    BY <1>1, <1>10, <2>1, MonthsFollowDates
  <2> QED
    BY <2>2, <2>3
<1>12. Month(Date[prev]) + lookbackMonths > Month(Date[c])
  BY <1>3 DEF Candidates, Walked
<1>13. Month(Date[d]) + lookbackMonths > Month(Date[c])
  BY <1>11, <1>12, LedgerAssumption
<1>14. j \in Candidates(L, m.branch, Date[c])
  BY <1>1, <1>9, <1>10, <1>11, <1>13 DEF Candidates, Walked, d
<1>15. Date[d] <= Date[prev]
  BY <1>3, <1>14 DEF d
<1> QED
  BY <1>9, <1>10, <1>15

LEMMA TruthfulLands ==
  ASSUME DatesDescend, NEW r \in Recording, NEW m \in Measurement, NEW L \in Seq(Record),
         Truthful(L), NEW A, A = landing(L, records(r, m, L))
  PROVE  Truthful(L \o A)
<1> DEFINE e == entryOf(r, m, L)
           gaps == gapBefore(m, previous(L, m.branch, Date[m.commit]))
<1>1. e \in Record /\ e.kind = "entry"
  BY EntryIs, EntryType DEF Record
<1>2. \/ A = <<>> \/ A = <<e>>
      \/ \E g \in Gap : gaps = <<g>> /\ (A = <<g>> \/ A = <<g, e>>)
  BY WhatLands
<1> HIDE DEF e
<1>3. ASSUME NEW M \in Seq(Record), Truthful(M), NEW x \in Record, GapTrue(Append(M, x), Len(M) + 1)
      PROVE  Truthful(Append(M, x))
  <2>1. /\ Append(M, x) \in Seq(Record)
        /\ \A k \in DOMAIN M : Append(M, x)[k] = M[k]
        /\ \A i \in DOMAIN Append(M, x) : i \in DOMAIN M \/ i = Len(M) + 1
    BY Appending
  <2>2. \A i \in DOMAIN M : GapTrue(Append(M, x), i)
    BY <1>3, <2>1, AheadKept DEF Truthful
  <2> QED
    BY <1>3, <2>1, <2>2 DEF Truthful
<1>4. ASSUME NEW M \in Seq(Record), Truthful(M)
      PROVE  Truthful(Append(M, e))
  <2>1. Append(M, e)[Len(M) + 1] = e
    BY <1>1, Appending
  <2>2. GapTrue(Append(M, e), Len(M) + 1)
    BY <1>1, <2>1 DEF GapTrue
  <2> QED
    BY <1>1, <1>3, <1>4, <2>2
<1>5. ASSUME NEW g \in Gap, gaps = <<g>>
      PROVE  g \in Record /\ Truthful(Append(L, g))
  <2>1. g \in Record /\ g.branch = m.branch
    BY <1>5, GapIs DEF Record
  <2>2. /\ Append(L, g)[Len(L) + 1] = g /\ DOMAIN L = 1..Len(L) /\ Len(L) \in Nat
        /\ \A k \in DOMAIN L : Append(L, g)[k] = L[k]
    BY <2>1, Appending
  <2>3. \A j \in DOMAIN L : L[j].kind = "entry" /\ L[j].branch = g.branch /\ Related(L[j].commit, g.from)
                            => L[j].commit \notin ClaimedMissing(g)
    BY <1>5, <2>1, GapIsTrue
  <2>4. (Len(L) + 1) - 1 = Len(L)
    BY <2>2
  <2>5. GapTrue(Append(L, g), Len(L) + 1)
    BY <2>2, <2>3, <2>4 DEF GapTrue
  <2> QED
    BY <1>3, <2>1, <2>5
<1> HIDE DEF gaps
<1>6. CASE A = <<>>
  BY <1>1, <1>6, ConcatOneAndTwo
<1>7. CASE A = <<e>>
  BY <1>1, <1>4, <1>7, ConcatOneAndTwo
<1>8. ASSUME NEW g \in Gap, gaps = <<g>>, A = <<g>> \/ A = <<g, e>>
      PROVE  Truthful(L \o A)
  <2>1. g \in Record /\ Truthful(Append(L, g)) /\ Append(L, g) \in Seq(Record)
    BY <1>5, <1>8, Appending
  <2>2. Truthful(Append(Append(L, g), e))
    BY <1>4, <2>1
  <2> QED
    <3>1. L \o <<g>> = Append(L, g) /\ L \o <<g, e>> = Append(Append(L, g), e)
      BY <1>1, <2>1, ConcatOneAndTwo
    <3>2. CASE A = <<g>>
      BY <2>1, <3>1, <3>2
    <3>3. CASE A = <<g, e>>
      BY <2>2, <3>1, <3>3
    <3> QED
      BY <1>8, <3>2, <3>3
<1> QED
  BY <1>2, <1>6, <1>7, <1>8

-------------------------------------------------------------------------------
(***************************************************************************)
(* What was on the branch before a record, as the readers of a prefix see  *)
(* it and as one who holds the whole history does.                         *)
(***************************************************************************)
WalkedIn(L, n, b, before) == { j \in Walked(L, b, before) : j <= n }

Replayed(L, n, b, before) == { j \in WalkedIn(L, n, b, before) : Date[L[j].commit] < before }

Says(L, j, what, c) == [transition |-> what, claim |-> c] \in L[j].events

Earlier(L, j, i) ==
    \/ Date[L[j].commit] < Date[L[i].commit]
    \/ Date[L[j].commit] = Date[L[i].commit] /\ j < i

OpenIn(L, n, b, before) ==
    { c \in Claim : \E i \in Replayed(L, n, b, before) :
        /\ Says(L, i, "appeared", c)
        /\ \A j \in Replayed(L, n, b, before) : Says(L, j, "resolved", c) => Earlier(L, j, i) }

LEMMA PrefixIs ==
  ASSUME NEW L \in Seq(Record), NEW n \in 0..Len(L)
  PROVE  /\ SubSeq(L, 1, n) \in Seq(Record) /\ DOMAIN SubSeq(L, 1, n) = 1..n
         /\ \A j \in 1..n : j \in DOMAIN L /\ SubSeq(L, 1, n)[j] = L[j]
  OBVIOUS

LEMMA WalkedOfPrefix ==
  ASSUME NEW L \in Seq(Record), NEW n \in 0..Len(L), NEW b, NEW before
  PROVE  Walked(SubSeq(L, 1, n), b, before) = WalkedIn(L, n, b, before)
<1> DEFINE S == SubSeq(L, 1, n)
<1>1. DOMAIN S = 1..n /\ \A j \in 1..n : j \in DOMAIN L /\ S[j] = L[j]
  BY PrefixIs
<1>2. \A j \in DOMAIN L : j <= n <=> j \in 1..n
  OBVIOUS
<1> HIDE DEF S
<1>3. Walked(S, b, before) = WalkedIn(L, n, b, before)
  BY <1>1, <1>2 DEF Walked, WalkedIn
<1> QED
  BY <1>3 DEF S

LEMMA OpenOfPrefix ==
  ASSUME NEW L \in Seq(Record), NEW n \in 0..Len(L), NEW b, NEW before
  PROVE  open(SubSeq(L, 1, n), b, before) = OpenIn(L, n, b, before)
<1> DEFINE S == SubSeq(L, 1, n)
           R == Replayed(L, n, b, before)
<1>1. \A j \in 1..n : S[j] = L[j]
  BY PrefixIs
<1>2. WalkedIn(L, n, b, before) \subseteq 1..n
  BY DEF WalkedIn, Walked
<1>3. Walked(S, b, before) = WalkedIn(L, n, b, before)
  BY WalkedOfPrefix
<1> HIDE DEF S
<1>4. { i \in Walked(S, b, before) : Date[S[i].commit] < before } = R
  BY <1>1, <1>2, <1>3 DEF Replayed
<1>5. \A j \in R : S[j] = L[j]
  BY <1>1, <1>2 DEF Replayed
<1> HIDE DEF R
<1>6. open(S, b, before) =
        { c \in Claim : \E i \in R :
            /\ [transition |-> "appeared", claim |-> c] \in S[i].events
            /\ \A j \in R : [transition |-> "resolved", claim |-> c] \in S[j].events =>
                 \/ Date[S[j].commit] < Date[S[i].commit]
                 \/ Date[S[j].commit] = Date[S[i].commit] /\ j < i }
  BY <1>4 DEF open
<1>7. open(S, b, before) =
        { c \in Claim : \E i \in R :
            /\ Says(L, i, "appeared", c)
            /\ \A j \in R : Says(L, j, "resolved", c) => Earlier(L, j, i) }
  BY <1>5, <1>6 DEF Says, Earlier
<1> QED
  BY <1>7 DEF OpenIn, R, S

LEMMA OpenOfAll ==
  ASSUME NEW L \in Seq(Record), NEW b, NEW before
  PROVE  open(L, b, before) = OpenIn(L, Len(L), b, before)
<1>1. SubSeq(L, 1, Len(L)) = L
  <2>1. /\ SubSeq(L, 1, Len(L)) \in Seq(Record) /\ Len(SubSeq(L, 1, Len(L))) = Len(L)
        /\ \A j \in 1..Len(L) : SubSeq(L, 1, Len(L))[j] = L[j]
    OBVIOUS
  <2> QED
    BY <2>1, SameElements
<1>2. Len(L) \in 0..Len(L)
  OBVIOUS
<1> QED
  BY <1>1, <1>2, OpenOfPrefix

LEMMA OpenKept ==
  ASSUME NEW L \in Seq(Record), NEW M \in Seq(Record), NEW n \in 0..Len(L),
         Len(L) <= Len(M), \A k \in DOMAIN L : M[k] = L[k], NEW b, NEW before
  PROVE  OpenIn(M, n, b, before) = OpenIn(L, n, b, before)
<1>1. SubSeq(M, 1, n) = SubSeq(L, 1, n)
  <2>1. n \in 0..Len(M)
    OBVIOUS
  <2>2. /\ SubSeq(M, 1, n) \in Seq(Record) /\ SubSeq(L, 1, n) \in Seq(Record)
        /\ Len(SubSeq(M, 1, n)) = n /\ Len(SubSeq(L, 1, n)) = n
        /\ \A j \in 1..n : SubSeq(M, 1, n)[j] = SubSeq(L, 1, n)[j]
    BY <2>1
  <2> QED
    BY <2>2, SameElements
<1>2. n \in 0..Len(M)
  OBVIOUS
<1> QED
  BY <1>1, <1>2, OpenOfPrefix

\* A gap opens and resolves nothing.
LEMMA GapsAreSilent ==
  ASSUME NEW L \in Seq(Record), NEW g \in Record, g.kind = "gap", NEW b, NEW before
  PROVE  OpenIn(Append(L, g), Len(L) + 1, b, before) = OpenIn(L, Len(L), b, before)
<1> DEFINE M == Append(L, g)
<1>1. /\ M \in Seq(Record) /\ Len(M) = Len(L) + 1 /\ DOMAIN M = 1..(Len(L) + 1)
      /\ M[Len(L) + 1] = g /\ \A k \in DOMAIN L : M[k] = L[k]
  BY Appending
<1> HIDE DEF M
<1>2. WalkedIn(M, Len(L) + 1, b, before) = WalkedIn(M, Len(L), b, before)
  BY <1>1 DEF WalkedIn, Walked
<1>3. OpenIn(M, Len(L) + 1, b, before) = OpenIn(M, Len(L), b, before)
  BY <1>2 DEF OpenIn, Replayed
<1>4. Len(L) \in 0..Len(L) /\ Len(L) <= Len(M)
  BY <1>1
<1>5. OpenIn(M, Len(L), b, before) = OpenIn(L, Len(L), b, before)
  BY <1>1, <1>4, OpenKept
<1> QED
  BY <1>3, <1>5 DEF M

(***************************************************************************)
(* An entry holds what its recording's scan made of what was open on the   *)
(* branch when it landed.                                                  *)
(***************************************************************************)
DerivedAt(L, i) ==
    L[i].kind = "entry" =>
        LET m == plan[L[i].scalars].measured
        IN  /\ L[i].commit = m.commit /\ L[i].branch = m.branch
            /\ L[i].events = findingEvents(m, OpenIn(L, i - 1, m.branch, Date[m.commit]))

Derived(L) == \A i \in DOMAIN L : DerivedAt(L, i)

LEMMA DerivedKept ==
  ASSUME NEW L \in Seq(Record), NEW x \in Record, Derived(L), DerivedAt(Append(L, x), Len(L) + 1)
  PROVE  Derived(Append(L, x))
<1> DEFINE M == Append(L, x)
<1>1. /\ M \in Seq(Record) /\ Len(M) = Len(L) + 1 /\ DOMAIN M = 1..(Len(L) + 1)
      /\ DOMAIN L = 1..Len(L) /\ Len(L) \in Nat /\ \A k \in DOMAIN L : M[k] = L[k]
  BY Appending
<1> HIDE DEF M
<1>2. ASSUME NEW i \in DOMAIN L
      PROVE  DerivedAt(M, i)
  <2>1. i - 1 \in 0..Len(L) /\ Len(L) <= Len(M)
    BY <1>1
  <2>2. \A b, before : OpenIn(M, i - 1, b, before) = OpenIn(L, i - 1, b, before)
    BY <1>1, <2>1, OpenKept
  <2>3. DerivedAt(L, i)
    BY DEF Derived
  <2> QED
    BY <1>1, <2>2, <2>3 DEF DerivedAt
<1>3. DerivedAt(M, Len(L) + 1)
  BY DEF M
<1>4. \A i \in DOMAIN M : i \in DOMAIN L \/ i = Len(L) + 1
  BY <1>1
<1>5. Derived(M)
  BY <1>2, <1>3, <1>4 DEF Derived
<1> QED
  BY <1>5 DEF M

LEMMA DerivedLands ==
  ASSUME plan \in Plans, NEW r \in Recording, NEW L \in Seq(Record), Derived(L),
         NEW A, A = landing(L, records(r, plan[r].measured, L))
  PROVE  Derived(L \o A)
<1> DEFINE m == plan[r].measured
           e == entryOf(r, m, L)
           gaps == gapBefore(m, previous(L, m.branch, Date[m.commit]))
<1>0. m \in Measurement
  BY PlanType
<1>1. /\ e \in Record /\ e.kind = "entry" /\ e.commit = m.commit /\ e.branch = m.branch
      /\ e.scalars = r /\ e.events = findingEvents(m, OpenIn(L, Len(L), m.branch, Date[m.commit]))
  BY <1>0, EntryIs, EntryType, OpenOfAll DEF Record
<1>2. \/ A = <<>> \/ A = <<e>>
      \/ \E g \in Gap : gaps = <<g>> /\ (A = <<g>> \/ A = <<g, e>>)
  BY <1>0, WhatLands
<1> HIDE DEF e, gaps
<1>3. ASSUME NEW M \in Seq(Record), Derived(M),
             OpenIn(M, Len(M), m.branch, Date[m.commit]) = OpenIn(L, Len(L), m.branch, Date[m.commit])
      PROVE  Derived(Append(M, e))
  <2> DEFINE N == Append(M, e)
  <2>1. /\ N \in Seq(Record) /\ Len(N) = Len(M) + 1 /\ N[Len(M) + 1] = e
        /\ \A k \in DOMAIN M : N[k] = M[k]
    BY <1>1, Appending
  <2>2. Len(M) \in 0..Len(M) /\ Len(M) <= Len(N) /\ (Len(M) + 1) - 1 = Len(M)
    BY <2>1
  <2> HIDE DEF N
  <2>3. OpenIn(N, Len(M), m.branch, Date[m.commit]) = OpenIn(M, Len(M), m.branch, Date[m.commit])
    BY <2>1, <2>2, OpenKept
  <2>4. DerivedAt(N, Len(M) + 1)
    BY <1>1, <1>3, <2>1, <2>2, <2>3 DEF DerivedAt
  <2> QED
    BY <1>1, <1>3, <2>4, DerivedKept DEF N
<1>4. ASSUME NEW g \in Gap, gaps = <<g>>
      PROVE  /\ g \in Record /\ Append(L, g) \in Seq(Record) /\ Derived(Append(L, g))
             /\ OpenIn(Append(L, g), Len(Append(L, g)), m.branch, Date[m.commit])
                  = OpenIn(L, Len(L), m.branch, Date[m.commit])
  <2>1. g \in Record /\ g.kind = "gap"
    BY <1>4, GapIs DEF Record, gaps
  <2>2. /\ Append(L, g)[Len(L) + 1] = g /\ Append(L, g) \in Seq(Record)
        /\ Len(Append(L, g)) = Len(L) + 1
    BY <2>1, Appending
  <2>3. DerivedAt(Append(L, g), Len(L) + 1)
    BY <2>1, <2>2 DEF DerivedAt
  <2> QED
    BY <2>1, <2>2, <2>3, DerivedKept, GapsAreSilent
<1>5. L \o <<>> = L /\ L \o <<e>> = Append(L, e)
  BY <1>1, ConcatOneAndTwo
<1>6. CASE A = <<>>
  BY <1>5, <1>6
<1>7. CASE A = <<e>>
  BY <1>3, <1>5, <1>7
<1>8. ASSUME NEW g \in Gap, gaps = <<g>>, A = <<g>> \/ A = <<g, e>>
      PROVE  Derived(L \o A)
  <2>1. /\ g \in Record /\ Append(L, g) \in Seq(Record) /\ Derived(Append(L, g))
        /\ Derived(Append(Append(L, g), e))
    BY <1>3, <1>4, <1>8
  <2>2. L \o <<g>> = Append(L, g) /\ L \o <<g, e>> = Append(Append(L, g), e)
    BY <1>1, <2>1, ConcatOneAndTwo
  <2>3. CASE A = <<g>>
    BY <2>1, <2>2, <2>3
  <2>4. CASE A = <<g, e>>
    BY <2>1, <2>2, <2>4
  <2> QED
    BY <1>8, <2>3, <2>4
<1> QED
  BY <1>2, <1>6, <1>7, <1>8

(***************************************************************************)
(* Then what is open after the newest entry is what its scan found, where  *)
(* it looked, and what was open before it, where it did not.               *)
(***************************************************************************)
IsNewest(L, i) ==
    /\ L[i].kind = "entry"
    /\ \A j \in DOMAIN L : j # i /\ L[j].kind = "entry" /\ L[j].branch = L[i].branch
                             => j < i /\ Date[L[j].commit] < Date[L[i].commit]

LEMMA NewestDecides ==
  ASSUME plan \in Plans, NEW L \in Seq(Record), Derived(L), NEW i \in DOMAIN L, IsNewest(L, i),
         NEW m, m = plan[L[i].scalars].measured,
         Month(Date[L[i].commit] + 1) = Month(Date[L[i].commit])
  PROVE  LET after == Date[L[i].commit] + 1
         IN  open(L, L[i].branch, after) =
               { c \in m.found : c[1] \in m.scope }
                 \cup { c \in open(SubSeq(L, 1, i - 1), L[i].branch, after) : c[1] \notin m.scope }
<1> DEFINE b == L[i].branch
           d == Date[L[i].commit]
           O == OpenIn(L, i - 1, b, d)
           R == Replayed(L, i - 1, b, d)
<1>1. L[i].kind = "entry" /\ L[i] \in Entry /\ \A j \in DOMAIN L : L[j].commit \in Commit
  BY DEF IsNewest, Record, Entry, Gap
<1>2. /\ L[i].scalars \in Recording /\ m \in Measurement /\ m.found \subseteq Claim
      /\ L[i].commit = m.commit /\ b = m.branch
  <2>1. L[i].scalars \in Recording
    BY <1>1 DEF Entry
  <2>2. m \in Measurement
    BY <2>1, PlanType
  <2> QED
    BY <1>1, <2>1, <2>2 DEF Derived, DerivedAt, Measurement
<1>3. L[i].events = findingEvents(m, O)
  BY <1>1, <1>2 DEF Derived, DerivedAt
<1>4. d \in Nat /\ \A j \in DOMAIN L : Date[L[j].commit] \in Nat
  BY <1>1, LedgerAssumption
<1>5. Month(d) \in Nat /\ Month(d + 1) = Month(d)
  BY <1>4, MonthsFollowDates
<1>6. R \subseteq DOMAIN L /\ \A j \in R : j < i /\ Date[L[j].commit] < d
  BY DEF Replayed, WalkedIn, Walked
<1>7. Replayed(L, i - 1, b, d + 1) = R
  <2>1. WalkedIn(L, i - 1, b, d + 1) = WalkedIn(L, i - 1, b, d)
    BY <1>5 DEF WalkedIn, Walked
  <2>2. \A j \in WalkedIn(L, i - 1, b, d) : j # i /\ j \in DOMAIN L /\ L[j].kind = "entry" /\ L[j].branch = b
    BY DEF WalkedIn, Walked
  <2>3. \A j \in WalkedIn(L, i - 1, b, d) : Date[L[j].commit] < d
    BY <2>2 DEF IsNewest
  <2> HIDE DEF b, d
  <2>4. \A j \in WalkedIn(L, i - 1, b, d) : Date[L[j].commit] < d + 1
    BY <1>4, <2>2, <2>3
  <2> QED
    BY <2>1, <2>3, <2>4 DEF Replayed
<1>8. Replayed(L, Len(L), b, d + 1) = R \cup {i}
  <2>1. i \in Walked(L, b, d + 1)
    <3>1. Month(d) + lookbackMonths > Month(d)
      BY <1>5, LedgerAssumption
    <3> QED
      BY <1>1, <1>5, <3>1 DEF Walked
  <2>2. i <= Len(L) /\ d < d + 1
    BY <1>4
  <2>3. i \in Replayed(L, Len(L), b, d + 1)
    BY <2>1, <2>2 DEF Replayed, WalkedIn
  <2>4. \A j \in Walked(L, b, d + 1) : j \in DOMAIN L /\ (j = i \/ j <= i - 1)
    BY DEF Walked, IsNewest
  <2>5. Replayed(L, Len(L), b, d + 1) \subseteq Replayed(L, i - 1, b, d + 1) \cup {i}
    BY <2>4 DEF Replayed, WalkedIn
  <2>6. Replayed(L, i - 1, b, d + 1) \subseteq Replayed(L, Len(L), b, d + 1)
    BY DEF Replayed, WalkedIn, Walked
  <2> HIDE DEF b, d
  <2> QED
    BY <1>7, <2>3, <2>5, <2>6
<1>9. /\ open(L, b, d + 1) = OpenIn(L, Len(L), b, d + 1)
      /\ open(SubSeq(L, 1, i - 1), b, d + 1) = O
  <2>1. i - 1 \in 0..Len(L)
    OBVIOUS
  <2>2. OpenIn(L, i - 1, b, d + 1) = O
    BY <1>7 DEF OpenIn
  <2> HIDE DEF O
  <2> QED
    BY <2>1, <2>2, OpenOfAll, OpenOfPrefix
<1>10. /\ \A j \in R : Earlier(L, j, i) /\ ~Earlier(L, i, j)
       /\ ~Earlier(L, i, i)
  <2>1. \A j \in R : Date[L[j].commit] < d /\ Date[L[j].commit] \in Nat
    BY <1>4, <1>6
  <2> QED
    BY <1>4, <2>1 DEF Earlier
<1>11. \A c \in Claim :
         /\ Says(L, i, "appeared", c) <=> c \in m.found \ O /\ c[1] \in m.scope
         /\ Says(L, i, "resolved", c) <=> c \in O \ m.found /\ c[1] \in m.scope
  BY <1>3 DEF Says, findingEvents
<1>12. O \subseteq Claim
  BY DEF OpenIn
<1>13. \A c \in Claim : c \in O <=>
         \E k \in R : Says(L, k, "appeared", c)
                      /\ \A j \in R : Says(L, j, "resolved", c) => Earlier(L, j, k)
  BY DEF OpenIn
<1>14. \A c \in Claim : c \in open(L, b, d + 1) <=>
         \E k \in R \cup {i} : Says(L, k, "appeared", c)
                      /\ \A j \in R \cup {i} : Says(L, j, "resolved", c) => Earlier(L, j, k)
  BY <1>8, <1>9 DEF OpenIn
<1>15. open(L, b, d + 1) \subseteq Claim
  BY <1>9 DEF OpenIn
<1> HIDE DEF O, R, b, d
<1>16. \A c \in Claim : c \in open(L, b, d + 1) <=>
         (Says(L, i, "appeared", c) \/ c \in O) /\ ~Says(L, i, "resolved", c)
  <2> TAKE c \in Claim
  <2>1. ASSUME c \in open(L, b, d + 1)
        PROVE  (Says(L, i, "appeared", c) \/ c \in O) /\ ~Says(L, i, "resolved", c)
    <3>1. PICK k \in R \cup {i} : Says(L, k, "appeared", c)
                      /\ \A j \in R \cup {i} : Says(L, j, "resolved", c) => Earlier(L, j, k)
      BY <1>14, <2>1
    <3>2. CASE k = i
      BY <1>10, <3>1, <3>2
    <3>3. CASE k \in R
      BY <1>10, <1>13, <3>1, <3>3
    <3> QED
      BY <3>2, <3>3
  <2>2. ASSUME Says(L, i, "appeared", c), ~Says(L, i, "resolved", c)
        PROVE  c \in open(L, b, d + 1)
    <3>1. \A j \in R \cup {i} : Says(L, j, "resolved", c) => Earlier(L, j, i)
      BY <1>10, <2>2
    <3> QED
      BY <1>14, <2>2, <3>1
  <2>3. ASSUME c \in O, ~Says(L, i, "resolved", c)
        PROVE  c \in open(L, b, d + 1)
    <3>1. PICK k \in R : Says(L, k, "appeared", c)
                      /\ \A j \in R : Says(L, j, "resolved", c) => Earlier(L, j, k)
      BY <1>13, <2>3
    <3>2. \A j \in R \cup {i} : Says(L, j, "resolved", c) => Earlier(L, j, k)
      BY <2>3, <3>1
    <3> QED
      BY <1>14, <3>1, <3>2
  <2> QED
    BY <2>1, <2>2, <2>3
<1>17. open(L, b, d + 1) =
         { c \in m.found : c[1] \in m.scope } \cup { c \in O : c[1] \notin m.scope }
  <2>1. \A c \in Claim : c \in open(L, b, d + 1) <=>
          (c \in m.found /\ c[1] \in m.scope) \/ (c \in O /\ c[1] \notin m.scope)
    BY <1>11, <1>16
  <2> QED
    BY <1>2, <1>12, <1>15, <2>1
<1> QED
  BY <1>9, <1>17 DEF b, d

-------------------------------------------------------------------------------
(***************************************************************************)
(* The rollup of the records: a row counts them and names the newest.      *)
(***************************************************************************)
Of(L, kind, b, d) ==
    { i \in DOMAIN L : L[i].kind = kind /\ L[i].branch = b /\ Day(Date[L[i].commit]) = d }

RowAgrees(L, row, b, d) ==
    /\ row.entries = Cardinality(Of(L, "entry", b, d))
    /\ row.gaps = Cardinality(Of(L, "gap", b, d))
    /\ IF Of(L, "entry", b, d) = {} THEN row.commit = NoCommit
       ELSE \E i \in Of(L, "entry", b, d) :
              /\ L[i].commit = row.commit
              /\ \A j \in Of(L, "entry", b, d) : Date[L[j].commit] <= Date[L[i].commit]

RollsUp(L, rows) == \A b \in Branch, d \in Days : RowAgrees(L, rows[<<b, d>>], b, d)

LEMMA OfFinite ==
  ASSUME NEW L \in Seq(Record), NEW kind, NEW b, NEW d
  PROVE  IsFiniteSet(Of(L, kind, b, d)) /\ Cardinality(Of(L, kind, b, d)) \in Nat
<1>1. IsFiniteSet(DOMAIN L)
  <2>1. DOMAIN L = 1..Len(L) /\ Len(L) \in Nat
    OBVIOUS
  <2> QED
    BY <2>1, FS_Interval
<1>2. Of(L, kind, b, d) \in SUBSET DOMAIN L
  BY DEF Of
<1> QED
  BY <1>1, <1>2, FS_Subset, FS_CardinalityType

Counted(x, kind, b, d) ==
    IF x.kind = kind /\ x.branch = b /\ Day(Date[x.commit]) = d THEN 1 ELSE 0

LEMMA OfAppended ==
  ASSUME NEW L \in Seq(Record), NEW x \in Record, NEW kind, NEW b, NEW d
  PROVE  /\ Of(Append(L, x), kind, b, d) =
              Of(L, kind, b, d) \cup (IF Counted(x, kind, b, d) = 1 THEN {Len(L) + 1} ELSE {})
         /\ Cardinality(Of(Append(L, x), kind, b, d)) =
              Cardinality(Of(L, kind, b, d)) + Counted(x, kind, b, d)
<1>1. /\ DOMAIN Append(L, x) = 1..(Len(L) + 1) /\ DOMAIN L = 1..Len(L) /\ Len(L) \in Nat
      /\ \A k \in DOMAIN L : Append(L, x)[k] = L[k]
      /\ Append(L, x)[Len(L) + 1] = x
  BY Appending
<1>2. \A k \in DOMAIN Append(L, x) : k \in DOMAIN L \/ k = Len(L) + 1
  BY <1>1
<1>3. DOMAIN L \subseteq DOMAIN Append(L, x) /\ Len(L) + 1 \in DOMAIN Append(L, x)
      /\ Len(L) + 1 \notin DOMAIN L
  BY <1>1
<1>4. CASE x.kind = kind /\ x.branch = b /\ Day(Date[x.commit]) = d
  <2>1. Of(Append(L, x), kind, b, d) = Of(L, kind, b, d) \cup {Len(L) + 1}
    BY <1>1, <1>2, <1>3, <1>4 DEF Of
  <2>2. Len(L) + 1 \notin Of(L, kind, b, d)
    BY <1>3 DEF Of
  <2>3. Counted(x, kind, b, d) = 1
    BY <1>4 DEF Counted
  <2> QED
    BY <2>1, <2>2, <2>3, OfFinite, FS_AddElement
<1>5. CASE ~(x.kind = kind /\ x.branch = b /\ Day(Date[x.commit]) = d)
  <2>1. Of(Append(L, x), kind, b, d) = Of(L, kind, b, d)
    BY <1>1, <1>2, <1>3, <1>5 DEF Of
  <2>2. Counted(x, kind, b, d) = 0
    BY <1>5 DEF Counted
  <2> QED
    BY <2>1, <2>2, OfFinite
<1> QED
  BY <1>4, <1>5

\* How one record changes a row that agreed.
LEMMA RowGrows ==
  ASSUME NEW L \in Seq(Record), NEW x \in Record, NEW row, NEW b, NEW d,
         RowAgrees(L, row, b, d), NEW next,
         next.entries = row.entries + Counted(x, "entry", b, d),
         next.gaps = row.gaps + Counted(x, "gap", b, d),
         next.commit = IF /\ Counted(x, "entry", b, d) = 1
                          /\ row.commit = NoCommit \/ Date[row.commit] <= Date[x.commit]
                       THEN x.commit ELSE row.commit
  PROVE  RowAgrees(Append(L, x), next, b, d)
<1> DEFINE E == Of(L, "entry", b, d)
           M == Append(L, x)
           F == Of(M, "entry", b, d)
           n == Len(L) + 1
<1>1. /\ F = E \cup (IF Counted(x, "entry", b, d) = 1 THEN {n} ELSE {})
      /\ Cardinality(F) = Cardinality(E) + Counted(x, "entry", b, d)
      /\ Cardinality(Of(M, "gap", b, d)) = Cardinality(Of(L, "gap", b, d)) + Counted(x, "gap", b, d)
  BY OfAppended
<1>2. /\ row.entries = Cardinality(E) /\ row.gaps = Cardinality(Of(L, "gap", b, d))
      /\ E = {} => row.commit = NoCommit
      /\ E # {} => \E i \in E : /\ L[i].commit = row.commit
                                /\ \A j \in E : Date[L[j].commit] <= Date[L[i].commit]
  BY DEF RowAgrees
<1>3. M[n] = x /\ \A k \in DOMAIN L : M[k] = L[k]
  BY Appending
<1>4. E \subseteq DOMAIN L /\ \A k \in DOMAIN L : L[k].commit \in Commit
  BY DEF Of, Record, Entry, Gap
<1>5. x.commit \in Commit /\ NoCommit \notin Commit /\ \A c \in Commit : Date[c] \in Nat
  BY LedgerAssumption DEF Record, Entry, Gap
<1> HIDE DEF E, F, M, n
<1>6. IF F = {} THEN next.commit = NoCommit
      ELSE \E i \in F : /\ M[i].commit = next.commit
                        /\ \A j \in F : Date[M[j].commit] <= Date[M[i].commit]
  <2>1. CASE Counted(x, "entry", b, d) # 1
    <3>1. F = E /\ next.commit = row.commit
      BY <1>1, <2>1
    <3> QED
      BY <1>2, <1>3, <1>4, <3>1
  <2>2. CASE Counted(x, "entry", b, d) = 1
    <3>1. F = E \cup {n} /\ n \in F
      BY <1>1, <2>2
    <3>2. CASE row.commit = NoCommit
      <4>1. E = {} /\ next.commit = x.commit
        BY <1>2, <1>4, <1>5, <2>2, <3>2
      <4> QED
        BY <1>3, <1>5, <3>1, <4>1
    <3>3. CASE row.commit # NoCommit
      <4>1. PICK i \in E : /\ L[i].commit = row.commit
                           /\ \A j \in E : Date[L[j].commit] <= Date[L[i].commit]
        BY <1>2, <3>3
      <4>2. i \in F /\ M[i] = L[i] /\ row.commit \in Commit
        BY <1>3, <1>4, <3>1, <4>1
      <4>3. CASE Date[row.commit] <= Date[x.commit]
        <5>1. next.commit = x.commit
          BY <2>2, <4>3
        <5>2. \A j \in E : Date[M[j].commit] <= Date[x.commit]
          BY <1>3, <1>4, <1>5, <4>1, <4>2, <4>3
        <5> QED
          BY <1>3, <1>5, <3>1, <5>1, <5>2
      <4>4. CASE ~(Date[row.commit] <= Date[x.commit])
        <5>1. next.commit = row.commit
          BY <2>2, <3>3, <4>4
        <5>2. Date[x.commit] <= Date[row.commit]
          BY <1>5, <4>2, <4>4
        <5>3. \A j \in F : Date[M[j].commit] <= Date[M[i].commit]
          BY <1>3, <1>4, <3>1, <4>1, <4>2, <5>2
        <5> QED
          BY <4>1, <4>2, <5>1, <5>3
      <4> QED
        BY <4>3, <4>4
    <3> QED
      BY <3>2, <3>3
  <2> QED
    BY <2>1, <2>2
<1> QED
  BY <1>1, <1>2, <1>6 DEF RowAgrees, E, F, M

LEMMA KindsOf ==
  ASSUME NEW g \in Record, NEW e \in Record, g.kind = "gap", e.kind = "entry"
  PROVE  LET of(A, kind) == { i \in DOMAIN A : A[i].kind = kind }
         IN  /\ \A kind : of(<<>>, kind) = {}
             /\ of(<<e>>, "entry") = {1} /\ of(<<e>>, "gap") = {}
             /\ of(<<g>>, "entry") = {} /\ of(<<g>>, "gap") = {1}
             /\ of(<<g, e>>, "entry") = {2} /\ of(<<g, e>>, "gap") = {1}
<1>1. /\ DOMAIN <<g, e>> = {1, 2} /\ <<g, e>>[1] = g /\ <<g, e>>[2] = e
      /\ DOMAIN <<e>> = {1} /\ <<e>>[1] = e /\ DOMAIN <<g>> = {1} /\ <<g>>[1] = g
      /\ DOMAIN <<>> = {}
  OBVIOUS
<1>2. 1 # 2 /\ g.kind # "entry" /\ e.kind # "gap"
  OBVIOUS
<1>3. \A kind : { i \in DOMAIN <<>> : <<>>[i].kind = kind } = {}
  BY <1>1
<1>4. { i \in DOMAIN <<e>> : <<e>>[i].kind = "entry" } = {1}
  BY <1>1
<1>5. { i \in DOMAIN <<e>> : <<e>>[i].kind = "gap" } = {}
  BY <1>1, <1>2
<1>6. { i \in DOMAIN <<g>> : <<g>>[i].kind = "entry" } = {}
  BY <1>1, <1>2
<1>7. { i \in DOMAIN <<g>> : <<g>>[i].kind = "gap" } = {1}
  BY <1>1
<1>8. { i \in DOMAIN <<g, e>> : <<g, e>>[i].kind = "entry" } = {2}
  BY <1>1, <1>2
<1>9. { i \in DOMAIN <<g, e>> : <<g, e>>[i].kind = "gap" } = {1}
  BY <1>1, <1>2
<1> QED
  BY <1>3, <1>4, <1>5, <1>6, <1>7, <1>8, <1>9

\* The row of one branch and day, after the records of a recording.
Kind(A, kind) == { i \in DOMAIN A : A[i].kind = kind }

Follows(next, row, here, m, A) ==
    /\ here =>
         /\ next.entries = row.entries + Cardinality(Kind(A, "entry"))
         /\ next.gaps = row.gaps + Cardinality(Kind(A, "gap"))
         /\ next.commit = IF /\ Kind(A, "entry") # {}
                             /\ row.commit = NoCommit \/ Date[row.commit] <= Date[m.commit]
                          THEN m.commit ELSE row.commit
    /\ ~here => next = row

LEMMA Projected ==
  ASSUME NEW m \in Measurement, NEW rows \in [Branch \X Days -> Rollup], NEW A,
         NEW b \in Branch, NEW d \in Days
  PROVE  Follows(project(rows, m, A)[<<b, d>>], rows[<<b, d>>],
                 b = m.branch /\ d = Day(Date[m.commit]), m, A)
<1> DEFINE k == <<m.branch, Day(Date[m.commit])>>
           E == Kind(A, "entry")
           after == [entries |-> rows[k].entries + Cardinality(E),
                     gaps    |-> rows[k].gaps + Cardinality(Kind(A, "gap")),
                     commit  |-> IF E # {} /\ (rows[k].commit = NoCommit \/ Date[rows[k].commit] <= Date[m.commit])
                                 THEN m.commit ELSE rows[k].commit]
<1>1. project(rows, m, A) = [rows EXCEPT ![k] = after]
  BY DEF project, Kind
<1>2. <<b, d>> \in DOMAIN rows
  OBVIOUS
<1>3. k = <<b, d>> <=> b = m.branch /\ d = Day(Date[m.commit])
  OBVIOUS
<1>4. CASE k = <<b, d>>
  <2>1. project(rows, m, A)[<<b, d>>] = after
    BY <1>1, <1>2, <1>4
  <2> QED
    BY <1>3, <1>4, <2>1 DEF Follows
<1>5. CASE k # <<b, d>>
  <2>1. project(rows, m, A)[<<b, d>>] = rows[<<b, d>>]
    BY <1>1, <1>2, <1>5
  <2> QED
    BY <1>3, <1>5, <2>1 DEF Follows
<1> QED
  BY <1>4, <1>5

LEMMA RollsUpLands ==
  ASSUME NEW r \in Recording, NEW m \in Measurement, NEW L \in Seq(Record),
         NEW rows \in [Branch \X Days -> Rollup], RollsUp(L, rows),
         NEW A, A = <<>> \/ A = landing(L, records(r, m, L))
  PROVE  RollsUp(L \o A, project(rows, m, A))
<1> DEFINE e == entryOf(r, m, L)
<1>1. e \in Record /\ e.kind = "entry" /\ e.commit = m.commit /\ e.branch = m.branch
  BY EntryIs, EntryType DEF Record
<1>2. \/ A = <<>> \/ A = <<e>>
      \/ \E g \in Record : /\ g.kind = "gap" /\ g.commit = m.commit /\ g.branch = m.branch
                           /\ A = <<g>> \/ A = <<g, e>>
  <2>1. CASE A = landing(L, records(r, m, L))
    <3>1. \A g \in Gap : gapBefore(m, previous(L, m.branch, Date[m.commit])) = <<g>> =>
            g \in Record /\ g.kind = "gap" /\ g.commit = m.commit /\ g.branch = m.branch
      BY GapIs DEF Record
    <3> HIDE DEF e
    <3> QED
      BY <2>1, <3>1, WhatLands DEF e
  <2> QED
    BY <2>1
<1> HIDE DEF e
<1> SUFFICES ASSUME NEW b \in Branch, NEW d \in Days
             PROVE  RowAgrees(L \o A, project(rows, m, A)[<<b, d>>], b, d)
  BY DEF RollsUp
<1> DEFINE row == rows[<<b, d>>]
           next == project(rows, m, A)[<<b, d>>]
           here == b = m.branch /\ d = Day(Date[m.commit])
<1>3. RowAgrees(L, row, b, d) /\ row \in Rollup
  BY DEF RollsUp
<1>4. /\ row.entries \in Nat /\ row.gaps \in Nat
  BY <1>3 DEF Rollup
<1>5. /\ Cardinality({}) = 0 /\ \A x : Cardinality({x}) = 1
  BY FS_EmptySet, FS_Singleton
<1>6. ASSUME NEW x \in Record, x.commit = m.commit, x.branch = m.branch
      PROVE  \A kind : Counted(x, kind, b, d) = IF x.kind = kind /\ here THEN 1 ELSE 0
  BY <1>6 DEF Counted
<1>11. /\ here =>
            /\ next.entries = row.entries + Cardinality(Kind(A, "entry"))
            /\ next.gaps = row.gaps + Cardinality(Kind(A, "gap"))
            /\ next.commit = IF /\ Kind(A, "entry") # {}
                                /\ row.commit = NoCommit \/ Date[row.commit] <= Date[m.commit]
                             THEN m.commit ELSE row.commit
       /\ ~here => next = row
  <2>1. Follows(next, row, here, m, A)
    BY Projected
  <2> QED
    BY <2>1 DEF Follows
<1> HIDE DEF row, next, here
<1>7. CASE A = <<>>
  <2>1. L \o A = L
    BY <1>1, <1>7, ConcatOneAndTwo
  <2>2. \A kind : Kind(A, kind) = {}
    BY <1>7 DEF Kind
  <2>3. next.entries = row.entries /\ next.gaps = row.gaps /\ next.commit = row.commit
    BY <1>4, <1>5, <1>11, <2>2
  <2> QED
    BY <1>3, <2>1, <2>3 DEF RowAgrees, next
<1>8. CASE A = <<e>>
  <2>1. L \o A = Append(L, e)
    BY <1>1, <1>8, ConcatOneAndTwo, OneAndTwo
  <2>2. PICK g \in Record : g.kind = "gap"
    <3> DEFINE g == [kind |-> "gap", commit |-> m.commit, branch |-> m.branch,
                     from |-> m.commit, missing |-> 0]
    <3>1. g \in Gap
      BY DEF Gap, Measurement
    <3> QED
      BY <3>1 DEF Record
  <2>3. /\ Kind(A, "entry") = {1}
        /\ Kind(A, "gap") = {}
    BY <1>1, <1>8, <2>2, KindsOf DEF Kind
  <2>4. /\ here => /\ next.entries = row.entries + 1 /\ next.gaps = row.gaps + 0
                   /\ next.commit = IF row.commit = NoCommit \/ Date[row.commit] <= Date[m.commit]
                                    THEN m.commit ELSE row.commit
        /\ ~here => next = row
    BY <1>5, <1>11, <2>3
  <2>5. Counted(e, "entry", b, d) = (IF here THEN 1 ELSE 0) /\ Counted(e, "gap", b, d) = 0
    BY <1>1, <1>6 DEF here
  <2>6. /\ next.entries = row.entries + Counted(e, "entry", b, d)
        /\ next.gaps = row.gaps + Counted(e, "gap", b, d)
        /\ next.commit = IF /\ Counted(e, "entry", b, d) = 1
                            /\ row.commit = NoCommit \/ Date[row.commit] <= Date[e.commit]
                         THEN e.commit ELSE row.commit
    BY <1>1, <1>4, <2>4, <2>5
  <2> QED
    BY <1>1, <1>3, <2>1, <2>6, RowGrows DEF next
<1>9. ASSUME NEW g \in Record, g.kind = "gap", g.commit = m.commit, g.branch = m.branch, A = <<g>>
      PROVE  RowAgrees(L \o A, next, b, d)
  <2>1. L \o A = Append(L, g)
    BY <1>9, ConcatOneAndTwo, OneAndTwo
  <2>3. /\ Kind(A, "entry") = {}
        /\ Kind(A, "gap") = {1}
    BY <1>1, <1>9, KindsOf DEF Kind
  <2>4. /\ here => /\ next.entries = row.entries + 0 /\ next.gaps = row.gaps + 1
                   /\ next.commit = row.commit
        /\ ~here => next = row
    BY <1>5, <1>11, <2>3
  <2>5. Counted(g, "gap", b, d) = (IF here THEN 1 ELSE 0) /\ Counted(g, "entry", b, d) = 0
    BY <1>6, <1>9 DEF here
  <2>6. /\ next.entries = row.entries + Counted(g, "entry", b, d)
        /\ next.gaps = row.gaps + Counted(g, "gap", b, d)
        /\ next.commit = IF /\ Counted(g, "entry", b, d) = 1
                            /\ row.commit = NoCommit \/ Date[row.commit] <= Date[g.commit]
                         THEN g.commit ELSE row.commit
    BY <1>4, <2>4, <2>5
  <2> QED
    BY <1>3, <2>1, <2>6, RowGrows
<1>10. ASSUME NEW g \in Record, g.kind = "gap", g.commit = m.commit, g.branch = m.branch, A = <<g, e>>
       PROVE  RowAgrees(L \o A, next, b, d)
  <2>1. /\ L \o A = Append(Append(L, g), e)
        /\ Append(L, g) \in Seq(Record)
    BY <1>1, <1>10, ConcatOneAndTwo, OneAndTwo, Appending
  <2>3. /\ Kind(A, "entry") = {2}
        /\ Kind(A, "gap") = {1}
    BY <1>1, <1>10, KindsOf DEF Kind
  <2>4. /\ here => /\ next.entries = row.entries + 1 /\ next.gaps = row.gaps + 1
                   /\ next.commit = IF row.commit = NoCommit \/ Date[row.commit] <= Date[m.commit]
                                    THEN m.commit ELSE row.commit
        /\ ~here => next = row
    BY <1>5, <1>11, <2>3
  <2>5. Counted(g, "gap", b, d) = (IF here THEN 1 ELSE 0) /\ Counted(g, "entry", b, d) = 0
    BY <1>6, <1>10 DEF here
  <2>6. Counted(e, "entry", b, d) = (IF here THEN 1 ELSE 0) /\ Counted(e, "gap", b, d) = 0
    BY <1>1, <1>6 DEF here
  <2> DEFINE mid == [entries |-> row.entries, gaps |-> row.gaps + Counted(g, "gap", b, d),
                     commit |-> row.commit]
  <2>7. /\ mid.entries = row.entries + Counted(g, "entry", b, d)
        /\ mid.gaps = row.gaps + Counted(g, "gap", b, d)
        /\ mid.commit = IF /\ Counted(g, "entry", b, d) = 1
                           /\ row.commit = NoCommit \/ Date[row.commit] <= Date[g.commit]
                        THEN g.commit ELSE row.commit
    BY <1>4, <2>5
  <2>8. RowAgrees(Append(L, g), mid, b, d)
    <3> HIDE DEF mid
    <3> QED
      BY <1>3, <2>7, RowGrows
  <2>9. /\ next.entries = mid.entries + Counted(e, "entry", b, d)
        /\ next.gaps = mid.gaps + Counted(e, "gap", b, d)
        /\ next.commit = IF /\ Counted(e, "entry", b, d) = 1
                            /\ mid.commit = NoCommit \/ Date[mid.commit] <= Date[e.commit]
                         THEN e.commit ELSE mid.commit
    BY <1>1, <1>4, <2>4, <2>5, <2>6
  <2> HIDE DEF mid
  <2> QED
    BY <1>1, <2>1, <2>8, <2>9, RowGrows
<1> QED
  BY <1>2, <1>7, <1>8, <1>9, <1>10 DEF next

-------------------------------------------------------------------------------
(***************************************************************************)
(* What the branch's history holds of itself is inductive with what every  *)
(* staged worktree holds, since that is what lands.                        *)
(***************************************************************************)
Consistent(w) ==
    /\ Marked(w.ledger)
    /\ DatesDescend => Truthful(w.ledger)
    /\ Derived(w.ledger)
    /\ RollsUp(w.ledger, w.rollup)

HistoryInv ==
    /\ Consistent(branch)
    /\ \A r \in Recording : pc[r] = "staged" => Consistent(staging[r])

LEMMA EmptyIsConsistent == Consistent(Empty)
<1>1. Empty.ledger = <<>> /\ \A k \in Branch \X Days : Empty.rollup[k] = NoRow
  BY DEF Empty
<1>2. Marked(<<>>) /\ Truthful(<<>>) /\ Derived(<<>>)
  BY DEF Marked, Truthful, Derived
<1>3. RollsUp(<<>>, Empty.rollup)
  <2>1. \A kind, b, d : Of(<<>>, kind, b, d) = {}
    BY DEF Of
  <2>2. Cardinality({}) = 0
    BY FS_EmptySet
  <2>3. NoRow.entries = 0 /\ NoRow.gaps = 0 /\ NoRow.commit = NoCommit
    BY DEF NoRow
  <2>4. \A b \in Branch, d \in Days : Empty.rollup[<<b, d>>] = NoRow
    BY <1>1
  <2>5. \A b, d : RowAgrees(<<>>, NoRow, b, d)
    BY <2>1, <2>2, <2>3 DEF RowAgrees
  <2> QED
    BY <2>4, <2>5 DEF RollsUp
<1> QED
  BY <1>1, <1>2, <1>3 DEF Consistent

LEMMA StagedConsistent ==
  ASSUME plan \in Plans, NEW r \in Recording, NEW view \in Worktree, Consistent(view)
  PROVE  Consistent(stageRecording(r, view))
<1> DEFINE L == view.ledger
           m == plan[r].measured
           A == appends(r, view)
           w == stageRecording(r, view)
<1>1. L \in Seq(Record) /\ view.rollup \in [Branch \X Days -> Rollup] /\ m \in Measurement
  BY PlanType DEF Worktree
<1>2. w.ledger = L \o A /\ w.rollup = project(view.rollup, m, A)
  BY DEF stageRecording
<1>3. /\ Marked(L) /\ Derived(L) /\ RollsUp(L, view.rollup)
      /\ DatesDescend => Truthful(L)
  BY DEF Consistent
<1>4. A = <<>> \/ A = landing(L, records(r, m, L))
  BY DEF appends
<1> HIDE DEF w, A, L, m
<1>5. L \o <<>> = L
  BY <1>1
<1>6. Marked(L \o A)
  BY <1>1, <1>3, <1>4, <1>5, MarkedLands
<1>7. Derived(L \o A)
  BY <1>1, <1>3, <1>4, <1>5, DerivedLands DEF m
<1>8. RollsUp(L \o A, project(view.rollup, m, A))
  BY <1>1, <1>3, <1>4, RollsUpLands
<1>9. DatesDescend => Truthful(L \o A)
  BY <1>1, <1>3, <1>4, <1>5, TruthfulLands
<1> QED
  BY <1>2, <1>6, <1>7, <1>8, <1>9 DEF Consistent, w

LEMMA HistoryStep ==
  ASSUME TypeInv, HistoryInv, [Next]_vars
  PROVE  HistoryInv'
<1>1. ASSUME NEW w, Consistent(w), plan' = plan
      PROVE  /\ branch' = w => Consistent(branch)'
             /\ \A r \in Recording : staging'[r] = w => Consistent(staging[r])'
  BY <1>1 DEF Consistent, Derived, DerivedAt
<1>2. CASE UNCHANGED vars
  <2>1. plan' = plan /\ pc' = pc /\ staging' = staging /\ branch' = branch
    BY <1>2 DEF vars, jobs
  <2>2. Consistent(branch)'
    BY <1>1, <2>1 DEF HistoryInv
  <2>3. \A r \in Recording : pc'[r] = "staged" => Consistent(staging[r])'
    BY <1>1, <2>1 DEF HistoryInv
  <2> QED
    BY <2>2, <2>3 DEF HistoryInv
<1>3. ASSUME NEW r \in Recording, Apart(r), plan' = plan,
             Quiet \/ (FastForward(r) /\ Land(r)),
             pc'[r] = "staged" => Consistent(staging'[r])
      PROVE  HistoryInv'
  <2>1. Consistent(branch)'
    <3>1. branch' = branch \/ (branch' = staging[r] /\ pc[r] = "staged")
      BY <1>3 DEF Quiet, FastForward, Land
    <3> QED
      BY <1>1, <1>3, <3>1 DEF HistoryInv
  <2>2. ASSUME NEW s \in Recording, pc'[s] = "staged"
        PROVE  Consistent(staging[s])'
    <3>1. CASE s = r
      BY <1>1, <1>3, <2>2, <3>1
    <3>2. CASE s # r
      <4>1. pc[s] = "staged" /\ staging'[s] = staging[s]
        BY <1>3, <2>2, <3>2 DEF Apart
      <4> QED
        BY <1>1, <1>3, <4>1 DEF HistoryInv
    <3> QED
      BY <3>1, <3>2
  <2> QED
    BY <2>1, <2>2 DEF HistoryInv
<1>4. ASSUME NEW r \in Recording, NEW view \in Worktree, NEW at, Consistent(view),
             StageOn(r, view, at), pc'[r] = "staged"
      PROVE  Consistent(staging'[r])
  <2>1. staging'[r] = stageRecording(r, view)
    BY <1>4 DEF StageOn, TypeInv, TypeOK
  <2> QED
    BY <1>4, <2>1, StagedConsistent DEF TypeInv, TypeOK
<1>5. ASSUME NEW r \in Recording,
             Stage(r) \/ StageOrphan(r) \/ Push(r) \/ PushUnacknowledged(r)
               \/ PushRefused(r) \/ GitFails(r) \/ Kill(r),
             pc'[r] = "staged"
      PROVE  Consistent(staging'[r])
  <2> USE DEF TypeInv, TypeOK
  <2>1. CASE Stage(r)
    <3>1. StageOn(r, branch, version) /\ branch \in Worktree /\ Consistent(branch)
      BY <2>1 DEF Stage, HistoryInv
    <3> QED
      BY <1>4, <1>5, <3>1
  <2>2. CASE StageOrphan(r)
    <3>1. StageOn(r, Empty, 0)
      BY <2>2 DEF StageOrphan
    <3> QED
      BY <1>4, <1>5, <3>1, EmptyType, EmptyIsConsistent
  <2>3. CASE Push(r) \/ Kill(r)
    BY <1>5, <2>3 DEF Push, Kill
  <2>4. CASE PushUnacknowledged(r) \/ PushRefused(r) \/ GitFails(r)
    BY <1>5, <2>4 DEF PushUnacknowledged, PushRefused, GitFails, AttemptFailed
  <2> QED
    BY <1>5, <2>1, <2>2, <2>3, <2>4
<1> QED
  BY <1>2, <1>3, <1>5, StepShape DEF Next, Finished

LEMMA HistoryInductive == Spec => [](TypeInv /\ HistoryInv)
<1>1. Init => HistoryInv
  BY EmptyIsConsistent DEF Init, HistoryInv
<1>2. TypeInv /\ HistoryInv /\ [Next]_vars => HistoryInv'
  BY HistoryStep
<1> QED
  BY <1>1, <1>2, TypeInductive, PTL DEF Spec

(***************************************************************************)
(* In every reachable state each day's row counts the day's records and    *)
(* names the newest commit of the day, in whatever order they landed.      *)
(***************************************************************************)
THEOREM TheRollupAgrees == Spec => []RollupAgrees
<1>1. HistoryInv => RollupAgrees
  BY DEF HistoryInv, Consistent, RollsUp, RowAgrees, Of, RollupAgrees
<1> QED
  BY <1>1, HistoryInductive, PTL

(***************************************************************************)
(* In every reachable state the newest entry decides what is open in the   *)
(* buckets it measured and nothing of any other.                           *)
(***************************************************************************)
THEOREM TheOpenSetIsLastScan == Spec => []OpenSetIsLastScan
<1>1. TypeInv /\ HistoryInv => OpenSetIsLastScan
  <2> SUFFICES ASSUME TypeInv, HistoryInv PROVE OpenSetIsLastScan
    OBVIOUS
  <2>1. plan \in Plans /\ branch.ledger \in Seq(Record) /\ Derived(branch.ledger)
    BY DEF TypeInv, TypeOK, Worktree, HistoryInv, Consistent
  <2> DEFINE L == branch.ledger
  <2> HIDE DEF L
  <2>2. ASSUME NEW i \in DOMAIN L, IsNewest(L, i), Month(Date[L[i].commit] + 1) = Month(Date[L[i].commit])
        PROVE  open(L, L[i].branch, Date[L[i].commit] + 1) =
                 { c \in plan[L[i].scalars].measured.found : c[1] \in plan[L[i].scalars].measured.scope }
                   \cup { c \in open(SubSeq(L, 1, i - 1), L[i].branch, Date[L[i].commit] + 1) :
                            c[1] \notin plan[L[i].scalars].measured.scope }
    BY <2>1, <2>2, NewestDecides DEF L
  <2> QED
    BY <2>2 DEF OpenSetIsLastScan, IsNewest, L
<1> QED
  BY <1>1, HistoryInductive, PTL

(***************************************************************************)
(* Readers are told what the records say, in whatever order they landed.   *)
(***************************************************************************)
THEOREM ReadersDoAgree == Spec => []ReadersAgree
BY TheRollupAgrees, TheOpenSetIsLastScan, PTL DEF ReadersAgree

(***************************************************************************)
(* In every reachable state no entry follows a hole that is not marked,    *)
(* whatever the dates of the commits are.                                  *)
(***************************************************************************)
THEOREM HolesAreMarked == Spec => []EveryHoleIsMarked
<1>1. TypeInv /\ HistoryInv => EveryHoleIsMarked
  <2> SUFFICES ASSUME TypeInv, HistoryInv PROVE EveryHoleIsMarked
    OBVIOUS
  <2> DEFINE L == branch.ledger
  <2>1. L \in Seq(Record) /\ Marked(L)
    BY DEF TypeInv, TypeOK, Worktree, HistoryInv, Consistent
  <2> HIDE DEF L
  <2> SUFFICES ASSUME NEW i \in DOMAIN L, L[i].kind = "entry",
                      NEW older,
                      older = { j \in Walked(SubSeq(L, 1, i - 1), L[i].branch, Date[L[i].commit]) :
                                  Date[L[j].commit] <= Date[L[i].commit] },
                      older # {}
               PROVE  \/ \E j \in older : L[j].commit = Parent(L[i].commit)
                      \/ L[i-1].kind = "gap" /\ L[i-1].commit = L[i].commit
                                             /\ L[i-1].branch = L[i].branch
    BY DEF EveryHoleIsMarked, L
  <2>2. i - 1 \in 0..Len(L)
    BY <2>1
  <2>3. older = { j \in WalkedIn(L, i - 1, L[i].branch, Date[L[i].commit]) :
                    Date[L[j].commit] <= Date[L[i].commit] }
    BY <2>1, <2>2, WalkedOfPrefix
  <2>4. \A j \in DOMAIN L : j <= i - 1 <=> j \in 1..(i - 1)
    BY <2>1
  <2>5. \A j \in 1..(i - 1) : j \in DOMAIN L
    BY <2>1
  <2>6. older = Ahead(L, i)
    BY <2>3, <2>4, <2>5 DEF WalkedIn, Walked, Ahead
  <2> QED
    BY <2>1, <2>6 DEF Marked, HoleMarked
<1> QED
  BY <1>1, HistoryInductive, PTL

(***************************************************************************)
(* Where a commit is younger than those it descends from, no gap claims a  *)
(* commit that was there when it landed: the gaps are the holes, and no    *)
(* other commits.                                                          *)
(***************************************************************************)
THEOREM GapsAreHoles ==
  ASSUME DatesDescend
  PROVE  Spec => []GapsAreTheHoles
<1>1. HistoryInv => GapTrueWhenLanded
  BY DEF HistoryInv, Consistent, Truthful, GapTrue, GapTrueWhenLanded
<1> QED
  BY <1>1, HistoryInductive, HolesAreMarked, PTL DEF GapsAreTheHoles
===============================================================================
