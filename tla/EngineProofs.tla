----------------------------- MODULE EngineProofs -----------------------------
(***************************************************************************)
(* Theorems about the engines the commands run on: the scheduler, for      *)
(* every list of items and every limit; the flow engine, for every set of  *)
(* flows that build, every input and every stage's answers; the shard      *)
(* planner, for every declaration; and the matrix it plans, run and        *)
(* merged, for every answer of its components and whatever happens to its  *)
(* jobs.                                                                   *)
(***************************************************************************)
EXTENDS Scheduler, Flow, Matrix, FiniteSetTheorems, NaturalsInduction, WellFoundedInduction, TLAPS

(***************************************************************************)
(*                               The scheduler                             *)
(***************************************************************************)

(***************************************************************************)
(* A path overlaps itself, and overlap does not depend on the order.       *)
(***************************************************************************)
LEMMA OverlapIsReflexive ==
  ASSUME NEW p \in Path
  PROVE  dirsOverlap(p, p)
BY DEF dirsOverlap, contains, IsPrefix, Path

LEMMA OverlapIsSymmetric ==
  ASSUME NEW p, NEW q, dirsOverlap(p, q)
  PROVE  dirsOverlap(q, p)
BY DEF dirsOverlap

(***************************************************************************)
(* What an item occupies is a list of paths.                               *)
(***************************************************************************)
LEMMA OccupiedType ==
  ASSUME NEW it \in Item
  PROVE  /\ occupied(it) \in Seq(Path)
         /\ Paths(it) \subseteq Path
<1>1. occupied(it) \in Seq(Path)
  BY DEF occupied, Item
<1>2. QED
  BY <1>1 DEF Paths, ToSet

(***************************************************************************)
(* The bag of a list has the list's elements, each at least once.          *)
(***************************************************************************)
LEMMA BagOfList ==
  ASSUME NEW S, NEW s \in Seq(S)
  PROVE  /\ DOMAIN ToBag(s) = ToSet(s)
         /\ \A x \in ToSet(s) : ToBag(s)[x] \in Nat \ {0}
<1>1. DOMAIN ToBag(s) = ToSet(s)
  BY DEF ToBag, ToSet, Range
<1>2. ASSUME NEW x \in ToSet(s)
      PROVE  ToBag(s)[x] \in Nat \ {0}
  <2> DEFINE places == {i \in DOMAIN s : s[i] = x}
  <2>1. IsFiniteSet(1 .. Len(s))
    BY FS_Interval
  <2>2. places \in SUBSET (1 .. Len(s)) /\ places # {}
    BY DEF ToSet
  <2>3. IsFiniteSet(places)
    BY <2>1, <2>2, FS_Subset
  <2>4. Cardinality(places) \in Nat /\ Cardinality(places) # 0
    BY <2>2, <2>3, FS_CardinalityType, FS_EmptySet
  <2>5. ToBag(s)[x] = Cardinality(places)
    BY DEF ToBag, ToSet, Range
  <2>6. QED
    BY <2>4, <2>5
<1>3. QED
  BY <1>1, <1>2

-------------------------------------------------------------------------------
(***************************************************************************)
(* The inductive invariant.  That the held locks are those of the holders  *)
(* (LocksMatchHolders) is inductive only with the fact that no two holders *)
(* share anything: otherwise one item's release would take a lock away     *)
(* from another.  That fact in turn is what the test of free gives, read   *)
(* through the held locks.                                                 *)
(***************************************************************************)
Apart(a, b) ==
    /\ \A p \in Paths(a) : \A q \in Paths(b) : ~dirsOverlap(p, q)
    /\ a.ports \cap b.ports = {}

HoldersApart == \A i, j \in Holding : i # j => Apart(items[i], items[j])

IInv ==
    /\ TypeOK
    /\ HoldersApart
    /\ LocksMatchHolders
    /\ running <= limit

\* The list of a run is a sequence of items, so the sets over it are finite.
LEMMA ItemsType ==
  ASSUME TypeOK
  PROVE  /\ \A i \in DOMAIN items : items[i] \in Item
         /\ IsFiniteSet(DOMAIN items)
         /\ IsFiniteSet(Holding)
<1>1. items \in Seq(Item)
  BY DeclarationsAssumption DEF TypeOK
<1>2. DOMAIN items = 1 .. Len(items) /\ Len(items) \in Nat
  BY <1>1
<1>3. IsFiniteSet(DOMAIN items)
  BY <1>2, FS_Interval
<1>4. Holding \in SUBSET DOMAIN items
  BY DEF Holding
<1>5. QED
  BY <1>1, <1>2, <1>3, <1>4, FS_Subset

\* A holder's paths are in the held bag, and nothing is there without a count.
LEMMA HeldCounts ==
  ASSUME IInv
  PROVE  \A p \in DOMAIN heldDirs : heldDirs[p] \in Nat \ {0}
<1> SUFFICES ASSUME NEW p \in DOMAIN heldDirs PROVE heldDirs[p] \in Nat \ {0}
  OBVIOUS
<1>1. PICK i \in Holding : p \in Paths(items[i])
  BY DEF IInv, LocksMatchHolders
<1>2. items[i] \in Item
  BY ItemsType DEF IInv, Holding
<1>3. ToBag(occupied(items[i]))[p] \in Nat \ {0}
  BY <1>1, <1>2, OccupiedType, BagOfList DEF Paths
<1>4. QED
  BY <1>1, <1>3 DEF IInv, LocksMatchHolders

(***************************************************************************)
(* An item the loop may start shares nothing with any holder.              *)
(***************************************************************************)
LEMMA StartableIsApart ==
  ASSUME IInv, NEW i \in Startable, NEW j \in Holding
  PROVE  Apart(items[i], items[j]) /\ Apart(items[j], items[i])
<1>1. free(items[i]) /\ i \in DOMAIN items
  BY DEF Startable, Pending
<1>2. ASSUME NEW p \in Paths(items[i]), NEW q \in Paths(items[j])
      PROVE  ~dirsOverlap(p, q) /\ ~dirsOverlap(q, p)
  <2>1. q \in DOMAIN heldDirs
    BY DEF IInv, LocksMatchHolders
  <2>2. ~dirsOverlap(q, p)
    BY <1>1, <2>1 DEF free
  <2>3. QED
    BY <2>2, OverlapIsSymmetric
<1>3. items[i].ports \cap items[j].ports = {}
  BY <1>1 DEF free, IInv, LocksMatchHolders
<1>4. QED
  BY <1>2, <1>3 DEF Apart

-------------------------------------------------------------------------------
LEMMA InitInv == Init => IInv
<1> SUFFICES ASSUME Init PROVE IInv
  OBVIOUS
<1>1. limit \in Nat \ {0}
  BY LimitsAssumption DEF Init, atLeastOne
<1>2. Holding = {}
  BY DEF Init, Holding
<1>3. heldDirs = <<>> /\ DOMAIN heldDirs = {}
  BY DEF Init, EmptyBag, SetToBag
<1>4. TypeOK
  BY <1>1, <1>3 DEF Init, TypeOK
<1>5. LocksMatchHolders
  BY <1>2, <1>3, FS_EmptySet DEF Init, LocksMatchHolders
<1>6. QED
  BY <1>1, <1>2, <1>4, <1>5 DEF Init, IInv, HoldersApart

\* Taking the locks of an item that free let through.
LEMMA StartInv ==
  ASSUME IInv, NEW i \in DOMAIN items, Start(i)
  PROVE  IInv'
<1> DEFINE B == ToBag(occupied(items[i]))
<1>1. /\ i \in Startable /\ i \in Pending /\ st[i] = "pending"
      /\ running < limit
  BY DEF Start, Startable, Pending
<1>2. items[i] \in Item /\ IsFiniteSet(Holding)
  BY ItemsType DEF IInv
<1>3. Holding' = Holding \cup {i} /\ i \notin Holding
  BY <1>1 DEF Start, Holding, IInv, TypeOK
<1>4. /\ DOMAIN B = Paths(items[i])
      /\ \A p \in DOMAIN B : B[p] \in Nat \ {0}
      /\ Paths(items[i]) \subseteq Path
  BY <1>2, OccupiedType, BagOfList DEF Paths
<1>5. \A j \in Holding : Apart(items[i], items[j]) /\ Apart(items[j], items[i])
  BY <1>1, StartableIsApart
<1>6. DOMAIN heldDirs \cap DOMAIN B = {}
  <2> SUFFICES ASSUME NEW p \in DOMAIN heldDirs, p \in DOMAIN B PROVE FALSE
    OBVIOUS
  <2>1. PICK j \in Holding : p \in Paths(items[j])
    BY DEF IInv, LocksMatchHolders
  <2>2. dirsOverlap(p, p)
    BY <1>4, OverlapIsReflexive
  <2>3. QED
    BY <1>4, <1>5, <2>1, <2>2 DEF Apart
<1>7. /\ DOMAIN heldDirs' = DOMAIN heldDirs \cup DOMAIN B
      /\ \A p \in DOMAIN heldDirs : heldDirs'[p] = heldDirs[p]
      /\ \A p \in DOMAIN B : heldDirs'[p] = B[p]
  <2>1. heldDirs' = heldDirs (+) B
    BY DEF Start, hold
  <2> HIDE DEF B
  <2>2. QED
    BY <1>4, <1>6, <2>1, HeldCounts DEF (+)
<1>8. TypeOK'
  BY <1>2, <1>4, <1>7 DEF Start, IInv, TypeOK, Item
<1>9. HoldersApart'
  BY <1>3, <1>5 DEF Start, IInv, HoldersApart
<1>10. LocksMatchHolders'
  <2>1. heldPorts' = UNION { items'[j].ports : j \in Holding' }
    BY <1>3 DEF Start, IInv, LocksMatchHolders
  <2>2. DOMAIN heldDirs' = UNION { Paths(items'[j]) : j \in Holding' }
    BY <1>3, <1>4, <1>7 DEF Start, IInv, LocksMatchHolders
  <2>3. \A j \in Holding' : \A p \in Paths(items'[j]) : heldDirs'[p] = ToBag(occupied(items'[j]))[p]
    BY <1>3, <1>4, <1>7 DEF Start, IInv, LocksMatchHolders
  <2>4. running' = Cardinality(Holding')
    BY <1>2, <1>3, FS_AddElement DEF Start, IInv, LocksMatchHolders
  <2>5. QED
    BY <2>1, <2>2, <2>3, <2>4 DEF LocksMatchHolders
<1>11. QED
  BY <1>1, <1>8, <1>9, <1>10 DEF Start, IInv, TypeOK

\* Giving them back: nothing another holder has is among them.
LEMMA ReleaseInv ==
  ASSUME IInv, NEW i \in DOMAIN items, Release(i)
  PROVE  IInv'
<1> DEFINE B == ToBag(occupied(items[i]))
<1>1. items[i] \in Item /\ IsFiniteSet(Holding)
  BY ItemsType DEF IInv
<1>2. Holding' = Holding \ {i} /\ i \in Holding
  BY DEF Release, Holding, IInv, TypeOK
<1>3. DOMAIN B = Paths(items[i]) /\ Paths(items[i]) \subseteq Path
  BY <1>1, OccupiedType, BagOfList DEF Paths
<1>4. \A p \in DOMAIN heldDirs \cap DOMAIN B : heldDirs[p] = B[p]
  BY <1>2, <1>3 DEF IInv, LocksMatchHolders
<1>5. /\ DOMAIN heldDirs' = DOMAIN heldDirs \ DOMAIN B
      /\ \A p \in DOMAIN heldDirs' : heldDirs'[p] = heldDirs[p]
  <2>1. heldDirs' = heldDirs (-) B
    BY DEF Release, release
  <2> HIDE DEF B
  <2>2. QED
    BY <1>4, <2>1, HeldCounts DEF (-)
<1>6. ASSUME NEW j \in Holding', NEW p \in Paths(items[j])
      PROVE  p \notin DOMAIN B
  <2>1. items[j] \in Item /\ p \in Path
    BY <1>2, ItemsType, OccupiedType DEF IInv, Holding
  <2>2. dirsOverlap(p, p)
    BY <2>1, OverlapIsReflexive
  <2>3. Apart(items[j], items[i])
    BY <1>2 DEF IInv, HoldersApart
  <2>4. QED
    BY <1>3, <2>2, <2>3 DEF Apart
<1>7. running' = Cardinality(Holding') /\ running' \in Nat
  <2>1. Cardinality(Holding') = Cardinality(Holding) - 1 /\ IsFiniteSet(Holding')
    BY <1>1, <1>2, FS_RemoveElement
  <2>2. QED
    BY <2>1, FS_CardinalityType DEF Release, IInv, LocksMatchHolders
<1>8. TypeOK'
  BY <1>5, <1>7 DEF Release, broadcast, IInv, TypeOK
<1>9. HoldersApart'
  BY <1>2 DEF Release, IInv, HoldersApart
<1>10. LocksMatchHolders'
  <2>1. heldPorts' = UNION { items'[j].ports : j \in Holding' }
    <3>1. \A j \in Holding' : items[j].ports \cap items[i].ports = {}
      BY <1>2 DEF IInv, HoldersApart, Apart
    <3>2. heldPorts' = heldPorts \ items[i].ports /\ items' = items
      BY DEF Release
    <3>3. QED
      BY <1>2, <3>1, <3>2 DEF IInv, LocksMatchHolders
  <2>2. DOMAIN heldDirs' = UNION { Paths(items'[j]) : j \in Holding' }
    BY <1>2, <1>3, <1>5, <1>6 DEF Release, IInv, LocksMatchHolders
  <2>3. \A j \in Holding' : \A p \in Paths(items'[j]) : heldDirs'[p] = ToBag(occupied(items'[j]))[p]
    <3>1. items' = items
      BY DEF Release
    <3>2. ASSUME NEW j \in Holding', NEW p \in Paths(items[j])
          PROVE  heldDirs'[p] = ToBag(occupied(items[j]))[p]
      <4>1. p \in DOMAIN heldDirs'
        BY <2>2, <3>1
      <4>2. heldDirs[p] = ToBag(occupied(items[j]))[p]
        BY <1>2 DEF IInv, LocksMatchHolders
      <4>3. QED
        BY <1>5, <4>1, <4>2
    <3>3. QED
      BY <3>1, <3>2
  <2>4. QED
    BY <1>7, <2>1, <2>2, <2>3 DEF LocksMatchHolders
<1>11. QED
  BY <1>7, <1>8, <1>9, <1>10 DEF Release, IInv, TypeOK

\* Every other step leaves the locks alone.
LEMMA OtherInv ==
  ASSUME IInv,
         \/ Park \/ Wake \/ Return \/ Cancel \/ Finished
         \/ (\E i \in DOMAIN items : Finish(i))
         \/ UNCHANGED vars
  PROVE  IInv'
<1>1. CASE Park \/ Wake \/ Return \/ Cancel \/ Finished \/ UNCHANGED vars
  BY <1>1 DEF Park, Wake, Return, Cancel, Finished, vars, IInv, TypeOK, HoldersApart,
              LocksMatchHolders, Holding
<1>2. ASSUME NEW i \in DOMAIN items, Finish(i)
      PROVE  IInv'
  <2>1. Holding' = Holding
    BY <1>2 DEF Finish, Holding, IInv, TypeOK
  <2>2. TypeOK'
    BY <1>2 DEF Finish, IInv, TypeOK
  <2>3. QED
    BY <1>2, <2>1, <2>2 DEF Finish, IInv, HoldersApart, LocksMatchHolders
<1>3. QED
  BY <1>1, <1>2

LEMMA NextInv == IInv /\ [Next]_vars => IInv'
BY StartInv, ReleaseInv, OtherInv DEF Next, Loop

(***************************************************************************)
(* The variables keep their types and the held locks are exactly the locks *)
(* of the items that started and have not released, in every reachable     *)
(* state of every run.                                                     *)
(***************************************************************************)
THEOREM TypeCorrect == Spec => []TypeOK
<1>1. IInv => TypeOK
  BY DEF IInv
<1>2. QED
  BY InitInv, NextInv, <1>1, PTL DEF Spec

THEOREM LocksExact == Spec => []LocksMatchHolders
<1>1. IInv => LocksMatchHolders
  BY DEF IInv
<1>2. QED
  BY InitInv, NextInv, <1>1, PTL DEF Spec

(***************************************************************************)
(* No two items that hold a lock, from before the caller's function is     *)
(* entered until after the goroutine's deferred release, share a tree or a *)
(* port, and they are never more than limit.                               *)
(***************************************************************************)
THEOREM HoldersExclude == Spec => [](HoldersApart /\ Cardinality(Holding) <= limit)
<1>1. IInv => HoldersApart /\ Cardinality(Holding) <= limit
  BY DEF IInv, LocksMatchHolders
<1>2. QED
  BY InitInv, NextInv, <1>1, PTL DEF Spec

-------------------------------------------------------------------------------
(***************************************************************************)
(* The scheduler implements BoundedExclusion.                              *)
(***************************************************************************)

\* A pair Conflicts names does share a tree or a port.
LEMMA ConflictIsNotApart ==
  ASSUME NEW i \in DOMAIN items, NEW j \in DOMAIN items, InConflict(i, j)
  PROVE  ~Apart(items[i], items[j]) \/ ~Apart(items[j], items[i])
<1>1. ASSUME NEW a \in DOMAIN items, NEW b \in DOMAIN items, <<a, b>> \in Pairs(Conflicts(items))
      PROVE  ~Apart(items[a], items[b])
  <2>1. InCommon(items[a], items[b]) # {}
    BY <1>1 DEF Pairs, Conflicts
  <2>2. sharedTrees(items[a], items[b]) # {} \/ shared(items[a], items[b]) # {}
    BY <2>1 DEF InCommon
  <2>3. CASE sharedTrees(items[a], items[b]) # {}
    <3>1. \E p \in Paths(items[a]) : \E q \in Paths(items[b]) : dirsOverlap(p, q)
      BY <2>3 DEF sharedTrees
    <3>2. QED
      BY <3>1 DEF Apart
  <2>4. CASE shared(items[a], items[b]) # {}
    BY <2>4 DEF shared, Apart
  <2>5. QED
    BY <2>2, <2>3, <2>4
<1>2. QED
  BY <1>1 DEF InConflict

LEMMA InitRefines == Init => Abstract!Init
<1> SUFFICES ASSUME Init PROVE Abstract!Init
  OBVIOUS
<1>1. items \in Seq(Item) /\ DOMAIN items = 1 .. Len(items) /\ Len(items) \in Nat
  BY DeclarationsAssumption DEF Init
<1>2. Pairs(Conflicts(items)) \subseteq (1 .. Len(items)) \X (1 .. Len(items))
  BY <1>1 DEF Pairs, Conflicts
<1>3. QED
  BY <1>1, <1>2, LimitsAssumption DEF Init, Abstract!Init, atLeastOne, Inside

\* The instance's Cardinality is the one of this module.
LEMMA SameCardinality ==
  ASSUME NEW S
  PROVE  Abstract!Cardinality(S) = Cardinality(S)
BY DEF Abstract!Cardinality, Cardinality

LEMMA StartRefines ==
  ASSUME IInv, NEW i \in DOMAIN items, Start(i)
  PROVE  Abstract!Enter(i)
<1> DEFINE Left == { j \in DOMAIN items : st[j] \in {"returned", "released"} }
<1>1. i \in Startable /\ st[i] = "pending" /\ running < limit
  BY DEF Start, Startable, Pending
<1>2. Inside \subseteq Holding /\ IsFiniteSet(Holding)
  BY ItemsType DEF IInv, Inside, Holding
<1>3. Cardinality(Inside) < limit
  <2>1. Cardinality(Inside) <= Cardinality(Holding) /\ Cardinality(Holding) = running
    BY <1>2, FS_Subset DEF IInv, LocksMatchHolders
  <2>2. Cardinality(Inside) \in Nat
    BY <1>2, FS_Subset, FS_CardinalityType
  <2>3. QED
    BY <1>1, <2>1, <2>2 DEF IInv, TypeOK
<1>4. \A j \in Inside : <<i, j>> \notin Pairs(Conflicts(items)) /\ <<j, i>> \notin Pairs(Conflicts(items))
  <2> SUFFICES ASSUME NEW j \in Inside PROVE ~InConflict(i, j)
    BY DEF InConflict
  <2>1. j \in Holding /\ j \in DOMAIN items
    BY <1>2 DEF Inside
  <2>2. QED
    BY <1>1, <2>1, StartableIsApart, ConflictIsNotApart
<1>5. i \notin Inside \cup Left
  BY <1>1 DEF Inside
<1>6. Inside' = Inside \cup {i} /\ Left' = Left
  BY <1>1 DEF Start, Inside, IInv, TypeOK
<1>7. QED
  BY <1>3, <1>4, <1>5, <1>6, SameCardinality DEF Abstract!Enter, Start

LEMMA FinishRefines ==
  ASSUME IInv, NEW i \in DOMAIN items, Finish(i)
  PROVE  Abstract!Leave(i)
BY DEF Finish, Abstract!Leave, Inside, IInv, TypeOK

LEMMA OtherRefines ==
  ASSUME IInv,
         \/ Park \/ Wake \/ Return \/ Cancel \/ Finished
         \/ (\E i \in DOMAIN items : Release(i))
         \/ UNCHANGED vars
  PROVE  UNCHANGED Abstract!vars
BY DEF Park, Wake, Return, Cancel, Finished, Release, vars, Abstract!vars, Inside, IInv, TypeOK

(***************************************************************************)
(* Whatever the interleaving of the loop, the releases and a cancellation, *)
(* what the caller can observe is bounded mutual exclusion: at most limit  *)
(* items inside its function, no two of them a pair Conflicts names, each  *)
(* entering and leaving at most once.                                      *)
(***************************************************************************)
THEOREM Refinement == Spec => ImplementsBoundedExclusion
<1>1. IInv /\ [Next]_vars => [Abstract!Next]_(Abstract!vars)
  <2>1. IInv => DOMAIN items = 1 .. Len(items)
    BY DeclarationsAssumption DEF IInv, TypeOK
  <2>2. QED
    BY <2>1, StartRefines, FinishRefines, OtherRefines DEF Next, Loop, Abstract!Next
<1>2. QED
  BY InitInv, NextInv, InitRefines, <1>1, PTL DEF Spec, ImplementsBoundedExclusion, Abstract!Spec

-------------------------------------------------------------------------------
(***************************************************************************)
(* Run cannot stop short: the comment in the loop says that with nothing   *)
(* running no lock is held, so the first pending item can start.  That is  *)
(* why a run that returns with items left was cancelled.                   *)
(***************************************************************************)
Returning ==
    /\ heldDirs = [p \in DOMAIN heldDirs |-> heldDirs[p]]
    /\ started = Cardinality(DOMAIN items \ Pending)
    /\ ReturnedClean

\* With nothing held every pending item is free.
LEMMA NothingHeldNothingBlocked ==
  ASSUME IInv, running = 0
  PROVE  /\ Holding = {} /\ heldPorts = {} /\ DOMAIN heldDirs = {}
         /\ \A i \in Pending : free(items[i])
<1>1. Holding = {}
  BY ItemsType, FS_EmptySet DEF IInv, LocksMatchHolders
<1>2. heldPorts = {} /\ DOMAIN heldDirs = {}
  BY <1>1 DEF IInv, LocksMatchHolders
<1>3. QED
  BY <1>1, <1>2 DEF free

LEMMA InitReturning == Init => Returning
<1> SUFFICES ASSUME Init PROVE Returning
  OBVIOUS
<1>1. DOMAIN items \ Pending = {}
  BY DEF Init, Pending
<1>2. heldDirs = [p \in DOMAIN heldDirs |-> heldDirs[p]]
  BY DEF Init, EmptyBag, SetToBag
<1>3. QED
  BY <1>1, <1>2, FS_EmptySet DEF Init, Returning, ReturnedClean

LEMMA StartReturning ==
  ASSUME IInv, Returning, NEW i \in DOMAIN items, Start(i)
  PROVE  Returning'
<1>1. i \in Pending
  BY DEF Start, Startable
<1>2. DOMAIN items' \ Pending' = (DOMAIN items \ Pending) \cup {i}
  BY <1>1 DEF Start, Pending, IInv, TypeOK
<1>3. IsFiniteSet(DOMAIN items \ Pending)
  BY ItemsType, FS_Subset DEF IInv
<1>4. started' = Cardinality(DOMAIN items' \ Pending')
  BY <1>1, <1>2, <1>3, FS_AddElement DEF Start, Returning
<1>5. heldDirs' = [p \in DOMAIN heldDirs' |-> heldDirs'[p]]
  BY DEF Start, hold, (+)
<1>6. QED
  BY <1>4, <1>5 DEF Start, Returning, ReturnedClean

LEMMA ReleaseReturning ==
  ASSUME IInv, Returning, NEW i \in DOMAIN items, Release(i)
  PROVE  Returning'
<1>1. Pending' = Pending
  BY DEF Release, Pending, IInv, TypeOK
<1>2. heldDirs' = [p \in DOMAIN heldDirs' |-> heldDirs'[p]]
  BY DEF Release, release, (-)
<1>3. QED
  BY <1>1, <1>2 DEF Release, broadcast, Returning, ReturnedClean

LEMMA FinishReturning ==
  ASSUME IInv, Returning, NEW i \in DOMAIN items, Finish(i)
  PROVE  Returning'
<1>1. Pending' = Pending /\ i \in Holding
  BY DEF Finish, Pending, Holding, IInv, TypeOK
<1>2. main # "returned"
  BY <1>1 DEF Returning, ReturnedClean
<1>3. QED
  BY <1>1, <1>2 DEF Finish, Returning, ReturnedClean

LEMMA ReturnReturning ==
  ASSUME IInv, Returning, Return
  PROVE  Returning'
<1>1. running = 0 /\ Startable = {}
  BY DEF Return
<1>2. Holding = {} /\ heldPorts = {} /\ DOMAIN heldDirs = {}
  BY <1>1, NothingHeldNothingBlocked
<1>3. heldDirs = EmptyBag
  BY <1>2 DEF Returning, EmptyBag, SetToBag
<1>4. started < Len(items) => cancelled
  <2> SUFFICES ASSUME ~cancelled PROVE ~(started < Len(items))
    OBVIOUS
  <2>1. Startable = { i \in Pending : free(items[i]) }
    BY <1>1 DEF Startable, IInv, TypeOK
  <2>2. DOMAIN items \ Pending = DOMAIN items
    BY <1>1, <2>1, NothingHeldNothingBlocked
  <2>3. DOMAIN items = 1 .. Len(items) /\ Len(items) \in Nat
    BY DeclarationsAssumption DEF IInv, TypeOK
  <2>4. Cardinality(1 .. Len(items)) = Len(items)
    <3>1. Cardinality(1 .. Len(items)) = IF 1 > Len(items) THEN 0 ELSE Len(items) - 1 + 1
      BY <2>3, FS_Interval
    <3>2. QED
      BY <2>3, <3>1
  <2>5. started = Len(items)
    BY <2>2, <2>3, <2>4 DEF Returning
  <2>6. QED
    BY <2>3, <2>5
<1>5. UNCHANGED <<items, st, heldPorts, heldDirs, started, cancelled>>
  BY DEF Return
<1>6. Holding' = Holding /\ Pending' = Pending
  BY <1>5 DEF Holding, Pending
<1>7. QED
  BY <1>2, <1>3, <1>4, <1>5, <1>6 DEF Returning, ReturnedClean

LEMMA OtherReturning ==
  ASSUME Returning, Park \/ Wake \/ Cancel \/ Finished \/ UNCHANGED vars
  PROVE  Returning'
BY DEF Park, Wake, Cancel, Finished, vars, Returning, ReturnedClean, Holding, Pending

(***************************************************************************)
(* A run that returns has abandoned nothing: no item is inside, no lock is *)
(* held, and an item was left out only if the run was cancelled.           *)
(***************************************************************************)
THEOREM ReturnIsClean == Spec => []ReturnedClean
<1>1. IInv /\ Returning /\ [Next]_vars => Returning'
  BY StartReturning, ReleaseReturning, FinishReturning, ReturnReturning, OtherReturning
     DEF Next, Loop
<1>2. Returning => ReturnedClean
  BY DEF Returning
<1>3. QED
  BY InitInv, NextInv, InitReturning, <1>1, <1>2, PTL DEF Spec
-------------------------------------------------------------------------------
(***************************************************************************)
(*                             The flow engine                             *)
(***************************************************************************)

(***************************************************************************)
(* A set of naturals has a smallest element.                               *)
(***************************************************************************)
LessThan == { ss \in Nat \X Nat : ss[1] < ss[2] }

LEMMA FirstOf ==
  ASSUME NEW T \in SUBSET Nat, T # {}
  PROVE  \E x \in T : \A y \in T : ~(y < x)
<1>1. IsWellFoundedOn(LessThan, Nat)
  BY NatLessThanWellFounded DEF OpToRel, LessThan
<1>2. PICK x \in T : \A y \in T : <<y, x>> \notin LessThan
  BY <1>1, WFMin
<1>3. ASSUME NEW y \in T
      PROVE  ~(y < x)
  <2>1. x \in Nat /\ y \in Nat
    OBVIOUS
  <2>2. y < x => <<y, x>> \in LessThan
    BY <2>1 DEF LessThan
  <2>3. QED
    BY <1>2, <2>2
<1>4. QED
  BY <1>3

(***************************************************************************)
(* A flow that builds is a sequence, no two of its stages share a name, and *)
(* none is called as the inputs are.                                       *)
(***************************************************************************)
LEMMA Shape ==
  ASSUME NEW n \in DOMAIN Flows
  PROVE  /\ Len(Flows[n]) \in Nat
         /\ DOMAIN Flows[n] = 1..Len(Flows[n])
         /\ \A i, j \in DOMAIN Flows[n] :
              Flows[n][i].name = Flows[n][j].name => i = j
         /\ \A i \in DOMAIN Flows[n] :
              /\ Len(Flows[n][i].conds) \in Nat
              /\ DOMAIN Flows[n][i].conds = 1..Len(Flows[n][i].conds)
<1> DEFINE f == Flows[n]
<1>1. Len(f) \in Nat /\ f = [i \in 1..Len(f) |-> f[i]] /\ Builds(f)
  BY FlowAssumption DEF FlowAssumption
<1>2. DOMAIN f = 1..Len(f)
  BY <1>1
<1>3. ASSUME NEW i \in DOMAIN f, NEW j \in DOMAIN f, f[i].name = f[j].name
      PROVE  i = j
  <2>1. i \in Nat /\ j \in Nat /\ i >= 1 /\ j >= 1
    BY <1>1, <1>2
  <2>2. ~DeclaredBefore(f, i, f[i].name) /\ ~DeclaredBefore(f, j, f[j].name)
    BY <1>1 DEF Builds, Compiles
  <2>3. CASE i < j
    BY <2>1, <2>2, <2>3, <1>3 DEF DeclaredBefore
  <2>4. CASE j < i
    BY <2>1, <2>2, <2>4, <1>3 DEF DeclaredBefore
  <2>5. QED
    BY <2>1, <2>3, <2>4
<1>4. ASSUME NEW i \in DOMAIN f
      PROVE  Len(f[i].conds) \in Nat /\ DOMAIN f[i].conds = 1..Len(f[i].conds)
  <2>1. /\ Len(f[i].conds) \in Nat
        /\ f[i].conds = [k \in 1..Len(f[i].conds) |-> f[i].conds[k]]
    BY FlowAssumption DEF FlowAssumption
  <2>2. QED
    BY <2>1
<1>5. QED
  BY <1>1, <1>2, <1>3, <1>4

(***************************************************************************)
(* The stage whose turn it is belongs to the flow that runs.               *)
(***************************************************************************)
LEMMA CurrentStage ==
  ASSUME FlowTypeOK, AtStage
  PROVE  /\ Flows[flow][at] = Current
         /\ Current.name \in Names(Flows[flow])
         /\ Current.policy \in Policy
         /\ at + 1 \in 1..(Len(Flows[flow]) + 1)
         /\ at \in Nat
<1>1. flow \in DOMAIN Flows /\ at \in DOMAIN Flows[flow]
  BY DEF FlowTypeOK, AtStage
<1>2. Builds(Flows[flow])
  BY <1>1, FlowAssumption DEF FlowAssumption
<1>3. at \in 1..Len(Flows[flow]) /\ Len(Flows[flow]) \in Nat
  BY <1>1, Shape
<1>4. Compiles(Flows[flow], at)
  BY <1>1, <1>2 DEF Builds
<1>5. Current.policy \in Policy
  BY <1>4 DEF Compiles, Current
<1>6. Current.name \in Names(Flows[flow])
  BY <1>1 DEF Current, Names
<1>7. QED
  BY <1>3, <1>5, <1>6 DEF Current

-----------------------------------------------------------------------------
(***************************************************************************)
(* Every variable keeps its type: a run never leaves the stages of its own  *)
(* flow and marks no stage of another.                                     *)
(***************************************************************************)
LEMMA TypeStart ==
  ASSUME NEW n \in DOMAIN Flows, NEW in \in Given[n], Begin(n, in)
  PROVE  FlowTypeOK'
<1>1. 1 \in 1..(Len(Flows[n]) + 1)
  BY Shape
<1>2. flow' = n /\ given' = in /\ at' = 1
  BY DEF Begin
<1>3. status' \in [Names(Flows[n]) -> Status] /\ DOMAIN output' = Names(Flows[n])
  BY DEF Begin, Status
<1>4. recorded' = {} /\ ended' = "running" /\ done' = FALSE
  BY DEF Begin
<1>5. QED
  BY <1>1, <1>2, <1>3, <1>4 DEF FlowTypeOK

LEMMA TypeStep ==
  ASSUME FlowTypeOK, [FlowNext]_flowVars
  PROVE  FlowTypeOK'
<1>1. CASE Stop
  BY <1>1 DEF Stop, FlowTypeOK
<1>2. CASE Skip
  BY <1>2, CurrentStage DEF Skip, FlowTypeOK, Status, Skipped
<1>3. CASE Succeed
  <2>1. at' \in 1..(Len(Flows[flow]) + 1)
    BY <1>3, CurrentStage DEF Succeed
  <2>2. status' \in [Names(Flows[flow]) -> Status]
    BY <1>3, CurrentStage DEF Succeed, FlowTypeOK, Status, Succeeded
  <2>3. DOMAIN output' = Names(Flows[flow])
    BY <1>3 DEF Succeed, FlowTypeOK
  <2>4. QED
    BY <1>3, <2>1, <2>2, <2>3 DEF Succeed, FlowTypeOK
<1>4. CASE Fail
  <2>1. at' \in 1..(Len(Flows[flow]) + 1)
    BY <1>4, CurrentStage DEF Fail, FlowTypeOK
  <2>2. status' \in [Names(Flows[flow]) -> Status]
    BY <1>4, CurrentStage DEF Fail, FlowTypeOK, Status, Failed
  <2>3. recorded' \subseteq Names(Flows[flow])
    BY <1>4, CurrentStage DEF Fail, FlowTypeOK
  <2>4. QED
    BY <1>4, <2>1, <2>2, <2>3 DEF Fail, FlowTypeOK, Running
<1>5. CASE ReturnResult
  BY <1>5 DEF ReturnResult, FlowTypeOK
<1>6. CASE Interrupt
  BY <1>6 DEF Interrupt, FlowTypeOK
<1>7. CASE \E n \in DOMAIN Flows : \E in \in Given[n] : Begin(n, in)
  BY <1>7, TypeStart
<1>8. CASE UNCHANGED flowVars
  BY <1>8 DEF flowVars, FlowTypeOK
<1>9. QED
  BY <1>1, <1>2, <1>3, <1>4, <1>5, <1>6, <1>7, <1>8 DEF FlowNext, FlowStep

THEOREM FlowsTypeCorrect == FlowSpec => []FlowTypeOK
<1>1. FlowInit => FlowTypeOK
  <2> SUFFICES ASSUME FlowInit PROVE FlowTypeOK
    OBVIOUS
  <2>1. flow \in DOMAIN Flows /\ given \in Given[flow] /\ at = 1
    BY DEF FlowInit
  <2>2. at \in 1..(Len(Flows[flow]) + 1)
    BY <2>1, Shape
  <2>3. status \in [Names(Flows[flow]) -> Status] /\ DOMAIN output = Names(Flows[flow])
    BY DEF FlowInit, Status
  <2>4. recorded = {} /\ ended = "running" /\ done = FALSE
    BY DEF FlowInit
  <2>5. QED
    BY <2>1, <2>2, <2>3, <2>4 DEF FlowTypeOK
<1>2. FlowTypeOK /\ [FlowNext]_flowVars => FlowTypeOK'
  BY TypeStep
<1>3. QED
  BY <1>1, <1>2, PTL DEF FlowSpec
-----------------------------------------------------------------------------
(***************************************************************************)
(* The inductive invariant.  What has been passed over was reached; a       *)
(* failure among it was one the flow goes on after; and what was skipped    *)
(* had a condition that could be read and did not hold, and still can.      *)
(***************************************************************************)
HeldBack(s) ==
    \E k \in DOMAIN s.conds : Readable(s.conds[k].src) /\ ~Met(s.conds[k])

Passed(s) ==
    /\ status[s.name] # NotReached
    /\ status[s.name] = Failed => s.policy # FailFlow
    /\ status[s.name] = Skipped => HeldBack(s)

Settled ==
    \A j \in DOMAIN Flows[flow] :
      /\ j < at => Passed(Flows[flow][j])
      /\ ~(j < at) => status[Flows[flow][j].name] = NotReached \/ ended = "failed"

RecordedFailed == \A s \in recorded : status[s] = Failed

FlowInv == Settled /\ RecordedFailed

(***************************************************************************)
(* A stage a condition reads is one of the flow's.                         *)
(***************************************************************************)
LEMMA SourceDeclared ==
  ASSUME NEW n \in DOMAIN Flows, NEW j \in DOMAIN Flows[n],
         NEW k \in DOMAIN Flows[n][j].conds,
         Flows[n][j].conds[k].src[1] # Input
  PROVE  Flows[n][j].conds[k].src[1] \in Names(Flows[n])
<1>1. Compiles(Flows[n], j)
  BY FlowAssumption DEF FlowAssumption, Builds
<1>2. \E i \in 1..(j - 1) : Flows[n][i].name = Flows[n][j].conds[k].src[1]
  BY <1>1 DEF Compiles
<1>3. PICK i \in 1..(j - 1) : Flows[n][i].name = Flows[n][j].conds[k].src[1]
  BY <1>2
<1>4. i \in DOMAIN Flows[n]
  BY Shape
<1>5. QED
  BY <1>3, <1>4 DEF Names

(***************************************************************************)
(* A stage's turn disturbs no other: what was readable stays so, with the   *)
(* value it had.                                                           *)
(***************************************************************************)
LEMMA TurnKeepsThePast ==
  ASSUME FlowTypeOK, FlowInv, AtStage, ended = "running",
         flow' = flow, given' = given,
         NEW reached \in Status, status' = [status EXCEPT ![Current.name] = reached],
         \A s \in DOMAIN output : s # Current.name => output'[s] = output[s],
         NEW j \in DOMAIN Flows[flow], j < at
  PROVE  Passed(Flows[flow][j])'
<1> DEFINE s == Flows[flow][j]
<1>1. flow \in DOMAIN Flows /\ at \in DOMAIN Flows[flow] /\ at \in Nat /\ j \in Nat
  BY Shape, CurrentStage DEF FlowTypeOK, AtStage
<1>2. s.name # Current.name /\ s.name \in Names(Flows[flow])
  BY <1>1, Shape DEF Current, Names
<1>3. status[Current.name] = NotReached
  BY <1>1 DEF FlowInv, Settled, Current
<1>4. Passed(s)
  BY DEF FlowInv, Settled
<1>5. status'[s.name] = status[s.name]
  BY <1>2 DEF FlowTypeOK
<1>6. HeldBack(s) => HeldBack(s)'
  <2> SUFFICES ASSUME HeldBack(s) PROVE HeldBack(s)'
    OBVIOUS
  <2>1. PICK k \in DOMAIN s.conds : Readable(s.conds[k].src) /\ ~Met(s.conds[k])
    BY DEF HeldBack
  <2> DEFINE src == s.conds[k].src
  <2>2. CASE src[1] = Input
    <3>1. Readable(src)' /\ Value(src)' = Value(src)
      BY <2>2 DEF Readable, Value
    <3>2. QED
      BY <2>1, <3>1 DEF Met, HeldBack
  <2>3. CASE src[1] # Input
    <3>1. status[src[1]] = Succeeded
      BY <2>1, <2>3 DEF Readable
    <3>2. src[1] # Current.name
      BY <3>1, <1>3 DEF Succeeded, NotReached
    <3>3. src[1] \in Names(Flows[flow])
      BY <2>3, SourceDeclared DEF FlowTypeOK
    <3>4. status'[src[1]] = Succeeded /\ output'[src[1]] = output[src[1]]
      BY <3>1, <3>2, <3>3 DEF FlowTypeOK
    <3>5. Readable(src)' /\ Value(src)' = Value(src)
      BY <2>3, <3>4 DEF Readable, Value
    <3>6. QED
      BY <2>1, <3>5 DEF Met, HeldBack
  <2>4. QED
    BY <2>2, <2>3
<1>7. QED
  BY <1>4, <1>5, <1>6 DEF Passed

(***************************************************************************)
(* A turn that ends with the stage passed keeps the invariant.             *)
(***************************************************************************)
LEMMA TurnKeepsSettled ==
  ASSUME FlowTypeOK, FlowInv, AtStage, ended = "running",
         flow' = flow, given' = given, at' = at + 1, ended' = ended,
         NEW reached \in Status, status' = [status EXCEPT ![Current.name] = reached],
         \A s \in DOMAIN output : s # Current.name => output'[s] = output[s],
         NEW i \in DOMAIN Flows[flow], i = at, Passed(Flows[flow][i])'
  PROVE  Settled'
<1>1. flow \in DOMAIN Flows /\ at \in DOMAIN Flows[flow] /\ at \in Nat
  BY CurrentStage DEF FlowTypeOK, AtStage
<1>2. ASSUME NEW j \in DOMAIN Flows[flow], j < at + 1
      PROVE  Passed(Flows[flow][j])'
  <2>1. CASE j < at
    BY <2>1, TurnKeepsThePast
  <2>2. CASE ~(j < at)
    <3>1. j = i
      BY <1>1, <1>2, <2>2, Shape
    <3>2. QED
      BY <3>1
  <2>3. QED
    BY <2>1, <2>2
<1>3. ASSUME NEW j \in DOMAIN Flows[flow], ~(j < at + 1)
      PROVE  status'[Flows[flow][j].name] = NotReached
  <2>1. j \in Nat /\ j # at /\ ~(j < at)
    BY <1>1, <1>3, Shape
  <2>2. Flows[flow][j].name # Current.name /\ Flows[flow][j].name \in Names(Flows[flow])
    BY <1>1, <2>1, Shape DEF Current, Names
  <2>3. status[Flows[flow][j].name] = NotReached
    BY <2>1 DEF FlowInv, Settled
  <2>4. QED
    BY <2>2, <2>3 DEF FlowTypeOK
<1>4. QED
  BY <1>2, <1>3 DEF Settled

(***************************************************************************)
(* The recorded errors stay those of failed stages: the stage whose turn it *)
(* is has not been recorded.                                               *)
(***************************************************************************)
LEMMA TurnKeepsRecorded ==
  ASSUME FlowTypeOK, FlowInv, AtStage, ended = "running",
         NEW reached \in Status, status' = [status EXCEPT ![Current.name] = reached],
         recorded' = recorded \/ (reached = Failed /\ recorded' = recorded \cup {Current.name})
  PROVE  RecordedFailed'
<1>1. at \in DOMAIN Flows[flow] /\ at \in Nat
  BY CurrentStage DEF AtStage
<1>2. status[Current.name] = NotReached
  BY <1>1 DEF FlowInv, Settled, Current
<1>3. Current.name \notin recorded /\ Current.name \in DOMAIN status
  BY <1>2, CurrentStage DEF FlowInv, RecordedFailed, NotReached, Failed, FlowTypeOK
<1>4. recorded \subseteq DOMAIN status
  BY DEF FlowTypeOK
<1>5. QED
  BY <1>3, <1>4 DEF FlowInv, RecordedFailed

LEMMA InvStart ==
  ASSUME NEW n \in DOMAIN Flows, NEW in \in Given[n], Begin(n, in)
  PROVE  FlowInv'
<1>1. ASSUME NEW j \in DOMAIN Flows[n]
      PROVE  ~(j < 1) /\ status'[Flows[n][j].name] = NotReached
  BY Shape DEF Begin, Names
<1>2. QED
  BY <1>1 DEF Begin, FlowInv, Settled, RecordedFailed

LEMMA InvStep ==
  ASSUME FlowTypeOK, FlowInv, [FlowNext]_flowVars
  PROVE  FlowInv'
<1>1. CASE Stop
  BY <1>1 DEF Stop, AtStage, Running, FlowInv, Settled, RecordedFailed, Passed, HeldBack,
              Readable, Met, Value
<1>2. CASE Skip
  <2>1. AtStage /\ ended = "running" /\ Skips(Current) /\ status' = [status EXCEPT ![Current.name] = Skipped]
    BY <1>2 DEF Skip, AtStage, Running
  <2>2. flow' = flow /\ given' = given /\ at' = at + 1 /\ ended' = ended /\ output' = output
    BY <1>2 DEF Skip
  <2>3. PICK i \in DOMAIN Flows[flow] : i = at
    BY <2>1 DEF AtStage
  <2>4. status'[Current.name] = Skipped /\ Flows[flow'][i] = Current
    BY <2>1, <2>2, <2>3, CurrentStage DEF FlowTypeOK
  <2>5. HeldBack(Flows[flow][i])'
    <3>1. PICK k \in DOMAIN Current.conds :
            Readable(Current.conds[k].src) /\ ~Met(Current.conds[k])
      BY <2>1 DEF Skips
    <3> DEFINE src == Flows[flow][i].conds[k].src
    <3>2. src = Current.conds[k].src
      BY <2>3 DEF Current
    <3>3. Readable(src)' /\ Value(src)' = Value(src)
      <4>1. CASE src[1] = Input
        BY <4>1, <2>2 DEF Readable, Value
      <4>2. CASE src[1] # Input
        <5>1. status[src[1]] = Succeeded
          BY <3>1, <3>2, <4>2 DEF Readable
        <5>2. status[Current.name] = NotReached
          BY <2>1, <2>3 DEF FlowInv, Settled, Current, FlowTypeOK
        <5>3. src[1] # Current.name
          BY <5>1, <5>2 DEF Succeeded, NotReached
        <5>4. src[1] \in Names(Flows[flow])
          BY <3>2, <2>3, <4>2, SourceDeclared DEF FlowTypeOK, Current
        <5>5. status'[src[1]] = Succeeded
          BY <2>1, <5>1, <5>3, <5>4 DEF FlowTypeOK
        <5>6. QED
          BY <4>2, <5>5, <2>2 DEF Readable, Value
      <4>3. QED
        BY <4>1, <4>2
    <3>4. QED
      BY <3>1, <3>2, <3>3, <2>2, <2>3 DEF HeldBack, Met, Current
  <2>6. Passed(Flows[flow][i])'
    BY <2>2, <2>4, <2>5 DEF Passed, Failed, Skipped, NotReached
  <2>7. Settled'
    BY <2>1, <2>2, <2>3, <2>6, TurnKeepsSettled DEF Status
  <2>8. RecordedFailed'
    BY <1>2, <2>1, TurnKeepsRecorded DEF Status, Skip
  <2>9. QED
    BY <2>7, <2>8 DEF FlowInv
<1>3. CASE Succeed
  <2>1. AtStage /\ ended = "running" /\ status' = [status EXCEPT ![Current.name] = Succeeded]
    BY <1>3 DEF Succeed, AtStage, Running
  <2>2. flow' = flow /\ given' = given /\ at' = at + 1 /\ ended' = ended /\ recorded' = recorded
    BY <1>3 DEF Succeed
  <2>3. \A s \in DOMAIN output : s # Current.name => output'[s] = output[s]
    BY <1>3 DEF Succeed
  <2>4. PICK i \in DOMAIN Flows[flow] : i = at
    BY <2>1 DEF AtStage
  <2>5. status'[Current.name] = Succeeded /\ Flows[flow'][i] = Current
    BY <2>1, <2>2, <2>4, CurrentStage DEF FlowTypeOK
  <2>6. Passed(Flows[flow][i])'
    BY <2>2, <2>5 DEF Passed, Succeeded, Failed, Skipped, NotReached
  <2>7. Settled'
    BY <1>3, <2>1, <2>2, <2>3, <2>4, <2>6, TurnKeepsSettled DEF Status, Succeed
  <2>8. RecordedFailed'
    BY <2>1, <2>2, TurnKeepsRecorded DEF Status
  <2>9. QED
    BY <2>7, <2>8 DEF FlowInv
<1>4. CASE Fail
  <2>1. /\ AtStage /\ ended = "running" /\ status' = [status EXCEPT ![Current.name] = Failed]
        /\ flow' = flow /\ given' = given /\ output' = output
        /\ recorded' = recorded \/ recorded' = recorded \cup {Current.name}
    BY <1>4 DEF Fail, AtStage, Running
  <2>2. RecordedFailed'
    BY <2>1, TurnKeepsRecorded DEF Status
  <2>3. CASE Current.policy = FailFlow
    <3>1. at' = at /\ ended' = "failed"
      BY <1>4, <2>3 DEF Fail, Stops
    <3>2. ASSUME NEW j \in DOMAIN Flows[flow], j < at
          PROVE  Passed(Flows[flow][j])'
      BY <2>1, <3>2, TurnKeepsThePast DEF Status
    <3>3. QED
      BY <2>1, <2>2, <3>1, <3>2 DEF FlowInv, Settled
  <2>4. CASE Current.policy # FailFlow
    <3>1. at' = at + 1 /\ ended' = ended
      BY <1>4, <2>4 DEF Fail, Stops
    <3>2. PICK i \in DOMAIN Flows[flow] : i = at
      BY <2>1 DEF AtStage
    <3>3. status'[Current.name] = Failed /\ Flows[flow'][i] = Current
      BY <2>1, <3>2, CurrentStage DEF FlowTypeOK
    <3>4. Passed(Flows[flow][i])'
      BY <2>1, <2>4, <3>3 DEF Passed, Failed, Skipped, NotReached
    <3>5. Settled'
      BY <2>1, <3>1, <3>2, <3>4, TurnKeepsSettled DEF Status
    <3>6. QED
      BY <2>2, <3>5 DEF FlowInv
  <2>5. QED
    BY <2>3, <2>4
<1>5. CASE ReturnResult
  BY <1>5 DEF ReturnResult, Running, FlowInv, Settled, RecordedFailed, Passed, HeldBack,
              Readable, Met, Value
<1>6. CASE Interrupt
  BY <1>6 DEF Interrupt, FlowInv, Settled, RecordedFailed, Passed, HeldBack,
              Readable, Met, Value
<1>7. CASE \E n \in DOMAIN Flows : \E in \in Given[n] : Begin(n, in)
  BY <1>7, InvStart
<1>8. CASE UNCHANGED flowVars
  BY <1>8 DEF flowVars, FlowInv, Settled, RecordedFailed, Passed, HeldBack,
              Readable, Met, Value
<1>9. QED
  BY <1>1, <1>2, <1>3, <1>4, <1>5, <1>6, <1>7, <1>8 DEF FlowNext, FlowStep

-----------------------------------------------------------------------------
(***************************************************************************)
(* A stage that failed under FailFlow ended its run there, and the errors   *)
(* the Result lists are all of stages that failed.                         *)
(***************************************************************************)
THEOREM FailuresStopTheRun == FlowSpec => []FailuresStop
<1>1. FlowInit => FlowInv
  <2> SUFFICES ASSUME FlowInit PROVE FlowInv
    OBVIOUS
  <2>1. ASSUME NEW j \in DOMAIN Flows[flow]
        PROVE  ~(j < at) /\ status[Flows[flow][j].name] = NotReached
    BY Shape DEF FlowInit, Names
  <2>2. recorded = {}
    BY DEF FlowInit
  <2>3. QED
    BY <2>1, <2>2 DEF FlowInv, Settled, RecordedFailed
<1>2. FlowTypeOK /\ FlowInv /\ [FlowNext]_flowVars => FlowInv'
  BY InvStep
<1>3. FlowInv => FailuresStop
  BY DEF FlowInv, Settled, RecordedFailed, FailuresStop, Passed, Failed, NotReached
<1>4. QED
  BY <1>1, <1>2, <1>3, FlowsTypeCorrect, PTL DEF FlowSpec

(***************************************************************************)
(* What a guarded reader asks of is there.  The source has succeeded, or    *)
(* was skipped for a condition the reader has found to hold.               *)
(***************************************************************************)
LEMMA SafeIsThere ==
  ASSUME FlowTypeOK, FlowInv, AtStage, ended = "running", NEW name,
         NEW wanted, SafeSource(Flows[flow], at, name, wanted),
         \A c \in wanted : Met(c)
  PROVE  status[name] = Succeeded
<1>1. PICK j \in 1..(at - 1) :
        /\ Flows[flow][j].name = name /\ Flows[flow][j].policy = FailFlow
        /\ Asked(Flows[flow][j], Len(Flows[flow][j].conds)) \subseteq wanted
  BY DEF SafeSource
<1>2. j \in DOMAIN Flows[flow] /\ j < at
  BY CurrentStage, Shape DEF FlowTypeOK, AtStage
<1>3. Passed(Flows[flow][j])
  BY <1>2 DEF FlowInv, Settled
<1>4. ~HeldBack(Flows[flow][j])
  <2>1. ASSUME NEW k \in DOMAIN Flows[flow][j].conds
        PROVE  Met(Flows[flow][j].conds[k])
    BY <1>1, <1>2, Shape DEF Asked, FlowTypeOK
  <2>2. QED
    BY <2>1 DEF HeldBack
<1>5. name \in Names(Flows[flow])
  BY <1>1, <1>2 DEF Names
<1>6. status[name] \in Status
  BY <1>5 DEF FlowTypeOK
<1>7. QED
  BY <1>1, <1>3, <1>4, <1>6 DEF Passed, Status

LEMMA GuardedReads ==
  ASSUME FlowTypeOK, FlowInv, AtStage, ended = "running", Guarded(Flows[flow])
  PROVE  ~Unavailable(Current)
<1> DEFINE s == Current
           Unmet == {k \in DOMAIN s.conds : ~Met(s.conds[k])}
<1>1. /\ flow \in DOMAIN Flows /\ at \in DOMAIN Flows[flow] /\ s = Flows[flow][at]
      /\ Len(s.conds) \in Nat /\ DOMAIN s.conds = 1..Len(s.conds)
  BY CurrentStage, Shape DEF FlowTypeOK, AtStage
<1>2. CASE Unmet = {}
  <2>1. \A c \in Asked(s, Len(s.conds)) : Met(c)
    BY <1>1, <1>2 DEF Asked
  <2>2. ASSUME NEW r \in s.reads
        PROVE  status[r] = Succeeded
    <3>1. SafeSource(Flows[flow], at, r, Asked(s, Len(s.conds)))
      BY <1>1 DEF Guarded
    <3>2. QED
      BY <2>1, <3>1, SafeIsThere
  <2>3. QED
    BY <1>2, <2>2 DEF Unavailable, Runs
<1>3. CASE Unmet # {}
  <2>1. Unmet \in SUBSET Nat
    BY <1>1
  <2>2. PICK k \in Unmet : \A j \in Unmet : ~(j < k)
    BY <1>3, <2>1, FirstOf
  <2>3. \A j \in 1..(k - 1) : j \in DOMAIN s.conds /\ Met(s.conds[j])
    BY <1>1, <2>2
  <2>4. Readable(s.conds[k].src)
    <3>1. CASE s.conds[k].src[1] = Input
      BY <3>1 DEF Readable
    <3>2. CASE s.conds[k].src[1] # Input
      <4>1. SafeSource(Flows[flow], at, s.conds[k].src[1], Asked(s, k - 1))
        BY <1>1, <2>2, <3>2 DEF Guarded
      <4>2. \A c \in Asked(s, k - 1) : Met(c)
        BY <2>3 DEF Asked
      <4>3. status[s.conds[k].src[1]] = Succeeded
        BY <4>1, <4>2, SafeIsThere
      <4>4. QED
        BY <3>2, <4>3 DEF Readable
    <3>3. QED
      BY <3>1, <3>2
  <2>5. QED
    BY <2>2, <2>3, <2>4 DEF Unavailable, Skips
<1>4. QED
  BY <1>2, <1>3

(***************************************************************************)
(* No run of guarded flows reads an output that is not there, whatever      *)
(* stages answer, are skipped, fail or are cut short.                      *)
(***************************************************************************)
THEOREM NeverReadUnguarded ==
  ASSUME \A n \in DOMAIN Flows : Guarded(Flows[n])
  PROVE  FlowSpec => []NeverMiswired
<1>1. FlowInit => FlowInv /\ NeverMiswired
  <2> SUFFICES ASSUME FlowInit PROVE FlowInv /\ NeverMiswired
    OBVIOUS
  <2>1. ASSUME NEW j \in DOMAIN Flows[flow]
        PROVE  ~(j < at) /\ status[Flows[flow][j].name] = NotReached
    BY Shape DEF FlowInit, Names
  <2>2. recorded = {} /\ ended = "running"
    BY DEF FlowInit
  <2>3. QED
    BY <2>1, <2>2 DEF FlowInv, Settled, RecordedFailed, NeverMiswired
<1>2. FlowTypeOK /\ FlowInv /\ NeverMiswired /\ [FlowNext]_flowVars
        => FlowInv' /\ NeverMiswired'
  <2> SUFFICES ASSUME FlowTypeOK, FlowInv, NeverMiswired, [FlowNext]_flowVars
               PROVE  NeverMiswired'
    BY InvStep
  <2>1. CASE Stop
    <3>1. AtStage /\ ended = "running" /\ Guarded(Flows[flow])
      BY <2>1 DEF Stop, AtStage, Running, FlowTypeOK
    <3>2. done
      BY <2>1, <3>1, GuardedReads DEF Stop
    <3>3. QED
      BY <2>1, <3>2 DEF Stop, NeverMiswired
  <2>2. CASE Skip \/ Succeed \/ Interrupt \/ UNCHANGED flowVars
    BY <2>2 DEF Skip, Succeed, Interrupt, flowVars, NeverMiswired
  <2>3. CASE Fail \/ ReturnResult
    BY <2>3 DEF Fail, ReturnResult, NeverMiswired
  <2>4. CASE \E n \in DOMAIN Flows : \E in \in Given[n] : Begin(n, in)
    BY <2>4 DEF Begin, NeverMiswired
  <2>5. QED
    BY <2>1, <2>2, <2>3, <2>4 DEF FlowNext, FlowStep
<1>3. QED
  BY <1>1, <1>2, FlowsTypeCorrect, PTL DEF FlowSpec
-------------------------------------------------------------------------------
(***************************************************************************)
(*                            The shard planner                            *)
(***************************************************************************)

(***************************************************************************)
(* Ascending lists a finite set of positions, each once and in order: a    *)
(* rank counts the members before it, so ranks keep the order, and as many *)
(* ranks as members are all taken.                                         *)
(***************************************************************************)
LEMMA AscendingLists ==
  ASSUME NEW S \in SUBSET Nat, IsFiniteSet(S)
  PROVE  /\ Cardinality(S) \in Nat
         /\ Ascending(S) \in [1 .. Cardinality(S) -> S]
         /\ ToSet(Ascending(S)) = S
         /\ \A m, n \in 1 .. Cardinality(S) : m < n => Ascending(S)[m] < Ascending(S)[n]
<1> DEFINE N == Cardinality(S)
           Before(i) == { j \in S : j < i }
           rank == [i \in S |-> Cardinality(Before(i))]
<1>1. N \in Nat
  BY FS_CardinalityType
<1>2. ASSUME NEW i \in S
      PROVE  IsFiniteSet(Before(i)) /\ rank[i] \in 0 .. (N - 1)
  <2>1. IsFiniteSet(S \ {i}) /\ Cardinality(S \ {i}) = N - 1
    BY FS_RemoveElement
  <2>2. Before(i) \in SUBSET (S \ {i})
    OBVIOUS
  <2>3. IsFiniteSet(Before(i)) /\ Cardinality(Before(i)) <= N - 1
    BY <2>1, <2>2, FS_Subset
  <2>4. Cardinality(Before(i)) \in Nat
    BY <2>3, FS_CardinalityType
  <2>5. QED
    BY <1>1, <2>3, <2>4
<1>3. ASSUME NEW i \in S, NEW k \in S, i < k
      PROVE  rank[i] < rank[k]
  <2>1. IsFiniteSet(Before(i) \cup {i}) /\ Cardinality(Before(i) \cup {i}) = rank[i] + 1
    BY <1>2, FS_AddElement
  <2>2. Before(i) \cup {i} \in SUBSET Before(k)
    <3>1. i \in Nat /\ k \in Nat /\ S \subseteq Nat
      OBVIOUS
    <3>2. \A j \in Before(i) : j \in S /\ j < k
      BY <1>3, <3>1
    <3>3. QED
      BY <1>3, <3>2
  <2>3. rank[i] + 1 <= rank[k]
    BY <1>2, <2>1, <2>2, FS_Subset
  <2>4. rank[i] \in Nat /\ rank[k] \in Nat
    BY <1>2
  <2>5. QED
    BY <2>3, <2>4
<1>4. ASSUME NEW i \in S, NEW k \in S, rank[i] = rank[k]
      PROVE  i = k
  <2>1. rank[i] \in Nat /\ rank[k] \in Nat
    BY <1>2
  <2>2. ~(rank[i] < rank[k]) /\ ~(rank[k] < rank[i])
    BY <1>4, <2>1
  <2>3. QED
    BY <1>3, <2>2
<1>5. rank \in Surjection(S, 0 .. (N - 1))
  <2>1. rank \in Injection(S, 0 .. (N - 1))
    BY <1>2, <1>4 DEF Injection, IsInjective
  <2>2. IsFiniteSet(0 .. (N - 1)) /\ Cardinality(0 .. (N - 1)) = N
    <3>1. 0 \in Int /\ N - 1 \in Int
      BY <1>1
    <3>2. IsFiniteSet(0 .. (N - 1))
          /\ Cardinality(0 .. (N - 1)) = IF 0 > N - 1 THEN 0 ELSE (N - 1) - 0 + 1
      BY <3>1, FS_Interval
    <3>3. QED
      BY <1>1, <3>2
  <2>3. QED
    BY <2>1, <2>2, FS_Injection
<1>6. ASSUME NEW n \in 1 .. N
      PROVE  Ascending(S)[n] \in S /\ rank[Ascending(S)[n]] = n - 1
  <2>1. n - 1 \in 0 .. (N - 1)
    BY <1>1
  <2>2. \E i \in S : rank[i] = n - 1
    BY <1>5, <2>1 DEF Surjection
  <2>3. \E i \in S : Cardinality(Before(i)) = n - 1
    BY <2>2
  <2>4. Ascending(S)[n] = CHOOSE i \in S : Cardinality(Before(i)) = n - 1
    BY DEF Ascending
  <2>5. QED
    BY <2>3, <2>4
<1>7. Ascending(S) \in [1 .. N -> S] /\ DOMAIN Ascending(S) = 1 .. N
  BY <1>6 DEF Ascending
<1>8. ASSUME NEW m \in 1 .. N, NEW n \in 1 .. N, m < n
      PROVE  Ascending(S)[m] < Ascending(S)[n]
  <2> DEFINE a == Ascending(S)[m]
             b == Ascending(S)[n]
  <2>1. a \in S /\ b \in S /\ rank[a] = m - 1 /\ rank[b] = n - 1
    BY <1>6
  <2>2. ~(rank[b] < rank[a]) /\ rank[a] # rank[b]
    BY <1>1, <1>8, <2>1
  <2>3. ~(b < a) /\ a # b
    BY <1>3, <2>1, <2>2
  <2>4. a \in Nat /\ b \in Nat
    BY <2>1
  <2>5. QED
    BY <2>3, <2>4
<1>9. ASSUME NEW i \in S
      PROVE  i \in ToSet(Ascending(S))
  <2>1. rank[i] \in 0 .. (N - 1)
    BY <1>2
  <2>2. rank[i] + 1 \in 1 .. N /\ (rank[i] + 1) - 1 = rank[i]
    BY <1>1, <2>1
  <2>3. Ascending(S)[rank[i] + 1] \in S /\ rank[Ascending(S)[rank[i] + 1]] = rank[i]
    BY <1>6, <2>2
  <2>4. Ascending(S)[rank[i] + 1] = i
    BY <1>4, <2>3
  <2>5. QED
    BY <1>7, <2>2, <2>4 DEF ToSet
<1>10. ToSet(Ascending(S)) \subseteq S
  BY <1>7 DEF ToSet
<1>11. QED
  BY <1>1, <1>7, <1>8, <1>9, <1>10

(***************************************************************************)
(* A forest in which nothing hangs under a later position, and what a walk *)
(* to the root finds in it.  There is such a walk from every position: from *)
(* the first without one, the walk would go on from an earlier position.   *)
(***************************************************************************)
Forest(n, p) ==
    /\ DOMAIN p = 1 .. n
    /\ \A i \in 1 .. n : p[i] \in 1 .. i

RootsIn(n, p, r) ==
    /\ DOMAIN r = 1 .. n
    /\ \A i \in 1 .. n : /\ r[i] = IF p[i] = i THEN i ELSE r[p[i]]
                         /\ r[i] \in 1 .. i
                         /\ p[r[i]] = r[i]

LEMMA WalksExist ==
  ASSUME NEW n \in Nat, NEW p, Forest(n, p)
  PROVE  \E f : f = [i \in DOMAIN p |-> IF p[i] = i THEN i ELSE f[p[i]]]
<1> DEFINE Walk(m, f) == f \in [1 .. m -> Nat] /\ \A i \in 1 .. m : f[i] = IF p[i] = i THEN i ELSE f[p[i]]
           Lost == { m \in Nat : m <= n /\ ~\E f : Walk(m, f) }
<1>1. ASSUME Lost # {}
      PROVE  FALSE
  <2>1. PICK m \in Lost : \A y \in Lost : ~(y < m)
    BY <1>1, FirstOf
  <2>2. m # 0
    <3>1. Walk(0, [i \in 1 .. 0 |-> 0])
      OBVIOUS
    <3>2. QED
      BY <2>1, <3>1
  <2>3. m \in Nat /\ m - 1 \in Nat /\ m - 1 < m /\ m <= n /\ m - 1 <= n
    BY <2>1, <2>2
  <2>4. PICK f : Walk(m - 1, f)
    BY <2>1, <2>3
  <2> DEFINE g == [i \in 1 .. m |-> IF i = m THEN (IF p[m] = m THEN m ELSE f[p[m]]) ELSE f[i]]
  <2>5. p[m] \in 1 .. m /\ \A i \in 1 .. (m - 1) : p[i] \in 1 .. i
    BY <2>2, <2>3 DEF Forest
  <2>6. Walk(m, g)
    <3>1. ASSUME NEW i \in 1 .. m, i # m
          PROVE  i \in 1 .. (m - 1) /\ g[i] = f[i] /\ g[i] \in Nat
      BY <2>3, <2>4, <3>1
    <3>2. g[m] \in Nat /\ g[m] = IF p[m] = m THEN m ELSE g[p[m]]
      BY <2>3, <2>4, <2>5
    <3>3. ASSUME NEW i \in 1 .. m, i # m
          PROVE  g[i] = IF p[i] = i THEN i ELSE g[p[i]]
      <4>1. i \in 1 .. (m - 1) /\ g[i] = f[i] /\ f[i] = IF p[i] = i THEN i ELSE f[p[i]]
        BY <2>4, <3>1, <3>3
      <4>2. p[i] \in 1 .. i /\ p[i] # m /\ p[i] \in 1 .. m
        BY <2>3, <2>5, <4>1
      <4>3. QED
        BY <4>1, <4>2
    <3>4. QED
      BY <3>1, <3>2, <3>3
  <2>7. QED
    BY <2>1, <2>6
<1>2. PICK f : Walk(n, f)
  BY <1>1
<1>3. f = [i \in DOMAIN p |-> IF p[i] = i THEN i ELSE f[p[i]]]
  BY <1>2 DEF Forest
<1>4. QED
  BY <1>3

LEMMA WalksEnd ==
  ASSUME NEW n \in Nat, NEW p, Forest(n, p),
         NEW r, r = [i \in DOMAIN p |-> IF p[i] = i THEN i ELSE r[p[i]]]
  PROVE  RootsIn(n, p, r)
<1>1. DOMAIN r = 1 .. n /\ \A i \in 1 .. n : r[i] = IF p[i] = i THEN i ELSE r[p[i]]
  BY DEF Forest
<1> DEFINE Astray == { i \in 1 .. n : ~(r[i] \in 1 .. i /\ p[r[i]] = r[i]) }
<1>2. ASSUME Astray # {}
      PROVE  FALSE
  <2>1. PICK i \in Astray : \A y \in Astray : ~(y < i)
    <3>1. Astray \in SUBSET Nat
      OBVIOUS
    <3>2. QED
      BY <1>2, <3>1, FirstOf
  <2>2. i \in 1 .. n /\ p[i] \in 1 .. i
    BY <2>1 DEF Forest
  <2>3. p[i] # i
    BY <1>1, <2>1, <2>2
  <2>4. p[i] \in 1 .. n /\ p[i] < i
    BY <2>2, <2>3
  <2>5. r[p[i]] \in 1 .. p[i] /\ p[r[p[i]]] = r[p[i]]
    BY <2>1, <2>4
  <2>6. r[i] = r[p[i]]
    BY <1>1, <2>2, <2>3
  <2>7. QED
    BY <2>1, <2>2, <2>4, <2>5, <2>6
<1>3. QED
  BY <1>1, <1>2 DEF RootsIn

\* What find is, in this state and in the next.
LEMMA FindIsAWalk ==
  ASSUME NEW n \in Nat
  PROVE  /\ Forest(n, parent) => RootsIn(n, parent, find)
         /\ Forest(n, parent') => RootsIn(n, parent', find')
<1>1. ASSUME Forest(n, parent)
      PROVE  find = [i \in DOMAIN parent |-> IF parent[i] = i THEN i ELSE find[parent[i]]]
  BY <1>1, WalksExist DEF find
<1>2. ASSUME Forest(n, parent')
      PROVE  find' = [i \in DOMAIN parent' |-> IF parent'[i] = i THEN i ELSE find'[parent'[i]]]
  BY <1>2, WalksExist DEF find
<1>3. QED
  BY <1>1, <1>2, WalksEnd

(***************************************************************************)
(* What joining two roots does to every walk: those that ended in either   *)
(* end in the earlier, and no other moves.                                 *)
(***************************************************************************)
LEMMA JoiningMerges ==
  ASSUME NEW n \in Nat, NEW p, Forest(n, p), NEW r, RootsIn(n, p, r),
         NEW x \in 1 .. n, NEW y \in 1 .. n, p[x] = x, p[y] = y, x <= y,
         NEW q, q = [i \in 1 .. n |-> IF i \in {x, y} THEN x ELSE p[i]]
  PROVE  /\ Forest(n, q)
         /\ \A t : RootsIn(n, q, t) =>
              \A i \in 1 .. n : t[i] = IF r[i] \in {x, y} THEN x ELSE r[i]
<1>1. Forest(n, q)
  BY DEF Forest
<1>2. ASSUME NEW t, RootsIn(n, q, t)
      PROVE  \A i \in 1 .. n : t[i] = IF r[i] \in {x, y} THEN x ELSE r[i]
  <2> DEFINE Wrong == { i \in 1 .. n : t[i] # IF r[i] \in {x, y} THEN x ELSE r[i] }
  <2>1. ASSUME Wrong # {}
        PROVE  FALSE
    <3>1. PICK i \in Wrong : \A j \in Wrong : ~(j < i)
      <4>1. Wrong \in SUBSET Nat
        OBVIOUS
      <4>2. QED
        BY <2>1, <4>1, FirstOf
    <3>2. i \in 1 .. n /\ p[i] \in 1 .. i
      BY <3>1 DEF Forest
    <3>3. \A j \in 1 .. n : /\ t[j] = IF q[j] = j THEN j ELSE t[q[j]]
                            /\ r[j] = IF p[j] = j THEN j ELSE r[p[j]]
      BY <1>2 DEF RootsIn
    <3>4. r[x] = x /\ r[y] = y /\ t[x] = x
      BY <3>3
    <3>5. CASE i \in {x, y}
      <4>1. t[i] = x
        BY <3>3, <3>4, <3>5
      <4>2. QED
        BY <3>1, <3>4, <3>5, <4>1
    <3>6. CASE i \notin {x, y} /\ p[i] = i
      BY <3>1, <3>2, <3>3, <3>6
    <3>7. CASE i \notin {x, y} /\ p[i] # i
      <4>1. p[i] \in 1 .. n /\ p[i] < i
        BY <3>2, <3>7
      <4>2. t[i] = t[p[i]] /\ r[i] = r[p[i]]
        BY <3>2, <3>3, <3>7, <4>1
      <4>3. t[p[i]] = IF r[p[i]] \in {x, y} THEN x ELSE r[p[i]]
        BY <3>1, <4>1
      <4>4. QED
        BY <3>1, <4>2, <4>3
    <3>8. QED
      BY <3>5, <3>6, <3>7
  <2>2. QED
    BY <2>1
<1>3. QED
  BY <1>1, <1>2

(***************************************************************************)
(* Two components contend exactly when their items have something in       *)
(* common.  Of the trees both write into a shortest is covered by no other, *)
(* so that a pair with an overlap keeps a tree to name it by.              *)
(***************************************************************************)
LEMMA CoversAreShorter ==
  ASSUME NEW p \in Path, NEW q \in Path, contains(p, q), p # q
  PROVE  Len(p) < Len(q)
<1>1. Len(p) \in Nat /\ Len(q) \in Nat /\ Len(p) <= Len(q)
  BY DEF contains, IsPrefix, Path
<1>2. ASSUME Len(p) = Len(q)
      PROVE  p = q
  <2>1. SubSeq(p, 1, Len(p)) = SubSeq(q, 1, Len(q))
    BY <1>2 DEF contains, IsPrefix
  <2>2. QED
    BY <2>1 DEF Path
<1>3. QED
  BY <1>1, <1>2

LEMMA OverlapIsAgreement ==
  ASSUME NEW p \in Path, NEW q \in Path
  PROVE  dirsOverlap(p, q) <=>
           \A k \in 1 .. (IF Len(p) < Len(q) THEN Len(p) ELSE Len(q)) : p[k] = q[k]
<1>1. ASSUME NEW a \in Path, NEW b \in Path
      PROVE  contains(a, b) <=> Len(a) <= Len(b) /\ \A k \in 1 .. Len(a) : a[k] = b[k]
  <2>1. Len(a) \in Nat /\ Len(b) \in Nat
    BY DEF Path
  <2>2. SUFFICES ASSUME Len(a) <= Len(b)
                 PROVE  SubSeq(a, 1, Len(a)) = SubSeq(b, 1, Len(a)) <=> \A k \in 1 .. Len(a) : a[k] = b[k]
    BY DEF contains, IsPrefix
  <2>3. \A k \in 1 .. Len(a) : SubSeq(a, 1, Len(a))[k] = a[k] /\ SubSeq(b, 1, Len(a))[k] = b[k]
    BY <2>1, <2>2 DEF Path
  <2>4. /\ SubSeq(a, 1, Len(a)) = [k \in 1 .. Len(a) |-> SubSeq(a, 1, Len(a))[k]]
        /\ SubSeq(b, 1, Len(a)) = [k \in 1 .. Len(a) |-> SubSeq(b, 1, Len(a))[k]]
    BY <2>1, <2>2 DEF Path
  <2>5. QED
    BY <2>3, <2>4
<1>2. Len(p) \in Nat /\ Len(q) \in Nat
  BY DEF Path
<1>3. CASE Len(p) < Len(q)
  BY <1>1, <1>2, <1>3 DEF dirsOverlap
<1>4. CASE ~(Len(p) < Len(q))
  BY <1>1, <1>2, <1>4 DEF dirsOverlap
<1>5. QED
  BY <1>3, <1>4

LEMMA OverlapIsNamed ==
  ASSUME NEW a \in Item, NEW b \in Item
  PROVE  sharedTrees(a, b) # {} <=> \E p \in Paths(a), q \in Paths(b) : dirsOverlap(p, q)
<1> DEFINE both == { q \in Paths(a) \X Paths(b) : dirsOverlap(q[1], q[2]) }
           candidates == { outer(p[1], p[2]) : p \in both }
<1>1. sharedTrees(a, b) = { t \in candidates : \A u \in candidates \ {t} : ~contains(u, t) }
  BY DEF sharedTrees
<1>2. Paths(a) \subseteq Path /\ Paths(b) \subseteq Path
  BY OccupiedType
<1>3. candidates \subseteq Path
  BY <1>2 DEF outer
<1>4. ASSUME candidates # {}
      PROVE  sharedTrees(a, b) # {}
  <2> DEFINE lengths == { Len(t) : t \in candidates }
  <2>1. lengths \in SUBSET Nat /\ lengths # {}
    <3>1. \A t \in candidates : Len(t) \in Nat
      BY <1>3 DEF Path
    <3>2. PICK t \in candidates : TRUE
      BY <1>4
    <3>3. Len(t) \in lengths
      BY <3>2
    <3>4. QED
      BY <3>1, <3>3
  <2>2. PICK l \in lengths : \A m \in lengths : ~(m < l)
    BY <2>1, FirstOf
  <2>3. PICK t \in candidates : Len(t) = l
    BY <2>2
  <2>4. ASSUME NEW u \in candidates \ {t}, contains(u, t)
        PROVE  FALSE
    <3>1. u \in Path /\ t \in Path /\ u # t /\ Len(u) \in lengths
      BY <1>3, <2>3
    <3>2. QED
      BY <2>2, <2>3, <2>4, <3>1, CoversAreShorter
  <2>5. QED
    BY <1>1, <2>3, <2>4
<1>5. candidates # {} <=> \E p \in Paths(a), q \in Paths(b) : dirsOverlap(p, q)
  <2>1. candidates # {} <=> both # {}
    OBVIOUS
  <2>2. ASSUME NEW p \in Paths(a), NEW q \in Paths(b), dirsOverlap(p, q)
        PROVE  <<p, q>> \in both
    BY <2>2
  <2>3. QED
    BY <2>1, <2>2
<1>6. QED
  BY <1>1, <1>4, <1>5

LEMMA ContentionIsConflict ==
  ASSUME NEW a \in Component, NEW b \in Component
  PROVE  /\ Contend(a, b) <=> InCommon(a.item, b.item) # {}
         /\ Contend(a, b) <=> Contend(b, a)
<1>1. a.item \in Item /\ b.item \in Item
  BY DEF Component
<1>2. Paths(a.item) \subseteq Path /\ Paths(b.item) \subseteq Path
  BY <1>1, OccupiedType
<1>3. ASSUME NEW c \in {a, b}, NEW d \in {a, b}
      PROVE  Contend(c, d) <=> \/ shared(c.item, d.item) # {}
                               \/ \E p \in Paths(c.item), q \in Paths(d.item) : dirsOverlap(p, q)
  <2>1. (\E k \in c.item.ports : k \in d.item.ports) <=> shared(c.item, d.item) # {}
    BY DEF shared
  <2>2. Paths(c.item) \subseteq Path /\ Paths(d.item) \subseteq Path
    BY <1>2
  <2>3. \A p \in Paths(c.item), q \in Paths(d.item) :
          dirsOverlap(p, q) <=>
            \A k \in 1 .. (IF Len(p) < Len(q) THEN Len(p) ELSE Len(q)) : p[k] = q[k]
    BY <2>2, OverlapIsAgreement
  <2>4. QED
    BY <2>1, <2>3 DEF Contend
<1>4. InCommon(a.item, b.item) # {} <=> sharedTrees(a.item, b.item) # {} \/ shared(a.item, b.item) # {}
  <2> DEFINE T == sharedTrees(a.item, b.item)
             P == shared(a.item, b.item)
  <2>1. InCommon(a.item, b.item) = ({"directory"} \X T) \cup ({"port"} \X P)
    BY DEF InCommon
  <2> HIDE DEF T, P
  <2>2. \A t \in T : <<"directory", t>> \in {"directory"} \X T
    OBVIOUS
  <2>3. \A t \in P : <<"port", t>> \in {"port"} \X P
    OBVIOUS
  <2>4. QED
    BY <2>1, <2>2, <2>3 DEF T, P
<1>5. Contend(a, b) <=> InCommon(a.item, b.item) # {}
  BY <1>1, <1>3, <1>4, OverlapIsNamed
<1>6. Contend(a, b) <=> Contend(b, a)
  <2>1. shared(a.item, b.item) = shared(b.item, a.item)
    BY DEF shared
  <2>2. QED
    BY <1>3, <2>1, OverlapIsSymmetric
<1>7. QED
  BY <1>5, <1>6

-------------------------------------------------------------------------------
(***************************************************************************)
(* The inductive invariant.  A conflict already joined ties the two walks; *)
(* that no more is tied is said of every set of positions that parts no    *)
(* conflicting pair: it holds a position exactly when it holds its root.   *)
(***************************************************************************)
Suites == { i \in DOMAIN file : file[i].hasSuite }
Edges == Conflicts(itemsOf(planned))
Positions == 1 .. Len(planned)

Unparted == { P \in SUBSET Positions : \A c \in Edges : c[1] \in P <=> c[2] \in P }

Grouped ==
    phase \in {"joining", "naming", "planned"} =>
        /\ planned = Ascending(Suites)
        /\ Forest(Len(planned), parent)
        /\ \A c \in Edges \ todo : find[c[1]] = find[c[2]]
        /\ \A P \in Unparted : \A i \in Positions : i \in P <=> find[i] \in P

Listed ==
    phase \in {"naming", "planned"} =>
        /\ todo = {}
        /\ shards = [n \in DOMAIN Ascending(firsts) |-> shardOf(find[Ascending(firsts)[n]])]

NamesDiffer == phase = "planned" => clashing = {}

PlanInv == PlanTypeOK /\ Grouped /\ Listed /\ NamesDiffer

(***************************************************************************)
(* The declaration, and the components a plan makes items of.              *)
(***************************************************************************)
LEMMA FileType ==
  ASSUME file \in Files
  PROVE  /\ Len(file) \in Nat /\ DOMAIN file = 1 .. Len(file)
         /\ \A i \in DOMAIN file : file[i] \in Component
         /\ Suites \in SUBSET Nat /\ IsFiniteSet(Suites) /\ Suites \subseteq DOMAIN file
<1>1. file \in Seq(Component)
  BY FilesAssumption
<1>2. Len(file) \in Nat /\ DOMAIN file = 1 .. Len(file) /\ \A i \in DOMAIN file : file[i] \in Component
  BY <1>1
<1>3. Suites \in SUBSET (1 .. Len(file)) /\ IsFiniteSet(1 .. Len(file))
  BY <1>2, FS_Interval DEF Suites
<1>4. IsFiniteSet(Suites)
  BY <1>3, FS_Subset
<1>5. QED
  BY <1>2, <1>3, <1>4

LEMMA PlannedType ==
  ASSUME file \in Files, NEW s, s = Ascending(Suites)
  PROVE  /\ s \in Seq(DOMAIN file) /\ Len(s) = Cardinality(Suites) /\ Len(s) \in Nat
         /\ DOMAIN s = 1 .. Len(s) /\ ToSet(s) = Suites
         /\ \A i \in 1 .. Len(s) : s[i] \in Suites
         /\ \A i, j \in 1 .. Len(s) : i < j => s[i] < s[j]
         /\ \A i, j \in 1 .. Len(s) : s[i] = s[j] => i = j
<1> DEFINE N == Cardinality(Suites)
<1>1. /\ N \in Nat /\ s \in [1 .. N -> Suites] /\ ToSet(s) = Suites
      /\ \A m, n \in 1 .. N : m < n => s[m] < s[n]
  BY FileType, AscendingLists
<1>2. Suites \subseteq DOMAIN file /\ Suites \subseteq Nat
  BY FileType
<1>3. s \in Seq(DOMAIN file) /\ Len(s) = N /\ DOMAIN s = 1 .. N
  BY <1>1, <1>2
<1>4. ASSUME NEW i \in 1 .. N, NEW j \in 1 .. N, s[i] = s[j]
      PROVE  i = j
  <2>1. s[i] \in Nat /\ s[j] \in Nat
    BY <1>1, <1>2
  <2>2. ~(i < j) /\ ~(j < i)
    BY <1>1, <1>4, <2>1
  <2>3. QED
    BY <1>1, <2>2
<1>5. QED
  BY <1>1, <1>3, <1>4

\* A conflict is a pair of positions in order and something it has in common.
LEMMA EdgeShape ==
  ASSUME NEW its, NEW c \in Conflicts(its)
  PROVE  /\ c[1] \in DOMAIN its /\ c[2] \in DOMAIN its /\ c[1] < c[2]
         /\ c[3] \in InCommon(its[c[1]], its[c[2]])
         /\ c = <<c[1], c[2], c[3]>>
BY DEF Conflicts

LEMMA EdgesThere ==
  ASSUME NEW its, NEW i \in DOMAIN its, NEW j \in DOMAIN its, i < j,
         InCommon(its[i], its[j]) # {}
  PROVE  \E c \in Conflicts(its) : c[1] = i /\ c[2] = j
<1>1. PICK on \in InCommon(its[i], its[j]) : TRUE
  OBVIOUS
<1> DEFINE pairs == { p \in (DOMAIN its) \X (DOMAIN its) : p[1] < p[2] }
           edges(p) == { <<p[1], p[2], x>> : x \in InCommon(its[p[1]], its[p[2]]) }
<1>2. <<i, j>> \in pairs
  OBVIOUS
<1>3. <<i, j, on>> \in edges(<<i, j>>)
  BY <1>1
<1>4. <<i, j, on>> \in UNION { edges(p) : p \in pairs }
  BY <1>2, <1>3
<1>5. <<i, j, on>> \in Conflicts(its)
  BY <1>4 DEF Conflicts
<1>6. QED
  BY <1>5

(***************************************************************************)
(* The positions of a plan that is being made, or is made.                 *)
(***************************************************************************)
LEMMA PlanShape ==
  ASSUME PlanInv, phase \in {"joining", "naming", "planned"}
  PROVE  /\ Len(planned) \in Nat /\ DOMAIN planned = Positions /\ DOMAIN parent = Positions
         /\ Forest(Len(planned), parent) /\ RootsIn(Len(planned), parent, find)
         /\ \A i \in Positions : planned[i] \in Suites /\ planned[i] \in DOMAIN file
         /\ DOMAIN itemsOf(planned) = Positions
         /\ \A i \in Positions : itemsOf(planned)[i] = file[planned[i]].item
         /\ \A c \in Edges : /\ c[1] \in Positions /\ c[2] \in Positions /\ c[1] < c[2]
                             /\ c = <<c[1], c[2], c[3]>>
<1>1. file \in Files /\ planned = Ascending(Suites) /\ Forest(Len(planned), parent)
  BY DEF PlanInv, PlanTypeOK, Grouped
<1>2. /\ Len(planned) \in Nat /\ DOMAIN planned = Positions
      /\ \A i \in Positions : planned[i] \in Suites
  BY <1>1, PlannedType DEF Positions
<1>3. DOMAIN parent = Positions /\ RootsIn(Len(planned), parent, find)
  BY <1>1, <1>2, FindIsAWalk DEF Forest, Positions
<1>4. DOMAIN itemsOf(planned) = Positions /\ \A i \in Positions : itemsOf(planned)[i] = file[planned[i]].item
  BY <1>2 DEF itemsOf
<1>5. ASSUME NEW c \in Edges
      PROVE  c[1] \in Positions /\ c[2] \in Positions /\ c[1] < c[2] /\ c = <<c[1], c[2], c[3]>>
  BY <1>4, EdgeShape DEF Edges
<1>6. \A i \in Positions : planned[i] \in DOMAIN file
  BY <1>1, <1>2, FileType
<1>7. QED
  BY <1>1, <1>2, <1>3, <1>4, <1>5, <1>6

LEMMA PlanInitInv == PlanInit => PlanInv
<1> SUFFICES ASSUME PlanInit
             PROVE  PlanInv
  OBVIOUS
<1>1. PlanTypeOK
  BY DEF PlanInit, PlanTypeOK
<1>2. Grouped /\ Listed /\ NamesDiffer
  BY DEF PlanInit, Grouped, Listed, NamesDiffer
<1>3. QED
  BY <1>1, <1>2 DEF PlanInv

(***************************************************************************)
(* Every position is its own root when the items are made.                 *)
(***************************************************************************)
LEMMA PlanItemsInv ==
  ASSUME PlanInv, planItems
  PROVE  PlanInv'
<1>1. file \in Files /\ file' = file /\ shards' = shards /\ phase = "loading"
  BY DEF PlanInv, PlanTypeOK, planItems
<1>2. CASE phase' = "refused" /\ UNCHANGED <<planned, parent, todo>>
  <2>1. itemsOf(planned)' = itemsOf(planned)
    BY <1>1, <1>2 DEF itemsOf
  <2>2. PlanTypeOK'
    BY <1>1, <1>2, <2>1 DEF PlanInv, PlanTypeOK
  <2>3. (Grouped /\ Listed /\ NamesDiffer)'
    BY <1>2 DEF Grouped, Listed, NamesDiffer
  <2>4. QED
    BY <2>2, <2>3 DEF PlanInv
<1>3. CASE /\ phase' = "joining"
           /\ planned' = Ascending(Suites)
           /\ parent' = [i \in 1 .. Cardinality(Suites) |-> i]
           /\ todo' = Conflicts(itemsOf(Ascending(Suites)))
  <2> DEFINE s == Ascending(Suites)
  <2>1. /\ s \in Seq(DOMAIN file) /\ Len(s) = Cardinality(Suites) /\ Len(s) \in Nat
        /\ DOMAIN s = 1 .. Len(s)
    BY <1>1, PlannedType
  <2>2. Suites' = Suites /\ itemsOf(planned)' = itemsOf(s) /\ Edges' = todo'
    BY <1>1, <1>3 DEF Suites, itemsOf, Edges
  <2>3. Forest(Len(planned'), parent')
    BY <1>3, <2>1 DEF Forest
  <2>4. RootsIn(Len(planned'), parent', find')
    BY <1>3, <2>1, <2>3, FindIsAWalk
  <2>5. Positions' = 1 .. Len(s)
    BY <1>3 DEF Positions
  <2>6. \A i \in Positions' : find'[i] = i
    BY <1>3, <2>1, <2>4, <2>5 DEF RootsIn
  <2>7. PlanTypeOK'
    <3>1. \A i \in DOMAIN parent' : parent'[i] \in 1 .. i
      BY <1>3
    <3>2. DOMAIN parent' = DOMAIN planned'
      BY <1>3, <2>1
    <3>3. \A n \in DOMAIN shards : ToSet(shards[n].members) \subseteq DOMAIN file
      BY DEF PlanInv, PlanTypeOK
    <3>4. QED
      BY <1>1, <1>3, <2>1, <2>2, <3>1, <3>2, <3>3 DEF PlanTypeOK
  <2>8. Grouped'
    BY <1>3, <2>2, <2>3, <2>6 DEF Grouped
  <2>9. (Listed /\ NamesDiffer)'
    BY <1>3 DEF Listed, NamesDiffer
  <2>10. QED
    BY <2>7, <2>8, <2>9 DEF PlanInv
<1>4. QED
  BY <1>2, <1>3 DEF planItems, Suites

(***************************************************************************)
(* Joining a conflict ties its two walks, leaves those tied that were, and *)
(* ties no two positions that a set of whole groups tells apart.           *)
(***************************************************************************)
LEMMA UnionInv ==
  ASSUME PlanInv, Union
  PROVE  PlanInv'
<1> DEFINE n == Len(planned)
<1>1. phase = "joining" /\ UNCHANGED <<file, phase, planned, shards>>
  BY DEF Union
<1>2. PICK c \in todo : todo' = todo \ {c} /\ parent' = joined(c)
  BY DEF Union
<1>3. /\ n \in Nat /\ DOMAIN planned = 1 .. n /\ DOMAIN parent = 1 .. n
      /\ Forest(n, parent) /\ RootsIn(n, parent, find)
  BY <1>1, PlanShape DEF Positions
<1>4. todo \subseteq Edges /\ c \in Edges
  BY <1>2 DEF PlanInv, PlanTypeOK, Edges
<1>5. \A d \in Edges : d[1] \in 1 .. n /\ d[2] \in 1 .. n
  BY <1>1, PlanShape DEF Positions
<1> DEFINE roots == {find[c[1]], find[c[2]]}
           x == CHOOSE a \in roots : \A b \in roots : a <= b
<1>6. \A a \in roots : a \in 1 .. n /\ parent[a] = a
  BY <1>3, <1>4, <1>5 DEF RootsIn
<1>7. x \in roots /\ \A b \in roots : x <= b
  <2>1. \E a \in roots : \A b \in roots : a <= b
    <3>1. find[c[1]] \in Nat /\ find[c[2]] \in Nat
      BY <1>6
    <3>2. find[c[1]] <= find[c[2]] \/ find[c[2]] <= find[c[1]]
      BY <3>1
    <3>3. QED
      BY <3>1, <3>2
  <2>2. QED
    BY <2>1
<1>8. parent' = [i \in 1 .. n |-> IF i \in roots THEN x ELSE parent[i]]
  BY <1>2, <1>3 DEF joined
<1> HIDE DEF x
<1>9. PICK y \in roots : roots = {x, y}
  BY <1>7
<1>10. /\ Forest(n, parent')
       /\ \A t : RootsIn(n, parent', t) =>
            \A i \in 1 .. n : t[i] = IF find[i] \in {x, y} THEN x ELSE find[i]
  <2>1. parent' = [i \in 1 .. n |-> IF i \in {x, y} THEN x ELSE parent[i]]
    BY <1>8, <1>9
  <2>2. x \in 1 .. n /\ y \in 1 .. n /\ parent[x] = x /\ parent[y] = y /\ x <= y
    BY <1>6, <1>7
  <2> HIDE DEF n, roots
  <2>3. \A q : q = [i \in 1 .. n |-> IF i \in {x, y} THEN x ELSE parent[i]] =>
          /\ Forest(n, q)
          /\ \A t : RootsIn(n, q, t) =>
               \A i \in 1 .. n : t[i] = IF find[i] \in {x, y} THEN x ELSE find[i]
    BY <1>3, <2>2, JoiningMerges
  <2>4. QED
    BY <2>1, <2>3
<1>11. \A i \in 1 .. n : find'[i] = IF find[i] \in roots THEN x ELSE find[i]
  BY <1>3, <1>9, <1>10, FindIsAWalk
<1>12. Suites' = Suites /\ Edges' = Edges /\ Positions' = 1 .. n
  BY <1>1 DEF Suites, Edges, itemsOf, Positions
<1>13. PlanTypeOK'
  <2>1. DOMAIN parent' = DOMAIN planned' /\ \A i \in DOMAIN parent' : parent'[i] \in 1 .. i
    BY <1>1, <1>3, <1>10 DEF Forest
  <2>2. todo' \subseteq Conflicts(itemsOf(planned)')
    BY <1>2, <1>4, <1>12 DEF Edges
  <2>3. QED
    BY <1>1, <2>1, <2>2 DEF PlanInv, PlanTypeOK
<1>14. Grouped'
  <2>1. planned' = Ascending(Suites)' /\ Len(planned') = n
    BY <1>1, <1>12 DEF PlanInv, Grouped
  <2>2. ASSUME NEW d \in Edges \ todo'
        PROVE  find'[d[1]] = find'[d[2]]
    <3>1. d[1] \in 1 .. n /\ d[2] \in 1 .. n
      BY <1>5
    <3>2. CASE d = c
      BY <1>11, <3>1, <3>2
    <3>3. CASE d # c
      <4>1. find[d[1]] = find[d[2]]
        BY <1>1, <1>2, <2>2, <3>3 DEF PlanInv, Grouped
      <4>2. QED
        BY <1>11, <3>1, <4>1
    <3>4. QED
      BY <3>2, <3>3
  <2>3. ASSUME NEW P \in Unparted, NEW i \in 1 .. n
        PROVE  i \in P <=> find'[i] \in P
    <3>1. \A j \in 1 .. n : j \in P <=> find[j] \in P
      BY <1>1 DEF PlanInv, Grouped, Positions
    <3>2. \A a \in roots : a \in P <=> x \in P
      <4>1. c[1] \in P <=> c[2] \in P
        BY <1>4 DEF Unparted
      <4>2. find[c[1]] \in P <=> find[c[2]] \in P
        BY <1>4, <1>5, <3>1, <4>1
      <4>3. QED
        BY <1>7, <4>2
    <3>3. QED
      BY <1>11, <3>1, <3>2
  <2>4. Unparted' = Unparted
    BY <1>1, <1>12 DEF Unparted, Positions
  <2>5. QED
    BY <1>10, <1>12, <2>1, <2>2, <2>3, <2>4 DEF Grouped
<1>15. (Listed /\ NamesDiffer)'
  BY <1>1 DEF Listed, NamesDiffer
<1>16. QED
  BY <1>13, <1>14, <1>15 DEF PlanInv

(***************************************************************************)
(* The jobs of a matrix: one for each root, in the order of the roots, with *)
(* the components of the root's positions.                                 *)
(***************************************************************************)
LEMMA JobsAreRoots ==
  ASSUME PlanInv, phase \in {"joining", "naming", "planned"},
         NEW jobs, jobs = [n \in DOMAIN Ascending(firsts) |-> shardOf(find[Ascending(firsts)[n]])],
         NEW top, top = Ascending(firsts)
  PROVE  /\ DOMAIN top = DOMAIN jobs /\ DOMAIN jobs \subseteq Nat
         /\ \A s \in DOMAIN jobs : /\ top[s] \in Positions /\ find[top[s]] = top[s]
                                   /\ jobs[s] = shardOf(top[s])
                                   /\ ToSet(jobs[s].members) = { planned[i] : i \in { j \in Positions : find[j] = top[s] } }
                                   /\ DOMAIN jobs[s].members \subseteq Nat
                                   /\ \A m, n \in DOMAIN jobs[s].members :
                                        jobs[s].members[m] = jobs[s].members[n] => m = n
         /\ \A s, t \in DOMAIN jobs : s < t => top[s] < top[t]
         /\ \A i \in Positions : \E s \in DOMAIN jobs : find[i] = top[s]
<1>1. /\ Len(planned) \in Nat /\ DOMAIN parent = Positions
      /\ RootsIn(Len(planned), parent, find)
      /\ \A i \in Positions : planned[i] \in Suites
  BY PlanShape
<1>2. \A i \in Positions : find[i] \in 1 .. i /\ find[i] \in Positions /\ find[find[i]] = find[i]
  <2>1. ASSUME NEW i \in Positions
        PROVE  find[i] \in 1 .. i /\ find[i] \in Positions /\ find[find[i]] = find[i]
    <3>1. find[i] \in 1 .. i /\ parent[find[i]] = find[i]
      BY <1>1 DEF RootsIn, Positions
    <3>2. find[i] \in Positions
      BY <1>1, <3>1 DEF Positions
    <3>3. QED
      BY <1>1, <3>1, <3>2 DEF RootsIn, Positions
  <2>2. QED
    BY <2>1
<1>3. firsts = { i \in Positions : find[i] = i }
  <2>1. ASSUME NEW i \in Positions, find[i] = i
        PROVE  i \in firsts
    <3>1. ASSUME NEW j \in 1 .. (i - 1)
          PROVE  find[j] # find[i]
      <4>1. j \in Positions /\ j < i
        BY <1>1, <2>1 DEF Positions
      <4>2. find[j] \in 1 .. j
        BY <1>2, <4>1
      <4>3. QED
        BY <2>1, <4>1, <4>2 DEF Positions
    <3>2. QED
      BY <1>1, <3>1 DEF firsts
  <2>2. ASSUME NEW i \in firsts
        PROVE  i \in Positions /\ find[i] = i
    <3>1. i \in Positions /\ \A j \in 1 .. (i - 1) : find[j] # find[i]
      BY <1>1 DEF firsts
    <3>2. find[i] \in 1 .. i /\ find[find[i]] = find[i]
      BY <1>2, <3>1
    <3>3. find[i] \notin 1 .. (i - 1)
      BY <3>1, <3>2
    <3>4. QED
      BY <3>1, <3>2, <3>3 DEF Positions
  <2>3. QED
    BY <2>1, <2>2
<1>4. firsts \in SUBSET Nat /\ IsFiniteSet(firsts)
  <2>1. IsFiniteSet(Positions) /\ firsts \in SUBSET Positions
    BY <1>1, <1>3, FS_Interval DEF Positions
  <2>2. IsFiniteSet(firsts)
    BY <2>1, FS_Subset
  <2>3. Positions \subseteq Nat
    BY DEF Positions
  <2>4. QED
    BY <2>1, <2>2, <2>3
<1> DEFINE N == Cardinality(firsts)
<1>5. /\ N \in Nat /\ top \in [1 .. N -> firsts] /\ ToSet(top) = firsts
      /\ \A m, n \in 1 .. N : m < n => top[m] < top[n]
  BY <1>4, AscendingLists
<1>6. DOMAIN top = 1 .. N /\ DOMAIN jobs = 1 .. N
  BY <1>5
<1>7. ASSUME NEW s \in DOMAIN jobs
      PROVE  /\ top[s] \in Positions /\ find[top[s]] = top[s]
             /\ jobs[s] = shardOf(top[s])
             /\ ToSet(jobs[s].members) = { planned[i] : i \in { j \in Positions : find[j] = top[s] } }
             /\ DOMAIN jobs[s].members \subseteq Nat
             /\ \A m, n \in DOMAIN jobs[s].members :
                  jobs[s].members[m] = jobs[s].members[n] => m = n
  <2>1. top[s] \in Positions /\ find[top[s]] = top[s]
    BY <1>3, <1>5, <1>6
  <2>2. jobs[s] = shardOf(top[s])
    BY <1>5, <1>6, <2>1
  <2> DEFINE M == { planned[i] : i \in { j \in Positions : find[j] = top[s] } }
  <2>3. jobs[s].members = Ascending(M)
    BY <1>1, <2>2 DEF shardOf
  <2>4. M \in SUBSET Suites /\ Suites \in SUBSET Nat /\ IsFiniteSet(Suites)
    BY <1>1, FileType DEF PlanInv, PlanTypeOK
  <2>5. M \in SUBSET Nat /\ IsFiniteSet(M)
    BY <2>4, FS_Subset
  <2> HIDE DEF M
  <2>6. /\ Cardinality(M) \in Nat
        /\ Ascending(M) \in [1 .. Cardinality(M) -> M]
        /\ ToSet(Ascending(M)) = M
        /\ \A m, n \in 1 .. Cardinality(M) : m < n => Ascending(M)[m] < Ascending(M)[n]
    BY <2>5, AscendingLists
  <2>7. ASSUME NEW m \in 1 .. Cardinality(M), NEW n \in 1 .. Cardinality(M), Ascending(M)[m] = Ascending(M)[n]
        PROVE  m = n
    <3>1. Ascending(M)[m] \in Nat /\ Ascending(M)[n] \in Nat
      BY <2>5, <2>6
    <3>2. ~(m < n) /\ ~(n < m)
      BY <2>6, <2>7, <3>1
    <3>3. QED
      BY <2>6, <3>2
  <2>8. DOMAIN jobs[s].members = 1 .. Cardinality(M)
    BY <2>3, <2>6
  <2>9. QED
    BY <2>1, <2>2, <2>3, <2>6, <2>7, <2>8 DEF M
<1>8. ASSUME NEW i \in Positions
      PROVE  \E s \in DOMAIN jobs : find[i] = top[s]
  <2>1. find[i] \in firsts
    BY <1>2, <1>3
  <2>2. QED
    BY <1>5, <1>6, <2>1 DEF ToSet
<1>9. \A s, t \in DOMAIN jobs : s < t => top[s] < top[t]
  BY <1>5, <1>6
<1>10. DOMAIN top = DOMAIN jobs /\ DOMAIN jobs \subseteq Nat
  BY <1>6
<1>11. QED
  BY <1>7, <1>8, <1>9, <1>10

LEMMA GroupInv ==
  ASSUME PlanInv, Group
  PROVE  PlanInv'
<1> DEFINE jobs == [n \in DOMAIN Ascending(firsts) |-> shardOf(find[Ascending(firsts)[n]])]
<1>1. /\ phase = "joining" /\ todo = {} /\ phase' = "naming" /\ shards' = jobs
      /\ UNCHANGED <<file, planned, parent, todo>>
  BY DEF Group
<1>2. /\ Suites' = Suites /\ Edges' = Edges /\ Positions' = Positions /\ find' = find
      /\ firsts' = firsts /\ itemsOf(planned)' = itemsOf(planned)
  BY <1>1 DEF Suites, Edges, itemsOf, Positions, find, firsts
<1>3. PlanTypeOK'
  <2>1. ASSUME NEW s \in DOMAIN jobs
        PROVE  ToSet(jobs[s].members) \subseteq DOMAIN file
    <3>1. ToSet(jobs[s].members) = { planned[i] : i \in { j \in Positions : find[j] = Ascending(firsts)[s] } }
      BY <1>1, JobsAreRoots
    <3>2. QED
      BY <1>1, <3>1, PlanShape
  <2>2. QED
    BY <1>1, <1>2, <2>1 DEF PlanInv, PlanTypeOK
<1>4. Grouped'
  <2>1. Unparted' = Unparted
    BY <1>2 DEF Unparted
  <2>2. QED
    BY <1>1, <1>2, <2>1 DEF PlanInv, Grouped
<1>5. Listed'
  <2>1. jobs' = jobs
    BY <1>1, <1>2 DEF shardOf
  <2>2. QED
    BY <1>1, <2>1 DEF Listed
<1>6. NamesDiffer'
  BY <1>1 DEF NamesDiffer
<1>7. QED
  BY <1>3, <1>4, <1>5, <1>6 DEF PlanInv

(***************************************************************************)
(* Naming leaves the jobs as they are or drops them all; nothing else      *)
(* changes a plan.                                                         *)
(***************************************************************************)
LEMMA NamingInv ==
  ASSUME PlanInv, uniqueShardNames \/ PlanFinished \/ UNCHANGED planVars
  PROVE  PlanInv'
<1>1. UNCHANGED <<file, planned, parent, todo>>
  BY DEF uniqueShardNames, PlanFinished, planVars
<1>2. /\ Suites' = Suites /\ Edges' = Edges /\ Positions' = Positions /\ find' = find
      /\ firsts' = firsts /\ itemsOf(planned)' = itemsOf(planned) /\ Unparted' = Unparted
  BY <1>1 DEF Suites, Edges, itemsOf, Positions, find, firsts, Unparted
<1> DEFINE jobs == [n \in DOMAIN Ascending(firsts) |-> shardOf(find[Ascending(firsts)[n]])]
<1>3. jobs' = jobs
  BY <1>1, <1>2 DEF shardOf
<1>4. CASE UNCHANGED <<phase, shards>>
  <2>1. clashing' = clashing
    BY <1>1, <1>4 DEF clashing, shardName
  <2>2. PlanTypeOK'
    BY <1>1, <1>2, <1>4 DEF PlanInv, PlanTypeOK
  <2>3. (Grouped /\ Listed /\ NamesDiffer)'
    BY <1>1, <1>2, <1>3, <1>4, <2>1 DEF PlanInv, Grouped, Listed, NamesDiffer
  <2>4. QED
    BY <2>2, <2>3 DEF PlanInv
<1>5. CASE phase = "naming" /\ clashing = {} /\ phase' = "planned" /\ shards' = shards
  <2>1. clashing' = clashing
    BY <1>1, <1>5 DEF clashing, shardName
  <2>2. PlanTypeOK'
    BY <1>1, <1>2, <1>5 DEF PlanInv, PlanTypeOK
  <2>3. (Grouped /\ Listed /\ NamesDiffer)'
    BY <1>1, <1>2, <1>3, <1>5, <2>1 DEF PlanInv, Grouped, Listed, NamesDiffer
  <2>4. QED
    BY <2>2, <2>3 DEF PlanInv
<1>6. CASE phase' = "refused" /\ shards' = <<>>
  <2>1. PlanTypeOK'
    BY <1>1, <1>2, <1>6 DEF PlanInv, PlanTypeOK
  <2>2. (Grouped /\ Listed /\ NamesDiffer)'
    BY <1>6 DEF Grouped, Listed, NamesDiffer
  <2>3. QED
    BY <2>1, <2>2 DEF PlanInv
<1>7. QED
  BY <1>4, <1>5, <1>6 DEF uniqueShardNames, PlanFinished, planVars

LEMMA PlanNextInv == PlanInv /\ [PlanNext]_planVars => PlanInv'
BY PlanItemsInv, UnionInv, GroupInv, NamingInv DEF PlanNext

(***************************************************************************)
(* Every variable of a plan keeps its type, and no item of the forest      *)
(* hangs under a later one.                                                *)
(***************************************************************************)
THEOREM PlansTypeCorrect == PlanSpec => []PlanTypeOK
<1>1. PlanInv => PlanTypeOK
  BY DEF PlanInv
<1>2. QED
  BY PlanInitInv, PlanNextInv, <1>1, PTL DEF PlanSpec

-------------------------------------------------------------------------------
(***************************************************************************)
(* What a planned matrix is.  Positions whose components contend have one  *)
(* root, and the conflicts are the contending pairs in order.              *)
(***************************************************************************)
LEMMA ContendingAreTied ==
  ASSUME PlanInv, phase = "planned"
  PROVE  /\ \A a, b \in Positions :
              a < b => (Contend(file[planned[a]], file[planned[b]]) <=>
                          \E c \in Edges : c[1] = a /\ c[2] = b)
         /\ \A a, b \in Positions :
              a # b /\ Contend(file[planned[a]], file[planned[b]]) => find[a] = find[b]
         /\ \A c \in Edges : find[c[1]] = find[c[2]]
<1>1. \A c \in Edges : find[c[1]] = find[c[2]]
  BY DEF PlanInv, Grouped, Listed
<1>2. /\ DOMAIN itemsOf(planned) = Positions
      /\ \A i \in Positions : itemsOf(planned)[i] = file[planned[i]].item
      /\ \A i \in Positions : file[planned[i]] \in Component
  BY PlanShape, FileType DEF PlanInv, PlanTypeOK
<1>3. ASSUME NEW a \in Positions, NEW b \in Positions, a < b
      PROVE  Contend(file[planned[a]], file[planned[b]]) <=> \E c \in Edges : c[1] = a /\ c[2] = b
  <2>1. Contend(file[planned[a]], file[planned[b]]) <=>
          InCommon(itemsOf(planned)[a], itemsOf(planned)[b]) # {}
    BY <1>2, ContentionIsConflict
  <2>2. ASSUME InCommon(itemsOf(planned)[a], itemsOf(planned)[b]) # {}
        PROVE  \E c \in Edges : c[1] = a /\ c[2] = b
    BY <1>2, <1>3, <2>2, EdgesThere DEF Edges
  <2>3. ASSUME NEW c \in Edges, c[1] = a, c[2] = b
        PROVE  InCommon(itemsOf(planned)[a], itemsOf(planned)[b]) # {}
    <3>1. c[3] \in InCommon(itemsOf(planned)[c[1]], itemsOf(planned)[c[2]])
      BY EdgeShape DEF Edges
    <3>2. QED
      BY <2>3, <3>1
  <2>4. QED
    BY <2>1, <2>2, <2>3
<1>4. ASSUME NEW a \in Positions, NEW b \in Positions, a # b, Contend(file[planned[a]], file[planned[b]])
      PROVE  find[a] = find[b]
  <2>1. a < b \/ b < a
    BY <1>4 DEF Positions
  <2>2. Contend(file[planned[b]], file[planned[a]])
    BY <1>2, <1>4, ContentionIsConflict
  <2>3. QED
    BY <1>1, <1>3, <1>4, <2>1, <2>2
<1>5. QED
  BY <1>1, <1>3, <1>4

\* The jobs, as JobsAreRoots has them.
Rooted(top) ==
    /\ DOMAIN top = DOMAIN shards /\ DOMAIN shards \subseteq Nat
    /\ \A s \in DOMAIN shards : /\ top[s] \in Positions /\ find[top[s]] = top[s]
                                /\ shards[s] = shardOf(top[s])
                                /\ Members(s) = { planned[i] : i \in { j \in Positions : find[j] = top[s] } }
                                /\ DOMAIN shards[s].members \subseteq Nat
                                /\ \A m, n \in DOMAIN shards[s].members :
                                     shards[s].members[m] = shards[s].members[n] => m = n
    /\ \A s, t \in DOMAIN shards : s < t => top[s] < top[t]
    /\ \A s, t \in DOMAIN shards : s # t => top[s] # top[t]
    /\ \A i \in Positions : \E s \in DOMAIN shards : find[i] = top[s]

LEMMA ShardsAreRooted ==
  ASSUME PlanInv, phase = "planned"
  PROVE  \E top : Rooted(top)
<1> DEFINE top == Ascending(firsts)
<1>1. shards = [n \in DOMAIN Ascending(firsts) |-> shardOf(find[Ascending(firsts)[n]])]
  BY DEF PlanInv, Listed
<1> HIDE DEF top
<1>2. /\ DOMAIN top = DOMAIN shards /\ DOMAIN shards \subseteq Nat
      /\ \A s \in DOMAIN shards : /\ top[s] \in Positions /\ find[top[s]] = top[s]
                                  /\ shards[s] = shardOf(top[s])
                                  /\ ToSet(shards[s].members) = { planned[i] : i \in { j \in Positions : find[j] = top[s] } }
                                  /\ DOMAIN shards[s].members \subseteq Nat
                                  /\ \A m, n \in DOMAIN shards[s].members :
                                       shards[s].members[m] = shards[s].members[n] => m = n
      /\ \A s, t \in DOMAIN shards : s < t => top[s] < top[t]
      /\ \A i \in Positions : \E s \in DOMAIN shards : find[i] = top[s]
  BY <1>1, JobsAreRoots DEF top
<1>3. ASSUME NEW s \in DOMAIN shards, NEW t \in DOMAIN shards, s # t
      PROVE  top[s] # top[t]
  <2>1. s < t \/ t < s
    BY <1>2, <1>3
  <2>2. top[s] \in Nat /\ top[t] \in Nat
    BY <1>2 DEF Positions
  <2>3. QED
    BY <1>2, <2>1, <2>2
<1>4. Rooted(top)
  BY <1>2, <1>3 DEF Rooted, Members
<1>5. QED
  BY <1>4

(***************************************************************************)
(* No two jobs hold a contending pair, and a job that could be split in    *)
(* two without parting one would split the walks to its root.              *)
(***************************************************************************)
LEMMA ShardsKeepPairsTogether ==
  ASSUME PlanInv, phase = "planned", NEW top, Rooted(top),
         NEW s \in DOMAIN shards, NEW t \in DOMAIN shards, s # t,
         NEW i \in Members(s), NEW j \in Members(t)
  PROVE  ~Contend(file[i], file[j])
<1>1. PICK a \in Positions : i = planned[a] /\ find[a] = top[s]
  BY DEF Rooted
<1>2. PICK b \in Positions : j = planned[b] /\ find[b] = top[t]
  BY DEF Rooted
<1>3. top[s] # top[t]
  BY DEF Rooted
<1>4. QED
  BY <1>1, <1>2, <1>3, ContendingAreTied

LEMMA ShardsDoNotSplit ==
  ASSUME PlanInv, phase = "planned", NEW top, Rooted(top), NEW s \in DOMAIN shards,
         NEW part \in (SUBSET Members(s)) \ {{}, Members(s)}
  PROVE  \E i \in part, j \in Members(s) \ part : Contend(file[i], file[j])
<1> SUFFICES ASSUME \A i \in part, j \in Members(s) \ part : ~Contend(file[i], file[j])
             PROVE  FALSE
  OBVIOUS
<1> DEFINE P == { a \in Positions : planned[a] \in part }
<1>1. /\ \A a \in Positions : find[a] = top[s] => planned[a] \in Members(s)
      /\ \A i \in Members(s) : \E a \in Positions : i = planned[a] /\ find[a] = top[s]
  BY DEF Rooted
<1>2. \A c \in Edges : c[1] \in Positions /\ c[2] \in Positions /\ c[1] < c[2]
  BY PlanShape
<1>3. /\ Len(planned) \in Nat
      /\ \A a \in Positions : file[planned[a]] \in Component
      /\ \A a, b \in Positions : planned[a] = planned[b] => a = b
  BY PlanShape, FileType, PlannedType DEF PlanInv, PlanTypeOK, Grouped, Positions
<1>4. ASSUME NEW c \in Edges
      PROVE  c[1] \in P <=> c[2] \in P
  <2>1. c[1] \in Positions /\ c[2] \in Positions /\ find[c[1]] = find[c[2]]
    BY <1>2, ContendingAreTied
  <2>2. Contend(file[planned[c[1]]], file[planned[c[2]]]) /\ Contend(file[planned[c[2]]], file[planned[c[1]]])
    BY <1>2, <1>3, ContendingAreTied, ContentionIsConflict
  <2>3. \A a, b \in Positions : a \in P /\ find[a] = find[b] => planned[b] \in Members(s)
    <3>1. ASSUME NEW a \in Positions, NEW b \in Positions, a \in P, find[a] = find[b]
          PROVE  planned[b] \in Members(s)
      <4>1. planned[a] \in Members(s)
        BY <3>1
      <4>2. PICK d \in Positions : planned[a] = planned[d] /\ find[d] = top[s]
        BY <1>1, <4>1
      <4>3. QED
        BY <1>1, <1>3, <3>1, <4>2
    <3>2. QED
      BY <3>1
  <2>4. QED
    BY <2>1, <2>2, <2>3
<1>5. P \in Unparted
  BY <1>4 DEF Unparted
<1>6. \A a \in Positions : a \in P <=> find[a] \in P
  BY <1>5 DEF PlanInv, Grouped
<1>7. PICK i \in part, j \in Members(s) \ part : TRUE
  OBVIOUS
<1>8. PICK a \in Positions : i = planned[a] /\ find[a] = top[s]
  BY <1>1, <1>7
<1>9. PICK b \in Positions : j = planned[b] /\ find[b] = top[s]
  BY <1>1, <1>7
<1>10. QED
  BY <1>6, <1>7, <1>8, <1>9

(***************************************************************************)
(* A job lists exactly the contending pairs among its members.             *)
(***************************************************************************)
LEMMA ShardsListTheirPairs ==
  ASSUME PlanInv, phase = "planned", NEW top, Rooted(top), NEW s \in DOMAIN shards
  PROVE  { {c[1], c[2]} : c \in shards[s].conflicts } =
           { {p[1], p[2]} : p \in { q \in Members(s) \X Members(s) :
                                      q[1] < q[2] /\ Contend(file[q[1]], file[q[2]]) } }
<1> DEFINE own == { d \in Edges : find[d[1]] = top[s] }
           listed == { <<planned[c[1]], planned[c[2]], c[3]>> : c \in own }
           apart == { q \in Members(s) \X Members(s) : q[1] < q[2] /\ Contend(file[q[1]], file[q[2]]) }
<1>1. shards[s].conflicts = listed
  <2>1. shards[s] = shardOf(top[s])
    BY DEF Rooted
  <2>2. shardOf(top[s]).conflicts = listed
    BY DEF shardOf, Edges
  <2>3. QED
    BY <2>1, <2>2
<1>2. \A a \in Positions : find[a] = top[s] => planned[a] \in Members(s)
  BY DEF Rooted
<1>3. \A i \in Members(s) : \E a \in Positions : i = planned[a] /\ find[a] = top[s]
  BY DEF Rooted
<1>4. /\ \A a, b \in Positions : a < b => planned[a] < planned[b]
      /\ \A a \in Positions : planned[a] \in Nat
  <2>1. planned = Ascending(Suites) /\ file \in Files
    BY DEF PlanInv, PlanTypeOK, Grouped
  <2>2. \A a \in Positions : planned[a] \in Suites
    BY PlanShape
  <2>3. Suites \subseteq Nat
    BY <2>1, FileType
  <2>4. \A a, b \in Positions : a < b => planned[a] < planned[b]
    BY <2>1, PlannedType DEF Positions
  <2>5. QED
    BY <2>2, <2>3, <2>4
<1>5. ASSUME NEW d \in listed
      PROVE  <<d[1], d[2]>> \in apart
  <2>1. PICK c \in own : d = <<planned[c[1]], planned[c[2]], c[3]>>
    OBVIOUS
  <2>2. c[1] \in Positions /\ c[2] \in Positions /\ c[1] < c[2]
    BY <2>1, PlanShape
  <2>3. find[c[1]] = top[s] /\ find[c[2]] = top[s]
    BY <2>1, ContendingAreTied
  <2>4. Contend(file[planned[c[1]]], file[planned[c[2]]])
    BY <2>1, <2>2, ContendingAreTied
  <2>5. planned[c[1]] \in Members(s) /\ planned[c[2]] \in Members(s) /\ planned[c[1]] < planned[c[2]]
    BY <1>2, <1>4, <2>2, <2>3
  <2>6. QED
    BY <2>1, <2>4, <2>5
<1>6. ASSUME NEW q \in apart
      PROVE  \E d \in listed : d[1] = q[1] /\ d[2] = q[2]
  <2>1. q[1] \in Members(s) /\ q[2] \in Members(s) /\ q[1] < q[2] /\ Contend(file[q[1]], file[q[2]])
    OBVIOUS
  <2>2. PICK a \in Positions : q[1] = planned[a] /\ find[a] = top[s]
    BY <1>3, <2>1
  <2>3. PICK b \in Positions : q[2] = planned[b] /\ find[b] = top[s]
    BY <1>3, <2>1
  <2>4. a < b
    <3>1. a \in Nat /\ b \in Nat /\ planned[a] \in Nat /\ planned[b] \in Nat
      BY <1>4 DEF Positions
    <3>2. a # b /\ ~(b < a)
      BY <1>4, <2>1, <2>2, <2>3, <3>1
    <3>3. QED
      BY <3>1, <3>2
  <2>5. PICK c \in Edges : c[1] = a /\ c[2] = b
    BY <2>1, <2>2, <2>3, <2>4, ContendingAreTied
  <2>6. <<planned[c[1]], planned[c[2]], c[3]>> \in listed
    BY <2>2, <2>5
  <2>7. QED
    BY <2>2, <2>3, <2>5, <2>6
<1> HIDE DEF own, listed, apart
<1>7. { {c[1], c[2]} : c \in listed } \subseteq { {p[1], p[2]} : p \in apart }
  <2> SUFFICES ASSUME NEW c \in listed PROVE {c[1], c[2]} \in { {p[1], p[2]} : p \in apart }
    OBVIOUS
  <2>1. <<c[1], c[2]>> \in apart
    BY <1>5
  <2>2. QED
    BY <2>1
<1>8. { {p[1], p[2]} : p \in apart } \subseteq { {c[1], c[2]} : c \in listed }
  <2> SUFFICES ASSUME NEW p \in apart PROVE {p[1], p[2]} \in { {c[1], c[2]} : c \in listed }
    OBVIOUS
  <2>1. PICK d \in listed : d[1] = p[1] /\ d[2] = p[2]
    BY <1>6
  <2>2. QED
    BY <2>1
<1>9. QED
  BY <1>1, <1>7, <1>8 DEF apart

LEMMA ShardsAreTheGroups ==
  ASSUME PlanInv
  PROVE  ShardsAreConflictGroups
<1> SUFFICES ASSUME phase = "planned"
             PROVE  /\ \A s, t \in DOMAIN shards : s # t =>
                          \A i \in Members(s), j \in Members(t) : ~Contend(file[i], file[j])
                    /\ \A s \in DOMAIN shards : \A part \in (SUBSET Members(s)) \ {{}, Members(s)} :
                          \E i \in part, j \in Members(s) \ part : Contend(file[i], file[j])
                    /\ \A s \in DOMAIN shards :
                          { {c[1], c[2]} : c \in shards[s].conflicts } =
                            { {p[1], p[2]} : p \in { q \in Members(s) \X Members(s) :
                                                       q[1] < q[2] /\ Contend(file[q[1]], file[q[2]]) } }
  BY DEF ShardsAreConflictGroups
<1>1. PICK top : Rooted(top)
  BY ShardsAreRooted
<1>2. \A s, t \in DOMAIN shards : s # t =>
        \A i \in Members(s), j \in Members(t) : ~Contend(file[i], file[j])
  BY <1>1, ShardsKeepPairsTogether
<1>3. \A s \in DOMAIN shards : \A part \in (SUBSET Members(s)) \ {{}, Members(s)} :
        \E i \in part, j \in Members(s) \ part : Contend(file[i], file[j])
  BY <1>1, ShardsDoNotSplit
<1>4. \A s \in DOMAIN shards :
        { {c[1], c[2]} : c \in shards[s].conflicts } =
          { {p[1], p[2]} : p \in { q \in Members(s) \X Members(s) :
                                     q[1] < q[2] /\ Contend(file[q[1]], file[q[2]]) } }
  BY <1>1, ShardsListTheirPairs
<1>5. QED
  BY <1>2, <1>3, <1>4

(***************************************************************************)
(* A component with a suite is in the one job of its root, once.           *)
(***************************************************************************)
LEMMA EachInOneJob ==
  ASSUME PlanInv, phase = "planned", NEW top, Rooted(top), NEW i \in DOMAIN file, file[i].hasSuite
  PROVE  Cardinality({ p \in UNION { {s} \X (DOMAIN shards[s].members) : s \in DOMAIN shards } :
                         shards[p[1]].members[p[2]] = i }) = 1
<1> DEFINE places == { p \in UNION { {s} \X (DOMAIN shards[s].members) : s \in DOMAIN shards } :
                         shards[p[1]].members[p[2]] = i }
<1>1. /\ \A a, b \in Positions : planned[a] = planned[b] => a = b
      /\ ToSet(planned) = Suites /\ DOMAIN planned = Positions
  BY PlanShape, PlannedType DEF PlanInv, PlanTypeOK, Grouped, Positions
<1>2. PICK a \in Positions : planned[a] = i
  BY <1>1 DEF Suites, ToSet
<1>3. PICK s \in DOMAIN shards : find[a] = top[s]
  BY DEF Rooted
<1>4. Members(s) = { planned[b] : b \in { j \in Positions : find[j] = top[s] } }
  BY DEF Rooted
<1>5. PICK n \in DOMAIN shards[s].members : shards[s].members[n] = i
  BY <1>2, <1>3, <1>4 DEF Members, ToSet
<1>6. <<s, n>> \in places
  BY <1>5
<1>7. ASSUME NEW p \in places
      PROVE  p = <<s, n>>
  <2>1. PICK t \in DOMAIN shards : p \in {t} \X (DOMAIN shards[t].members)
    OBVIOUS
  <2>2. p = <<t, p[2]>> /\ p[2] \in DOMAIN shards[t].members /\ shards[t].members[p[2]] = i
    BY <2>1
  <2>3. i \in Members(t)
    BY <2>2 DEF Members, ToSet
  <2>4. PICK b \in Positions : i = planned[b] /\ find[b] = top[t]
    BY <2>3 DEF Rooted
  <2>5. t = s
    <3>1. b = a /\ top[t] = top[s]
      BY <1>1, <1>2, <1>3, <2>4
    <3>2. QED
      BY <3>1 DEF Rooted
  <2>6. p[2] = n
    BY <1>5, <2>2, <2>5 DEF Rooted
  <2>7. QED
    BY <2>2, <2>5, <2>6
<1>8. places = {<<s, n>>}
  BY <1>6, <1>7
<1>9. QED
  BY <1>8, FS_Singleton

LEMMA JobsArePartition ==
  ASSUME PlanInv
  PROVE  EveryComponentInOneJob
<1> SUFFICES ASSUME phase = "planned"
             PROVE  /\ \A i \in DOMAIN file : file[i].hasSuite =>
                          Cardinality({ p \in UNION { {s} \X (DOMAIN shards[s].members) : s \in DOMAIN shards } :
                                          shards[p[1]].members[p[2]] = i }) = 1
                    /\ \A s \in DOMAIN shards : \A i \in Members(s) : file[i].hasSuite
                    /\ \A s, t \in DOMAIN shards : s < t =>
                          \E i \in Members(s) : \A j \in Members(t) : i < j
                    /\ \A s, t \in DOMAIN shards : shardName(shards[s]) = shardName(shards[t]) => s = t
  BY DEF EveryComponentInOneJob
<1>1. PICK top : Rooted(top)
  BY ShardsAreRooted
<1>2. \A i \in DOMAIN file : file[i].hasSuite =>
        Cardinality({ p \in UNION { {s} \X (DOMAIN shards[s].members) : s \in DOMAIN shards } :
                        shards[p[1]].members[p[2]] = i }) = 1
  BY <1>1, EachInOneJob
<1>3. /\ \A a \in Positions : planned[a] \in Suites
      /\ RootsIn(Len(planned), parent, find) /\ Len(planned) \in Nat
      /\ \A a, b \in Positions : a < b => planned[a] < planned[b]
  BY PlanShape, PlannedType DEF PlanInv, PlanTypeOK, Grouped, Positions
<1>4. \A s \in DOMAIN shards : \A i \in Members(s) : file[i].hasSuite
  BY <1>1, <1>3 DEF Rooted, Suites
<1>5. ASSUME NEW s \in DOMAIN shards, NEW t \in DOMAIN shards, s < t
      PROVE  \E i \in Members(s) : \A j \in Members(t) : i < j
  <2>1. top[s] \in Positions /\ find[top[s]] = top[s] /\ top[t] \in Positions /\ top[s] < top[t]
    BY <1>1, <1>5 DEF Rooted
  <2>2. planned[top[s]] \in Members(s)
    BY <1>1, <2>1 DEF Rooted
  <2>3. ASSUME NEW j \in Members(t)
        PROVE  planned[top[s]] < j
    <3>1. PICK b \in Positions : j = planned[b] /\ find[b] = top[t]
      BY <1>1 DEF Rooted
    <3>2. top[t] \in 1 .. b
      BY <1>3, <3>1 DEF RootsIn, Positions
    <3>3. top[s] < b
      BY <2>1, <3>2 DEF Positions
    <3>4. QED
      BY <1>3, <2>1, <3>1, <3>3
  <2>4. QED
    BY <2>2, <2>3
<1>6. ASSUME NEW s \in DOMAIN shards, NEW t \in DOMAIN shards, shardName(shards[s]) = shardName(shards[t])
      PROVE  s = t
  <2>1. s \in Nat /\ t \in Nat
    BY <1>1 DEF Rooted
  <2>2. <<s, t>> \notin clashing /\ <<t, s>> \notin clashing
    BY DEF PlanInv, NamesDiffer
  <2>3. ~(s < t) /\ ~(t < s)
    BY <1>6, <2>2 DEF clashing
  <2>4. QED
    BY <2>1, <2>3
<1>7. QED
  BY <1>2, <1>4, <1>5, <1>6

(***************************************************************************)
(* The jobs of every matrix that is planned, of whatever declaration and   *)
(* whatever the order its conflicts were joined in, are the finest         *)
(* grouping of the components with a suite that parts no contending pair:  *)
(* each component in one job, the jobs in declaration order and of names   *)
(* that differ.                                                            *)
(***************************************************************************)
THEOREM MatrixPartitions == PlanSpec => []MatrixIsThePartition
<1>1. PlanInv => MatrixIsThePartition
  BY ShardsAreTheGroups, JobsArePartition DEF MatrixIsThePartition
<1>2. QED
  BY PlanInitInv, PlanNextInv, <1>1, PTL DEF PlanSpec
-------------------------------------------------------------------------------
(***************************************************************************)
(*                            A matrix and its merge                       *)
(***************************************************************************)

(***************************************************************************)
(* The directory a job leaves, when it leaves one.                         *)
(***************************************************************************)
Came(fault, members, found) ==
    LET dir == written(asked(fault), members, found)
    IN  CASE fault = "unreadable" -> Unreadable
          [] fault = "lost" -> [dir EXCEPT !.doc = noDocument]
          [] fault = "torn" -> [dir EXCEPT !.doc = [noDocument EXCEPT !.state = "torn"]]
          [] OTHER -> dir

Answered(j) == [i \in Members(j) |-> picked[i]]

HandedBy(j) == Came(faults[j], Members(j), Answered(j))

(***************************************************************************)
(* Which job each directory is from: every job that did not die has one,   *)
(* one that is handed over twice has two, and when neither happened the    *)
(* directories are the jobs'.                                              *)
(***************************************************************************)
From(o) ==
    /\ o \in [DOMAIN inputs -> DOMAIN faults]
    /\ \A k \in DOMAIN inputs : faults[o[k]] # "died" /\ inputs[k] = HandedBy(o[k])
    /\ \A j \in DOMAIN faults : faults[j] # "died" => \E k \in DOMAIN inputs : o[k] = j
    /\ \A j \in DOMAIN faults : faults[j] = "twice" => \E k, l \in DOMAIN inputs : k # l /\ o[k] = j /\ o[l] = j
    /\ (\A j \in DOMAIN faults : faults[j] \notin {"died", "twice"}) =>
          Len(inputs) = Len(faults) /\ \A k \in DOMAIN inputs : o[k] = k

Commands ==
    [command : {"test"}, mode : Modes, affected : BOOLEAN] \cup
    [command : {"mutation"}, mode : {"gate", "no gate"}, affected : BOOLEAN]

JobsRun ==
    /\ phase = "planned" /\ file \in Tested /\ run \in Commands
    /\ faults \in Seq(Fault) /\ Len(faults) <= Len(shards)
    /\ DOMAIN picked = UNION { Members(j) : j \in DOMAIN faults }
    /\ \A j \in DOMAIN faults : /\ faults[j] \in {"none"} \cup mayHappen
                                /\ \A i \in Members(j) : picked[i] \in answers(faults[j], i)
    /\ Len(inputs) \in Nat /\ inputs = [k \in 1 .. Len(inputs) |-> inputs[k]]
    /\ \E o : From(o)

Folded ==
    /\ inputs # <<>> /\ Len(faults) = Len(shards)
    /\ merged = IF run.command = "test" THEN [rows |-> Merged(inputs, decl), incomplete |-> FALSE]
                                          ELSE MergedMutation(inputs, decl)

MatrixInv ==
    /\ PlanInv
    /\ step \in {"planning", "running", "folded", "refused"}
    /\ step = "planning" => faults = <<>> /\ picked = <<>> /\ inputs = <<>>
    /\ step # "planning" => JobsRun
    /\ step = "folded" => Folded

(***************************************************************************)
(* The jobs of a planned matrix: each has components, all of them with a   *)
(* suite, no two share one, and together they have all.                    *)
(***************************************************************************)
LEMMA Jobs ==
  ASSUME PlanInv, phase = "planned"
  PROVE  /\ Len(shards) \in Nat /\ DOMAIN shards = 1 .. Len(shards)
         /\ \A j \in DOMAIN shards : Members(j) # {} /\ Members(j) \subseteq Suites
         /\ \A j, k \in DOMAIN shards : \A i \in Members(j) : i \in Members(k) => j = k
         /\ \A i \in Suites : \E j \in DOMAIN shards : i \in Members(j)
<1>1. PICK top : Rooted(top)
  BY ShardsAreRooted
<1>2. /\ \A a, b \in Positions : planned[a] = planned[b] => a = b
      /\ ToSet(planned) = Suites /\ DOMAIN planned = Positions
      /\ \A a \in Positions : planned[a] \in Suites
  BY PlanShape, PlannedType DEF PlanInv, PlanTypeOK, Grouped, Positions
<1>3. ASSUME NEW j \in DOMAIN shards
      PROVE  Members(j) # {} /\ Members(j) \subseteq Suites
  <2>1. top[j] \in Positions /\ find[top[j]] = top[j]
        /\ Members(j) = { planned[i] : i \in { n \in Positions : find[n] = top[j] } }
    BY <1>1 DEF Rooted
  <2>2. planned[top[j]] \in Members(j)
    BY <2>1
  <2>3. QED
    BY <1>2, <2>1, <2>2
<1>4. ASSUME NEW j \in DOMAIN shards, NEW k \in DOMAIN shards, NEW i \in Members(j), i \in Members(k)
      PROVE  j = k
  <2>1. PICK a \in Positions : i = planned[a] /\ find[a] = top[j]
    BY <1>1 DEF Rooted
  <2>2. PICK b \in Positions : i = planned[b] /\ find[b] = top[k]
    BY <1>1, <1>4 DEF Rooted
  <2>3. top[j] = top[k]
    BY <1>2, <2>1, <2>2
  <2>4. QED
    BY <1>1, <2>3 DEF Rooted
<1>5. ASSUME NEW i \in Suites
      PROVE  \E j \in DOMAIN shards : i \in Members(j)
  <2>1. PICK a \in Positions : planned[a] = i
    BY <1>2 DEF ToSet
  <2>2. PICK j \in DOMAIN shards : find[a] = top[j]
    BY <1>1 DEF Rooted
  <2>3. QED
    BY <1>1, <2>1, <2>2 DEF Rooted
<1>6. Len(shards) \in Nat /\ DOMAIN shards = 1 .. Len(shards)
  <2>1. shards = [n \in DOMAIN Ascending(firsts) |-> shardOf(find[Ascending(firsts)[n]])]
    BY DEF PlanInv, Listed
  <2>2. firsts \in SUBSET Positions
    BY PlanShape DEF firsts
  <2>3. IsFiniteSet(firsts) /\ firsts \in SUBSET Nat
    <3>1. Len(planned) \in Nat
      BY PlanShape
    <3>2. IsFiniteSet(Positions) /\ Positions \subseteq Nat
      BY <3>1, FS_Interval DEF Positions
    <3>3. QED
      BY <2>2, <3>2, FS_Subset
  <2>4. Cardinality(firsts) \in Nat /\ DOMAIN Ascending(firsts) = 1 .. Cardinality(firsts)
    BY <2>3, AscendingLists
  <2>5. QED
    BY <2>1, <2>4
<1>7. QED
  BY <1>3, <1>4, <1>5, <1>6

(***************************************************************************)
(* A job leaves its directory, twice or not at all.                        *)
(***************************************************************************)
LEMMA LeftIs ==
  ASSUME NEW fault, NEW members, NEW found
  PROVE  left(fault, members, found) =
            IF fault = "died" THEN <<>>
            ELSE IF fault = "twice" THEN <<Came(fault, members, found), Came(fault, members, found)>>
            ELSE <<Came(fault, members, found)>>
<1> DEFINE dir == written(asked(fault), members, found)
<1>1. CASE fault = "died"
  BY <1>1 DEF left
<1>2. CASE fault = "unreadable"
  BY <1>2 DEF left, Came
<1>3. CASE fault = "lost"
  BY <1>3 DEF left, Came
<1>4. CASE fault = "torn"
  BY <1>4 DEF left, Came
<1>5. CASE fault = "twice"
  BY <1>5 DEF left, Came
<1>6. CASE fault \notin {"died", "unreadable", "lost", "torn", "twice"}
  BY <1>6 DEF left, Came
<1>7. QED
  BY <1>1, <1>2, <1>3, <1>4, <1>5, <1>6

\* What a job writes depends on what it is asked, its components and their answers.
LEMMA JobsAreSteady ==
  ASSUME UNCHANGED <<file, shards, run>>
  PROVE  /\ decl' = decl /\ mayHappen' = mayHappen /\ \A j : Members(j)' = Members(j)
         /\ \A fault, i : answers(fault, i)' = answers(fault, i)
         /\ \A fault, members, found : Came(fault, members, found)' = Came(fault, members, found)
<1>1. decl' = decl
  BY DEF decl
<1>2. mayHappen' = mayHappen
  BY DEF mayHappen
<1>3. \A j : Members(j)' = Members(j)
  BY DEF Members
<1>4. \A fault, i : answers(fault, i)' = answers(fault, i)
  BY <1>1 DEF answers
<1>5. ASSUME NEW fault, NEW members, NEW found
      PROVE  Came(fault, members, found)' = Came(fault, members, found)
  <2>1. asked(fault)' = asked(fault) /\ noDocument' = noDocument
    BY DEF asked, noDocument
  <2>2. written(asked(fault), members, found)' = written(asked(fault), members, found)
    BY <1>1, <2>1 DEF written
  <2>3. QED
    BY <2>1, <2>2 DEF Came
<1>6. QED
  BY <1>1, <1>2, <1>3, <1>4, <1>5

(***************************************************************************)
(* The invariant: which job each directory is from, what the jobs          *)
(* answered, and what was folded.                                          *)
(***************************************************************************)
LEMMA MatrixInitInv == MatrixInit => MatrixInv
BY PlanInitInv DEF MatrixInit, MatrixInv

LEMMA RunJobInv ==
  ASSUME MatrixInv, RunJob
  PROVE  MatrixInv'
<1>0. PICK j, n : j = Len(faults) + 1 /\ n = Len(inputs)
  OBVIOUS
<1>1. /\ UNCHANGED <<planVars, step, run, merged>> /\ step = "running"
      /\ UNCHANGED <<file, phase, planned, parent, todo, shards>>
      /\ Len(faults) < Len(shards)
  BY DEF RunJob, planVars
<1>2. PlanInv /\ JobsRun
  BY <1>1 DEF MatrixInv
<1>3. PlanInv'
  BY <1>1, <1>2, PlanNextInv
<1>4. PICK fault \in {"none"} \cup mayHappen, found \in [Members(j) -> IF run.command = "test" THEN Profiles ELSE Outcomes] :
        /\ \A i \in DOMAIN found : found[i] \in answers(fault, i)
        /\ faults' = Append(faults, fault)
        /\ picked' = [i \in DOMAIN picked \cup DOMAIN found |->
                         IF i \in DOMAIN found THEN found[i] ELSE picked[i]]
        /\ inputs' = inputs \o left(fault, Members(j), found)
  BY <1>0 DEF RunJob
<1>5. /\ decl' = decl /\ mayHappen' = mayHappen /\ \A k : Members(k)' = Members(k)
      /\ \A g, i : answers(g, i)' = answers(g, i)
      /\ \A g, members, f : Came(g, members, f)' = Came(g, members, f)
  BY <1>1, JobsAreSteady
<1>6. /\ Len(shards) \in Nat /\ DOMAIN shards = 1 .. Len(shards)
      /\ \A k, l \in DOMAIN shards : \A i \in Members(k) : i \in Members(l) => k = l
  BY <1>2, Jobs DEF JobsRun
<1>7. /\ faults \in Seq(Fault) /\ Len(faults) \in Nat /\ DOMAIN faults = 1 .. Len(faults) /\ j \in DOMAIN shards
      /\ \A k \in DOMAIN faults : k \in DOMAIN shards /\ k # j
  BY <1>0, <1>1, <1>2, <1>6 DEF JobsRun
<1>8. fault \in Fault
  BY DEF mayHappen, Fault
<1>9. /\ faults' \in Seq(Fault) /\ DOMAIN faults' = 1 .. j /\ Len(faults') = j
      /\ faults'[j] = fault /\ \A k \in DOMAIN faults : faults'[k] = faults[k]
  BY <1>0, <1>4, <1>7, <1>8
<1>10. DOMAIN found = Members(j)
  BY <1>4
<1>11. DOMAIN picked = UNION { Members(k) : k \in DOMAIN faults }
  BY <1>2 DEF JobsRun
<1>12. \A i \in Members(j) : i \in DOMAIN picked' /\ picked'[i] = found[i]
  BY <1>4, <1>10
<1>13. \A k \in DOMAIN faults : \A i \in Members(k) : i \in DOMAIN picked' /\ picked'[i] = picked[i]
  BY <1>4, <1>6, <1>7, <1>10, <1>11
<1>14. /\ Answered(j)' = found
       /\ \A k \in DOMAIN faults : Answered(k)' = Answered(k)
  <2>1. Answered(j)' = [i \in Members(j) |-> picked'[i]]
    BY <1>5 DEF Answered
  <2>2. Answered(j)' = found
    BY <1>4, <1>12, <2>1
  <2>3. ASSUME NEW k \in DOMAIN faults
        PROVE  Answered(k)' = Answered(k)
    <3>1. Answered(k)' = [i \in Members(k) |-> picked'[i]]
      BY <1>5 DEF Answered
    <3>2. QED
      BY <1>13, <3>1 DEF Answered
  <2>4. QED
    BY <2>2, <2>3
<1> DEFINE c == Came(fault, Members(j), found)
<1>15. /\ HandedBy(j)' = c
       /\ \A k \in DOMAIN faults : HandedBy(k)' = HandedBy(k)
  BY <1>5, <1>9, <1>14 DEF HandedBy
<1>16. n \in Nat /\ inputs = [k \in 1 .. n |-> inputs[k]] /\ DOMAIN inputs = 1 .. n
  BY <1>0, <1>2 DEF JobsRun
<1>17. PICK o : From(o)
  BY <1>2 DEF JobsRun
<1> DEFINE m == IF fault = "died" THEN 0 ELSE IF fault = "twice" THEN 2 ELSE 1
<1> HIDE DEF c
<1>18. /\ Len(inputs') = n + m /\ DOMAIN inputs' = 1 .. (n + m)
       /\ inputs' = [k \in 1 .. (n + m) |-> inputs'[k]]
       /\ \A k \in 1 .. n : inputs'[k] = inputs[k]
       /\ \A k \in (n + 1) .. (n + m) : inputs'[k] = c
  <2> DEFINE S == { inputs[k] : k \in 1 .. n } \cup {c}
             L == left(fault, Members(j), found)
  <2>1. inputs \in Seq(S)
    BY <1>16
  <2>2. L = IF fault = "died" THEN <<>> ELSE IF fault = "twice" THEN <<c, c>> ELSE <<c>>
    BY LeftIs DEF c
  <2> HIDE DEF S, L
  <2>3. c \in S
    BY DEF S
  <2>4. /\ L \in Seq(S) /\ Len(L) = m /\ m \in Nat
        /\ \A k \in 1 .. m : L[k] = c
    BY <2>2, <2>3
  <2>5. inputs' = inputs \o L
    BY <1>4 DEF L
  <2> HIDE DEF m
  <2>6. /\ inputs \o L \in Seq(S) /\ Len(inputs \o L) = n + m
        /\ \A k \in 1 .. (n + m) : (inputs \o L)[k] = IF k <= n THEN inputs[k] ELSE L[k - n]
    BY <1>0, <2>1, <2>4
  <2>7. \A k \in (n + 1) .. (n + m) : k \in 1 .. (n + m) /\ ~(k <= n) /\ k - n \in 1 .. m
    BY <1>16, <2>4
  <2>8. \A k \in 1 .. n : k \in 1 .. (n + m)
    BY <1>16, <2>4
  <2>9. DOMAIN inputs' = 1 .. (n + m) /\ inputs' = [k \in 1 .. (n + m) |-> inputs'[k]]
    BY <1>16, <2>4, <2>5, <2>6
  <2>10. QED
    BY <2>4, <2>5, <2>6, <2>7, <2>8, <2>9
<1>c. PICK p : p = [k \in 1 .. (n + m) |-> IF k \in 1 .. n THEN o[k] ELSE j]
  OBVIOUS
<1>19. From(p)'
  <2>1. p \in [DOMAIN inputs' -> DOMAIN faults']
    BY <1>0, <1>7, <1>9, <1>16, <1>17, <1>c, <1>18 DEF From
  <2>2. ASSUME NEW k \in DOMAIN inputs'
        PROVE  faults'[p[k]] # "died" /\ inputs'[k] = HandedBy(p[k])'
    <3>1. CASE k \in 1 .. n
      BY <1>9, <1>15, <1>16, <1>17, <1>c, <1>18, <3>1 DEF From
    <3>2. CASE k \notin 1 .. n
      <4>1. k \in (n + 1) .. (n + m) /\ p[k] = j
        BY <1>0, <1>16, <1>c, <1>18, <3>2
      <4>2. fault # "died"
        BY <1>16, <4>1
      <4>3. QED
        BY <1>9, <1>15, <1>c, <1>18, <4>1, <4>2 DEF c
    <3>3. QED
      BY <3>1, <3>2
  <2>3. ASSUME NEW l \in DOMAIN faults', faults'[l] # "died"
        PROVE  \E k \in DOMAIN inputs' : p[k] = l
    <3>1. CASE l \in DOMAIN faults
      <4>1. PICK k \in DOMAIN inputs : o[k] = l
        BY <1>9, <1>17, <2>3, <3>1 DEF From
      <4>2. k \in DOMAIN inputs' /\ p[k] = l
        BY <1>0, <1>16, <1>c, <1>18, <4>1
      <4>3. QED
        BY <4>2
    <3>2. CASE l = j
      <4>1. n + 1 \in DOMAIN inputs' /\ p[n + 1] = j
        BY <1>9, <1>16, <1>c, <1>18, <2>3, <3>2
      <4>2. QED
        BY <3>2, <4>1
    <3>3. QED
      BY <1>0, <1>7, <1>9, <3>1, <3>2
  <2>4. ASSUME NEW l \in DOMAIN faults', faults'[l] = "twice"
        PROVE  \E k, h \in DOMAIN inputs' : k # h /\ p[k] = l /\ p[h] = l
    <3>1. CASE l \in DOMAIN faults
      <4>1. PICK k \in DOMAIN inputs, h \in DOMAIN inputs : k # h /\ o[k] = l /\ o[h] = l
        BY <1>9, <1>17, <2>4, <3>1 DEF From
      <4>2. k \in DOMAIN inputs' /\ p[k] = l /\ h \in DOMAIN inputs' /\ p[h] = l
        BY <1>0, <1>16, <1>c, <1>18, <4>1
      <4>3. QED
        BY <4>1, <4>2
    <3>2. CASE l = j
      <4>1. m = 2
        BY <1>9, <2>4, <3>2
      <4>2. n + 1 \in DOMAIN inputs' /\ p[n + 1] = j /\ n + 2 \in DOMAIN inputs' /\ p[n + 2] = j
        BY <1>0, <1>16, <1>c, <1>18, <4>1
      <4>3. n + 1 # n + 2
        BY <1>16
      <4>4. QED
        BY <3>2, <4>2, <4>3
    <3>3. QED
      BY <1>0, <1>7, <1>9, <3>1, <3>2
  <2>5. ASSUME \A l \in DOMAIN faults' : faults'[l] \notin {"died", "twice"}
        PROVE  Len(inputs') = Len(faults') /\ \A k \in DOMAIN inputs' : p[k] = k
    <3>1. \A l \in DOMAIN faults : faults[l] \notin {"died", "twice"}
      BY <1>0, <1>7, <1>9, <2>5
    <3>2. Len(inputs) = Len(faults) /\ \A k \in DOMAIN inputs : o[k] = k
      BY <1>17, <3>1 DEF From
    <3>3. m = 1
      BY <1>0, <1>9, <1>7, <2>5
    <3>4. QED
      BY <1>0, <1>7, <1>9, <1>16, <1>c, <1>18, <3>2, <3>3
  <2>6. QED
    BY <2>1, <2>2, <2>3, <2>4, <2>5 DEF From
<1>20. JobsRun'
  <2>1. run \in Commands /\ phase = "planned" /\ file \in Tested
    BY <1>2 DEF JobsRun
  <2>2. (phase = "planned" /\ file \in Tested /\ run \in Commands)'
    BY <1>1, <2>1 DEF Commands
  <2>3. (faults \in Seq(Fault) /\ Len(faults) <= Len(shards))'
    BY <1>0, <1>1, <1>6, <1>7, <1>9
  <2>4. DOMAIN picked' = UNION { Members(k)' : k \in DOMAIN faults' }
    <3>1. DOMAIN picked' = DOMAIN picked \cup Members(j)
      BY <1>4, <1>10
    <3>2. UNION { Members(k) : k \in DOMAIN faults' } = DOMAIN picked \cup Members(j)
      BY <1>0, <1>7, <1>9, <1>11
    <3>3. QED
      BY <1>5, <3>1, <3>2
  <2>5. ASSUME NEW k \in DOMAIN faults'
        PROVE  (/\ faults[k] \in {"none"} \cup mayHappen
                /\ \A i \in Members(k) : picked[i] \in answers(faults[k], i))'
    <3>1. CASE k \in DOMAIN faults
      <4>1. faults[k] \in {"none"} \cup mayHappen /\ \A i \in Members(k) : picked[i] \in answers(faults[k], i)
        BY <1>2, <3>1 DEF JobsRun
      <4>2. faults'[k] = faults[k] /\ \A i \in Members(k) : picked'[i] = picked[i]
        BY <1>9, <1>13, <3>1
      <4>3. QED
        BY <1>5, <4>1, <4>2
    <3>2. CASE k = j
      <4>1. faults'[k] = fault /\ \A i \in Members(k) : picked'[i] \in answers(fault, i)
        BY <1>4, <1>9, <1>10, <1>12, <3>2
      <4>2. QED
        BY <1>5, <4>1
    <3>3. QED
      BY <1>0, <1>7, <1>9, <3>1, <3>2
  <2>6. (Len(inputs) \in Nat /\ inputs = [k \in 1 .. Len(inputs) |-> inputs[k]])'
    BY <1>16, <1>18
  <2>7. (\E q : From(q))'
    BY <1>19
  <2>8. (\A k \in DOMAIN faults : /\ faults[k] \in {"none"} \cup mayHappen
                                  /\ \A i \in Members(k) : picked[i] \in answers(faults[k], i))'
    BY <2>5
  <2>9. (DOMAIN picked = UNION { Members(k) : k \in DOMAIN faults })'
    BY <2>4
  <2>10. QED
    BY <2>2, <2>3, <2>6, <2>7, <2>8, <2>9 DEF JobsRun
<1>21. QED
  BY <1>1, <1>3, <1>20 DEF MatrixInv

LEMMA StartJobsInv ==
  ASSUME MatrixInv, StartJobs
  PROVE  MatrixInv'
<1>1. /\ UNCHANGED <<planVars, picked, faults, inputs, merged>> /\ step = "planning" /\ step' = "running"
      /\ UNCHANGED <<file, phase, planned, parent, todo, shards>> /\ phase = "planned" /\ file \in Tested
  BY DEF StartJobs, planVars
<1>2. PlanInv' /\ PlanInv
  BY <1>1, PlanNextInv DEF MatrixInv
<1>3. faults = <<>> /\ picked = <<>> /\ inputs = <<>>
  BY <1>1 DEF MatrixInv
<1>4. run' \in Commands
  <2>1. PICK affected \in BOOLEAN :
          \/ \E mode \in Modes : run' = [command |-> "test", mode |-> mode, affected |-> affected]
          \/ \E mode \in {"gate", "no gate"} : run' = [command |-> "mutation", mode |-> mode, affected |-> affected]
    BY DEF StartJobs
  <2>2. CASE \E mode \in Modes : run' = [command |-> "test", mode |-> mode, affected |-> affected]
    <3>1. PICK mode \in Modes : run' = [command |-> "test", mode |-> mode, affected |-> affected]
      BY <2>2
    <3>2. QED
      BY <3>1 DEF Commands
  <2>3. CASE \E mode \in {"gate", "no gate"} : run' = [command |-> "mutation", mode |-> mode, affected |-> affected]
    <3>1. PICK mode \in {"gate", "no gate"} : run' = [command |-> "mutation", mode |-> mode, affected |-> affected]
      BY <2>3
    <3>2. QED
      BY <3>1 DEF Commands
  <2>4. QED
    BY <2>1, <2>2, <2>3
<1>5. (\E o : From(o))'
  <2>1. PICK p : p = <<>>
    OBVIOUS
  <2>2. From(p)'
    BY <1>1, <1>3, <2>1 DEF From
  <2>3. QED
    BY <2>2
<1>6. JobsRun'
  <2>1. (phase = "planned" /\ file \in Tested /\ run \in Commands)'
    BY <1>1, <1>4
  <2>2. Len(shards) \in Nat
    BY <1>1, <1>2, Jobs
  <2>3. (faults \in Seq(Fault) /\ Len(faults) <= Len(shards))'
    BY <1>1, <1>3, <2>2
  <2>4. (DOMAIN picked = UNION { Members(j) : j \in DOMAIN faults })'
    BY <1>1, <1>3
  <2>5. (\A j \in DOMAIN faults : /\ faults[j] \in {"none"} \cup mayHappen
                                  /\ \A i \in Members(j) : picked[i] \in answers(faults[j], i))'
    BY <1>1, <1>3
  <2>6. (Len(inputs) \in Nat /\ inputs = [k \in 1 .. Len(inputs) |-> inputs[k]])'
    BY <1>1, <1>3
  <2>7. QED
    BY <1>5, <2>1, <2>3, <2>4, <2>5, <2>6 DEF JobsRun
<1>7. QED
  BY <1>1, <1>2, <1>6 DEF MatrixInv

\* The jobs are read and not run: what is said of them stays.
LEMMA JobsRunStays ==
  ASSUME JobsRun, UNCHANGED <<planVars, run, picked, faults, inputs>>
  PROVE  JobsRun'
<1>1. UNCHANGED <<file, phase, planned, parent, todo, shards, run, picked, faults, inputs>>
  BY DEF planVars
<1>2. /\ decl' = decl /\ mayHappen' = mayHappen /\ \A k : Members(k)' = Members(k)
      /\ \A g, i : answers(g, i)' = answers(g, i)
      /\ \A g, members, f : Came(g, members, f)' = Came(g, members, f)
  BY <1>1, JobsAreSteady
<1>3. \A k : HandedBy(k)' = HandedBy(k)
  <2>1. \A k : Answered(k)' = Answered(k)
    BY <1>1, <1>2 DEF Answered
  <2>2. QED
    BY <1>1, <1>2, <2>1 DEF HandedBy
<1>4. \A o : From(o)' <=> From(o)
  BY <1>1, <1>3 DEF From
<1>5. Commands' = Commands
  BY DEF Commands
<1>6. QED
  BY <1>1, <1>2, <1>4, <1>5 DEF JobsRun

LEMMA MatrixNextInv == MatrixInv /\ [MatrixNext]_<<planVars, matrixVars>> => MatrixInv'
<1> SUFFICES ASSUME MatrixInv, [MatrixNext]_<<planVars, matrixVars>>
             PROVE  MatrixInv'
  OBVIOUS
<1>1. CASE Planning
  <2>1. [PlanNext]_planVars /\ UNCHANGED matrixVars /\ step = "planning"
    BY <1>1 DEF Planning, PlanNext
  <2>2. PlanInv'
    BY <2>1, PlanNextInv DEF MatrixInv
  <2>3. QED
    BY <2>1, <2>2 DEF MatrixInv, matrixVars
<1>2. CASE StartJobs
  BY <1>2, StartJobsInv
<1>3. CASE RunJob
  BY <1>3, RunJobInv
<1>4. CASE Merge
  <2>1. /\ UNCHANGED <<planVars, run, picked, faults, inputs>> /\ step = "running"
        /\ UNCHANGED <<file, phase, planned, parent, todo, shards>>
    BY <1>4 DEF Merge, planVars
  <2>2. PlanInv' /\ JobsRun'
    BY <2>1, PlanNextInv, JobsRunStays DEF MatrixInv
  <2>3. decl' = decl
    BY <2>1 DEF decl
  <2>4. CASE step' = "refused"
    BY <2>2, <2>4 DEF MatrixInv
  <2>5. CASE step' # "refused"
    <3>1. /\ step' = "folded" /\ inputs # <<>> /\ Len(faults) = Len(shards)
          /\ merged' = IF run.command = "test" THEN [rows |-> Merged(inputs, decl), incomplete |-> FALSE]
                                               ELSE MergedMutation(inputs, decl)
      BY <1>4, <2>5 DEF Merge
    <3>2. Folded'
      BY <2>1, <2>3, <3>1 DEF Folded
    <3>3. QED
      BY <2>2, <3>1, <3>2 DEF MatrixInv
  <2>6. QED
    BY <2>4, <2>5
<1>5. CASE UNCHANGED <<planVars, matrixVars>>
  <2>1. UNCHANGED <<file, phase, planned, parent, todo, shards, step, run, picked, faults, inputs, merged>>
    BY <1>5 DEF planVars, matrixVars
  <2>2. PlanInv'
    BY <1>5, PlanNextInv DEF MatrixInv
  <2>3. step # "planning" => JobsRun'
    BY <1>5, <2>1, JobsRunStays DEF MatrixInv
  <2>4. decl' = decl
    BY <2>1 DEF decl
  <2>5. step = "folded" => Folded'
    BY <2>1, <2>4 DEF MatrixInv, Folded
  <2>6. QED
    BY <2>1, <2>2, <2>3, <2>5 DEF MatrixInv
<1>6. QED
  BY <1>1, <1>2, <1>3, <1>4, <1>5 DEF MatrixNext, Over

(***************************************************************************)
(* What a run says of one component, by what it was asked and what the     *)
(* component answered, and what it says of the repository.                 *)
(***************************************************************************)
FloorAbout(i, m) ==
    CASE Floor = 0 -> {}
      [] Floor # 0 /\ ~Measured(m) -> {UnmeasuredRow(<<"floor", i>>)}
      [] Floor # 0 /\ Measured(m) /\ ~Meets(m.lines, Floor) -> {Row(<<"floor", i>>, "fail", Numbers(m.lines))}
      [] OTHER -> {}

PatchAbout(i, m, b) ==
    CASE m.touched /\ ~Measured(m) -> {UnmeasuredRow(<<"patch", i>>)}
      [] m.touched /\ Measured(m) /\ Counted(m.new) ->
            {PatchRow(<<"patch", i>>, [new |-> m.new, base |-> ComparableBase(m, b)])}
      [] OTHER -> {}

UngatedAbout(i, m) ==
    {IF Measured(m) THEN Row(<<"coverage", i>>, "context", Numbers(m.lines)) ELSE UnmeasuredRow(<<"coverage", i>>),
     CRAPRow(i, m, NoEntry, FALSE)}

CoverageAbout(mode, i, m, b) ==
    CASE mode = "off" -> {}
      [] mode = "gated" -> {ComponentRow(i, m, b), CRAPRow(i, m, b, TRUE)} \cup PatchAbout(i, m, b) \cup FloorAbout(i, m)
      [] OTHER -> UngatedAbout(i, m) \cup FloorAbout(i, m)

BaselineRow(mode) ==
    CASE mode = "ungated" -> {Row(<<"baseline", 0>>, "context", <<0>>)}
      [] mode = "not gated" -> {Row(<<"baseline", 0>>, "fail", <<>>)}
      [] mode = "own base" -> {Row(<<"baseline", 0>>, "context", <<1>>)}
      [] OTHER -> {}

CurrentOf(ms, base) == [i \in DOMAIN ms |-> IF i \in carriedBy(ms, base) THEN FromEntry(ms[i], base[i]) ELSE ms[i]]

FloorOfAll(ms) == IF Floor = 0 THEN {} ELSE FloorSummaryRow(ms)

CoverageOfAll(mode, ms, base) ==
    CASE mode = "off" -> {}
      [] mode = "gated" -> ComposedRows(CurrentOf(ms, base), carriedBy(ms, base), base, PatchParts(ms, base)) \cup
                           CRAPSummaryOf(ms, carriedBy(ms, base), base) \cup FloorOfAll(ms)
      [] OTHER -> {UngatedComposedRow(ms, {})} \cup CRAPSummaryOf(ms, {}, <<>>) \cup FloorOfAll(ms)

LEMMA FloorRowsAre ==
  ASSUME NEW ms, NEW summary \in BOOLEAN
  PROVE  FloorRows(ms, summary) =
            (UNION { FloorAbout(i, ms[i]) : i \in DOMAIN ms }) \cup (IF summary THEN FloorOfAll(ms) ELSE {})
<1>1. CASE Floor = 0
  BY <1>1 DEF FloorRows, FloorAbout, FloorOfAll
<1>2. CASE Floor # 0
  <2> DEFINE without == { UnmeasuredRow(<<"floor", i>>) : i \in { j \in DOMAIN ms : ~Measured(ms[j]) } }
             under == { Row(<<"floor", i>>, "fail", Numbers(ms[i].lines)) :
                          i \in { j \in DOMAIN ms : Measured(ms[j]) /\ ~Meets(ms[j].lines, Floor) } }
             about == UNION { FloorAbout(i, ms[i]) : i \in DOMAIN ms }
  <2>1. ASSUME NEW i \in DOMAIN ms
        PROVE  /\ ~Measured(ms[i]) => FloorAbout(i, ms[i]) = {UnmeasuredRow(<<"floor", i>>)}
               /\ Measured(ms[i]) /\ ~Meets(ms[i].lines, Floor) =>
                    FloorAbout(i, ms[i]) = {Row(<<"floor", i>>, "fail", Numbers(ms[i].lines))}
               /\ Measured(ms[i]) /\ Meets(ms[i].lines, Floor) => FloorAbout(i, ms[i]) = {}
    BY <1>2 DEF FloorAbout
  <2>2. without \cup under \subseteq about
    BY <2>1
  <2>3. about \subseteq without \cup under
    BY <2>1
  <2>4. without \cup under = about
    BY <2>2, <2>3
  <2>5. QED
    BY <1>2, <2>4 DEF FloorRows, FloorOfAll
<1>3. QED
  BY <1>1, <1>2

LEMMA PatchRowsAre ==
  ASSUME NEW ms, NEW base
  PROVE  PatchRows(ms, base) = UNION { PatchAbout(i, ms[i], base[i]) : i \in DOMAIN ms }
<1> DEFINE parts == PatchParts(ms, base)
           measuredRows == { PatchRow(<<"patch", i>>, parts[i]) : i \in DOMAIN parts }
           without == { UnmeasuredRow(<<"patch", i>>) : i \in { j \in DOMAIN ms : ms[j].touched /\ ~Measured(ms[j]) } }
           about == UNION { PatchAbout(i, ms[i], base[i]) : i \in DOMAIN ms }
<1>1. /\ DOMAIN parts = { j \in DOMAIN ms : ms[j].touched /\ Measured(ms[j]) /\ Counted(ms[j].new) }
      /\ \A i \in DOMAIN parts : parts[i] = [new |-> ms[i].new, base |-> ComparableBase(ms[i], base[i])]
  BY DEF PatchParts
<1> HIDE DEF parts
<1>2. ASSUME NEW i \in DOMAIN ms
      PROVE  /\ ms[i].touched /\ ~Measured(ms[i]) => PatchAbout(i, ms[i], base[i]) = {UnmeasuredRow(<<"patch", i>>)}
             /\ i \in DOMAIN parts => PatchAbout(i, ms[i], base[i]) = {PatchRow(<<"patch", i>>, parts[i])}
             /\ ~(ms[i].touched /\ ~Measured(ms[i])) /\ i \notin DOMAIN parts => PatchAbout(i, ms[i], base[i]) = {}
  BY <1>1 DEF PatchAbout
<1>3. measuredRows \cup without \subseteq about
  BY <1>1, <1>2
<1>4. about \subseteq measuredRows \cup without
  <2>1. ASSUME NEW i \in DOMAIN ms, NEW r \in PatchAbout(i, ms[i], base[i])
        PROVE  r \in measuredRows \cup without
    BY <1>1, <1>2
  <2>2. QED
    BY <2>1
<1>5. QED
  BY <1>3, <1>4 DEF PatchRows, parts

LEMMA CoverageRowsAre ==
  ASSUME NEW mode \in Mode, NEW ms, NEW base, NEW whole \in BOOLEAN
  PROVE  coverageRows(mode, ms, base, whole) =
            (UNION { CoverageAbout(mode, i, ms[i], base[i]) : i \in DOMAIN ms }) \cup BaselineRow(mode) \cup
            (IF whole THEN CoverageOfAll(mode, ms, base) ELSE {})
<1> DEFINE floors == UNION { FloorAbout(i, ms[i]) : i \in DOMAIN ms }
           patches == UNION { PatchAbout(i, ms[i], base[i]) : i \in DOMAIN ms }
           about == UNION { CoverageAbout(mode, i, ms[i], base[i]) : i \in DOMAIN ms }
<1>1. FloorRows(ms, whole) = floors \cup (IF whole THEN FloorOfAll(ms) ELSE {})
  BY FloorRowsAre
<1>2. PatchRows(ms, base) = patches
  BY PatchRowsAre
<1>3. CASE mode = "off"
  <2>1. \A i \in DOMAIN ms : CoverageAbout(mode, i, ms[i], base[i]) = {}
    BY <1>3 DEF CoverageAbout
  <2>2. BaselineRow(mode) = {} /\ CoverageOfAll(mode, ms, base) = {} /\ coverageRows(mode, ms, base, whole) = {}
    BY <1>3 DEF BaselineRow, CoverageOfAll, coverageRows
  <2>3. QED
    BY <2>1, <2>2
<1>4. CASE mode \in {"ungated", "not gated", "own base"}
  <2> DEFINE own == UNION { UngatedAbout(i, ms[i]) : i \in DOMAIN ms }
  <2>1. \A i \in DOMAIN ms : CoverageAbout(mode, i, ms[i], base[i]) = UngatedAbout(i, ms[i]) \cup FloorAbout(i, ms[i])
    BY <1>4 DEF CoverageAbout
  <2>2. about = own \cup floors
    BY <2>1
  <2>3. ungatedRows(ms, whole) =
          own \cup (IF whole THEN {UngatedComposedRow(ms, {})} \cup CRAPSummaryOf(ms, {}, <<>>) ELSE {})
    <3> DEFINE cover(i) == IF Measured(ms[i]) THEN Row(<<"coverage", i>>, "context", Numbers(ms[i].lines))
                                              ELSE UnmeasuredRow(<<"coverage", i>>)
               crap(i) == CRAPRow(i, ms[i], NoEntry, FALSE)
               covers == { cover(i) : i \in DOMAIN ms }
               craps == { crap(i) : i \in DOMAIN ms }
    <3>1. \A i \in DOMAIN ms : UngatedAbout(i, ms[i]) = {cover(i), crap(i)}
      BY DEF UngatedAbout
    <3>2. ungatedRows(ms, whole) =
            covers \cup craps \cup (IF whole THEN {UngatedComposedRow(ms, {})} \cup CRAPSummaryOf(ms, {}, <<>>) ELSE {})
      BY DEF ungatedRows
    <3> HIDE DEF cover, crap
    <3>3. own = covers \cup craps
      BY <3>1
    <3>4. QED
      BY <3>2, <3>3
  <2>4. coverageRows(mode, ms, base, whole) = ungatedRows(ms, whole) \cup FloorRows(ms, whole) \cup BaselineRow(mode)
    BY <1>4 DEF coverageRows, BaselineRow
  <2>5. CoverageOfAll(mode, ms, base) = {UngatedComposedRow(ms, {})} \cup CRAPSummaryOf(ms, {}, <<>>) \cup FloorOfAll(ms)
    BY <1>4 DEF CoverageOfAll
  <2> HIDE DEF about, own, floors
  <2>6. QED
    BY <1>1, <2>2, <2>3, <2>4, <2>5 DEF about
<1>5. CASE mode = "gated"
  <2> DEFINE own == UNION { {ComponentRow(i, ms[i], base[i]), CRAPRow(i, ms[i], base[i], TRUE)} : i \in DOMAIN ms }
             repo == ComposedRows(CurrentOf(ms, base), carriedBy(ms, base), base, PatchParts(ms, base)) \cup
                     CRAPSummaryOf(ms, carriedBy(ms, base), base)
  <2>1. \A i \in DOMAIN ms : CoverageAbout(mode, i, ms[i], base[i]) =
          {ComponentRow(i, ms[i], base[i]), CRAPRow(i, ms[i], base[i], TRUE)} \cup
          PatchAbout(i, ms[i], base[i]) \cup FloorAbout(i, ms[i])
    BY <1>5 DEF CoverageAbout
  <2> DEFINE cover(i) == ComponentRow(i, ms[i], base[i])
             crap(i) == CRAPRow(i, ms[i], base[i], TRUE)
             patch(i) == PatchAbout(i, ms[i], base[i])
             floor(i) == FloorAbout(i, ms[i])
             say(i) == CoverageAbout(mode, i, ms[i], base[i])
             covers == { cover(i) : i \in DOMAIN ms }
             craps == { crap(i) : i \in DOMAIN ms }
  <2>2. about = own \cup patches \cup floors
    <3>1. \A i \in DOMAIN ms : say(i) = {cover(i), crap(i)} \cup patch(i) \cup floor(i)
      BY <2>1
    <3> HIDE DEF cover, crap, patch, floor, say
    <3>2. UNION { say(i) : i \in DOMAIN ms } = (UNION { {cover(i), crap(i)} : i \in DOMAIN ms }) \cup
             (UNION { patch(i) : i \in DOMAIN ms }) \cup (UNION { floor(i) : i \in DOMAIN ms })
      BY <3>1
    <3>3. QED
      BY <3>2 DEF cover, crap, patch, floor, say
  <2>3. gatedRows(ms, base, whole) = own \cup PatchRows(ms, base) \cup (IF whole THEN repo ELSE {})
    <3>1. gatedRows(ms, base, whole) = covers \cup craps \cup PatchRows(ms, base) \cup (IF whole THEN repo ELSE {})
      BY DEF gatedRows, CurrentOf
    <3> HIDE DEF cover, crap
    <3>2. covers \cup craps = UNION { {cover(i), crap(i)} : i \in DOMAIN ms }
      OBVIOUS
    <3>3. own = covers \cup craps
      BY <3>2 DEF cover, crap
    <3>4. QED
      BY <3>1, <3>3
  <2>4. coverageRows(mode, ms, base, whole) = gatedRows(ms, base, whole) \cup FloorRows(ms, whole)
    BY <1>5 DEF coverageRows
  <2>5. CoverageOfAll(mode, ms, base) = repo \cup FloorOfAll(ms) /\ BaselineRow(mode) = {}
    BY <1>5 DEF CoverageOfAll, BaselineRow
  <2> HIDE DEF about, own, floors, patches, repo
  <2>6. QED
    BY <1>1, <1>2, <2>2, <2>3, <2>4, <2>5 DEF about
<1>6. QED
  BY <1>3, <1>4, <1>5 DEF Mode

RowsAbout(this, d, i, p) ==
    IF this.interrupted THEN {IF p.suite = "failed" THEN UnmeasuredRow(<<"test", i>>) ELSE testRow(i, p)}
    ELSE {testRow(i, p), Row(<<"flaky", i>>, "context", <<>>)} \cup
         CoverageAbout(this.mode, i, measurement(i, p, d), p.base)

RecordedRow(mode) == IF mode \in {"own base", "gated"} THEN {Row(<<"record", 0>>, "context", <<>>)} ELSE {}

General(this, selected) ==
    wholeTreeRows(this) \cup scheduleRow(selected, this.interrupted) \cup
    (IF this.interrupted THEN {} ELSE BaselineRow(this.mode) \cup RecordedRow(this.mode))

AboutNone(this, none) ==
    noSuiteRows({"test"}, none) \cup
    (IF this.interrupted THEN {}
     ELSE noSuiteRows({"flaky"}, none) \cup (IF this.mode = "off" THEN {} ELSE noSuiteRows(coverageKinds, none)))

Measures(d, found, S) == [i \in S |-> measurement(i, found[i], d)]

Bases(found, S) == [i \in S |-> found[i].base]

AboutAll(this, d, S, found) == UNION { RowsAbout(this, d, i, found[i]) : i \in S }

SelectedOf(found, S) == { i \in S : found[i].suite # "unselected" }

LEMMA ReportIs ==
  ASSUME NEW this, this.mode \in Mode, this.interrupted \in BOOLEAN, NEW d, NEW own, NEW found, NEW narrowed \in BOOLEAN
  PROVE  RunReport(this, d, own, found, narrowed) =
            General(this, SelectedOf(found, own \cap d.suites)) \cup
            AboutAll(this, d, own \cap d.suites, found) \cup AboutNone(this, own \cap d.noSuite) \cup
            (IF narrowed \/ this.interrupted THEN {}
             ELSE CoverageOfAll(this.mode, Measures(d, found, own \cap d.suites), Bases(found, own \cap d.suites)))
<1> DEFINE suites == own \cap d.suites
           ms == Measures(d, found, suites)
           base == Bases(found, suites)
           none == own \cap d.noSuite
           selected == { i \in suites : found[i].suite # "unselected" }
           about == UNION { RowsAbout(this, d, i, found[i]) : i \in suites }
           all == CoverageOfAll(this.mode, ms, base)
           cover(i) == CoverageAbout(this.mode, i, ms[i], base[i])
<1>1. CASE this.interrupted
  <2> DEFINE answer(i) == IF found[i].suite = "failed" THEN UnmeasuredRow(<<"test", i>>) ELSE testRow(i, found[i])
  <2>1. RunReport(this, d, own, found, narrowed) =
          wholeTreeRows(this) \cup scheduleRow(selected, this.interrupted) \cup noSuiteRows({"test"}, none) \cup
          { answer(i) : i \in suites }
    BY <1>1 DEF RunReport
  <2>2. \A i \in suites : RowsAbout(this, d, i, found[i]) = {answer(i)}
    BY <1>1 DEF RowsAbout
  <2> HIDE DEF answer
  <2>3. about = { answer(i) : i \in suites }
    BY <2>2
  <2>4. /\ General(this, selected) = wholeTreeRows(this) \cup scheduleRow(selected, this.interrupted)
        /\ AboutNone(this, none) = noSuiteRows({"test"}, none)
    BY <1>1 DEF General, AboutNone
  <2> HIDE DEF about, selected, none
  <2>5. RunReport(this, d, own, found, narrowed) = General(this, selected) \cup about \cup AboutNone(this, none)
    BY <2>1, <2>3, <2>4
  <2>6. QED
    BY <1>1, <2>5 DEF about, selected, none, AboutAll, SelectedOf
<1>2. CASE ~this.interrupted
  <2> DEFINE tests == { testRow(i, found[i]) : i \in suites }
             flakies == { Row(<<"flaky", i>>, "context", <<>>) : i \in suites }
             covers == UNION { cover(i) : i \in suites }
  <2>1. RunReport(this, d, own, found, narrowed) =
          wholeTreeRows(this) \cup scheduleRow(selected, this.interrupted) \cup noSuiteRows({"test"}, none) \cup
          (tests \cup flakies \cup noSuiteRows({"flaky"}, none) \cup
           coverageRows(this.mode, ms, base, ~narrowed) \cup
           (IF this.mode = "off" THEN {} ELSE noSuiteRows(coverageKinds, none)) \cup RecordedRow(this.mode))
    BY <1>2 DEF RunReport, RecordedRow, Measures, Bases
  <2>2. coverageRows(this.mode, ms, base, ~narrowed) = covers \cup BaselineRow(this.mode) \cup (IF narrowed THEN {} ELSE all)
    <3>1. DOMAIN ms = suites
      BY DEF Measures
    <3>2. \A mode \in Mode, whole \in BOOLEAN : \A t, b :
            coverageRows(mode, t, b, whole) =
              (UNION { CoverageAbout(mode, i, t[i], b[i]) : i \in DOMAIN t }) \cup BaselineRow(mode) \cup
              (IF whole THEN CoverageOfAll(mode, t, b) ELSE {})
      BY CoverageRowsAre
    <3> HIDE DEF ms, base, suites
    <3>3. coverageRows(this.mode, ms, base, ~narrowed) =
            (UNION { CoverageAbout(this.mode, i, ms[i], base[i]) : i \in DOMAIN ms }) \cup BaselineRow(this.mode) \cup
            (IF ~narrowed THEN CoverageOfAll(this.mode, ms, base) ELSE {})
      <4>1. (~narrowed) \in BOOLEAN /\ this.mode \in Mode
        OBVIOUS
      <4>2. PICK whole \in BOOLEAN : whole = ~narrowed
        BY <4>1
      <4>3. coverageRows(this.mode, ms, base, whole) =
              (UNION { CoverageAbout(this.mode, i, ms[i], base[i]) : i \in DOMAIN ms }) \cup BaselineRow(this.mode) \cup
              (IF whole THEN CoverageOfAll(this.mode, ms, base) ELSE {})
        BY ONLY <3>2, <4>1, whole \in BOOLEAN
      <4>4. QED
        BY ONLY <4>2, <4>3, Zenon
    <3>4. QED
      BY <3>1, <3>3
  <2>3. about = tests \cup flakies \cup covers
    <3> DEFINE test(i) == testRow(i, found[i])
               flaky(i) == Row(<<"flaky", i>>, "context", <<>>)
               say(i) == RowsAbout(this, d, i, found[i])
    <3>1. \A i \in suites : say(i) = {test(i), flaky(i)} \cup cover(i)
      BY <1>2 DEF RowsAbout, Measures, Bases
    <3> HIDE DEF test, flaky, say, cover, suites
    <3>2. UNION { say(i) : i \in suites } =
            { test(i) : i \in suites } \cup { flaky(i) : i \in suites } \cup (UNION { cover(i) : i \in suites })
      BY <3>1
    <3>3. QED
      BY <3>2 DEF test, flaky, say
  <2>4. /\ General(this, selected) = wholeTreeRows(this) \cup scheduleRow(selected, this.interrupted) \cup
                                     (BaselineRow(this.mode) \cup RecordedRow(this.mode))
        /\ AboutNone(this, none) = noSuiteRows({"test"}, none) \cup
              (noSuiteRows({"flaky"}, none) \cup (IF this.mode = "off" THEN {} ELSE noSuiteRows(coverageKinds, none)))
    BY <1>2 DEF General, AboutNone
  <2> HIDE DEF about, selected, none, tests, flakies, covers, all
  <2>5. RunReport(this, d, own, found, narrowed) =
          General(this, selected) \cup about \cup AboutNone(this, none) \cup (IF narrowed THEN {} ELSE all)
    BY <2>1, <2>2, <2>3, <2>4
  <2>6. QED
    BY <1>2, <2>5 DEF about, selected, none, all, AboutAll, SelectedOf
<1>3. QED
  BY <1>1, <1>2

\* A job's report says nothing of the repository; one run's over them all does.
LEMMA JobReportIs ==
  ASSUME NEW this, this.mode \in Mode, this.interrupted \in BOOLEAN, NEW d, NEW own, NEW found
  PROVE  RunReport(this, d, own, found, TRUE) =
            General(this, SelectedOf(found, own \cap d.suites)) \cup
            AboutAll(this, d, own \cap d.suites, found) \cup AboutNone(this, own \cap d.noSuite)
<1>1. PICK narrowed \in BOOLEAN : narrowed = TRUE
  OBVIOUS
<1>2. RunReport(this, d, own, found, narrowed) =
            General(this, SelectedOf(found, own \cap d.suites)) \cup
            AboutAll(this, d, own \cap d.suites, found) \cup AboutNone(this, own \cap d.noSuite) \cup
            (IF narrowed \/ this.interrupted THEN {}
             ELSE CoverageOfAll(this.mode, Measures(d, found, own \cap d.suites), Bases(found, own \cap d.suites)))
  BY ReportIs
<1>3. RunReport(this, d, own, found, narrowed) = RunReport(this, d, own, found, TRUE)
  BY ONLY <1>1, Zenon
<1>4. QED
  BY <1>1, <1>2, <1>3

LEMMA WholeReportIs ==
  ASSUME NEW this, this.mode \in Mode, ~this.interrupted, this.interrupted \in BOOLEAN, NEW d, NEW own, NEW found
  PROVE  RunReport(this, d, own, found, FALSE) =
            General(this, SelectedOf(found, own \cap d.suites)) \cup
            AboutAll(this, d, own \cap d.suites, found) \cup AboutNone(this, own \cap d.noSuite) \cup
            CoverageOfAll(this.mode, Measures(d, found, own \cap d.suites), Bases(found, own \cap d.suites))
<1>1. PICK narrowed \in BOOLEAN : narrowed = FALSE
  OBVIOUS
<1>2. RunReport(this, d, own, found, narrowed) =
            General(this, SelectedOf(found, own \cap d.suites)) \cup
            AboutAll(this, d, own \cap d.suites, found) \cup AboutNone(this, own \cap d.noSuite) \cup
            (IF narrowed \/ this.interrupted THEN {}
             ELSE CoverageOfAll(this.mode, Measures(d, found, own \cap d.suites), Bases(found, own \cap d.suites)))
  BY ReportIs
<1>3. RunReport(this, d, own, found, narrowed) = RunReport(this, d, own, found, FALSE)
  BY ONLY <1>1, Zenon
<1>4. QED
  BY <1>1, <1>2, <1>3

(***************************************************************************)
(* Their labels.                                                           *)
(***************************************************************************)
ComponentGates == {"test", "flaky", "coverage", "patch", "crap", "floor"}

GeneralGates == {"orphans", "watch", "select", "schedule", "baseline", "record"}

LEMMA CoverageLabels ==
  ASSUME NEW mode, NEW i, NEW m, NEW b, NEW r \in CoverageAbout(mode, i, m, b)
  PROVE  r.label \in {<<"coverage", i>>, <<"patch", i>>, <<"crap", i>>, <<"floor", i>>}
<1>1. ComponentRow(i, m, b).label = <<"coverage", i>>
  BY DEF ComponentRow, Compared, UnmeasuredRow, Row
<1>2. \A e, g : CRAPRow(i, m, e, g).label = <<"crap", i>>
  BY DEF CRAPRow, UnmeasuredRow, Row
<1>3. \A s \in UngatedAbout(i, m) : s.label \in {<<"coverage", i>>, <<"crap", i>>}
  <2>1. (IF Measured(m) THEN Row(<<"coverage", i>>, "context", Numbers(m.lines)) ELSE UnmeasuredRow(<<"coverage", i>>)).label
          = <<"coverage", i>>
    BY DEF UnmeasuredRow, Row
  <2>2. QED
    BY <1>2, <2>1 DEF UngatedAbout
<1>4. \A s \in FloorAbout(i, m) : s.label = <<"floor", i>>
  BY DEF FloorAbout, UnmeasuredRow, Row
<1>5. \A s \in PatchAbout(i, m, b) : s.label = <<"patch", i>>
  BY DEF PatchAbout, PatchRow, Compared, UnmeasuredRow, Row
<1>6. QED
  BY <1>1, <1>2, <1>3, <1>4, <1>5 DEF CoverageAbout

LEMMA AboutLabels ==
  ASSUME NEW this, NEW d, NEW i, NEW p, NEW r \in RowsAbout(this, d, i, p)
  PROVE  \E gate \in ComponentGates : r.label = <<gate, i>>
<1>1. testRow(i, p).label = <<"test", i>> /\ UnmeasuredRow(<<"test", i>>).label = <<"test", i>>
      /\ Row(<<"flaky", i>>, "context", <<>>).label = <<"flaky", i>>
  BY DEF testRow, UnmeasuredRow, Row
<1>2. QED
  BY <1>1, CoverageLabels DEF RowsAbout, ComponentGates

LEMMA GeneralLabels ==
  ASSUME NEW this, NEW selected, NEW r \in General(this, selected)
  PROVE  \E gate \in GeneralGates : r.label = <<gate, 0>>
<1>1. \A s \in wholeTreeRows(this) : \E gate \in {"orphans", "watch", "select"} : s.label = <<gate, 0>>
  BY DEF wholeTreeRows, Row
<1>2. \A s \in scheduleRow(selected, this.interrupted) : s.label = <<"schedule", 0>>
  BY DEF scheduleRow, Row
<1>3. \A s \in BaselineRow(this.mode) : s.label = <<"baseline", 0>>
  <2>1. \A s, v : Row(<<"baseline", 0>>, s, v).label = <<"baseline", 0>>
    BY DEF Row
  <2>2. QED
    BY <2>1 DEF BaselineRow
<1>4. \A s \in RecordedRow(this.mode) : s.label = <<"record", 0>>
  <2>1. Row(<<"record", 0>>, "context", <<>>).label = <<"record", 0>>
    BY DEF Row
  <2>2. QED
    BY <2>1 DEF RecordedRow
<1>5. QED
  BY <1>1, <1>2, <1>3, <1>4 DEF General, GeneralGates

(***************************************************************************)
(* The declaration of the matrix.                                          *)
(***************************************************************************)
LEMMA DeclIs ==
  ASSUME file \in Files
  PROVE  /\ decl.suites = Suites /\ decl.noSuite = (DOMAIN file) \ Suites /\ decl.raw \subseteq Suites
         /\ Components(decl) = DOMAIN file /\ Suites \subseteq DOMAIN file
         /\ \A i \in DOMAIN file : i \in Nat /\ i # 0
         /\ IsFiniteSet(DOMAIN file)
<1>1. Suites \subseteq DOMAIN file /\ Len(file) \in Nat /\ DOMAIN file = 1 .. Len(file)
  BY FileType
<1>2. decl.suites = Suites /\ decl.noSuite = (DOMAIN file) \ Suites /\ decl.raw \subseteq Suites
  BY DEF decl, Suites
<1>3. IsFiniteSet(DOMAIN file) /\ \A i \in DOMAIN file : i \in Nat /\ i # 0
  <2>1. 1 \in Int /\ Len(file) \in Int
    BY <1>1
  <2>2. IsFiniteSet(1 .. Len(file))
    BY <2>1, FS_Interval
  <2>3. QED
    BY <1>1, <2>2
<1>4. Components(decl) = DOMAIN file
  BY <1>1, <1>2 DEF Components
<1>5. QED
  BY <1>1, <1>2, <1>3, <1>4

(***************************************************************************)
(* A job of the tests: what it was asked, and its report.                  *)
(***************************************************************************)
JobRows(j) == RunReport(asked(faults[j]), decl, Members(j), Answered(j), TRUE)

Ran(j) == SelectedOf(picked, Members(j))

LEMMA JobsPlace ==
  ASSUME PlanInv, JobsRun, NEW j \in DOMAIN faults
  PROVE  /\ j \in DOMAIN shards /\ Members(j) # {}
         /\ Members(j) \cap decl.suites = Members(j) /\ Members(j) \cap decl.noSuite = {}
         /\ Members(j) \subseteq DOMAIN file
         /\ \A k \in DOMAIN faults : \A i \in Members(j) : i \in Members(k) => j = k
         /\ Answered(j) = [i \in Members(j) |-> picked[i]]
<1>1. file \in Files /\ phase = "planned" /\ faults \in Seq(Fault) /\ Len(faults) <= Len(shards)
  BY DEF JobsRun, PlanInv, PlanTypeOK
<1>2. /\ Len(shards) \in Nat /\ DOMAIN shards = 1 .. Len(shards)
      /\ \A k \in DOMAIN shards : Members(k) # {} /\ Members(k) \subseteq Suites
      /\ \A k, l \in DOMAIN shards : \A i \in Members(k) : i \in Members(l) => k = l
  BY <1>1, Jobs
<1>3. \A k \in DOMAIN faults : k \in DOMAIN shards
  BY <1>1, <1>2
<1>4. decl.suites = Suites /\ decl.noSuite = (DOMAIN file) \ Suites /\ Suites \subseteq DOMAIN file
  BY <1>1, DeclIs
<1>5. QED
  BY <1>2, <1>3, <1>4 DEF Answered

LEMMA TestJob ==
  ASSUME PlanInv, JobsRun, run.command = "test", NEW j \in DOMAIN faults
  PROVE  /\ asked(faults[j]).mode \in Mode /\ asked(faults[j]).interrupted \in BOOLEAN
         /\ faults[j] \in Fault \ {"late", "cut"}
         /\ JobRows(j) = General(asked(faults[j]), Ran(j)) \cup AboutAll(asked(faults[j]), decl, Members(j), picked)
<1> DEFINE this == asked(faults[j])
           members == Members(j)
<1>1. run.mode \in Mode
  BY MatrixAssumption DEF JobsRun, Commands
<1>2. this.mode \in Mode /\ this.interrupted \in BOOLEAN
  <2>1. this.mode = IF faults[j] = "not gated" THEN "not gated" ELSE run.mode
    BY DEF asked
  <2>2. this.interrupted = (faults[j] \in {"interrupted", "cut"})
    BY DEF asked
  <2>3. this.mode \in Mode
    BY <1>1, <2>1 DEF Mode
  <2>4. QED
    BY <2>2, <2>3
<1>3. faults[j] \in Fault \ {"late", "cut"}
  BY DEF JobsRun, mayHappen, Fault
<1>4. members \cap decl.suites = members /\ members \cap decl.noSuite = {} /\ Answered(j) = [i \in members |-> picked[i]]
  BY JobsPlace
<1>5. AboutNone(this, {}) = {}
  BY DEF AboutNone, noSuiteRows
<1>6. SelectedOf(Answered(j), members) = Ran(j)
  BY <1>4 DEF Ran, SelectedOf
<1>7. AboutAll(this, decl, members, Answered(j)) = AboutAll(this, decl, members, picked)
  BY <1>4 DEF AboutAll
<1> HIDE DEF this, members
<1>8. RunReport(this, decl, members, Answered(j), TRUE) =
            General(this, SelectedOf(Answered(j), members \cap decl.suites)) \cup
            AboutAll(this, decl, members \cap decl.suites, Answered(j)) \cup AboutNone(this, members \cap decl.noSuite)
  <2>1. PICK t, d, own, found : t = this /\ d = decl /\ own = members /\ found = Answered(j)
    OBVIOUS
  <2>2. t.mode \in Mode /\ t.interrupted \in BOOLEAN
    BY <1>2, <2>1
  <2>3. RunReport(t, d, own, found, TRUE) =
            General(t, SelectedOf(found, own \cap d.suites)) \cup
            AboutAll(t, d, own \cap d.suites, found) \cup AboutNone(t, own \cap d.noSuite)
    BY <2>2, JobReportIs
  <2>4. QED
    BY <2>1, <2>3
<1>9. QED
  BY <1>2, <1>3, <1>4, <1>5, <1>6, <1>7, <1>8 DEF JobRows, this, members

\* The rows of one label are of the one component it names.
LEMMA TestJobLabel ==
  ASSUME PlanInv, JobsRun, run.command = "test", NEW j \in DOMAIN faults, NEW i \in DOMAIN file, NEW gate
  PROVE  { r \in JobRows(j) : r.label = <<gate, i>> } =
            IF i \in Members(j) THEN { r \in RowsAbout(asked(faults[j]), decl, i, picked[i]) : r.label = <<gate, i>> }
                                ELSE {}
<1> DEFINE this == asked(faults[j])
           about(k) == RowsAbout(this, decl, k, picked[k])
           general == General(this, Ran(j))
<1>1. JobRows(j) = general \cup (UNION { about(k) : k \in Members(j) })
  BY TestJob DEF AboutAll
<1>2. file \in Files
  BY DEF PlanInv, PlanTypeOK
<1>3. i # 0
  BY <1>2, DeclIs
<1>4. \A r \in general : r.label # <<gate, i>>
  BY <1>3, GeneralLabels
<1>5. \A k : \A r \in about(k) : r.label = <<gate, i>> => k = i
  BY AboutLabels
<1> HIDE DEF about, general
<1>6. { r \in JobRows(j) : r.label = <<gate, i>> } =
        IF i \in Members(j) THEN { r \in about(i) : r.label = <<gate, i>> } ELSE {}
  BY <1>1, <1>4, <1>5
<1>7. QED
  BY <1>6 DEF about

LEMMA TestAnswer ==
  ASSUME NEW this, NEW d, NEW i, NEW p
  PROVE  /\ { r \in RowsAbout(this, d, i, p) : r.label = <<"test", i>> } =
               {IF this.interrupted /\ p.suite = "failed" THEN UnmeasuredRow(<<"test", i>>) ELSE testRow(i, p)}
         /\ { r \in RowsAbout(this, d, i, p) : r.label = <<"flaky", i>> } =
               IF this.interrupted THEN {} ELSE {Row(<<"flaky", i>>, "context", <<>>)}
         /\ \A a, b \in RowsAbout(this, d, i, p) : a.label = <<"test", i>> /\ b.label = <<"test", i>> => a = b
<1>1. testRow(i, p).label = <<"test", i>> /\ UnmeasuredRow(<<"test", i>>).label = <<"test", i>>
      /\ Row(<<"flaky", i>>, "context", <<>>).label = <<"flaky", i>>
  BY DEF testRow, UnmeasuredRow, Row
<1>2. \A r \in CoverageAbout(this.mode, i, measurement(i, p, d), p.base) :
         r.label # <<"test", i>> /\ r.label # <<"flaky", i>>
  BY CoverageLabels
<1>3. <<"test", i>> # <<"flaky", i>>
  OBVIOUS
<1>4. QED
  BY <1>1, <1>2, <1>3 DEF RowsAbout

\* What is handed over is the job's report, unless it does not read.
LEMMA HandedTest ==
  ASSUME run.command = "test", NEW j
  PROVE  /\ faults[j] = "unreadable" => HandedBy(j) = Unreadable
         /\ faults[j] = "torn" => HandedBy(j).doc.state = "torn"
         /\ faults[j] # "unreadable" =>
               HandedBy(j).read /\ HandedBy(j).rows = JobRows(j) /\ HandedBy(j).incomplete = FALSE
         /\ faults[j] \notin {"unreadable", "torn", "lost"} =>
               HandedBy(j).doc = RunCandidate(asked(faults[j]), decl, Members(j), Answered(j))
<1> DEFINE dir == written(asked(faults[j]), Members(j), Answered(j))
<1>1. dir = [read |-> TRUE, rows |-> JobRows(j),
             doc |-> RunCandidate(asked(faults[j]), decl, Members(j), Answered(j)), incomplete |-> FALSE]
  BY DEF written, Directory, JobRows
<1>2. noDocument = [state |-> "absent", tree |-> 0, gated |-> FALSE, components |-> <<>>]
  BY DEF noDocument, NoDoc
<1> HIDE DEF dir
<1>3. HandedBy(j) = CASE faults[j] = "unreadable" -> Unreadable
          [] faults[j] = "lost" -> [dir EXCEPT !.doc = noDocument]
          [] faults[j] = "torn" -> [dir EXCEPT !.doc = [noDocument EXCEPT !.state = "torn"]]
          [] OTHER -> dir
  BY DEF HandedBy, Came, dir
<1>4. CASE faults[j] = "unreadable"
  BY <1>3, <1>4
<1>5. CASE faults[j] = "lost"
  BY <1>1, <1>3, <1>5
<1>6. CASE faults[j] = "torn"
  BY <1>1, <1>2, <1>3, <1>6
<1>7. CASE faults[j] \notin {"unreadable", "torn", "lost"}
  BY <1>1, <1>3, <1>7
<1>8. QED
  BY <1>4, <1>5, <1>6, <1>7

(***************************************************************************)
(* What a merged report that does not fail says of what arrived.           *)
(***************************************************************************)
LEMMA AtMostOne ==
  ASSUME NEW S, IsFiniteSet(S), Cardinality(S) <= 1
  PROVE  \A a, b \in S : a = b
<1>1. Cardinality(S) \in Nat
  BY FS_CardinalityType
<1>2. CASE Cardinality(S) = 0
  BY <1>2, FS_EmptySet
<1>3. CASE Cardinality(S) = 1
  BY <1>3, FS_Singleton
<1>4. QED
  BY <1>1, <1>2, <1>3

LEMMA RowsForIs ==
  ASSUME NEW dirs, NEW label
  PROVE  /\ \A k \in DOMAIN dirs : \A r \in dirs[k].rows : r.label = label => <<k, r>> \in rowsFor(dirs, label)
         /\ \A e \in rowsFor(dirs, label) : \E k \in DOMAIN dirs : \E r \in dirs[k].rows : r.label = label /\ e = <<k, r>>
         /\ \A r : r \in labelled(dirs, label) <=> r.label = label /\ \E k \in DOMAIN dirs : r \in dirs[k].rows
<1> DEFINE of(k) == { r \in dirs[k].rows : r.label = label }
<1>1. rowsFor(dirs, label) = UNION { {k} \X of(k) : k \in DOMAIN dirs }
  BY DEF rowsFor
<1> HIDE DEF of
<1>2. \A k \in DOMAIN dirs : \A r \in of(k) : <<k, r>> \in rowsFor(dirs, label)
  BY <1>1
<1>3. \A e \in rowsFor(dirs, label) : \E k \in DOMAIN dirs : \E r \in of(k) : e = <<k, r>>
  BY <1>1
<1>4. \A r : r \in labelled(dirs, label) <=> \E k \in DOMAIN dirs : r \in of(k)
  <2>1. \A r \in labelled(dirs, label) : \E k \in DOMAIN dirs : r \in of(k)
    BY <1>3 DEF labelled
  <2>2. ASSUME NEW k \in DOMAIN dirs, NEW r \in of(k)
        PROVE  r \in labelled(dirs, label)
    <3>1. <<k, r>> \in rowsFor(dirs, label) /\ <<k, r>>[2] = r
      BY <1>2
    <3>2. QED
      BY <3>1 DEF labelled
  <2>3. QED
    BY <2>1, <2>2
<1>5. QED
  BY <1>2, <1>3, <1>4 DEF of

LEMMA ReadsAll ==
  ASSUME NEW dirs, NEW rows, ~Failing(rows), \A k \in DOMAIN dirs : readRow(k, dirs[k]) \in rows
  PROVE  \A k \in DOMAIN dirs : dirs[k].read /\ dirs[k].doc.state # "torn"
<1>1. ASSUME NEW k \in DOMAIN dirs
      PROVE  dirs[k].read /\ dirs[k].doc.state # "torn"
  <2>1. readRow(k, dirs[k]).status # "fail"
    BY DEF Failing
  <2>2. QED
    BY <2>1 DEF readRow, Row
<1>2. QED
  BY <1>1

LEMMA NoProblem ==
  ASSUME NEW rows, ~Failing(rows), NEW problems \in BOOLEAN, shardsRow(problems) \in rows
  PROVE  ~problems
BY DEF Failing, shardsRow, Row

\* No directory's report fails when the fold's does not.
LEMMA MergedPasses ==
  ASSUME NEW dirs, NEW d, ~Failing(Merged(dirs, d))
  PROVE  /\ \A k \in DOMAIN dirs : dirs[k].read /\ dirs[k].doc.state # "torn" /\ ~Failing(dirs[k].rows)
         /\ \A label \in testWholeTreeRows : agreed(dirs, label)
         /\ \A label \in suiteLabels(d) : Cardinality(rowsFor(dirs, label)) = 1
         /\ oneTree(dirs)
<1> DEFINE reads == { readRow(k, dirs[k]) : k \in DOMAIN dirs }
           rows == reads \cup foldedWholeTree(dirs, testWholeTreeRows) \cup
                foldedScheduleRow(dirs) \cup componentRows(dirs, suiteLabels(d)) \cup
                noSuiteRows({"test", "flaky"}, d.noSuite) \cup foldedCoverage(dirs, d) \cup
                repositoryRows(dirs, d) \cup carryUnhandled(dirs, foldedRow(d))
           problems == \/ disagreements(dirs, testWholeTreeRows) # {}
                       \/ uncovered(dirs, suiteLabels(d)) # {}
                       \/ uncarriedVerdicts(rows, dirs) # {}
<1>1. Merged(dirs, d) = rows \cup {shardsRow(problems)}
  BY DEF Merged
<1>2. reads \subseteq rows /\ repositoryRows(dirs, d) \subseteq rows
  OBVIOUS
<1> HIDE DEF rows
<1>3. ~Failing(rows)
  BY <1>1 DEF Failing
<1>4. ~problems
  <2>1. shardsRow(problems) \in Merged(dirs, d)
    BY <1>1
  <2> DEFINE all == Merged(dirs, d)
  <2>2. ~Failing(all) /\ shardsRow(problems) \in all /\ problems \in BOOLEAN
    BY <2>1
  <2> HIDE DEF all, problems
  <2>3. QED
    BY <2>2, NoProblem
<1>5. \A k \in DOMAIN dirs : dirs[k].read /\ dirs[k].doc.state # "torn"
  <2>1. \A k \in DOMAIN dirs : readRow(k, dirs[k]) \in rows
    BY <1>2
  <2>2. QED
    BY <1>3, <2>1, ReadsAll
<1>6. \A k \in DOMAIN dirs : ~Failing(dirs[k].rows)
  BY <1>3, <1>4, <1>5 DEF uncarriedVerdicts
<1>7. \A label \in testWholeTreeRows : agreed(dirs, label)
  BY <1>4 DEF disagreements
<1>8. \A label \in suiteLabels(d) : Cardinality(rowsFor(dirs, label)) = 1
  BY <1>4 DEF uncovered, carriedOnce
<1>9. oneTree(dirs)
  <2>1. SUFFICES ASSUME ~oneTree(dirs) PROVE FALSE
    OBVIOUS
  <2>2. documents(dirs) # {}
    BY <2>1 DEF oneTree
  <2>3. Row(<<"record", 0>>, "fail", <<>>) \in repositoryRows(dirs, d)
    BY <2>1, <2>2 DEF repositoryRows
  <2>4. QED
    BY <1>2, <1>3, <2>3 DEF Failing, Row
<1>10. QED
  BY <1>5, <1>6, <1>7, <1>8, <1>9

(***************************************************************************)
(* A merge of the tests that passes: every job left the one report that    *)
(* was read, of a run that finished, with its gates, on the one tree.      *)
(***************************************************************************)
LEMMA PairIsOne ==
  ASSUME NEW S, IsFiniteSet(S), NEW row
  PROVE  IsFiniteSet(S \X {row})
BY FS_Singleton, FS_Product

\* A component's rows in the directories are those of the jobs that have it.
LEMMA RowsOfOne ==
  ASSUME PlanInv, JobsRun, run.command = "test", NEW o, From(o), \A k \in DOMAIN inputs : inputs[k].read,
         NEW j \in DOMAIN faults, NEW i \in Members(j), NEW gate
  PROVE  /\ \A e \in rowsFor(inputs, <<gate, i>>) : \E k \in DOMAIN inputs :
               \E r \in RowsAbout(asked(faults[j]), decl, i, picked[i]) : o[k] = j /\ r.label = <<gate, i>> /\ e = <<k, r>>
         /\ \A k \in DOMAIN inputs : \A r \in RowsAbout(asked(faults[j]), decl, i, picked[i]) :
               o[k] = j /\ r.label = <<gate, i>> => <<k, r>> \in rowsFor(inputs, <<gate, i>>)
<1> DEFINE about(l) == { r \in RowsAbout(asked(faults[l]), decl, i, picked[i]) : r.label = <<gate, i>> }
           here(l) == { r \in JobRows(l) : r.label = <<gate, i>> }
<1>1. \A k \in DOMAIN inputs : o[k] \in DOMAIN faults /\ inputs[k] = HandedBy(o[k])
  BY DEF From
<1>2. \A k \in DOMAIN inputs : inputs[k].rows = JobRows(o[k])
  <2>1. ASSUME NEW k \in DOMAIN inputs
        PROVE  inputs[k].rows = JobRows(o[k])
    <3>1. faults[o[k]] # "unreadable"
      <4>1. SUFFICES ASSUME faults[o[k]] = "unreadable" PROVE FALSE
        OBVIOUS
      <4>2. inputs[k] = Unreadable
        BY <1>1, <4>1, HandedTest
      <4>3. QED
        BY <4>2 DEF Unreadable, Directory
    <3>2. QED
      BY <1>1, <3>1, HandedTest
  <2>2. QED
    BY <2>1
<1>3. i \in DOMAIN file
  BY JobsPlace
<1>4. \A l \in DOMAIN faults : here(l) = IF i \in Members(l) THEN about(l) ELSE {}
  BY <1>3, TestJobLabel
<1>5. \A l \in DOMAIN faults : i \in Members(l) => l = j
  BY JobsPlace
<1>6. /\ \A k \in DOMAIN inputs : \A r \in inputs[k].rows : r.label = <<gate, i>> => <<k, r>> \in rowsFor(inputs, <<gate, i>>)
      /\ \A e \in rowsFor(inputs, <<gate, i>>) : \E k \in DOMAIN inputs : \E r \in inputs[k].rows :
            r.label = <<gate, i>> /\ e = <<k, r>>
  BY RowsForIs
<1>7. ASSUME NEW e \in rowsFor(inputs, <<gate, i>>)
      PROVE  \E k \in DOMAIN inputs :
               \E r \in RowsAbout(asked(faults[j]), decl, i, picked[i]) : o[k] = j /\ r.label = <<gate, i>> /\ e = <<k, r>>
  <2>1. PICK k \in DOMAIN inputs : \E r \in inputs[k].rows : r.label = <<gate, i>> /\ e = <<k, r>>
    BY <1>6
  <2>2. PICK r \in inputs[k].rows : r.label = <<gate, i>> /\ e = <<k, r>>
    BY <2>1
  <2>3. r \in here(o[k])
    BY <1>2, <2>2
  <2>4. i \in Members(o[k]) /\ r \in about(o[k])
    BY <1>1, <1>4, <2>3
  <2>5. o[k] = j
    BY <1>1, <1>5, <2>4
  <2>6. QED
    BY <2>2, <2>4, <2>5
<1>8. ASSUME NEW k \in DOMAIN inputs, NEW r \in RowsAbout(asked(faults[j]), decl, i, picked[i]),
             o[k] = j, r.label = <<gate, i>>
      PROVE  <<k, r>> \in rowsFor(inputs, <<gate, i>>)
  <2>1. r \in here(j)
    BY <1>4, <1>8
  <2>2. QED
    BY <1>2, <1>6, <1>8, <2>1
<1>9. QED
  BY <1>7, <1>8

LEMMA TestJobPassed ==
  ASSUME MatrixInv, step = "folded", run.command = "test", ~Failing(merged.rows), NEW j \in DOMAIN faults
  PROVE  /\ faults[j] \in {"none", "lost", "moved", "elsewhere"}
         /\ \A i \in Members(j) : picked[i].suite # "failed"
         /\ \E k \in DOMAIN inputs : inputs[k].rows = JobRows(j)
<1>1. PlanInv /\ JobsRun /\ Folded
  BY DEF MatrixInv
<1>2. merged.rows = Merged(inputs, decl)
  BY <1>1 DEF Folded
<1>3. /\ \A k \in DOMAIN inputs : inputs[k].read /\ inputs[k].doc.state # "torn" /\ ~Failing(inputs[k].rows)
      /\ \A label \in suiteLabels(decl) : Cardinality(rowsFor(inputs, label)) = 1
  BY <1>2, MergedPasses
<1>4. PICK o : From(o)
  BY <1>1 DEF JobsRun
<1>5. \A k \in DOMAIN inputs : o[k] \in DOMAIN faults /\ faults[o[k]] # "died" /\ inputs[k] = HandedBy(o[k])
  BY <1>4 DEF From
<1>6. IsFiniteSet(DOMAIN inputs)
  <2>1. Len(inputs) \in Nat /\ DOMAIN inputs = 1 .. Len(inputs)
    BY <1>1 DEF JobsRun
  <2>2. 1 \in Int /\ Len(inputs) \in Int
    BY <2>1
  <2>3. IsFiniteSet(1 .. Len(inputs))
    BY <2>2, FS_Interval
  <2>4. QED
    BY <2>1, <2>3
<1>7. PICK member \in Members(j) : TRUE
  BY <1>1, JobsPlace
<1> DEFINE this == asked(faults[j])
           about(i) == RowsAbout(this, decl, i, picked[i])
<1>8. \A i \in Members(j) : \A gate \in {"test", "flaky"} : Cardinality(rowsFor(inputs, <<gate, i>>)) = 1
  <2>1. Members(j) \subseteq decl.suites
    BY <1>1, JobsPlace
  <2>2. QED
    BY <1>3, <2>1 DEF suiteLabels
<1>9. \A i \in Members(j) : \A gate : \A e \in rowsFor(inputs, <<gate, i>>) : \E k \in DOMAIN inputs : \E r \in about(i) :
          o[k] = j /\ r.label = <<gate, i>> /\ e = <<k, r>>
  BY <1>1, <1>3, <1>4, RowsOfOne
<1>10. \A i \in Members(j) : \A gate : \A k \in DOMAIN inputs : \A r \in about(i) :
          o[k] = j /\ r.label = <<gate, i>> => <<k, r>> \in rowsFor(inputs, <<gate, i>>)
  BY <1>1, <1>3, <1>4, RowsOfOne
<1>11. \A i \in Members(j) : \A gate \in {"test", "flaky"} : \E k \in DOMAIN inputs : \E r \in about(i) :
          o[k] = j /\ r.label = <<gate, i>>
  <2>1. ASSUME NEW i \in Members(j), NEW gate \in {"test", "flaky"}
        PROVE  rowsFor(inputs, <<gate, i>>) # {}
    <3>1. Cardinality(rowsFor(inputs, <<gate, i>>)) = 1
      BY <1>8
    <3>2. Cardinality({}) = 0
      BY FS_EmptySet
    <3>3. SUFFICES ASSUME rowsFor(inputs, <<gate, i>>) = {} PROVE FALSE
      OBVIOUS
    <3>4. Cardinality(rowsFor(inputs, <<gate, i>>)) = Cardinality({})
      BY ONLY <3>3, Zenon
    <3>5. QED
      BY <3>1, <3>2, <3>4
  <2>2. QED
    BY <1>9, <2>1
<1>12. PICK from \in DOMAIN inputs : o[from] = j
  BY <1>7, <1>11
<1>13. inputs[from].rows = JobRows(j) /\ faults[j] \notin {"died", "unreadable", "torn"}
  <2>1. inputs[from] = HandedBy(j) /\ inputs[from].read /\ inputs[from].doc.state # "torn" /\ faults[j] # "died"
    BY <1>3, <1>5, <1>12
  <2>2. faults[j] # "unreadable"
    <3>1. ~Unreadable.read
      BY DEF Unreadable, Directory
    <3>2. QED
      BY <1>1, <2>1, <3>1, HandedTest
  <2>3. faults[j] # "torn"
    BY <1>1, <2>1, HandedTest
  <2>4. QED
    BY <1>1, <2>1, <2>2, <2>3, HandedTest
<1>14. ~this.interrupted
  <2>1. SUFFICES ASSUME this.interrupted PROVE FALSE
    OBVIOUS
  <2>2. { r \in about(member) : r.label = <<"flaky", member>> } = {}
    BY <2>1, TestAnswer
  <2>3. QED
    BY <1>7, <1>11, <2>2
<1>15. faults[j] \notin {"interrupted", "late", "cut"}
  BY <1>1, <1>14, TestJob DEF asked
<1>16. ~Failing(JobRows(j))
  BY <1>3, <1>13
<1>17. JobRows(j) = General(this, Ran(j)) \cup AboutAll(this, decl, Members(j), picked)
  BY <1>1, TestJob
<1>18. faults[j] # "not gated"
  <2>1. SUFFICES ASSUME faults[j] = "not gated" PROVE FALSE
    OBVIOUS
  <2>2. this.mode = "not gated"
    BY <2>1 DEF asked
  <2>3. Row(<<"baseline", 0>>, "fail", <<>>) \in BaselineRow(this.mode)
    BY <2>2 DEF BaselineRow
  <2>4. Row(<<"baseline", 0>>, "fail", <<>>) \in JobRows(j)
    BY <1>14, <1>17, <2>3 DEF General
  <2>5. QED
    BY <1>16, <2>4 DEF Failing, Row
<1>19. ASSUME NEW i \in Members(j)
       PROVE  picked[i].suite # "failed"
  <2>1. testRow(i, picked[i]) \in about(i)
    BY <1>14 DEF RowsAbout
  <2>2. testRow(i, picked[i]) \in JobRows(j)
    BY <1>17, <2>1 DEF AboutAll
  <2>3. QED
    BY <1>16, <2>2 DEF Failing, testRow, Row
<1>20. faults[j] # "twice"
  <2>1. SUFFICES ASSUME faults[j] = "twice" PROVE FALSE
    OBVIOUS
  <2>2. PICK k, l \in DOMAIN inputs : k # l /\ o[k] = j /\ o[l] = j
    BY <1>4, <2>1 DEF From
  <2>3. PICK row : row \in about(member) /\ row.label = <<"test", member>>
    BY <1>7, <1>11
  <2>4. <<k, row>> \in rowsFor(inputs, <<"test", member>>) /\ <<l, row>> \in rowsFor(inputs, <<"test", member>>)
    BY <1>7, <1>10, <2>2, <2>3
  <2>5. \A r \in about(member) : r.label = <<"test", member>> => r = row
    <3>1. \A a, b \in about(member) : a.label = <<"test", member>> /\ b.label = <<"test", member>> => a = b
      BY TestAnswer
    <3>2. QED
      BY <2>3, <3>1
  <2>6. PICK places : places = DOMAIN inputs /\ IsFiniteSet(places)
    BY <1>6
  <2>7. IsFiniteSet(rowsFor(inputs, <<"test", member>>))
    <3>1. IsFiniteSet(places \X {row})
      BY <2>6, PairIsOne
    <3>2. ASSUME NEW e \in rowsFor(inputs, <<"test", member>>)
          PROVE  e \in places \X {row}
      <4>1. PICK a \in DOMAIN inputs, r \in about(member) : r.label = <<"test", member>> /\ e = <<a, r>>
        BY <1>7, <1>9
      <4>2. r = row /\ a \in places
        BY <2>5, <2>6, <4>1
      <4>3. QED
        BY <4>1, <4>2
    <3>3. rowsFor(inputs, <<"test", member>>) \in SUBSET (places \X {row})
      BY <3>2
    <3>4. QED
      BY <3>1, <3>3, FS_Subset
  <2>8. Cardinality(rowsFor(inputs, <<"test", member>>)) = 1
    BY <1>7, <1>8
  <2>9. <<k, row>> = <<l, row>>
    <3>1. Cardinality(rowsFor(inputs, <<"test", member>>)) <= 1
      BY <2>8
    <3>2. \A a, b \in rowsFor(inputs, <<"test", member>>) : a = b
      BY <2>7, <3>1, AtMostOne
    <3>3. QED
      BY <2>4, <3>2
  <2>10. QED
    BY <2>2, <2>9
<1>21. faults[j] \in Fault
  BY <1>1, TestJob
<1>22. QED
  BY <1>13, <1>15, <1>18, <1>19, <1>20, <1>21 DEF Fault

\* A job's report has one row of the orphans, of the gates it saw.
LEMMA OrphansOf ==
  ASSUME PlanInv, JobsRun, run.command = "test", NEW j \in DOMAIN faults
  PROVE  \A r : (r \in JobRows(j) /\ r.label = <<"orphans", 0>>)
                  <=> r = Row(<<"orphans", 0>>, "pass", <<IF faults[j] = "elsewhere" THEN 1 ELSE 0>>)
<1> DEFINE this == asked(faults[j])
           row == Row(<<"orphans", 0>>, "pass", <<IF faults[j] = "elsewhere" THEN 1 ELSE 0>>)
<1>1. JobRows(j) = General(this, Ran(j)) \cup AboutAll(this, decl, Members(j), picked)
  BY TestJob
<1>2. this.seen = IF faults[j] = "elsewhere" THEN 1 ELSE 0
  BY DEF asked
<1>3. \A r \in AboutAll(this, decl, Members(j), picked) : r.label # <<"orphans", 0>>
  BY AboutLabels DEF AboutAll, ComponentGates
<1>4. \A r \in wholeTreeRows(this) : r.label = <<"orphans", 0>> <=> r = row
  <2>1. \A gate : Row(<<gate, 0>>, "pass", <<this.seen>>).label = <<gate, 0>>
    BY DEF Row
  <2>2. \A r \in wholeTreeRows(this) : \E gate : r = Row(<<gate, 0>>, "pass", <<this.seen>>)
    BY DEF wholeTreeRows
  <2>3. row = Row(<<"orphans", 0>>, "pass", <<this.seen>>)
    BY <1>2
  <2>4. QED
    BY <2>1, <2>2, <2>3
<1>5. row \in wholeTreeRows(this)
  BY <1>2 DEF wholeTreeRows
<1>6. \A r \in General(this, Ran(j)) : r.label = <<"orphans", 0>> => r \in wholeTreeRows(this)
  <2>1. \A r \in scheduleRow(Ran(j), this.interrupted) : r.label # <<"orphans", 0>>
    BY DEF scheduleRow, Row
  <2>2. \A r \in BaselineRow(this.mode) : r.label # <<"orphans", 0>>
    <3>1. \A s, v : Row(<<"baseline", 0>>, s, v).label = <<"baseline", 0>>
      BY DEF Row
    <3>2. \A r \in BaselineRow(this.mode) : r.label = <<"baseline", 0>>
      BY <3>1 DEF BaselineRow
    <3>3. QED
      BY <3>2
  <2>3. \A r \in RecordedRow(this.mode) : r.label # <<"orphans", 0>>
    <3>1. \A r \in RecordedRow(this.mode) : r = Row(<<"record", 0>>, "context", <<>>)
      BY DEF RecordedRow
    <3>2. QED
      BY <3>1 DEF Row
  <2>4. QED
    BY <2>1, <2>2, <2>3 DEF General
<1>7. wholeTreeRows(this) \subseteq General(this, Ran(j))
  BY DEF General
<1>8. row.label = <<"orphans", 0>>
  BY DEF Row
<1> HIDE DEF row, this
<1>9. QED
  BY <1>1, <1>3, <1>4, <1>5, <1>6, <1>7, <1>8 DEF row

\* Directories of which one says this and another that disagree.
LEMMA OneAnswer ==
  ASSUME NEW dirs, NEW label, agreed(dirs, label), NEW a, NEW b, labelled(dirs, label) = {a, b}
  PROVE  a = b
<1>1. IsFiniteSet({a, b})
  <2>1. IsFiniteSet({a}) /\ IsFiniteSet({b})
    BY FS_Singleton
  <2>2. IsFiniteSet({a} \cup {b})
    BY <2>1, FS_Union
  <2>3. {a} \cup {b} = {a, b}
    OBVIOUS
  <2>4. QED
    BY <2>2, <2>3
<1>2. Cardinality({a, b}) <= 1
  BY DEF agreed
<1>3. QED
  BY <1>1, <1>2, AtMostOne

LEMMA TestMergeIsWhole ==
  ASSUME MatrixInv, step = "folded", run.command = "test", ~Failing(merged.rows)
  PROVE  Whole
<1>1. PlanInv /\ JobsRun /\ Folded
  BY DEF MatrixInv
<1>2. PICK o : From(o)
  BY <1>1 DEF JobsRun
<1>3. \A j \in DOMAIN faults :
        /\ faults[j] \in {"none", "lost", "moved", "elsewhere"}
        /\ \A i \in Members(j) : picked[i].suite # "failed"
        /\ \E k \in DOMAIN inputs : inputs[k].rows = JobRows(j)
  BY TestJobPassed
<1>4. (\A label \in testWholeTreeRows : agreed(inputs, label)) /\ oneTree(inputs)
  <2>1. merged.rows = Merged(inputs, decl)
    BY <1>1 DEF Folded
  <2>2. QED
    BY <2>1, MergedPasses
<1>5. \A k \in DOMAIN inputs : o[k] \in DOMAIN faults /\ inputs[k].rows = JobRows(o[k])
  <2>1. ASSUME NEW k \in DOMAIN inputs
        PROVE  o[k] \in DOMAIN faults /\ inputs[k].rows = JobRows(o[k])
    <3>1. o[k] \in DOMAIN faults /\ inputs[k] = HandedBy(o[k])
      BY <1>2 DEF From
    <3>2. faults[o[k]] # "unreadable"
      BY <1>3, <3>1
    <3>3. QED
      BY <3>1, <3>2, HandedTest
  <2>2. QED
    BY <2>1
<1>6. ASSUME NEW j \in DOMAIN faults, NEW k \in DOMAIN faults, faults[j] = "elsewhere"
      PROVE  faults[k] = "elsewhere"
  <2>1. SUFFICES ASSUME faults[k] # "elsewhere" PROVE FALSE
    OBVIOUS
  <2> DEFINE saw(l) == Row(<<"orphans", 0>>, "pass", <<IF faults[l] = "elsewhere" THEN 1 ELSE 0>>)
  <2>2. \A l \in DOMAIN faults : \A r : (r \in JobRows(l) /\ r.label = <<"orphans", 0>>) <=> r = saw(l)
    BY <1>1, OrphansOf
  <2>3. saw(j) # saw(k)
    BY <1>6, <2>1 DEF Row
  <2>4. \A l \in DOMAIN faults : saw(l) \in {saw(j), saw(k)}
    BY <1>6, <2>1
  <2> HIDE DEF saw
  <2>5. \A r : r \in labelled(inputs, <<"orphans", 0>>) <=>
                 r.label = <<"orphans", 0>> /\ \E a \in DOMAIN inputs : r \in inputs[a].rows
    BY RowsForIs
  <2>6. labelled(inputs, <<"orphans", 0>>) = {saw(j), saw(k)}
    <3>1. \A l \in DOMAIN faults : saw(l) \in labelled(inputs, <<"orphans", 0>>)
      BY <1>3, <2>2, <2>5
    <3>2. ASSUME NEW r \in labelled(inputs, <<"orphans", 0>>)
          PROVE  r \in {saw(j), saw(k)}
      <4>1. PICK a \in DOMAIN inputs : r \in inputs[a].rows /\ r.label = <<"orphans", 0>>
        BY <2>5
      <4>2. QED
        BY <1>5, <2>2, <2>4, <4>1
    <3>3. QED
      BY <3>1, <3>2
  <2>7. agreed(inputs, <<"orphans", 0>>)
    BY <1>4 DEF testWholeTreeRows
  <2>8. PICK dirs, a, b : dirs = inputs /\ a = saw(j) /\ b = saw(k)
    OBVIOUS
  <2>9. agreed(dirs, <<"orphans", 0>>) /\ labelled(dirs, <<"orphans", 0>>) = {a, b}
    BY <2>6, <2>7, <2>8
  <2>10. a = b
    BY <2>9, OneAnswer
  <2>11. QED
    BY <2>3, <2>8, <2>10
<1>7. Len(inputs) = Len(shards)
  <2>1. \A j \in DOMAIN faults : faults[j] \notin {"died", "twice"}
    BY <1>3
  <2>2. QED
    BY <1>1, <1>2, <2>1 DEF From, Folded
<1>8. \A i \in DOMAIN picked : WholeAnswer(picked[i])
  <2>1. DOMAIN picked = UNION { Members(j) : j \in DOMAIN faults }
    BY <1>1 DEF JobsRun
  <2>2. \A i \in DOMAIN picked : picked[i].suite # "failed"
    BY <1>3, <2>1
  <2>3. QED
    BY <2>2 DEF WholeAnswer
<1>9. QED
  BY <1>3, <1>4, <1>6, <1>7, <1>8 DEF Whole

(***************************************************************************)
(* A job of the mutants, and a merge of them that passes.                  *)
(***************************************************************************)
MutationJobRows(j) == MutationRows(asked(faults[j]), decl, Members(j), Answered(j), TRUE)

SelectRow(this) == IF this.affected THEN {Row(<<"select", 0>>, "pass", <<this.seen>>)} ELSE {}

StoppedAt(j) == leftIncomplete(asked(faults[j]), Answered(j))

LEMMA ReportedLabel ==
  ASSUME NEW this, NEW i, NEW found
  PROVE  reportedRow(this, i, found).label = <<"mutation", i>>
<1> DEFINE label == <<"mutation", i>>
<1>1. \A s, v : Row(label, s, v) = [label |-> label, status |-> s, value |-> v]
  BY DEF Row
<1>2. UnmeasuredRow(label) = [label |-> label, status |-> "unmeasured", value |-> <<>>]
  BY <1>1 DEF UnmeasuredRow
<1> HIDE DEF label
<1>3. PICK s, v : mutationRow(label, found) = [label |-> label, status |-> s, value |-> v]
  <2> DEFINE s == IF found.survived > 0 THEN "fail" ELSE "pass"
             v == <<found.killed, denominator(found)>>
  <2>1. CASE denominator(found) = 0
    BY <1>2, <2>1 DEF mutationRow
  <2>2. CASE denominator(found) # 0
    <3>1. mutationRow(label, found) = Row(label, s, v)
      BY <2>2 DEF mutationRow
    <3> HIDE DEF s, v
    <3>2. QED
      BY <1>1, <3>1
  <2>3. QED
    BY <2>1, <2>2
<1>4. \A noGate : \E t : completedRow(mutationRow(label, found), noGate) = [label |-> label, status |-> t, value |-> v]
  <2>1. ASSUME NEW noGate
        PROVE  \E t : completedRow(mutationRow(label, found), noGate) = [label |-> label, status |-> t, value |-> v]
    <3> DEFINE row == mutationRow(label, found)
    <3>1. completedRow(row, noGate) = row \/ completedRow(row, noGate) = [row EXCEPT !.status = "context"]
      <4> HIDE DEF row
      <4>1. QED
        BY Zenon DEF completedRow
    <3>2. [row EXCEPT !.status = "context"] = [label |-> label, status |-> "context", value |-> v]
      BY <1>3
    <3>3. QED
      BY <1>3, <3>1, <3>2
  <2>2. QED
    BY <2>1
<1>5. \A noGate : incompleteRow(label, found, noGate).label = label
  BY <1>1, <1>4 DEF incompleteRow
<1>6. \A noGate : kindRow(i, found, noGate).label = label
  <2>1. \A noGate : completedRow(mutationRow(label, found), noGate).label = label
    BY <1>4
  <2>2. \A t, w : Row(label, t, w).label = label /\ UnmeasuredRow(label).label = label
    BY <1>1, <1>2
  <2>3. QED
    BY <1>5, <2>1, <2>2 DEF kindRow, label
<1>7. \A noGate : outcomeRow(i, found, noGate).label = label
  <2>1. \A l, t, w : Row(l, t, w).label = l
    BY DEF Row
  <2>2. QED
    BY <1>6, <2>1 DEF outcomeRow
<1>8. reportedRow(this, i, found).label = label
  BY <1>2, <1>7 DEF reportedRow, label
<1>9. QED
  BY <1>8 DEF label

LEMMA MutationJob ==
  ASSUME PlanInv, JobsRun, run.command = "mutation", NEW j \in DOMAIN faults
  PROVE  /\ faults[j] \in Fault \ {"not gated"}
         /\ faults[j] = "elsewhere" => run.affected
         /\ \A i \in Members(j) : picked[i] \in ComponentOutcome /\ picked[i] \in answers(faults[j], i)
         /\ MutationJobRows(j) = SelectRow(asked(faults[j])) \cup {mutationScheduleRow(asked(faults[j]), StoppedAt(j))} \cup
                                 { reportedRow(asked(faults[j]), i, picked[i]) : i \in Members(j) }
<1> DEFINE this == asked(faults[j])
<1>1. faults[j] \in Fault \ {"not gated"} /\ (faults[j] = "elsewhere" => run.affected)
  BY DEF JobsRun, mayHappen, Fault
<1>2. \A i \in Members(j) : picked[i] \in answers(faults[j], i)
  BY DEF JobsRun
<1>3. \A i \in Members(j) : picked[i] \in ComponentOutcome
  BY <1>2, MatrixAssumption DEF answers
<1>4. Answered(j) = [i \in Members(j) |-> picked[i]] /\ Members(j) \cap decl.noSuite = {}
  BY JobsPlace
<1>5. noSuiteRows({"mutation"}, Members(j) \cap decl.noSuite) = {}
  BY <1>4 DEF noSuiteRows
<1> HIDE DEF this
<1>6. { reportedRow(this, i, Answered(j)[i]) : i \in DOMAIN Answered(j) } = { reportedRow(this, i, picked[i]) : i \in Members(j) }
  BY <1>4
<1>7. MutationRows(this, decl, Members(j), Answered(j), TRUE) =
        SelectRow(this) \cup {mutationScheduleRow(this, leftIncomplete(this, Answered(j)))} \cup
        { reportedRow(this, i, picked[i]) : i \in Members(j) }
  BY <1>5, <1>6 DEF MutationRows, SelectRow
<1>8. QED
  BY <1>1, <1>2, <1>3, <1>7 DEF MutationJobRows, StoppedAt, this

LEMMA HandedMutation ==
  ASSUME run.command = "mutation", NEW j
  PROVE  /\ faults[j] = "unreadable" => HandedBy(j) = Unreadable
         /\ faults[j] = "torn" => HandedBy(j).doc.state = "torn"
         /\ faults[j] # "unreadable" =>
               HandedBy(j).read /\ HandedBy(j).rows = MutationJobRows(j) /\ HandedBy(j).incomplete = StoppedAt(j)
         /\ faults[j] \notin {"unreadable", "torn", "lost"} =>
               HandedBy(j).doc = countsOf(asked(faults[j]), Answered(j))
         /\ HandedBy(j) = [x \in {"read", "rows", "doc", "incomplete"} |-> HandedBy(j)[x]]
<1> DEFINE dir == written(asked(faults[j]), Members(j), Answered(j))
<1>1. dir = [read |-> TRUE, rows |-> MutationJobRows(j), doc |-> countsOf(asked(faults[j]), Answered(j)),
             incomplete |-> StoppedAt(j)]
  <2>1. dir = MutationDirectory(asked(faults[j]), decl, Members(j), Answered(j))
    BY DEF written
  <2>2. QED
    BY <2>1 DEF MutationDirectory, Directory, MutationJobRows, StoppedAt
<1>2. noDocument = [state |-> "absent", tree |-> 0, complete |-> <<>>, incomplete |-> <<>>]
  BY DEF noDocument, NoCounts
<1> HIDE DEF dir
<1>3. HandedBy(j) = CASE faults[j] = "unreadable" -> Unreadable
          [] faults[j] = "lost" -> [dir EXCEPT !.doc = noDocument]
          [] faults[j] = "torn" -> [dir EXCEPT !.doc = [noDocument EXCEPT !.state = "torn"]]
          [] OTHER -> dir
  BY DEF HandedBy, Came, dir
<1>4. CASE faults[j] = "unreadable"
  BY <1>3, <1>4 DEF Unreadable, Directory
<1>5. CASE faults[j] = "lost"
  BY <1>1, <1>3, <1>5
<1>6. CASE faults[j] = "torn"
  BY <1>1, <1>2, <1>3, <1>6
<1>7. CASE faults[j] \notin {"unreadable", "torn", "lost"}
  <2>1. HandedBy(j) = dir
    BY <1>3, <1>7
  <2>2. dir = [x \in {"read", "rows", "doc", "incomplete"} |-> dir[x]]
    BY <1>1
  <2>3. HandedBy(j) = [x \in {"read", "rows", "doc", "incomplete"} |-> HandedBy(j)[x]]
    BY <2>1, <2>2
  <2>4. QED
    BY <1>1, <1>7, <2>1, <2>3
<1>8. QED
  BY <1>4, <1>5, <1>6, <1>7

LEMMA MergedMutationPasses ==
  ASSUME NEW dirs, NEW d, ~Failing(MergedMutation(dirs, d).rows), ~MergedMutation(dirs, d).incomplete,
         \A k \in DOMAIN dirs : dirs[k] = [x \in {"read", "rows", "doc", "incomplete"} |-> dirs[k][x]]
  PROVE  /\ \A k \in DOMAIN dirs : dirs[k].read /\ dirs[k].doc.state # "torn" /\ ~Failing(dirs[k].rows) /\ ~dirs[k].incomplete
         /\ agreed(dirs, <<"select", 0>>)
         /\ \A label \in mutationLabels(d) : Cardinality(rowsFor(dirs, label)) = 1
         /\ oneTree(dirs)
<1> DEFINE counts == FoldCounts(dirs)
           anew == neverPassingIncomplete(dirs, counts)
           reads == { readRow(k, dirs[k]) : k \in DOMAIN dirs }
           rows == reads \cup foldedWholeTree(dirs, mutationWholeTreeRows) \cup
                foldedScheduleRow(dirs) \cup componentRows(anew, mutationLabels(d)) \cup
                noSuiteRows({"mutation"}, d.noSuite) \cup {foldedMutationRow(dirs, counts, d)} \cup
                carryUnhandled(dirs, foldedMutationLabel(d))
           problems == \/ disagreements(dirs, mutationWholeTreeRows) # {}
                       \/ uncovered(anew, mutationLabels(d)) # {}
                       \/ ~oneTree(dirs)
                       \/ uncarriedVerdicts(rows, dirs) # {}
           all == rows \cup {shardsRow(problems)}
<1>1. MergedMutation(dirs, d) = [rows |-> all, incomplete |-> foldIncomplete(dirs, counts, d)]
  BY DEF MergedMutation
<1>2. reads \subseteq rows
  OBVIOUS
<1> HIDE DEF rows, counts, problems
<1>0. ~Failing(all) /\ ~foldIncomplete(dirs, counts, d)
  <2> HIDE DEF all
  <2>1. MergedMutation(dirs, d).rows = all /\ MergedMutation(dirs, d).incomplete = foldIncomplete(dirs, counts, d)
    BY <1>1
  <2>2. QED
    BY <2>1
<1>3. ~Failing(rows) /\ ~foldIncomplete(dirs, counts, d)
  BY <1>0 DEF Failing
<1>4. ~problems
  <2>1. ~Failing(all) /\ shardsRow(problems) \in all /\ problems \in BOOLEAN
    BY <1>0 DEF problems
  <2> HIDE DEF all, problems
  <2>2. QED
    BY <2>1, NoProblem
<1> USE DEF problems
<1>5. \A k \in DOMAIN dirs : dirs[k].read /\ dirs[k].doc.state # "torn"
  <2>1. \A k \in DOMAIN dirs : readRow(k, dirs[k]) \in rows
    BY <1>2
  <2>2. QED
    BY <1>3, <2>1, ReadsAll
<1>6. \A k \in DOMAIN dirs : ~Failing(dirs[k].rows)
  BY <1>3, <1>4, <1>5 DEF uncarriedVerdicts
<1>7. DOMAIN counts.incomplete = {} /\ \A k \in DOMAIN dirs : ~dirs[k].incomplete
  BY <1>3, <1>5, <1>6 DEF foldIncomplete
<1>8. anew = [k \in DOMAIN dirs |-> dirs[k]]
  <2>1. \A r : neverPassing(r, counts) = r
    BY <1>7 DEF neverPassing
  <2>2. \A k \in DOMAIN dirs : { neverPassing(r, counts) : r \in dirs[k].rows } = dirs[k].rows
    BY <2>1
  <2>3. \A k \in DOMAIN dirs : [dirs[k] EXCEPT !.rows = { neverPassing(r, counts) : r \in @ }] = dirs[k]
    BY <2>2
  <2>4. QED
    BY <2>3 DEF neverPassingIncomplete
<1>9. agreed(dirs, <<"select", 0>>)
  BY <1>4 DEF disagreements, mutationWholeTreeRows
<1>10. ASSUME NEW label \in mutationLabels(d)
       PROVE  Cardinality(rowsFor(dirs, label)) = 1
  <2>1. Cardinality(rowsFor(anew, label)) = 1
    BY <1>4 DEF uncovered, carriedOnce
  <2>2. rowsFor(anew, label) = rowsFor(dirs, label)
    <3>1. DOMAIN anew = DOMAIN dirs /\ \A k \in DOMAIN dirs : anew[k].rows = dirs[k].rows
      BY <1>8
    <3> HIDE DEF anew
    <3>2. QED
      BY <3>1 DEF rowsFor
  <2>3. QED
    BY <2>1, <2>2
<1>11. oneTree(dirs)
  BY <1>4
<1>12. QED
  BY <1>5, <1>6, <1>7, <1>9, <1>10, <1>11

\* What a component whose row does not fail came to, when the run was not interrupted.
LEMMA StandsWhole ==
  ASSUME NEW this, ~this.interrupted, NEW i, NEW found \in ComponentOutcome, reportedRow(this, i, found).status # "fail"
  PROVE  /\ found.kind \notin {"unplanned", "blocked"}
         /\ found.kind = "completed" /\ found.survived > 0 => this.noGate
         /\ found.kind = "completed" /\ found.teardown => denominator(found) = 0
<1> DEFINE label == <<"mutation", i>>
           row == kindRow(i, found, this.noGate)
<1>1. found \in [kind : OutcomeKind, killed : Nat, survived : Nat, measured : Nat, wanted : Nat, teardown : BOOLEAN]
  BY DEF ComponentOutcome
<1>2. reportedRow(this, i, found) = outcomeRow(i, found, this.noGate)
  BY DEF reportedRow, withdrawn
<1>3. outcomeRow(i, found, this.noGate).status # "fail"
  BY <1>2
<1>4. \A l, s, v : Row(l, s, v).status = s
  BY DEF Row
<1>5. row.status # "fail" /\ ~(found.teardown /\ teardownFailureReplaces(found.kind, row.status))
  <2> HIDE DEF row
  <2>1. outcomeRow(i, found, this.noGate) =
          IF found.teardown /\ teardownFailureReplaces(found.kind, row.status)
          THEN Row(row.label, "fail", IF found.kind = "incomplete" THEN <<0, 0>> \o progress(found) ELSE <<>>)
          ELSE row
    BY DEF outcomeRow, row
  <2>2. ~(found.teardown /\ teardownFailureReplaces(found.kind, row.status))
    BY <1>3, <1>4, <2>1
  <2>3. QED
    BY <1>3, <2>1, <2>2
<1>6. found.kind \notin {"unplanned", "blocked"}
  BY <1>4, <1>5 DEF kindRow
<1>7. ASSUME found.kind = "completed", denominator(found) # 0
      PROVE  (found.survived > 0 => this.noGate) /\ ~found.teardown
  <2>1. row = completedRow(mutationRow(label, found), this.noGate)
    BY <1>7 DEF kindRow
  <2> DEFINE anew == mutationRow(label, found)
  <2>2. anew.status = (IF found.survived > 0 THEN "fail" ELSE "pass") /\ anew.label = label
        /\ anew = [anew EXCEPT !.status = @] /\ "status" \in DOMAIN anew
    BY <1>7 DEF mutationRow, Row
  <2>3. anew.status \in {"fail", "pass"} /\ (found.survived > 0 => anew.status = "fail")
    BY <2>2
  <2> HIDE DEF anew, row
  <2>4. completedRow(anew, this.noGate) = IF this.noGate /\ anew.status \in {"pass", "fail"}
                                           THEN [anew EXCEPT !.status = "context"] ELSE anew
    BY DEF completedRow
  <2>5. row = IF this.noGate THEN [anew EXCEPT !.status = "context"] ELSE anew
    BY <2>1, <2>3, <2>4 DEF anew
  <2>6. row.status = IF this.noGate THEN "context" ELSE anew.status
    BY <2>2, <2>5
  <2>7. found.survived > 0 => this.noGate
    BY <1>5, <2>3, <2>6
  <2>8. row.status \in {"context", "pass"}
    BY <1>5, <2>3, <2>6
  <2>9. ~found.teardown
    BY <1>5, <2>8 DEF teardownFailureReplaces
  <2>10. QED
    BY <2>7, <2>9
<1>8. denominator(found) = 0 => ~(found.survived > 0)
  BY <1>1 DEF denominator
<1>9. QED
  BY <1>6, <1>7, <1>8

LEMMA MutationRowsOfOne ==
  ASSUME PlanInv, JobsRun, run.command = "mutation", NEW o, From(o), \A k \in DOMAIN inputs : inputs[k].read,
         NEW j \in DOMAIN faults, NEW i \in Members(j)
  PROVE  /\ \A k \in DOMAIN inputs : o[k] \in DOMAIN faults /\ inputs[k].rows = MutationJobRows(o[k])
         /\ \A e \in rowsFor(inputs, <<"mutation", i>>) : \E k \in DOMAIN inputs :
               o[k] = j /\ e = <<k, reportedRow(asked(faults[j]), i, picked[i])>>
         /\ \A k \in DOMAIN inputs : o[k] = j =>
               <<k, reportedRow(asked(faults[j]), i, picked[i])>> \in rowsFor(inputs, <<"mutation", i>>)
<1> DEFINE said1(l, m) == reportedRow(asked(faults[l]), m, picked[m])
<1>1. \A k \in DOMAIN inputs : o[k] \in DOMAIN faults /\ inputs[k] = HandedBy(o[k])
  BY DEF From
<1>2. ASSUME NEW k \in DOMAIN inputs
      PROVE  inputs[k].rows = MutationJobRows(o[k])
  <2>1. faults[o[k]] # "unreadable"
    <3>1. SUFFICES ASSUME faults[o[k]] = "unreadable" PROVE FALSE
      OBVIOUS
    <3>2. inputs[k] = Unreadable
      BY <1>1, <3>1, HandedMutation
    <3>3. QED
      BY <3>2 DEF Unreadable, Directory
  <2>2. QED
    BY <1>1, <2>1, HandedMutation
<1>3. \A l, m : said1(l, m).label = <<"mutation", m>>
  BY ReportedLabel
<1>4. ASSUME NEW l \in DOMAIN faults, NEW r \in MutationJobRows(l), r.label = <<"mutation", i>>
      PROVE  l = j /\ r = said1(j, i)
  <2>1. MutationJobRows(l) = SelectRow(asked(faults[l])) \cup {mutationScheduleRow(asked(faults[l]), StoppedAt(l))} \cup
                             { said1(l, m) : m \in Members(l) }
    BY MutationJob
  <2>2. \A q \in SelectRow(asked(faults[l])) : q.label # <<"mutation", i>>
    BY DEF SelectRow, Row
  <2>3. mutationScheduleRow(asked(faults[l]), StoppedAt(l)).label # <<"mutation", i>>
    BY DEF mutationScheduleRow, Row
  <2> HIDE DEF said1
  <2>4. PICK m \in Members(l) : r = said1(l, m)
    BY <1>4, <2>1, <2>2, <2>3
  <2>5. m = i
    BY <1>3, <1>4, <2>4
  <2>6. l = j
    BY <2>4, <2>5, JobsPlace
  <2>7. QED
    BY <2>4, <2>5, <2>6
<1>5. said1(j, i) \in MutationJobRows(j)
  BY MutationJob
<1> HIDE DEF said1
<1>6. /\ \A k \in DOMAIN inputs : \A r \in inputs[k].rows : r.label = <<"mutation", i>> => <<k, r>> \in rowsFor(inputs, <<"mutation", i>>)
      /\ \A e \in rowsFor(inputs, <<"mutation", i>>) : \E k \in DOMAIN inputs : \E r \in inputs[k].rows :
            r.label = <<"mutation", i>> /\ e = <<k, r>>
  BY RowsForIs
<1>7. ASSUME NEW e \in rowsFor(inputs, <<"mutation", i>>)
      PROVE  \E k \in DOMAIN inputs : o[k] = j /\ e = <<k, said1(j, i)>>
  <2>1. PICK k \in DOMAIN inputs : \E r \in inputs[k].rows : r.label = <<"mutation", i>> /\ e = <<k, r>>
    BY <1>6
  <2>2. PICK r \in inputs[k].rows : r.label = <<"mutation", i>> /\ e = <<k, r>>
    BY <2>1
  <2>3. o[k] = j /\ r = said1(j, i)
    BY <1>1, <1>2, <1>4, <2>2
  <2>4. QED
    BY <2>2, <2>3
<1>8. ASSUME NEW k \in DOMAIN inputs, o[k] = j
      PROVE  <<k, said1(j, i)>> \in rowsFor(inputs, <<"mutation", i>>)
  BY <1>2, <1>3, <1>5, <1>6, <1>8
<1>9. QED
  BY <1>1, <1>2, <1>7, <1>8 DEF said1

LEMMA MutationJobPassed ==
  ASSUME MatrixInv, step = "folded", run.command = "mutation", Passes(merged), NEW j \in DOMAIN faults
  PROVE  /\ faults[j] \in {"none", "late", "lost", "moved", "elsewhere"}
         /\ \A i \in Members(j) : WholeAnswer(picked[i])
         /\ \E k \in DOMAIN inputs : inputs[k].rows = MutationJobRows(j)
<1>1. PlanInv /\ JobsRun /\ Folded
  BY DEF MatrixInv
<1>2. merged = MergedMutation(inputs, decl) /\ ~Failing(merged.rows) /\ ~merged.incomplete
  BY <1>1 DEF Folded, Passes
<1>3. PICK o : From(o)
  BY <1>1 DEF JobsRun
<1>4. \A k \in DOMAIN inputs : o[k] \in DOMAIN faults /\ faults[o[k]] # "died" /\ inputs[k] = HandedBy(o[k])
  BY <1>3 DEF From
<1>5. /\ \A k \in DOMAIN inputs : inputs[k].read /\ inputs[k].doc.state # "torn" /\ ~Failing(inputs[k].rows) /\ ~inputs[k].incomplete
      /\ \A label \in mutationLabels(decl) : Cardinality(rowsFor(inputs, label)) = 1
  <2>1. \A k \in DOMAIN inputs : inputs[k] = [x \in {"read", "rows", "doc", "incomplete"} |-> inputs[k][x]]
    BY <1>4, HandedMutation
  <2>2. PICK dirs, d : dirs = inputs /\ d = decl
    OBVIOUS
  <2>3. ~Failing(MergedMutation(dirs, d).rows) /\ ~MergedMutation(dirs, d).incomplete
    BY <1>2, <2>2
  <2>4. \A k \in DOMAIN dirs : dirs[k] = [x \in {"read", "rows", "doc", "incomplete"} |-> dirs[k][x]]
    BY <2>1, <2>2
  <2>5. /\ \A k \in DOMAIN dirs : dirs[k].read /\ dirs[k].doc.state # "torn" /\ ~Failing(dirs[k].rows) /\ ~dirs[k].incomplete
        /\ \A label \in mutationLabels(d) : Cardinality(rowsFor(dirs, label)) = 1
    BY <2>3, <2>4, MergedMutationPasses
  <2>6. QED
    BY <2>2, <2>5
<1>6. PICK places : places = DOMAIN inputs /\ IsFiniteSet(places)
  <2>1. Len(inputs) \in Nat /\ DOMAIN inputs = 1 .. Len(inputs)
    BY <1>1 DEF JobsRun
  <2>2. 1 \in Int /\ Len(inputs) \in Int
    BY <2>1
  <2>3. IsFiniteSet(1 .. Len(inputs))
    BY <2>2, FS_Interval
  <2>4. QED
    BY <2>1, <2>3
<1>7. PICK member \in Members(j) : TRUE
  BY <1>1, JobsPlace
<1> DEFINE this == asked(faults[j])
           row(i) == reportedRow(this, i, picked[i])
<1>8. \A i \in Members(j) : Cardinality(rowsFor(inputs, <<"mutation", i>>)) = 1
  <2>1. Members(j) \subseteq decl.suites
    BY <1>1, JobsPlace
  <2>2. QED
    BY <1>5, <2>1 DEF mutationLabels
<1>9. /\ \A k \in DOMAIN inputs : inputs[k].rows = MutationJobRows(o[k])
      /\ \A i \in Members(j) :
           /\ \A e \in rowsFor(inputs, <<"mutation", i>>) : \E k \in DOMAIN inputs : o[k] = j /\ e = <<k, row(i)>>
           /\ \A k \in DOMAIN inputs : o[k] = j => <<k, row(i)>> \in rowsFor(inputs, <<"mutation", i>>)
  <2>1. ASSUME NEW i \in Members(j)
        PROVE  /\ \A k \in DOMAIN inputs : inputs[k].rows = MutationJobRows(o[k])
               /\ \A e \in rowsFor(inputs, <<"mutation", i>>) : \E k \in DOMAIN inputs : o[k] = j /\ e = <<k, row(i)>>
               /\ \A k \in DOMAIN inputs : o[k] = j => <<k, row(i)>> \in rowsFor(inputs, <<"mutation", i>>)
    <3>1. \A k \in DOMAIN inputs : inputs[k].read
      BY <1>5
    <3>2. QED
      BY <1>1, <1>3, <3>1, MutationRowsOfOne
  <2>2. QED
    BY <1>7, <2>1
<1>10. PICK from \in DOMAIN inputs : o[from] = j
  <2>1. Cardinality(rowsFor(inputs, <<"mutation", member>>)) = 1
    BY <1>7, <1>8
  <2>2. Cardinality({}) = 0
    BY FS_EmptySet
  <2>3. rowsFor(inputs, <<"mutation", member>>) # {}
    <3>1. SUFFICES ASSUME rowsFor(inputs, <<"mutation", member>>) = {} PROVE FALSE
      OBVIOUS
    <3>2. Cardinality(rowsFor(inputs, <<"mutation", member>>)) = Cardinality({})
      BY ONLY <3>1, Zenon
    <3>3. QED
      BY <2>1, <2>2, <3>2
  <2>4. QED
    BY <1>7, <1>9, <2>3
<1>11. /\ inputs[from].rows = MutationJobRows(j) /\ ~Failing(MutationJobRows(j)) /\ ~StoppedAt(j)
       /\ faults[j] \notin {"died", "unreadable", "torn"}
  <2>1. /\ inputs[from] = HandedBy(j) /\ inputs[from].read /\ inputs[from].doc.state # "torn" /\ faults[j] # "died"
        /\ ~Failing(inputs[from].rows) /\ ~inputs[from].incomplete
    BY <1>4, <1>5, <1>10
  <2>2. faults[j] # "unreadable"
    <3>1. ~Unreadable.read
      BY DEF Unreadable, Directory
    <3>2. QED
      BY <1>1, <2>1, <3>1, HandedMutation
  <2>3. faults[j] # "torn"
    BY <1>1, <2>1, HandedMutation
  <2>4. HandedBy(j).rows = MutationJobRows(j) /\ HandedBy(j).incomplete = StoppedAt(j)
    BY <2>2, HandedMutation
  <2>5. QED
    BY <2>1, <2>2, <2>3, <2>4
<1>12. /\ faults[j] \in Fault \ {"not gated"}
       /\ \A i \in Members(j) : picked[i] \in ComponentOutcome /\ picked[i] \in answers(faults[j], i)
       /\ MutationJobRows(j) = SelectRow(this) \cup {mutationScheduleRow(this, StoppedAt(j))} \cup
                               { row(i) : i \in Members(j) }
  BY <1>1, MutationJob
<1>13. ~this.interrupted /\ faults[j] \notin {"interrupted", "cut"}
  <2>1. mutationScheduleRow(this, StoppedAt(j)).status # "fail"
    BY <1>11, <1>12 DEF Failing
  <2>2. ~this.interrupted
    BY <2>1 DEF mutationScheduleRow, Row
  <2>3. QED
    BY <2>2 DEF asked
<1>14. ASSUME NEW i \in Members(j)
       PROVE  WholeAnswer(picked[i])
  <2>1. row(i).status # "fail"
    BY <1>11, <1>12 DEF Failing
  <2>2. picked[i] \in ComponentOutcome
    BY <1>12
  <2>3. PICK t, found : t = this /\ found = picked[i]
    OBVIOUS
  <2>4. ~t.interrupted /\ found \in ComponentOutcome /\ reportedRow(t, i, found).status # "fail"
    BY <1>13, <2>1, <2>2, <2>3
  <2>5. /\ found.kind \notin {"unplanned", "blocked"}
        /\ found.kind = "completed" /\ found.survived > 0 => t.noGate
        /\ found.kind = "completed" /\ found.teardown => denominator(found) = 0
    BY <2>4, StandsWhole
  <2>6. ~StoppedAt(j) /\ Answered(j) = [m \in Members(j) |-> picked[m]]
    BY <1>1, <1>11, JobsPlace
  <2>7. picked[i].kind # "incomplete" /\ ~(this.deadline /\ deadlineStopped(picked[i]))
    BY <2>6 DEF StoppedAt, leftIncomplete
  <2>8. ~deadlineStopped(picked[i])
    <3>1. deadlineStopped(picked[i]) => faults[j] \in {"interrupted", "late", "cut"}
      BY <1>12 DEF answers
    <3>2. faults[j] = "late" => this.deadline
      BY DEF asked
    <3>3. QED
      BY <1>13, <2>7, <3>1, <3>2
  <2>9. picked[i].kind \in OutcomeKind
    BY <2>2 DEF ComponentOutcome
  <2>10. picked[i].kind \in {"unselected", "off", "unmeasurable", "completed"}
    BY <2>3, <2>5, <2>7, <2>8, <2>9 DEF OutcomeKind, deadlineStopped
  <2>11. picked[i].kind # "completed" => denominator(picked[i]) = 0
    BY <2>2, <2>10 DEF ComponentOutcome
  <2>12. picked[i].teardown => denominator(picked[i]) = 0
    BY <2>3, <2>5, <2>11
  <2>13. picked[i].killed \in Nat /\ picked[i].survived \in Nat
    BY <2>2 DEF ComponentOutcome
  <2>14. picked[i].survived > 0 => picked[i].kind = "completed"
    BY <2>11, <2>13 DEF denominator
  <2>15. picked[i].survived > 0 => run.mode = "no gate"
    <3>1. this.noGate = (run.mode = "no gate")
      BY DEF asked
    <3>2. QED
      BY <2>3, <2>5, <2>14, <3>1
  <2>16. run.command # "test"
    OBVIOUS
  <2>17. QED
    BY <2>10, <2>12, <2>15, <2>16 DEF WholeAnswer
<1>15. faults[j] # "twice"
  <2>1. SUFFICES ASSUME faults[j] = "twice" PROVE FALSE
    OBVIOUS
  <2>2. PICK k, l \in DOMAIN inputs : k # l /\ o[k] = j /\ o[l] = j
    BY <1>3, <2>1 DEF From
  <2> DEFINE mine == rowsFor(inputs, <<"mutation", member>>)
             one == row(member)
  <2>3. <<k, one>> \in mine /\ <<l, one>> \in mine
    BY <1>7, <1>9, <2>2
  <2>4. \A e \in mine : \E a \in places : e = <<a, one>>
    BY <1>6, <1>7, <1>9
  <2>5. Cardinality(mine) = 1
    BY <1>7, <1>8
  <2> HIDE DEF mine, one
  <2>6. PICK S, q : S = mine /\ q = one
    OBVIOUS
  <2>7. IsFiniteSet(S)
    <3>1. IsFiniteSet(places \X {q})
      BY <1>6, PairIsOne
    <3>2. S \in SUBSET (places \X {q})
      BY <2>4, <2>6
    <3>3. QED
      BY <3>1, <3>2, FS_Subset
  <2>8. \A a, b \in S : a = b
    <3>1. Cardinality(S) <= 1
      BY <2>5, <2>6
    <3>2. QED
      BY <2>7, <3>1, AtMostOne
  <2>9. <<k, one>> = <<l, one>>
    BY <2>3, <2>6, <2>8
  <2>10. QED
    BY <2>2, <2>9
<1>16. QED
  BY <1>11, <1>12, <1>13, <1>14, <1>15 DEF Fault

LEMMA MutationMergeIsWhole ==
  ASSUME MatrixInv, step = "folded", run.command = "mutation", Passes(merged)
  PROVE  Whole
<1>1. PlanInv /\ JobsRun /\ Folded
  BY DEF MatrixInv
<1>2. PICK o : From(o)
  BY <1>1 DEF JobsRun
<1>3. \A j \in DOMAIN faults :
        /\ faults[j] \in {"none", "late", "lost", "moved", "elsewhere"}
        /\ \A i \in Members(j) : WholeAnswer(picked[i])
        /\ \E k \in DOMAIN inputs : inputs[k].rows = MutationJobRows(j)
  BY MutationJobPassed
<1>4. \A k \in DOMAIN inputs : o[k] \in DOMAIN faults /\ inputs[k] = HandedBy(o[k])
  BY <1>2 DEF From
<1>5. agreed(inputs, <<"select", 0>>) /\ oneTree(inputs)
  <2>1. merged = MergedMutation(inputs, decl) /\ ~Failing(merged.rows) /\ ~merged.incomplete
    BY <1>1 DEF Folded, Passes
  <2>2. PICK dirs, d : dirs = inputs /\ d = decl
    OBVIOUS
  <2>3. ~Failing(MergedMutation(dirs, d).rows) /\ ~MergedMutation(dirs, d).incomplete
    BY <2>1, <2>2
  <2>4. \A k \in DOMAIN dirs : dirs[k] = [x \in {"read", "rows", "doc", "incomplete"} |-> dirs[k][x]]
    BY <1>4, <2>2, HandedMutation
  <2>5. agreed(dirs, <<"select", 0>>) /\ oneTree(dirs)
    BY <2>3, <2>4, MergedMutationPasses
  <2>6. QED
    BY <2>2, <2>5
<1>6. \A k \in DOMAIN inputs : inputs[k].rows = MutationJobRows(o[k])
  <2>1. ASSUME NEW k \in DOMAIN inputs
        PROVE  inputs[k].rows = MutationJobRows(o[k])
    <3>1. faults[o[k]] # "unreadable"
      BY <1>3, <1>4
    <3>2. QED
      BY <1>4, <3>1, HandedMutation
  <2>2. QED
    BY <2>1
<1>7. ASSUME NEW j \in DOMAIN faults, NEW k \in DOMAIN faults, faults[j] = "elsewhere"
      PROVE  faults[k] = "elsewhere"
  <2>1. SUFFICES ASSUME faults[k] # "elsewhere" PROVE FALSE
    OBVIOUS
  <2> DEFINE saw(l) == Row(<<"select", 0>>, "pass", <<IF faults[l] = "elsewhere" THEN 1 ELSE 0>>)
  <2>2. run.affected
    BY <1>1, <1>7, MutationJob
  <2>3. ASSUME NEW l \in DOMAIN faults
        PROVE  \A r : (r \in MutationJobRows(l) /\ r.label = <<"select", 0>>) <=> r = saw(l)
    <3>1. MutationJobRows(l) = SelectRow(asked(faults[l])) \cup {mutationScheduleRow(asked(faults[l]), StoppedAt(l))} \cup
                               { reportedRow(asked(faults[l]), i, picked[i]) : i \in Members(l) }
      BY <1>1, MutationJob
    <3>2. SelectRow(asked(faults[l])) = {saw(l)}
      <4>1. asked(faults[l]).affected = run.affected /\ asked(faults[l]).seen = IF faults[l] = "elsewhere" THEN 1 ELSE 0
        BY DEF asked
      <4>2. QED
        BY <2>2, <4>1 DEF SelectRow
    <3>3. mutationScheduleRow(asked(faults[l]), StoppedAt(l)).label # <<"select", 0>>
      BY DEF mutationScheduleRow, Row
    <3>4. \A i : reportedRow(asked(faults[l]), i, picked[i]).label # <<"select", 0>>
      BY ReportedLabel
    <3>5. saw(l).label = <<"select", 0>>
      BY DEF Row
    <3> HIDE DEF saw
    <3>6. QED
      BY <3>1, <3>2, <3>3, <3>4, <3>5
  <2>4. saw(j) # saw(k)
    BY <1>7, <2>1 DEF Row
  <2>5. \A l \in DOMAIN faults : saw(l) \in {saw(j), saw(k)}
    BY <1>7, <2>1
  <2> HIDE DEF saw
  <2>6. \A r : r \in labelled(inputs, <<"select", 0>>) <=>
                 r.label = <<"select", 0>> /\ \E a \in DOMAIN inputs : r \in inputs[a].rows
    BY RowsForIs
  <2>7. labelled(inputs, <<"select", 0>>) = {saw(j), saw(k)}
    <3>1. \A l \in DOMAIN faults : saw(l) \in labelled(inputs, <<"select", 0>>)
      BY <1>3, <2>3, <2>6
    <3>2. ASSUME NEW r \in labelled(inputs, <<"select", 0>>)
          PROVE  r \in {saw(j), saw(k)}
      <4>1. PICK a \in DOMAIN inputs : r \in inputs[a].rows /\ r.label = <<"select", 0>>
        BY <2>6
      <4>2. QED
        BY <1>4, <1>6, <2>3, <2>5, <4>1
    <3>3. QED
      BY <3>1, <3>2
  <2>8. PICK dirs, a, b : dirs = inputs /\ a = saw(j) /\ b = saw(k)
    OBVIOUS
  <2>9. agreed(dirs, <<"select", 0>>) /\ labelled(dirs, <<"select", 0>>) = {a, b}
    BY <1>5, <2>7, <2>8
  <2>10. a = b
    BY <2>9, OneAnswer
  <2>11. QED
    BY <2>4, <2>8, <2>10
<1>8. Len(inputs) = Len(shards)
  <2>1. \A j \in DOMAIN faults : faults[j] \notin {"died", "twice"}
    BY <1>3
  <2>2. QED
    BY <1>1, <1>2, <2>1 DEF From, Folded
<1>9. \A i \in DOMAIN picked : WholeAnswer(picked[i])
  <2>1. DOMAIN picked = UNION { Members(j) : j \in DOMAIN faults }
    BY <1>1 DEF JobsRun
  <2>2. QED
    BY <1>3, <2>1
<1>10. QED
  BY <1>3, <1>5, <1>7, <1>8, <1>9 DEF Whole

(***************************************************************************)
(* No merged report passes unless it stands for a whole run: a job that    *)
(* died, was cut short or skipped its gates, a directory that does not     *)
(* read or was handed over twice, jobs of two trees, each leaves a row     *)
(* that fails or a report that is incomplete, for every declaration,       *)
(* every answer of the components and every combination of such jobs.      *)
(***************************************************************************)
THEOREM PassingMergesAreWhole == MatrixSpec => []MergeIsWhole
<1>1. MatrixInit => MatrixInv
  BY MatrixInitInv
<1>2. MatrixInv /\ [MatrixNext]_<<planVars, matrixVars>> => MatrixInv'
  BY MatrixNextInv
<1>3. MatrixInv => MergeIsWhole
  <2>1. SUFFICES ASSUME MatrixInv, step = "folded", Passes(merged) PROVE Whole
    BY DEF MergeIsWhole
  <2>2. run.command \in {"test", "mutation"}
    BY <2>1 DEF MatrixInv, JobsRun, Commands
  <2>3. QED
    BY <2>1, <2>2, TestMergeIsWhole, MutationMergeIsWhole DEF Passes
<1>4. QED
  BY <1>1, <1>2, <1>3, PTL DEF MatrixSpec

(***************************************************************************)
(* The jobs of a matrix that is run are the partition of its plan.         *)
(***************************************************************************)
THEOREM MatrixRunsThePartition == MatrixSpec => []MatrixIsThePartition
<1>1. MatrixInit => MatrixInv
  BY MatrixInitInv
<1>2. MatrixInv /\ [MatrixNext]_<<planVars, matrixVars>> => MatrixInv'
  BY MatrixNextInv
<1>3. MatrixInv => MatrixIsThePartition
  BY JobsArePartition, ShardsAreTheGroups DEF MatrixInv, MatrixIsThePartition
<1>4. QED
  BY <1>1, <1>2, <1>3, PTL DEF MatrixSpec

(***************************************************************************)
(* The sums of the folds.  MapThenSumSet is a function defined by          *)
(* recursion on the finite sets; that there is one, and that a sum of      *)
(* naturals is a natural, is by the least number of elements for which it  *)
(* would not be so.                                                        *)
(***************************************************************************)
Chosen(s) == CHOOSE x \in s : TRUE

Summed(w, g, s) == IF s = {} THEN 0 ELSE w[Chosen(s)] + g[s \ {Chosen(s)}]

IsSum(w, S, g) == g = [s \in SUBSET S |-> Summed(w, g, s)]

LEMMA ChosenOne ==
  ASSUME NEW s, s # {}, IsFiniteSet(s)
  PROVE  /\ Chosen(s) \in s
         /\ IsFiniteSet(s \ {Chosen(s)}) /\ Cardinality(s \ {Chosen(s)}) = Cardinality(s) - 1
         /\ Cardinality(s) \in Nat /\ Cardinality(s) # 0
<1>1. Chosen(s) \in s
  BY DEF Chosen
<1>2. IsFiniteSet(s \ {Chosen(s)}) /\ Cardinality(s \ {Chosen(s)}) = Cardinality(s) - 1
  BY <1>1, FS_RemoveElement
<1>3. Cardinality(s) \in Nat
  BY FS_CardinalityType
<1>4. Cardinality(s) # 0
  BY FS_EmptySet
<1>5. QED
  BY <1>1, <1>2, <1>3, <1>4

LEMMA SumsExist ==
  ASSUME NEW S, IsFiniteSet(S), NEW w, \A x \in S : w[x] \in Nat
  PROVE  \E g : IsSum(w, S, g)
<1> DEFINE Upto(n, g) == \A s \in SUBSET S : Cardinality(s) <= n => g[s] = Summed(w, g, s)
           Bad == { n \in Nat : ~ \E g \in [SUBSET S -> Nat] : Upto(n, g) }
<1>1. \A s \in SUBSET S : IsFiniteSet(s) /\ Cardinality(s) \in Nat /\ Cardinality(s) <= Cardinality(S)
  BY FS_Subset, FS_CardinalityType
<1>2. Bad = {}
  <2>1. SUFFICES ASSUME Bad # {} PROVE FALSE
    OBVIOUS
  <2>2. PICK m \in Bad : \A n \in Bad : ~(n < m)
    BY <2>1, FirstOf
  <2>3. m # 0
    <3>1. SUFFICES ASSUME m = 0 PROVE FALSE
      OBVIOUS
    <3>2. \A s \in SUBSET S : Cardinality(s) <= 0 => s = {}
      BY <1>1, FS_EmptySet
    <3>3. [s \in SUBSET S |-> 0] \in [SUBSET S -> Nat] /\ Upto(0, [s \in SUBSET S |-> 0])
      BY <3>2 DEF Summed
    <3>4. QED
      BY <3>1, <3>3
  <2>4. m - 1 \in Nat /\ m - 1 \notin Bad
    BY <2>2, <2>3
  <2>5. PICK g \in [SUBSET S -> Nat] : Upto(m - 1, g)
    BY <2>4
  <2> DEFINE h == [s \in SUBSET S |-> IF Cardinality(s) = m THEN w[Chosen(s)] + g[s \ {Chosen(s)}] ELSE g[s]]
  <2>6. ASSUME NEW s \in SUBSET S, s # {}
        PROVE  /\ Chosen(s) \in S /\ s \ {Chosen(s)} \in SUBSET S
               /\ Cardinality(s \ {Chosen(s)}) = Cardinality(s) - 1
    BY <1>1, <2>6, ChosenOne
  <2>7. Cardinality({}) = 0
    BY FS_EmptySet
  <2>8. h \in [SUBSET S -> Nat]
    <3>1. ASSUME NEW s \in SUBSET S, Cardinality(s) = m
          PROVE  w[Chosen(s)] + g[s \ {Chosen(s)}] \in Nat
      <4>1. Chosen(s) \in S /\ s \ {Chosen(s)} \in SUBSET S
        BY <2>3, <2>6, <2>7, <3>1
      <4>2. w[Chosen(s)] \in Nat /\ g[s \ {Chosen(s)}] \in Nat
        BY <4>1
      <4>3. QED
        BY <4>2
    <3>2. QED
      BY <3>1
  <2>9. Upto(m, h)
    <3>1. ASSUME NEW s \in SUBSET S, Cardinality(s) <= m
          PROVE  h[s] = Summed(w, h, s)
      <4>1. CASE s = {}
        <5>1. Cardinality(s) <= m - 1 /\ Cardinality(s) # m
          BY <2>3, <2>4, <2>7, <4>1
        <5>2. g[s] = Summed(w, g, s) /\ h[s] = g[s]
          BY <2>5, <5>1
        <5>3. QED
          BY <4>1, <5>2 DEF Summed
      <4>2. CASE s # {}
        <5>1. /\ s \ {Chosen(s)} \in SUBSET S /\ Cardinality(s \ {Chosen(s)}) = Cardinality(s) - 1
              /\ Cardinality(s) \in Nat /\ m \in Nat
          BY <1>1, <2>6, <4>2
        <5>2. h[s \ {Chosen(s)}] = g[s \ {Chosen(s)}]
          <6>1. Cardinality(s \ {Chosen(s)}) # m
            BY <3>1, <5>1
          <6>2. QED
            BY <5>1, <6>1
        <5>3. h[s] = w[Chosen(s)] + g[s \ {Chosen(s)}]
          <6>1. CASE Cardinality(s) = m
            BY <6>1
          <6>2. CASE Cardinality(s) # m
            <7>1. Cardinality(s) <= m - 1
              BY <3>1, <5>1, <6>2
            <7>2. g[s] = Summed(w, g, s) /\ h[s] = g[s]
              BY <2>5, <6>2, <7>1
            <7>3. QED
              BY <4>2, <7>2 DEF Summed
          <6>3. QED
            BY <6>1, <6>2
        <5>4. QED
          BY <4>2, <5>2, <5>3 DEF Summed
      <4>3. QED
        BY <4>1, <4>2
    <3>2. QED
      BY <3>1
  <2>10. QED
    BY <2>2, <2>8, <2>9
<1>3. Cardinality(S) \in Nat
  BY FS_CardinalityType
<1>4. PICK g \in [SUBSET S -> Nat] : Upto(Cardinality(S), g)
  BY <1>2, <1>3
<1>5. \A s \in SUBSET S : g[s] = Summed(w, g, s)
  BY <1>1, <1>4
<1>6. g = [s \in SUBSET S |-> Summed(w, g, s)]
  BY <1>5
<1>7. QED
  BY <1>6 DEF IsSum

LEMMA SumsAreNat ==
  ASSUME NEW S, IsFiniteSet(S), NEW w, \A x \in S : w[x] \in Nat,
         NEW g, IsSum(w, S, g)
  PROVE  g[S] \in Nat
<1> DEFINE Bad == { n \in Nat : \E s \in SUBSET S : Cardinality(s) = n /\ g[s] \notin Nat }
<1>1. \A s \in SUBSET S : IsFiniteSet(s) /\ Cardinality(s) \in Nat
  BY FS_Subset, FS_CardinalityType
<1>2. \A s \in SUBSET S : g[s] = Summed(w, g, s)
  BY DEF IsSum
<1>3. Bad = {}
  <2>1. SUFFICES ASSUME Bad # {} PROVE FALSE
    OBVIOUS
  <2>2. PICK m \in Bad : \A n \in Bad : ~(n < m)
    BY <2>1, FirstOf
  <2>3. PICK s \in SUBSET S : Cardinality(s) = m /\ g[s] \notin Nat
    BY <2>2
  <2>4. s # {}
    BY <1>2, <2>3 DEF Summed
  <2>5. /\ Chosen(s) \in S /\ s \ {Chosen(s)} \in SUBSET S
        /\ Cardinality(s \ {Chosen(s)}) = m - 1 /\ m \in Nat /\ m # 0
    BY <1>1, <2>3, <2>4, ChosenOne
  <2>6. m - 1 \in Nat /\ m - 1 \notin Bad
    <3>1. m - 1 \in Nat /\ m - 1 < m
      BY <2>5
    <3> HIDE DEF Bad
    <3>2. QED
      BY <2>2, <3>1
  <2>7. g[s \ {Chosen(s)}] \in Nat
    BY <2>5, <2>6
  <2>8. g[s] = w[Chosen(s)] + g[s \ {Chosen(s)}]
    BY <1>2, <2>4 DEF Summed
  <2>9. w[Chosen(s)] \in Nat
    BY <2>5
  <2>10. QED
    BY <2>3, <2>7, <2>8, <2>9
<1>4. QED
  BY <1>1, <1>3

\* What a fold says of its counts is two naturals, none of none.
LEMMA SumOfCounts ==
  ASSUME NEW counts, IsFiniteSet(DOMAIN counts), \A i \in DOMAIN counts : counts[i].killed \in Nat /\ counts[i].survived \in Nat
  PROVE  \E a, b \in Nat : sumOf(counts) = <<a, b>>
<1> DEFINE D == DOMAIN counts
<1>1. ASSUME NEW s \in SUBSET D, s # {}
      PROVE  Chosen(s) \in D
  BY <1>1 DEF Chosen
<1>2. MapThenSumSet(LAMBDA i : counts[i].killed, D) \in Nat
  <2> DEFINE w == [x \in D |-> counts[x].killed]
             is(g) == g = [s \in SUBSET D |-> IF s = {} THEN 0 ELSE counts[Chosen(s)].killed + g[s \ {Chosen(s)}]]
  <2>1. MapThenSumSet(LAMBDA i : counts[i].killed, D) = (CHOOSE g : is(g))[D]
    BY SMT DEF MapThenSumSet, MapThenFoldSet, Chosen
  <2>2. \A g : is(g) <=> IsSum(w, D, g)
    BY <1>1 DEF Summed, IsSum
  <2>3. \A x \in D : w[x] \in Nat
    OBVIOUS
  <2> HIDE DEF w, is
  <2>4. \E g : is(g)
    <3>1. PICK S, v : S = D /\ v = w
      OBVIOUS
    <3>2. IsFiniteSet(S) /\ \A x \in S : v[x] \in Nat
      BY <2>3, <3>1
    <3>3. \E g : IsSum(v, S, g)
      BY <3>2, SumsExist
    <3>4. QED
      BY <2>2, <3>1, <3>3
  <2>5. is(CHOOSE g : is(g))
    BY <2>4
  <2>6. PICK g : g = (CHOOSE f : is(f))
    OBVIOUS
  <2>7. IsSum(w, D, g)
    BY <2>2, <2>5, <2>6
  <2>8. g[D] \in Nat
    <3>1. PICK S, v : S = D /\ v = w
      OBVIOUS
    <3>2. IsFiniteSet(S) /\ (\A x \in S : v[x] \in Nat) /\ IsSum(v, S, g)
      BY <2>3, <2>7, <3>1
    <3>3. g[S] \in Nat
      BY <3>2, SumsAreNat
    <3>4. QED
      BY <3>1, <3>3
  <2>9. QED
    BY <2>1, <2>6, <2>8
<1>3. MapThenSumSet(LAMBDA i : denominator(counts[i]), D) \in Nat
  <2> DEFINE w == [x \in D |-> denominator(counts[x])]
             is(g) == g = [s \in SUBSET D |-> IF s = {} THEN 0 ELSE denominator(counts[Chosen(s)]) + g[s \ {Chosen(s)}]]
  <2>1. MapThenSumSet(LAMBDA i : denominator(counts[i]), D) = (CHOOSE g : is(g))[D]
    BY SMT DEF MapThenSumSet, MapThenFoldSet, Chosen
  <2>2. \A g : is(g) <=> IsSum(w, D, g)
    BY <1>1 DEF Summed, IsSum
  <2>3. \A x \in D : w[x] \in Nat
    BY DEF denominator
  <2> HIDE DEF w, is
  <2>4. \E g : is(g)
    <3>1. PICK S, v : S = D /\ v = w
      OBVIOUS
    <3>2. IsFiniteSet(S) /\ \A x \in S : v[x] \in Nat
      BY <2>3, <3>1
    <3>3. \E g : IsSum(v, S, g)
      BY <3>2, SumsExist
    <3>4. QED
      BY <2>2, <3>1, <3>3
  <2>5. is(CHOOSE g : is(g))
    BY <2>4
  <2>6. PICK g : g = (CHOOSE f : is(f))
    OBVIOUS
  <2>7. IsSum(w, D, g)
    BY <2>2, <2>5, <2>6
  <2>8. g[D] \in Nat
    <3>1. PICK S, v : S = D /\ v = w
      OBVIOUS
    <3>2. IsFiniteSet(S) /\ (\A x \in S : v[x] \in Nat) /\ IsSum(v, S, g)
      BY <2>3, <2>7, <3>1
    <3>3. g[S] \in Nat
      BY <3>2, SumsAreNat
    <3>4. QED
      BY <3>1, <3>3
  <2>9. QED
    BY <2>1, <2>6, <2>8
<1>4. QED
  BY <1>2, <1>3 DEF sumOf

(***************************************************************************)
(* What a job's document holds of each of its components.                  *)
(***************************************************************************)
MeasureOf(d, found, i) == measurement(i, found[i], d)

IsCarried(d, found, i) ==
    ~Measured(MeasureOf(d, found, i)) /\ MeasureOf(d, found, i).carryable /\ Counted(found[i].base.lines)

IsRecorded(d, found, i) == Measured(MeasureOf(d, found, i)) \/ IsCarried(d, found, i)

EntryFor(d, found, i) ==
    IF IsCarried(d, found, i) THEN FromEntry(MeasureOf(d, found, i), found[i].base) ELSE MeasureOf(d, found, i)

Patched(m) == m.touched /\ Measured(m) /\ Counted(m.new)

HandedEntry(d, found, mode, i) ==
    LET e == EntryFor(d, found, i)
        score == IF IsCarried(d, found, i) THEN found[i].base ELSE MeasureOf(d, found, i)
    IN  [lines      |-> restored(e, found[i].base),
         unanchored |-> unanchored(e.lines, restored(e, found[i].base)),
         producer   |-> e.producer,
         carried    |-> IsCarried(d, found, i),
         patch      |-> IF mode = "gated" /\ Patched(MeasureOf(d, found, i)) THEN MeasureOf(d, found, i).new ELSE NoLines,
         base       |-> IF mode = "gated" /\ Counted(ComparableBase(e, found[i].base)) THEN found[i].base ELSE NoEntry,
         scored     |-> score.scored,
         above      |-> score.above]

RecordedOf(d, found, S) == { i \in S : IsRecorded(d, found, i) }

(***************************************************************************)
(* What a measurement says, by what the component's suite and instruments  *)
(* answered.                                                               *)
(***************************************************************************)
Anew(d, found, i) == found[i].suite = "passed" /\ i \notin d.raw /\ Counted(found[i].lines)

Says(d, found, i) ==
    LET m == MeasureOf(d, found, i)
    IN  /\ m = [x \in {"lines", "producer", "scorable", "scored", "above", "touched", "new", "unmeasurable", "carryable"} |-> m[x]]
        /\ m.lines = IF Anew(d, found, i) THEN found[i].lines ELSE NoLines
        /\ Measured(m) <=> Anew(d, found, i)
        /\ m.scorable <=> i \notin d.raw
        /\ m.scored => Anew(d, found, i)
        /\ m.unmeasurable <=> found[i].suite = "passed" /\ i \in d.raw
        /\ m.carryable <=> found[i].suite = "unselected"

LEMMA MeasurementIs ==
  ASSUME NEW d, NEW found, NEW i, found[i] \in Profile
  PROVE  Says(d, found, i)
<1> DEFINE p == found[i]
           raw == i \in d.raw
           blank == [lines |-> NoLines, producer |-> "none", scorable |-> ~raw, scored |-> FALSE, above |-> 0,
                     touched |-> p.touched /\ ~raw, new |-> NoLines, unmeasurable |-> FALSE, carryable |-> FALSE]
           m == MeasureOf(d, found, i)
           anew == p.suite = "passed" /\ ~raw /\ Counted(p.lines)
<1>0. SUFFICES /\ m = [x \in {"lines", "producer", "scorable", "scored", "above", "touched", "new", "unmeasurable", "carryable"} |-> m[x]]
               /\ m.lines = IF anew THEN p.lines ELSE NoLines
               /\ Measured(m) <=> anew
               /\ m.scorable <=> ~raw
               /\ m.scored => anew
               /\ m.unmeasurable <=> p.suite = "passed" /\ raw
               /\ m.carryable <=> p.suite = "unselected"
  BY DEF Says, Anew
<1>1. /\ p.suite \in {"passed", "failed", "unselected"} /\ p.scored \in BOOLEAN
      /\ p.lines.total \in Nat
  BY DEF Profile
<1>2. ~Counted(NoLines)
  BY DEF Counted, NoLines
<1>3. m = CASE p.suite = "passed" /\ raw -> [blank EXCEPT !.unmeasurable = TRUE]
            [] p.suite = "passed" /\ ~raw /\ Counted(p.lines) ->
                  [blank EXCEPT !.lines = p.lines, !.producer = "now", !.new = p.new,
                                !.scored = p.scored, !.above = p.above]
            [] p.suite = "unselected" -> [blank EXCEPT !.carryable = TRUE]
            [] OTHER -> blank
  BY DEF MeasureOf, measurement
<1>4. CASE p.suite = "passed" /\ raw
  <2>1. m = [blank EXCEPT !.unmeasurable = TRUE]
    BY <1>3, <1>4
  <2> HIDE DEF m
  <2>2. QED
    BY <1>2, <1>4, <2>1 DEF Measured, m
<1>5. CASE p.suite = "passed" /\ ~raw /\ Counted(p.lines)
  <2>1. m = [blank EXCEPT !.lines = p.lines, !.producer = "now", !.new = p.new,
                          !.scored = p.scored, !.above = p.above]
    BY <1>3, <1>5
  <2> HIDE DEF m
  <2>2. QED
    BY <1>1, <1>2, <1>5, <2>1 DEF Measured, m
<1>6. CASE p.suite = "unselected"
  <2>1. m = [blank EXCEPT !.carryable = TRUE]
    BY <1>3, <1>6
  <2> HIDE DEF m
  <2>2. QED
    BY <1>2, <1>6, <2>1 DEF Measured, m
<1>7. CASE p.suite = "failed" \/ (p.suite = "passed" /\ ~raw /\ ~Counted(p.lines))
  <2>1. m = blank
    BY <1>3, <1>7
  <2>2. /\ ~(p.suite = "passed" /\ ~raw /\ Counted(p.lines)) /\ ~(p.suite = "passed" /\ raw)
        /\ p.suite # "unselected"
    BY <1>7
  <2>3. ~(found[i].suite = "passed" /\ i \notin d.raw /\ Counted(found[i].lines))
        /\ ~(found[i].suite = "passed" /\ i \in d.raw) /\ found[i].suite # "unselected"
    BY <2>2
  <2>4. /\ m = [x \in {"lines", "producer", "scorable", "scored", "above", "touched", "new", "unmeasurable", "carryable"} |-> m[x]]
        /\ m.lines = NoLines /\ ~Measured(m) /\ m.producer = "none" /\ m.scorable = ~raw
        /\ m.scored = FALSE /\ m.unmeasurable = FALSE /\ m.carryable = FALSE
    <3> HIDE DEF m
    <3>1. QED
      BY <1>2, <2>1 DEF Measured
  <2> HIDE DEF m
  <2>5. QED
    BY <2>3, <2>4 DEF m
<1>8. QED
  BY <1>1, <1>4, <1>5, <1>6, <1>7

Recording == {"own base", "gated"}

LEMMA CandidateIs ==
  ASSUME NEW this, ~this.interrupted, this.mode \in Recording, NEW d, NEW own, NEW found
  PROVE  LET R == RecordedOf(d, found, own \cap d.suites)
         IN  RunCandidate(this, d, own, found) =
                [state |-> "read", tree |-> this.tree, gated |-> this.mode = "gated" /\ R # {},
                 components |-> [i \in R |-> HandedEntry(d, found, this.mode, i)]]
<1> DEFINE S == own \cap d.suites
           ms == [i \in S |-> measurement(i, found[i], d)]
           base == [i \in S |-> found[i].base]
           gated == this.mode = "gated"
           R == RecordedOf(d, found, S)
           parts == IF gated THEN PatchParts(ms, base) ELSE <<>>
           e(i) == IF i \in carriedBy(ms, base) THEN FromEntry(ms[i], base[i]) ELSE ms[i]
           score(i) == IF i \in carriedBy(ms, base) THEN base[i] ELSE ms[i]
<1>1. RunCandidate(this, d, own, found) = candidateThisTree(this.tree, ms, base, gated)
  BY DEF RunCandidate, Candidate, Recording
<1>2. /\ DOMAIN ms = S /\ \A i \in S : ms[i] = MeasureOf(d, found, i)
      /\ \A i \in S : base[i] = found[i].base
  BY DEF MeasureOf
<1>3. carriedBy(ms, base) = { i \in S : IsCarried(d, found, i) }
  BY <1>2 DEF carriedBy, IsCarried
<1>4. composing(ms) \cup carriedBy(ms, base) = R
  BY <1>2, <1>3 DEF composing, RecordedOf, IsRecorded
<1>5. \A i \in S : i \in DOMAIN parts <=> gated /\ Patched(MeasureOf(d, found, i))
  <2>1. CASE gated
    <3>1. DOMAIN parts = { j \in DOMAIN ms : ms[j].touched /\ Measured(ms[j]) /\ Counted(ms[j].new) }
      BY <2>1 DEF PatchParts
    <3> HIDE DEF parts, ms
    <3>2. QED
      BY <1>2, <2>1, <3>1 DEF Patched
  <2>2. CASE ~gated
    <3>1. parts = <<>>
      BY <2>2
    <3> HIDE DEF parts
    <3>2. DOMAIN parts = {}
      BY <3>1
    <3>3. QED
      BY <2>2, <3>2
  <2>3. QED
    BY <2>1, <2>2
<1>6. \A i \in DOMAIN parts : i \in S => parts[i].new = MeasureOf(d, found, i).new
  BY <1>2, <1>5 DEF PatchParts
<1>7. \A i \in S : e(i) = EntryFor(d, found, i)
  BY <1>2, <1>3 DEF EntryFor
<1>8. \A i \in S : score(i) = IF IsCarried(d, found, i) THEN found[i].base ELSE MeasureOf(d, found, i)
  BY <1>2, <1>3
<1>9. R \subseteq S
  BY DEF RecordedOf
<1>10. candidateThisTree(this.tree, ms, base, gated) =
         [state |-> "read", tree |-> this.tree, gated |-> gated /\ composing(ms) \cup carriedBy(ms, base) # {},
          components |-> [i \in composing(ms) \cup carriedBy(ms, base) |->
            [lines      |-> restored(e(i), base[i]),
             unanchored |-> unanchored(e(i).lines, restored(e(i), base[i])),
             producer   |-> e(i).producer,
             carried    |-> i \in carriedBy(ms, base),
             patch      |-> IF i \in DOMAIN parts THEN parts[i].new ELSE NoLines,
             base       |-> IF gated /\ Counted(ComparableBase(e(i), base[i])) THEN base[i] ELSE NoEntry,
             scored     |-> score(i).scored,
             above      |-> score(i).above]]]
  BY DEF candidateThisTree
<1> HIDE DEF e, score, parts, ms, base, S, R
<1>11. \A i \in R :
            [lines      |-> restored(e(i), base[i]),
             unanchored |-> unanchored(e(i).lines, restored(e(i), base[i])),
             producer   |-> e(i).producer,
             carried    |-> i \in carriedBy(ms, base),
             patch      |-> IF i \in DOMAIN parts THEN parts[i].new ELSE NoLines,
             base       |-> IF gated /\ Counted(ComparableBase(e(i), base[i])) THEN base[i] ELSE NoEntry,
             scored     |-> score(i).scored,
             above      |-> score(i).above] = HandedEntry(d, found, this.mode, i)
  <2>1. ASSUME NEW i \in R
        PROVE  /\ restored(e(i), base[i]) = restored(EntryFor(d, found, i), found[i].base)
               /\ e(i) = EntryFor(d, found, i) /\ base[i] = found[i].base
               /\ (i \in carriedBy(ms, base)) = IsCarried(d, found, i)
               /\ (IF i \in DOMAIN parts THEN parts[i].new ELSE NoLines) =
                     IF gated /\ Patched(MeasureOf(d, found, i)) THEN MeasureOf(d, found, i).new ELSE NoLines
               /\ score(i) = IF IsCarried(d, found, i) THEN found[i].base ELSE MeasureOf(d, found, i)
    <3>1. i \in S
      BY <1>9
    <3>2. IsCarried(d, found, i) \in BOOLEAN
      BY DEF IsCarried
    <3>3. e(i) = EntryFor(d, found, i) /\ base[i] = found[i].base
      BY <1>2, <1>7, <3>1
    <3>4. restored(e(i), base[i]) = restored(EntryFor(d, found, i), found[i].base)
      BY <3>3
    <3>5. (i \in carriedBy(ms, base)) = IsCarried(d, found, i)
      <4>1. (i \in carriedBy(ms, base)) <=> IsCarried(d, found, i)
        BY <1>3, <3>1
      <4> DEFINE A == i \in carriedBy(ms, base)
                 B == IsCarried(d, found, i)
      <4>2. A \in BOOLEAN /\ B \in BOOLEAN /\ (A <=> B)
        BY <3>2, <4>1
      <4> HIDE DEF A, B
      <4>3. A = B
        BY <4>2
      <4>4. QED
        BY <4>3 DEF A, B
    <3>6. (IF i \in DOMAIN parts THEN parts[i].new ELSE NoLines) =
             IF gated /\ Patched(MeasureOf(d, found, i)) THEN MeasureOf(d, found, i).new ELSE NoLines
      BY <1>5, <1>6, <3>1
    <3>7. score(i) = IF IsCarried(d, found, i) THEN found[i].base ELSE MeasureOf(d, found, i)
      BY <1>8, <3>1
    <3>8. QED
      BY <3>3, <3>4, <3>5, <3>6, <3>7
  <2>2. QED
    BY <2>1 DEF HandedEntry
<1>12. candidateThisTree(this.tree, ms, base, gated) =
         [state |-> "read", tree |-> this.tree, gated |-> gated /\ R # {},
          components |-> [i \in R |-> HandedEntry(d, found, this.mode, i)]]
  BY <1>4, <1>10, <1>11
<1>13. QED
  BY <1>1, <1>12 DEF R, S

(***************************************************************************)
(* A figure of the repository depends on the lines of the components that  *)
(* have any, and on the entries they are compared with.                    *)
(***************************************************************************)
LEMMA ComposedSame ==
  ASSUME NEW a, NEW b, NEW f, NEW g, NEW carried, composing(a) = composing(b), gateable(a) = gateable(b),
         \A i \in composing(a) :
            /\ a[i].lines = b[i].lines
            /\ Counted(ComparableBase(a[i], f[i])) <=> Counted(ComparableBase(b[i], g[i]))
            /\ Counted(ComparableBase(a[i], f[i])) => f[i].lines = g[i].lines
  PROVE  /\ ComposedRow(a, carried, f) = ComposedRow(b, carried, g)
         /\ UngatedComposedRow(a, carried) = UngatedComposedRow(b, carried)
<1> DEFINE N == composing(a)
           overA == { i \in composing(a) : Counted(ComparableBase(a[i], f[i])) }
           overB == { i \in composing(b) : Counted(ComparableBase(b[i], g[i])) }
<1>1. [i \in composing(a) |-> a[i].lines] = [i \in composing(b) |-> b[i].lines]
  OBVIOUS
<1>2. composed(a) = composed(b)
  BY <1>1 DEF composed
<1>3. composedValue(a, carried) = composedValue(b, carried)
  BY <1>2 DEF composedValue
<1>4. overA = overB /\ \A i \in overA : f[i].lines = g[i].lines
  OBVIOUS
<1>5. [i \in overA |-> f[i].lines] = [i \in overB |-> g[i].lines]
  <2> HIDE DEF overA, overB
  <2>1. QED
    BY <1>4
<1>6. ComposedRow(a, carried, f) =
        IF composing(a) = {} THEN UnmeasuredRow(<<"coverage", 0>>)
        ELSE Compared(<<"coverage", 0>>, composed(a),
                      IF overA = composing(a) THEN Sum([i \in overA |-> f[i].lines]) ELSE NoLines,
                      Tolerance, composedValue(a, carried))
  BY DEF ComposedRow
<1>7. ComposedRow(b, carried, g) =
        IF composing(b) = {} THEN UnmeasuredRow(<<"coverage", 0>>)
        ELSE Compared(<<"coverage", 0>>, composed(b),
                      IF overB = composing(b) THEN Sum([i \in overB |-> g[i].lines]) ELSE NoLines,
                      Tolerance, composedValue(b, carried))
  BY DEF ComposedRow
<1>8. UngatedComposedRow(a, carried) = UngatedComposedRow(b, carried)
  BY <1>3 DEF UngatedComposedRow
<1> HIDE DEF overA, overB
<1>9. QED
  BY <1>2, <1>3, <1>4, <1>5, <1>6, <1>7, <1>8

LEMMA PatchSame ==
  ASSUME NEW p, NEW q, DOMAIN p = DOMAIN q,
         \A i \in DOMAIN p : /\ p[i].new = q[i].new
                             /\ Counted(p[i].base) <=> Counted(q[i].base)
                             /\ Counted(p[i].base) => p[i].base = q[i].base
  PROVE  ComposedPatchRow(p) = ComposedPatchRow(q)
<1> DEFINE within(s) == \A i \in DOMAIN s : Counted(s[i].base)
           new(s) == Sum([i \in DOMAIN s |-> s[i].new])
           base(s) == IF within(s) THEN Sum([i \in DOMAIN s |-> s[i].base]) ELSE NoLines
<1>1. \A s : ComposedPatchRow(s) = PatchRow(<<"patch", 0>>, [new |-> new(s), base |-> base(s)])
  BY DEF ComposedPatchRow
<1>2. [i \in DOMAIN p |-> p[i].new] = [i \in DOMAIN q |-> q[i].new]
  OBVIOUS
<1>3. within(p) <=> within(q)
  OBVIOUS
<1>4. within(p) => [i \in DOMAIN p |-> p[i].base] = [i \in DOMAIN q |-> q[i].base]
  OBVIOUS
<1>5. new(p) = new(q)
  BY <1>2
<1>6. base(p) = base(q)
  <2> HIDE DEF within
  <2>1. QED
    BY <1>3, <1>4
<1> HIDE DEF new, base
<1>7. QED
  BY <1>1, <1>5, <1>6

LEMMA FloorSame ==
  ASSUME NEW a, NEW b, DOMAIN a # {}, DOMAIN b # {},
         { i \in DOMAIN a : ~a[i].unmeasurable } = { i \in DOMAIN b : ~b[i].unmeasurable },
         \A i \in DOMAIN a : ~a[i].unmeasurable => /\ Measured(a[i]) <=> Measured(b[i])
                                                   /\ Measured(a[i]) => a[i].lines = b[i].lines
  PROVE  FloorSummaryRow(a) = FloorOfAll(b)
<1> DEFINE over(s) == { i \in DOMAIN s : ~s[i].unmeasurable }
           cleared(s) == { i \in over(s) : Measured(s[i]) /\ Meets(s[i].lines, Floor) }
           measured(s) == { i \in over(s) : Measured(s[i]) }
<1>1. over(a) = over(b) /\ \A i \in over(a) : /\ Measured(a[i]) <=> Measured(b[i])
                                              /\ Measured(a[i]) => a[i].lines = b[i].lines
  OBVIOUS
<1>2. cleared(a) = cleared(b) /\ measured(a) = measured(b)
  <2> HIDE DEF over
  <2>1. QED
    BY <1>1
<1>3. \A s : FloorSummaryRow(s) =
        CASE Floor = 0 \/ DOMAIN s = {} \/ measured(s) \ cleared(s) # {} -> {}
          [] Floor > 0 /\ DOMAIN s # {} /\ measured(s) \ cleared(s) = {} /\ cleared(s) = {} -> {UnmeasuredRow(<<"floor", 0>>)}
          [] OTHER -> {Row(<<"floor", 0>>, "pass", <<Cardinality(cleared(s)), Cardinality(over(s))>>)}
  BY DEF FloorSummaryRow
<1> HIDE DEF over, cleared, measured
<1>4. FloorSummaryRow(a) = FloorSummaryRow(b)
  BY <1>1, <1>2, <1>3
<1>5. Floor = 0 => FloorSummaryRow(b) = {}
  BY <1>3
<1>6. QED
  BY <1>4, <1>5 DEF FloorOfAll

(***************************************************************************)
(* The answers a matrix's documents are whole for: of every component with *)
(* a suite, a raw command's passed.                                        *)
(***************************************************************************)
Coherent(d, found) ==
    /\ d.raw \subseteq d.suites
    /\ \A i \in d.suites : found[i] \in Profile
    /\ \A i \in d.raw : found[i].suite = "passed"

LEMMA EntriesAre ==
  ASSUME NEW d, NEW found, Coherent(d, found), NEW i \in d.suites
  PROVE  /\ IsRecorded(d, found, i) => i \notin d.raw
         /\ Counted(EntryFor(d, found, i).lines) <=> IsRecorded(d, found, i)
         /\ EntryFor(d, found, i).unmeasurable <=> i \in d.raw
         /\ MeasureOf(d, found, i).unmeasurable <=> i \in d.raw
         /\ IsCarried(d, found, i) => /\ EntryFor(d, found, i).lines = found[i].base.lines
                                      /\ EntryFor(d, found, i).producer = found[i].base.producer
                                      /\ ~Measured(MeasureOf(d, found, i)) /\ found[i].suite = "unselected"
         /\ ~IsCarried(d, found, i) => EntryFor(d, found, i) = MeasureOf(d, found, i)
         /\ MeasureOf(d, found, i).scored => Measured(MeasureOf(d, found, i))
         /\ MeasureOf(d, found, i).scorable <=> i \notin d.raw
<1> DEFINE m == MeasureOf(d, found, i)
           new == Anew(d, found, i)
<1>1. found[i] \in Profile /\ (i \in d.raw => found[i].suite = "passed")
  BY DEF Coherent
<1>2. /\ m = [x \in {"lines", "producer", "scorable", "scored", "above", "touched", "new", "unmeasurable", "carryable"} |-> m[x]]
      /\ m.lines = (IF new THEN found[i].lines ELSE NoLines)
      /\ Measured(m) <=> new
      /\ m.scorable <=> i \notin d.raw
      /\ m.scored => new
      /\ m.unmeasurable <=> found[i].suite = "passed" /\ i \in d.raw
      /\ m.carryable <=> found[i].suite = "unselected"
  BY <1>1, MeasurementIs DEF Says
<1> HIDE DEF m, new
<1>3. IsCarried(d, found, i) <=> ~Measured(m) /\ found[i].suite = "unselected" /\ Counted(found[i].base.lines)
  BY <1>2 DEF IsCarried, m
<1>4. IsRecorded(d, found, i) <=> Measured(m) \/ IsCarried(d, found, i)
  BY DEF IsRecorded, m
<1>5. EntryFor(d, found, i) = IF IsCarried(d, found, i) THEN [m EXCEPT !.lines = found[i].base.lines, !.producer = found[i].base.producer]
                                                        ELSE m
  BY DEF EntryFor, FromEntry, m
<1>6. m.unmeasurable <=> i \in d.raw
  BY <1>1, <1>2
<1>7. IsRecorded(d, found, i) => i \notin d.raw
  <2>1. new => i \notin d.raw
    BY DEF new, Anew
  <2>2. found[i].suite = "unselected" => i \notin d.raw
    BY <1>1
  <2>3. QED
    BY <1>2, <1>3, <1>4, <2>1, <2>2
<1>8. CASE IsCarried(d, found, i)
  <2>1. EntryFor(d, found, i) = [m EXCEPT !.lines = found[i].base.lines, !.producer = found[i].base.producer]
    BY <1>5, <1>8
  <2>2. /\ EntryFor(d, found, i).lines = found[i].base.lines
        /\ EntryFor(d, found, i).producer = found[i].base.producer
        /\ EntryFor(d, found, i).unmeasurable = m.unmeasurable
    BY <1>2, <2>1
  <2>3. m.scored => Measured(m)
    BY <1>2
  <2>4. QED
    BY <1>2, <1>3, <1>4, <1>6, <1>7, <1>8, <2>2, <2>3 DEF m
<1>9. CASE ~IsCarried(d, found, i)
  <2>1. EntryFor(d, found, i) = m
    BY <1>5, <1>9
  <2>2. m.scored => Measured(m)
    BY <1>2
  <2>3. Measured(m) <=> Counted(m.lines)
    BY DEF Measured
  <2>4. QED
    BY <1>2, <1>4, <1>6, <1>7, <1>9, <2>1, <2>2, <2>3 DEF m
<1>10. QED
  BY <1>8, <1>9

\* What the fold makes of an entry is what was measured, or carried.
LEMMA EntryIsMeasured ==
  ASSUME NEW d, NEW found, Coherent(d, found), NEW mode, NEW i \in d.suites, IsRecorded(d, found, i)
  PROVE  /\ asMeasurement(HandedEntry(d, found, mode, i)).lines = EntryFor(d, found, i).lines
         /\ asMeasurement(HandedEntry(d, found, mode, i)).producer = EntryFor(d, found, i).producer
         /\ asMeasurement(HandedEntry(d, found, mode, i)).unmeasurable = FALSE
<1> DEFINE e == EntryFor(d, found, i)
           b == found[i].base
           ours == restored(e, b)
           h == HandedEntry(d, found, mode, i)
<1>1. h.lines = ours /\ h.unanchored = unanchored(e.lines, ours) /\ h.producer = e.producer
  BY DEF HandedEntry
<1>2. Counted(e.lines)
  BY EntriesAre
<1>3. ~Counted(NoLines)
  BY DEF Counted, NoLines
<1>4. (IF Counted(unanchored(e.lines, ours)) THEN unanchored(e.lines, ours) ELSE ours) = e.lines
  <2> HIDE DEF ours, e
  <2>1. CASE e.lines = ours
    BY <1>3, <2>1 DEF unanchored
  <2>2. CASE e.lines # ours
    BY <1>2, <2>2 DEF unanchored
  <2>3. QED
    BY <2>1, <2>2
<1> HIDE DEF h, e, ours
<1>5. /\ asMeasurement(h).lines = IF Counted(h.unanchored) THEN h.unanchored ELSE h.lines
      /\ asMeasurement(h).producer = h.producer /\ asMeasurement(h).unmeasurable = FALSE
  BY DEF asMeasurement
<1>6. QED
  BY <1>1, <1>4, <1>5 DEF h, e

\* The measurements of the fold beside those of one run.
LEMMA FoldedAre ==
  ASSUME NEW d, NEW found, Coherent(d, found), NEW mode, NEW folded, NEW R, R = RecordedOf(d, found, d.suites),
         folded = [i \in R |-> HandedEntry(d, found, mode, i)]
  PROVE  LET ms == foldedMeasurements(folded, d)
             cur == CurrentOf(Measures(d, found, d.suites), Bases(found, d.suites))
         IN  /\ R \subseteq d.suites \ d.raw /\ DOMAIN folded = R /\ DOMAIN ms = Components(d) /\ DOMAIN cur = d.suites
             /\ \A i \in R : /\ ms[i].lines = EntryFor(d, found, i).lines /\ ms[i].producer = EntryFor(d, found, i).producer
                             /\ ~ms[i].unmeasurable
             /\ \A i \in Components(d) \ R : ms[i] = missing(i, d)
             /\ \A i \in d.suites : cur[i] = EntryFor(d, found, i)
             /\ composing(ms) = R /\ composing(cur) = R
             /\ { i \in DOMAIN ms : ~ms[i].unmeasurable } = d.suites \ d.raw
             /\ { i \in DOMAIN cur : ~cur[i].unmeasurable } = d.suites \ d.raw
<1> DEFINE ms == foldedMeasurements(folded, d)
           cur == CurrentOf(Measures(d, found, d.suites), Bases(found, d.suites))
           C == carriedBy(Measures(d, found, d.suites), Bases(found, d.suites))
<1>1. R \subseteq d.suites \ d.raw /\ R = { i \in d.suites : IsRecorded(d, found, i) }
  BY EntriesAre DEF RecordedOf
<1>2. DOMAIN folded = R /\ \A i \in R : folded[i] = HandedEntry(d, found, mode, i)
  OBVIOUS
<1>3. /\ DOMAIN ms = Components(d) /\ d.suites \subseteq Components(d)
      /\ \A i \in Components(d) : ms[i] = IF i \in R THEN asMeasurement(folded[i]) ELSE missing(i, d)
  BY <1>2 DEF foldedMeasurements, Components
<1>4. C = { i \in d.suites : IsCarried(d, found, i) }
  BY DEF carriedBy, IsCarried, MeasureOf, Measures, Bases
<1>5. DOMAIN cur = d.suites /\ \A i \in d.suites : cur[i] = EntryFor(d, found, i)
  <2>1. DOMAIN cur = d.suites
    BY DEF CurrentOf, Measures
  <2>2. ASSUME NEW i \in d.suites
        PROVE  cur[i] = EntryFor(d, found, i)
    <3>1. cur[i] = IF i \in C THEN FromEntry(Measures(d, found, d.suites)[i], Bases(found, d.suites)[i])
                              ELSE Measures(d, found, d.suites)[i]
      BY DEF CurrentOf, Measures
    <3>2. Measures(d, found, d.suites)[i] = MeasureOf(d, found, i) /\ Bases(found, d.suites)[i] = found[i].base
      BY DEF Measures, Bases, MeasureOf
    <3> HIDE DEF C, cur
    <3>3. QED
      BY <1>4, <3>1, <3>2 DEF EntryFor
  <2>3. QED
    BY <2>1, <2>2
<1> HIDE DEF ms, cur
<1>6. \A i \in R : /\ ms[i].lines = EntryFor(d, found, i).lines /\ ms[i].producer = EntryFor(d, found, i).producer
                   /\ ms[i].unmeasurable = FALSE
  <2>1. ASSUME NEW i \in R
        PROVE  /\ ms[i].lines = EntryFor(d, found, i).lines /\ ms[i].producer = EntryFor(d, found, i).producer
               /\ ms[i].unmeasurable = FALSE
    <3>1. i \in d.suites /\ IsRecorded(d, found, i)
      BY <1>1
    <3>2. ms[i] = asMeasurement(HandedEntry(d, found, mode, i))
      BY <1>2, <1>3, <3>1
    <3>3. QED
      BY <3>1, <3>2, EntryIsMeasured
  <2>2. QED
    BY <2>1
<1>7. \A i \in Components(d) \ R : ms[i] = missing(i, d)
  BY <1>3
<1>8. \A i : /\ missing(i, d).lines = NoLines
             /\ missing(i, d).unmeasurable <=> i \notin d.suites \ d.raw
  BY DEF missing
<1>9. composing(ms) = R
  <2>1. \A i \in R : Measured(ms[i])
    BY <1>1, <1>6, EntriesAre DEF Measured
  <2>2. \A i \in Components(d) \ R : ~Measured(ms[i])
    BY <1>7, <1>8 DEF Measured, Counted, NoLines
  <2>3. QED
    BY <1>1, <1>3, <2>1, <2>2 DEF composing
<1>10. composing(cur) = R
  <2>1. \A i \in d.suites : Measured(cur[i]) <=> i \in R
    BY <1>1, <1>5, EntriesAre DEF Measured
  <2>2. QED
    BY <1>1, <1>5, <2>1 DEF composing
<1>11. { i \in DOMAIN ms : ~ms[i].unmeasurable } = d.suites \ d.raw
  BY <1>1, <1>3, <1>6, <1>7, <1>8
<1>12. { i \in DOMAIN cur : ~cur[i].unmeasurable } = d.suites \ d.raw
  BY <1>5, EntriesAre
<1>13. QED
  BY <1>1, <1>2, <1>3, <1>5, <1>6, <1>7, <1>9, <1>10, <1>11, <1>12 DEF ms, cur

\* What the fold compares, and its lines of the patch, beside those of one run that gates.
LEMMA ComparedAre ==
  ASSUME NEW d, NEW found, Coherent(d, found), NEW mode, mode = "gated", NEW folded, NEW R, R = RecordedOf(d, found, d.suites),
         folded = [i \in R |-> HandedEntry(d, found, mode, i)]
  PROVE  LET ms == foldedMeasurements(folded, d)
             cur == CurrentOf(Measures(d, found, d.suites), Bases(found, d.suites))
             base == Bases(found, d.suites)
         IN  /\ \A i \in R :
                  /\ Counted(ComparableBase(ms[i], folded[i].base)) <=> Counted(ComparableBase(cur[i], base[i]))
                  /\ Counted(ComparableBase(ms[i], folded[i].base)) => folded[i].base.lines = base[i].lines
             /\ ComposedPatchRow(foldedParts(folded)) = ComposedPatchRow(PatchParts(Measures(d, found, d.suites), base))
             /\ DOMAIN foldedParts(folded) = DOMAIN PatchParts(Measures(d, found, d.suites), base)
<1> DEFINE S == d.suites
           m == Measures(d, found, S)
           b == Bases(found, S)
           ms == foldedMeasurements(folded, d)
           cur == CurrentOf(m, b)
           p == foldedParts(folded)
           q == PatchParts(m, b)
           e(i) == EntryFor(d, found, i)
<1>1. /\ R \subseteq S \ d.raw /\ DOMAIN folded = R
      /\ \A i \in R : ms[i].lines = e(i).lines /\ ms[i].producer = e(i).producer
      /\ \A i \in S : cur[i] = e(i)
  BY FoldedAre
<1>2. \A i \in S : b[i] = found[i].base /\ m[i] = MeasureOf(d, found, i) /\ i \in DOMAIN m
  BY DEF Bases, Measures, MeasureOf
<1>3. \A i \in R : /\ folded[i].patch = IF Patched(MeasureOf(d, found, i)) THEN MeasureOf(d, found, i).new ELSE NoLines
                   /\ folded[i].base = IF Counted(ComparableBase(e(i), b[i])) THEN b[i] ELSE NoEntry
  BY <1>1, <1>2 DEF HandedEntry
<1>4. ~Counted(NoLines) /\ NoEntry.lines = NoLines
  BY DEF Counted, NoLines, NoEntry
<1>5. \A x, y : ComparableBase(x, y) = IF y.producer = x.producer THEN y.lines ELSE NoLines
  BY DEF ComparableBase
<1> HIDE DEF e, ms, cur, m, b
<1>6. ASSUME NEW i \in R
      PROVE  /\ Counted(ComparableBase(ms[i], folded[i].base)) <=> Counted(ComparableBase(cur[i], b[i]))
             /\ Counted(ComparableBase(ms[i], folded[i].base)) => folded[i].base.lines = b[i].lines
  <2>1. cur[i] = e(i) /\ ms[i].producer = e(i).producer
    BY <1>1
  <2>2. CASE Counted(ComparableBase(e(i), b[i]))
    <3>1. folded[i].base = b[i]
      BY <1>3, <2>2
    <3>2. ComparableBase(ms[i], folded[i].base) = ComparableBase(cur[i], b[i])
      BY <1>5, <2>1, <3>1
    <3>3. QED
      BY <3>1, <3>2
  <2>3. CASE ~Counted(ComparableBase(e(i), b[i]))
    <3>1. folded[i].base = NoEntry
      BY <1>3, <2>3
    <3>2. ComparableBase(ms[i], folded[i].base) = NoLines
      BY <1>4, <1>5, <3>1
    <3>3. QED
      BY <1>4, <2>1, <2>3, <3>2
  <2>4. QED
    BY <2>2, <2>3
<1>7. \A i \in S : Patched(MeasureOf(d, found, i)) =>
         i \in R /\ e(i) = m[i] /\ Counted(MeasureOf(d, found, i).new)
  <2>1. ASSUME NEW i \in S, Patched(MeasureOf(d, found, i))
        PROVE  i \in R /\ e(i) = m[i] /\ Counted(MeasureOf(d, found, i).new)
    <3>1. Measured(MeasureOf(d, found, i)) /\ Counted(MeasureOf(d, found, i).new)
      BY <2>1 DEF Patched
    <3>2. ~IsCarried(d, found, i)
      BY <3>1, EntriesAre
    <3>3. EntryFor(d, found, i) = MeasureOf(d, found, i)
      BY <3>2, EntriesAre
    <3>4. i \in R
      BY <3>1 DEF RecordedOf, IsRecorded
    <3>5. QED
      BY <1>2, <3>1, <3>3, <3>4 DEF e
  <2>2. QED
    BY <2>1
<1>8. DOMAIN p = { i \in S : Patched(MeasureOf(d, found, i)) }
  <2>1. DOMAIN p = { i \in R : Counted(folded[i].patch) }
    BY <1>1 DEF foldedParts
  <2>2. \A i \in R : Counted(folded[i].patch) <=> Patched(MeasureOf(d, found, i))
    <3>1. ASSUME NEW i \in R
          PROVE  Counted(folded[i].patch) <=> Patched(MeasureOf(d, found, i))
      <4>1. CASE Patched(MeasureOf(d, found, i))
        BY <1>1, <1>3, <1>7, <4>1
      <4>2. CASE ~Patched(MeasureOf(d, found, i))
        BY <1>3, <1>4, <4>2
      <4>3. QED
        BY <4>1, <4>2
    <3>2. QED
      BY <3>1
  <2> HIDE DEF p
  <2>3. QED
    BY <1>1, <1>7, <2>1, <2>2
<1>9. DOMAIN q = { i \in S : Patched(MeasureOf(d, found, i)) }
  <2>1. DOMAIN q = { j \in DOMAIN m : m[j].touched /\ Measured(m[j]) /\ Counted(m[j].new) }
    BY DEF PatchParts
  <2>2. DOMAIN m = S
    BY DEF m, Measures
  <2> HIDE DEF q
  <2>3. QED
    BY <1>2, <2>1, <2>2 DEF Patched
<1>10. ASSUME NEW i \in DOMAIN p
       PROVE  /\ p[i].new = q[i].new
              /\ Counted(p[i].base) <=> Counted(q[i].base)
              /\ Counted(p[i].base) => p[i].base = q[i].base
  <2>1. i \in S /\ i \in R /\ e(i) = m[i] /\ Patched(MeasureOf(d, found, i)) /\ i \in DOMAIN q
    BY <1>7, <1>8, <1>9
  <2>2. p[i].new = folded[i].patch /\ p[i].base = folded[i].base.lines
    BY DEF foldedParts
  <2>3. q[i].new = m[i].new /\ q[i].base = ComparableBase(m[i], b[i])
    BY <2>1 DEF PatchParts
  <2>4. folded[i].patch = m[i].new /\ folded[i].base = IF Counted(ComparableBase(m[i], b[i])) THEN b[i] ELSE NoEntry
    BY <1>2, <1>3, <2>1
  <2> HIDE DEF p, q
  <2>5. CASE Counted(ComparableBase(m[i], b[i]))
    <3>1. ComparableBase(m[i], b[i]) = b[i].lines
      BY <1>4, <1>5, <2>5
    <3>2. p[i].base = b[i].lines
      BY <2>2, <2>4, <2>5
    <3>3. QED
      BY <2>2, <2>3, <2>4, <3>1, <3>2
  <2>6. CASE ~Counted(ComparableBase(m[i], b[i]))
    BY <1>4, <2>2, <2>3, <2>4, <2>6
  <2>7. QED
    BY <2>5, <2>6
<1> HIDE DEF p, q
<1>11. DOMAIN p = DOMAIN q
  BY <1>8, <1>9
<1>12. ComposedPatchRow(p) = ComposedPatchRow(q)
  BY <1>10, <1>11, PatchSame
<1>13. QED
  BY <1>6, <1>11, <1>12 DEF p, q, ms, cur, m, b

LEMMA ScoresAre ==
  ASSUME NEW d, NEW found, Coherent(d, found), NEW mode, NEW folded, NEW R, R = RecordedOf(d, found, d.suites),
         folded = [i \in R |-> HandedEntry(d, found, mode, i)]
  PROVE  LET m == Measures(d, found, d.suites)
             base == Bases(found, d.suites)
         IN  /\ { i \in DOMAIN folded : folded[i].carried } = carriedBy(m, base)
             /\ aboveOf(folded, FALSE) = scores(m)
             /\ aboveOf(folded, TRUE) = carriedScores(m, carriedBy(m, base), base)
             /\ { i \in DOMAIN m : m[i].scorable } = d.suites \ d.raw
<1> DEFINE S == d.suites
           m == Measures(d, found, S)
           b == Bases(found, S)
           C == carriedBy(m, b)
           own(i) == MeasureOf(d, found, i)
<1>1. R \subseteq S \ d.raw /\ DOMAIN folded = R
  BY FoldedAre
<1>2. DOMAIN m = S /\ \A i \in S : b[i] = found[i].base /\ m[i] = own(i)
  BY DEF Bases, Measures, MeasureOf
<1>3. \A i \in R : /\ folded[i].carried = IsCarried(d, found, i)
                   /\ folded[i].scored = (IF IsCarried(d, found, i) THEN found[i].base ELSE own(i)).scored
                   /\ folded[i].above = (IF IsCarried(d, found, i) THEN found[i].base ELSE own(i)).above
  BY DEF HandedEntry
<1>4. \A i : IsCarried(d, found, i) \in BOOLEAN
  BY DEF IsCarried
<1>5. C = { i \in S : IsCarried(d, found, i) }
  BY <1>2 DEF carriedBy, IsCarried
<1>6. \A i \in S : /\ IsCarried(d, found, i) => i \in R /\ ~own(i).scored /\ i \notin d.raw
                   /\ own(i).scored => i \in R /\ ~IsCarried(d, found, i)
                   /\ own(i).scorable <=> i \notin d.raw
  <2>1. ASSUME NEW i \in S
        PROVE  /\ IsCarried(d, found, i) => i \in R /\ ~own(i).scored /\ i \notin d.raw
               /\ own(i).scored => i \in R /\ ~IsCarried(d, found, i)
               /\ own(i).scorable <=> i \notin d.raw
    <3>1. /\ own(i).scored => Measured(own(i)) /\ (own(i).scorable <=> i \notin d.raw)
          /\ own(i).scorable <=> i \notin d.raw
          /\ IsCarried(d, found, i) => ~Measured(own(i))
      BY EntriesAre
    <3>2. IsCarried(d, found, i) \/ Measured(own(i)) => i \in R
      BY DEF RecordedOf, IsRecorded
    <3>3. QED
      BY <1>1, <3>1, <3>2
  <2>2. QED
    BY <2>1
<1> HIDE DEF m, b, C, own
<1>7. { i \in DOMAIN folded : folded[i].carried } = C
  BY <1>1, <1>3, <1>5, <1>6
<1>8. \A i \in R : folded[i].scored = IF IsCarried(d, found, i) THEN b[i].scored ELSE own(i).scored
  BY <1>1, <1>2, <1>3
<1>9. \A i \in R : folded[i].above = IF IsCarried(d, found, i) THEN b[i].above ELSE own(i).above
  BY <1>1, <1>2, <1>3
<1>10. aboveOf(folded, FALSE) = scores(m)
  <2> DEFINE D == { j \in DOMAIN folded : folded[j].scored /\ folded[j].carried = FALSE }
             E == { j \in DOMAIN m : m[j].scored }
  <2>1. \A j \in R : folded[j].carried = FALSE <=> ~IsCarried(d, found, j)
    BY <1>3, <1>4
  <2>2. D = E
    <3>1. \A j \in R : folded[j].scored /\ ~IsCarried(d, found, j) <=> m[j].scored
      BY <1>1, <1>2, <1>6, <1>8
    <3>2. \A j \in S : m[j].scored => j \in R
      BY <1>2, <1>6
    <3>3. QED
      BY <1>1, <1>2, <2>1, <3>1, <3>2
  <2>3. \A j \in D : folded[j].above = m[j].above
    BY <1>1, <1>2, <1>9, <2>1
  <2>4. aboveOf(folded, FALSE) = [i \in D |-> folded[i].above] /\ scores(m) = [i \in E |-> m[i].above]
    BY DEF aboveOf, scores
  <2> HIDE DEF D, E
  <2>5. QED
    BY <2>2, <2>3, <2>4
<1>11. aboveOf(folded, TRUE) = carriedScores(m, C, b)
  <2> DEFINE D == { j \in DOMAIN folded : folded[j].scored /\ folded[j].carried = TRUE }
             E == { j \in C : m[j].scorable /\ ~m[j].scored /\ b[j].scored }
  <2>1. \A j \in R : folded[j].carried = TRUE <=> IsCarried(d, found, j)
    BY <1>3, <1>4
  <2>2. D = E
    <3>1. \A j \in R : folded[j].scored /\ IsCarried(d, found, j) <=> j \in E
      BY <1>1, <1>2, <1>5, <1>6, <1>8
    <3>2. E \subseteq R
      BY <1>5, <1>6
    <3> HIDE DEF E
    <3>3. QED
      BY <1>1, <2>1, <3>1, <3>2
  <2>3. \A j \in D : folded[j].above = b[j].above
    BY <1>1, <1>9, <2>1
  <2>4. aboveOf(folded, TRUE) = [i \in D |-> folded[i].above] /\ carriedScores(m, C, b) = [i \in E |-> b[i].above]
    BY DEF aboveOf, carriedScores
  <2> HIDE DEF D, E
  <2>5. QED
    BY <2>2, <2>3, <2>4
<1>12. { i \in DOMAIN m : m[i].scorable } = S \ d.raw
  BY <1>2, <1>6
<1>13. QED
  BY <1>7, <1>10, <1>11, <1>12 DEF m, b, C

\* The floor is asked of what was measured, in the fold and in one run.
LEMMA FloorIs ==
  ASSUME NEW d, NEW found, Coherent(d, found), d.suites # {}, NEW mode, NEW folded, NEW R, R = RecordedOf(d, found, d.suites),
         folded = [i \in R |-> HandedEntry(d, found, mode, i)]
  PROVE  FloorSummaryRow(floorMs(folded, d)) = FloorOfAll(Measures(d, found, d.suites))
<1> DEFINE S == d.suites
           m == Measures(d, found, S)
           ms == foldedMeasurements(folded, d)
           a == floorMs(folded, d)
           own(i) == MeasureOf(d, found, i)
<1>1. /\ R \subseteq S \ d.raw /\ DOMAIN folded = R
      /\ \A i \in R : ms[i].lines = EntryFor(d, found, i).lines /\ ~ms[i].unmeasurable
      /\ \A i \in Components(d) \ R : ms[i] = missing(i, d)
  BY FoldedAre
<1>2. DOMAIN m = S /\ \A i \in S : m[i] = own(i)
  BY DEF Measures, MeasureOf
<1>3. S \subseteq Components(d)
  BY DEF Components
<1>4. \A i \in R : folded[i].carried = IsCarried(d, found, i)
  BY DEF HandedEntry
<1>5. \A i : /\ missing(i, d).lines = NoLines
             /\ missing(i, d).unmeasurable <=> i \notin S \ d.raw
             /\ [missing(i, d) EXCEPT !.unmeasurable = FALSE].lines = NoLines
             /\ ~[missing(i, d) EXCEPT !.unmeasurable = FALSE].unmeasurable
  BY DEF missing
<1>6. DOMAIN a = Components(d) /\ \A i \in Components(d) :
        a[i] = IF i \in DOMAIN folded /\ folded[i].carried THEN [missing(i, d) EXCEPT !.unmeasurable = FALSE] ELSE ms[i]
  BY DEF floorMs
<1>7. ~Counted(NoLines)
  BY DEF Counted, NoLines
<1>8. \A i \in S : /\ own(i).unmeasurable <=> i \in d.raw
                   /\ IsCarried(d, found, i) => ~Measured(own(i))
                   /\ ~IsCarried(d, found, i) => EntryFor(d, found, i) = own(i)
                   /\ Measured(own(i)) => i \in R
  <2>1. ASSUME NEW i \in S
        PROVE  /\ own(i).unmeasurable <=> i \in d.raw
               /\ IsCarried(d, found, i) => ~Measured(own(i))
               /\ ~IsCarried(d, found, i) => EntryFor(d, found, i) = own(i)
    BY EntriesAre
  <2>2. \A i \in S : Measured(own(i)) => i \in R
    BY DEF RecordedOf, IsRecorded
  <2>3. QED
    BY <2>1, <2>2
<1> HIDE DEF m, ms, a, own
<1>9. { i \in DOMAIN a : ~a[i].unmeasurable } = S \ d.raw
  <2>1. \A i \in R : ~a[i].unmeasurable
    BY <1>1, <1>3, <1>5, <1>6
  <2>2. \A i \in Components(d) \ R : a[i].unmeasurable <=> i \notin S \ d.raw
    <3>1. \A i \in Components(d) \ R : a[i] = missing(i, d)
      BY <1>1, <1>6
    <3>2. \A i : missing(i, d).unmeasurable <=> i \notin S \ d.raw
      BY <1>5
    <3>3. QED
      BY <3>1, <3>2
  <2>3. QED
    BY <1>1, <1>3, <1>6, <2>1, <2>2
<1>10. { i \in DOMAIN m : ~m[i].unmeasurable } = S \ d.raw
  BY <1>2, <1>8
<1>11. ASSUME NEW i \in DOMAIN a, ~a[i].unmeasurable
       PROVE  /\ Measured(a[i]) <=> Measured(m[i])
              /\ Measured(a[i]) => a[i].lines = m[i].lines
  <2>1. i \in S /\ i \notin d.raw /\ m[i] = own(i) /\ i \in Components(d)
    BY <1>2, <1>3, <1>9, <1>11
  <2>2. \A x : Measured(x) <=> Counted(x.lines)
    BY DEF Measured
  <2>3. CASE i \in R /\ IsCarried(d, found, i)
    <3>1. a[i] = [missing(i, d) EXCEPT !.unmeasurable = FALSE]
      BY <1>1, <1>4, <1>6, <2>1, <2>3
    <3>2. a[i].lines = NoLines
      BY <1>5, <3>1
    <3>3. QED
      BY <1>7, <1>8, <2>1, <2>2, <2>3, <3>2
  <2>4. CASE i \in R /\ ~IsCarried(d, found, i)
    <3>1. a[i] = ms[i] /\ ms[i].lines = own(i).lines
      BY <1>1, <1>4, <1>6, <1>8, <2>1, <2>4
    <3>2. QED
      BY <2>1, <2>2, <3>1
  <2>5. CASE i \notin R
    <3>1. a[i] = missing(i, d) /\ ~Measured(own(i))
      BY <1>1, <1>6, <1>8, <2>1, <2>5
    <3>2. QED
      BY <1>5, <1>7, <2>1, <2>2, <3>1
  <2>6. QED
    BY <2>3, <2>4, <2>5
<1>12. DOMAIN a # {} /\ DOMAIN m # {}
  BY <1>2, <1>3, <1>6
<1>13. FloorSummaryRow(a) = FloorOfAll(m)
  BY <1>9, <1>10, <1>11, <1>12, FloorSame
<1>14. QED
  BY <1>13 DEF a, m

(***************************************************************************)
(* The repository's rows composed of the documents are those one run       *)
(* composes of its own measurements.                                       *)
(***************************************************************************)
Recorded(d, found, mode, R, folded) ==
    /\ Coherent(d, found) /\ d.suites # {} /\ mode \in Recording
    /\ mode # "gated" => \A i \in d.suites : found[i].suite # "unselected"
    /\ R = RecordedOf(d, found, d.suites)
    /\ folded = [i \in R |-> HandedEntry(d, found, mode, i)]

LEMMA RepositoryIs ==
  ASSUME NEW d, NEW found, NEW mode, NEW folded, NEW R, Recorded(d, found, mode, R, folded)
  PROVE  composedOf(folded, mode = "gated" /\ R # {}, d) =
            CoverageOfAll(mode, Measures(d, found, d.suites), Bases(found, d.suites)) \cup {recordRow(folded, d)}
<1> SUFFICES ASSUME Coherent(d, found), d.suites # {}, mode \in Recording,
                    mode # "gated" => \A i \in d.suites : found[i].suite # "unselected",
                    R = RecordedOf(d, found, d.suites), folded = [i \in R |-> HandedEntry(d, found, mode, i)]
             PROVE  composedOf(folded, mode = "gated" /\ R # {}, d) =
                      CoverageOfAll(mode, Measures(d, found, d.suites), Bases(found, d.suites)) \cup {recordRow(folded, d)}
  BY Zenon DEF Recorded
<1> DEFINE S == d.suites
           m == Measures(d, found, S)
           b == Bases(found, S)
           C == carriedBy(m, b)
           ms == foldedMeasurements(folded, d)
           cur == CurrentOf(m, b)
           carried == { i \in DOMAIN folded : folded[i].carried }
           base == [i \in DOMAIN ms |-> IF i \in DOMAIN folded THEN folded[i].base ELSE NoEntry]
           p == foldedParts(folded)
           q == PatchParts(m, b)
           crap == CRAPSummaryRow(scorable(d), aboveOf(folded, FALSE), aboveOf(folded, TRUE))
           rows == IF mode = "gated" /\ R # {} THEN ComposedRows(ms, carried, base, p) ELSE {UngatedComposedRow(ms, carried)}
<1>1. /\ R \subseteq S /\ DOMAIN folded = R /\ DOMAIN ms = Components(d)
      /\ \A i \in R : ms[i].lines = EntryFor(d, found, i).lines
      /\ \A i \in S : cur[i] = EntryFor(d, found, i)
      /\ composing(ms) = R /\ composing(cur) = R
      /\ { i \in DOMAIN ms : ~ms[i].unmeasurable } = S \ d.raw
      /\ { i \in DOMAIN cur : ~cur[i].unmeasurable } = S \ d.raw
  BY FoldedAre
<1>2. /\ carried = C /\ aboveOf(folded, FALSE) = scores(m) /\ aboveOf(folded, TRUE) = carriedScores(m, C, b)
      /\ { i \in DOMAIN m : m[i].scorable } = S \ d.raw
  BY ScoresAre
<1>3. FloorSummaryRow(floorMs(folded, d)) = FloorOfAll(m)
  BY FloorIs
<1>4. gateable(ms) = gateable(cur)
  BY <1>1 DEF gateable
<1>5. crap = CRAPSummaryOf(m, C, b)
  <2>1. scorable(d) = Cardinality({ i \in DOMAIN m : m[i].scorable })
    BY <1>2 DEF scorable
  <2> HIDE DEF m, b, C
  <2>2. QED
    BY <1>2, <2>1 DEF CRAPSummaryOf
<1>6. \A i \in R : base[i] = folded[i].base
  BY <1>1 DEF Components
<1>7. composedOf(folded, mode = "gated" /\ R # {}, d) =
        rows \cup crap \cup FloorSummaryRow(floorMs(folded, d)) \cup {recordRow(folded, d)}
  BY DEF composedOf
<1>8. CASE mode = "gated"
  <2>1. CoverageOfAll(mode, m, b) = ComposedRows(cur, C, b, q) \cup CRAPSummaryOf(m, C, b) \cup FloorOfAll(m)
    BY <1>8 DEF CoverageOfAll
  <2>2. /\ \A i \in R :
             /\ Counted(ComparableBase(ms[i], folded[i].base)) <=> Counted(ComparableBase(cur[i], b[i]))
             /\ Counted(ComparableBase(ms[i], folded[i].base)) => folded[i].base.lines = b[i].lines
        /\ ComposedPatchRow(p) = ComposedPatchRow(q)
        /\ DOMAIN p = DOMAIN q
    BY <1>8, ComparedAre
  <2> HIDE DEF m, b, C, ms, cur, carried, base, p, q
  <2>3. \A i \in composing(ms) :
            /\ ms[i].lines = cur[i].lines
            /\ Counted(ComparableBase(ms[i], base[i])) <=> Counted(ComparableBase(cur[i], b[i]))
            /\ Counted(ComparableBase(ms[i], base[i])) => base[i].lines = b[i].lines
    <3>1. ASSUME NEW i \in composing(ms)
          PROVE  /\ ms[i].lines = cur[i].lines
                 /\ Counted(ComparableBase(ms[i], base[i])) <=> Counted(ComparableBase(cur[i], b[i]))
                 /\ Counted(ComparableBase(ms[i], base[i])) => base[i].lines = b[i].lines
      <4>1. i \in R /\ i \in S /\ base[i] = folded[i].base
        BY <1>1, <1>6
      <4>2. ms[i].lines = cur[i].lines
        BY <1>1, <4>1
      <4>3. QED
        BY <2>2, <4>1, <4>2
    <3>2. QED
      BY <3>1
  <2>4. ComposedRow(ms, C, base) = ComposedRow(cur, C, b)
    BY <1>1, <1>4, <2>3, ComposedSame
  <2>5. ComposedRows(ms, C, base, p) = ComposedRows(cur, C, b, q)
    BY <2>2, <2>4 DEF ComposedRows
  <2>6. CASE R # {}
    <3>1. rows = ComposedRows(ms, C, base, p)
      BY <1>2, <1>8, <2>6
    <3> HIDE DEF rows, crap
    <3>2. composedOf(folded, mode = "gated" /\ R # {}, d) = CoverageOfAll(mode, m, b) \cup {recordRow(folded, d)}
      BY <1>3, <1>5, <1>7, <2>1, <2>5, <3>1
    <3>3. QED
      BY <3>2 DEF m, b
  <2>7. CASE R = {}
    <3>1. rows = {UnmeasuredRow(<<"coverage", 0>>)}
      BY <1>1, <2>7 DEF UngatedComposedRow
    <3>2. ComposedRow(cur, C, b) = UnmeasuredRow(<<"coverage", 0>>)
      BY <1>1, <2>7 DEF ComposedRow
    <3>3. DOMAIN q = {}
      <4>1. DOMAIN p \subseteq DOMAIN folded
        BY DEF p, foldedParts
      <4>2. QED
        BY <1>1, <2>2, <2>7, <4>1
    <3>4. ComposedRows(cur, C, b, q) = {UnmeasuredRow(<<"coverage", 0>>)}
      BY <3>2, <3>3 DEF ComposedRows
    <3> HIDE DEF rows, crap
    <3>5. composedOf(folded, mode = "gated" /\ R # {}, d) = CoverageOfAll(mode, m, b) \cup {recordRow(folded, d)}
      BY <1>3, <1>5, <1>7, <2>1, <3>1, <3>4
    <3>6. QED
      BY <3>5 DEF m, b
  <2>8. QED
    BY <2>6, <2>7
<1>9. CASE mode # "gated"
  <2>1. mode # "off"
    BY DEF Recording
  <2>2. CoverageOfAll(mode, m, b) = {UngatedComposedRow(m, {})} \cup CRAPSummaryOf(m, {}, <<>>) \cup FloorOfAll(m)
    BY <1>9, <2>1 DEF CoverageOfAll
  <2>3. \A i \in S : ~IsCarried(d, found, i)
    BY <1>9, EntriesAre
  <2>4. C = {}
    <3>1. C \subseteq { i \in S : IsCarried(d, found, i) }
      BY DEF carriedBy, IsCarried, MeasureOf, Measures, Bases
    <3> HIDE DEF C
    <3>2. QED
      BY <2>3, <3>1
  <2>5. cur = m
    <3>1. DOMAIN m = S /\ m = [i \in S |-> m[i]]
      BY DEF Measures
    <3> HIDE DEF m, b, C
    <3>2. QED
      BY <2>4, <3>1 DEF CurrentOf, C
  <2>6. CRAPSummaryOf(m, C, b) = CRAPSummaryOf(m, {}, <<>>)
    <3> HIDE DEF m, b, C
    <3>1. carriedScores(m, C, b) = carriedScores(m, {}, <<>>)
      BY <2>4 DEF carriedScores
    <3>2. QED
      BY <2>4, <3>1 DEF CRAPSummaryOf
  <2> HIDE DEF m, b, C, ms, cur, carried, base, p, q
  <2>7. \A i \in composing(ms) : ms[i].lines = cur[i].lines
    BY <1>1
  <2>8. UngatedComposedRow(ms, {}) = UngatedComposedRow(cur, {})
    <3>1. [i \in composing(ms) |-> ms[i].lines] = [i \in composing(cur) |-> cur[i].lines]
      BY <1>1, <2>7
    <3>2. composed(ms) = composed(cur)
      BY <3>1 DEF composed
    <3>3. QED
      BY <1>1, <1>4, <3>2 DEF UngatedComposedRow, composedValue
  <2>9. rows = {UngatedComposedRow(m, {})}
    BY <1>2, <1>9, <2>4, <2>5, <2>8
  <2> HIDE DEF rows, crap
  <2>10. composedOf(folded, mode = "gated" /\ R # {}, d) = CoverageOfAll(mode, m, b) \cup {recordRow(folded, d)}
    BY <1>3, <1>5, <1>7, <2>2, <2>6, <2>9
  <2>11. QED
    BY <2>10 DEF m, b
<1>10. QED
  BY <1>8, <1>9

(***************************************************************************)
(* The documents of jobs that share no component fold into one that has    *)
(* the entries of each.                                                    *)
(***************************************************************************)
Pooled(dirs, own, h, gating, R) ==
    /\ DOMAIN dirs \subseteq Nat /\ gating \in BOOLEAN
    /\ \A k \in DOMAIN dirs : /\ dirs[k].read /\ dirs[k].doc.state = "read" /\ dirs[k].doc.tree = 0
                              /\ dirs[k].doc.gated <=> gating /\ own[k] # {}
                              /\ dirs[k].doc.components = [i \in own[k] |-> h[i]]
    /\ \A k, l \in DOMAIN dirs : \A i \in own[k] : i \in own[l] => k = l
    /\ R = UNION { own[k] : k \in DOMAIN dirs }

LEMMA FoldIs ==
  ASSUME NEW dirs, NEW own, NEW h, NEW gating, NEW R, Pooled(dirs, own, h, gating, R)
  PROVE  /\ documents(dirs) = DOMAIN dirs /\ oneTree(dirs)
         /\ foldMeasurements(dirs).gated \in BOOLEAN
         /\ foldMeasurements(dirs).gated <=> gating /\ R # {}
         /\ foldMeasurements(dirs).components = [i \in R |-> h[i]]
<1> SUFFICES ASSUME DOMAIN dirs \subseteq Nat, gating \in BOOLEAN,
                    \A k \in DOMAIN dirs : /\ dirs[k].read /\ dirs[k].doc.state = "read" /\ dirs[k].doc.tree = 0
                                           /\ dirs[k].doc.gated <=> gating /\ own[k] # {}
                                           /\ dirs[k].doc.components = [i \in own[k] |-> h[i]],
                    \A k, l \in DOMAIN dirs : \A i \in own[k] : i \in own[l] => k = l,
                    R = UNION { own[k] : k \in DOMAIN dirs }
             PROVE  /\ documents(dirs) = DOMAIN dirs /\ oneTree(dirs)
                    /\ foldMeasurements(dirs).gated \in BOOLEAN
                    /\ foldMeasurements(dirs).gated <=> gating /\ R # {}
                    /\ foldMeasurements(dirs).components = [i \in R |-> h[i]]
  BY Zenon DEF Pooled
<1> DEFINE D == documents(dirs)
           held == UNION { DOMAIN dirs[k].doc.components : k \in D }
           entry(k, i) == dirs[k].doc.components[i]
           measured(i) == { k \in holding(dirs, i) : ~entry(k, i).carried }
           best(i) == Min(IF measured(i) # {} THEN measured(i) ELSE holding(dirs, i))
           some == \E k \in D : dirs[k].doc.gated
<1>1. \A k \in DOMAIN dirs : /\ dirs[k].read /\ dirs[k].doc.state = "read" /\ dirs[k].doc.tree = 0
                             /\ dirs[k].doc.components = [i \in own[k] |-> h[i]]
  OBVIOUS
<1>2. D = DOMAIN dirs
  BY <1>1 DEF documents
<1>3. oneTree(dirs)
  BY <1>1, <1>2 DEF oneTree
<1>4. \A k \in DOMAIN dirs : DOMAIN dirs[k].doc.components = own[k] /\ \A i \in own[k] : entry(k, i) = h[i]
  <2>1. ASSUME NEW k \in DOMAIN dirs
        PROVE  DOMAIN dirs[k].doc.components = own[k] /\ \A i \in own[k] : entry(k, i) = h[i]
    <3>1. PICK c : c = dirs[k].doc.components
      OBVIOUS
    <3>2. c = [i \in own[k] |-> h[i]]
      BY <1>1, <3>1
    <3>3. DOMAIN c = own[k] /\ \A i \in own[k] : c[i] = h[i]
      BY ONLY <3>2
    <3>4. QED
      BY ONLY <3>1, <3>3
  <2>2. QED
    BY <2>1
<1>5. held = R
  BY <1>2, <1>4
<1>6. foldMeasurements(dirs) = [gated |-> some, components |-> [i \in held |-> entry(best(i), i)]]
  BY DEF foldMeasurements
<1> HIDE DEF D
<1>7. some \in BOOLEAN /\ (some <=> gating /\ R # {})
  <2>1. \A k \in DOMAIN dirs : dirs[k].doc.gated <=> gating /\ own[k] # {}
    OBVIOUS
  <2>2. some <=> \E k \in DOMAIN dirs : gating /\ own[k] # {}
    BY <1>2, <2>1
  <2>3. R # {} <=> \E k \in DOMAIN dirs : own[k] # {}
    OBVIOUS
  <2>4. some \in BOOLEAN
    OBVIOUS
  <2> HIDE DEF some
  <2>5. QED
    BY <2>2, <2>3, <2>4
<1>8. ASSUME NEW i \in R
      PROVE  entry(best(i), i) = h[i]
  <2>1. PICK l \in DOMAIN dirs : i \in own[l]
    OBVIOUS
  <2>2. holding(dirs, i) = {l}
    BY <1>2, <1>4, <2>1 DEF holding, D
  <2>3. \A x \in Nat : Min({x}) = x
    BY DEF Min
  <2>4. measured(i) = {} \/ measured(i) = {l}
    BY <2>2
  <2> HIDE DEF measured
  <2>5. best(i) = l
    BY <2>1, <2>2, <2>3, <2>4
  <2>6. QED
    BY <1>4, <2>1, <2>5
<1>9. [i \in held |-> entry(best(i), i)] = [i \in R |-> h[i]]
  <2> HIDE DEF held, entry, best
  <2>1. QED
    BY <1>5, <1>8
<1>10. PICK x, y : x = some /\ y = [i \in held |-> entry(best(i), i)]
  OBVIOUS
<1> HIDE DEF some, held, entry, best
<1>11. foldMeasurements(dirs).gated = x /\ foldMeasurements(dirs).components = y
  BY <1>6, <1>10
<1>12. QED
  BY <1>2, <1>3, <1>7, <1>9, <1>10, <1>11 DEF D

\* A component's entry depends on its own answer.
LEMMA OwnEntry ==
  ASSUME NEW d, NEW f, NEW g, NEW mode, NEW i, f[i] = g[i]
  PROVE  /\ IsRecorded(d, f, i) <=> IsRecorded(d, g, i)
         /\ HandedEntry(d, f, mode, i) = HandedEntry(d, g, mode, i)
<1>1. MeasureOf(d, f, i) = MeasureOf(d, g, i)
  BY DEF MeasureOf
<1>2. IsCarried(d, f, i) = IsCarried(d, g, i)
  BY <1>1 DEF IsCarried
<1>3. EntryFor(d, f, i) = EntryFor(d, g, i)
  BY <1>1, <1>2 DEF EntryFor
<1>4. IsRecorded(d, f, i) <=> IsRecorded(d, g, i)
  BY <1>1, <1>2 DEF IsRecorded
<1>5. HandedEntry(d, f, mode, i) = HandedEntry(d, g, mode, i)
  BY <1>1, <1>2, <1>3 DEF HandedEntry
<1>6. QED
  BY <1>4, <1>5

(***************************************************************************)
(* A fold of jobs that nothing happened to but their deadline: a directory *)
(* for each, in their order.                                               *)
(***************************************************************************)
LEMMA Unharmed ==
  ASSUME MatrixInv, step = "folded", \A j \in DOMAIN faults : faults[j] \in {"none", "late"}
  PROVE  /\ PlanInv /\ JobsRun /\ Folded /\ From([k \in DOMAIN inputs |-> k])
         /\ DOMAIN inputs = DOMAIN faults /\ DOMAIN inputs \subseteq Nat /\ IsFiniteSet(DOMAIN inputs) /\ DOMAIN inputs # {}
         /\ \A k \in DOMAIN inputs : inputs[k] = HandedBy(k) /\ Members(k) # {} /\ Members(k) \subseteq Suites
         /\ \A k, l \in DOMAIN inputs : \A i \in Members(k) : i \in Members(l) => k = l
         /\ Suites = UNION { Members(k) : k \in DOMAIN inputs }
         /\ DOMAIN picked = Suites /\ Suites # {} /\ IsFiniteSet(Suites)
<1>1. PlanInv /\ JobsRun /\ Folded
  BY DEF MatrixInv
<1>2. PICK o : From(o)
  BY <1>1 DEF JobsRun
<1>3. \A j \in DOMAIN faults : faults[j] \notin {"died", "twice"}
  OBVIOUS
<1>4. Len(inputs) = Len(faults) /\ (\A k \in DOMAIN inputs : o[k] = k) /\ o \in [DOMAIN inputs -> DOMAIN faults]
  BY <1>2, <1>3 DEF From
<1>5. /\ faults \in Seq(Fault) /\ Len(faults) \in Nat /\ DOMAIN faults = 1 .. Len(faults)
      /\ Len(inputs) \in Nat /\ DOMAIN inputs = 1 .. Len(inputs) /\ inputs = [k \in 1 .. Len(inputs) |-> inputs[k]]
  <2>1. faults \in Seq(Fault) /\ Len(inputs) \in Nat /\ inputs = [k \in 1 .. Len(inputs) |-> inputs[k]]
    BY <1>1 DEF JobsRun
  <2>2. DOMAIN inputs = 1 .. Len(inputs)
    BY <2>1
  <2>3. QED
    BY <2>1, <2>2
<1>6. o = [k \in DOMAIN inputs |-> k]
  BY <1>4
<1>7. /\ Len(shards) \in Nat /\ DOMAIN shards = 1 .. Len(shards)
      /\ \A j \in DOMAIN shards : Members(j) # {} /\ Members(j) \subseteq Suites
      /\ \A j, k \in DOMAIN shards : \A i \in Members(j) : i \in Members(k) => j = k
      /\ \A i \in Suites : \E j \in DOMAIN shards : i \in Members(j)
  BY <1>1, Jobs DEF JobsRun
<1>8. DOMAIN inputs = DOMAIN faults /\ DOMAIN inputs = DOMAIN shards
  BY <1>1, <1>4, <1>5, <1>7 DEF Folded
<1>9. DOMAIN inputs # {}
  <2>1. SUFFICES ASSUME DOMAIN inputs = {} PROVE FALSE
    OBVIOUS
  <2>2. Len(inputs) = 0
    BY <1>5, <2>1
  <2>3. inputs = <<>>
    BY <1>5, <2>1
  <2>4. QED
    BY <1>1, <2>3 DEF Folded
<1>10. DOMAIN inputs \subseteq Nat /\ IsFiniteSet(DOMAIN inputs)
  <2>1. Len(inputs) \in Int /\ 1 \in Int
    BY <1>5
  <2>2. IsFiniteSet(1 .. Len(inputs))
    BY <2>1, FS_Interval
  <2>3. QED
    BY <1>5, <2>2
<1>11. \A k \in DOMAIN inputs : inputs[k] = HandedBy(k)
  BY <1>2, <1>4 DEF From
<1>12. Suites = UNION { Members(k) : k \in DOMAIN inputs }
  BY <1>7, <1>8
<1>13. DOMAIN picked = Suites
  BY <1>1, <1>8, <1>12 DEF JobsRun
<1>14. Suites # {}
  BY <1>7, <1>8, <1>9
<1>15. IsFiniteSet(Suites)
  <2>1. file \in Files
    BY <1>1 DEF PlanInv, PlanTypeOK
  <2>2. IsFiniteSet(DOMAIN file) /\ Suites \subseteq DOMAIN file
    BY <2>1, DeclIs
  <2>3. QED
    BY <2>2, FS_Subset
<1>16. QED
  BY <1>1, <1>2, <1>6, <1>7, <1>8, <1>9, <1>10, <1>11, <1>12, <1>13, <1>14, <1>15

LEMMA TestHanded ==
  ASSUME MatrixInv, step = "folded", run.command = "test", HandedOver
  PROVE  /\ \A j \in DOMAIN faults : faults[j] = "none"
         /\ asked("none").mode = run.mode /\ ~asked("none").interrupted /\ asked("none").interrupted \in BOOLEAN
         /\ asked("none").tree = 0 /\ asked("none").seen = 0
         /\ run.mode \in Recording /\ run.mode \in Mode
         /\ Coherent(decl, picked) /\ decl.suites = Suites /\ decl.suites # {}
         /\ run.mode # "gated" => \A i \in decl.suites : picked[i].suite # "unselected"
<1>1. \A j \in DOMAIN faults : faults[j] \in {"none", "late"}
  BY DEF HandedOver
<1>2. /\ PlanInv /\ JobsRun /\ DOMAIN inputs = DOMAIN faults
      /\ Suites = UNION { Members(k) : k \in DOMAIN inputs } /\ Suites # {}
  BY <1>1, Unharmed
<1>3. \A j \in DOMAIN faults : faults[j] = "none"
  <2>1. \A j \in DOMAIN faults : faults[j] \in {"none"} \cup mayHappen
    BY <1>2 DEF JobsRun
  <2>2. "late" \notin mayHappen
    BY DEF mayHappen
  <2>3. QED
    BY <1>1, <2>1, <2>2
<1>4. /\ asked("none").mode = run.mode /\ ~asked("none").interrupted /\ asked("none").interrupted \in BOOLEAN
      /\ asked("none").tree = 0 /\ asked("none").seen = 0
  <2>1. asked("none").mode = IF "none" = "not gated" THEN "not gated" ELSE run.mode
    BY DEF asked
  <2>2. asked("none").interrupted = ("none" \in {"interrupted", "cut"})
    BY DEF asked
  <2>3. asked("none").tree = IF "none" \in {"moved", "elsewhere"} THEN 1 ELSE 0
    BY DEF asked
  <2>4. asked("none").seen = IF "none" = "elsewhere" THEN 1 ELSE 0
    BY DEF asked
  <2>5. "none" # "not gated" /\ "none" \notin {"interrupted", "cut"} /\ "none" \notin {"moved", "elsewhere"} /\ "none" # "elsewhere"
    BY Zenon
  <2>6. asked("none").mode = run.mode
    BY <2>1, <2>5
  <2>7. asked("none").interrupted \in BOOLEAN /\ ~asked("none").interrupted
    <3>1. "none" \notin {"interrupted", "cut"}
      OBVIOUS
    <3>2. PICK x : x = ("none" \in {"interrupted", "cut"})
      OBVIOUS
    <3>3. asked("none").interrupted = x
      BY <2>2, <3>2
    <3>4. x \in BOOLEAN /\ ~x
      <4>1. x \in BOOLEAN
        BY <3>2
      <4>2. ~x
        BY <3>1, <3>2, Zenon
      <4>3. QED
        BY <4>1, <4>2
    <3>5. QED
      BY <3>3, <3>4
  <2>8. asked("none").tree = 0 /\ asked("none").seen = 0
    BY <2>3, <2>4, <2>5
  <2>9. QED
    BY <2>6, <2>7, <2>8
<1>5. run.mode = "gated" \/ (run.mode = "own base" /\ ~run.affected)
  BY DEF HandedOver
<1>6. run.mode \in Recording /\ run.mode \in Mode
  BY <1>5, Zenon DEF Recording, Mode
<1>7. \A i \in Suites : picked[i] \in Profile /\ (picked[i].suite = "unselected" => run.affected)
  <2>1. \A j \in DOMAIN faults : \A i \in Members(j) : picked[i] \in answers(faults[j], i)
    BY <1>2 DEF JobsRun
  <2>2. \A fault, i : \A p \in answers(fault, i) : p \in Profiles /\ (p.suite = "unselected" => run.affected)
    BY DEF answers
  <2>3. QED
    BY <1>2, <2>1, <2>2, MatrixAssumption
<1>8. decl.suites = Suites /\ decl.raw \subseteq Suites
  <2>1. file \in Files
    BY <1>2 DEF PlanInv, PlanTypeOK
  <2>2. QED
    BY <2>1, DeclIs
<1>9. Coherent(decl, picked)
  <2>1. \A i \in decl.raw : picked[i].suite = "passed"
    BY DEF HandedOver
  <2>2. QED
    BY <1>7, <1>8, <2>1 DEF Coherent
<1>10. QED
  BY <1>2, <1>3, <1>4, <1>5, <1>6, <1>7, <1>8, <1>9

\* What the jobs of the tests hand over of the repository.
LEMMA TestDocuments ==
  ASSUME MatrixInv, step = "folded", run.command = "test", HandedOver
  PROVE  /\ documents(inputs) = DOMAIN inputs /\ oneTree(inputs)
         /\ \E folded : repositoryRows(inputs, decl) =
               CoverageOfAll(run.mode, Measures(decl, picked, decl.suites), Bases(picked, decl.suites)) \cup {recordRow(folded, decl)}
<1>1. /\ DOMAIN inputs = DOMAIN faults /\ DOMAIN inputs \subseteq Nat /\ DOMAIN inputs # {}
      /\ \A k \in DOMAIN inputs : inputs[k] = HandedBy(k) /\ Members(k) \subseteq Suites
      /\ \A k, l \in DOMAIN inputs : \A i \in Members(k) : i \in Members(l) => k = l
      /\ Suites = UNION { Members(k) : k \in DOMAIN inputs }
  BY Unharmed DEF HandedOver
<1>2. /\ \A j \in DOMAIN faults : faults[j] = "none"
      /\ asked("none").mode = run.mode /\ ~asked("none").interrupted /\ asked("none").tree = 0
      /\ run.mode \in Recording /\ Coherent(decl, picked) /\ decl.suites = Suites /\ decl.suites # {}
      /\ run.mode # "gated" => \A i \in decl.suites : picked[i].suite # "unselected"
  BY TestHanded
<1>3. PICK d, f, t, mode, dirs : d = decl /\ f = picked /\ t = asked("none") /\ mode = run.mode /\ dirs = inputs
  OBVIOUS
<1>4. PICK R, own, h : /\ own = [k \in DOMAIN inputs |-> RecordedOf(d, f, Members(k))]
                       /\ R = RecordedOf(d, f, d.suites)
                       /\ h = [i \in R |-> HandedEntry(d, f, mode, i)]
  OBVIOUS
<1>5. \A i \in R : h[i] = HandedEntry(d, f, mode, i)
  BY <1>4
<1>6. \A k \in DOMAIN inputs : own[k] = { i \in Members(k) : IsRecorded(d, f, i) }
  BY <1>4 DEF RecordedOf
<1>7. R = { i \in Suites : IsRecorded(d, f, i) }
  BY <1>2, <1>3, <1>4 DEF RecordedOf
<1>8. R = UNION { own[k] : k \in DOMAIN dirs }
  BY <1>1, <1>3, <1>6, <1>7
<1>9. \A k, l \in DOMAIN dirs : \A i \in own[k] : i \in own[l] => k = l
  BY <1>1, <1>3, <1>6
<1>10. PICK gating \in BOOLEAN : gating <=> mode = "gated"
  <2>1. (mode = "gated") \in BOOLEAN
    OBVIOUS
  <2>2. QED
    BY <2>1
<1>11. ASSUME NEW k \in DOMAIN dirs
       PROVE  /\ dirs[k].read /\ dirs[k].doc.state = "read" /\ dirs[k].doc.tree = 0
              /\ dirs[k].doc.gated <=> gating /\ own[k] # {}
              /\ dirs[k].doc.components = [i \in own[k] |-> h[i]]
  <2>1. faults[k] = "none" /\ k \in DOMAIN inputs /\ k \in DOMAIN faults
    BY <1>1, <1>2, <1>3
  <2>2. dirs[k].read /\ dirs[k].doc = RunCandidate(t, d, Members(k), Answered(k))
    <3>1. HandedBy(k).read /\ HandedBy(k).doc = RunCandidate(asked(faults[k]), decl, Members(k), Answered(k))
      BY <2>1, HandedTest
    <3>2. QED
      BY <1>1, <1>3, <2>1, <3>1
  <2>3. PICK members, g : members = Members(k) /\ g = Answered(k)
    OBVIOUS
  <2>4. members \subseteq d.suites /\ g = [i \in members |-> f[i]]
    BY <1>1, <1>2, <1>3, <2>1, <2>3 DEF Answered
  <2>5. members \cap d.suites = members
    BY <2>4
  <2>6. ~t.interrupted /\ t.mode \in Recording /\ t.mode = mode /\ t.tree = 0
    BY <1>2, <1>3
  <2>7. RunCandidate(t, d, members, g) =
          [state |-> "read", tree |-> t.tree, gated |-> t.mode = "gated" /\ RecordedOf(d, g, members) # {},
           components |-> [i \in RecordedOf(d, g, members) |-> HandedEntry(d, g, t.mode, i)]]
    <3>1. ~t.interrupted
      BY <2>6
    <3>2. t.mode \in Recording
      BY <2>6
    <3>3. RunCandidate(t, d, members, g) =
            [state |-> "read", tree |-> t.tree, gated |-> t.mode = "gated" /\ RecordedOf(d, g, members \cap d.suites) # {},
             components |-> [i \in RecordedOf(d, g, members \cap d.suites) |-> HandedEntry(d, g, t.mode, i)]]
      BY <3>1, <3>2, CandidateIs
    <3>4. QED
      BY <2>5, <3>3
  <2>8. \A i \in members : /\ IsRecorded(d, g, i) <=> IsRecorded(d, f, i)
                           /\ HandedEntry(d, g, mode, i) = HandedEntry(d, f, mode, i)
    <3>1. ASSUME NEW i \in members
          PROVE  /\ IsRecorded(d, g, i) <=> IsRecorded(d, f, i)
                 /\ HandedEntry(d, g, mode, i) = HandedEntry(d, f, mode, i)
      <4>1. g[i] = f[i]
        BY <2>4
      <4>2. QED
        BY <4>1, OwnEntry
    <3>2. QED
      BY <3>1
  <2>9. RecordedOf(d, g, members) = own[k]
    BY <1>6, <2>1, <2>3, <2>8 DEF RecordedOf
  <2>10. own[k] \subseteq members /\ own[k] \subseteq R
    BY <1>3, <1>6, <1>8, <2>1, <2>3
  <2>11. [i \in own[k] |-> HandedEntry(d, g, mode, i)] = [i \in own[k] |-> h[i]]
    BY <1>5, <2>8, <2>10
  <2>12. dirs[k].doc = [state |-> "read", tree |-> 0, gated |-> mode = "gated" /\ own[k] # {},
                        components |-> [i \in own[k] |-> HandedEntry(d, g, mode, i)]]
    BY <2>2, <2>3, <2>6, <2>7, <2>9
  <2> DEFINE gated == mode = "gated" /\ own[k] # {}
             components == [i \in own[k] |-> HandedEntry(d, g, mode, i)]
  <2>13. gated <=> gating /\ own[k] # {}
    BY <1>10
  <2>14. dirs[k].doc = [state |-> "read", tree |-> 0, gated |-> gated, components |-> components]
    BY <2>12
  <2> HIDE DEF gated, components
  <2>15. dirs[k].doc.state = "read" /\ dirs[k].doc.tree = 0 /\ dirs[k].doc.gated = gated /\ dirs[k].doc.components = components
    BY <2>14
  <2>16. components = [i \in own[k] |-> h[i]]
    BY <2>11 DEF components
  <2>17. QED
    BY <2>2, <2>13, <2>15, <2>16
<1>12. /\ documents(dirs) = DOMAIN dirs /\ oneTree(dirs)
       /\ foldMeasurements(dirs).gated \in BOOLEAN
       /\ foldMeasurements(dirs).gated <=> gating /\ R # {}
       /\ foldMeasurements(dirs).components = [i \in R |-> h[i]]
  <2>1. DOMAIN dirs \subseteq Nat
    BY <1>1, <1>3
  <2>2. \A k \in DOMAIN dirs : /\ dirs[k].read /\ dirs[k].doc.state = "read" /\ dirs[k].doc.tree = 0
                               /\ dirs[k].doc.gated <=> gating /\ own[k] # {}
                               /\ dirs[k].doc.components = [i \in own[k] |-> h[i]]
    BY <1>11
  <2>3. Pooled(dirs, own, h, gating, R)
    BY <1>8, <1>9, <2>1, <2>2, <1>10, Zenon DEF Pooled
  <2>4. QED
    BY ONLY <2>3, FoldIs, SMT
<1>13. [i \in R |-> h[i]] = h
  BY <1>4
<1>14. composedOf(h, mode = "gated" /\ R # {}, d) =
          CoverageOfAll(mode, Measures(d, f, d.suites), Bases(f, d.suites)) \cup {recordRow(h, d)}
  <2>1. Coherent(d, f)
    BY <1>2, <1>3
  <2>2. d.suites # {}
    BY <1>2, <1>3
  <2>6. mode \in Recording
    BY <1>2, <1>3
  <2>3. mode # "gated" => \A i \in d.suites : f[i].suite # "unselected"
    BY <1>2, <1>3
  <2>4. R = RecordedOf(d, f, d.suites)
    BY <1>4
  <2>7. h = [i \in R |-> HandedEntry(d, f, mode, i)]
    BY <1>4
  <2>5. Recorded(d, f, mode, R, h)
    BY <2>1, <2>2, <2>3, <2>4, <2>6, <2>7, Zenon DEF Recorded
  <2>8. QED
    BY ONLY <2>5, RepositoryIs, SMT
<1>15. repositoryRows(dirs, d) = composedOf(h, mode = "gated" /\ R # {}, d)
  <2>1. PICK x, y : x = foldMeasurements(dirs).gated /\ y = (mode = "gated" /\ R # {})
    OBVIOUS
  <2>2. x = y
    <3>1. x \in BOOLEAN /\ (x <=> gating /\ R # {})
      BY <1>12, <2>1
    <3>2. y \in BOOLEAN /\ (y <=> gating /\ R # {})
      BY <1>10, <2>1
    <3>3. QED
      BY <3>1, <3>2
  <2>3. repositoryRows(dirs, d) = composedOf(foldMeasurements(dirs).components, foldMeasurements(dirs).gated, d)
    BY <1>1, <1>3, <1>12 DEF repositoryRows
  <2>4. repositoryRows(dirs, d) = composedOf(h, x, d)
    BY <1>12, <1>13, <2>1, <2>3
  <2>5. QED
    BY <2>1, <2>2, <2>4
<1>16. repositoryRows(inputs, decl) =
          CoverageOfAll(run.mode, Measures(decl, picked, decl.suites), Bases(picked, decl.suites)) \cup {recordRow(h, decl)}
  BY <1>3, <1>14, <1>15
<1>17. QED
  BY <1>3, <1>12, <1>16

(***************************************************************************)
(* Two reports that differ in rows of the run alone, none of them failing, *)
(* say the same of the repository and come to the same verdict.            *)
(***************************************************************************)
OfTheRun(rows) == \A r \in rows : r.label[1] \notin gates /\ r.status # "fail"

LEMMA SameSaid ==
  ASSUME NEW core, NEW a, NEW b, OfTheRun(a), OfTheRun(b)
  PROVE  /\ said(core \cup a) = said(core \cup b)
         /\ Failing(core \cup a) <=> Failing(core \cup b)
<1> DEFINE about(rows) == { q \in rows : q.label[1] \in gates }
<1>1. about(core \cup a) = about(core \cup b)
  <2>1. \A r \in a \cup b : r.label[1] \notin gates
    BY DEF OfTheRun
  <2> HIDE DEF gates
  <2>2. QED
    BY <2>1
<1>2. \A rows : said(rows) = { sameFigures(r) : r \in about(rows) }
  BY DEF said
<1> HIDE DEF about
<1>3. said(core \cup a) = said(core \cup b)
  BY <1>1, <1>2
<1>4. Failing(core \cup a) <=> Failing(core \cup b)
  BY DEF Failing, OfTheRun
<1>5. QED
  BY <1>3, <1>4

(***************************************************************************)
(* The directories of jobs of the tests that nothing happened to: each of  *)
(* them reports of its own components what one run would.                  *)
(***************************************************************************)
TestDirs(dirs, d, t, f, P) ==
    /\ DOMAIN dirs # {} /\ t.mode \in Recording /\ ~t.interrupted
    /\ \A k \in DOMAIN dirs : /\ dirs[k].read /\ dirs[k].doc.state = "read"
                              /\ dirs[k].rows = General(t, SelectedOf(f, P[k])) \cup AboutAll(t, d, P[k], f)
                              /\ P[k] \subseteq d.suites /\ P[k] # {}
    /\ \A k, l \in DOMAIN dirs : \A i \in P[k] : i \in P[l] => k = l
    /\ d.suites = UNION { P[k] : k \in DOMAIN dirs }
    /\ 0 \notin d.suites

LEMMA TestDirLabels ==
  ASSUME NEW dirs, NEW d, NEW t, NEW f, NEW P, TestDirs(dirs, d, t, f, P), NEW k \in DOMAIN dirs, NEW gate
  PROVE  /\ \A r : r \in dirs[k].rows /\ r.label = <<gate, 0>>
                      <=> r \in General(t, SelectedOf(f, P[k])) /\ r.label = <<gate, 0>>
         /\ \A i \in d.suites : \A r : r \in dirs[k].rows /\ r.label = <<gate, i>>
                      <=> i \in P[k] /\ r \in RowsAbout(t, d, i, f[i]) /\ r.label = <<gate, i>>
<1> DEFINE general == General(t, SelectedOf(f, P[k]))
           about(i) == RowsAbout(t, d, i, f[i])
<1>1. dirs[k].rows = general \cup (UNION { about(i) : i \in P[k] }) /\ P[k] \subseteq d.suites /\ 0 \notin d.suites
  BY DEF TestDirs, AboutAll
<1>2. \A r \in general : \E g : r.label = <<g, 0>>
  BY GeneralLabels
<1>3. \A i : \A r \in about(i) : \E g : r.label = <<g, i>>
  BY AboutLabels
<1> HIDE DEF general, about
<1>4. \A r : r \in dirs[k].rows /\ r.label = <<gate, 0>> <=> r \in general /\ r.label = <<gate, 0>>
  BY <1>1, <1>3
<1>5. \A i \in d.suites : \A r : r \in dirs[k].rows /\ r.label = <<gate, i>>
                                   <=> i \in P[k] /\ r \in about(i) /\ r.label = <<gate, i>>
  BY <1>1, <1>2, <1>3
<1>6. QED
  BY <1>4, <1>5 DEF general, about

LEMMA TestLabelled ==
  ASSUME NEW dirs, NEW d, NEW t, NEW f, NEW P, TestDirs(dirs, d, t, f, P), NEW i \in d.suites, NEW gate
  PROVE  LET about == { r \in RowsAbout(t, d, i, f[i]) : r.label = <<gate, i>> }
         IN  /\ labelled(dirs, <<gate, i>>) = about
             /\ \E k \in DOMAIN dirs : rowsFor(dirs, <<gate, i>>) = {k} \X about
<1> DEFINE about == { r \in RowsAbout(t, d, i, f[i]) : r.label = <<gate, i>> }
<1>1. PICK k \in DOMAIN dirs : i \in P[k]
  BY DEF TestDirs
<1>2. \A l \in DOMAIN dirs : i \in P[l] => l = k
  BY <1>1 DEF TestDirs
<1>3. \A l \in DOMAIN dirs : \A r : r \in dirs[l].rows /\ r.label = <<gate, i>> <=> l = k /\ r \in about
  BY <1>1, <1>2, TestDirLabels
<1> HIDE DEF about
<1>4. \A r : r \in labelled(dirs, <<gate, i>>) <=> r.label = <<gate, i>> /\ \E l \in DOMAIN dirs : r \in dirs[l].rows
  BY RowsForIs
<1>5. labelled(dirs, <<gate, i>>) = about
  BY <1>3, <1>4
<1>6. /\ \A l \in DOMAIN dirs : \A r \in dirs[l].rows : r.label = <<gate, i>> => <<l, r>> \in rowsFor(dirs, <<gate, i>>)
      /\ \A e \in rowsFor(dirs, <<gate, i>>) :
            \E l \in DOMAIN dirs : \E r \in dirs[l].rows : r.label = <<gate, i>> /\ e = <<l, r>>
  BY RowsForIs
<1>7. rowsFor(dirs, <<gate, i>>) = {k} \X about
  <2>1. ASSUME NEW e \in rowsFor(dirs, <<gate, i>>)
        PROVE  e \in {k} \X about
    <3>1. PICK l \in DOMAIN dirs : \E r \in dirs[l].rows : r.label = <<gate, i>> /\ e = <<l, r>>
      BY <1>6
    <3>4. PICK r \in dirs[l].rows : r.label = <<gate, i>> /\ e = <<l, r>>
      BY <3>1
    <3>2. l = k /\ r \in about
      BY <1>3, <3>4
    <3>3. QED
      BY <3>2, <3>4
  <2>2. ASSUME NEW e \in {k} \X about
        PROVE  e \in rowsFor(dirs, <<gate, i>>)
    <3>1. PICK r \in about : e = <<k, r>>
      OBVIOUS
    <3>2. r \in dirs[k].rows /\ r.label = <<gate, i>>
      BY <1>3
    <3>3. QED
      BY <1>6, <3>1, <3>2
  <2>3. QED
    BY <2>1, <2>2
<1>8. QED
  BY <1>5, <1>7 DEF about

LEMMA OnePair ==
  ASSUME NEW k, NEW x
  PROVE  Cardinality({k} \X {x}) = 1
<1>1. {k} \X {x} = {<<k, x>>}
  OBVIOUS
<1>2. QED
  BY <1>1, FS_Singleton

\* Every component with a suite has its one row of its tests and of their flakiness.
LEMMA TestCarried ==
  ASSUME NEW dirs, NEW d, NEW t, NEW f, NEW P, TestDirs(dirs, d, t, f, P)
  PROVE  carriedOnce(dirs, suiteLabels(d)) = suiteLabels(d) /\ uncovered(dirs, suiteLabels(d)) = {}
<1>1. ASSUME NEW label \in suiteLabels(d)
      PROVE  Cardinality(rowsFor(dirs, label)) = 1
  <2>1. PICK gate \in {"test", "flaky"}, i \in d.suites : label = <<gate, i>>
    BY DEF suiteLabels
  <2> DEFINE about == { r \in RowsAbout(t, d, i, f[i]) : r.label = <<gate, i>> }
  <2>2. \E x : about = {x}
    <3>1. ~t.interrupted
      BY DEF TestDirs
    <3>2. /\ { r \in RowsAbout(t, d, i, f[i]) : r.label = <<"test", i>> } =
               {IF t.interrupted /\ f[i].suite = "failed" THEN UnmeasuredRow(<<"test", i>>) ELSE testRow(i, f[i])}
          /\ { r \in RowsAbout(t, d, i, f[i]) : r.label = <<"flaky", i>> } =
               IF t.interrupted THEN {} ELSE {Row(<<"flaky", i>>, "context", <<>>)}
      BY TestAnswer
    <3>3. CASE gate = "test"
      BY <3>2, <3>3
    <3>4. CASE gate = "flaky"
      BY <3>1, <3>2, <3>4
    <3>5. QED
      BY <3>3, <3>4
  <2>3. \E k \in DOMAIN dirs : rowsFor(dirs, <<gate, i>>) = {k} \X about
    BY TestLabelled
  <2> HIDE DEF about
  <2>4. PICK x : about = {x}
    BY <2>2
  <2>5. PICK k : rowsFor(dirs, label) = {k} \X {x}
    BY <2>1, <2>3, <2>4
  <2>6. QED
    BY <2>5, OnePair
<1>2. QED
  BY <1>1 DEF carriedOnce, uncovered

LEMMA TestComponents ==
  ASSUME NEW dirs, NEW d, NEW t, NEW f, NEW P, TestDirs(dirs, d, t, f, P)
  PROVE  componentRows(dirs, suiteLabels(d)) \cup (UNION { labelled(dirs, label) : label \in coverageLabels(d) }) =
            AboutAll(t, d, d.suites, f)
<1> DEFINE about(i) == RowsAbout(t, d, i, f[i])
           labels == suiteLabels(d) \cup coverageLabels(d)
           rows == componentRows(dirs, suiteLabels(d)) \cup (UNION { labelled(dirs, label) : label \in coverageLabels(d) })
<1>1. rows = UNION { labelled(dirs, label) : label \in labels }
  BY TestCarried DEF componentRows
<1>2. \A gate : \A i \in d.suites : labelled(dirs, <<gate, i>>) = { r \in about(i) : r.label = <<gate, i>> }
  BY TestLabelled
<1>3. \A i : \A r \in about(i) : \E gate \in ComponentGates : r.label = <<gate, i>>
  BY AboutLabels
<1>4. labels = ComponentGates \X d.suites
  <2>1. ASSUME NEW label
        PROVE  label \in labels <=> label \in ComponentGates \X d.suites
    BY DEF ComponentGates, suiteLabels, coverageLabels
  <2>2. QED
    BY <2>1
<1> HIDE DEF about, labels, rows, ComponentGates
<1>5. ASSUME NEW r \in rows
      PROVE  \E i \in d.suites : r \in about(i)
  <2>1. PICK label \in labels : r \in labelled(dirs, label)
    BY <1>1
  <2>2. PICK gate \in ComponentGates, i \in d.suites : label = <<gate, i>>
    BY <1>4
  <2>3. QED
    BY <1>2, <2>1, <2>2
<1>6. ASSUME NEW i \in d.suites, NEW r \in about(i)
      PROVE  r \in rows
  <2>1. PICK gate \in ComponentGates : r.label = <<gate, i>>
    BY <1>3
  <2>2. r \in labelled(dirs, <<gate, i>>) /\ <<gate, i>> \in labels
    BY <1>2, <1>4, <2>1
  <2>3. QED
    BY <1>1, <2>2
<1>7. rows = UNION { about(i) : i \in d.suites }
  BY <1>5, <1>6
<1>8. QED
  BY <1>7 DEF rows, about, AboutAll

LEMMA TestNone ==
  ASSUME NEW dirs, NEW d, NEW t, NEW f, NEW P, TestDirs(dirs, d, t, f, P)
  PROVE  noSuiteRows({"test", "flaky"}, d.noSuite) \cup
         (IF anyCoverageRow(dirs, d) THEN noSuiteRows(coverageKinds, d.noSuite) ELSE {}) = AboutNone(t, d.noSuite)
<1>1. anyCoverageRow(dirs, d)
  <2>1. PICK i \in d.suites : TRUE
    BY DEF TestDirs
  <2> DEFINE m == measurement(i, f[i], d)
             about == { r \in RowsAbout(t, d, i, f[i]) : r.label = <<"coverage", i>> }
  <2>2. \E r \in CoverageAbout(t.mode, i, m, f[i].base) : r.label = <<"coverage", i>>
    <3>1. ComponentRow(i, m, f[i].base).label = <<"coverage", i>>
      BY DEF ComponentRow, Compared, UnmeasuredRow, Row
    <3>2. (IF Measured(m) THEN Row(<<"coverage", i>>, "context", Numbers(m.lines)) ELSE UnmeasuredRow(<<"coverage", i>>)).label
            = <<"coverage", i>>
      BY DEF UnmeasuredRow, Row
    <3>3. \E r \in UngatedAbout(i, m) : r.label = <<"coverage", i>>
      BY <3>2 DEF UngatedAbout
    <3>4. t.mode # "off"
      BY Zenon DEF TestDirs, Recording
    <3>5. QED
      BY <3>1, <3>3, <3>4 DEF CoverageAbout
  <2>3. about # {}
    BY <2>2 DEF TestDirs, RowsAbout
  <2>4. \E k \in DOMAIN dirs : rowsFor(dirs, <<"coverage", i>>) = {k} \X about
    BY TestLabelled
  <2> HIDE DEF about
  <2>5. rowsFor(dirs, <<"coverage", i>>) # {}
    <3>1. PICK k : rowsFor(dirs, <<"coverage", i>>) = {k} \X about
      BY <2>4
    <3>2. PICK r \in about : TRUE
      BY <2>3
    <3>3. <<k, r>> \in {k} \X about
      OBVIOUS
    <3>4. QED
      BY <3>1, <3>3
  <2>6. i \in Components(d)
    BY DEF Components
  <2>7. QED
    BY <2>5, <2>6 DEF anyCoverageRow
<1>2. ~t.interrupted /\ t.mode # "off"
  BY Zenon DEF TestDirs, Recording
<1>3. noSuiteRows({"test", "flaky"}, d.noSuite) = noSuiteRows({"test"}, d.noSuite) \cup noSuiteRows({"flaky"}, d.noSuite)
  <2>1. {"test", "flaky"} \X d.noSuite = ({"test"} \X d.noSuite) \cup ({"flaky"} \X d.noSuite)
    OBVIOUS
  <2>2. QED
    BY <2>1 DEF noSuiteRows
<1>4. QED
  BY <1>1, <1>2, <1>3 DEF AboutNone

\* A run that finished with its gates says nothing of itself that fails.
LEMMA GeneralPasses ==
  ASSUME NEW t, t.mode \in Recording, ~t.interrupted, NEW selected, NEW r \in General(t, selected)
  PROVE  /\ r.status # "fail" /\ \E gate \in GeneralGates : r.label = <<gate, 0>>
         /\ r.label \in testWholeTreeRows => r = Row(r.label, "pass", <<t.seen>>)
<1>1. ASSUME NEW s \in wholeTreeRows(t)
      PROVE  s.status = "pass" /\ s = Row(s.label, "pass", <<t.seen>>)
  BY DEF wholeTreeRows, Row
<1>2. \A s \in scheduleRow(selected, t.interrupted) : s.status = "pass" /\ s.label = <<"schedule", 0>>
  BY DEF scheduleRow, Row
<1>3. \A s \in BaselineRow(t.mode) : s.status = "context" /\ s.label = <<"baseline", 0>>
  <2>1. \A v : /\ Row(<<"baseline", 0>>, "context", v).status = "context"
               /\ Row(<<"baseline", 0>>, "context", v).label = <<"baseline", 0>>
    BY DEF Row
  <2>2. \A s \in BaselineRow(t.mode) : s = Row(<<"baseline", 0>>, "context", <<1>>)
    BY Zenon DEF BaselineRow, Recording
  <2>3. QED
    BY <2>1, <2>2
<1>4. \A s \in RecordedRow(t.mode) : s.status = "context" /\ s.label = <<"record", 0>>
  <2>1. \A s \in RecordedRow(t.mode) : s = Row(<<"record", 0>>, "context", <<>>)
    BY DEF RecordedRow
  <2>2. QED
    BY <2>1 DEF Row
<1>5. r \in wholeTreeRows(t) \/ r \in scheduleRow(selected, t.interrupted) \/ r \in BaselineRow(t.mode) \/ r \in RecordedRow(t.mode)
  BY DEF General
<1>6. r.status # "fail"
  BY <1>1, <1>2, <1>3, <1>4, <1>5
<1>7. \E gate \in GeneralGates : r.label = <<gate, 0>>
  BY GeneralLabels
<1>8. r.label \in testWholeTreeRows => r \in wholeTreeRows(t)
  BY <1>2, <1>3, <1>4, <1>5 DEF testWholeTreeRows
<1>9. QED
  BY <1>1, <1>6, <1>7, <1>8

\* A row of the directories is of the run, or of the one component it names.
SaidOfTheRun(r, t) ==
    /\ r.status # "fail" /\ \E gate \in GeneralGates : r.label = <<gate, 0>>
    /\ r.label \in testWholeTreeRows => r = Row(r.label, "pass", <<t.seen>>)

NamesOne(r, d) == \E gate \in ComponentGates, i \in d.suites : r.label = <<gate, i>>

LEMMA TestDirRows ==
  ASSUME NEW dirs, NEW d, NEW t, NEW f, NEW P, TestDirs(dirs, d, t, f, P), NEW k \in DOMAIN dirs, NEW r \in dirs[k].rows
  PROVE  SaidOfTheRun(r, t) \/ (r \in AboutAll(t, d, d.suites, f) /\ NamesOne(r, d))
<1> DEFINE about(i) == RowsAbout(t, d, i, f[i])
           general == General(t, SelectedOf(f, P[k]))
<1>1. dirs[k].rows = general \cup (UNION { about(i) : i \in P[k] }) /\ P[k] \subseteq d.suites
  BY DEF TestDirs, AboutAll
<1>2. \A i : \A q \in about(i) : \E gate \in ComponentGates : q.label = <<gate, i>>
  BY AboutLabels
<1>3. t.mode \in Recording /\ ~t.interrupted
  BY DEF TestDirs
<1>4. \A q \in general : /\ q.status # "fail" /\ \E gate \in GeneralGates : q.label = <<gate, 0>>
                         /\ q.label \in testWholeTreeRows => q = Row(q.label, "pass", <<t.seen>>)
  BY <1>3, GeneralPasses
<1>5. AboutAll(t, d, d.suites, f) = UNION { about(i) : i \in d.suites }
  BY DEF AboutAll
<1> HIDE DEF about, general
<1>6. CASE r \in general
  BY <1>4, <1>6 DEF SaidOfTheRun
<1>7. CASE r \notin general
  <2>1. PICK i \in P[k] : r \in about(i)
    BY <1>1, <1>7
  <2>2. i \in d.suites
    BY <1>1
  <2>3. QED
    BY <1>2, <1>5, <2>1, <2>2 DEF NamesOne
<1>8. QED
  BY <1>6, <1>7

TestQuiet(dirs, d, record) ==
    { readRow(k, dirs[k]) : k \in DOMAIN dirs } \cup foldedWholeTree(dirs, testWholeTreeRows) \cup
    foldedScheduleRow(dirs) \cup {record} \cup carryUnhandled(dirs, foldedRow(d))

LEMMA TestQuietIs ==
  ASSUME NEW dirs, NEW d, NEW t, NEW f, NEW P, TestDirs(dirs, d, t, f, P), NEW folded
  PROVE  OfTheRun(TestQuiet(dirs, d, recordRow(folded, d))) /\ disagreements(dirs, testWholeTreeRows) = {}
<1>1. \A label : \A r : r \in labelled(dirs, label) <=> r.label = label /\ \E k \in DOMAIN dirs : r \in dirs[k].rows
  BY RowsForIs
<1>10. ASSUME NEW k \in DOMAIN dirs, NEW r \in dirs[k].rows, \A gate \in ComponentGates, i \in d.suites : r.label # <<gate, i>>
       PROVE  /\ r.status # "fail" /\ \E gate \in GeneralGates : r.label = <<gate, 0>>
              /\ r.label \in testWholeTreeRows => r = Row(r.label, "pass", <<t.seen>>)
  <2>1. ~NamesOne(r, d)
    BY <1>10 DEF NamesOne
  <2>2. SaidOfTheRun(r, t) \/ (r \in AboutAll(t, d, d.suites, f) /\ NamesOne(r, d))
    BY TestDirRows
  <2>3. QED
    BY <2>1, <2>2 DEF SaidOfTheRun
<1>2. ASSUME NEW label \in testWholeTreeRows, NEW r \in labelled(dirs, label)
      PROVE  r = Row(label, "pass", <<t.seen>>)
  <2>1. r.label = label /\ \E k \in DOMAIN dirs : r \in dirs[k].rows
    BY <1>1
  <2>2. r.label \in testWholeTreeRows
    BY <2>1
  <2>3. \A gate \in ComponentGates : \A i : r.label # <<gate, i>>
    BY <2>2 DEF ComponentGates, testWholeTreeRows
  <2>4. PICK k \in DOMAIN dirs : r \in dirs[k].rows
    BY <2>1
  <2>5. r.label \in testWholeTreeRows => r = Row(r.label, "pass", <<t.seen>>)
    BY <1>10, <2>3, <2>4
  <2>6. QED
    BY <2>1, <2>2, <2>5
<1>3. disagreements(dirs, testWholeTreeRows) = {}
  <2>1. ASSUME NEW label \in testWholeTreeRows
        PROVE  agreed(dirs, label)
    <3>1. labelled(dirs, label) = {} \/ labelled(dirs, label) = {Row(label, "pass", <<t.seen>>)}
      BY <1>2
    <3>2. Cardinality(labelled(dirs, label)) \in {0, 1}
      BY <3>1, FS_EmptySet, FS_Singleton
    <3>3. QED
      BY <3>2 DEF agreed
  <2>2. QED
    BY <2>1 DEF disagreements
<1>4. ASSUME NEW k \in DOMAIN dirs
      PROVE  readRow(k, dirs[k]).label[1] \notin gates /\ readRow(k, dirs[k]).status # "fail"
  <2>1. dirs[k].read /\ dirs[k].doc.state = "read"
    BY DEF TestDirs
  <2>2. readRow(k, dirs[k]) = Row(<<"read", k>>, "context", <<>>)
    BY <2>1 DEF readRow
  <2>3. QED
    BY <2>2 DEF Row, gates
<1>5. ASSUME NEW r \in foldedWholeTree(dirs, testWholeTreeRows)
      PROVE  r.label[1] \notin gates /\ r.status # "fail"
  <2>1. PICK label \in testWholeTreeRows : r \in labelled(dirs, label)
    BY DEF foldedWholeTree
  <2>2. r = Row(label, "pass", <<t.seen>>)
    BY <1>2, <2>1
  <2>3. label[1] \notin gates
    BY DEF testWholeTreeRows, gates
  <2>4. QED
    BY <2>2, <2>3 DEF Row
<1>6. ASSUME NEW r \in foldedScheduleRow(dirs)
      PROVE  r.label[1] \notin gates /\ r.status # "fail"
  <2>1. \A q \in labelled(dirs, <<"schedule", 0>>) : q.status # "fail"
    <3>1. ASSUME NEW q \in labelled(dirs, <<"schedule", 0>>)
          PROVE  q.status # "fail"
      <4>1. q.label = <<"schedule", 0>> /\ \E k \in DOMAIN dirs : q \in dirs[k].rows
        BY <1>1
      <4>2. \A gate \in ComponentGates : \A i : q.label # <<gate, i>>
        BY <4>1 DEF ComponentGates
      <4>3. PICK k \in DOMAIN dirs : q \in dirs[k].rows
        BY <4>1
      <4>4. QED
        BY <1>10, <4>2, <4>3
    <3>2. QED
      BY <3>1
  <2>2. r = Row(<<"schedule", 0>>, "pass", <<>>)
    BY <2>1 DEF foldedScheduleRow, Failing
  <2>3. QED
    BY <2>2 DEF Row, gates
<1>7. recordRow(folded, d).label[1] \notin gates /\ recordRow(folded, d).status # "fail"
  BY DEF recordRow, UnmeasuredRow, Row, gates
<1>8. ASSUME NEW r \in carryUnhandled(dirs, foldedRow(d))
      PROVE  r.label[1] \notin gates /\ r.status # "fail"
  <2>1. PICK k \in DOMAIN dirs : r \in dirs[k].rows
    BY DEF carryUnhandled
  <2>2. r.label \notin foldedRow(d)
    BY DEF carryUnhandled
  <2>3. \A gate \in ComponentGates, i \in d.suites : <<gate, i>> \in foldedRow(d)
    BY DEF ComponentGates, foldedRow, Components
  <2>6. \A gate \in ComponentGates, i \in d.suites : r.label # <<gate, i>>
    BY <2>2, <2>3
  <2>4. r.status # "fail" /\ \E gate \in GeneralGates : r.label = <<gate, 0>>
    BY <1>10, <2>1, <2>6
  <2>5. QED
    BY <2>4 DEF GeneralGates, gates
<1>9. QED
  BY <1>3, <1>4, <1>5, <1>6, <1>7, <1>8 DEF OfTheRun, TestQuiet

Core(t, d, f, cover) == AboutAll(t, d, d.suites, f) \cup AboutNone(t, d.noSuite) \cup cover

LEMMA TestMerged ==
  ASSUME NEW dirs, NEW d, NEW t, NEW f, NEW P, TestDirs(dirs, d, t, f, P),
         NEW cover, NEW folded, repositoryRows(dirs, d) = cover \cup {recordRow(folded, d)}
  PROVE  \E q : OfTheRun(q) /\ Merged(dirs, d) = Core(t, d, f, cover) \cup q
<1> DEFINE all == AboutAll(t, d, d.suites, f)
           none == AboutNone(t, d.noSuite)
           quiet == TestQuiet(dirs, d, recordRow(folded, d))
           reads == { readRow(k, dirs[k]) : k \in DOMAIN dirs }
           tree == foldedWholeTree(dirs, testWholeTreeRows)
           schedule == foldedScheduleRow(dirs)
           answered == componentRows(dirs, suiteLabels(d))
           measured == UNION { labelled(dirs, label) : label \in coverageLabels(d) }
           without == noSuiteRows({"test", "flaky"}, d.noSuite)
           uncounted == IF anyCoverageRow(dirs, d) THEN noSuiteRows(coverageKinds, d.noSuite) ELSE {}
           carriedOn == carryUnhandled(dirs, foldedRow(d))
           rows == reads \cup tree \cup schedule \cup answered \cup without \cup foldedCoverage(dirs, d) \cup
                   repositoryRows(dirs, d) \cup carriedOn
           problems == \/ disagreements(dirs, testWholeTreeRows) # {}
                       \/ uncovered(dirs, suiteLabels(d)) # {}
                       \/ uncarriedVerdicts(rows, dirs) # {}
<1>1. Merged(dirs, d) = rows \cup {shardsRow(problems)}
  BY DEF Merged
<1>2. OfTheRun(quiet) /\ disagreements(dirs, testWholeTreeRows) = {}
  BY TestQuietIs
<1>3. uncovered(dirs, suiteLabels(d)) = {}
  BY TestCarried
<1>4. foldedCoverage(dirs, d) = measured \cup uncounted
  BY DEF foldedCoverage
<1>5. answered \cup measured = all
  BY TestComponents
<1>6. without \cup uncounted = none
  BY TestNone
<1>7. quiet = reads \cup tree \cup schedule \cup {recordRow(folded, d)} \cup carriedOn
  BY DEF TestQuiet
<1>8. rows = Core(t, d, f, cover) \cup quiet
  <2> HIDE DEF all, none, quiet, reads, tree, schedule, answered, measured, without, uncounted, carriedOn
  <2>1. rows = all \cup none \cup cover \cup quiet
    BY <1>4, <1>5, <1>6, <1>7
  <2>2. QED
    BY <2>1 DEF Core, all, none
<1>9. uncarriedVerdicts(rows, dirs) = {}
  <2> HIDE DEF rows, quiet
  <2>1. SUFFICES ASSUME ~Failing(rows), NEW k \in DOMAIN dirs PROVE ~Failing(dirs[k].rows)
    BY DEF uncarriedVerdicts
  <2>2. all \subseteq rows
    BY <1>8 DEF Core
  <2>3. ASSUME NEW r \in dirs[k].rows
        PROVE  r.status # "fail"
    <3>1. SaidOfTheRun(r, t) \/ r \in all
      BY TestDirRows
    <3>2. SaidOfTheRun(r, t) => r.status # "fail"
      BY DEF SaidOfTheRun
    <3>3. r \in all => r.status # "fail"
      BY <2>1, <2>2 DEF Failing
    <3>4. QED
      BY <3>1, <3>2, <3>3
  <2>4. QED
    BY <2>3 DEF Failing
<1>10. ~problems
  BY <1>2, <1>3, <1>9
<1>11. OfTheRun({shardsRow(problems)})
  <2>1. PICK p : p = problems
    OBVIOUS
  <2>2. ~p
    BY <1>10, <2>1
  <2>3. shardsRow(p) = Row(<<"shards", 0>>, "pass", <<>>)
    BY <2>2 DEF shardsRow
  <2>4. shardsRow(p).label[1] \notin gates /\ shardsRow(p).status # "fail"
    BY <2>3 DEF Row, gates
  <2> HIDE DEF problems
  <2>5. QED
    BY <2>1, <2>4 DEF OfTheRun
<1> DEFINE q == quiet \cup {shardsRow(problems)}
<1>12. OfTheRun(q)
  <2> HIDE DEF quiet, problems
  <2>1. QED
    BY <1>2, <1>11 DEF OfTheRun
<1>13. Merged(dirs, d) = Core(t, d, f, cover) \cup q
  <2> HIDE DEF rows, quiet, problems
  <2>1. QED
    BY <1>1, <1>8
<1> HIDE DEF q
<1>14. QED
  BY <1>12, <1>13

\* A matrix of the tests that nothing happened to is one run over them all.
LEMMA TestInvisible ==
  ASSUME MatrixInv, step = "folded", run.command = "test", HandedOver
  PROVE  /\ said(merged.rows) = said(unsharded.rows)
         /\ Failing(merged.rows) <=> Failing(unsharded.rows)
         /\ ~merged.incomplete /\ ~unsharded.incomplete
<1>1. /\ PlanInv /\ JobsRun /\ Folded
      /\ DOMAIN inputs = DOMAIN faults /\ DOMAIN inputs # {}
      /\ \A k \in DOMAIN inputs : inputs[k] = HandedBy(k) /\ Members(k) # {} /\ Members(k) \subseteq Suites
      /\ \A k, l \in DOMAIN inputs : \A i \in Members(k) : i \in Members(l) => k = l
      /\ Suites = UNION { Members(k) : k \in DOMAIN inputs }
  BY Unharmed DEF HandedOver
<1>2. /\ \A j \in DOMAIN faults : faults[j] = "none"
      /\ asked("none").mode = run.mode /\ ~asked("none").interrupted /\ asked("none").interrupted \in BOOLEAN
      /\ run.mode \in Recording /\ run.mode \in Mode
      /\ decl.suites = Suites
  BY TestHanded
<1>3. PICK dirs, d, t, f, P : /\ dirs = inputs /\ d = decl /\ t = asked("none") /\ f = picked
                              /\ P = [k \in DOMAIN inputs |-> Members(k)]
  OBVIOUS
<1>4. \A k \in DOMAIN dirs : P[k] = Members(k)
  BY <1>3
<1>5. file \in Files
  BY <1>1 DEF PlanInv, PlanTypeOK
<1>6. Components(d) = DOMAIN file /\ d.noSuite = DOMAIN file \ Suites /\ 0 \notin d.suites /\ Suites \subseteq DOMAIN file
  BY <1>3, <1>5, DeclIs DEF Suites
<1>7. documents(dirs) = DOMAIN dirs
      /\ \E folded : repositoryRows(dirs, d) =
            CoverageOfAll(run.mode, Measures(d, f, d.suites), Bases(f, d.suites)) \cup {recordRow(folded, d)}
  BY <1>3, TestDocuments
<1>8. ASSUME NEW k \in DOMAIN dirs
      PROVE  /\ dirs[k].read /\ dirs[k].doc.state = "read"
             /\ dirs[k].rows = General(t, SelectedOf(f, P[k])) \cup AboutAll(t, d, P[k], f)
             /\ P[k] \subseteq d.suites /\ P[k] # {}
  <2>1. k \in DOMAIN faults /\ faults[k] = "none" /\ dirs[k] = HandedBy(k) /\ k \in DOMAIN inputs
    BY <1>1, <1>2, <1>3
  <2>2. dirs[k].read /\ dirs[k].doc.state = "read"
    BY <1>7 DEF documents
  <2>3. dirs[k].rows = JobRows(k)
    BY <2>1, HandedTest
  <2>4. JobRows(k) = General(asked(faults[k]), Ran(k)) \cup AboutAll(asked(faults[k]), decl, Members(k), picked)
    BY <1>1, <2>1, TestJob
  <2>5. JobRows(k) = General(t, SelectedOf(f, P[k])) \cup AboutAll(t, d, P[k], f)
    BY <1>3, <1>4, <2>1, <2>4 DEF Ran
  <2>6. QED
    BY <1>1, <1>2, <1>3, <1>4, <2>1, <2>2, <2>3, <2>5
<1>9. TestDirs(dirs, d, t, f, P)
  <2>1. DOMAIN dirs # {} /\ t.mode \in Recording /\ ~t.interrupted
    BY <1>1, <1>2, <1>3
  <2>2. \A k, l \in DOMAIN dirs : \A i \in P[k] : i \in P[l] => k = l
    BY <1>1, <1>3, <1>4
  <2>3. d.suites = UNION { P[k] : k \in DOMAIN dirs }
    BY <1>1, <1>2, <1>3, <1>4
  <2>4. QED
    BY <1>6, <1>8, <2>1, <2>2, <2>3 DEF TestDirs
<1> DEFINE cover == CoverageOfAll(run.mode, Measures(d, f, d.suites), Bases(f, d.suites))
           core == Core(t, d, f, cover)
<1>10. \E q : OfTheRun(q) /\ merged.rows = core \cup q
  <2>1. PICK c : c = cover
    OBVIOUS
  <2>2. PICK folded : repositoryRows(dirs, d) = c \cup {recordRow(folded, d)}
    BY <1>7, <2>1
  <2>3. \E q : OfTheRun(q) /\ Merged(dirs, d) = Core(t, d, f, c) \cup q
    BY <1>9, <2>2, TestMerged
  <2>4. merged.rows = Merged(dirs, d)
    BY <1>1, <1>3 DEF Folded
  <2>5. QED
    BY <2>1, <2>3, <2>4
<1>11. ~(\E j \in DOMAIN faults : faults[j] = "late")
  BY <1>2
<1>12. unsharded = [rows |-> RunReport(t, d, Components(d), f, FALSE), incomplete |-> FALSE]
  BY <1>3, <1>11 DEF unsharded
<1>13. RunReport(t, d, Components(d), f, FALSE) = core \cup General(t, SelectedOf(f, d.suites))
  <2>1. t.mode \in Mode /\ ~t.interrupted /\ t.interrupted \in BOOLEAN /\ t.mode = run.mode
    BY <1>2, <1>3
  <2>2. PICK own : own = Components(d)
    OBVIOUS
  <2>3. RunReport(t, d, own, f, FALSE) =
            General(t, SelectedOf(f, own \cap d.suites)) \cup
            AboutAll(t, d, own \cap d.suites, f) \cup AboutNone(t, own \cap d.noSuite) \cup
            CoverageOfAll(t.mode, Measures(d, f, own \cap d.suites), Bases(f, own \cap d.suites))
    BY <2>1, WholeReportIs
  <2>4. own \cap d.suites = d.suites /\ own \cap d.noSuite = d.noSuite
    BY <2>2 DEF Components
  <2> DEFINE g == General(t, SelectedOf(f, d.suites))
             a == AboutAll(t, d, d.suites, f)
             n == AboutNone(t, d.noSuite)
  <2>5. RunReport(t, d, own, f, FALSE) = g \cup a \cup n \cup cover
    BY <2>1, <2>3, <2>4
  <2>6. core = a \cup n \cup cover
    BY DEF Core
  <2> HIDE DEF g, a, n, cover, core
  <2>7. RunReport(t, d, own, f, FALSE) = core \cup g
    BY <2>5, <2>6
  <2>8. QED
    BY <2>2, <2>7 DEF g
<1>14. OfTheRun(General(t, SelectedOf(f, d.suites)))
  <2>1. ASSUME NEW r \in General(t, SelectedOf(f, d.suites))
        PROVE  r.label[1] \notin gates /\ r.status # "fail"
    <3>1. t.mode \in Recording /\ ~t.interrupted
      BY <1>2, <1>3
    <3>2. r.status # "fail" /\ \E gate \in GeneralGates : r.label = <<gate, 0>>
      BY <3>1, GeneralPasses
    <3>3. QED
      BY <3>2 DEF GeneralGates, gates
  <2>2. QED
    BY <2>1 DEF OfTheRun
<1> HIDE DEF core, cover
<1>15. PICK q : OfTheRun(q) /\ merged.rows = core \cup q
  BY <1>10
<1>16. PICK g : OfTheRun(g) /\ unsharded.rows = core \cup g
  BY <1>12, <1>13, <1>14
<1>17. said(merged.rows) = said(unsharded.rows) /\ (Failing(merged.rows) <=> Failing(unsharded.rows))
  <2>1. PICK c, x, y : c = core /\ x = merged.rows /\ y = unsharded.rows
    OBVIOUS
  <2>2. x = c \cup q /\ y = c \cup g /\ OfTheRun(q) /\ OfTheRun(g)
    BY <1>15, <1>16, <2>1
  <2>3. said(c \cup q) = said(c \cup g) /\ (Failing(c \cup q) <=> Failing(c \cup g))
    BY <2>2, SameSaid
  <2>4. said(x) = said(y) /\ (Failing(x) <=> Failing(y))
    BY <2>2, <2>3
  <2>5. QED
    BY <2>1, <2>4
<1>18. ~merged.incomplete /\ ~unsharded.incomplete
  BY <1>1, <1>12 DEF Folded
<1>19. QED
  BY <1>17, <1>18

(***************************************************************************)
(* The row of a component of a run that was not interrupted: one that was  *)
(* stopped part way never passes and alone states how far it came, and one *)
(* whose mutants never ran states no score.                                *)
(***************************************************************************)
LEMMA StoppedRow ==
  ASSUME NEW this, ~this.interrupted, NEW i, NEW found \in ComponentOutcome
  PROVE  /\ found.kind = "incomplete" => reportedRow(this, i, found).status # "pass"
         /\ rowIncomplete(reportedRow(this, i, found)) => found.kind = "incomplete"
         /\ found.kind \notin {"completed", "incomplete"} => reportedRow(this, i, found).value = <<>>
<1> DEFINE label == <<"mutation", i>>
           scored == mutationRow(label, found)
           gated == completedRow(scored, this.noGate)
           row == kindRow(i, found, this.noGate)
           taken == found.teardown /\ teardownFailureReplaces(found.kind, row.status)
           lost == IF found.kind = "incomplete" THEN <<0, 0>> \o progress(found) ELSE <<>>
<1>1. found \in [kind : OutcomeKind, killed : Nat, survived : Nat, measured : Nat, wanted : Nat, teardown : BOOLEAN]
  BY DEF ComponentOutcome
<1>2. reportedRow(this, i, found) = IF taken THEN Row(row.label, "fail", lost) ELSE row
  <2>1. reportedRow(this, i, found) = outcomeRow(i, found, this.noGate)
    BY DEF reportedRow, withdrawn
  <2>2. outcomeRow(i, found, this.noGate) = IF taken THEN Row(row.label, "fail", lost) ELSE row
    BY DEF outcomeRow
  <2>3. QED
    BY <2>1, <2>2
<1>3. \A l, s, v : Row(l, s, v) = [label |-> l, status |-> s, value |-> v]
  BY DEF Row
<1>4. \A l : UnmeasuredRow(l) = [label |-> l, status |-> "unmeasured", value |-> <<>>]
  BY <1>3 DEF UnmeasuredRow
<1>5. PICK s, v : /\ scored = [label |-> label, status |-> s, value |-> v]
                  /\ v = <<>> \/ v = <<found.killed, denominator(found)>>
                  /\ found.survived > 0 => s = "fail"
  <2>1. CASE denominator(found) = 0
    <3>1. ~(found.survived > 0)
      BY <1>1, <2>1 DEF denominator
    <3>2. scored = [label |-> label, status |-> "unmeasured", value |-> <<>>]
      BY <1>4, <2>1 DEF mutationRow
    <3>3. QED
      BY <3>1, <3>2
  <2>2. CASE denominator(found) # 0
    <3> DEFINE s == IF found.survived > 0 THEN "fail" ELSE "pass"
               v == <<found.killed, denominator(found)>>
    <3>1. scored = Row(label, s, v)
      BY <2>2 DEF mutationRow
    <3>2. (found.survived > 0 => s = "fail") /\ v = <<found.killed, denominator(found)>>
      OBVIOUS
    <3> HIDE DEF s, v, scored, label
    <3>3. scored = [label |-> label, status |-> s, value |-> v]
      BY <1>3, <3>1
    <3>4. QED
      BY <3>2, <3>3
  <2>3. QED
    BY <2>1, <2>2
<1>6. PICK u : gated = [label |-> label, status |-> u, value |-> v] /\ (found.survived > 0 => u \in {"fail", "context"})
  <2>1. gated = scored \/ gated = [scored EXCEPT !.status = "context"]
    <3> HIDE DEF scored
    <3>1. QED
      BY Zenon DEF completedRow
  <2>2. [scored EXCEPT !.status = "context"] = [label |-> label, status |-> "context", value |-> v]
    BY <1>5
  <2>3. QED
    BY <1>5, <2>1, <2>2
<1>7. found.kind = "completed" => row = [label |-> label, status |-> u, value |-> v]
  BY <1>6 DEF kindRow
<1>8. found.kind = "incomplete" => row.status # "pass"
  <2>1. SUFFICES ASSUME found.kind = "incomplete" PROVE row.status # "pass"
    OBVIOUS
  <2>2. row = incompleteRow(label, found, this.noGate)
    BY <2>1 DEF kindRow
  <2>3. CASE found.survived > 0
    <3>1. row = [gated EXCEPT !.value = @ \o progress(found)]
      BY <2>2, <2>3 DEF incompleteRow
    <3>2. [gated EXCEPT !.value = @ \o progress(found)].status = gated.status
      BY <1>6
    <3>3. QED
      BY <1>6, <2>3, <3>1, <3>2
  <2>4. CASE ~(found.survived > 0)
    <3>1. row = Row(label, "unmeasured", <<0, 0>> \o progress(found))
      BY <2>2, <2>4 DEF incompleteRow
    <3>2. QED
      BY <1>3, <3>1
  <2>5. QED
    BY <2>3, <2>4
<1>9. found.kind \notin {"completed", "incomplete"} => row.value = <<>>
  BY <1>3, <1>4 DEF kindRow
<1> HIDE DEF row, taken, label, scored, gated
<1>10. \A l, s1, v1 : Row(l, s1, v1).status = s1 /\ Row(l, s1, v1).value = v1
  BY <1>3
<1>11. found.kind = "incomplete" => reportedRow(this, i, found).status # "pass"
  BY <1>2, <1>8, <1>10
<1>12. found.kind # "incomplete" => lost = <<>>
  OBVIOUS
<1> HIDE DEF lost
<1>13. found.kind \notin {"completed", "incomplete"} => reportedRow(this, i, found).value = <<>>
  BY <1>2, <1>9, <1>10, <1>12
<1>14. found.kind = "completed" => reportedRow(this, i, found).value \in {<<>>, <<found.killed, denominator(found)>>}
  BY <1>2, <1>5, <1>7, <1>10, <1>12
<1>15. rowIncomplete(reportedRow(this, i, found)) => found.kind = "incomplete"
  <2>1. Len(<<>>) # 4 /\ Len(<<found.killed, denominator(found)>>) # 4
    OBVIOUS
  <2>2. QED
    BY <1>13, <1>14, <2>1 DEF rowIncomplete
<1>16. QED
  BY <1>11, <1>13, <1>15

(***************************************************************************)
(* The directories of jobs of the mutants that were not interrupted: the   *)
(* rows and the counts of each of its own components.                      *)
(***************************************************************************)
Stopped(o) == o.kind = "incomplete" \/ deadlineStopped(o)

OfKind(f, S, kind) == { i \in S : f[i].kind = kind }

MutantDir(dir, t, f, own) ==
    /\ dir = [x \in {"read", "rows", "doc", "incomplete"} |-> dir[x]]
    /\ dir.read /\ dir.doc.state = "read" /\ dir.doc.tree = 0
    /\ dir.doc.complete = counted(f, OfKind(f, own, "completed"))
    /\ dir.doc.incomplete = counted(f, OfKind(f, own, "incomplete"))
    /\ \E s \in {"pass", "unmeasured"} :
          dir.rows = SelectRow(t) \cup {Row(<<"schedule", 0>>, s, <<>>)} \cup { reportedRow(t, i, f[i]) : i \in own }
    /\ dir.incomplete <=> \E i \in own : Stopped(f[i])

MutantDirs(dirs, d, t, f, P) ==
    /\ DOMAIN dirs # {} /\ DOMAIN dirs \subseteq Nat /\ ~t.interrupted
    /\ \A k \in DOMAIN dirs : MutantDir(dirs[k], t, f, P[k])
    /\ \A k, l \in DOMAIN dirs : \A i \in P[k] : i \in P[l] => k = l
    /\ d.suites = UNION { P[k] : k \in DOMAIN dirs }
    /\ IsFiniteSet(d.suites) /\ 0 \notin d.suites
    /\ \A i \in d.suites : f[i] \in ComponentOutcome

\* Their rows: of the run, or of the one component it names.
MutantRow(r, t, f, own) ==
    \/ r.label = <<"schedule", 0>> /\ r.status \in {"pass", "unmeasured"}
    \/ r = Row(<<"select", 0>>, "pass", <<t.seen>>)
    \/ \E i \in own : r = reportedRow(t, i, f[i]) /\ r.label = <<"mutation", i>>

LEMMA MutantDirRows ==
  ASSUME NEW dirs, NEW d, NEW t, NEW f, NEW P, MutantDirs(dirs, d, t, f, P), NEW k \in DOMAIN dirs
  PROVE  /\ \A r \in dirs[k].rows : MutantRow(r, t, f, P[k])
         /\ \A i \in P[k] : reportedRow(t, i, f[i]) \in dirs[k].rows
         /\ P[k] \subseteq d.suites
<1>1. MutantDir(dirs[k], t, f, P[k]) /\ P[k] \subseteq d.suites
  BY DEF MutantDirs
<1>2. PICK s \in {"pass", "unmeasured"} :
        dirs[k].rows = SelectRow(t) \cup {Row(<<"schedule", 0>>, s, <<>>)} \cup { reportedRow(t, i, f[i]) : i \in P[k] }
  BY <1>1 DEF MutantDir
<1>3. \A r \in SelectRow(t) : r = Row(<<"select", 0>>, "pass", <<t.seen>>)
  BY DEF SelectRow
<1>4. Row(<<"schedule", 0>>, s, <<>>).label = <<"schedule", 0>> /\ Row(<<"schedule", 0>>, s, <<>>).status = s
  BY DEF Row
<1>5. \A i : reportedRow(t, i, f[i]).label = <<"mutation", i>>
  BY ReportedLabel
<1>6. QED
  BY <1>1, <1>2, <1>3, <1>4, <1>5 DEF MutantRow

LEMMA MutantRowsFor ==
  ASSUME NEW dirs, NEW d, NEW t, NEW f, NEW P, MutantDirs(dirs, d, t, f, P), NEW i
  PROVE  /\ i \in d.suites => /\ labelled(dirs, <<"mutation", i>>) = {reportedRow(t, i, f[i])}
                              /\ \E k \in DOMAIN dirs : rowsFor(dirs, <<"mutation", i>>) = {k} \X {reportedRow(t, i, f[i])}
         /\ i \notin d.suites => rowsFor(dirs, <<"mutation", i>>) = {}
<1> DEFINE row == reportedRow(t, i, f[i])
           found == rowsFor(dirs, <<"mutation", i>>)
<1>1. ASSUME NEW k \in DOMAIN dirs, NEW r \in dirs[k].rows, r.label = <<"mutation", i>>
      PROVE  i \in P[k] /\ i \in d.suites /\ r = row
  <2>1. r.label # <<"schedule", 0>> /\ r # Row(<<"select", 0>>, "pass", <<t.seen>>)
    BY <1>1 DEF Row
  <2>7. MutantRow(r, t, f, P[k])
    BY MutantDirRows
  <2>2. \E m \in P[k] : r = reportedRow(t, m, f[m]) /\ r.label = <<"mutation", m>>
    BY <2>1, <2>7 DEF MutantRow
  <2>3. PICK m \in P[k] : r = reportedRow(t, m, f[m]) /\ r.label = <<"mutation", m>>
    BY <2>2
  <2>4. m = i
    BY <1>1, <2>3
  <2>5. P[k] \subseteq d.suites
    BY MutantDirRows
  <2>6. QED
    BY <2>3, <2>4, <2>5
<1>2. /\ \A k \in DOMAIN dirs : \A r \in dirs[k].rows : r.label = <<"mutation", i>> => <<k, r>> \in found
      /\ \A e \in found : \E k \in DOMAIN dirs : \E r \in dirs[k].rows : r.label = <<"mutation", i>> /\ e = <<k, r>>
      /\ \A r : r \in labelled(dirs, <<"mutation", i>>) <=> r.label = <<"mutation", i>> /\ \E k \in DOMAIN dirs : r \in dirs[k].rows
  BY RowsForIs
<1>3. row.label = <<"mutation", i>>
  BY ReportedLabel
<1>4. \A k \in DOMAIN dirs : i \in P[k] => row \in dirs[k].rows
  BY MutantDirRows
<1> HIDE DEF row, found
<1>5. ASSUME i \in d.suites
      PROVE  labelled(dirs, <<"mutation", i>>) = {row} /\ \E k \in DOMAIN dirs : found = {k} \X {row}
  <2>1. PICK k \in DOMAIN dirs : i \in P[k]
    BY <1>5 DEF MutantDirs
  <2>2. \A l \in DOMAIN dirs : i \in P[l] => l = k
    BY <2>1 DEF MutantDirs
  <2>3. labelled(dirs, <<"mutation", i>>) = {row}
    BY <1>1, <1>2, <1>3, <1>4, <2>1
  <2>4. <<k, row>> \in found
    BY <1>2, <1>3, <1>4, <2>1
  <2>5. ASSUME NEW e \in found
        PROVE  e = <<k, row>>
    <3>1. PICK l \in DOMAIN dirs : \E r \in dirs[l].rows : r.label = <<"mutation", i>> /\ e = <<l, r>>
      BY <1>2
    <3>2. PICK r \in dirs[l].rows : r.label = <<"mutation", i>> /\ e = <<l, r>>
      BY <3>1
    <3>3. l = k /\ r = row
      BY <1>1, <2>2, <3>2
    <3>4. QED
      BY <3>2, <3>3
  <2>6. found = {<<k, row>>}
    BY <2>4, <2>5
  <2>7. {<<k, row>>} = {k} \X {row}
    OBVIOUS
  <2>8. QED
    BY <2>3, <2>6, <2>7
<1>6. ASSUME i \notin d.suites
      PROVE  found = {}
  BY <1>1, <1>2, <1>6
<1>7. QED
  BY <1>5, <1>6 DEF row, found

(***************************************************************************)
(* Their counts fold into those of every component, each of the one        *)
(* document that has it.                                                   *)
(***************************************************************************)
KeyOf(dirs, key, i) == { k \in DOMAIN dirs : i \in DOMAIN dirs[k].doc[key] }

LEMMA KeyFolded ==
  ASSUME NEW dirs, NEW d, NEW t, NEW f, NEW P, MutantDirs(dirs, d, t, f, P), NEW key, NEW kind,
         \A k \in DOMAIN dirs : dirs[k].doc[key] = counted(f, OfKind(f, P[k], kind))
  PROVE  /\ UNION { DOMAIN dirs[k].doc[key] : k \in DOMAIN dirs } = OfKind(f, d.suites, kind)
         /\ \A i \in OfKind(f, d.suites, kind) : dirs[Min(KeyOf(dirs, key, i))].doc[key][i] = f[i]
<1>1. \A k \in DOMAIN dirs : /\ DOMAIN dirs[k].doc[key] = OfKind(f, P[k], kind)
                             /\ \A i \in OfKind(f, P[k], kind) : dirs[k].doc[key][i] = f[i]
  <2>1. ASSUME NEW k \in DOMAIN dirs
        PROVE  /\ DOMAIN dirs[k].doc[key] = OfKind(f, P[k], kind)
               /\ \A i \in OfKind(f, P[k], kind) : dirs[k].doc[key][i] = f[i]
    <3>1. PICK c, S : c = dirs[k].doc[key] /\ S = OfKind(f, P[k], kind)
      OBVIOUS
    <3>2. c = [i \in S |-> f[i]]
      BY <3>1 DEF counted
    <3>3. DOMAIN c = S /\ \A i \in S : c[i] = f[i]
      BY ONLY <3>2
    <3>4. QED
      BY ONLY <3>1, <3>3
  <2>2. QED
    BY <2>1
<1>2. d.suites = UNION { P[k] : k \in DOMAIN dirs } /\ DOMAIN dirs \subseteq Nat
      /\ \A k, l \in DOMAIN dirs : \A i \in P[k] : i \in P[l] => k = l
  BY DEF MutantDirs
<1>3. UNION { DOMAIN dirs[k].doc[key] : k \in DOMAIN dirs } = OfKind(f, d.suites, kind)
  <2>1. UNION { DOMAIN dirs[k].doc[key] : k \in DOMAIN dirs } = UNION { OfKind(f, P[k], kind) : k \in DOMAIN dirs }
    BY <1>1
  <2>2. QED
    BY <1>2, <2>1 DEF OfKind
<1>4. ASSUME NEW i \in OfKind(f, d.suites, kind)
      PROVE  dirs[Min(KeyOf(dirs, key, i))].doc[key][i] = f[i]
  <2>1. PICK k \in DOMAIN dirs : i \in P[k]
    BY <1>2 DEF OfKind
  <2>2. i \in OfKind(f, P[k], kind)
    BY <2>1 DEF OfKind
  <2>3. KeyOf(dirs, key, i) = {k}
    BY <1>1, <1>2, <2>1, <2>2 DEF KeyOf, OfKind
  <2>4. \A x \in Nat : Min({x}) = x
    BY DEF Min
  <2>5. Min(KeyOf(dirs, key, i)) = k
    BY <1>2, <2>3, <2>4
  <2>6. QED
    BY <1>1, <2>2, <2>5
<1>5. QED
  BY <1>3, <1>4

LEMMA MutantCounts ==
  ASSUME NEW dirs, NEW d, NEW t, NEW f, NEW P, MutantDirs(dirs, d, t, f, P)
  PROVE  /\ oneTree(dirs)
         /\ FoldCounts(dirs).complete = counted(f, OfKind(f, d.suites, "completed"))
         /\ FoldCounts(dirs).incomplete = counted(f, OfKind(f, d.suites, "incomplete"))
<1> DEFINE first(i, key) == Min({ k \in documents(dirs) : i \in DOMAIN dirs[k].doc[key] })
           named(key) == UNION { DOMAIN dirs[k].doc[key] : k \in documents(dirs) }
           foldedOf(S, key) == [i \in S |-> dirs[first(i, key)].doc[key][i]]
           C == OfKind(f, d.suites, "completed")
           I == OfKind(f, d.suites, "incomplete")
<1>1. \A k \in DOMAIN dirs : /\ dirs[k].read /\ dirs[k].doc.state = "read" /\ dirs[k].doc.tree = 0
                             /\ dirs[k].doc.complete = counted(f, OfKind(f, P[k], "completed"))
                             /\ dirs[k].doc.incomplete = counted(f, OfKind(f, P[k], "incomplete"))
  BY DEF MutantDirs, MutantDir
<1>2. documents(dirs) = DOMAIN dirs
  BY <1>1 DEF documents
<1>3. oneTree(dirs)
  BY <1>1, <1>2 DEF oneTree
<1>4. \A i, key : first(i, key) = Min(KeyOf(dirs, key, i))
  BY <1>2 DEF KeyOf
<1>5. named("complete") = C /\ \A i \in C : dirs[first(i, "complete")].doc["complete"][i] = f[i]
  <2>1. PICK key : key = "complete"
    OBVIOUS
  <2>2. \A k \in DOMAIN dirs : dirs[k].doc[key] = counted(f, OfKind(f, P[k], "completed"))
    BY <1>1, <2>1
  <2>3. /\ UNION { DOMAIN dirs[k].doc[key] : k \in DOMAIN dirs } = C
        /\ \A i \in C : dirs[Min(KeyOf(dirs, key, i))].doc[key][i] = f[i]
    BY <2>2, KeyFolded
  <2> HIDE DEF first, C
  <2>4. QED
    BY <1>2, <1>4, <2>1, <2>3
<1>6. named("incomplete") = I /\ \A i \in I : dirs[first(i, "incomplete")].doc["incomplete"][i] = f[i]
  <2>1. PICK key : key = "incomplete"
    OBVIOUS
  <2>2. \A k \in DOMAIN dirs : dirs[k].doc[key] = counted(f, OfKind(f, P[k], "incomplete"))
    BY <1>1, <2>1
  <2>3. /\ UNION { DOMAIN dirs[k].doc[key] : k \in DOMAIN dirs } = I
        /\ \A i \in I : dirs[Min(KeyOf(dirs, key, i))].doc[key][i] = f[i]
    BY <2>2, KeyFolded
  <2> HIDE DEF first, I
  <2>4. QED
    BY <1>2, <1>4, <2>1, <2>3
<1>7. C \ I = C
  BY DEF OfKind
<1>8. FoldCounts(dirs) = [NoCounts EXCEPT !.complete = foldedOf(named("complete") \ named("incomplete"), "complete"),
                                          !.incomplete = foldedOf(named("incomplete"), "incomplete")]
  BY <1>3 DEF FoldCounts
<1> HIDE DEF first, named, C, I
<1>9. foldedOf(named("complete") \ named("incomplete"), "complete") = counted(f, C)
  BY <1>5, <1>6, <1>7 DEF counted
<1>10. foldedOf(named("incomplete"), "incomplete") = counted(f, I)
  BY <1>6 DEF counted
<1> HIDE DEF foldedOf
<1>11. FoldCounts(dirs) = [NoCounts EXCEPT !.complete = counted(f, C), !.incomplete = counted(f, I)]
  BY <1>8, <1>9, <1>10
<1>12. FoldCounts(dirs).complete = counted(f, C) /\ FoldCounts(dirs).incomplete = counted(f, I)
  BY <1>11 DEF NoCounts
<1>13. QED
  BY <1>3, <1>12 DEF C, I

(***************************************************************************)
(* The fold's score is of the components whose mutants all ran, and no row *)
(* adds to it: every verdict has its counts.                               *)
(***************************************************************************)
LEMMA NothingStated ==
  ASSUME NEW dirs, NEW d, NEW t, NEW f, NEW P, MutantDirs(dirs, d, t, f, P), NEW counts,
         DOMAIN counts.complete = OfKind(f, d.suites, "completed"), DOMAIN counts.incomplete = OfKind(f, d.suites, "incomplete"),
         NEW e \in stated(dirs, counts, d)
  PROVE  e[2].value = <<>>
<1>1. PICK i \in Components(d) \ (DOMAIN counts.complete \cup DOMAIN counts.incomplete) : e \in rowsFor(dirs, <<"mutation", i>>)
  BY DEF stated
<1>2. i \in d.suites
  BY <1>1, MutantRowsFor
<1>3. \E k \in DOMAIN dirs : rowsFor(dirs, <<"mutation", i>>) = {k} \X {reportedRow(t, i, f[i])}
  BY <1>2, MutantRowsFor
<1>4. PICK k \in DOMAIN dirs : rowsFor(dirs, <<"mutation", i>>) = {k} \X {reportedRow(t, i, f[i])}
  BY <1>3
<1>5. PICK row : row = reportedRow(t, i, f[i])
  OBVIOUS
<1>6. e[2] = row
  BY <1>1, <1>4, <1>5
<1>7. f[i].kind \notin {"completed", "incomplete"}
  BY <1>1, <1>2 DEF OfKind
<1>8. f[i] \in ComponentOutcome /\ ~t.interrupted
  BY <1>2 DEF MutantDirs
<1>9. reportedRow(t, i, f[i]).value = <<>>
  <2>1. PICK o : o = f[i]
    OBVIOUS
  <2>2. o \in ComponentOutcome /\ ~t.interrupted /\ o.kind \notin {"completed", "incomplete"}
    BY <1>7, <1>8, <2>1
  <2>3. reportedRow(t, i, o).value = <<>>
    BY <2>2, StoppedRow
  <2>4. QED
    BY <2>1, <2>3
<1>10. QED
  BY <1>5, <1>6, <1>9

LEMMA SumsOfNone ==
  /\ MapThenSumSet(LAMBDA found : found[2].value[1], {}) = 0
  /\ MapThenSumSet(LAMBDA found : found[2].value[2], {}) = 0
<1>1. MapThenSumSet(LAMBDA found : found[2].value[1], {}) = 0
  <2> DEFINE is(g) == g = [s \in SUBSET {} |-> IF s = {} THEN 0 ELSE Chosen(s)[2].value[1] + g[s \ {Chosen(s)}]]
  <2>1. MapThenSumSet(LAMBDA found : found[2].value[1], {}) = (CHOOSE g : is(g))[{}]
    BY SMT DEF MapThenSumSet, MapThenFoldSet, Chosen
  <2>2. is([s \in SUBSET {} |-> 0])
    OBVIOUS
  <2> HIDE DEF is
  <2>3. is(CHOOSE g : is(g))
    BY <2>2
  <2>4. PICK g : g = (CHOOSE x : is(x))
    OBVIOUS
  <2>5. g = [s \in SUBSET {} |-> IF s = {} THEN 0 ELSE Chosen(s)[2].value[1] + g[s \ {Chosen(s)}]]
    BY <2>3, <2>4 DEF is
  <2>6. g[{}] = 0
    BY <2>5
  <2>7. QED
    BY <2>1, <2>4, <2>6
<1>2. MapThenSumSet(LAMBDA found : found[2].value[2], {}) = 0
  <2> DEFINE is(g) == g = [s \in SUBSET {} |-> IF s = {} THEN 0 ELSE Chosen(s)[2].value[2] + g[s \ {Chosen(s)}]]
  <2>1. MapThenSumSet(LAMBDA found : found[2].value[2], {}) = (CHOOSE g : is(g))[{}]
    BY SMT DEF MapThenSumSet, MapThenFoldSet, Chosen
  <2>2. is([s \in SUBSET {} |-> 0])
    OBVIOUS
  <2> HIDE DEF is
  <2>3. is(CHOOSE g : is(g))
    BY <2>2
  <2>4. PICK g : g = (CHOOSE x : is(x))
    OBVIOUS
  <2>5. g = [s \in SUBSET {} |-> IF s = {} THEN 0 ELSE Chosen(s)[2].value[2] + g[s \ {Chosen(s)}]]
    BY <2>3, <2>4 DEF is
  <2>6. g[{}] = 0
    BY <2>5
  <2>7. QED
    BY <2>1, <2>4, <2>6
<1>3. QED
  BY <1>1, <1>2

LEMMA MutantSummary ==
  ASSUME NEW dirs, NEW d, NEW t, NEW f, NEW P, MutantDirs(dirs, d, t, f, P)
  PROVE  \E a, b \in Nat :
            /\ sumOf(counted(f, OfKind(f, d.suites, "completed"))) = <<a, b>>
            /\ foldedMutationRow(dirs, FoldCounts(dirs), d) =
                  Row(<<"mutation", 0>>, "context", <<a, b, Cardinality(OfKind(f, d.suites, "completed")),
                                                      Cardinality(OfKind(f, d.suites, "incomplete"))>>)
<1> DEFINE C == OfKind(f, d.suites, "completed")
           I == OfKind(f, d.suites, "incomplete")
           whole == counted(f, C)
           part == counted(f, I)
<1>1. PICK counts : counts = FoldCounts(dirs)
  OBVIOUS
<1>2. counts.complete = whole /\ counts.incomplete = part
  BY <1>1, MutantCounts
<1>3. /\ DOMAIN whole = C /\ DOMAIN part = I /\ \A i \in C : whole[i] = f[i]
  BY DEF counted
<1>4. IsFiniteSet(C) /\ IsFiniteSet(I)
  <2>1. IsFiniteSet(d.suites) /\ C \subseteq d.suites /\ I \subseteq d.suites
    BY DEF OfKind, MutantDirs
  <2> HIDE DEF C, I
  <2>2. QED
    BY <2>1, FS_Subset
<1>5. PICK a \in Nat, b \in Nat : sumOf(whole) = <<a, b>>
  <2>1. \A i \in C : f[i].killed \in Nat /\ f[i].survived \in Nat
    BY DEF OfKind, MutantDirs, ComponentOutcome
  <2>2. PICK c : c = whole
    OBVIOUS
  <2>3. IsFiniteSet(DOMAIN c) /\ \A i \in DOMAIN c : c[i].killed \in Nat /\ c[i].survived \in Nat
    BY <1>3, <1>4, <2>1, <2>2
  <2>4. \E x, y \in Nat : sumOf(c) = <<x, y>>
    BY <2>3, SumOfCounts
  <2>5. QED
    BY <2>2, <2>4
<1> DEFINE prose == stated(dirs, counts, d)
           cut == { found \in prose : rowIncomplete(found[2]) }
           scored == { found \in prose \ cut : found[2].value # <<>> }
           one(S) == MapThenSumSet(LAMBDA found : found[2].value[1], S)
           two(S) == MapThenSumSet(LAMBDA found : found[2].value[2], S)
<1>6. \A e \in prose : e[2].value = <<>>
  <2>1. DOMAIN counts.complete = C /\ DOMAIN counts.incomplete = I
    BY <1>2, <1>3
  <2>2. QED
    BY <2>1, NothingStated
<1>7. cut = {} /\ scored = {}
  <2>1. Len(<<>>) # 4
    OBVIOUS
  <2> HIDE DEF prose
  <2>2. QED
    BY <1>6, <2>1 DEF rowIncomplete
<1>8. foldedMutationRow(dirs, counts, d) =
        Row(<<"mutation", 0>>, "context",
            <<sumOf(counts.complete)[1] + one(scored), sumOf(counts.complete)[2] + two(scored),
              Cardinality(DOMAIN counts.complete) + Cardinality(scored),
              Cardinality(DOMAIN counts.incomplete) + Cardinality(cut)>>)
  BY DEF foldedMutationRow
<1> HIDE DEF cut, scored, one, two
<1>9. one(scored) = 0 /\ two(scored) = 0
  BY <1>7, SumsOfNone DEF one, two
<1>10. Cardinality(scored) = 0 /\ Cardinality(cut) = 0
  BY <1>7, FS_EmptySet
<1>11. Cardinality(C) \in Nat /\ Cardinality(I) \in Nat
  BY <1>4, FS_CardinalityType
<1>12. sumOf(counts.complete)[1] = a /\ sumOf(counts.complete)[2] = b
  BY <1>2, <1>5
<1>13. DOMAIN counts.complete = C /\ DOMAIN counts.incomplete = I
  BY <1>2, <1>3
<1> HIDE DEF C, I, whole
<1>14. foldedMutationRow(dirs, counts, d) = Row(<<"mutation", 0>>, "context", <<a, b, Cardinality(C), Cardinality(I)>>)
  BY <1>8, <1>9, <1>10, <1>11, <1>12, <1>13
<1>15. QED
  BY <1>1, <1>5, <1>14 DEF C, I, whole

(***************************************************************************)
(* The fold is incomplete when a component was stopped, wherever the job   *)
(* that stopped it says so.                                                *)
(***************************************************************************)
LEMMA MutantIncomplete ==
  ASSUME NEW dirs, NEW d, NEW t, NEW f, NEW P, MutantDirs(dirs, d, t, f, P), \A k \in DOMAIN dirs : ~Failing(dirs[k].rows)
  PROVE  foldIncomplete(dirs, FoldCounts(dirs), d) <=> \E i \in d.suites : Stopped(f[i])
<1>1. PICK counts : counts = FoldCounts(dirs)
  OBVIOUS
<1>2. DOMAIN counts.incomplete = OfKind(f, d.suites, "incomplete")
  <2>1. counts.incomplete = counted(f, OfKind(f, d.suites, "incomplete"))
    BY <1>1, MutantCounts
  <2>2. \A S : DOMAIN counted(f, S) = S
    BY DEF counted
  <2>3. QED
    BY <2>1, <2>2
<1>3. \A k \in DOMAIN dirs : dirs[k].read /\ (dirs[k].incomplete <=> \E i \in P[k] : Stopped(f[i]))
  BY DEF MutantDirs, MutantDir
<1>4. d.suites = UNION { P[k] : k \in DOMAIN dirs }
  BY DEF MutantDirs
<1>5. ASSUME NEW i \in Components(d), NEW e \in rowsFor(dirs, <<"mutation", i>>), rowIncomplete(e[2])
      PROVE  i \in d.suites /\ Stopped(f[i])
  <2>1. i \in d.suites
    BY MutantRowsFor
  <2>2. \E k \in DOMAIN dirs : rowsFor(dirs, <<"mutation", i>>) = {k} \X {reportedRow(t, i, f[i])}
    BY <2>1, MutantRowsFor
  <2>3. PICK k \in DOMAIN dirs : rowsFor(dirs, <<"mutation", i>>) = {k} \X {reportedRow(t, i, f[i])}
    BY <2>2
  <2>4. PICK row, o : row = reportedRow(t, i, o) /\ o = f[i]
    OBVIOUS
  <2>5. e[2] = row
    BY <2>3, <2>4
  <2>6. o \in ComponentOutcome /\ ~t.interrupted
    BY <2>1, <2>4 DEF MutantDirs
  <2>7. rowIncomplete(reportedRow(t, i, o))
    BY <1>5, <2>4, <2>5
  <2>8. o.kind = "incomplete"
    BY <2>6, <2>7, StoppedRow
  <2>9. QED
    BY <2>1, <2>4, <2>8 DEF Stopped
<1>6. ASSUME foldIncomplete(dirs, counts, d)
      PROVE  \E i \in d.suites : Stopped(f[i])
  <2>1. CASE DOMAIN counts.incomplete # {}
    BY <1>2, <2>1 DEF OfKind, Stopped
  <2>2. CASE \E k \in DOMAIN dirs : dirs[k].incomplete
    BY <1>3, <1>4, <2>2
  <2>3. CASE \E i \in Components(d) : \E e \in rowsFor(dirs, <<"mutation", i>>) : rowIncomplete(e[2])
    BY <1>5, <2>3
  <2>4. QED
    BY <1>6, <2>1, <2>2, <2>3 DEF foldIncomplete
<1>7. ASSUME NEW i \in d.suites, Stopped(f[i])
      PROVE  foldIncomplete(dirs, counts, d)
  <2>1. PICK k \in DOMAIN dirs : i \in P[k]
    BY <1>4
  <2>2. dirs[k].incomplete /\ dirs[k].read /\ ~Failing(dirs[k].rows)
    BY <1>3, <1>7, <2>1
  <2>3. QED
    BY <2>2 DEF foldIncomplete
<1>8. QED
  BY <1>1, <1>6, <1>7

\* Every row of a component that was stopped part way stands as it is.
LEMMA MutantGiven ==
  ASSUME NEW dirs, NEW d, NEW t, NEW f, NEW P, MutantDirs(dirs, d, t, f, P), NEW label
  PROVE  rowsFor(neverPassingIncomplete(dirs, FoldCounts(dirs)), label) = rowsFor(dirs, label)
<1>1. PICK counts : counts = FoldCounts(dirs)
  OBVIOUS
<1>2. DOMAIN counts.incomplete = OfKind(f, d.suites, "incomplete")
  <2>1. counts.incomplete = counted(f, OfKind(f, d.suites, "incomplete"))
    BY <1>1, MutantCounts
  <2>2. \A S : DOMAIN counted(f, S) = S
    BY DEF counted
  <2>3. QED
    BY <2>1, <2>2
<1> DEFINE anew == neverPassingIncomplete(dirs, counts)
           again(k) == { neverPassing(r, counts) : r \in dirs[k].rows }
<1>3. ASSUME NEW k \in DOMAIN dirs, NEW r \in dirs[k].rows
      PROVE  neverPassing(r, counts) = r
  <2>1. SUFFICES ASSUME r.status = "pass", r.label[1] = "mutation", r.label[2] \in DOMAIN counts.incomplete PROVE FALSE
    BY DEF neverPassing
  <2>2. MutantRow(r, t, f, P[k])
    BY MutantDirRows
  <2>3. r.label # <<"schedule", 0>> /\ r # Row(<<"select", 0>>, "pass", <<t.seen>>)
    BY <2>1 DEF Row
  <2>4. \E i \in P[k] : r = reportedRow(t, i, f[i]) /\ r.label = <<"mutation", i>>
    BY <2>2, <2>3 DEF MutantRow
  <2>5. PICK i \in P[k] : r = reportedRow(t, i, f[i]) /\ r.label = <<"mutation", i>>
    BY <2>4
  <2>6. i \in OfKind(f, d.suites, "incomplete")
    BY <1>2, <2>1, <2>5
  <2>7. PICK o : o = f[i]
    OBVIOUS
  <2>8. o \in ComponentOutcome /\ ~t.interrupted /\ o.kind = "incomplete"
    BY <2>6, <2>7 DEF MutantDirs, OfKind
  <2>9. reportedRow(t, i, o).status # "pass"
    BY <2>8, StoppedRow
  <2>10. QED
    BY <2>1, <2>5, <2>7, <2>9
<1>4. \A k \in DOMAIN dirs : again(k) = dirs[k].rows
  BY <1>3
<1>5. DOMAIN anew = DOMAIN dirs /\ \A k \in DOMAIN dirs : anew[k].rows = dirs[k].rows
  <2>1. anew = [k \in DOMAIN dirs |-> [dirs[k] EXCEPT !.rows = again(k)]]
    BY DEF neverPassingIncomplete
  <2> HIDE DEF anew, again
  <2>2. ASSUME NEW k \in DOMAIN dirs
        PROVE  anew[k].rows = dirs[k].rows
    <3>1. anew[k] = [dirs[k] EXCEPT !.rows = again(k)]
      BY <2>1
    <3>2. PICK dir : dir = dirs[k]
      OBVIOUS
    <3>3. dir = [x \in {"read", "rows", "doc", "incomplete"} |-> dir[x]]
      <4>1. MutantDir(dir, t, f, P[k])
        BY <3>2 DEF MutantDirs
      <4>2. QED
        BY <4>1 DEF MutantDir
    <3>4. [dir EXCEPT !.rows = again(k)].rows = again(k)
      BY <3>3
    <3>5. QED
      BY <1>4, <3>1, <3>2, <3>4
  <2>3. QED
    BY <2>1, <2>2
<1> HIDE DEF anew
<1>6. rowsFor(anew, label) = rowsFor(dirs, label)
  BY <1>5 DEF rowsFor
<1>7. QED
  BY <1>1, <1>6 DEF anew

MutantCore(t, d, f) == { reportedRow(t, i, f[i]) : i \in d.suites } \cup noSuiteRows({"mutation"}, d.noSuite)

\* Every component with a suite has its one row in the fold.
LEMMA MutantCarried ==
  ASSUME NEW dirs, NEW d, NEW t, NEW f, NEW P, MutantDirs(dirs, d, t, f, P), NEW anew,
         anew = neverPassingIncomplete(dirs, FoldCounts(dirs))
  PROVE  /\ uncovered(anew, mutationLabels(d)) = {}
         /\ componentRows(anew, mutationLabels(d)) = { reportedRow(t, i, f[i]) : i \in d.suites }
<1> DEFINE row(i) == reportedRow(t, i, f[i])
<1>1. \A label : rowsFor(anew, label) = rowsFor(dirs, label)
  BY MutantGiven
<1>2. \A i \in d.suites : Cardinality(rowsFor(anew, <<"mutation", i>>)) = 1 /\ labelled(anew, <<"mutation", i>>) = {row(i)}
  <2>1. ASSUME NEW i \in d.suites
        PROVE  Cardinality(rowsFor(anew, <<"mutation", i>>)) = 1 /\ labelled(anew, <<"mutation", i>>) = {row(i)}
    <3>1. /\ labelled(dirs, <<"mutation", i>>) = {row(i)}
          /\ \E k \in DOMAIN dirs : rowsFor(dirs, <<"mutation", i>>) = {k} \X {row(i)}
      BY MutantRowsFor
    <3> HIDE DEF row
    <3>2. PICK k \in DOMAIN dirs : rowsFor(dirs, <<"mutation", i>>) = {k} \X {row(i)}
      BY <3>1
    <3>3. labelled(anew, <<"mutation", i>>) = labelled(dirs, <<"mutation", i>>)
      BY <1>1 DEF labelled
    <3>4. PICK x : x = row(i)
      OBVIOUS
    <3>5. rowsFor(anew, <<"mutation", i>>) = {k} \X {x}
      BY <1>1, <3>2, <3>4
    <3>6. Cardinality({k} \X {x}) = 1
      BY OnePair
    <3>7. QED
      BY <3>1, <3>3, <3>5, <3>6
  <2>2. QED
    BY <2>1
<1>3. \A label \in mutationLabels(d) : \E i \in d.suites : label = <<"mutation", i>>
  BY DEF mutationLabels
<1>4. \A i \in d.suites : <<"mutation", i>> \in mutationLabels(d)
  BY DEF mutationLabels
<1>5. carriedOnce(anew, mutationLabels(d)) = mutationLabels(d)
  BY <1>2, <1>3 DEF carriedOnce
<1>6. uncovered(anew, mutationLabels(d)) = {}
  BY <1>5 DEF uncovered
<1> HIDE DEF row
<1>7. componentRows(anew, mutationLabels(d)) = { row(i) : i \in d.suites }
  <2>1. componentRows(anew, mutationLabels(d)) = UNION { labelled(anew, label) : label \in mutationLabels(d) }
    BY <1>5 DEF componentRows
  <2>2. ASSUME NEW r \in componentRows(anew, mutationLabels(d))
        PROVE  r \in { row(i) : i \in d.suites }
    <3>1. PICK label \in mutationLabels(d) : r \in labelled(anew, label)
      BY <2>1
    <3>2. PICK i \in d.suites : label = <<"mutation", i>>
      BY <1>3
    <3>3. r = row(i)
      BY <1>2, <3>1, <3>2
    <3>4. QED
      BY <3>3
  <2>3. ASSUME NEW i \in d.suites
        PROVE  row(i) \in componentRows(anew, mutationLabels(d))
    <3>1. row(i) \in labelled(anew, <<"mutation", i>>) /\ <<"mutation", i>> \in mutationLabels(d)
      BY <1>2, <1>4
    <3>2. QED
      BY <2>1, <3>1
  <2>4. QED
    BY <2>2, <2>3
<1>8. QED
  BY <1>6, <1>7 DEF row

LEMMA MutantQuiet ==
  ASSUME NEW dirs, NEW d, NEW t, NEW f, NEW P, MutantDirs(dirs, d, t, f, P)
  PROVE  /\ OfTheRun({ readRow(k, dirs[k]) : k \in DOMAIN dirs } \cup foldedWholeTree(dirs, mutationWholeTreeRows) \cup
                     foldedScheduleRow(dirs))
         /\ disagreements(dirs, mutationWholeTreeRows) = {}
         /\ carryUnhandled(dirs, foldedMutationLabel(d)) = {}
<1> DEFINE select == Row(<<"select", 0>>, "pass", <<t.seen>>)
<1>1. \A label : \A r : r \in labelled(dirs, label) <=> r.label = label /\ \E k \in DOMAIN dirs : r \in dirs[k].rows
  BY RowsForIs
<1>2. select.label = <<"select", 0>> /\ select.status = "pass"
  BY DEF Row
<1>3. \A k \in DOMAIN dirs : \A r \in dirs[k].rows : MutantRow(r, t, f, P[k]) /\ P[k] \subseteq d.suites
  BY MutantDirRows
<1> HIDE DEF select
<1>4. \A k \in DOMAIN dirs : \A r \in dirs[k].rows :
         \/ r.label = <<"schedule", 0>> /\ r.status # "fail"
         \/ r = select
         \/ \E i \in d.suites : r.label = <<"mutation", i>>
  BY <1>3 DEF MutantRow, select
<1>5. \A r \in labelled(dirs, <<"select", 0>>) : r = select
  BY <1>1, <1>4
<1>6. disagreements(dirs, mutationWholeTreeRows) = {}
  <2>1. labelled(dirs, <<"select", 0>>) = {} \/ labelled(dirs, <<"select", 0>>) = {select}
    BY <1>5
  <2>2. Cardinality(labelled(dirs, <<"select", 0>>)) \in {0, 1}
    BY <2>1, FS_EmptySet, FS_Singleton
  <2>3. agreed(dirs, <<"select", 0>>)
    BY <2>2 DEF agreed
  <2>4. QED
    BY <2>3 DEF disagreements, mutationWholeTreeRows
<1>7. ASSUME NEW k \in DOMAIN dirs
      PROVE  readRow(k, dirs[k]).label[1] \notin gates /\ readRow(k, dirs[k]).status # "fail"
  <2>1. dirs[k].read /\ dirs[k].doc.state = "read"
    BY DEF MutantDirs, MutantDir
  <2>2. readRow(k, dirs[k]) = Row(<<"read", k>>, "context", <<>>)
    BY <2>1 DEF readRow
  <2>3. QED
    BY <2>2 DEF Row, gates
<1>8. ASSUME NEW r \in foldedWholeTree(dirs, mutationWholeTreeRows)
      PROVE  r.label[1] \notin gates /\ r.status # "fail"
  <2>1. r = select
    BY <1>5 DEF foldedWholeTree, mutationWholeTreeRows
  <2>2. QED
    BY <1>2, <2>1 DEF gates
<1>9. ASSUME NEW r \in foldedScheduleRow(dirs)
      PROVE  r.label[1] \notin gates /\ r.status # "fail"
  <2>1. ASSUME NEW q \in labelled(dirs, <<"schedule", 0>>)
        PROVE  q.status # "fail"
    <3>1. q.label = <<"schedule", 0>> /\ \E k \in DOMAIN dirs : q \in dirs[k].rows
      BY <1>1
    <3>2. QED
      BY <1>2, <1>4, <3>1
  <2>2. r = Row(<<"schedule", 0>>, "pass", <<>>)
    BY <2>1 DEF foldedScheduleRow, Failing
  <2>3. QED
    BY <2>2 DEF Row, gates
<1>10. carryUnhandled(dirs, foldedMutationLabel(d)) = {}
  <2>1. ASSUME NEW k \in DOMAIN dirs, NEW r \in dirs[k].rows
        PROVE  r.label \in foldedMutationLabel(d)
    <3>1. r.label = <<"schedule", 0>> \/ r.label = <<"select", 0>> \/ \E i \in d.suites : r.label = <<"mutation", i>>
      BY <1>2, <1>4
    <3>2. QED
      BY <3>1 DEF foldedMutationLabel, mutationWholeTreeRows, Components
  <2>2. QED
    BY <2>1 DEF carryUnhandled
<1>11. QED
  BY <1>6, <1>7, <1>8, <1>9, <1>10 DEF OfTheRun

LEMMA MutantMerged ==
  ASSUME NEW dirs, NEW d, NEW t, NEW f, NEW P, MutantDirs(dirs, d, t, f, P)
  PROVE  /\ \E q : /\ OfTheRun(q)
                   /\ MergedMutation(dirs, d).rows = MutantCore(t, d, f) \cup {foldedMutationRow(dirs, FoldCounts(dirs), d)} \cup q
         /\ ~Failing(MergedMutation(dirs, d).rows) =>
               (MergedMutation(dirs, d).incomplete <=> \E i \in d.suites : Stopped(f[i]))
<1> DEFINE counts == FoldCounts(dirs)
           anew == neverPassingIncomplete(dirs, counts)
           quiet == { readRow(k, dirs[k]) : k \in DOMAIN dirs } \cup foldedWholeTree(dirs, mutationWholeTreeRows) \cup
                    foldedScheduleRow(dirs)
           answered == componentRows(anew, mutationLabels(d))
           without == noSuiteRows({"mutation"}, d.noSuite)
           summary == foldedMutationRow(dirs, counts, d)
           carriedOn == carryUnhandled(dirs, foldedMutationLabel(d))
           rows == quiet \cup answered \cup without \cup {summary} \cup carriedOn
           problems == \/ disagreements(dirs, mutationWholeTreeRows) # {}
                       \/ uncovered(anew, mutationLabels(d)) # {}
                       \/ ~oneTree(dirs)
                       \/ uncarriedVerdicts(rows, dirs) # {}
           all == rows \cup {shardsRow(problems)}
           left1 == foldIncomplete(dirs, counts, d)
<1>1. MergedMutation(dirs, d) = [rows |-> all, incomplete |-> left1]
  BY DEF MergedMutation
<1>2. OfTheRun(quiet) /\ disagreements(dirs, mutationWholeTreeRows) = {} /\ carriedOn = {}
  BY MutantQuiet
<1>3. uncovered(anew, mutationLabels(d)) = {} /\ answered = { reportedRow(t, i, f[i]) : i \in d.suites }
  <2>1. PICK given1 : given1 = neverPassingIncomplete(dirs, FoldCounts(dirs))
    OBVIOUS
  <2>2. /\ uncovered(given1, mutationLabels(d)) = {}
        /\ componentRows(given1, mutationLabels(d)) = { reportedRow(t, i, f[i]) : i \in d.suites }
    BY <2>1, MutantCarried
  <2>3. QED
    BY <2>1, <2>2
<1>4. oneTree(dirs)
  BY MutantCounts
<1>5. rows = MutantCore(t, d, f) \cup {summary} \cup quiet
  <2>1. MutantCore(t, d, f) = answered \cup without
    BY <1>3 DEF MutantCore
  <2> HIDE DEF quiet, answered, without, summary, carriedOn
  <2>2. QED
    BY <1>2, <2>1
<1>6. ~Failing(rows) => \A k \in DOMAIN dirs : ~Failing(dirs[k].rows)
  <2> HIDE DEF rows, quiet, summary
  <2>1. SUFFICES ASSUME ~Failing(rows), NEW k \in DOMAIN dirs, NEW r \in dirs[k].rows PROVE r.status # "fail"
    BY DEF Failing
  <2>2. MutantRow(r, t, f, P[k]) /\ P[k] \subseteq d.suites
    BY MutantDirRows
  <2>3. CASE r.label = <<"schedule", 0>> /\ r.status \in {"pass", "unmeasured"}
    BY <2>3
  <2>4. CASE r = Row(<<"select", 0>>, "pass", <<t.seen>>)
    BY <2>4 DEF Row
  <2>5. CASE \E i \in P[k] : r = reportedRow(t, i, f[i]) /\ r.label = <<"mutation", i>>
    <3>1. r \in MutantCore(t, d, f)
      BY <2>2, <2>5 DEF MutantCore
    <3>2. r \in rows
      BY <1>5, <3>1
    <3>3. QED
      BY <2>1, <3>2 DEF Failing
  <2>6. QED
    BY <2>2, <2>3, <2>4, <2>5 DEF MutantRow
<1>7. uncarriedVerdicts(rows, dirs) = {}
  <2> HIDE DEF rows
  <2>1. QED
    BY <1>6 DEF uncarriedVerdicts
<1>8. ~problems
  BY <1>2, <1>3, <1>4, <1>7
<1>9. OfTheRun({shardsRow(problems)})
  <2>1. PICK p : p = problems
    OBVIOUS
  <2>2. ~p
    BY <1>8, <2>1
  <2>3. shardsRow(p) = Row(<<"shards", 0>>, "pass", <<>>)
    BY <2>2 DEF shardsRow
  <2>4. shardsRow(p).label[1] \notin gates /\ shardsRow(p).status # "fail"
    BY <2>3 DEF Row, gates
  <2> HIDE DEF problems
  <2>5. QED
    BY <2>1, <2>4 DEF OfTheRun
<1> DEFINE q == quiet \cup {shardsRow(problems)}
<1>10. OfTheRun(q)
  <2> HIDE DEF quiet, problems
  <2>1. QED
    BY <1>2, <1>9 DEF OfTheRun
<1>11. all = MutantCore(t, d, f) \cup {summary} \cup q
  <2> HIDE DEF rows, quiet, summary, problems
  <2>1. QED
    BY <1>5
<1>12. ~Failing(all) => (left1 <=> \E i \in d.suites : Stopped(f[i]))
  <2>1. SUFFICES ASSUME ~Failing(all) PROVE left1 <=> \E i \in d.suites : Stopped(f[i])
    OBVIOUS
  <2>2. ~Failing(rows)
    <3> HIDE DEF rows, problems
    <3>1. QED
      BY <2>1 DEF Failing
  <2>3. \A k \in DOMAIN dirs : ~Failing(dirs[k].rows)
    BY <1>6, <2>2
  <2>4. foldIncomplete(dirs, FoldCounts(dirs), d) <=> \E i \in d.suites : Stopped(f[i])
    BY <2>3, MutantIncomplete
  <2>5. QED
    BY <2>4
<1> HIDE DEF all, left1
<1>13. MergedMutation(dirs, d).rows = all /\ MergedMutation(dirs, d).incomplete = left1
  BY <1>1
<1> HIDE DEF q
<1>14. QED
  BY <1>10, <1>11, <1>12, <1>13

(***************************************************************************)
(* Two reports that differ in rows of the run alone and in what their      *)
(* summaries count of the components left out say the same.                *)
(***************************************************************************)
Summary(r) == r.label = <<"mutation", 0>> /\ r.status = "context"

Alike(R, S) == \E r, s : R = {r} /\ S = {s} /\ Summary(r) /\ Summary(s) /\ sameFigures(r) = sameFigures(s)

SaidAlike(x, y) == said(x) = said(y) /\ (Failing(x) <=> Failing(y))

LEMMA SameSummed ==
  ASSUME NEW core, NEW a, NEW b, OfTheRun(a), OfTheRun(b), NEW R, NEW T, Alike(R, T),
         NEW x, NEW y, x = core \cup R \cup a, y = core \cup T \cup b
  PROVE  SaidAlike(x, y)
<1> PICK r, s : R = {r} /\ T = {s} /\ Summary(r) /\ Summary(s) /\ sameFigures(r) = sameFigures(s)
  BY DEF Alike
<1> DEFINE about(rows) == { q \in rows : q.label[1] \in gates }
<1>1. r.label[1] \in gates /\ s.label[1] \in gates
  BY DEF Summary, gates
<1>2. about(core \cup {r} \cup a) = about(core) \cup {r} /\ about(core \cup {s} \cup b) = about(core) \cup {s}
  <2>1. \A q \in a \cup b : q.label[1] \notin gates
    BY DEF OfTheRun
  <2> HIDE DEF gates
  <2>2. QED
    BY <1>1, <2>1
<1>3. \A rows : said(rows) = { sameFigures(q) : q \in about(rows) }
  BY DEF said
<1> HIDE DEF about
<1>4. ASSUME NEW S
      PROVE  { sameFigures(q) : q \in S \cup {r} } = { sameFigures(q) : q \in S \cup {s} }
  OBVIOUS
<1>5. said(core \cup {r} \cup a) = said(core \cup {s} \cup b)
  <2>1. PICK S : S = about(core)
    OBVIOUS
  <2>2. /\ said(core \cup {r} \cup a) = { sameFigures(q) : q \in S \cup {r} }
        /\ said(core \cup {s} \cup b) = { sameFigures(q) : q \in S \cup {s} }
    BY <1>2, <1>3, <2>1
  <2>3. QED
    BY <1>4, <2>2
<1>6. r.status # "fail" /\ s.status # "fail"
  BY DEF Summary
<1>7. Failing(core \cup {r} \cup a) <=> Failing(core \cup {s} \cup b)
  BY <1>6 DEF Failing, OfTheRun
<1>8. QED
  BY <1>5, <1>7 DEF SaidAlike

LEMMA SummaryFigures ==
  ASSUME NEW a \in Nat, NEW b \in Nat, NEW c \in Nat, NEW n \in Nat
  PROVE  LET r == Row(<<"mutation", 0>>, "context", <<a, b, c, n>>)
             s == Row(<<"mutation", 0>>, "context", <<a, b>> \o <<c>>)
         IN  Summary(r) /\ Summary(s) /\ sameFigures(r) = sameFigures(s)
<1> DEFINE label == <<"mutation", 0>>
           three == <<a, b, c>>
<1>1. <<a, b>> \o <<c>> = three
  <2>1. PICK x, s, t : x = s \o t /\ s = <<a, b>> /\ t = <<c>>
    OBVIOUS
  <2>2. s \in Seq(Nat) /\ t \in Seq(Nat) /\ Len(s) = 2 /\ Len(t) = 1 /\ s[1] = a /\ s[2] = b /\ t[1] = c
    BY <2>1
  <2>3. x \in Seq(Nat) /\ Len(x) = 3 /\ x[1] = a /\ x[2] = b /\ x[3] = c
    BY <2>1, <2>2
  <2>4. x = three
    BY <2>3
  <2>5. QED
    BY <2>1, <2>4
<1>2. SubSeq(<<a, b, c, n>>, 1, 3) = three /\ SubSeq(three, 1, 3) = three
  <2>1. ASSUME NEW s \in Seq(Nat), Len(s) >= 3, s[1] = a, s[2] = b, s[3] = c
        PROVE  SubSeq(s, 1, 3) = three
    <3>1. PICK x : x = SubSeq(s, 1, 3)
      OBVIOUS
    <3>2. x \in Seq(Nat) /\ Len(x) = 3 /\ x[1] = a /\ x[2] = b /\ x[3] = c
      BY <2>1, <3>1
    <3>3. x = three
      BY <3>2
    <3>4. QED
      BY <3>1, <3>3
  <2>2. ASSUME NEW s, s = <<a, b, c, n>>
        PROVE  s \in Seq(Nat) /\ Len(s) >= 3 /\ s[1] = a /\ s[2] = b /\ s[3] = c
    BY <2>2
  <2>3. ASSUME NEW s, s = three
        PROVE  s \in Seq(Nat) /\ Len(s) >= 3 /\ s[1] = a /\ s[2] = b /\ s[3] = c
    BY <2>3
  <2>4. PICK s, u : s = <<a, b, c, n>> /\ u = three
    OBVIOUS
  <2> HIDE DEF three
  <2>5. SubSeq(s, 1, 3) = three /\ SubSeq(u, 1, 3) = three
    BY <2>1, <2>2, <2>3, <2>4
  <2>6. QED
    BY <2>4, <2>5
<1>3. \A v : Row(label, "context", v) = [label |-> label, status |-> "context", value |-> v]
  BY DEF Row
<1>4. ASSUME NEW v
      PROVE  /\ sameFigures(Row(label, "context", v)) = [label |-> label, status |-> "context", value |-> SubSeq(v, 1, 3)]
             /\ Summary(Row(label, "context", v))
  <2>1. PICK r : r = Row(label, "context", v)
    OBVIOUS
  <2>2. r = [label |-> label, status |-> "context", value |-> v]
    BY <1>3, <2>1
  <2>3. r.label = <<"mutation", 0>> /\ r.status = "context"
    BY <2>2
  <2>4. sameFigures(r) = [r EXCEPT !.value = SubSeq(@, 1, 3)]
    BY <2>3 DEF sameFigures
  <2>5. [r EXCEPT !.value = SubSeq(@, 1, 3)] = [label |-> label, status |-> "context", value |-> SubSeq(v, 1, 3)]
    BY <2>2
  <2>6. QED
    BY <2>1, <2>3, <2>4, <2>5 DEF Summary
<1> HIDE DEF three
<1>6. sameFigures(Row(label, "context", <<a, b, c, n>>)) = sameFigures(Row(label, "context", <<a, b>> \o <<c>>))
  BY <1>1, <1>2, <1>4
<1>7. QED
  BY <1>4, <1>6

(***************************************************************************)
(* A job that ran into its deadline was asked what its siblings were.      *)
(***************************************************************************)
LEMMA AskedAlike ==
  ASSUME NEW a \in {"none", "late"}, NEW b \in {"none", "late"}
  PROVE  /\ ~asked(a).interrupted /\ asked(a).tree = 0 /\ asked(a).seen = asked(b).seen
         /\ asked(a).noGate = asked(b).noGate /\ asked(a).affected = asked(b).affected
         /\ asked(a).deadline <=> a = "late"
<1>1. ASSUME NEW c \in {"none", "late"}
      PROVE  /\ asked(c).noGate = (run.mode = "no gate") /\ asked(c).affected = run.affected
             /\ asked(c).interrupted = (c \in {"interrupted", "cut"}) /\ asked(c).deadline = (c \in {"late", "cut"})
             /\ asked(c).tree = (IF c \in {"moved", "elsewhere"} THEN 1 ELSE 0)
             /\ asked(c).seen = (IF c = "elsewhere" THEN 1 ELSE 0)
  BY DEF asked
<1>2. ASSUME NEW c \in {"none", "late"}
      PROVE  c \notin {"interrupted", "cut", "moved", "elsewhere"} /\ (c \in {"late", "cut"} <=> c = "late")
  OBVIOUS
<1>3. ASSUME NEW c \in {"none", "late"}
      PROVE  ~asked(c).interrupted /\ asked(c).tree = 0 /\ asked(c).seen = 0 /\ (asked(c).deadline <=> c = "late")
  BY <1>1, <1>2, Zenon
<1>4. asked(a).noGate = asked(b).noGate /\ asked(a).affected = asked(b).affected
  BY <1>1, Zenon
<1>5. QED
  BY <1>3, <1>4

\* A run that was not interrupted keeps every verdict it came to.
LEMMA CountsAre ==
  ASSUME NEW this, ~this.interrupted, NEW f, NEW S
  PROVE  LET g == [i \in S |-> f[i]]
         IN  /\ countsOf(this, g).state = "read" /\ countsOf(this, g).tree = this.tree
             /\ countsOf(this, g).complete = counted(f, OfKind(f, S, "completed"))
             /\ countsOf(this, g).incomplete = counted(f, OfKind(f, S, "incomplete"))
             /\ { i \in kept(this, g) : g[i].kind = "completed" } = OfKind(f, S, "completed")
<1> DEFINE g == [i \in S |-> f[i]]
           of(kind) == { i \in kept(this, g) : g[i].kind = kind }
<1>1. kept(this, g) = { i \in S : f[i].kind \in {"completed", "incomplete"} }
  BY DEF kept, withdrawn
<1>2. of("completed") = OfKind(f, S, "completed") /\ of("incomplete") = OfKind(f, S, "incomplete")
  BY <1>1 DEF OfKind
<1>3. \A kind : counted(g, OfKind(f, S, kind)) = counted(f, OfKind(f, S, kind))
  BY DEF counted, OfKind
<1>4. countsOf(this, g) = [state |-> "read", tree |-> this.tree, complete |-> counted(g, of("completed")),
                           incomplete |-> counted(g, of("incomplete"))]
  BY DEF countsOf
<1>5. countsOf(this, g) = [state |-> "read", tree |-> this.tree, complete |-> counted(f, OfKind(f, S, "completed")),
                           incomplete |-> counted(f, OfKind(f, S, "incomplete"))]
  <2> HIDE DEF of, g
  <2>1. QED
    BY <1>2, <1>3, <1>4
<1>6. QED
  BY <1>2, <1>5

\* It is left incomplete when a component was stopped, which its deadline alone does.
LEMMA LeftStopped ==
  ASSUME NEW this, NEW f, NEW S, \A i \in S : deadlineStopped(f[i]) => this.deadline
  PROVE  leftIncomplete(this, [i \in S |-> f[i]]) <=> \E i \in S : Stopped(f[i])
BY DEF leftIncomplete, Stopped

\* The directory of a job of the mutants that at most its deadline came upon.
LEMMA MutantHanded ==
  ASSUME MatrixInv, step = "folded", run.command = "mutation", HandedOver, NEW k \in DOMAIN inputs,
         NEW c \in {"none", "late"}, NEW t, t = asked(c), NEW f, f = picked, NEW own, own = Members(k)
  PROVE  MutantDir(inputs[k], t, f, own) /\ \A i \in own : f[i] \in ComponentOutcome /\ (deadlineStopped(f[i]) => faults[k] = "late")
<1>1. /\ PlanInv /\ JobsRun /\ k \in DOMAIN faults /\ inputs[k] = HandedBy(k) /\ faults[k] \in {"none", "late"}
  BY Unharmed DEF HandedOver
<1>2. PICK this : this = asked(faults[k])
  OBVIOUS
<1>3. /\ ~this.interrupted /\ this.tree = 0 /\ this.seen = t.seen /\ this.noGate = t.noGate /\ this.affected = t.affected
      /\ this.deadline <=> faults[k] = "late"
  BY <1>1, <1>2, AskedAlike
<1>4. ~t.interrupted
  BY AskedAlike
<1>5. /\ \A i \in own : f[i] \in ComponentOutcome /\ f[i] \in answers(faults[k], i)
      /\ MutationJobRows(k) = SelectRow(this) \cup {mutationScheduleRow(this, StoppedAt(k))} \cup
                              { reportedRow(this, i, f[i]) : i \in own }
  BY <1>1, <1>2, MutationJob
<1>6. ASSUME NEW i \in own, deadlineStopped(f[i])
      PROVE  faults[k] = "late"
  <2>1. faults[k] \in {"interrupted", "late", "cut"}
    BY <1>5, <1>6 DEF answers
  <2>2. QED
    BY <1>1, <2>1
<1>7. Answered(k) = [i \in own |-> f[i]]
  BY DEF Answered
<1>8. PICK stopped : stopped = StoppedAt(k)
  OBVIOUS
<1>9. stopped <=> \E i \in own : Stopped(f[i])
  <2>1. \A i \in own : deadlineStopped(f[i]) => this.deadline
    BY <1>3, <1>6
  <2>2. leftIncomplete(this, [i \in own |-> f[i]]) <=> \E i \in own : Stopped(f[i])
    BY <2>1, LeftStopped
  <2>3. stopped = leftIncomplete(this, [i \in own |-> f[i]])
    BY <1>2, <1>7, <1>8 DEF StoppedAt
  <2>4. QED
    BY <2>2, <2>3
<1>10. PICK dir : dir = HandedBy(k)
  OBVIOUS
<1>11. /\ dir.read /\ dir.rows = MutationJobRows(k) /\ dir.incomplete = stopped
       /\ dir.doc = countsOf(this, [i \in own |-> f[i]])
       /\ dir = [x \in {"read", "rows", "doc", "incomplete"} |-> dir[x]]
  <2>1. faults[k] \notin {"unreadable", "torn", "lost"}
    BY <1>1
  <2>2. dir.read /\ dir.rows = MutationJobRows(k) /\ dir.incomplete = StoppedAt(k)
    BY <1>10, <2>1, HandedMutation
  <2>3. dir.doc = countsOf(asked(faults[k]), Answered(k))
    BY <1>10, <2>1, HandedMutation
  <2>4. dir = [x \in {"read", "rows", "doc", "incomplete"} |-> dir[x]]
    BY <1>10, HandedMutation
  <2>5. QED
    BY <1>2, <1>7, <1>8, <2>2, <2>3, <2>4
<1>12. PICK doc : doc = dir.doc
  OBVIOUS
<1>13. /\ doc.state = "read" /\ doc.tree = 0
       /\ doc.complete = counted(f, OfKind(f, own, "completed"))
       /\ doc.incomplete = counted(f, OfKind(f, own, "incomplete"))
  BY <1>3, <1>11, <1>12, CountsAre
<1>14. SelectRow(this) = SelectRow(t)
  BY <1>3 DEF SelectRow
<1>15. { reportedRow(this, i, f[i]) : i \in own } = { reportedRow(t, i, f[i]) : i \in own }
  <2>1. \A i : reportedRow(this, i, f[i]) = outcomeRow(i, f[i], this.noGate)
    BY <1>3 DEF reportedRow, withdrawn
  <2>2. \A i : reportedRow(t, i, f[i]) = outcomeRow(i, f[i], t.noGate)
    BY <1>4 DEF reportedRow, withdrawn
  <2>3. \A i : reportedRow(this, i, f[i]) = reportedRow(t, i, f[i])
    BY <1>3, <2>1, <2>2
  <2>4. QED
    BY <2>3
<1>16. \E s \in {"pass", "unmeasured"} : mutationScheduleRow(this, stopped) = Row(<<"schedule", 0>>, s, <<>>)
  BY <1>3 DEF mutationScheduleRow
<1>17. PICK s \in {"pass", "unmeasured"} : mutationScheduleRow(this, stopped) = Row(<<"schedule", 0>>, s, <<>>)
  BY <1>16
<1>18. dir.rows = SelectRow(t) \cup {Row(<<"schedule", 0>>, s, <<>>)} \cup { reportedRow(t, i, f[i]) : i \in own }
  BY <1>5, <1>8, <1>11, <1>14, <1>15, <1>17
<1>19. dir.incomplete <=> \E i \in own : Stopped(f[i])
  BY <1>9, <1>11
<1>20. MutantDir(dir, t, f, own)
  BY <1>11, <1>12, <1>13, <1>18, <1>19 DEF MutantDir
<1>21. QED
  BY <1>1, <1>5, <1>6, <1>10, <1>20

\* A matrix of the mutants that at most its deadline came upon is one run over them all.
LEMMA MutantInvisible ==
  ASSUME MatrixInv, step = "folded", run.command = "mutation", HandedOver
  PROVE  /\ said(merged.rows) = said(unsharded.rows)
         /\ Failing(merged.rows) <=> Failing(unsharded.rows)
         /\ ~Failing(merged.rows) => (merged.incomplete <=> unsharded.incomplete)
<1>1. /\ PlanInv /\ JobsRun /\ Folded
      /\ DOMAIN inputs = DOMAIN faults /\ DOMAIN inputs # {} /\ DOMAIN inputs \subseteq Nat
      /\ \A k, l \in DOMAIN inputs : \A i \in Members(k) : i \in Members(l) => k = l
      /\ Suites = UNION { Members(k) : k \in DOMAIN inputs }
      /\ DOMAIN picked = Suites /\ IsFiniteSet(Suites)
  BY Unharmed DEF HandedOver
<1> DEFINE overran == \E j \in DOMAIN faults : faults[j] = "late"
<1>2. PICK c \in {"none", "late"} : c = IF overran THEN "late" ELSE "none"
  OBVIOUS
<1>3. c = "late" <=> overran
  BY <1>2
<1>4. PICK dirs, d, t, f, P : /\ dirs = inputs /\ d = decl /\ t = asked(c) /\ f = picked
                              /\ P = [k \in DOMAIN inputs |-> Members(k)]
  OBVIOUS
<1>5. \A k \in DOMAIN dirs : P[k] = Members(k)
  BY <1>4
<1>6. file \in Files
  BY <1>1 DEF PlanInv, PlanTypeOK
<1>7. /\ Components(d) = DOMAIN file /\ d.noSuite = DOMAIN file \ Suites /\ 0 \notin d.suites
      /\ Suites \subseteq DOMAIN file /\ d.suites = Suites
  BY <1>4, <1>6, DeclIs DEF Suites
<1>8. ~t.interrupted /\ (t.deadline <=> c = "late")
  BY <1>4, AskedAlike
<1>9. ASSUME NEW k \in DOMAIN dirs
      PROVE  /\ MutantDir(dirs[k], t, f, P[k])
             /\ \A i \in P[k] : f[i] \in ComponentOutcome /\ (deadlineStopped(f[i]) => faults[k] = "late")
  <2>1. PICK own : own = Members(k)
    OBVIOUS
  <2>2. MutantDir(inputs[k], t, f, own) /\ \A i \in own : f[i] \in ComponentOutcome /\ (deadlineStopped(f[i]) => faults[k] = "late")
    BY <1>4, <2>1, MutantHanded
  <2>3. QED
    BY <1>4, <1>5, <2>1, <2>2
<1>10. \A i \in d.suites : \E k \in DOMAIN dirs : i \in P[k]
  BY <1>1, <1>4, <1>5, <1>7
<1>11. \A i \in d.suites : f[i] \in ComponentOutcome /\ (deadlineStopped(f[i]) => t.deadline)
  BY <1>1, <1>3, <1>4, <1>8, <1>9, <1>10
<1>12. MutantDirs(dirs, d, t, f, P)
  <2>1. \A k, l \in DOMAIN dirs : \A i \in P[k] : i \in P[l] => k = l
    BY <1>1, <1>4, <1>5
  <2>2. d.suites = UNION { P[k] : k \in DOMAIN dirs }
    BY <1>1, <1>4, <1>5, <1>7
  <2>3. DOMAIN dirs # {} /\ DOMAIN dirs \subseteq Nat /\ IsFiniteSet(d.suites)
    BY <1>1, <1>4, <1>7
  <2>4. QED
    BY <1>7, <1>8, <1>9, <1>11, <2>1, <2>2, <2>3 DEF MutantDirs
<1> DEFINE C == OfKind(f, d.suites, "completed")
           I == OfKind(f, d.suites, "incomplete")
<1>13. PICK a \in Nat, b \in Nat : /\ sumOf(counted(f, C)) = <<a, b>>
                                   /\ foldedMutationRow(dirs, FoldCounts(dirs), d) =
                                         Row(<<"mutation", 0>>, "context", <<a, b, Cardinality(C), Cardinality(I)>>)
  BY <1>12, MutantSummary
<1>14. Cardinality(C) \in Nat /\ Cardinality(I) \in Nat
  <2>1. C \subseteq d.suites /\ I \subseteq d.suites /\ IsFiniteSet(d.suites)
    BY <1>1, <1>7 DEF OfKind
  <2> HIDE DEF C, I
  <2>2. QED
    BY <2>1, FS_Subset, FS_CardinalityType
<1>15. DOMAIN f = d.suites
  BY <1>1, <1>4, <1>7
<1>16. mutationSummaryRow(t, f) = Row(<<"mutation", 0>>, "context", <<a, b>> \o <<Cardinality(C)>>)
  <2>1. { i \in kept(t, f) : f[i].kind = "completed" } = C
    BY <1>8, <1>15 DEF kept, withdrawn, OfKind
  <2>2. mutationSummaryRow(t, f) = Row(<<"mutation", 0>>, "context", sumOf(counted(f, C)) \o <<Cardinality(C)>>)
    <3> HIDE DEF C
    <3>1. QED
      BY <2>1 DEF mutationSummaryRow
  <2> HIDE DEF C
  <2>3. QED
    BY <1>13, <2>2
<1>17. PICK late : late = leftIncomplete(t, f)
  OBVIOUS
<1>18. late <=> \E i \in d.suites : Stopped(f[i])
  BY <1>11, <1>15, <1>17 DEF leftIncomplete, Stopped
<1> DEFINE run1 == SelectRow(t) \cup {mutationScheduleRow(t, late)}
           one == mutationSummaryRow(t, f)
           sum == foldedMutationRow(dirs, FoldCounts(dirs), d)
           core == MutantCore(t, d, f)
<1>19. unsharded = [rows |-> MutationRows(t, d, Components(d), f, FALSE), incomplete |-> late]
  <2>1. t = asked(IF overran THEN "late" ELSE "none")
    BY <1>2, <1>4
  <2>2. QED
    BY <1>4, <1>17, <2>1 DEF unsharded
<1>20. unsharded.rows = core \cup {one} \cup run1
  <2>1. Components(d) \cap d.noSuite = d.noSuite
    BY DEF Components
  <2>2. unsharded.rows = SelectRow(t) \cup {mutationScheduleRow(t, leftIncomplete(t, f))} \cup
                         { reportedRow(t, i, f[i]) : i \in DOMAIN f } \cup noSuiteRows({"mutation"}, d.noSuite) \cup {one}
    BY <1>19, <2>1 DEF MutationRows, SelectRow
  <2>3. core = { reportedRow(t, i, f[i]) : i \in DOMAIN f } \cup noSuiteRows({"mutation"}, d.noSuite)
    BY <1>15 DEF MutantCore
  <2>4. run1 = SelectRow(t) \cup {mutationScheduleRow(t, leftIncomplete(t, f))}
    BY <1>17
  <2> HIDE DEF one, run1, core
  <2>5. QED
    BY <2>2, <2>3, <2>4
<1>21. OfTheRun(run1)
  <2>1. \A r \in SelectRow(t) : r.label[1] \notin gates /\ r.status # "fail"
    BY DEF SelectRow, Row, gates
  <2>2. mutationScheduleRow(t, late).label[1] \notin gates /\ mutationScheduleRow(t, late).status # "fail"
    BY <1>8 DEF mutationScheduleRow, Row, gates
  <2>3. QED
    BY <2>1, <2>2 DEF OfTheRun
<1>22. /\ \E q : OfTheRun(q) /\ merged.rows = core \cup {sum} \cup q
       /\ ~Failing(merged.rows) => (merged.incomplete <=> \E i \in d.suites : Stopped(f[i]))
  <2>1. merged = MergedMutation(dirs, d)
    BY <1>1, <1>4 DEF Folded
  <2>2. QED
    BY <1>12, <2>1, MutantMerged
<1>23. Summary(sum) /\ Summary(one) /\ sameFigures(sum) = sameFigures(one)
  <2>1. PICK x, y : x = Cardinality(C) /\ y = Cardinality(I)
    OBVIOUS
  <2>2. x \in Nat /\ y \in Nat
    BY <1>14, <2>1
  <2>3. sum = Row(<<"mutation", 0>>, "context", <<a, b, x, y>>) /\ one = Row(<<"mutation", 0>>, "context", <<a, b>> \o <<x>>)
    BY <1>13, <1>16, <2>1
  <2> HIDE DEF sum, one
  <2>4. QED
    BY <2>2, <2>3, SummaryFigures
<1> HIDE DEF core, sum, one, run1
<1>24. PICK q : OfTheRun(q) /\ merged.rows = core \cup {sum} \cup q
  BY <1>22
<1>25. said(merged.rows) = said(unsharded.rows) /\ (Failing(merged.rows) <=> Failing(unsharded.rows))
  <2>1. PICK k, R, T, h, x, y : k = core /\ R = {sum} /\ T = {one} /\ h = run1 /\ x = merged.rows /\ y = unsharded.rows
    OBVIOUS
  <2>2. Alike(R, T)
    BY <1>23, <2>1 DEF Alike
  <2>3. SaidAlike(x, y)
    <3>1. x = k \cup R \cup q /\ y = k \cup T \cup h /\ OfTheRun(q) /\ OfTheRun(h)
      BY <1>20, <1>21, <1>24, <2>1
    <3>2. QED
      BY <2>2, <3>1, SameSummed
  <2>4. said(x) = said(y) /\ (Failing(x) <=> Failing(y))
    BY <2>3 DEF SaidAlike
  <2>5. QED
    BY <2>1, <2>4
<1>26. unsharded.incomplete = late
  BY <1>19
<1>27. QED
  BY <1>18, <1>22, <1>25, <1>26

(***************************************************************************)
(* ShardingIsInvisible: when nothing but its deadline came upon a job and  *)
(* each had its document to hand over, the merged report says of every     *)
(* suite, of every component's figures and mutants and of the repository   *)
(* what one run over all the components says, and comes to its verdict,    *)
(* for every declarations file, grouping, profile and outcome (fold.go;    *)
(* mutation_merge.go).                                                     *)
(***************************************************************************)
THEOREM MatricesShowNoSharding == MatrixSpec => []ShardingIsInvisible
<1>1. MatrixInit => MatrixInv
  BY MatrixInitInv
<1>2. MatrixInv /\ [MatrixNext]_<<planVars, matrixVars>> => MatrixInv'
  BY MatrixNextInv
<1>3. MatrixInv => ShardingIsInvisible
  <2>1. SUFFICES ASSUME MatrixInv, step = "folded", HandedOver
                 PROVE  /\ said(merged.rows) = said(unsharded.rows)
                        /\ Failing(merged.rows) <=> Failing(unsharded.rows)
                        /\ Passes(merged) <=> Passes(unsharded)
    BY DEF ShardingIsInvisible
  <2>2. run.command = "test" \/ run.command = "mutation"
    <3>1. run \in Commands
      BY <2>1 DEF MatrixInv, JobsRun
    <3>2. QED
      BY <3>1 DEF Commands
  <2>3. /\ said(merged.rows) = said(unsharded.rows)
        /\ Failing(merged.rows) <=> Failing(unsharded.rows)
        /\ ~Failing(merged.rows) => (merged.incomplete <=> unsharded.incomplete)
    BY <2>1, <2>2, TestInvisible, MutantInvisible
  <2>4. Passes(merged) <=> Passes(unsharded)
    BY <2>3 DEF Passes
  <2>5. QED
    BY <2>3, <2>4
<1>4. QED
  BY <1>1, <1>2, <1>3, PTL DEF MatrixSpec
===============================================================================
