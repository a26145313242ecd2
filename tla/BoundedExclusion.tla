--------------------------- MODULE BoundedExclusion ---------------------------
(***************************************************************************)
(* What the scheduler promises its caller, with no lock, queue or thread   *)
(* in it: of count items, those inside the caller's run function are never *)
(* more than limit, no two of them are a pair that is in conflict, and     *)
(* each item enters and leaves at most once.                               *)
(***************************************************************************)
EXTENDS Naturals, FiniteSets

VARIABLES count,   \* how many items there are
          pairs,   \* the pairs of items that may not be inside together
          limit,   \* how many may be inside at once, at least 1
          inside,  \* the items inside the run function
          left     \* the items that have returned from it

vars == <<count, pairs, limit, inside, left>>

Init ==
    /\ count \in Nat
    /\ pairs \subseteq (1..count) \X (1..count)
    /\ limit \in Nat \ {0}
    /\ inside = {}
    /\ left = {}

Enter(i) ==
    /\ i \notin inside \cup left
    /\ Cardinality(inside) < limit
    /\ \A j \in inside : <<i, j>> \notin pairs /\ <<j, i>> \notin pairs
    /\ inside' = inside \cup {i}
    /\ UNCHANGED <<count, pairs, limit, left>>

Leave(i) ==
    /\ i \in inside
    /\ inside' = inside \ {i}
    /\ left' = left \cup {i}
    /\ UNCHANGED <<count, pairs, limit>>

Next == \E i \in 1..count : Enter(i) \/ Leave(i)

Spec == Init /\ [][Next]_vars
===============================================================================
