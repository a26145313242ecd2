-------------------------------- MODULE Items --------------------------------
(***************************************************************************)
(* What a unit of work holds while it runs, and when two of them are in    *)
(* conflict (internal/scheduler/scheduler.go, the part above Run).         *)
(*                                                                         *)
(* A path is cleaned and slash-separated, so it is the sequence of its     *)
(* segments: "." is <<>>, "web/src" is <<"web", "src">>.  An item without  *)
(* a root of its own (a mutant) has dir = NoDir, the empty string of the   *)
(* code.  A host port is a member of Port; "port 5432" is how a report     *)
(* spells it.                                                              *)
(***************************************************************************)
EXTENDS Naturals, Sequences, SequencesExt

CONSTANTS Segment,      \* names a path is made of
          Port,         \* host ports
          NoDir         \* the root of an item that has none

Path == Seq(Segment)

Item == [dir : Path \cup {NoDir}, occupies : Seq(Path), ports : SUBSET Port]

(***************************************************************************)
(* Every path the item holds: its root, then each further path it declares *)
(* it writes into.                                                         *)
(***************************************************************************)
occupied(it) ==
    IF it.dir = NoDir THEN it.occupies ELSE <<it.dir>> \o it.occupies

Paths(it) == ToSet(occupied(it))

(***************************************************************************)
(* `out` is `in` or an ancestor of it; "." contains everything.            *)
(***************************************************************************)
contains(out, in) == IsPrefix(out, in)

dirsOverlap(a, b) == contains(a, b) \/ contains(b, a)

outer(a, b) == IF contains(b, a) THEN b ELSE a

(***************************************************************************)
(* The trees two items both write into, each named by the outermost path   *)
(* that covers it.  The code walks the candidates sorted and drops one     *)
(* that a kept path covers, and an ancestor sorts before what it contains, *)
(* so what is kept is the candidates no other candidate covers.  (".",     *)
(* which the code special-cases, sorts after a name that begins with a     *)
(* byte below '.': such a pair is then named twice, which no reader of the *)
(* conflicts but the report can tell.)                                     *)
(***************************************************************************)
sharedTrees(a, b) ==
    LET candidates == { outer(p[1], p[2]) :
                          p \in { q \in Paths(a) \X Paths(b) : dirsOverlap(q[1], q[2]) } }
    IN  { t \in candidates : \A u \in candidates \ {t} : ~contains(u, t) }

shared(a, b) == a.ports \cap b.ports

InCommon(a, b) ==
    ({"directory"} \X sharedTrees(a, b)) \cup ({"port"} \X shared(a, b))

(***************************************************************************)
(* Every pair of a list of items that holds something in common, once per  *)
(* thing the pair shares; a pair is in declaration order.                  *)
(***************************************************************************)
Conflicts(items) ==
    LET pairs == { p \in (DOMAIN items) \X (DOMAIN items) : p[1] < p[2] }
    IN  UNION { { <<p[1], p[2], on>> : on \in InCommon(items[p[1]], items[p[2]]) } : p \in pairs }

(***************************************************************************)
(* The distinct pairs among the conflicts: two items sharing two ports are *)
(* one pair.                                                               *)
(***************************************************************************)
Pairs(conflicts) == { <<c[1], c[2]>> : c \in conflicts }
===============================================================================
