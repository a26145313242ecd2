----------------------------- MODULE MCScheduler ------------------------------
(***************************************************************************)
(* Small instance of the scheduler: every list of up to three items of a   *)
(* palette in which roots are equal, nested, siblings or absent, occupied  *)
(* paths reach into another item's root, one item repeats a path, and      *)
(* ports are shared and not.                                               *)
(***************************************************************************)
EXTENDS Scheduler

MCSegment == {"web", "src", "api"}
MCPort == {5432, 6379}

Root == <<>>
Web == <<"web">>
WebSrc == <<"web", "src">>
Api == <<"api">>

Palette ==
    { [dir |-> Root, occupies |-> <<>>, ports |-> {}],
      [dir |-> Web, occupies |-> <<WebSrc, Web>>, ports |-> {}],
      [dir |-> WebSrc, occupies |-> <<>>, ports |-> {5432}],
      [dir |-> Api, occupies |-> <<WebSrc>>, ports |-> {}],
      [dir |-> Api, occupies |-> <<>>, ports |-> {5432, 6379}],
      [dir |-> NoDir, occupies |-> <<>>, ports |-> {6379}],
      [dir |-> NoDir, occupies |-> <<>>, ports |-> {}] }

\* Four items at once, from those of the palette that conflict in a chain.
Chain ==
    { [dir |-> Web, occupies |-> <<WebSrc, Web>>, ports |-> {}],
      [dir |-> WebSrc, occupies |-> <<>>, ports |-> {5432}],
      [dir |-> Api, occupies |-> <<>>, ports |-> {5432, 6379}],
      [dir |-> NoDir, occupies |-> <<>>, ports |-> {6379}] }

MCDeclarations == UNION { [1..n -> Palette] : n \in 0..3 } \cup [1..4 -> Chain]
MCLimits == {0, 2, 3}
===============================================================================
