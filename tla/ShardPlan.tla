------------------------------ MODULE ShardPlan -------------------------------
(***************************************************************************)
(* `test plan`: the declared components grouped into the jobs of a matrix  *)
(* (internal/stages/test/plan.go, GroupShards and what it calls).  Items   *)
(* that conflict go to one job, whose scheduler serialises them; the       *)
(* groups are the transitive closure of scheduler.Conflicts, by union-find *)
(* over the positions of the items.                                        *)
(***************************************************************************)
EXTENDS Items, FiniteSets

CONSTANTS Word,   \* what names are made of between their hyphens
          Files   \* the declarations a plan may be asked for

(***************************************************************************)
(* A declared component.  Its name is the sequence of the words between    *)
(* its hyphens, so that joining names with "-" is concatenation, ambiguous *)
(* as in the code.  A stack that does not load has unknown ports.          *)
(***************************************************************************)
Component == [name : Seq(Word), hasSuite : BOOLEAN, loads : BOOLEAN, item : Item]

ASSUME FilesAssumption ==
    /\ Files \subseteq Seq(Component)
    /\ \A f \in Files : \A i, j \in DOMAIN f : f[i].name = f[j].name => i = j

VARIABLES
    file,       \* the components in declaration order
    phase,      \* loading, joining, naming, planned, refused
    planned,    \* the positions in file of the components that became an item
    parent,     \* the union-find forest over the positions of the items
    todo,       \* the conflicts not joined yet
    shards      \* the matrix

planVars == <<file, phase, planned, parent, todo, shards>>

itemsOf(positions) == [i \in DOMAIN positions |-> file[positions[i]].item]

\* A set of positions in declaration order, each at its rank.
Ascending(S) ==
    [n \in 1..Cardinality(S) |-> CHOOSE i \in S : Cardinality({ j \in S : j < i }) = n - 1]

PlanInit ==
    /\ file \in Files
    /\ phase = "loading"
    /\ planned = <<>> /\ parent = <<>> /\ todo = {} /\ shards = <<>>

(***************************************************************************)
(* Every component with a suite becomes an item.  One whose compose file   *)
(* does not load refuses the plan: its ports are unknown.                  *)
(***************************************************************************)
planItems ==
    LET suites == { i \in DOMAIN file : file[i].hasSuite }
    IN  /\ phase = "loading"
        /\ \/ /\ \E i \in suites : ~file[i].loads
              /\ phase' = "refused"
              /\ UNCHANGED <<planned, parent, todo>>
           \/ /\ \A i \in suites : file[i].loads
              /\ phase' = "joining"
              /\ planned' = Ascending(suites)
              /\ parent' = [i \in 1..Cardinality(suites) |-> i]
              /\ todo' = Conflicts(itemsOf(Ascending(suites)))
        /\ UNCHANGED <<file, shards>>

-------------------------------------------------------------------------------
(***************************************************************************)
(* The root of a position; no parent is after its child.                   *)
(***************************************************************************)
find == LET root[i \in DOMAIN parent] == IF parent[i] = i THEN i ELSE root[parent[i]]
        IN  root

(***************************************************************************)
(* One conflict joined: the later of the two roots under the earlier one.  *)
(* The code takes the conflicts in one order; the groups are the same in   *)
(* any.                                                                    *)
(***************************************************************************)

\* Mutation: the item itself is moved to the other group, not its group.
joinedItem(c) == [parent EXCEPT ![c[2]] = find[c[1]]]

joined(c) ==
    LET roots == {find[c[1]], find[c[2]]}
    IN  [i \in DOMAIN parent |-> IF i \in roots THEN CHOOSE a \in roots : \A b \in roots : a <= b
                                              ELSE parent[i]]

Union ==
    /\ phase = "joining"
    /\ \E c \in todo :
          /\ todo' = todo \ {c}
          /\ parent' = joined(c)
    /\ UNCHANGED <<file, phase, planned, shards>>

(***************************************************************************)
(* A shard for each root, in the order the roots are first met: its        *)
(* members in declaration order, the conflicts among them, and the name    *)
(* their names make.                                                       *)
(***************************************************************************)
firsts == { i \in DOMAIN parent : \A j \in 1..(i - 1) : find[j] # find[i] }

shardOf(root) ==
    LET members == { i \in DOMAIN parent : find[i] = root }
    IN  [members   |-> Ascending({ planned[i] : i \in members }),
         conflicts |-> { <<planned[c[1]], planned[c[2]], c[3]>> :
                           c \in { d \in Conflicts(itemsOf(planned)) : find[d[1]] = root } }]

shardName(shard) == FlattenSeq([n \in DOMAIN shard.members |-> file[shard.members[n]].name])

Group ==
    /\ phase = "joining" /\ todo = {}
    /\ phase' = "naming"
    /\ shards' = LET order == Ascending(firsts)
                 IN  [n \in DOMAIN order |-> shardOf(find[order[n]])]
    /\ UNCHANGED <<file, planned, parent, todo>>

\* Mutation: joined names are taken to be as unique as the names they join.
clashingNever == {}

clashing ==
    { p \in (DOMAIN shards) \X (DOMAIN shards) : p[1] < p[2] /\ shardName(shards[p[1]]) = shardName(shards[p[2]]) }

(***************************************************************************)
(* Two shards of one name refuse the plan, and nothing is grouped.         *)
(***************************************************************************)
uniqueShardNames ==
    /\ phase = "naming"
    /\ IF clashing = {} THEN phase' = "planned" /\ UNCHANGED shards
                        ELSE phase' = "refused" /\ shards' = <<>>
    /\ UNCHANGED <<file, planned, parent, todo>>

PlanFinished == phase \in {"planned", "refused"} /\ UNCHANGED planVars

PlanNext == planItems \/ Union \/ Group \/ uniqueShardNames \/ PlanFinished

PlanSpec == PlanInit /\ [][PlanNext]_planVars
-------------------------------------------------------------------------------
(***************************************************************************)
(* Every variable has its type.  In the forest no item hangs under a later *)
(* one, so a walk to the root ends and the root of a group is its earliest *)
(* member (plan.go, the comment in shardsOf: "the representative of a      *)
(* group is the earliest component in it").                                *)
(***************************************************************************)
PlanTypeOK ==
    /\ file \in Files
    /\ phase \in {"loading", "joining", "naming", "planned", "refused"}
    /\ planned \in Seq(DOMAIN file)
    /\ DOMAIN parent = DOMAIN planned
    /\ \A i \in DOMAIN parent : parent[i] \in 1..i
    /\ todo \subseteq Conflicts(itemsOf(planned))
    /\ \A s \in DOMAIN shards : ToSet(shards[s].members) \subseteq DOMAIN file

(***************************************************************************)
(* Two components contend when they publish one port or may write into one *)
(* place: of two of their paths one continues the other.                   *)
(***************************************************************************)
Contend(a, b) ==
    \/ \E n \in a.item.ports : n \in b.item.ports
    \/ \E p \in Paths(a.item), q \in Paths(b.item) :
          \A k \in 1..(IF Len(p) < Len(q) THEN Len(p) ELSE Len(q)) : p[k] = q[k]

(***************************************************************************)
(* The jobs of a planned matrix are the finest grouping that keeps         *)
(* contending components together: no two jobs hold a contending pair, no  *)
(* job can be split in two without parting one, and each job lists the     *)
(* pairs that made it (plan.go, shardsOf and planItems).                   *)
(***************************************************************************)
Members(s) == ToSet(shards[s].members)

ShardsAreConflictGroups ==
    phase = "planned" =>
        /\ \A s, t \in DOMAIN shards : s # t =>
              \A i \in Members(s), j \in Members(t) : ~Contend(file[i], file[j])
        /\ \A s \in DOMAIN shards : \A part \in (SUBSET Members(s)) \ {{}, Members(s)} :
              \E i \in part, j \in Members(s) \ part : Contend(file[i], file[j])
        /\ \A s \in DOMAIN shards : { {c[1], c[2]} : c \in shards[s].conflicts } =
              { {p[1], p[2]} : p \in { q \in Members(s) \X Members(s) :
                                         q[1] < q[2] /\ Contend(file[q[1]], file[q[2]]) } }

(***************************************************************************)
(* Every component with a suite is run by exactly one job, the matrix is   *)
(* in declaration order, and a job's name is its own (plan.go, shardsOf    *)
(* and uniqueShardNames).                                                  *)
(***************************************************************************)
EveryComponentInOneJob ==
    phase = "planned" =>
        /\ \A i \in DOMAIN file : file[i].hasSuite =>
              Cardinality({ p \in UNION { {s} \X (DOMAIN shards[s].members) : s \in DOMAIN shards } :
                              shards[p[1]].members[p[2]] = i }) = 1
        /\ \A s \in DOMAIN shards : \A i \in Members(s) : file[i].hasSuite
        /\ \A s, t \in DOMAIN shards : s < t =>
              \E i \in Members(s) : \A j \in Members(t) : i < j
        /\ \A s, t \in DOMAIN shards : shardName(shards[s]) = shardName(shards[t]) => s = t

(***************************************************************************)
(* The matrix is the partition of the components with a suite by           *)
(* contention, each part a job of a name of its own.                       *)
(***************************************************************************)
MatrixIsThePartition == ShardsAreConflictGroups /\ EveryComponentInOneJob

===============================================================================
