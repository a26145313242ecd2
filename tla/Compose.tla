-------------------------------- MODULE Compose --------------------------------
(***************************************************************************)
(* What a component's compose file says of the services its suite needs    *)
(* (internal/compose/compose.go): which are started, whether readiness can *)
(* be waited for, and which host ports the scheduler is told of.           *)
(*                                                                         *)
(* A published port is a range <<first, last>>; a single port is a range   *)
(* of one.                                                                 *)
(***************************************************************************)
EXTENDS Naturals, FiniteSets

CONSTANTS Component,
          Service,    \* the names of services
          Services,   \* of each component, its services by name
          Up,         \* the services it names; none names them all
          Wait        \* "healthy" or "started"

Described == [ports : SUBSET { r \in Nat \X Nat : r[1] <= r[2] },
              deps : SUBSET Service, health : BOOLEAN]

ASSUME ComposeAssumption ==
    \A c \in Component :
        /\ Services[c] \in [DOMAIN Services[c] -> Described]
        /\ DOMAIN Services[c] \subseteq Service /\ IsFiniteSet(DOMAIN Services[c])
        /\ Up[c] \subseteq DOMAIN Services[c]
        /\ Wait[c] \in {"healthy", "started"}

Composed(c) == DOMAIN Services[c] # {}

Named(c) == IF Up[c] = {} THEN DOMAIN Services[c] ELSE Up[c]

(***************************************************************************)
(* The named services and, walked from them, everything they depend on.    *)
(***************************************************************************)
\* Mutation: the named services alone.
namedAlone(c) == Named(c)

closure(c) ==
    LET visited[n \in Nat] ==
            IF n = 0 THEN Named(c)
            ELSE visited[n-1] \cup
                   { d \in DOMAIN Services[c] : \E s \in visited[n-1] : d \in Services[c][s].deps }
    IN  visited[Cardinality(DOMAIN Services[c])]

(***************************************************************************)
(* The ports the scheduler locks: a range counts by its first.             *)
(***************************************************************************)
HostPorts(c) == { r[1] : r \in UNION { Services[c][s].ports : s \in closure(c) } }

(***************************************************************************)
(* What compose starts for the named services, the least set that holds    *)
(* them and their dependencies, and the host ports it binds for that.      *)
(***************************************************************************)
Started(c) ==
    { s \in DOMAIN Services[c] :
        \A S \in SUBSET DOMAIN Services[c] :
            Named(c) \subseteq S /\ (\A t \in S : Services[c][t].deps \cap DOMAIN Services[c] \subseteq S)
            => s \in S }

Bound(c) == UNION { r[1] .. r[2] : r \in UNION { Services[c][s].ports : s \in Started(c) } }

(***************************************************************************)
(* A wait for health needs a healthcheck on everything that is started.    *)
(***************************************************************************)
Refused(c) == Wait[c] = "healthy" /\ \E s \in closure(c) : ~Services[c][s].health

(***************************************************************************)
(* What the theorem about ports supposes: no service publishes a range.    *)
(***************************************************************************)
NoRanges == \A c \in Component : \A s \in DOMAIN Services[c] : \A r \in Services[c][s].ports : r[1] = r[2]
================================================================================
