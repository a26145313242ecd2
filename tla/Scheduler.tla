------------------------------- MODULE Scheduler -------------------------------
(***************************************************************************)
(* scheduler.Run: a loop that starts items under one mutex, and one        *)
(* goroutine per started item that calls the caller's function and then    *)
(* gives its locks back.  The loop holds the mutex except while it waits   *)
(* on the condition variable, so a goroutine releases its locks only       *)
(* between the loop's Wait and the loop's re-acquiring of the mutex, and   *)
(* several may release in between.                                         *)
(***************************************************************************)
EXTENDS Items, FiniteSets, Bags

CONSTANTS Declarations,  \* the lists of items a run of the scheduler may be given
          Limits         \* the limits a caller may pass, zero and negatives included

ASSUME DeclarationsAssumption == Declarations \subseteq Seq(Item)
ASSUME LimitsAssumption == Limits \subseteq Int

VARIABLES
    items,          \* the list this run was given
    limit,          \* the limit after its normalisation to at least 1
    st,             \* where each item is: pending, running (inside the caller's
                    \* function), returned (from it, locks still held), released
    main,           \* the loop: scanning (holds the mutex), waiting (parked on the
                    \* condition variable), woken (signalled, wants the mutex), returned
    heldPorts,      \* the set of ports held
    heldDirs,       \* the list of paths held, in which order does not matter: a bag
    running,        \* the loop's count of items it started and that have not released
    started,        \* Outcome.Started
    maxConcurrent,  \* Outcome.MaxConcurrent
    cancelled       \* ctx.Err() # nil

vars == <<items, limit, st, main, heldPorts, heldDirs, running, started, maxConcurrent, cancelled>>

Pending == { i \in DOMAIN items : st[i] = "pending" }
Inside  == { i \in DOMAIN items : st[i] = "running" }
Holding == { i \in DOMAIN items : st[i] \in {"running", "returned"} }

(***************************************************************************)
(* No held path overlaps one the item occupies and no port of its is taken.*)
(***************************************************************************)
\* Mutation: only the root is compared, as before items could declare what they occupy.
freeByRoot(it) ==
    /\ \A d \in DOMAIN heldDirs : it.dir # NoDir => ~dirsOverlap(d, it.dir)
    /\ it.ports \cap heldPorts = {}

free(it) ==
    /\ \A d \in DOMAIN heldDirs : \A p \in Paths(it) : ~dirsOverlap(d, p)
    /\ it.ports \cap heldPorts = {}

(***************************************************************************)
(* What the loop may start now: nothing at the limit or after a            *)
(* cancellation.                                                           *)
(***************************************************************************)
\* Mutation: the first pending item blocks those behind it.
StartableInOrder ==
    IF running < limit /\ ~cancelled
    THEN { i \in Pending : free(items[i]) /\ \A j \in Pending : i <= j }
    ELSE {}

Startable ==
    IF running < limit /\ ~cancelled THEN { i \in Pending : free(items[i]) } ELSE {}

\* A limit below 1 means 1.
atLeastOne(l) == IF l < 1 THEN 1 ELSE l

(***************************************************************************)
(* An item's paths enter the held list one entry per path, and one equal   *)
(* entry per path leaves it.  Mutation: only the root leaves it.           *)
(***************************************************************************)
hold(held, it) == held (+) ToBag(occupied(it))
releaseRoot(held, it) == IF it.dir = NoDir THEN held ELSE held (-) ToBag(<<it.dir>>)
release(held, it) == held (-) ToBag(occupied(it))

\* cond.Broadcast.  Mutation: nobody is told.
noBroadcast == main' = main
broadcast == main' = "woken"

Init ==
    /\ items \in Declarations
    /\ \E l \in Limits : limit = atLeastOne(l)
    /\ st = [i \in DOMAIN items |-> "pending"]
    /\ main = "scanning"
    /\ heldPorts = {}
    /\ heldDirs = EmptyBag
    /\ running = 0
    /\ started = 0
    /\ maxConcurrent = 0
    /\ cancelled \in BOOLEAN

(***************************************************************************)
(* The loop takes the first startable item off the pending list, takes its *)
(* locks and starts its goroutine.                                         *)
(***************************************************************************)
Start(i) ==
    /\ main = "scanning"
    /\ i \in Startable
    /\ \A j \in Startable : i <= j
    /\ st' = [st EXCEPT ![i] = "running"]
    /\ heldPorts' = heldPorts \cup items[i].ports
    /\ heldDirs' = hold(heldDirs, items[i])
    /\ running' = running + 1
    /\ started' = started + 1
    /\ maxConcurrent' = IF running' > maxConcurrent THEN running' ELSE maxConcurrent
    /\ UNCHANGED <<items, limit, main, cancelled>>

\* Nothing can start and something is running: cond.Wait, which lets the mutex go.
Park ==
    /\ main = "scanning"
    /\ Startable = {}
    /\ running # 0
    /\ main' = "waiting"
    /\ UNCHANGED <<items, limit, st, heldPorts, heldDirs, running, started, maxConcurrent, cancelled>>

\* The signalled loop has the mutex again and goes round.
Wake ==
    /\ main = "woken"
    /\ main' = "scanning"
    /\ UNCHANGED <<items, limit, st, heldPorts, heldDirs, running, started, maxConcurrent, cancelled>>

\* Mutation: a cancelled run returns at once, abandoning what is running.
ReturnAbandoning ==
    /\ main = "scanning"
    /\ Startable = {}
    /\ running = 0 \/ cancelled
    /\ main' = "returned"
    /\ UNCHANGED <<items, limit, st, heldPorts, heldDirs, running, started, maxConcurrent, cancelled>>

\* Nothing can start and nothing is running: Run returns, whether or not items are left.
Return ==
    /\ main = "scanning"
    /\ Startable = {}
    /\ running = 0
    /\ main' = "returned"
    /\ UNCHANGED <<items, limit, st, heldPorts, heldDirs, running, started, maxConcurrent, cancelled>>

\* The caller's function returns for item i.  No lock is needed for that.
Finish(i) ==
    /\ st[i] = "running"
    /\ st' = [st EXCEPT ![i] = "returned"]
    /\ UNCHANGED <<items, limit, main, heldPorts, heldDirs, running, started, maxConcurrent, cancelled>>

(***************************************************************************)
(* The goroutine's deferred function, which gets the mutex while the loop  *)
(* is not running: it drops the item's ports, one entry of the held list   *)
(* per path the item took, and wakes the loop.                             *)
(***************************************************************************)
Release(i) ==
    /\ st[i] = "returned"
    /\ main \in {"waiting", "woken"}
    /\ st' = [st EXCEPT ![i] = "released"]
    /\ heldPorts' = heldPorts \ items[i].ports
    /\ heldDirs' = release(heldDirs, items[i])
    /\ running' = running - 1
    /\ broadcast
    /\ UNCHANGED <<items, limit, started, maxConcurrent, cancelled>>

\* The run's context is cancelled: by a signal, or by the deadline of mutation testing.
Cancel ==
    /\ main # "returned"
    /\ ~cancelled
    /\ cancelled' = TRUE
    /\ UNCHANGED <<items, limit, st, main, heldPorts, heldDirs, running, started, maxConcurrent>>

Finished == main = "returned" /\ UNCHANGED vars

Loop == Park \/ Wake \/ Return \/ \E i \in DOMAIN items : Start(i)

Next ==
    \/ Loop
    \/ \E i \in DOMAIN items : Finish(i) \/ Release(i)
    \/ Cancel
    \/ Finished

Spec == Init /\ [][Next]_vars

(***************************************************************************)
(* The loop and a goroutine with the mutex free keep going, and every call *)
(* of the caller's function returns (a suite runs under a budget).  Each   *)
(* item finishes and releases once, so fairness of "some item" reaches all.*)
(***************************************************************************)
Fairness ==
    /\ WF_vars(Loop)
    /\ WF_vars(\E i \in DOMAIN items : Finish(i))
    /\ WF_vars(\E i \in DOMAIN items : Release(i))

FairSpec == Spec /\ Fairness
-------------------------------------------------------------------------------
TypeOK ==
    /\ items \in Declarations
    /\ limit \in Nat \ {0}
    /\ st \in [DOMAIN items -> {"pending", "running", "returned", "released"}]
    /\ main \in {"scanning", "waiting", "woken", "returned"}
    /\ heldPorts \subseteq Port
    /\ DOMAIN heldDirs \subseteq Path
    /\ running \in Nat
    /\ started \in Nat
    /\ maxConcurrent \in Nat
    /\ cancelled \in BOOLEAN

(***************************************************************************)
(* The locks held are exactly those of the items that have started and not *)
(* released: a release that dropped too much would free a tree somebody    *)
(* writes into, one that dropped too little would block its neighbours     *)
(* until the end.                                                          *)
(***************************************************************************)
LocksMatchHolders ==
    /\ heldPorts = UNION { items[i].ports : i \in Holding }
    /\ DOMAIN heldDirs = UNION { Paths(items[i]) : i \in Holding }
    /\ \A i \in Holding : \A p \in Paths(items[i]) : heldDirs[p] = ToBag(occupied(items[i]))[p]
    /\ running = Cardinality(Holding)

\* Items i and j of the list are a pair Conflicts names.
InConflict(i, j) == <<i, j>> \in Pairs(Conflicts(items)) \/ <<j, i>> \in Pairs(Conflicts(items))

(***************************************************************************)
(* No sleep that should not be: while the loop is parked and no item has   *)
(* given anything back, every pending item is blocked by the limit, a      *)
(* cancellation, or a pair Conflicts names with an item still holding.     *)
(***************************************************************************)
WorkConserving ==
    main = "waiting" =>
        \/ cancelled
        \/ Cardinality(Holding) = limit
        \/ \A i \in Pending : \E j \in Holding : InConflict(i, j)

(***************************************************************************)
(* When Run returns nothing is inside the caller's function and no lock is *)
(* held, and Started tells a run cut short from one that finished.         *)
(***************************************************************************)
ReturnedClean ==
    main = "returned" =>
        /\ Holding = {}
        /\ heldPorts = {} /\ heldDirs = EmptyBag
        /\ started = Cardinality(DOMAIN items \ Pending)
        /\ started < Len(items) => cancelled

(***************************************************************************)
(* MaxConcurrent of 1 means the run could test nothing about concurrency:  *)
(* an uncancelled run reports more as soon as the limit allows two items   *)
(* and some two of them share nothing.                                     *)
(***************************************************************************)
ConcurrencyReached ==
    main = "returned" /\ ~cancelled /\ maxConcurrent <= 1 =>
        \/ limit = 1
        \/ \A i, j \in DOMAIN items : i # j => InConflict(i, j)

\* The loop with its locks, mutex and condition variable does what BoundedExclusion says.
Abstract == INSTANCE BoundedExclusion WITH
    count <- Len(items),
    pairs <- Pairs(Conflicts(items)),
    inside <- Inside,
    left <- { i \in DOMAIN items : st[i] \in {"returned", "released"} }

ImplementsBoundedExclusion == Abstract!Spec

\* Run returns: every wait is ended by a release, whatever order they come in.
RunReturns == <>(main = "returned")
===============================================================================
