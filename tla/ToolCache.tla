----------------------------- MODULE ToolCache ------------------------------
(***************************************************************************)
(* How lydite installs what it runs, into one directory several components *)
(* of one run, and several runs of one machine, want at once: the npm      *)
(* tools (internal/typescript), the language toolchains and package        *)
(* managers (internal/toolchain), the cargo subcommands                    *)
(* (internal/cargotool), the Go programs (internal/gotool), and the        *)
(* repository's own workspace (internal/nodedeps).  Each looks, installs   *)
(* beside the directory or in it, and answers; a mutex covers one process  *)
(* at most, and a process may be killed between any two steps.             *)
(*                                                                         *)
(* A directory is the set of what is in it; a model follows one directory. *)
(***************************************************************************)
EXTENDS FiniteSets

CONSTANTS Actors,      \* the goroutines that want it
          Process,     \* actor -> the process it is a goroutine of
          Env,         \* actor -> the environment its component declares
          Kinds,       \* which of the installers
          Remains      \* kind -> what earlier runs may have left of the directory

Parts == {"dir", "rest", "bin", "config"}
Absent == {}
Empty == {"dir"}
Full == {"dir", "rest", "bin"}
Whole(content) == Full \subseteq content

Nobody == "nobody"

ASSUME ToolCacheAssumption ==
    /\ IsFiniteSet(Actors)
    /\ Kinds \subseteq {"npm", "toolchain", "cargo", "go", "workspace"}
    /\ \A k \in Kinds : Absent \in Remains[k] /\ Remains[k] \subseteq SUBSET Parts
    /\ "toolchain" \in Kinds => \A r \in Remains["toolchain"] : r # Absent => Whole(r)
    /\ \A k \in Kinds \ {"workspace"} : \A r \in Remains[k] : "bin" \in r => Whole(r)
    /\ Nobody \notin Actors \cup {Env[a] : a \in Actors}

VARIABLES kind,       \* the installer
          slot,       \* what the directory holds
          pc,         \* actor -> where it is
          lock,       \* process -> who holds its mutex of this directory
          installed,  \* process -> the environment its install of a workspace ran under
          aside,      \* the actors that have moved a directory aside
          faulted,    \* history: the actors one of whose commands failed
          found       \* history: the actors that found their tool when they ran it

vars == <<kind, slot, pc, lock, installed, aside, faulted, found>>

Processes == {Process[a] : a \in Actors}
Mine(a) == Process[a]

Installing == {"staging", "renaming", "outraced", "setting aside", "replacing", "building", "filling"}
Over == {"used", "failed", "killed"}

-----------------------------------------------------------------------------
Init ==
    /\ kind \in Kinds
    /\ slot \in Remains[kind]
    /\ pc = [a \in Actors |-> "looking"]
    /\ lock = [p \in Processes |-> Nobody]
    /\ installed = [p \in Processes |-> Nobody]
    /\ aside = {} /\ faulted = {} /\ found = {}

(* Installed: a toolchain's directory is a finished install; a tool is     *)
(* looked for in it; a workspace is what this process has installed.       *)
Present(a) ==
    CASE kind = "toolchain" -> slot # Absent
      [] kind = "workspace" -> installed[Mine(a)] # Nobody
      [] OTHER              -> "bin" \in slot

(* A workspace another component has installed is shared under one          *)
(* environment or not at all.                                              *)
Answer(a) ==
    IF kind = "workspace" /\ installed[Mine(a)] # Env[a] THEN "failed" ELSE "answered"

Locks == kind \in {"cargo", "workspace"}
Released(a) == IF lock[Mine(a)] = a THEN [lock EXCEPT ![Mine(a)] = Nobody] ELSE lock

(* Every end of an install releases the mutex.                              *)
Ends(a, how) ==
    /\ pc' = [pc EXCEPT ![a] = how]
    /\ lock' = Released(a)

Goes(a, where) == pc' = [pc EXCEPT ![a] = where] /\ UNCHANGED lock

FirstStep ==
    CASE kind \in {"npm", "toolchain", "cargo"} -> "staging"
      [] OTHER                                  -> "building"

Look(a) ==
    /\ pc[a] = "looking"
    /\ Goes(a, IF Present(a) THEN Answer(a) ELSE IF Locks THEN "waiting" ELSE FirstStep)
    /\ UNCHANGED <<kind, slot, installed, aside, faulted, found>>

\* Mutation: the install waited for is not looked for again.
AcquireUnchecked(a) ==
    /\ pc[a] = "waiting" /\ lock[Mine(a)] = Nobody
    /\ pc' = [pc EXCEPT ![a] = FirstStep]
    /\ lock' = [lock EXCEPT ![Mine(a)] = a]
    /\ UNCHANGED <<kind, slot, installed, aside, faulted, found>>

(* The mutex, and under it a second look: the install waited for is very    *)
(* likely the one to be done.                                              *)
Acquire(a) ==
    /\ pc[a] = "waiting" /\ lock[Mine(a)] = Nobody
    /\ IF Present(a)
         THEN Goes(a, Answer(a))
         ELSE /\ pc' = [pc EXCEPT ![a] = FirstStep]
              /\ lock' = [lock EXCEPT ![Mine(a)] = a]
    /\ UNCHANGED <<kind, slot, installed, aside, faulted, found>>

-----------------------------------------------------------------------------
(* An install beside the directory, renamed into place.                     *)

\* Mutation: what is fetched is unpacked where it is to stand.
StageInPlace(a) ==
    /\ pc[a] = "staging"
    /\ slot' = slot \cup {"dir", "rest"}
    /\ Goes(a, "filling")
    /\ UNCHANGED <<kind, installed, aside, faulted, found>>

Stage(a) ==
    /\ pc[a] = "staging"
    /\ Goes(a, "renaming")
    /\ UNCHANGED <<kind, slot, installed, aside, faulted, found>>

(* No prebuilt release, or one that cannot be had: cargo builds it.         *)
StageFails(a) ==
    /\ pc[a] = "staging"
    /\ IF kind = "cargo" THEN Goes(a, "building") /\ UNCHANGED faulted
                         ELSE Ends(a, "failed") /\ faulted' = faulted \cup {a}
    /\ UNCHANGED <<kind, slot, installed, aside, found>>

(* os.Rename refuses any directory that is there, an empty one too.         *)
Rename(a) ==
    /\ pc[a] = "renaming"
    /\ IF slot = Absent
         THEN slot' = Full /\ Ends(a, "answered")
         ELSE Goes(a, "outraced") /\ UNCHANGED slot
    /\ UNCHANGED <<kind, installed, aside, faulted, found>>

\* Mutation: a directory in the way is an error.
OutracedFails(a) ==
    /\ pc[a] = "outraced"
    /\ IF Present(a) THEN Ends(a, "answered") ELSE Ends(a, "failed")
    /\ UNCHANGED <<kind, slot, installed, aside, faulted, found>>

(* Somebody else's install is as good; a directory without the tool is a   *)
(* husk, which npm's tools move out of the way and cargo builds into.      *)
Outraced(a) ==
    /\ pc[a] = "outraced"
    /\ IF Present(a) THEN Ends(a, "answered")
       ELSE IF kind = "npm" THEN Goes(a, "setting aside")
       ELSE IF kind = "cargo" THEN Goes(a, "building")
       ELSE Ends(a, "failed")
    /\ UNCHANGED <<kind, slot, installed, aside, faulted, found>>

SetAside(a) ==
    /\ pc[a] = "setting aside"
    /\ IF slot = Absent
         THEN Ends(a, "failed") /\ UNCHANGED <<slot, aside>>
         ELSE slot' = Absent /\ aside' = aside \cup {a} /\ Goes(a, "replacing")
    /\ UNCHANGED <<kind, installed, faulted, found>>

Replace(a) ==
    /\ pc[a] = "replacing"
    /\ IF slot = Absent
         THEN slot' = Full /\ Ends(a, "answered")
         ELSE Ends(a, "failed") /\ UNCHANGED slot
    /\ UNCHANGED <<kind, installed, aside, faulted, found>>

-----------------------------------------------------------------------------
(* An install into the directory itself.  A package manager's frozen       *)
(* install takes the old tree down first; the others add to what is there, *)
(* the executable last.                                                    *)
Build(a) ==
    /\ pc[a] = "building"
    /\ slot' = (IF kind = "workspace" THEN slot \ {"bin"} ELSE slot) \cup {"dir", "rest"}
    /\ Goes(a, "filling")
    /\ UNCHANGED <<kind, installed, aside, faulted, found>>

Fill(a) ==
    /\ pc[a] = "filling"
    /\ slot' = slot \cup Full
    /\ installed' = IF kind = "workspace" THEN [installed EXCEPT ![Mine(a)] = Env[a]] ELSE installed
    /\ Ends(a, "answered")
    /\ UNCHANGED <<kind, aside, faulted, found>>

BuildFails(a) ==
    /\ pc[a] \in {"building", "filling"}
    /\ Ends(a, "failed")
    /\ faulted' = faulted \cup {a}
    /\ UNCHANGED <<kind, slot, installed, aside, found>>

-----------------------------------------------------------------------------
(* Biome's configuration is written beside it, once it is there.            *)
WriteConfig(a) ==
    /\ pc[a] = "answered" /\ kind = "npm"
    /\ IF slot = Absent THEN Ends(a, "failed") /\ UNCHANGED slot
                        ELSE slot' = slot \cup {"config"} /\ Goes(a, "configured")
    /\ UNCHANGED <<kind, installed, aside, faulted, found>>

Use(a) ==
    /\ pc[a] = IF kind = "npm" THEN "configured" ELSE "answered"
    /\ found' = IF Whole(slot) /\ (kind = "npm" => "config" \in slot)
                  THEN found \cup {a} ELSE found
    /\ Goes(a, "used")
    /\ UNCHANGED <<kind, slot, installed, aside, faulted>>

(* A process is killed with all its goroutines; its mutex goes with it.     *)
Kill(p) ==
    /\ pc' = [a \in Actors |-> IF Mine(a) = p /\ pc[a] \notin Over THEN "killed" ELSE pc[a]]
    /\ pc' # pc
    /\ lock' = [lock EXCEPT ![p] = Nobody]
    /\ UNCHANGED <<kind, slot, installed, aside, faulted, found>>

Step(a) ==
    \/ Look(a) \/ Acquire(a)
    \/ Stage(a) \/ StageFails(a) \/ Rename(a) \/ Outraced(a) \/ SetAside(a) \/ Replace(a)
    \/ Build(a) \/ Fill(a) \/ BuildFails(a)
    \/ WriteConfig(a) \/ Use(a)

Next == (\E a \in Actors : Step(a)) \/ (\E p \in Processes : Kill(p))

Spec == Init /\ [][Next]_vars

-----------------------------------------------------------------------------
Common == {"looking", "answered", "used", "failed", "killed"}
Beside == {"staging", "renaming", "outraced"}
InPlace == {"building", "filling"}

(* The steps an installer takes.                                            *)
Route(k) ==
    CASE k = "npm"       -> Common \cup Beside \cup {"setting aside", "replacing", "configured"}
      [] k = "toolchain" -> Common \cup Beside
      [] k = "cargo"     -> Common \cup Beside \cup InPlace \cup {"waiting"}
      [] k = "go"        -> Common \cup InPlace
      [] k = "workspace" -> Common \cup InPlace \cup {"waiting"}

(* The state's shape.                                                       *)
TypeOK ==
    /\ kind \in Kinds
    /\ slot \in SUBSET Parts
    /\ pc \in [Actors -> Route(kind)]
    /\ lock \in [Processes -> Actors \cup {Nobody}]
    /\ installed \in [Processes -> {Env[a] : a \in Actors} \cup {Nobody}]
    /\ {aside, faulted, found} \subseteq SUBSET Actors

(* No interrupted or unfinished install passes for a finished one           *)
(* (install.go:23, npm.go:50): whatever was killed in between, a tool is    *)
(* answered when the whole of it is there.                                 *)
AnsweredWhole ==
    [][\A a \in Actors :
         pc[a] # "answered" /\ pc'[a] = "answered" /\ kind # "workspace"
         => Whole(slot')]_vars

(* An install recovers from what an earlier one left (npm.go:76,            *)
(* cargotool.go:83): unless a command of its own fails, or its component    *)
(* declares another environment than the one that installed, it fails only *)
(* where a husk was moved aside and another install got past its rename.   *)
HealsAlone ==
    \A a \in Actors : pc[a] = "failed" =>
        \/ a \in faulted
        \/ kind = "workspace" /\ installed[Mine(a)] \notin {Nobody, Env[a]}
        \/ /\ kind = "npm" /\ aside # {}
           /\ \E b \in Actors \ {a} : pc[b] \notin {"looking", "staging", "renaming"}

(* One install of a directory at a time in a process (cargotool.go:118,     *)
(* nodedeps.go:475), and a workspace is shared on its component's terms:   *)
(* whoever was answered had it installed under its own environment, and no *)
(* goroutine of its process takes it down again.                           *)
SharedOnItsTerms ==
    \A a, b \in Actors : a # b /\ Mine(a) = Mine(b) /\ Locks /\ pc[b] \in Installing =>
        /\ pc[a] \notin Installing
        /\ kind = "workspace" => pc[a] # "answered" /\ installed[Mine(a)] = Nobody

(* replaceStaleToolchain (npm.go:95): a process that holds the tool keeps   *)
(* it while another one replaces a husk; nothing answered is taken away.   *)
ToolStays ==
    kind = "npm" => \A a \in Actors : pc[a] = "used" => a \in found
=============================================================================
