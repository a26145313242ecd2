------------------------------ MODULE Affected ------------------------------
(***************************************************************************)
(* Which components a change could have broken (internal/affected), from   *)
(* the paths it touches alone.  What is not understood widens: a path no   *)
(* component claims selects every one of them.                             *)
(***************************************************************************)
EXTENDS FiniteSets, Naturals

CONSTANTS Components,
          Files,
          Under,         \* component -> the files below its directory
          Watch,         \* component -> the files its watch patterns name
          DependsOn,     \* component -> the components it declares it depends on
          AtRoot,        \* the components rooted at ".", which contain every file
          Invalidators   \* configuration, workflows, lockfiles, manifests, toolchains

ASSUME AffectedAssumption ==
    /\ IsFiniteSet(Components)
    /\ {Under, Watch} \subseteq [Components -> SUBSET Files]
    /\ DependsOn \in [Components -> SUBSET Components]
    /\ AtRoot \subseteq {c \in Components : Under[c] = Files}

Touched(files) == {c \in Components : files \cap (Under[c] \cup Watch[c]) # {}}

(* Being contained in a component rooted at "." is no evidence that the    *)
(* file was understood; being watched from elsewhere is.                   *)
Matched(f) ==
    \E c \in Components : IF f \in Under[c] THEN c \notin AtRoot ELSE f \in Watch[c]

Widens(f) == f \in Invalidators \/ ~Matched(f)

(* depends_on, walked backwards until nothing new depends on what is in:    *)
(* the least set that holds the seeds and all that depends on a member.    *)
Closed(set) == \A c \in Components : DependsOn[c] \cap set # {} => c \in set

Spread(seeds) ==
    {c \in Components : \A set \in SUBSET Components : seeds \subseteq set /\ Closed(set) => c \in set}

\* Mutation: the component an edge leads to is selected, its dependents are not.
SelectUnspread(files) ==
    IF \E f \in files : Widens(f) THEN Components ELSE Touched(files)

Select(files) ==
    IF \E f \in files : Widens(f) THEN Components ELSE Spread(Touched(files))
=============================================================================
