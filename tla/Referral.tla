------------------------------ MODULE Referral ------------------------------
(***************************************************************************)
(* The referral decision (internal/referral, internal/reviewdecision):     *)
(* whether a change may merge unread, and for which reasons it may not.    *)
(* Three callers take it over different evidence - a review over all of    *)
(* it, a clearance over all but the scan, a merge-queue entry over the     *)
(* diff alone - and a clearance is compared with a queue entry by the      *)
(* fingerprint of the two decisions.                                       *)
(*                                                                         *)
(* A change is a record of what the decision reads of a diff:              *)
(*   paths     the paths it touches                                        *)
(*   marks     the disqualifying lines and paths in it, as <<kind, path>>  *)
(*   declared  whether its title or a commit declares an API break         *)
(*   surfaces  each opted-in component's comparison                        *)
(*   deps      each touched manifest's dependency delta                    *)
(* An exemptions file is a set of [covers, conditional] records.           *)
(***************************************************************************)
EXTENDS FiniteSets

CONSTANTS Paths,        \* the paths a change may touch
          RulesPath     \* the exemptions file's own path

Surfaces == {"same", "broken", "uncomputable"}
Deltas == {"patch", "major", "added", "unmeasured"}

Exemption == [covers : SUBSET Paths, conditional : BOOLEAN]

(* What is declared beside the diff is no path of it. *)
NoPath == "no path"

-----------------------------------------------------------------------------
(* referral.Decide: one exemption has to cover every path, its condition   *)
(* has to be met, and any disqualification vetoes it.                      *)

Covers(e, paths) == paths \subseteq e.covers

Satisfied(e, patchAndMinor) == e.conditional => patchAndMinor

Uncovered(paths, file) ==
    {p \in paths : \A e \in file : ~Covers(e, {p})}

Bundled(paths) == IF RulesPath \in paths THEN paths \ {RulesPath} ELSE {}

Decide(change, file, patchAndMinor) ==
    LET exempt == \E e \in file : Covers(e, change.paths) /\ Satisfied(e, patchAndMinor)
        empty  == change.paths = {}
    IN  [referred   |-> ~empty /\ (~exempt \/ change.marks # {}),
         uncovered  |-> IF empty \/ exempt THEN {} ELSE Uncovered(change.paths, file),
         reasons    |-> change.marks,
         bundled    |-> Bundled(change.paths)]

(* Fingerprint hashes the set of uncovered paths and of (kind, path) pairs *)
(* and nothing else: two decisions that refer for the same reasons agree.  *)
Fingerprint(d) == <<d.uncovered, d.reasons>>

-----------------------------------------------------------------------------
(* The evidence a review adds, none of which can take a referral back.     *)

Refer(d, added) == [d EXCEPT !.reasons = @ \cup added, !.referred = @ \/ added # {}]

SurfaceReasons(change) ==
    (IF change.declared THEN {<<"api break declared", NoPath>>} ELSE {})
      \cup {<<"api surface could not be compared", c>> :
              c \in {c \in DOMAIN change.surfaces : change.surfaces[c] = "uncomputable"}}

DependencyReasons(change) ==
    {<<"dependency delta could not be measured", p>> :
        p \in {p \in DOMAIN change.deps : change.deps[p] = "unmeasured"}}
      \cup {<<"dependency added", p>> :
              p \in {p \in DOMAIN change.deps : change.deps[p] = "added"}}

VersionsPatchAndMinor(change) == \A p \in DOMAIN change.deps : change.deps[p] = "patch"

ReviewDecision(change, file, scanned) ==
    Refer(Decide(change, file, VersionsPatchAndMinor(change) /\ scanned),
          SurfaceReasons(change) \cup DependencyReasons(change))

(* The verdict is the worst outcome: an exemptions edit that is not alone   *)
(* and an undeclared API break fail, everything else in doubt refers.       *)
Verdict(change, d) ==
    LET broken == \E c \in DOMAIN change.surfaces : change.surfaces[c] = "broken"
    IN  IF d.bundled # {} \/ (broken /\ ~change.declared) THEN "fail"
        ELSE IF d.referred \/ d.reasons # {} \/ broken THEN "refer"
        ELSE "pass"

StateFor(verdict) ==
    CASE verdict = "fail"  -> "failure"
      [] verdict = "refer" -> "pending"
      [] OTHER             -> "success"

(* A run that holds a credential builds nothing a change can write to, and *)
(* without a comparison document to read its surfaces are uncomputable.     *)
Guarded(change) ==
    [change EXCEPT !.surfaces = [c \in DOMAIN change.surfaces |-> "uncomputable"]]

(* The clearance's own recomputation, with no scan document to read.        *)
ClearedDecision(change, file, compared) ==
    ReviewDecision(IF compared THEN change ELSE Guarded(change), file, FALSE)

(* The queue's recomputation: the diff and the base's exemptions alone.     *)
DecideFromDiff(change, file) == Decide(change, file, FALSE)
=============================================================================
