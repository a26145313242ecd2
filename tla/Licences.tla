------------------------------- MODULE Licences -------------------------------
(***************************************************************************)
(* The licence gate of `lydite scan`: how each language's dependencies are *)
(* read, which of them the repository's policy rejects, and what comparing *)
(* them with the merge-base decides (internal/licence and the licence.go   *)
(* or deny.go of each language).                                           *)
(*                                                                         *)
(* A licence is the set of identifiers stated for a package, any one of    *)
(* which satisfies the policy; the empty set is one nobody could name.     *)
(***************************************************************************)
EXTENDS Naturals, FiniteSets, Sequences, SequencesExt

Unknown == {}

\* The identifiers detected in a package's files, blanks left out.
Expression(ids) == ids \ {""}

\* What the SPDX parser cannot read is no licence the policy can allow.
Readable(licence) == licence # Unknown /\ "?" \notin licence

(***************************************************************************)
(* A policy is its allow-list; an empty one was never stated.              *)
(***************************************************************************)
Configured(policy) == policy # {}

Evaluate(policy, d) ==
    IF ~Configured(policy) THEN "not configured"
    ELSE IF ~Readable(d.licence) THEN "unclassifiable"
    ELSE IF d.licence \cap policy # {} THEN "conforms"
    ELSE "rejected"

\* A set is keyed by package and licence and never by version.
NewSet(deps) == { <<d.package, d.licence>> : d \in deps }

Reject(policy, deps) ==
    NewSet({ d \in deps : Evaluate(policy, d) = "rejected" })
        \cup { <<d.package, Unknown>> : d \in { e \in deps : Evaluate(policy, e) = "unclassifiable" } }

(***************************************************************************)
(* What the merge-base held: nothing to ask, a set, or no answer.          *)
(***************************************************************************)
NoDiffBase == [state |-> "none", set |-> {}]
MeasuredBase(set) == [state |-> "measured", set |-> set]
UnmeasuredBase == [state |-> "unmeasured", set |-> {}]

Comparison(verdict, pairs) == [verdict |-> verdict, pairs |-> pairs]

\* By pair: a new version under the same licence introduces nothing.
Without(current, base) == current \ base

Compare(policy, current, base) ==
    IF ~Configured(policy) THEN Comparison("not configured", {})
    ELSE CASE base.state = "none" -> Comparison("context", current)
           [] base.state = "unmeasured" -> Comparison("unmeasured", current)
           [] OTHER -> LET introduced == Without(current, base.set)
                       IN  Comparison(IF introduced = {} THEN "pass" ELSE "fail", introduced)

\* A read of a dependency set: it failed, or this is the set.
Read(set) == [err |-> FALSE, set |-> set]
NotRead == [err |-> TRUE, set |-> {}]

\* A claim's site is the pair itself, so no two of a component share one.
LicenceFindings(pairs) == { <<pair, 0>> : pair \in pairs }

-------------------------------------------------------------------------------
(***************************************************************************)
(* Go: the packages `go list -deps` names.  The standard library, the main *)
(* module and a package of no module are nobody's dependency.  A module is *)
(* classified by the licence files at its root; a file that is not one, or *)
(* deeper in the tree, or that nobody recognises, says nothing of it.      *)
(***************************************************************************)
classifyModule(files) == UNION { f.ids : f \in { g \in files : g.named /\ ~g.deeper } }

GoListRuns(pkgs) == { [ok |-> TRUE, pkgs |-> pkgs], [ok |-> FALSE, pkgs |-> {}] }

goDependencies(pkgs) ==
    { [package |-> p.module, licence |-> Expression(classifyModule(p.files))] :
        p \in { q \in pkgs : ~q.standard /\ ~q.main /\ q.module # "" } }

goLicenceSet(run, policy) ==
    IF run.ok THEN Read(Reject(policy, goDependencies(run.pkgs))) ELSE NotRead

-------------------------------------------------------------------------------
(***************************************************************************)
(* Rust: the policy is the repository's, the component's own deny.toml's,  *)
(* or nobody's, and cargo-deny is the one that applies it.  `denyToml` is  *)
(* the set of such files, none or one, each the licences it allows: one    *)
(* that allows none is a policy all the same, under which no crate passes. *)
(* cargo-deny states one error per crate the policy rejects, by the text   *)
(* it rejected, and fails when there is one.  It may also fail over        *)
(* something no crate is named in, or be killed half-way through its       *)
(* stream.                                                                 *)
(***************************************************************************)
PolicyFor(denyToml, policy) ==
    IF Configured(policy) THEN "lydite" ELSE IF denyToml # {} THEN "consumer" ELSE "none"

\* The licences its deny.toml allows.
Allowed(denyToml) == UNION denyToml

Stated(allow, crates) ==
    { [severity |-> "error",
       code     |-> IF d.licence = Unknown THEN "unlicensed" ELSE "rejected",
       package  |-> d.package, licence |-> d.licence] :
         d \in { e \in crates : ~Readable(e.licence) \/ e.licence \cap allow = {} } }

DenyLicenceRuns(allow, crates) ==
    LET all == Stated(allow, crates)
        nameless == [severity |-> "error", code |-> "config", package |-> "", licence |-> Unknown]
    IN  { [ok |-> all = {}, stream |-> all, cut |-> FALSE],
          [ok |-> FALSE, stream |-> {nameless}, cut |-> FALSE] }
        \cup { [ok |-> FALSE, stream |-> part, cut |-> TRUE] : part \in (SUBSET all) \ {{}, all} }

denyLicenceOf(d) == IF d.code = "unlicensed" THEN Unknown ELSE d.licence

rustDependencies(stream) ==
    { [package |-> d.package, licence |-> denyLicenceOf(d)] :
        d \in { e \in stream : e.severity = "error" /\ e.package # "" } }

denyLicenceSet(run) ==
    IF ~run.ok /\ rustDependencies(run.stream) = {}
    THEN NotRead
    ELSE Read(NewSet(rustDependencies(run.stream)))

\* No policy of anyone's is no run at all.
rustLicenceSet(source, installed, run) ==
    CASE source = "none" -> Read({})
      [] source # "none" /\ ~installed -> NotRead
      [] OTHER -> denyLicenceSet(run)

\* The component's own deny.toml is absolute: it says nothing of the base.
licenceVerdict(policy, source, current, base) ==
    CASE source = "lydite"   -> Compare(policy, current, base)
      [] source = "consumer" -> Comparison(IF current = {} THEN "pass" ELSE "fail", current)
      [] OTHER               -> Comparison("not configured", {})

-------------------------------------------------------------------------------
(***************************************************************************)
(* TypeScript: a directory is the sequence of its names under the scan     *)
(* root, and the lockfiles in it name package managers.  The workspace     *)
(* root is the nearest directory holding a lockfile, and has one manager.  *)
(***************************************************************************)
Above(dir) == { SubSeq(dir, 1, n) : n \in 0..Len(dir) }

WorkspaceRoot(lockfiles, dir) ==
    LET holding == { d \in Above(dir) : lockfiles[d] # {} }
        nearest == CHOOSE d \in holding : \A e \in holding : Len(e) <= Len(d)
    IN  IF holding # {} /\ Cardinality(lockfiles[nearest]) = 1 THEN <<nearest>> ELSE <<>>

Modules(dir, name) == dir \o <<"node_modules", name>>

IsModules(dir) == dir # <<>> /\ Last(dir) = "node_modules"

(***************************************************************************)
(* The entry an import of `name` from `from` reaches, by Node's own walk   *)
(* up the tree: the nearest node_modules above it that holds the name.     *)
(***************************************************************************)
resolveEntry(lock, from, name) ==
    LET found == { d \in Above(from) : ~IsModules(d) /\ Modules(d, name) \in DOMAIN lock }
    IN  IF found = {} THEN {}
        ELSE { Modules(CHOOSE d \in found : \A e \in found : Len(e) <= Len(d), name) }

\* Only the member's own development dependencies are installed for it.
requires(p, dev) == p.dependencies \cup (IF dev THEN p.devDependencies ELSE {})

\* A link stands for the workspace member it points at.
followed(lock, target) ==
    {target} \cup IF lock[target].link /\ lock[target].resolved \in DOMAIN lock
                  THEN {lock[target].resolved} ELSE {}

memberClosure(lock, member) ==
    LET next(from) == UNION { UNION { followed(lock, t) : t \in resolveEntry(lock, from, name) } :
                                name \in requires(lock[from], from = member) }
        reached[n \in 0..Cardinality(DOMAIN lock)] ==
            IF n = 0 THEN next(member)
            ELSE reached[n - 1] \cup UNION { next(p) : p \in reached[n - 1] }
    IN  reached[Cardinality(DOMAIN lock)]

\* The root's lockfile describes the whole workspace; a member's part of it
\* is what the member reaches.
lockfileDependencies(lock, member) ==
    IF member # <<>> /\ member \notin DOMAIN lock THEN NotRead
    ELSE LET paths == IF member = <<>> THEN DOMAIN lock ELSE memberClosure(lock, member)
             named(p) == Len(p) > 1 /\ p[Len(p) - 1] = "node_modules"
         IN  Read({ [package |-> Last(p), licence |-> Expression(lock[p].licence)] :
                      p \in { q \in paths : named(q) /\ ~lock[q].link } })

\* What is installed, but for the links back into the workspace's own source.
installedDependencies(installed) ==
    { [package |-> e.name, licence |-> IF e.manifest THEN Expression(e.licence) ELSE Unknown] :
        e \in { f \in installed : f.directory /\ ~f.local } }

(***************************************************************************)
(* A checkout: its lockfiles, npm's lock and, where an install ran, what   *)
(* it installed.  A tree nothing was installed in answers for npm alone.   *)
(***************************************************************************)
typescriptLicenceSet(checkout, dir, policy) ==
    LET root == WorkspaceRoot(checkout.lockfiles, dir)
        member == SubSeq(dir, Len(root[1]) + 1, Len(dir))
        read == lockfileDependencies(checkout.lock, member)
    IN  IF root = <<>> THEN NotRead
        ELSE IF checkout.lockfiles[root[1]] = {"npm"}
        THEN IF read.err THEN NotRead ELSE Read(Reject(policy, read.set))
        ELSE IF member # <<>> \/ ~checkout.install THEN NotRead
        ELSE Read(Reject(policy, installedDependencies(checkout.installed)))
===============================================================================
