--------------------------------- MODULE Scan ---------------------------------
(***************************************************************************)
(* `lydite scan` and what a recording makes of its document.  A repository *)
(* declares components; a scan plans each, runs its language's scanners,   *)
(* gates its licences, runs the root-scoped scanners and reports rows,     *)
(* claims and the gates that crashed.  A change is scanned against its     *)
(* merge-base and the rows decide it.  What landed is scanned with no base *)
(* and recorded: a claim of a bucket the scan measured, open on the state  *)
(* branch and not in the document, is recorded resolved for good.          *)
(*                                                                         *)
(* A bucket is one gate over one component, "" for the whole repository; a *)
(* claim is a bucket and a fingerprint.                                    *)
(***************************************************************************)
EXTENDS Scanners, Licences

CONSTANTS Repos,            \* the repositories, each with the trees it may hold
          MaxRecordings     \* how often one is recorded

(***************************************************************************)
(* What a tree can hold.  A lint is in a crate of the workspace, the crates *)
(* cargo-deny walks are those the component ships, and what no SPDX parser  *)
(* can read is no licence a deny.toml allows.  What Biome claims is at a    *)
(* line, and what it was not asked for is not what it was.                  *)
(***************************************************************************)
WellFormed(lang, truth) ==
    CASE lang = "rust" ->
           /\ { o.unit : o \in truth.lints } \cup truth.broken \subseteq ToSet(truth.crates)
           /\ truth.carries = truth.ships
           /\ \A d \in truth.ships :
                /\ d.package # ""
                /\ "?" \in d.licence => d.licence \cap Allowed(truth.denyToml) = {}
           /\ \A a, b \in truth.denyToml : a = b
      [] lang = "typescript" ->
           /\ Located(truth.claims) = truth.claims
           /\ "lint/asked" \notin truth.opinions
      [] OTHER -> TRUE

\* LoadComponents refuses a declaration of none, and each has a name of its own.
Declared(components) ==
    /\ Len(components) \in Nat \ {0}
    /\ DOMAIN components = 1..Len(components)
    /\ \A i, j \in DOMAIN components :
         /\ components[i].name # ""
         /\ components[i].name = components[j].name => i = j

ASSUME ScanAssumption ==
    /\ MaxRecordings \in Nat
    /\ \A r \in Repos :
         /\ Declared(r.components)
         /\ 1 \in DOMAIN r.trees
         /\ \A t \in ToSet(r.trees), c \in ToSet(r.components) :
              c.lang \in r.enabled /\ c.dir \in DOMAIN t.at => WellFormed(c.lang, t.at[c.dir])

VARIABLES repo,       \* the repository
          main,       \* the tree last recorded
          tree,       \* the tree being scanned
          baseSHA,    \* the tree it is compared with, or none
          stage, at,  \* the stage, and the component it is at
          worktree,   \* the base's checkout: unopened, open or failed
          checks,     \* the results so far, by bucket
          licences,   \* the licence verdicts so far, by component
          rows, claims, crashed,  \* the report's document
          open,       \* the claims the state branch holds open
          cut,        \* the buckets whose tool was cut short unseen
          recordings

scanVars == <<repo, main, tree, baseSHA, stage, at, worktree, checks, licences,
              rows, claims, crashed, open, cut, recordings>>

history == INSTANCE Ledger
    WITH Commit <- {}, Branch <- {}, Recording <- {}, Bucket <- {}, Fingerprint <- {},
         NoCommit <- 0, Unknown <- -1, Chain <- <<>>, Past <- <<>>, Date <- <<>>,
         DayLength <- 1, MonthLength <- 1, lookbackMonths <- 1

Components == DOMAIN repo.components

Named(i) == repo.components[i].name
Language(i) == repo.components[i].lang
Dir(i) == repo.components[i].dir

\* The truth about a component's directory in a tree.
Truth(t, i) == t.at[Dir(i)]

-------------------------------------------------------------------------------
(***************************************************************************)
(* What is scanned.  Whether lydite has scanners for a language is asked   *)
(* before whether the repository left them on: a component nothing could   *)
(* scan says so, whatever the configuration.                               *)
(***************************************************************************)
Scanned(lang) == lang \in {"go", "rust", "typescript", "shell"}

Enabled(lang) == lang \in repo.enabled

Key(i) == <<Language(i), Dir(i), repo.components[i].env>>

Disposition(i) ==
    CASE ~Scanned(Language(i)) -> "unscanned"
      [] Scanned(Language(i)) /\ ~Enabled(Language(i)) -> "disabled"
      [] OTHER -> IF \E j \in Components : j < i /\ Key(j) = Key(i) THEN "duplicate" ELSE "scan"

FindingGates(lang) ==
    CASE lang = "go" -> {"gosec", "govulncheck", "licence"}
      [] lang = "rust" -> {"cargo clippy", "cargo-audit", "cargo-deny", "licence"}
      [] lang = "typescript" -> {"biome", "licence"}
      [] lang = "shell" -> {"shellcheck"}
      [] OTHER -> {}

-------------------------------------------------------------------------------
(***************************************************************************)
(* The checks a language implies, over what is true of the directory.  A   *)
(* tool that could not be installed costs its own row alone.               *)
(***************************************************************************)
GoCheck(truth) ==
    { [gate \in {"gosec", "govulncheck"} |-> IF gate = "gosec" THEN a ELSE b] :
        a \in {Uninstalled} \cup { gosecResult(r) : r \in GosecRuns(truth) },
        b \in {Uninstalled} \cup { govulncheckResult(r) : r \in GovulncheckRuns(truth) } }

RustResults(f, c, a, d) ==
    [gate \in {"cargo fmt", "cargo clippy", "cargo-audit", "cargo-deny"} |->
        CASE gate = "cargo fmt"    -> f
          [] gate = "cargo clippy" -> c
          [] gate = "cargo-audit"  -> a
          [] gate = "cargo-deny"   -> d]

RustCheck(truth) ==
    { RustResults(f, c, a, d) :
        f \in { fmtResult(r) : r \in FmtRuns(truth) },
        c \in { clippyResult(r) : r \in ClippyRuns(truth) },
        a \in {Uninstalled} \cup { auditResult(r) : r \in AuditRuns(truth) },
        d \in {Uninstalled} \cup { denyResult(r) : r \in DenyRuns(truth) } }

TypescriptCheck(truth) ==
    { [gate \in {"biome"} |-> b] : b \in {Uninstalled} \cup { lintDirBiome(r) : r \in BiomeRuns(truth) } }

ShellCheck(truth) ==
    { [gate \in {"shellcheck"} |-> s] :
        s \in {Uninstalled} \cup UNION { shellCheck(truth, listed) : listed \in BOOLEAN } }

checksFor(lang, truth) ==
    CASE lang = "go"         -> GoCheck(truth)
      [] lang = "rust"       -> RustCheck(truth)
      [] lang = "typescript" -> TypescriptCheck(truth)
      [] lang = "shell"      -> ShellCheck(truth)

SemgrepCheck ==
    LET base == IF repo.token \/ baseSHA = <<>> THEN {} ELSE baseSHA[1].semgrep.results
    IN  {Uninstalled} \cup { reportResult(r) :
            r \in SemgrepRuns(buildArgs(repo.token, base), tree.semgrep) }

SecretsCheck ==
    {Uninstalled} \cup { gitleaksResult(r, tree.secrets, scope) :
        r \in GitleaksRuns(tree.secrets), scope \in Scopes(tree.secrets) }

\* What was there with what is added, no key of which was there before.
With(f, g) == [x \in DOMAIN f \cup DOMAIN g |-> IF x \in DOMAIN f THEN f[x] ELSE g[x]]

\* Each result under the component it was run for.
labelled(results, component) ==
    [ b \in (DOMAIN results) \X {component} |-> results[b[1]] ]

-------------------------------------------------------------------------------
(***************************************************************************)
(* The licence gate of one component, as the read of its dependencies in   *)
(* the tree and, where a policy compares them, in the base's worktree.     *)
(* The worktree is opened once for the scan and a failure is remembered.   *)
(***************************************************************************)
Opened == IF worktree # "unopened" THEN {worktree} ELSE {"open", "failed"}

\* What one read may answer in a tree, and whether it was cut short.
Answered(read, cutShort) == [read |-> read, cut |-> cutShort]

Policy(t, i) == PolicyFor(Truth(t, i).denyToml, repo.allow)

goReads(t, i) ==
    { Answered(goLicenceSet(run, repo.allow), FALSE) : run \in GoListRuns(Truth(t, i).pkgs) }

rustReads(t, i) ==
    LET source == Policy(t, i)
        allow == IF source = "lydite" THEN repo.allow ELSE Allowed(Truth(t, i).denyToml)
    IN  { Answered(rustLicenceSet(source, installed, run), run.cut) :
            installed \in BOOLEAN, run \in DenyLicenceRuns(allow, Truth(t, i).carries) }

typescriptReads(checkout, i) == { Answered(typescriptLicenceSet(checkout, Dir(i), repo.allow), FALSE) }

\* The tree as it stands.  Go and TypeScript read nothing while no policy is
\* stated, and shell has nothing to read.
CurrentReads(i) ==
    CASE Language(i) = "rust" -> rustReads(tree, i)
      [] Language(i) = "go" /\ Configured(repo.allow) -> goReads(tree, i)
      [] Language(i) = "typescript" /\ Configured(repo.allow) -> typescriptReads(tree.checkout, i)
      [] OTHER -> {Answered(Read({}), FALSE)}

\* Mutation: the base is read where the tree is, not in its worktree.
BaseReadsHere(t, i) == CurrentReads(i)

\* The base's checkout, in which nothing was installed.
BaseReads(t, i) ==
    CASE Language(i) = "rust" -> rustReads(t, i)
      [] Language(i) = "go" -> goReads(t, i)
      [] Language(i) = "typescript" -> typescriptReads([t.checkout EXCEPT !.install = FALSE], i)

\* Whether the component's policy is one that compares.
Compares(i) ==
    /\ Configured(repo.allow)
    /\ Language(i) \in {"go", "rust", "typescript"}

Base(base, cutShort, state) == [base |-> base, cut |-> cutShort, worktree |-> state]

baseOf(read) == IF read.err THEN UnmeasuredBase ELSE MeasuredBase(read.set)

\* What the open worktree answers: a component with no manifest in it held
\* nothing there.
BasesIn(t, i) ==
    IF Dir(i) \in DOMAIN t.at
    THEN { Base(baseOf(a.read), a.cut, "open") : a \in BaseReads(t, i) }
    ELSE { Base(MeasuredBase({}), FALSE, "open") }

\* The bases one component may be compared with, and the worktree after.
Bases(i) ==
    IF ~Compares(i) \/ baseSHA = <<>>
    THEN { Base(NoDiffBase, FALSE, worktree) }
    ELSE UNION { IF w = "failed" THEN { Base(UnmeasuredBase, FALSE, w) } ELSE BasesIn(baseSHA[1], i) :
                   w \in Opened }

(***************************************************************************)
(* A verdict: whether there was anything to gate, whether the tree could   *)
(* be read, and what comparing it with the base said.                      *)
(***************************************************************************)
noLicenceGate == [gated |-> FALSE, err |-> FALSE, of |-> Comparison("", {})]

Gated(current, comparison) ==
    [gated |-> TRUE, err |-> current.err, of |-> IF current.err THEN Comparison("", {}) ELSE comparison]

goLicence(current, base) == Gated(current, Compare(repo.allow, current.set, base))

rustLicence(i, current, base) ==
    Gated(current, licenceVerdict(repo.allow, Policy(tree, i), current.set, base))

typescriptLicence(current, base) == Gated(current, Compare(repo.allow, current.set, base))

licenceGateFor(i, current, base) ==
    CASE Language(i) = "go"         -> goLicence(current, base)
      [] Language(i) = "rust"       -> rustLicence(i, current, base)
      [] Language(i) = "typescript" -> typescriptLicence(current, base)
      [] Language(i) = "shell"      -> noLicenceGate

\* A verdict that gates nothing leaves the open licence claims as they were.
licenceCrashed(v) == v.gated /\ (v.err \/ v.of.verdict \in {"unmeasured", "context"})

licenceFindings(v) ==
    IF v.gated /\ ~v.err /\ v.of.verdict = "fail" THEN LicenceFindings(v.of.pairs) ELSE {}

licenceStatus(v) ==
    CASE ~v.gated \/ v.err -> "unmeasured"
      [] v.gated /\ ~v.err /\ v.of.verdict \in {"context", "not configured"} -> "context"
      [] OTHER -> v.of.verdict

-------------------------------------------------------------------------------
(***************************************************************************)
(* The scan.  A stage that fails before the checks ends it with no         *)
(* document at all: a base that names no commit, a diff or a toolchain     *)
(* that cannot be had.                                                     *)
(***************************************************************************)
ScanInit ==
    /\ repo \in Repos
    /\ main = repo.trees[1] /\ tree = main
    /\ baseSHA = <<>>
    /\ stage = "idle" /\ at = 1
    /\ worktree = "unopened"
    /\ checks = <<>> /\ licences = <<>>
    /\ rows = {} /\ claims = {} /\ crashed = {} /\ open = {} /\ cut = {}
    /\ recordings = 0

Begin(t, base) ==
    /\ stage = "idle"
    /\ \A i \in Components : Dir(i) \in DOMAIN t.at   \* it is the tree that declares them
    /\ tree' = t /\ baseSHA' = base
    /\ stage' = "checks" /\ at' = 1
    /\ rows' = {} /\ claims' = {} /\ crashed' = {} /\ cut' = {}
    /\ UNCHANGED <<repo, main, worktree, checks, licences, open>>

\* `lydite scan --diff-base auto` of a change, and `lydite scan` of what landed.
ScanChange(t) ==
    /\ Begin(t, <<main>>)
    /\ UNCHANGED recordings

ScanLanded(t) ==
    /\ recordings < MaxRecordings
    /\ Begin(t, <<>>)
    /\ recordings' = recordings + 1

NothingToReport ==
    /\ stage = "checks" /\ at = 1
    /\ stage' = "failed"
    /\ UNCHANGED <<repo, main, tree, baseSHA, at, worktree, checks, licences,
                   rows, claims, crashed, open, cut, recordings>>

Advance(this, next) ==
    IF at < Len(repo.components)
    THEN stage' = this /\ at' = at + 1
    ELSE stage' = next /\ at' = 1

CutOf(results) == { b \in DOMAIN results : results[b].cut }

RunChecks ==
    /\ stage = "checks"
    /\ IF Disposition(at) = "scan"
       THEN \E results \in checksFor(Language(at), Truth(tree, at)) :
              /\ checks' = With(checks, labelled(results, Named(at)))
              /\ cut' = cut \cup CutOf(labelled(results, Named(at)))
       ELSE UNCHANGED <<checks, cut>>
    /\ Advance("checks", "licences")
    /\ UNCHANGED <<repo, main, tree, baseSHA, worktree, licences,
                   rows, claims, crashed, open, recordings>>

\* The worktree is removed when the last component has been gated.
Closed(state) == IF at = Len(repo.components) THEN "unopened" ELSE state

GateLicence(base, current) ==
    /\ licences' = With(licences, [n \in {Named(at)} |-> licenceGateFor(at, current.read, base.base)])
    /\ worktree' = Closed(base.worktree)
    /\ cut' = cut \cup IF base.cut \/ current.cut THEN {<<"licence", Named(at)>>} ELSE {}

\* The base is asked before the tree, and only where a policy compares them.
GateLicences ==
    /\ stage = "licences"
    /\ IF Disposition(at) = "scan"
       THEN \E base \in Bases(at), current \in CurrentReads(at) : GateLicence(base, current)
       ELSE worktree' = Closed(worktree) /\ UNCHANGED <<licences, cut>>
    /\ Advance("licences", "semgrep")
    /\ UNCHANGED <<repo, main, tree, baseSHA, checks, rows, claims, crashed, open, recordings>>

\* A scan of the whole repository, where the configuration asks for it.
RootScan(gate, enabled, answers) ==
    /\ IF enabled
       THEN \E result \in answers :
              LET results == labelled([g \in {gate} |-> result], "")
              IN  checks' = With(checks, results) /\ cut' = cut \cup CutOf(results)
       ELSE UNCHANGED <<checks, cut>>
    /\ UNCHANGED <<repo, main, tree, baseSHA, at, worktree, licences,
                   rows, claims, crashed, open, recordings>>

Semgrep ==
    /\ stage = "semgrep" /\ stage' = "secrets"
    /\ RootScan("semgrep", repo.semgrep, SemgrepCheck)

Secrets ==
    /\ stage = "secrets" /\ stage' = "report"
    /\ RootScan("gitleaks", repo.secrets, SecretsCheck)

-------------------------------------------------------------------------------
(***************************************************************************)
(* The report.  What was not scanned says so in a row of its own, but for  *)
(* a language the repository switched off, which says nothing -- unless it *)
(* is shell, which was never on.                                           *)
(***************************************************************************)
Row(gate, component, status) == [gate |-> gate, component |-> component, status |-> status]

unmeasuredRows(i) ==
    { Row(gate, Named(i), "unmeasured") : gate \in {"scan", "licence", "findings"} }

resultRows(buckets) ==
    { Row(b[1], b[2], IF checks[b].failed THEN "fail" ELSE "pass") : b \in buckets }

Results(component) == { b \in DOMAIN checks : b[2] = component }

componentRows(i) ==
    CASE Disposition(i) = "unscanned" -> unmeasuredRows(i)
      [] Disposition(i) = "disabled"  -> IF Language(i) = "shell" THEN unmeasuredRows(i) ELSE {}
      [] Disposition(i) = "duplicate" -> {Row("scan", Named(i), "unmeasured")}
      [] OTHER -> resultRows(Results(Named(i)))
                    \cup {Row("licence", Named(i), licenceStatus(licences[Named(i)]))}

declaredRows == UNION { componentRows(i) : i \in Components }

ranAnyCheck == \E r \in declaredRows : r.status # "unmeasured"

Claimed(bucket, of) == {bucket} \X of

\* The buckets whose claims are no complete answer.
crashesOf(results) == { b \in DOMAIN results : results[b].crashed }

LicencesRun == DOMAIN licences

Report ==
    /\ stage = "report" /\ stage' = "reported"
    /\ rows' = declaredRows \cup resultRows(Results(""))
                 \cup IF ~ranAnyCheck /\ Results("") = {} THEN {Row("scan", "", "unmeasured")} ELSE {}
    /\ claims' = (UNION { Claimed(b, checks[b].findings) : b \in DOMAIN checks })
                 \cup (UNION { Claimed(<<"licence", n>>, licenceFindings(licences[n])) : n \in LicencesRun })
    /\ crashed' = crashesOf(checks)
                 \cup { <<"licence", n>> : n \in { m \in LicencesRun : licenceCrashed(licences[m]) } }
    /\ checks' = <<>> /\ licences' = <<>>
    /\ UNCHANGED <<repo, main, tree, baseSHA, at, worktree, open, cut, recordings>>

-------------------------------------------------------------------------------
(***************************************************************************)
(* The recording.  Which gates applied is asked of the declaration and the *)
(* configuration and never of the document, whose silence cannot tell a    *)
(* clean gate from an absent one; the document takes away those that       *)
(* crashed.  The second of two twins is counted although the first was     *)
(* scanned for it.  With no document nothing is counted.                   *)
(***************************************************************************)
licenceGated(i) ==
    CASE Language(i) \in {"go", "typescript"} -> Configured(repo.allow)
      [] Language(i) = "rust" -> PolicyFor(Truth(tree, i).denyToml, repo.allow) # "none"
      [] OTHER -> FALSE

Seeded(i) ==
    { g \in FindingGates(Language(i)) : g # "licence" \/ licenceGated(i) } \X {Named(i)}

FindingCounts(scanned) ==
    IF ~scanned THEN {}
    ELSE LET seeded == UNION { Seeded(i) : i \in { j \in Components : Enabled(Language(j)) } }
             root == { <<g, "">> : g \in { h \in {"semgrep", "gitleaks"} :
                         (h = "semgrep" /\ repo.semgrep) \/ (h = "gitleaks" /\ repo.secrets) } }
             counted == { c[2] : c \in seeded }
         IN  seeded \cup root \cup { claim[1] : claim \in { f \in claims : f[1][2] \in counted \cup {""} } }

findingScope(scanned) == FindingCounts(scanned) \ crashed

\* A document that was made may still not reach the job that records.
Record(scanned) ==
    /\ stage \in {"reported", "failed"} /\ baseSHA = <<>>
    /\ scanned => stage = "reported"
    /\ LET events == history!findingEvents([scope |-> findingScope(scanned), found |-> claims], open)
           of(transition) == { e.claim : e \in { f \in events : f.transition = transition } }
       IN  open' = (open \cup of("appeared")) \ of("resolved")
    /\ main' = tree
    /\ stage' = "idle"
    /\ UNCHANGED <<repo, tree, baseSHA, at, worktree, checks, licences,
                   rows, claims, crashed, cut, recordings>>

\* The verdict on a change is its rows; nothing is recorded.
Decide ==
    /\ stage \in {"reported", "failed"} /\ baseSHA # <<>>
    /\ stage' = "idle"
    /\ UNCHANGED <<repo, main, tree, baseSHA, at, worktree, checks, licences,
                   rows, claims, crashed, open, cut, recordings>>

ScanNext ==
    \/ \E t \in ToSet(repo.trees) : ScanChange(t) \/ ScanLanded(t)
    \/ NothingToReport \/ RunChecks \/ GateLicences \/ Semgrep \/ Secrets
    \/ Report
    \/ \E scanned \in BOOLEAN : Record(scanned)
    \/ Decide

ScanSpec == ScanInit /\ [][ScanNext]_scanVars

-------------------------------------------------------------------------------
(***************************************************************************)
(* What is true of a tree, whatever any tool said of it: the claims a      *)
(* bucket's tool would make if it looked at all of it, those of them it    *)
(* fails over, and the dependencies a component ships.                     *)
(***************************************************************************)
ScannedAs(component) == { i \in Components : Named(i) = component /\ Disposition(i) = "scan" }

Nonconforming(deps, allow) == { <<d.package, d.licence>> : d \in { e \in deps : e.licence \cap allow = {} } }

TruthOf(gate, truth) ==
    CASE gate = "gosec"        -> Number(Located(truth.issues))
      [] gate = "govulncheck"  -> { << <<a.osv, a.module>>, 0 >> : a \in truth.advisories }
      [] gate = "cargo clippy" -> Number(truth.lints)
      [] gate = "cargo-audit"  -> Number(truth.advisories)
      [] gate = "cargo-deny"   -> Number(truth.bans)
      [] gate = "biome"        -> Number(truth.claims)
      [] gate = "shellcheck"   -> shellcheckFindings(truth.comments, truth.files)
      [] gate = "licence"      -> { <<pair, 0>> : pair \in Nonconforming(truth.ships, Allowed(truth.denyToml)) }

Standing(t, b) ==
    CASE b[1] = "semgrep"  -> Number(Located(t.semgrep.results))
      [] b[1] = "gitleaks" -> gitleaksFindings(t.secrets.leaks, t.secrets.carried \cup t.secrets.nested,
                                               t.secrets.files)
      [] OTHER -> UNION { TruthOf(b[1], Truth(t, i)) : i \in ScannedAs(b[2]) }

ClaimsOf(set, b) == { c[2] : c \in { d \in set : d[1] = b } }

Buckets ==
    (UNION { FindingGates(Language(i)) \X {Named(i)} : i \in Components })
        \cup {<<"semgrep", "">>, <<"gitleaks", "">>}

Counted == (UNION { Seeded(i) : i \in { j \in Components : Enabled(Language(j)) } })
               \cup { b \in {<<"semgrep", "">>, <<"gitleaks", "">>} :
                         IF b[1] = "semgrep" THEN repo.semgrep ELSE repo.secrets }

(***************************************************************************)
(* Silence is earned.  A recording replaces a bucket's open claims by      *)
(* exactly those that stand in the tree it scanned, or leaves every one as *)
(* it was: a tool that crashed, was not installed, could not read a file   *)
(* or wrote half a report calls no claim resolved and no claim new.  The   *)
(* code's whole completeness logic is for this (Result.Crashed, and        *)
(* findingScope at record/history.go:69).  Three tools can be cut short    *)
(* and leave no trace of it; those runs are the `cut` ones.                *)
(***************************************************************************)
SilenceIsEarned ==
    [][ stage = "reported" /\ open' # open =>
          \A b \in Buckets :
             IF b \in Counted \ crashed
             THEN b \in cut \/ ClaimsOf(open', b) = Standing(tree, b)
             ELSE ClaimsOf(open', b) = ClaimsOf(open, b) ]_scanVars

(***************************************************************************)
(* Passes are earned.  A passing row stands for a tree in which its tool   *)
(* has nothing to fail over, wherever the tool answered at all; and no     *)
(* declared component is passed over in silence, unless the repository     *)
(* switched its language off (cmd/lydite/scan.go:163, plan.go:103).        *)
(***************************************************************************)
Fatal(gate, truth) ==
    CASE gate = "gosec"        -> truth.issues # {} \/ truth.broken # {}
      [] gate = "govulncheck"  -> \E a \in truth.advisories : a.called
      [] gate = "cargo fmt"    -> ~truth.formatted
      [] gate = "cargo clippy" -> truth.lints # {} \/ truth.broken # {}
      [] gate = "cargo-audit"  -> \E a \in truth.advisories : a.blocks
      [] gate = "cargo-deny"   -> \E o \in truth.bans : o.blocks
      [] gate = "biome"        -> truth.claims # {}
      [] gate = "shellcheck"   -> truth.comments # {} \/ truth.unread # {} \/ truth.scripts = {}

BaseResults == IF baseSHA = <<>> THEN {} ELSE baseSHA[1].semgrep.results

FatalAtRoot(gate) ==
    CASE gate = "semgrep" /\ repo.token  -> \E o \in tree.semgrep.results : o.blocks
      [] gate = "semgrep" /\ ~repo.token -> tree.semgrep.results \ BaseResults # {}
      [] OTHER -> Standing(tree, <<"gitleaks", "">>) # {}

PassesAreEarned ==
    stage = "reported" =>
      /\ \A r \in rows :
            (r.status = "pass" /\ r.gate # "licence" /\ <<r.gate, r.component>> \notin crashed \cup cut) =>
               IF r.component = "" THEN ~FatalAtRoot(r.gate)
               ELSE \A i \in ScannedAs(r.component) : ~Fatal(r.gate, Truth(tree, i))
      /\ \A i \in Components :
            \/ \E r \in rows : r.component = Named(i)
            \/ Language(i) \in {"go", "rust", "typescript"} /\ ~Enabled(Language(i))
      /\ rows # {}

(***************************************************************************)
(* Sites hold no match.  A claim's site is published, and of a line that a *)
(* tool matched more than once it holds the text of none of them, whichever *)
(* match the claim is for (secrets/findings.go:334, shell/findings.go:61). *)
(***************************************************************************)
Matched(occs, files) ==
    { files[o.unit][o.line][o.col] : o \in { p \in Located(occs) : p.unit \in DOMAIN files } }

MatchedIn(b) ==
    IF b[1] = "gitleaks" THEN Matched(tree.secrets.leaks, tree.secrets.files)
    ELSE UNION { Matched(Truth(tree, i).comments, Truth(tree, i).files) : i \in ScannedAs(b[2]) }

SitesHoldNoMatch ==
    stage = "reported" =>
      \A c \in { d \in claims : d[1][1] \in {"gitleaks", "shellcheck"} } :
         LET site == c[2][1] IN ToSet(site[3]) \cap MatchedIn(c[1]) = {}

(***************************************************************************)
(* The licence verdict is the change's.  A licence row fails exactly when  *)
(* the change ships a licence the policy does not allow and its merge-base *)
(* did not -- for the one component the row names, whatever the rest of    *)
(* its workspace ships -- and where either side could not be read it       *)
(* neither passes nor fails.  Only a deny.toml of the component's own is   *)
(* held against the tree alone (stages/scan/licences.go:382).              *)
(***************************************************************************)
ShippedBefore(i) ==
    IF baseSHA # <<>> /\ Dir(i) \in DOMAIN baseSHA[1].at THEN Truth(baseSHA[1], i).ships ELSE {}

LicenceIsTheChange ==
    stage = "reported" =>
      \A r \in rows, i \in Components :
        (r = Row("licence", Named(i), r.status) /\ r.status \in {"pass", "fail"}
           /\ <<"licence", Named(i)>> \notin cut) =>
          LET truth == Truth(tree, i)
              policy == repo.allow
              introduced == IF policy # {}
                            THEN Nonconforming(truth.ships, policy) \ Nonconforming(ShippedBefore(i), policy)
                            ELSE Nonconforming(truth.ships, Allowed(truth.denyToml))
          IN  /\ (r.status = "fail") = (introduced # {})
              /\ policy # {} => baseSHA # <<>>

(***************************************************************************)
(* What the theorem about sites supposes of the two tools that match text  *)
(* inside a line: a file is a sequence of lines and a line one of words, a  *)
(* match is at a column of its line, and a text that is matched anywhere   *)
(* is matched wherever it stands.                                          *)
(***************************************************************************)
Words(file) == UNION { ToSet(line) : line \in ToSet(file) }

FlaggedEverywhere(occs, files) ==
    /\ \A o \in occs : /\ o = Match(o.site, o.line, o.col, o.unit, o.blocks)
                       /\ o.line \in Nat /\ o.col \in Nat \ {0}
    /\ \A u \in DOMAIN files : files[u] \in Seq(Seq(Words(files[u])))
    /\ \A u \in DOMAIN files : \A l \in DOMAIN files[u] : \A k \in DOMAIN files[u][l] :
         files[u][l][k] \in Matched(occs, files) =>
           \E p \in occs : p.unit = u /\ p.line = l /\ p.col = k

TextsAreFlagged ==
    \A r \in Repos : \A t \in ToSet(r.trees) :
      /\ r.secrets => FlaggedEverywhere(t.secrets.leaks, t.secrets.files)
      /\ \A c \in ToSet(r.components) :
           c.lang = "shell" /\ "shell" \in r.enabled /\ c.dir \in DOMAIN t.at =>
             FlaggedEverywhere(t.at[c.dir].comments, t.at[c.dir].files)

(***************************************************************************)
(* What the theorem about licences supposes of those who write lockfiles   *)
(* and licence files: what a reader reads is what the component ships, if  *)
(* it reads anything at all, and no licence is one that no SPDX parser     *)
(* reads, since such are told apart from one another by nobody.            *)
(***************************************************************************)
ReaderTells(lang, t, dir) ==
    LET ships == t.at[dir].ships
        tells(deps) == NewSet(deps) = NewSet(ships)
        root == WorkspaceRoot(t.checkout.lockfiles, dir)
        member == SubSeq(dir, Len(root[1]) + 1, Len(dir))
        read == lockfileDependencies(t.checkout.lock, member)
    IN  /\ \A d \in ships : "?" \notin d.licence
        /\ lang = "go" => tells(goDependencies(t.at[dir].pkgs))
        /\ lang = "typescript" =>
             /\ DOMAIN t.checkout = {"lockfiles", "lock", "install", "installed"}
             /\ (root # <<>> /\ t.checkout.lockfiles[root[1]] = {"npm"}) => read.err \/ tells(read.set)
             /\ (root # <<>> /\ t.checkout.lockfiles[root[1]] # {"npm"} /\ member = <<>> /\ t.checkout.install) =>
                  tells(installedDependencies(t.checkout.installed))

ReadersTell ==
    \A r \in Repos : \A t \in ToSet(r.trees), c \in ToSet(r.components) :
      (Configured(r.allow) /\ c.lang \in r.enabled \cap {"go", "rust", "typescript"} /\ c.dir \in DOMAIN t.at) =>
        ReaderTells(c.lang, t, c.dir)
===============================================================================
