------------------------------ MODULE Scanners -------------------------------
(***************************************************************************)
(* The scanners `lydite scan` runs, one section each: what one run of the  *)
(* tool may do over a tree, and what the wrapper makes of it -- the row's  *)
(* verdict, the claims, and whether the claims are a complete answer.      *)
(* Only the last decides what a recording may call resolved, and each tool *)
(* says it in its own way: one in its exit status, one in its report, one  *)
(* in neither.                                                             *)
(*                                                                         *)
(* A run is what the process left behind: how it exited and what it wrote. *)
(* XRuns(truth) are the runs the tool may make; XResult(run) is the code.  *)
(* `cut` is the truth about a run nobody sees: the tool wrote part of what *)
(* it would have and left a trace no wrapper could tell from a whole run.  *)
(***************************************************************************)
EXTENDS Integers, FiniteSets, SequencesExt

(***************************************************************************)
(* An occurrence is one place a claim can be made at: its site is what     *)
(* tells it apart from another rule or text, its line and column order it  *)
(* among those of its site (line 0 is nowhere), its unit is the package,   *)
(* crate or file it is in, and it blocks when the tool fails over it.      *)
(***************************************************************************)
Match(site, line, col, unit, blocks) ==
    [site |-> site, line |-> line, col |-> col, unit |-> unit, blocks |-> blocks]

Occurrence(site, line, unit, blocks) == Match(site, line, 1, unit, blocks)

\* An exit status is 0, the tool's own for "found", another, or none at all.
Exit == {"clean", "found", "error", "killed"}

Result(failed, findings, crashed, cut) ==
    [failed |-> failed, findings |-> findings, crashed |-> crashed, cut |-> cut]

\* A tool that could not be installed, or given a file to write.
Uninstalled == Result(TRUE, {}, TRUE, FALSE)

Accounted(exit) == exit \in {"clean", "found"}

Located(occs) == { o \in occs : o.line > 0 }

(***************************************************************************)
(* A claim's identity counts the claims of its site before it, so that a   *)
(* line number is no part of it: in a report with one left out, the next   *)
(* takes its identity.                                                     *)
(***************************************************************************)
inSourceOrder(p, o) == p.line < o.line \/ (p.line = o.line /\ p.col < o.col)

Number(occs) ==
    { <<o.site, Cardinality({ p \in occs : p.site = o.site /\ inSourceOrder(p, o) })>> : o \in occs }

(***************************************************************************)
(* Two tools match text inside a line, and more than once in one: a claim's *)
(* site is its rule and the line before the EARLIEST of the line's matches, *)
(* so no match is in another's site.  A file is a sequence of lines and a   *)
(* line one of words; a file that cannot be read is not among them, and a   *)
(* line past its end has no prefix either.                                  *)
(***************************************************************************)
\* Mutation: each match is cut at its own column.
earliestColumnOwn(occs, o) == o.col

earliestColumn(occs, o) ==
    Min({ p.col : p \in { q \in occs : q.unit = o.unit /\ q.line = o.line } })

prefix(files, o, col) ==
    IF o.unit \in DOMAIN files /\ o.line <= Len(files[o.unit])
    THEN SubSeq(files[o.unit][o.line], 1, Min({col - 1, Len(files[o.unit][o.line])}))
    ELSE <<>>

(***************************************************************************)
(* What may stand in a leak's site: nothing, or one identifier, with an    *)
(* opening bracket at most.  A line can hold what no rule flagged, so any  *)
(* other text before the match is withheld whole.                          *)
(***************************************************************************)
Symbols == {"=", ":", "-"}

safePrefix(words) ==
    LET head == IF words # <<>> /\ Last(words) = "(" THEN Front(words) ELSE words
    IN  IF head = <<>> \/ (Len(head) = 1 /\ head[1] \notin Symbols) THEN words ELSE <<>>

\* A leak's site is withheld where it may show what no rule flagged.
sited(occs, files, withholding) ==
    LET before(o) == prefix(files, o, earliestColumn(occs, o))
        shown(o) == IF withholding THEN safePrefix(before(o)) ELSE before(o)
    IN  { [o EXCEPT !.site = <<o.unit, @, shown(o)>>] : o \in Located(occs) }

Blocking(occs) == { o \in occs : o.blocks }

ExitOver(occs) == IF Blocking(occs) = {} THEN "clean" ELSE "found"

-------------------------------------------------------------------------------
(***************************************************************************)
(* gosec writes a report of its issues and of the packages that did not    *)
(* compile, in which it scanned nothing.  Each failure is stated as the    *)
(* compiler printed it and, where it named a file, once more by the file.  *)
(***************************************************************************)
GosecRuns(truth) ==
    LET issues == { o \in truth.issues : o.unit \notin truth.broken }
        errors == { [unit |-> u, located |-> FALSE] : u \in truth.broken }
        report == [issues |-> issues, errors |-> errors]
        whole(exit) == [exit |-> exit, report |-> <<report>>]
        \* The failure stated in the report need not be stated in the status.
        status == IF truth.broken # {} THEN {"clean", "found"}
                  ELSE {IF issues = {} THEN "clean" ELSE "found"}
    IN  { whole(e) : e \in status }
        \cup { [exit |-> e, report |-> <<[report EXCEPT !.errors =
                  @ \cup { [unit |-> u, located |-> TRUE] : u \in truth.broken }]>>] : e \in status }
        \cup { [exit |-> e, report |-> <<>>] : e \in {"clean", "error", "killed"} }

gosecFindings(report) == Number(Located(report.issues))

\* Every failure once: the printed text is left out where a located one says it.
buildErrors(report) ==
    { e \in report.errors : e.located \/ ~\E f \in report.errors : f.located /\ f.unit = e.unit }

\* Mutation: a report that parses is a whole one.
gosecResultParsed(run) ==
    IF run.report = <<>> THEN Result(run.exit # "clean", {}, TRUE, FALSE)
    ELSE Result(run.exit # "clean", gosecFindings(run.report[1]), FALSE, FALSE)

gosecResult(run) ==
    IF run.report = <<>> THEN Result(run.exit # "clean", {}, TRUE, FALSE)
    ELSE LET errs == buildErrors(run.report[1])
         IN  Result(run.exit # "clean" \/ errs # {}, gosecFindings(run.report[1]), errs # {}, FALSE)

-------------------------------------------------------------------------------
(***************************************************************************)
(* govulncheck is run twice.  The text pass exits with its own status for  *)
(* a vulnerable symbol that is called; the data pass exits 0 whatever it   *)
(* found and streams a message per advisory, more of them the closer the   *)
(* code comes to the symbol.                                               *)
(***************************************************************************)
Messages(advisory) ==
    { [osv |-> advisory.osv, module |-> advisory.module, depth |-> d] :
        d \in 1..(IF advisory.called THEN 2 ELSE 1) }

GovulncheckRuns(truth) ==
    LET all == UNION { Messages(a) : a \in truth.advisories }
        verdict == IF \E a \in truth.advisories : a.called THEN "found" ELSE "clean"
        texts == {verdict, "error", "killed"}
        streams == { [exit |-> "clean", output |-> "whole", messages |-> all],
                     [exit |-> "error", output |-> "empty", messages |-> {}],
                     [exit |-> "clean", output |-> "empty", messages |-> {}] }
                   \cup { [exit |-> e, output |-> "torn", messages |-> part] :
                            e \in {"clean", "killed"}, part \in (SUBSET all) \ {all} }
    IN  { [text |-> t, data |-> s] : t \in texts, s \in streams }

\* One claim per advisory and module, however deep its messages go.
govulncheckFindings(messages) == { << <<m.osv, m.module>>, 0 >> : m \in messages }

govulncheckCrashed(text, data) ==
    data.exit # "clean" \/ data.output = "empty" \/ ~Accounted(text)

govulncheckResult(run) ==
    Result(run.text # "clean",
           IF run.data.output = "empty" THEN {} ELSE govulncheckFindings(run.data.messages),
           govulncheckCrashed(run.text, run.data) \/ run.data.output = "torn", FALSE)

-------------------------------------------------------------------------------
(***************************************************************************)
(* cargo clippy compiles the crates in the order they depend on one        *)
(* another, each as a library and as its own test harness, and stops at    *)
(* the first that fails: under `-D warnings` a lint is a failure too.  A   *)
(* crate that is not valid Rust says so and is linted no further.          *)
(***************************************************************************)
Fails(truth, crate) == crate \in truth.broken \/ \E o \in truth.lints : o.unit = crate

Compiled(truth) ==
    { c \in ToSet(truth.crates) :
        \A i \in DOMAIN truth.crates :
            (\E j \in DOMAIN truth.crates : i < j /\ truth.crates[j] = c) => ~Fails(truth, truth.crates[i]) }

Diagnostics(truth, crates) ==
    { [reason |-> "compiler-message", code |-> "lint", target |-> t, span |-> <<o>>] :
        o \in { p \in truth.lints : p.unit \in crates \ truth.broken }, t \in {"lib", "test"} }
    \cup { [reason |-> "compiler-message", code |-> "rustc", target |-> "lib",
            span |-> << Occurrence(<<"rustc", c>>, 1, c, TRUE) >>] : c \in crates \cap truth.broken }

ClippyRuns(truth) ==
    LET reached == Compiled(truth)
        failing == { c \in reached : Fails(truth, c) }
        summary == { [reason |-> "build-finished", code |-> "none", target |-> "lib", span |-> <<>>] }
    IN  { [exit |-> IF failing = {} THEN "clean" ELSE "found",
           messages |-> Diagnostics(truth, reached) \cup summary,
           cut |-> reached # ToSet(truth.crates)] }
        \* A manifest cargo cannot resolve, a build script that dies.
        \cup { [exit |-> e, messages |-> {}, cut |-> FALSE] : e \in {"error", "killed"} }

\* Both copies of a lint are one claim; what no span locates is none.
clippyFindings(messages) ==
    LET said == { m \in messages : m.reason = "compiler-message" /\ m.span # <<>> }
    IN  Number({ m.span[1] : m \in said })

clippyOnlyLinted(messages) ==
    LET errors == { m \in messages : m.reason = "compiler-message" }
    IN  errors # {} /\ \A m \in errors : m.code = "lint"

clippyResult(run) ==
    Result(run.exit # "clean", clippyFindings(run.messages),
           run.exit # "clean" /\ ~clippyOnlyLinted(run.messages), run.cut)

\* cargo fmt is a verdict and makes no claim.
FmtRuns(truth) ==
    { IF truth.formatted THEN "clean" ELSE "found", "error" }

fmtResult(run) == Result(run # "clean", {}, FALSE, FALSE)

-------------------------------------------------------------------------------
(***************************************************************************)
(* cargo-audit sorts the advisories into those it fails over and warnings, *)
(* and writes one report or, when it cannot read the lockfile or its       *)
(* database, none.                                                         *)
(***************************************************************************)
AuditRuns(truth) ==
    { [exit |-> ExitOver(truth.advisories),
       report |-> << [vulnerabilities |-> Blocking(truth.advisories),
                      warnings |-> truth.advisories \ Blocking(truth.advisories)] >>] }
    \cup { [exit |-> e, report |-> <<>>] : e \in {"error", "killed"} }

\* Which of them fail the build is the verdict's business, not the claims'.
auditFindings(report) == Number(report.vulnerabilities \cup report.warnings)

auditResult(run) ==
    Result(run.exit # "clean",
           IF run.report = <<>> THEN {} ELSE auditFindings(run.report[1]),
           run.report = <<>>, FALSE)

(***************************************************************************)
(* cargo-deny streams one diagnostic per line, of some severity, and fails *)
(* when one is an error.  A stream has no end that could be missing: a     *)
(* process killed half-way leaves a shorter one.                           *)
(***************************************************************************)
DenyRuns(truth) ==
    LET all == { [severity |-> IF o.blocks THEN "error" ELSE "warning", at |-> o] : o \in truth.bans }
    IN  { [exit |-> ExitOver(truth.bans), stream |-> all, cut |-> FALSE],
          [exit |-> "error", stream |-> {}, cut |-> FALSE] }
        \cup { [exit |-> "killed", stream |-> part, cut |-> TRUE] : part \in (SUBSET all) \ {all} }

denyFindings(stream) == Number({ d.at : d \in stream })

denyStatesAnError(stream) == \E d \in stream : d.severity = "error"

denyResult(run) ==
    Result(run.exit # "clean", denyFindings(run.stream),
           run.exit # "clean" /\ ~denyStatesAnError(run.stream),
           run.cut)

-------------------------------------------------------------------------------
(***************************************************************************)
(* Biome's report names what it lints and what it could not: a file it     *)
(* failed to parse or to read is a diagnostic of its own, located or not,  *)
(* and the exit status need not tell.  What a project's own configuration  *)
(* merges in -- other rule groups, suppressions -- lydite never asked for. *)
(***************************************************************************)
BiomeRuns(truth) ==
    LET claims == { [category |-> "lint/asked", at |-> o] :
                      o \in { p \in truth.claims : p.unit \notin truth.unread } }
        opinions == { [category |-> c, at |-> Occurrence(<<c>>, 1, "any", FALSE)] :
                        c \in truth.opinions }
        failures(line) == { [category |-> "parse", at |-> Occurrence(<<"parse", f>>, line, f, TRUE)] :
                              f \in truth.unread }
        report(line) == <<claims \cup opinions \cup failures(line)>>
    IN  { [exit |-> e, nested |-> FALSE, report |-> report(line)] :
            e \in (IF claims = {} THEN {"clean", "found"} ELSE {"found"}), line \in {0, 1} }
        \cup { [exit |-> "found", nested |-> TRUE, report |-> <<>>],
               [exit |-> "clean", nested |-> FALSE, report |-> <<>>],
               [exit |-> "error", nested |-> FALSE, report |-> <<>>],
               [exit |-> "killed", nested |-> FALSE, report |-> <<>>] }

\* Everything but an opinion is kept, whatever a later Biome calls it.
reportableBiome(category) ==
    category \notin {"lint/other", "assist", "suppressions", "format"}

\* Mutation: a parsed report is every file's.
biomeIncompleteNever(report) == FALSE

biomeIncomplete(report) ==
    \E d \in report : reportableBiome(d.category) /\ d.category # "lint/asked"

biomeFindings(report) ==
    Number(Located({ d.at : d \in { e \in report : reportableBiome(e.category) } }))

\* A row fails over its claims: a report that locates none clears the error.
lintDirBiome(run) ==
    IF run.nested THEN Result(TRUE, {}, TRUE, FALSE)
    ELSE IF run.report = <<>> THEN Result(run.exit # "clean", {}, TRUE, FALSE)
    ELSE LET found == biomeFindings(run.report[1])
         IN  Result(found # {}, found, biomeIncomplete(run.report[1]), FALSE)

-------------------------------------------------------------------------------
(***************************************************************************)
(* ShellCheck is given the regular files git tracks or would, and writes   *)
(* its comments on stdout.  It exits 2 over a file it could not read, the  *)
(* comments of the others written.                                         *)
(***************************************************************************)
ShellcheckRuns(truth) ==
    LET comments == { o \in truth.comments : o.unit \notin truth.unread }
    IN  { [exit |-> IF truth.unread # {} THEN "error"
                    ELSE IF comments = {} THEN "clean" ELSE "found",
           report |-> <<comments>>] }
        \cup { [exit |-> e, report |-> <<>>] : e \in {"clean", "error", "killed"} }

\* The text before a comment is the repository's own, and none of it withheld.
shellcheckSites(comments, files) == sited(comments, files, FALSE)

shellcheckFindings(comments, files) == Number(shellcheckSites(comments, files))

shellcheckResult(run, files) ==
    IF run.report = <<>> THEN Result(TRUE, {}, TRUE, FALSE)
    ELSE Result(run.exit # "clean", shellcheckFindings(run.report[1], files),
                ~Accounted(run.exit), FALSE)

\* No script at all is a component mis-declared, not one that is clean.
shellCheck(truth, listed) ==
    IF ~listed \/ truth.scripts = {} THEN {Uninstalled}
    ELSE { shellcheckResult(run, truth.files) : run \in ShellcheckRuns(truth) }

-------------------------------------------------------------------------------
(***************************************************************************)
(* Semgrep reports its results and the errors it met, some of them only    *)
(* warnings; a rule that would not load leaves the status clean.  Against  *)
(* a base commit it reports what the base had not, and under a token the   *)
(* service's own rules say what blocks.                                    *)
(***************************************************************************)
buildArgs(token, base) ==
    IF token THEN [mode |-> "ci", baseline |-> {}] ELSE [mode |-> "scan", baseline |-> base]

SemgrepRuns(args, truth) ==
    LET new == truth.results \ args.baseline
        exit(seen) == IF args.mode = "scan" THEN (IF seen = {} THEN "clean" ELSE "found")
                                            ELSE ExitOver(seen)
        unread == { o \in new : o.unit \in truth.unread }
    IN  { [exit |-> exit(new), report |-> << [results |-> new, errors |-> e] >>] :
            e \in { {}, {"warn"} } }
        \cup { [exit |-> exit(new \ unread),
                report |-> << [results |-> new \ unread, errors |-> {"error"}] >>],
               [exit |-> "error", report |-> << [results |-> {}, errors |-> {}] >>] }
        \cup { [exit |-> e, report |-> <<>>] : e \in {"clean", "error", "killed"} }

\* A result that names no line locates nothing.
semgrepFindings(report) == Number(Located(report.results))

\* An error of a level nobody knows blocks as well.
blocking(report) == report.errors \ {"warn"}

reportResult(run) ==
    IF run.report = <<>> THEN Result(run.exit # "clean", {}, TRUE, FALSE)
    ELSE LET errs == blocking(run.report[1])
         IN  Result(run.exit # "clean" \/ errs # {},
                    semgrepFindings(run.report[1]),
                    ~Accounted(run.exit) \/ errs # {}, FALSE)

-------------------------------------------------------------------------------
(***************************************************************************)
(* gitleaks walks every file under the scan root, ignored ones included,   *)
(* and exits with one status for a leak and for a directory it could not   *)
(* walk.  Its unit is a path; those git would carry are asked of git.      *)
(***************************************************************************)
GitleaksRuns(truth) ==
    { [exit |-> IF truth.leaks = {} THEN "clean" ELSE "found", report |-> <<truth.leaks>>, cut |-> FALSE],
      [exit |-> "found", report |-> << {} >>, cut |-> FALSE],
      [exit |-> "killed", report |-> << {} >>, cut |-> FALSE],
      [exit |-> "error", report |-> <<>>, cut |-> FALSE] }
    \* A walk that failed after it found something, in some of the files.
    \cup LET units == { o.unit : o \in truth.leaks }
         IN  { [exit |-> "found", report |-> << { o \in truth.leaks : o.unit \in walked } >>, cut |-> TRUE] :
                 walked \in (SUBSET units) \ {{}, units} }

\* git's answer: it failed, it names nothing, or these paths and everything
\* beneath the repositories nested in it.
Scopes(truth) ==
    IF truth.carried = {} THEN {"failed", "empty"} ELSE {"failed", "asked"}

tracked(truth, scope) ==
    [err |-> scope # "asked",
     keep |-> IF scope = "asked" THEN truth.carried \cup truth.nested
              ELSE { o.unit : o \in truth.leaks }]

\* Nothing listed and nothing found agree with one another.
scopeFailure(scope, report) == scope = "failed" \/ (scope = "empty" /\ report # {})

ranToCompletion(run) ==
    run.exit = "clean" \/ (run.exit = "found" /\ run.report[1] # {})

\* A leak with no place fails the row, and is no claim.
unplaced(report) == report \ Located(report)

gitleaksFindings(report, keep, files) ==
    Number({ o \in sited(report, files, TRUE) : o.unit \in keep })

gitleaksCrashed(run, scope) ==
    run.report = <<>> \/ ~ranToCompletion(run) \/ scopeFailure(scope, run.report[1])

gitleaksResult(run, truth, scope) ==
    LET found == IF run.report = <<>> THEN {}
                 ELSE gitleaksFindings(run.report[1], tracked(truth, scope).keep, truth.files)
        failed == \/ run.report = <<>>
                  \/ ~ranToCompletion(run)
                  \/ scopeFailure(scope, run.report[1])
                  \/ unplaced(run.report[1]) # {}
                  \/ found # {}
    IN  Result(failed, found, gitleaksCrashed(run, scope), run.cut)
===============================================================================
