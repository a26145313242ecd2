-------------------------------- MODULE MCScan --------------------------------
(***************************************************************************)
(* Small repositories for Scan, each with two or three trees, and in every *)
(* one the cases its languages make hard: two claims of one site, a        *)
(* package that does not compile, an advisory that is not called, two      *)
(* components over one directory, a workspace of several members.          *)
(***************************************************************************)
EXTENDS Scan

Dep(package, licence) == [package |-> package, licence |-> licence]

MIT == {"MIT"}
GPL == {"GPL"}

\* Two claims of one site in one unit, and one in another.
First  == Occurrence(<<"rule">>, 3, "a", TRUE)
Second == Occurrence(<<"rule">>, 7, "a", TRUE)
Other  == Occurrence(<<"other rule">>, 5, "b", TRUE)
Mild   == Occurrence(<<"mild rule">>, 2, "b", FALSE)

Component(name, lang, dir, env) == [name |-> name, lang |-> lang, dir |-> dir, env |-> env]

Quiet == [results |-> {}, unread |-> {}]
NoSecrets == [leaks |-> {}, carried |-> {}, nested |-> {}, files |-> <<>>]
NoCheckout == [lockfiles |-> <<>>, lock |-> <<>>, install |-> FALSE, installed |-> {}]

Tree(places, semgrep, secrets, checkout) ==
    [at |-> places, semgrep |-> semgrep, secrets |-> secrets, checkout |-> checkout]

Plain(places) == Tree(places, Quiet, NoSecrets, NoCheckout)

Repository(components, enabled, allow, trees) ==
    [components |-> components, enabled |-> enabled, semgrep |-> FALSE, secrets |-> FALSE,
     token |-> FALSE, allow |-> allow, trees |-> trees]

-------------------------------------------------------------------------------
\* Beside its licence a module carries a vendored one's, and a file of prose.
File(named, deeper, ids) == [named |-> named, deeper |-> deeper, ids |-> ids]

Pkg(module, ids) ==
    [module |-> module, main |-> FALSE, standard |-> FALSE,
     files |-> {File(TRUE, FALSE, ids), File(TRUE, TRUE, GPL), File(FALSE, FALSE, MIT)}]

OwnPkgs == { [Pkg("own", {}) EXCEPT !.main = TRUE], [Pkg("", {}) EXCEPT !.standard = TRUE] }

GoTruth(issues, broken, advisories, ships) ==
    [issues |-> issues, broken |-> broken, advisories |-> advisories, denyToml |-> {},
     ships |-> ships, pkgs |-> OwnPkgs \cup { Pkg(d.package, d.licence \cup {""}) : d \in ships }]

Vulnerable(called) == [osv |-> "GO-1", module |-> "m", called |-> called]

GoBefore == GoTruth({First, Second}, {}, {Vulnerable(FALSE)}, {Dep("m", MIT), Dep("n", GPL)})
GoAfter == GoTruth({Second, Other}, {"b"}, {Vulnerable(TRUE)}, {Dep("m", MIT), Dep("n", GPL)})
GoLater == GoTruth({}, {}, {}, {Dep("m", MIT), Dep("o", {})})

\* One module scanned once for two components, and again under another environment.
GoRepo ==
    Repository(<<Component("api", "go", <<"api">>, "e"), Component("twin", "go", <<"api">>, "e")>>,
               {"go"}, MIT,
               << Plain(<<"api">> :> GoBefore), Plain(<<"api">> :> GoAfter), Plain(<<"api">> :> GoLater) >>)

GoPlain ==
    Repository(<<Component("api", "go", <<"api">>, "e"), Component("race", "go", <<"api">>, "f")>>,
               {"go"}, {},
               << Plain(<<"api">> :> [GoBefore EXCEPT !.advisories = {}]),
                  Plain(<<"api">> :> [GoAfter EXCEPT !.advisories = {}]) >>)

-------------------------------------------------------------------------------
RustTruth(lints, broken, formatted, advisories, bans, denyToml, ships) ==
    [lints |-> lints, crates |-> <<"a", "b">>, broken |-> broken, formatted |-> formatted,
     advisories |-> advisories, bans |-> bans, denyToml |-> denyToml, ships |-> ships, carries |-> ships]

RustTrees(denyToml) ==
    << Plain(<<"core">> :> RustTruth({First, Other}, {}, FALSE, {Mild}, {Other, Mild}, denyToml,
                                     {Dep("m", MIT), Dep("n", GPL)})),
       Plain(<<"core">> :> RustTruth({Other}, {}, TRUE, {Other, Mild}, {Mild}, denyToml,
                                     {Dep("m", MIT), Dep("n", GPL), Dep("o", {})})),
       Plain(<<"core">> :> RustTruth({}, {"b"}, TRUE, {}, {}, denyToml, {Dep("m", MIT)})) >>

\* The repository's policy, or a deny.toml's; one that allows nothing; neither.
RustRepo(allow, denyToml) ==
    Repository(<<Component("core", "rust", <<"core">>, "e")>>, {"rust"}, allow, RustTrees(denyToml))

-------------------------------------------------------------------------------
(***************************************************************************)
(* An npm workspace of two members and, beside it, a pnpm package of its   *)
(* own.  web's own copy of `left` hides the workspace's.                   *)
(***************************************************************************)
Entry(licence, dependencies) ==
    [licence |-> licence, link |-> FALSE, resolved |-> <<>>, dependencies |-> dependencies,
     devDependencies |-> {}]

Link(member) == [Entry({}, {}) EXCEPT !.link = TRUE, !.resolved = member]

Hoisted(name) == <<"node_modules", name>>

Lock(web, api) ==
    (<<>> :> Entry({}, {"web", "api"})) @@ (<<"web">> :> Entry({}, web)) @@ (<<"api">> :> Entry({}, api))
    @@ (Hoisted("web") :> Link(<<"web">>)) @@ (Hoisted("api") :> Link(<<"api">>))
    @@ (Hoisted("left") :> Entry(GPL, {})) @@ (<<"web", "node_modules", "left">> :> Entry(MIT, {}))
    @@ (Hoisted("right") :> Entry(MIT, {"deep"})) @@ (Hoisted("deep") :> Entry(GPL, {}))

Checkout(web, api) ==
    [lockfiles |-> (<<>> :> {"npm"}) @@ (<<"web">> :> {}) @@ (<<"api">> :> {}) @@ (<<"site">> :> {"pnpm"}),
     lock |-> Lock(web, api), install |-> TRUE,
     installed |-> { [name |-> "p", directory |-> TRUE, local |-> FALSE, manifest |-> TRUE, licence |-> GPL],
                     [name |-> "q", directory |-> TRUE, local |-> TRUE, manifest |-> TRUE, licence |-> GPL] }]

TsTruth(lints, opinions, unread, ships) ==
    [claims |-> lints, opinions |-> opinions, unread |-> unread, denyToml |-> {}, ships |-> ships]

TsTree(web, api, webShips, apiShips, lints, unread) ==
    Tree((<<"web">> :> TsTruth(lints, {"assist"}, unread, webShips))
         @@ (<<"api">> :> TsTruth({}, {}, {}, apiShips))
         @@ (<<"site">> :> TsTruth({}, {}, {}, {Dep("p", GPL)})),
         Quiet, NoSecrets, Checkout(web, api))

TsRepo ==
    Repository(<<Component("web", "typescript", <<"web">>, "e"), Component("api", "typescript", <<"api">>, "e"),
                 Component("site", "typescript", <<"site">>, "e")>>, {"typescript"}, MIT,
      << TsTree({"left"}, {"left"}, {Dep("left", MIT)}, {Dep("left", GPL)}, {First, Second}, {}),
         \* web reaches a licence two steps down, and api is what it was
         TsTree({"left", "right"}, {"left"}, {Dep("left", MIT), Dep("right", MIT), Dep("deep", GPL)},
                {Dep("left", GPL)}, {Second, Other}, {"b"}),
         \* api comes to reach all of it through the other member
         TsTree({"left", "right"}, {"left", "web"}, {Dep("left", MIT), Dep("right", MIT), Dep("deep", GPL)},
                {Dep("left", GPL), Dep("left", MIT), Dep("right", MIT), Dep("deep", GPL)}, {}, {}) >>)

-------------------------------------------------------------------------------
\* A Go component that is new in the second tree, beside a TypeScript one:
\* both are compared in the one worktree.
MixedAt == <<"api">> :> TsTruth({}, {}, {}, {Dep("left", GPL)})

MixedTree(places, web) == Tree(places, Quiet, NoSecrets, Checkout({"left"}, web))

MixedRepo ==
    Repository(<<Component("api", "typescript", <<"api">>, "e"), Component("svc", "go", <<"svc">>, "e")>>,
               {"typescript", "go"}, MIT,
      << MixedTree(MixedAt, {"left"}),
         MixedTree(MixedAt @@ (<<"svc">> :> GoTruth({}, {}, {}, {Dep("n", GPL)})), {"left"}) >>)

-------------------------------------------------------------------------------
Nothing == [denyToml |-> {}]

\* Lines of several words, of which some tool matches one or two.
Files == "a" :> << <<"KEY", "secret1", "secret2">>, <<"secret3", "secret4">>, <<"name", "=", "$var">> >>

Leaked(line, col) == Match(<<"token">>, line, col, "a", TRUE)
Quoting(col) == Match(<<"quoting">>, 3, col, "a", TRUE)

ShellTruth(scripts, comments, unread) ==
    [scripts |-> scripts, comments |-> comments, unread |-> unread, files |-> Files,
     denyToml |-> {}, ships |-> {}]

RootTree(results, unread, leaks, comments) ==
    Tree((<<"sh">> :> ShellTruth({"a", "b"}, comments, {"b"})) @@ (<<"raw">> :> Nothing) @@ (<<"rs">> :> Nothing),
         [results |-> results, unread |-> unread],
         [leaks |-> leaks, carried |-> {"a"}, nested |-> {"b"}, files |-> Files], NoCheckout)

Nowhere == Occurrence(<<"leak">>, 0, "a", TRUE)
Ignored == Occurrence(<<"leak">>, 4, "ignored", TRUE)

RootTrees ==
    << RootTree({First, Mild}, {"b"}, {Leaked(1, 2), Leaked(1, 3), Other, Ignored}, {Quoting(2), Quoting(3)}),
       RootTree({First, Second}, {}, {Leaked(2, 1), Leaked(2, 2), Leaked(3, 3), Nowhere}, {Quoting(3)}),
       RootTree({}, {}, {Ignored}, {}) >>

RootRepo(enabled, scans, token) ==
    [Repository(<<Component("sh", "shell", <<"sh">>, "e"), Component("raw", "", <<"raw">>, "e"),
                  Component("rs", "rust", <<"rs">>, "e")>>, enabled, {}, RootTrees)
       EXCEPT !.semgrep = scans, !.secrets = scans, !.token = token]

MCRepos ==
    {GoRepo, GoPlain, RustRepo(MIT, {}), RustRepo({}, {MIT}), RustRepo({}, {{}}), RustRepo({}, {}), TsRepo, MixedRepo}
    \cup {RootRepo({"shell"}, TRUE, FALSE), RootRepo({}, TRUE, TRUE), RootRepo({}, FALSE, FALSE)}

(* These repositories are such as the theorems about sites and about        *)
(* licences suppose.                                                        *)
ASSUME MCTextsAreFlagged == TextsAreFlagged
ASSUME MCReadersTell == ReadersTell
===============================================================================
