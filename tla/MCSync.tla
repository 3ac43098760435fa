------------------------------- MODULE MCSync -------------------------------
(* Two items, two children of a first kind, which may move from one item to the  *)
(* other, and one of a second; programs whose functions fit, and for each thing   *)
(* that keeps them from it one that has it.                                        *)
EXTENDS Sync

CONSTANTS p, q, c, d, e

MCDocuments ==
    LET Entry(key, first, second) == [key |-> key, children |-> <<first, second>>]
    IN {<<>>,
        <<Entry(p, {c}, {e})>>,
        <<Entry(p, {c, d}, {}), Entry(q, {}, {e})>>,
        <<Entry(p, {c}, {}), Entry(q, {d}, {})>>,
        <<Entry(q, {d}, {e}), Entry(p, {c}, {})>>,
        <<Entry(q, {c, d}, {}), Entry(p, {}, {})>>}

Field(n, t) == [name |-> n, type |-> t, nullable |-> FALSE, pk |-> FALSE, manual |-> FALSE,
                default |-> FALSE, rel |-> "", target |-> "", leads |-> "", intern |-> ""]
Id          == [Field("id", "integer") EXCEPT !.pk = TRUE]
Text(n)     == Field(n, "string")
To(n, t)    == [Field(n, "model") EXCEPT !.rel = "belongsTo", !.target = t]
Maybe(f)    == [f EXCEPT !.nullable = TRUE]
Model(n, strategy, fields, uniq) ==
    [name |-> n, ns |-> "app", fields |-> fields, unique |-> <<uniq>>, index |-> <<>>, related |-> FALSE, strategy |-> strategy]

Source(n, fields) == [name |-> n, fields |-> fields, rest |-> <<>>, graphql |-> FALSE,
                      freshness |-> "etag", interval |-> 0, nested |-> <<>>]
Raw(n)              == [name |-> n, type |-> "string"]
Rest(s, places)     == [s EXCEPT !.rest = <<places>>]
Graphql(s)          == [s EXCEPT !.graphql = TRUE]
Polled(s, fresh, n) == [s EXCEPT !.freshness = fresh, !.interval = n]
In(s, parent, path) == [s EXCEPT !.nested = <<[parent |-> parent, path |-> path]>>]
Bind(s, t)          == [source |-> s, target |-> t, map |-> <<>>]
Mapped(b, f, chain) == [b EXCEPT !.map = f :> chain]
Program(ms, ss, bs) == [item |-> ms[1].name, models |-> ms, sources |-> ss, bindings |-> bs]

Repo(strategy)  == Model("Repo", strategy, <<Id, Text("name"), Text("about")>>, <<"name">>)
Issue(strategy) == Model("Issue", strategy, <<Id, To("repo", "Repo"), Text("number"), Text("title")>>,
                         <<"repo", "number">>)
At(m)           == [m EXCEPT !.fields[2].name = "at", !.unique = <<<<"at", "number">>>>]
Keyed(m)        == [m EXCEPT !.fields = <<[@[2] EXCEPT !.pk = TRUE], [@[3] EXCEPT !.pk = TRUE], @[4]>>, !.unique = <<>>]
Alone(m)        == [m EXCEPT !.unique = <<<<"number">>>>]
Label           == Model("Label", "upsert", <<Id, Text("tag"), Maybe(Text("owner.login"))>>, <<"tag">>)
With(m, f)      == [m EXCEPT !.fields = Append(@, f)]

GhRepo  == Source("GhRepo", <<Raw("name"), Raw("about")>>)
GhIssue == In(Source("GhIssue", <<Raw("number"), Raw("title")>>), "GhRepo", <<"issues", "nodes">>)
GhLabel == In(Source("GhLabel", <<Raw("text"), [Raw("owner") EXCEPT !.type = "GhOwner"]>>), "GhRepo", <<"labels">>)
GhOwner == Source("GhOwner", <<Raw("login")>>)
RepoB   == Bind("GhRepo", "Repo")
IssueB  == Bind("GhIssue", "Issue")
LabelB  == Mapped(Bind("GhLabel", "Label"), "tag", <<"text">>)

Plain(source, repo)           == Program(<<repo>>, <<source>>, <<RepoB>>)
Issues(source, repo, issue)   == Program(<<repo, issue>>, <<source, GhIssue>>, <<RepoB, IssueB>>)
Labels(source, issue, others) == Program(<<Repo("upsert"), issue, Label>>, <<source, GhIssue, GhLabel>> \o others,
                                         <<RepoB, IssueB, LabelB>>)
Rests == Rest(GhRepo, <<"owner", "team">>)
Up    == Repo("upsert")

MCPrograms ==
    [fetched  |-> Plain(Polled(Rests, "etag", 1), With(Repo("insert-ignore"), To("org", "Org"))),
     updated  |-> Issues(Rests, With(Up, To("org", "Org")), With(Alone(Issue("upsert")), To("org", "Org"))),
     kept     |-> Issues(Polled(Rests, "poll-only", 1), Up, Alone(Issue("insert-ignore"))),
     listed   |-> Issues(Polled(Rests, "last-modified", 1), Up, At(Issue("insert-ignore"))),
     replaced |-> Labels(Rests, Keyed(Issue("delete-replace")), <<GhOwner>>),
     moved    |-> Issues(Rests, Up, Alone(Issue("delete-replace"))),
     queried  |-> Labels(Graphql(GhRepo), Issue("delete-replace"), <<GhOwner>>),
     \* and those that do not fit
     unfilled |-> Plain(Rests, With(Up, Text("size"))),
     silent   |-> [Plain(Rests, Up) EXCEPT !.bindings = <<Mapped(RepoB, "about", <<>>)>>],
     number   |-> [Plain(Rests, With(Up, Field("stars", "int32"))) EXCEPT
                      !.bindings = <<Mapped(RepoB, "stars", <<"name">>)>>],
     twice    |-> [Plain(Rests, Up) EXCEPT !.sources = Append(@, Source("Other", GhRepo.fields)),
                      !.bindings = Append(@, Bind("Other", "Repo"))],
     interned |-> [Labels(Rests, Issue("upsert"), <<GhOwner>>) EXCEPT !.models[3].fields[2].intern = "Symbol"],
     related  |-> Plain(Rests, With(With(Up, To("org", "Org")), To("team", "Org"))),
     optional |-> Plain(Rests, With(Up, Maybe(To("org", "Org")))),
     stranger |-> Issues(Rests, Up, With(Issue("upsert"), To("org", "Org"))),
     perhaps  |-> Issues(Rests, Up, [Issue("upsert") EXCEPT !.fields[2].nullable = TRUE]),
     ignored  |-> Issues(Rests, Repo("insert-ignore"), Issue("upsert")),
     texts    |-> Issues([Rests EXCEPT !.fields = Append(@, Raw("id"))],
                        [Up EXCEPT !.fields[1].type = "string", !.unique = <<>>], Issue("upsert")),
     named    |-> Issues(Rests, Up, At(Issue("delete-replace"))),
     places   |-> Plain(Rest(GhRepo, <<"ownerName">>), Up),
     again    |-> Plain(Rest(GhRepo, <<"owner", "owner">>), Up),
     unasked  |-> Labels(Graphql(GhRepo), Issue("upsert"), <<>>),
     circular |-> [Labels(Graphql(GhRepo), Issue("upsert"), <<GhOwner>>) EXCEPT
                      !.sources[4].fields = Append(@, [Raw("boss") EXCEPT !.type = "GhOwner"])]]
MCSplitOf == "owner.login" :> <<"owner", "login">>
MCSnakeOf == "Repo" :> "repo" @@ "Issue" :> "issue" @@ "Label" :> "label" @@ "ownerName" :> "owner_name"
                 @@ "owner.login" :> "owner_login"
=============================================================================
