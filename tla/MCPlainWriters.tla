--------------------------- MODULE MCPlainWriters ---------------------------
(* Schemas small enough to fill their tables: keys the database gives and keys  *)
(* of the caller, of one column and of two, rows recognised by key or by unique  *)
(* columns or by nothing, relations, manual columns, interned models beside them. *)
EXTENDS PlainWriters

Field(n, t) == [name |-> n, type |-> t, nullable |-> FALSE, pk |-> FALSE, manual |-> FALSE,
                default |-> FALSE, rel |-> "", target |-> "", leads |-> "", intern |-> ""]
Pk(f)       == [f EXCEPT !.pk = TRUE]
Maybe(f)    == [f EXCEPT !.nullable = TRUE]
Manual(f)   == [f EXCEPT !.manual = TRUE]
Id          == Pk(Field("id", "integer"))
Text(n)     == Field(n, "string")
To(n, t)    == [Field(n, "model") EXCEPT !.rel = "belongsTo", !.target = t]
Intern(n)   == [Field(n, "string") EXCEPT !.intern = "Symbol"]
Model(n, fields, uniq) == [name |-> n, ns |-> "app", fields |-> fields, unique |-> uniq, index |-> <<>>, related |-> FALSE]

Note    == Model("note", <<Id, Maybe(Text("tag"))>>, <<>>)
Tag     == Model("tag", <<Id, Text("word")>>, <<<<"word">>>>)
Page    == Model("page", <<Id, Maybe(Text("path")), Text("body")>>, <<<<"path">>>>)
Event   == Model("event", <<Pk(Field("seq", "integer")), Text("name")>>, <<<<"name">>>>)
Counter == Model("counter", <<Id>>, <<>>)
Doc     == Model("doc", <<Id, Text("path"), Maybe(Manual(Text("body")))>>, <<<<"path">>>>)
Form    == Model("form", <<Id, Text("path"), Manual(Text("body"))>>, <<>>)
Login   == Model("login", <<Id, Text("name"), Text("mail")>>, <<<<"name">>, <<"mail">>>>)
Setting == Model("setting", <<Pk(Text("key")), Text("slot")>>, <<<<"slot">>>>)
Option  == Model("option", <<Pk(Text("key")), Text("value")>>, <<>>)
Org     == Model("org", <<Id>>, <<>>)
Member  == Model("member", <<Pk(To("org", "org")), Pk(Text("user")), Text("mail")>>, <<<<"mail">>>>)
Post    == Model("post", <<Id, To("org", "org"), Text("title")>>, <<<<"org", "title">>>>)
Account == Model("Account", <<Pk(Field("accountId", "int64")), Text("name")>>, <<>>)
Card    == Model("card", <<Id, To("account", "Account")>>, <<>>)
Call    == Model("Call", <<Pk(Field("id", "int64")), Intern("caller"), To("org", "org"), To("from", "Call")>>,
                 <<<<"caller", "org">>>>)
Issue   == Model("issue", <<Pk(Field("seq", "integer")), Text("id")>>, <<<<"id">>>>)
Seat    == Model("seat", <<Pk(Text("place")), Pk(Text("user")), Text("nick")>>, <<<<"user">>, <<"place", "nick">>>>)
Badge   == Model("badge", <<Pk(To("org", "org")), Pk(Text("user")), Text("Org")>>, <<>>)
Slot    == Model("slot", <<Id, Text("body"), Manual([Text("place") EXCEPT !.default = TRUE])>>, <<<<"body">>, <<"place">>>>)
Lead    == Model("lead", <<Pk(Maybe(Field("place", "int64"))), Text("user")>>, <<<<"user">>>>)
Guest   == Model("guest", <<Id, Maybe(To("org", "org")), Text("user")>>, <<<<"user">>>>)
Visit   == Model("visit", <<Id, Intern("caller"), Maybe(To("org", "org"))>>, <<<<"caller">>>>)
Shown   == [Model("visit", <<Text("caller")>>, <<>>) EXCEPT !.ns = "view"]
Link    == Model("link", <<Id, To("call", "Call")>>, <<>>)

MCSnakeOf == [n \in {"Account", "accountId", "Call", "Org"} |->
                 CASE n = "Account" -> "account" [] n = "accountId" -> "account_id"
                   [] n = "Call" -> "call" [] n = "Org" -> "org"]

Alone == {Note, Tag, Page, Event, Counter, Doc, Form, Login, Setting, Option, Issue, Seat, Slot, Lead}
OrgUsers == {Member, Post, Badge, Guest}
In(ms, m) == [models |-> ms, name |-> m.name]
MCCases == [n \in {m.name : m \in Alone} |->
               LET m == CHOOSE m \in Alone : m.name = n IN In(<<m>>, m)]
           @@ [n \in {m.name : m \in OrgUsers} |->
               LET m == CHOOSE m \in OrgUsers : m.name = n IN In(<<Org, m>>, m)]
           @@ "account" :> In(<<Account, Card>>, Account) @@ "card" :> In(<<Account, Card>>, Card)
           @@ "link"    :> In(<<Org, Call, Link>>, Link)
           @@ "afterGuest" :> In(<<Org, Guest, Note>>, Note)
           @@ "sameName" :> In(<<[Tag EXCEPT !.name = "app__Call"], Org, Call>>, Org)
           @@ "viewName" :> In(<<[Org EXCEPT !.name = "app__Call_text"], Org, Call>>, Org)
           @@ "related" :> In(<<Org, Visit, Shown>>, Org)

MCBackends   == {"rusqlite", "sqlx", "go"}
MCStrategies == {"upsert", "insert-ignore", "delete-replace"}
=============================================================================
