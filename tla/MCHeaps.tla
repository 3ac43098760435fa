------------------------------ MODULE MCHeaps ------------------------------
(* Programs with one or two types of each kind, what a caller makes of them by   *)
(* hand, right and wrong, and documents near what the codecs accept.              *)
EXTENDS CHeaps, TLC

MCKeywords == {<<"default">>}
MCDigits   == {"3d"}

N(s)    == Part(s)
N2(s, u) == [parts |-> <<s, u>>, dash |-> FALSE]
Dash(s, u) == [parts |-> <<s, u>>, dash |-> TRUE]
TextT   == [kind |-> "text"]
Sint(b)  == [kind |-> "int", bits |-> b]
Uint(b) == [kind |-> "uint", bits |-> b]
Float   == [kind |-> "float", bits |-> 2]
Double  == [kind |-> "float", bits |-> 3]
Bool    == [kind |-> "bool"]
Unknown == [kind |-> "unknown"]
NullT   == [kind |-> "null"]
Literal == [kind |-> "literal", text |-> <<"x">>]
Maybe(t) == [kind |-> "nullable", inner |-> t]
Array(t) == [kind |-> "array", value |-> t]
Map(t)   == [kind |-> "map", value |-> t]
Pair2(t, u) == [kind |-> "tuple", values |-> <<t, u>>]
Model(id) == [kind |-> "model", id |-> id]
Union(id) == [kind |-> "union", id |-> id]
Enum(id)  == [kind |-> "enum", id |-> id]
Member(id, n) == [kind |-> "member", id |-> id, number |-> n]

M(n, t)  == [name |-> n, type |-> t, optional |-> FALSE, text |-> <<>>, number |-> <<>>, params |-> <<>>]
Opt(m)   == [m EXCEPT !.optional = TRUE]
Item(n, text, number) == [M(n, NullT) EXCEPT !.text = text, !.number = number]
Op(n, t, params) == [M(n, t) EXCEPT !.params = params]
D(kind, ns, name, members) == [kind |-> kind, ns |-> ns, name |-> name, members |-> members, value |-> NullT]
Coll(ns, name, t) == [D("collection", ns, name, <<>>) EXCEPT !.value = t]
Ns == <<N("Ns")>>
Program(named, decl) == [named |-> named, decl |-> decl]

State  == D("enum", Ns, N("State"), <<Item(N("on"), <<"on">>, <<1>>), Item(N2("in", "use"), <<"in use">>, <<>>)>>)
Probe  == D("model", Ns, N("Item"), <<M(N("id"), Sint(2)), M(N("state"), Enum("State")), Opt(M(N("note"), TextT))>>)
Result == D("union", Ns, N("Result"), <<M(N("item"), Model("Item")), M(N("text"), TextT), M(N("count"), Sint(2)), M(N("empty"), NullT)>>)
Link   == D("model", Ns, N("Link"), <<M(N("value"), Bool), Opt(M(N("next"), Model("Link")))>>)
Labels == Coll(Ns, N("Labels"), Map(Array(TextT)))
Message == D("model", Ns, N("Message"), <<M(N("code"), Maybe(Sint(3))), M(N("labels"), Array(TextT)), Opt(M(N("extra"), Model("Labels")))>>)
Loose  == D("model", Ns, N("Loose"), <<M(N("tags"), Maybe(Array(TextT))), Opt(M(N("any"), Maybe(Unknown))), Opt(M(N("kind"), Literal))>>)
Grid   == D("model", Ns, N("Grid"), <<M(N("cells"), Array(Pair2(Uint(2), Maybe(TextT)))), Opt(M(N("at"), Pair2(Array(Bool), Maybe(Uint(3)))))>>)
Fixed  == D("model", Ns, N("Fixed"), <<M(N("only"), Member("State", 1)), M(N("f"), Float), Opt(M(N("d"), Double)), Opt(M(N("s"), Maybe(Enum("State"))))>>)
Wrap   == D("union", Ns, N("Wrap"), <<M(N("w"), Maybe(Uint(2))), M(N("u"), Unknown)>>)
Anon   == D("model", <<>>, Unnamed, <<M(N("deep"), TextT)>>)
Owner  == D("model", Ns, N("Owner"), <<M(N("list"), Array(Model("anon")))>>)
Pile   == Coll(Ns, N("Pile"), Array(Model("anon")))
Service == D("interface", Ns, N("Service"), <<Op(N("get"), Array(TextT), <<M(N("id"), Sint(2))>>)>>)

Tagged(name) == Program(<<"U", "V">>, "U" :> D("union", Ns, N("U"), <<M(N("a"), TextT)>>) @@ "V" :> D("model", Ns, name, <<M(N("b"), Bool)>>))
Two(d, e)    == Program(<<"D", "E">>, "D" :> d @@ "E" :> e)
Small(ns, n) == D("model", ns, n, <<M(N("b"), Bool)>>)

MCPrograms == <<
    Program(<<"State", "Item", "Result">>, "State" :> State @@ "Item" :> Probe @@ "Result" :> Result),
    Program(<<"Link">>, "Link" :> Link),
    Program(<<"Labels", "Message">>, "Labels" :> Labels @@ "Message" :> Message),
    Program(<<"Loose">>, "Loose" :> Loose),
    Program(<<"Grid">>, "Grid" :> Grid),
    Program(<<"State", "Fixed">>, "State" :> State @@ "Fixed" :> Fixed),
    Program(<<"Wrap">>, "Wrap" :> Wrap),
    Program(<<"Owner", "Service">>, "Owner" :> Owner @@ "anon" :> Anon @@ "Service" :> Service),
    Program(<<"Pile">>, "Pile" :> Pile @@ "anon" :> Anon),
    Tagged(N2("U", "tag")), Tagged([parts |-> <<"U", "create", "a">>, dash |-> FALSE]), Tagged(Dash("U", "parse")), Tagged(N("V")),
    Two(Small(<<N("A"), N("B")>>, N("C")), Small(<<N("A")>>, N2("B", "C"))),
    Two(Small(<<N("A")>>, N("C")), Small(<<N("B")>>, N("C"))),
    Two(Small(Ns, N("3d")), Small(Ns, N2("", "3d"))),
    Two(D("model", Ns, N("H"), <<Opt(M(N("a"), Bool)), M(N2("has", "a"), Bool)>>), Small(Ns, N("C"))),
    Program(<<"D", "E">>, "D" :> Owner @@ "anon" :> Anon @@ "E" :> Small(Ns, [parts |-> <<"Owner", "list", "item">>, dash |-> FALSE])),
    Two(D("enum", Ns, N("E"), <<Item(N("a"), <<"a">>, <<1>>), Item(N("b"), <<"b">>, <<0>>), Item(N("c"), <<"c">>, <<>>)>>), Small(Ns, N("C"))),
    Two(D("model", Ns, N("T"), <<M(N("t"), Maybe(Pair2(TextT, Bool)))>>), Small(Ns, N("C"))),
    Two(D("union", Ns, N("X"), <<M(N("l"), Array(Bool))>>), Small(Ns, N("C"))),
    Two(D("enum", Ns, N("E"), <<Item(N("strings"), <<"strings">>, <<>>)>>), Small(Ns, N("C"))) >>

----------------------------------------------------------------------------
By(v) == <<Caller, v>>
RECURSIVE Made(_, _, _), Sent(_, _, _)
(* Values of a type in the caller's memory, to the depth n.                        *)
Fields(p, ms, n) == LET f[i \in 0..Len(ms)] ==
        IF i = 0 THEN {<<>>}
        ELSE {Append(s, x) : s \in f[i - 1],
              x \in {[has |-> ms[i].optional, val |-> v] : v \in Made(p, ms[i].type, n)}
                    \cup (IF ms[i].optional THEN {[has |-> FALSE, val |-> Zero(ms[i].type)]} ELSE {})}
    IN f[Len(ms)]
Made(p, t, n) ==
    CASE t.kind = "int"   -> {-(2 ^ (t.bits - 1)), 2 ^ (t.bits - 1) - 1}
      [] t.kind = "uint"  -> {0, 2 ^ t.bits - 1}
      [] t.kind = "float" -> {3}
      [] t.kind = "bool"  -> {TRUE}
      [] t.kind \in {"enum", "member"} -> {0, 1, 2}
      [] t.kind = "text"    -> {Null, By(<<"a">>)}
      [] t.kind = "literal" -> {By(<<"a">>), By(<<"x">>)}
      [] t.kind = "unknown" -> {Null, By(<<"null">>), By(<<"str", <<"a">>>>), By(Garbage)}
      [] t.kind = "nullable" -> {Null} \cup (IF pointerValue(t.inner) THEN Made(p, t.inner, n) ELSE {By(v) : v \in Made(p, t.inner, n)})
      [] t.kind = "array" -> {NoItems, [count |-> 1, items |-> Null]}
                               \cup {[count |-> 1, items |-> By(<<v>>)] : v \in Made(p, t.value, n)}
                               \cup {[count |-> 2, items |-> By(<<v, v>>)] : v \in Made(p, t.value, n)}
      [] t.kind = "map" -> {NoItems} \cup {[count |-> 1, items |-> By(<< <<k, v>> >>)] : k \in {Null, By(<<"k">>)}, v \in Made(p, t.value, n)}
      [] t.kind = "tuple" -> {<<v, w>> : v \in Made(p, t.values[1], n), w \in Made(p, t.values[2], n)}
      [] n = 0 -> {Null}
      [] OTHER -> LET d == p.decl[t.id] IN
            {Null} \cup CASE d.kind = "collection" -> {By(c) : c \in Made(p, d.value, n - 1)}
                          [] d.kind = "model" -> {By(s) : s \in Fields(p, d.members, n - 1)}
                          [] d.kind = "union" -> {By(<<0, 0>>)} \cup UNION {{By(<<k, v>>) :
                                v \in IF d.members[k].type.kind = "null" THEN {0} ELSE Made(p, d.members[k].type, n - 1)} : k \in DOMAIN d.members}
MCInputs(p, id) == Made(p, Ref(id), 2)

(* Documents: what fits, what nearly fits, members left out or given twice.          *)
Str(s) == <<"str", s>>
J(n)   == <<"int", n>>
Members2(p, ms, n) == LET f[i \in 0..Len(ms)] ==
        IF i = 0 THEN {<<>>}
        ELSE {s \o x : s \in f[i - 1], x \in {<<>>} \cup {<< <<nameText(ms[i].name), j>> >> : j \in Sent(p, ms[i].type, n)}}
    IN f[Len(ms)]
Sent(p, t, n) ==
    CASE t.kind \in {"int", "uint"} -> {J(k) : k \in {-5, -4, -2, 0, 1, 2, 3, 4, 7, 8}} \cup {<<"real", 2>>}
      [] t.kind = "float" -> {J(1), J(3), <<"real", 3>>, <<"real", 9>>, <<"null">>}
      [] t.kind = "bool"  -> {<<"bool", TRUE>>, J(1)}
      [] t.kind \in {"enum", "member"} -> {Str(<<"on">>), Str(<<"in use">>), Str(<<"on", Nul>>), J(1)}
      [] t.kind = "text"  -> {Str(<<"a">>), Str(<<"a", Nul, "b">>)}
      [] t.kind = "literal" -> {Str(<<"x">>), Str(<<"x", Nul>>), Str(<<"a">>)}
      [] t.kind = "unknown" -> {<<"null">>, Str(<<"a", Nul>>)}
      [] t.kind = "nullable" -> {<<"null">>} \cup Sent(p, t.inner, n)
      [] t.kind = "array" -> {<<"arr", <<>>>>, <<"null">>} \cup {<<"arr", <<j>>>> : j \in Sent(p, t.value, n)}
                               \cup {<<"arr", <<j, j>>>> : j \in Sent(p, t.value, n)}
      [] t.kind = "map" -> {<<"obj", <<>>>>} \cup {<<"obj", << <<k, j>>, <<<<"k">>, j>> >>>> : k \in {<<"k">>, <<"k", Nul>>}, j \in Sent(p, t.value, n)}
      [] t.kind = "tuple" -> {<<"arr", <<j, k>>>> : j \in Sent(p, t.values[1], n), k \in Sent(p, t.values[2], n)} \cup {<<"arr", <<>>>>}
      [] n = 0 -> {<<"null">>}
      [] OTHER -> LET d == p.decl[t.id] IN
            CASE d.kind = "collection" -> Sent(p, d.value, n)
              [] d.kind = "model" -> LET objs == Members2(p, d.members, n - 1) IN
                    {<<"null">>} \cup {<<"obj", o>> : o \in objs} \cup {<<"obj", o \o o>> : o \in {o \in objs : Len(o) = 1}}
              [] d.kind = "union" -> {<<"obj", << <<<<"tag">>, Str(nameText(d.members[k].name) \o z)>>, <<<<"value">>, j>> >>>> :
                        z \in {<<>>, <<Nul>>}, k \in DOMAIN d.members, j \in UNION {Sent(p, d.members[i].type, n - 1) : i \in {i \in DOMAIN d.members : ~IsNull(d.members[i])}}}
                     \cup {<<"obj", << <<<<"tag">>, Str(nameText(d.members[k].name))>>, <<<<"value">>, <<"null">>>> >>>> : k \in DOMAIN d.members}
MCDocuments(p, id) == {Garbage} \cup Sent(p, Ref(id), 2)

HeapSymmetry == Permutations(Heaps)
=============================================================================
