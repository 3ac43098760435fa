------------------------------ MODULE MCRequests ------------------------------
EXTENDS Requests

Plain == [name |-> "a", source |-> "query", kind |-> "scalar", optional |-> FALSE, default |-> FALSE,
          stream |-> FALSE, positional |-> FALSE, skip |-> FALSE, spread |-> FALSE, required |-> FALSE,
          requires |-> {}, conflicts |-> {}, words |-> {}, min |-> <<>>, max |-> <<>>]
Par(n, s, k) == [Plain EXCEPT !.name = n, !.source = s, !.kind = k]
Opt(p) == [p EXCEPT !.optional = TRUE]
Dft(p) == [p EXCEPT !.default = TRUE]
Pos(p) == [p EXCEPT !.positional = TRUE]
Lit(n) == [var |-> FALSE, name |-> n]
Var(n) == [var |-> TRUE, name |-> n]
Op(n, v, path, ps) == [name |-> n, verb |-> v, path |-> path, params |-> ps, oneOf |-> {}]

id == Par("id", "path", "scalar")
to == Par("to", "path", "scalar")
rest == Opt(Par("rest", "path", "array"))
q == Par("q", "query", "scalar")
r == Par("r", "query", "scalar")
flag == Par("f", "query", "bool")
list == Par("l", "query", "array")
head == Par("h", "header", "scalar")
body == Par("b", "body", "model")
num == Par("n", "query", "number")

Params == {
    <<>>, <<q>>, <<id>>, <<id, q>>, <<id, to>>, <<id, Opt(to)>>, <<Opt(id)>>, <<Opt(id), Opt(to)>>, <<rest>>,
    <<id, rest, Dft(q)>>, <<Opt(q), Dft(r)>>, <<flag, Dft([flag EXCEPT !.name = "g"])>>,
    <<list, Opt(head)>>, <<Dft(head), Dft(Par("g", "header", "bool"))>>,
    <<body>>, <<Opt(body), id>>, <<[body EXCEPT !.spread = TRUE, !.source = "query"], q>>,
    <<Dft([q EXCEPT !.skip = TRUE]), r>>, <<Opt([q EXCEPT !.skip = TRUE]), id>>,
    <<Pos(Opt(q)), Pos(Opt(r))>>, <<Pos(q), Pos(list)>>, <<Pos(list), Pos(q)>>,
    <<Opt([num EXCEPT !.min = <<0>>, !.max = <<1>>])>>, <<Opt([num EXCEPT !.max = <<1>>])>>,
    <<Opt([num EXCEPT !.min = <<1>>]), [list EXCEPT !.required = TRUE]>>,
    <<Opt([q EXCEPT !.requires = {"r"}]), Opt(r)>>, <<Opt([q EXCEPT !.conflicts = {"f"}]), flag>>,
    <<Opt([q EXCEPT !.conflicts = {"r"}]), Dft(r)>>,
    <<Dft([q EXCEPT !.words = {"by value"}]), r>>, <<Opt([q EXCEPT !.words = {"x", "y"}])>>,
    <<q, [Plain EXCEPT !.name = "s", !.source = "body", !.stream = TRUE]>>,
    <<Par("p", "per_request", "scalar"), id>>, <<id, Par("p", "shared", "scalar")>>,
    <<id, q, Par("p", "per_request", "scalar"), body>> }

Vars(ps) == FlattenSeq([i \in DOMAIN ps |-> IF ps[i].source = "path" THEN <<Var(ps[i].name)>> ELSE <<>>])
OneOf(op, ns) == [op EXCEPT !.oneOf = ns]

OneOperation == UNION {{<<Op("a", "get", <<Lit("a")>> \o Vars(ps), ps)>>, <<Op("get", "post", Vars(ps), ps)>>} : ps \in Params}
Others == {
    <<Op("posts", "get", <<Lit("rooms"), Var("id"), Lit("posts")>>, <<id>>)>>,
    <<OneOf(Op("any", "get", <<Lit("a")>>, <<Opt(q), Opt(r)>>), {"q", "r"})>>,
    <<OneOf(Op("any", "get", <<Lit("a")>>, <<Opt(q), Dft(r)>>), {"q", "r"})>> }
Tree == {
    <<Op("list", "get", <<Lit("a")>>, <<>>), Op("show", "get", <<Lit("a"), Lit("b")>>, <<q>>)>>,
    <<Op("list", "get", <<Lit("a")>>, <<Opt(q)>>), Op("show", "get", <<Lit("a"), Lit("b"), Var("id")>>, <<id>>)>>,
    <<Op("list", "get", <<Lit("a"), Var("rest")>>, <<rest>>), Op("show", "get", <<Lit("a"), Lit("b")>>, <<q>>)>>,
    <<Op("list", "get", <<Lit("a")>>, <<q>>), Op("show", "get", <<Lit("a"), Lit("b")>>, <<Opt(r)>>)>>,
    <<Op("top", "get", <<>>, <<Pos(Opt(q))>>), Op("show", "get", <<Lit("x")>>, <<Opt(r)>>)>>,
    <<Op("read", "get", <<Lit("a"), Var("id")>>, <<id>>), Op("write", "put", <<Lit("a"), Var("id")>>, <<id, body>>)>> }
Distinct == {<<Op("a", "get", <<Lit("a")>>, <<Opt(q)>>), Op("b", "post", <<Lit("b")>>, <<r, flag>>)>>,
             <<Op("list", "get", <<Lit("a")>>, <<Opt(q)>>), Op("list", "post", <<Lit("b")>>, <<Opt(q)>>)>>}

AllServices == OneOperation \cup Others \cup Tree \cup Distinct
AllModes == {"clap", "axum", "daemon", "c", "endpoint", "ws"}
TwoWords == {"x", "-x"}
===============================================================================
