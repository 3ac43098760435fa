-------------------------------- MODULE Routes --------------------------------
(* How the operations of a service become commands, routes and arguments, the  *)
(* same plan for every generated front end: a clap parser and an axum router    *)
(* (04_ops-plan.ts, 7_OpsTransports.tsx), a daemon with its client              *)
(* (07_daemon-files.tsx), a C parser (7_cli.ts) and endpoints over HTTP and     *)
(* WebSocket (5_TransportBinding.tsx).                                          *)
(*                                                                              *)
(* A service is a sequence of operations. A path is a sequence of segments,     *)
(* [var |-> TRUE, name |-> "id"] being {id}. Every value on its way is a        *)
(* sequence of strings, so that a list, a word and nothing compare: <<>> is an  *)
(* argument that is not given.                                                  *)
EXTENDS Integers, Sequences, SequencesExt, FiniteSets

Names(params) == {params[i].name : i \in DOMAIN params}
ParamOf(op, n) == op.params[CHOOSE i \in DOMAIN op.params : op.params[i].name = n]

None  == <<"None">>
True  == <<"true">>
False == <<"false">>
DefaultOf(p) == IF p.kind = "bool" THEN True ELSE <<"default">>
NumberOf == [w \in {"-1", "0", "1", "9"} |-> CASE w = "-1" -> -1 [] w = "0" -> 0
                                               [] w = "1" -> 1 [] w = "9" -> 9]

(* What the type of the argument has for an argument left out. *)
TypeDefault(p) == CASE p.kind = "array" -> <<>>
                    [] p.kind = "bool" -> False
                    [] p.optional /\ ~p.default -> None
                    [] OTHER -> <<"">>

Required(p) == ~p.optional /\ ~p.default /\ p.kind \notin {"bool", "array"}

(* What the operation is to see for v. *)
Meaning(p, v) == CASE v # <<>> -> v
                   [] v = <<>> /\ p.default -> DefaultOf(p)
                   [] OTHER -> TypeDefault(p)

(* A spread model is one parameter of the body, wherever its properties travel *)
(* (operationDef).                                                              *)
sourceOf(p) == IF p.spread THEN "body" ELSE p.source

----------------------------------------------------------------------------
(* Plans (planOps, roleOf, planCliTree).                                      *)

roleOf(p) == CASE p.stream -> "stream"
               [] ~p.stream /\ (p.positional \/ sourceOf(p) = "path") -> "positional"
               [] ~p.stream /\ ~p.positional /\ sourceOf(p) = "body" /\ p.kind = "model" -> "flatten"
               [] OTHER -> "flag"

Fields(op)      == SelectSeq(op.params, LAMBDA p : roleOf(p) # "stream")
Positionals(op) == SelectSeq(op.params, LAMBDA p : roleOf(p) = "positional" /\ ~p.skip)

Literals(path) == LET kept == SelectSeq(path, LAMBDA s : ~s.var)
                  IN  [i \in DOMAIN kept |-> kept[i].name]

(* The words of the name of operation i; the route is part of it only when the *)
(* local name occurs again.                                                     *)
planName(ops, i) ==
    IF (\E j \in DOMAIN ops \ {i} : ops[j].name = ops[i].name) /\ Literals(ops[i].path) # <<>>
    THEN Literals(ops[i].path) ELSE <<ops[i].name>>

(* The tree is its set of nodes, each the words that lead to it.                *)
Nodes(ops) == UNION {{SubSeq(Literals(ops[i].path), 1, k) :
                         k \in 0..Len(Literals(ops[i].path))} : i \in DOMAIN ops}
Children(ops, node) == {n \in Nodes(ops) : Len(n) = Len(node) + 1 /\ IsPrefix(node, n)}
PlansAt(ops, node)  == {i \in DOMAIN ops : Literals(ops[i].path) = node}
planCliTreeThrows(ops) == \E n \in Nodes(ops) : Cardinality(PlansAt(ops, n)) > 1

(* The operation the generated match arrives at, or 0. A group owns arguments  *)
(* only if its operation has fields; without them its subcommand is required.  *)
(* The root keeps its operation either way.                                     *)
ownsArgs(ops, node) == \E i \in PlansAt(ops, node) : Fields(ops[i]) # <<>> \/ node = <<>>
treeArm(ops, node) ==
    IF PlansAt(ops, node) = {} \/ (Children(ops, node) # {} /\ ~ownsArgs(ops, node))
    THEN 0 ELSE CHOOSE i \in PlansAt(ops, node) : TRUE

(* The arguments of a group are a plain struct, so that its required ones are    *)
(* asked of its subcommands too.                                                  *)
Demands(ops, node) == \E i \in DOMAIN ops : \E p \in ToSet(Fields(ops[i])) :
    /\ IsStrictPrefix(Literals(ops[i].path), node)
    /\ (Required(p) /\ ~p.skip) \/ p.required

----------------------------------------------------------------------------
(* clap (external): positionals in the order of the fields, a list takes the    *)
(* rest; flags by name; requirements between arguments as flagAttrs states them. *)

TakePositionals(op, words) ==
    LET ps == Positionals(op)
        at(n) == CHOOSE i \in DOMAIN ps : ps[i].name = n
    IN  [n \in Names(ps) |->
            IF at(n) > Len(words) THEN <<>>
            ELSE IF ps[at(n)].kind = "array" THEN SubSeq(words, at(n), Len(words))
            ELSE <<words[at(n)]>>]
TooMany(op, words) == LET ps == Positionals(op)
                      IN  Len(words) > Len(ps) /\ (ps = <<>> \/ Last(ps).kind # "array")

(* argOptions: requires, conflicts_with and the required group, over what is given. *)
Constrained(op, given) ==
    /\ \A p \in ToSet(Fields(op)) : given[p.name] # <<>> =>
          /\ \A n \in p.requires : given[n] # <<>>
          /\ \A n \in p.conflicts : given[n] = <<>>
    /\ op.oneOf # {} => \E n \in op.oneOf : given[n] # <<>>

(* A range that names only its end starts at 0. *)
clapRange(p, w) == p.min # <<>> \/ p.max # <<>> =>
    /\ NumberOf[w] >= IF p.min = <<>> THEN 0 ELSE p.min[1]
    /\ p.max # <<>> => NumberOf[w] <= p.max[1]

(* cliFieldType: a list repeats, a flag needs no value, a default drops the Option. *)
clapArgs(op, words, flags) ==
    LET placed == TakePositionals(op, words)
        given  == [n \in Names(Fields(op)) |-> CASE ParamOf(op, n).skip -> <<>>
                                                 [] n \in DOMAIN placed -> placed[n]
                                                 [] OTHER -> flags[n]]
        ok == /\ ~TooMany(op, words)
              /\ Constrained(op, given)
              /\ \A p \in ToSet(Fields(op)) : 
                    /\ (Required(p) /\ ~p.skip) \/ p.required => given[p.name] # <<>>
                    /\ \A i \in DOMAIN given[p.name] : clapRange(p, given[p.name][i])
    IN  [ok |-> ok,
         args |-> [n \in Names(Fields(op)) |->
                      IF ParamOf(op, n).skip THEN TypeDefault(ParamOf(op, n))
                      ELSE Meaning(ParamOf(op, n), given[n])]]

----------------------------------------------------------------------------
(* axum: the routes of an operation and what its handler takes from a request.  *)

PathParams(op) == SelectSeq(op.params, LAMBDA p : sourceOf(p) = "path")

(* The path with every {..} taken out; a slash stays for one in the middle.     *)
Base(op) == LET cut == [i \in DOMAIN op.path |->
                           [tag |-> "lit", name |-> IF op.path[i].var THEN "" ELSE op.path[i].name]]
                last == {i \in DOMAIN cut : cut[i].name # ""}
            IN  SubSeq(cut, 1, IF last = {} THEN 0 ELSE CHOOSE i \in last : \A j \in last : j <= i)

axumRoutes(op) ==
    LET ps   == PathParams(op)
        segs == [i \in DOMAIN ps |-> [tag |-> IF ps[i].kind = "array" THEN "wild" ELSE "var",
                                      name |-> ps[i].name]]
        full == Base(op) \o segs
    IN  IF \E i \in DOMAIN ps : ps[i].optional THEN {Base(op), full} ELSE {full}

(* axum (external): which routes a request path is on, and the one that is taken. *)
OnRoute(route, path) ==
    /\ IF route # <<>> /\ Last(route).tag = "wild" THEN Len(path) >= Len(route)
                                                   ELSE Len(path) = Len(route)
    /\ \A i \in DOMAIN route : route[i].tag = "lit" => route[i].name = path[i]

Router(ops) == {[verb |-> ops[i].verb, route |-> r, op |-> i] :
                   <<i, r>> \in {<<j, q>> \in (DOMAIN ops) \X UNION {axumRoutes(ops[k]) : k \in DOMAIN ops} :
                                    q \in axumRoutes(ops[j])}}
Before(e, f) == \E i \in DOMAIN e.route \cap DOMAIN f.route :
    /\ e.route[i].tag = "lit" /\ f.route[i].tag # "lit"
    /\ \A j \in 1..(i - 1) : (e.route[j].tag = "lit") = (f.route[j].tag = "lit")
Taken(ops, verb, path) ==
    LET on == {e \in Router(ops) : e.verb = verb /\ OnRoute(e.route, path)}
    IN  {e \in on : \A f \in on : ~Before(f, e)}

(* Two routes of one shape: the router panics when it is built.                 *)
Shape(route) == [i \in DOMAIN route |-> IF route[i].tag = "lit" THEN route[i].name ELSE "{}"]
RouterPanics(ops) == \E e, f \in Router(ops) :
    e # f /\ Shape(e.route) = Shape(f.route) /\ (e.verb = f.verb \/ e.route # f.route)

(* The part of the request path that a parameter of the route stands for. *)
Extract(route, path, n) ==
    LET at == {i \in DOMAIN route : route[i].tag # "lit" /\ route[i].name = n}
    IN  IF at = {} THEN <<>>
        ELSE LET i == CHOOSE j \in at : TRUE
             IN  IF route[i].tag = "wild" THEN SubSeq(path, i, Len(path)) ELSE <<path[i]>>

httpField_NoDefault(p, route, req) ==
    [ok |-> sourceOf(p) \notin {"query", "header"} \/ ~Required(p) \/ req.named[p.name] # <<>>,
     value |-> CASE sourceOf(p) = "path" -> Extract(route, req.path, p.name)
                 [] sourceOf(p) \in {"query", "header"} /\ req.named[p.name] # <<>> -> req.named[p.name]
                 [] sourceOf(p) \in {"query", "header"} /\ req.named[p.name] = <<>> -> TypeDefault(p)
                 [] OTHER -> req.body]
(* httpField: the expression that fills field p, and whether the extractor or it fails. *)
httpField(p, route, req) ==
    CASE sourceOf(p) = "path" ->
           LET v == Extract(route, req.path, p.name)
           IN  [ok |-> TRUE, value |-> IF v = <<>> THEN TypeDefault(p) ELSE v]
      [] sourceOf(p) \in {"query", "header"} ->
           [ok |-> ~Required(p) \/ req.named[p.name] # <<>>, value |-> Meaning(p, req.named[p.name])]
      [] OTHER -> [ok |-> req.body # <<>>, value |-> req.body]

httpArgs(op, route, req) ==
    LET at(n) == httpField(ParamOf(op, n), route, req)
    IN  [ok |-> \A n \in Names(Fields(op)) : at(n).ok,
         args |-> [n \in Names(Fields(op)) |-> at(n).value]]

----------------------------------------------------------------------------
(* The daemon: the client finds path and method in matches over the name of the *)
(* operation, the first arm of a name being the one that counts.                 *)

FirstNamed(ops, i) == CHOOSE j \in DOMAIN ops :
    ops[j].name = ops[i].name /\ \A k \in 1..(j - 1) : ops[k].name # ops[i].name
clientPath(ops, i) == ops[FirstNamed(ops, i)].path
clientMethod(ops, i) ==
    LET others == {j \in DOMAIN ops : ops[j].name = ops[i].name /\ ops[j].verb # "post"}
    IN  IF others = {} THEN "post" ELSE ops[CHOOSE j \in others : \A k \in others : j <= k].verb
serverRoute(ops, verb, path) == {i \in DOMAIN ops : ops[i].path = path /\ ops[i].verb = verb}

(* Args through JSON: skipped fields do not travel, and what serde puts in for a *)
(* field that is not there.                                                       *)
serdeArgs(op, json) ==
    LET has(p) == ~p.skip /\ p.name \in DOMAIN json
    IN  [ok |-> \A p \in ToSet(Fields(op)) : has(p) \/ p.skip \/ ~Required(p),
         args |-> [n \in Names(Fields(op)) |-> IF has(ParamOf(op, n)) THEN json[n]
                                               ELSE Meaning(ParamOf(op, n), <<>>)]]

----------------------------------------------------------------------------
(* Endpoints: the written function takes the parameters in their order; what    *)
(* each binding passes, by position.                                             *)

Resolved(op) == SelectSeq(op.params, LAMBDA p : p.source \in {"per_request", "shared"})
Sourced(op)  == SelectSeq(op.params, LAMBDA p : p.source \notin {"per_request", "shared"})
manualParams(op) == op.params
httpBinding(op)  == op.params
wsBinding(op)    == Resolved(op) \o Sourced(op)
CallBy(op, passed, given) ==
    [n \in Names(op.params) |->
        given[passed[CHOOSE i \in DOMAIN op.params : manualParams(op)[i].name = n].name]]
===============================================================================
