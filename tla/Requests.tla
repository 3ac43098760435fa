------------------------------- MODULE Requests -------------------------------
(* One call through each of the front ends generated for a service: somebody    *)
(* asks for an operation with some arguments, sends it the way the front end's   *)
(* interface says, and the generated code finds the operation and fills its      *)
(* arguments, or refuses.                                                         *)
EXTENDS CCommandLine

CONSTANTS Services,   \* sequences of operations
          Modes,      \* front ends: "clap", "axum", "daemon", "c", "endpoint", "ws"
          Words       \* what an argument may be

VARIABLES service, mode,
          stage,      \* "idle", "asked", "sent" or "answered"
          call,       \* [op, given]
          wire,       \* what is sent
          outcome     \* [ok, op, args]

vars == <<service, mode, stage, call, wire, outcome>>

CommandLine == {"clap", "daemon", "c"}
Endpoints   == {"endpoint", "ws"}

(* The generator refuses a service, or its output is no program: two operations *)
(* on one path of a command line, colliding names, two bodies of one request.     *)
Generated(m, ops) ==
    /\ m \in CommandLine => ~planCliTreeThrows(ops)
    /\ m = "c" => ~emitCliThrows(ops)
    /\ m = "daemon" => \A i \in DOMAIN ops : Literals(ops[i].path) = planName(ops, i) /\ Len(planName(ops, i)) = 1
    /\ m \in {"clap", "daemon"} => \A i \in DOMAIN ops : ListsLast(ops[i])
    /\ m \in {"clap", "axum", "daemon"} =>
          \A i, j \in DOMAIN ops : i # j => planName(ops, i) # planName(ops, j)
    /\ m = "axum" => \A i \in DOMAIN ops :
          Cardinality({p \in ToSet(ops[i].params) : sourceOf(p) = "body" /\ ~p.stream}) <= 1
    /\ m = "axum" => ~RouterPanics(ops)
    /\ \A i \in DOMAIN ops : \A p \in ToSet(ops[i].params) :
          IF m \in Endpoints THEN Required(p) /\ ~p.skip /\ ~p.stream ELSE p.source \notin {"per_request", "shared"}

Values(m, p) == CASE p.stream \/ (m \in CommandLine /\ p.skip) -> {<<>>}
                  [] m \in Endpoints -> {<<p.name>>}
                  [] p.kind = "bool" -> {<<>>, True, False}
                  [] p.kind = "number" -> {<<>>} \cup {<<w>> : w \in DOMAIN NumberOf}
                  [] p.words # {} -> {<<>>} \cup {<<w>> : w \in p.words}
                  [] p.kind = "array" -> {<<>>} \cup {<<w>> : w \in Words} \cup {<<v, w>> : v, w \in Words}
                  [] OTHER -> {<<>>} \cup {<<w>> : w \in Words}

Given(m, op) == {g \in [Names(op.params) -> UNION {Values(m, p) : p \in ToSet(op.params)}] :
                    \A p \in ToSet(op.params) : g[p.name] \in Values(m, p)}

(* What the interface promises to take. *)
InRange(p, v) == \A i \in DOMAIN v :
    /\ p.min # <<>> => NumberOf[v[i]] >= p.min[1]
    /\ p.max # <<>> => NumberOf[v[i]] <= p.max[1]
Legal(op, given) ==
    /\ Constrained(op, given)
    /\ \A p \in ToSet(Fields(op)) : /\ Required(p) \/ p.required => given[p.name] # <<>>
                                   /\ InRange(p, given[p.name])
Meanings(op, given) == [n \in Names(Fields(op)) |-> Meaning(ParamOf(op, n), given[n])]

----------------------------------------------------------------------------
(* What is sent. On a command line the words of the path come first, a flag is  *)
(* there or not, and a word that looks like an option stands behind "--".        *)

PositionalWords(op, given) ==
    FlattenSeq([i \in DOMAIN Positionals(op) |-> given[Positionals(op)[i].name]])
Flag(p, v) == IF p.kind = "bool" /\ v = False THEN <<>> ELSE v
Flags(op, given) == [n \in Names(op.params) |-> Flag(ParamOf(op, n), given[n])]

Looks(w) == IF w = "-x" THEN [text |-> w, opts |-> <<"x">>, inline |-> <<>>] ELSE Word(w)
OptionTokens(op, given, assigned) ==
    LET options(p) == CASE p \notin descriptors(op) \/ Flag(p, given[p.name]) = <<>> -> <<>>
                        [] p.kind = "bool" -> <<Option(p.name)>>
                        [] OTHER -> FlattenSeq([i \in DOMAIN given[p.name] |->
                                 IF assigned THEN <<Assigned(p.name, given[p.name][i])>>
                                 ELSE <<Option(p.name), Looks(given[p.name][i])>>])
    IN  FlattenSeq([i \in DOMAIN op.params |-> options(op.params[i])])
WordTokens(op, given, literal) ==
    LET words == PositionalWords(op, given)
        tokens == [i \in DOMAIN words |-> Looks(words[i])]
    IN  IF literal THEN <<Dashes>> \o tokens ELSE tokens

Tokens(op, given) ==
    LET path == [i \in DOMAIN Literals(op.path) |-> Word(Literals(op.path)[i])]
        looks == \E i \in DOMAIN PositionalWords(op, given) : PositionalWords(op, given)[i] = "-x"
        lit   == {b \in BOOLEAN : looks => b}
    IN  {path \o OptionTokens(op, given, a) \o WordTokens(op, given, b) : a \in BOOLEAN, b \in lit}
          \cup {path \o WordTokens(op, given, FALSE) \o OptionTokens(op, given, a) : a \in {b \in BOOLEAN : ~looks}}

(* Over HTTP the variables of the path become segments, and what is left out    *)
(* leaves none.                                                                    *)
RequestPath(op, given) ==
    FlattenSeq([i \in DOMAIN op.path |-> IF op.path[i].var THEN given[op.path[i].name]
                                         ELSE <<op.path[i].name>>])
Request(op, given) ==
    LET bodies == SelectSeq(op.params, LAMBDA p : p.source = "body" /\ ~p.stream)
    IN  [verb |-> op.verb, path |-> RequestPath(op, given), named |-> given,
         body |-> IF bodies = <<>> THEN <<>> ELSE given[bodies[1].name]]

Sent(m, op, given) ==
    CASE m \in {"clap", "daemon"} -> {[node |-> Literals(op.path), words |-> PositionalWords(op, given),
                                       flags |-> Flags(op, given)]}
      [] m = "c" -> Tokens(op, given)
      [] m \in {"axum", "endpoint"} -> {Request(op, given)}
      [] OTHER -> {given}

----------------------------------------------------------------------------
(* What the generated code makes of it.                                        *)

Reached(i, filled) == IF filled.ok THEN [ok |-> TRUE, op |-> i, args |-> filled.args] ELSE Nowhere

ClapAnswer(ops, w) ==
    IF treeArm(ops, w.node) = 0 \/ Demands(ops, w.node) THEN Nowhere
    ELSE Reached(treeArm(ops, w.node), clapArgs(ops[treeArm(ops, w.node)], w.words, w.flags))

AxumAnswer(ops, w) ==
    IF Taken(ops, w.verb, w.path) = {} THEN Nowhere
    ELSE LET e == CHOOSE e \in Taken(ops, w.verb, w.path) : TRUE
         IN  Reached(e.op, httpArgs(ops[e.op], e.route, w))

(* The client has parsed the command line and sends the arguments as JSON.      *)
DaemonAnswer(ops, w) ==
    LET parsed == ClapAnswer(ops, w)
        json   == [n \in {m \in DOMAIN parsed.args : ~ParamOf(ops[parsed.op], m).skip} |-> parsed.args[n]]
        served == serverRoute(ops, clientMethod(ops, parsed.op), clientPath(ops, parsed.op))
    IN  IF ~parsed.ok \/ served = {} THEN Nowhere
        ELSE LET i == CHOOSE j \in served : TRUE IN Reached(i, serdeArgs(ops[i], json))

(* An endpoint is called with the arguments its binding takes from the request. *)
BoundAnswer(m, ops, w) ==
    LET i  == call.op
        by == IF m = "ws" THEN wsBinding(ops[i]) ELSE httpBinding(ops[i])
        given == IF m = "ws" THEN w ELSE w.named
    IN  IF m = "endpoint" /\ Len(PathParams(ops[i])) > 1 THEN Nowhere
        ELSE [ok |-> TRUE, op |-> i, args |-> CallBy(ops[i], by, given)]

----------------------------------------------------------------------------
Init == /\ service \in Services /\ mode \in Modes
        /\ Generated(mode, service)
        /\ stage = "idle"
        /\ call = [op |-> 0, given |-> <<>>] /\ wire = <<>> /\ outcome = Nowhere

Ask == /\ stage \in {"idle", "answered"}
       /\ \E i \in DOMAIN service : \E g \in Given(mode, service[i]) : call' = [op |-> i, given |-> g]
       /\ stage' = "asked" /\ wire' = <<>> /\ outcome' = Nowhere
       /\ UNCHANGED <<service, mode>>

Send == /\ stage = "asked" /\ stage' = "sent"
        /\ wire' \in Sent(mode, service[call.op], call.given)
        /\ UNCHANGED <<service, mode, call, outcome>>

Answer == /\ stage = "sent" /\ stage' = "answered"
          /\ outcome' = CASE mode = "clap" -> ClapAnswer(service, wire)
                          [] mode = "axum" -> AxumAnswer(service, wire)
                          [] mode = "daemon" -> DaemonAnswer(service, wire)
                          [] mode = "c" -> cli_parse(service, wire)
                          [] OTHER -> BoundAnswer(mode, service, wire)
          /\ UNCHANGED <<service, mode, call, wire>>

Next == Ask \/ Send \/ Answer
Spec == Init /\ [][Next]_vars

----------------------------------------------------------------------------
(* Where a front end is known to differ.                                       *)

(* A command line has no word for it: a flag that is on by default cannot be      *)
(* turned off, and no positional can be given behind one that is left out.        *)
Unsayable(op, g) ==
    \/ \E p \in ToSet(op.params) : p.kind = "bool" /\ p.default /\ g[p.name] = False
    \/ \E i, j \in DOMAIN Positionals(op) : i < j /\ g[Positionals(op)[i].name] = <<>>
                                             /\ g[Positionals(op)[j].name] # <<>>
Shadowed(ops, i) == Fields(ops[i]) = <<>> /\ Children(ops, Literals(ops[i].path)) # {}
                                          /\ Literals(ops[i].path) # <<>>
HalfRange(op, g) == \E p \in ToSet(op.params) : p.min = <<>> /\ p.max # <<>> /\ g[p.name] = <<"-1">>
SkippedDefault(op) == \E p \in ToSet(op.params) : p.skip /\ p.default
Repeated(ops, i) == FirstNamed(ops, i) # i
PathAstray(op, g) ==
    \/ [i \in DOMAIN op.path |-> IF op.path[i].var THEN op.path[i].name ELSE ""] #
       [i \in 1..Len(op.path) |-> IF i <= Len(Base(op)) THEN "" ELSE PathParams(op)[i - Len(Base(op))].name]
    \/ \E p, q \in ToSet(PathParams(op)) : g[p.name] = <<>> /\ g[q.name] # <<>>
Bodiless(op, g) == \E p \in ToSet(op.params) : sourceOf(p) = "body" /\ ~p.stream /\ g[p.name] = <<>>
Travels(op) == \E p \in ToSet(op.params) : p.spread /\ p.source # "body"
DefaultCounts(op, g) == \E p \in ToSet(op.params) : p.default /\ g[p.name] = <<>>
    /\ \/ p.requires # {} \/ p.conflicts # {} \/ p.name \in op.oneOf
       \/ \E q \in ToSet(op.params) : p.name \in q.requires \cup q.conflicts
       \/ p.words # {} /\ "default" \notin p.words

(* The scan for the options of the root knows none of those of an operation on   *)
(* the root path, forgets that it has seen "--", and what follows is a command    *)
(* if it is named like one.                                                        *)
AtRoot(ops, i, g) == Literals(ops[i].path) = <<>> /\
    \/ \E p \in descriptors(ops[i]) : Flag(p, g[p.name]) # <<>>
    \/ \E k \in DOMAIN PositionalWords(ops[i], g) :
          PositionalWords(ops[i], g)[k] = "-x" \/ <<PositionalWords(ops[i], g)[k]>> \in Nodes(ops)

Differs(m, ops, i, g) ==
    CASE m = "clap" -> Unsayable(ops[i], g) \/ Shadowed(ops, i) \/ Demands(ops, Literals(ops[i].path))
                          \/ HalfRange(ops[i], g) \/ SkippedDefault(ops[i])
      [] m = "daemon" -> Unsayable(ops[i], g) \/ HalfRange(ops[i], g) \/ Repeated(ops, i)
      [] m = "c" -> Unsayable(ops[i], g) \/ DefaultCounts(ops[i], g) \/ AtRoot(ops, i, g)
      [] m = "axum" -> PathAstray(ops[i], g) \/ Bodiless(ops[i], g) \/ Travels(ops[i])
      [] m = "endpoint" -> Len(PathParams(ops[i])) > 1
      [] OTHER -> wsBinding(ops[i]) # ops[i].params

(* A call that is taken reaches its own operation, with every argument meaning  *)
(* there what the interface says it means, the ones left out included. Code:     *)
(* planOps, planCliTree, treeArms, axumRoutes, httpField, clientFile, fill.       *)
RightCall == stage = "answered" /\ outcome.ok =>
    \/ outcome.op = call.op /\ outcome.args = Meanings(service[call.op], call.given)
    \/ Differs(mode, service, call.op, call.given)

(* A command line takes exactly the calls that are legal, however they are        *)
(* spelled; over HTTP a legal call is taken. Code: argOptions, cliArm, cli_scan,  *)
(* fill, HttpAutoFile.                                                            *)
Verdict == stage = "answered" =>
    \/ IF mode \in CommandLine THEN outcome.ok <=> Legal(service[call.op], Flags(service[call.op], call.given))
       ELSE Legal(service[call.op], call.given) => outcome.ok
    \/ Differs(mode, service, call.op, call.given)
===============================================================================
