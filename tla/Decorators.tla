------------------------------ MODULE Decorators ------------------------------
(***************************************************************************)
(* The facts a TypeSpec program has about its types: decorators put them into  *)
(* the state maps of the program (decorator-factory.ts, clap.ts, daemon.ts,     *)
(* and the decorators of binding-core and sql), emitters read them back.  A      *)
(* fact is kept under a state key, and under a type or, by hand, under a name:   *)
(* that of the model, or of the model that declares the property.               *)
(***************************************************************************)
EXTENDS DecoratorLibraries

CONSTANTS
    Cases,        \* libraries, as records [lib, out, max]
    Types,        \* of the program: id, kind, name, owner, node, copy and text
    Values        \* of arguments

VARIABLES
    case,         \* the library in use
    store,        \* the state maps: <<key, type or name>> to a value
    reported,     \* diagnostics: whose, and about which type
    applied       \* the applications in their order

vars == <<case, store, reported, applied>>

-----------------------------------------------------------------------------
(* Libraries written by hand *)

Flag(name, targets) == DecoratorSpec(name, "flag", targets, <<>>)
ValueDec(name, targets, param) == DecoratorSpec(name, "value", targets, Params(<<param>>))
Record(name, targets, params) == DecoratorSpec(name, "object", targets, Params(params))
Entry(name, key, params, adds) ==
    [DecoratorSpec(name, "list", {"ModelProperty"}, Params(params)) EXCEPT
        !.exclusiveKey = key, !.adds = adds]

Itself(field)  == Field(field, "itself", 0)
OfTarget(field) == Field(field, "target", 0)

\* storeRoute: under the name of the model that declares the property.
storeRoute(name) == [Entry(name, "route", <<"path">>, <<Itself("method")>>) EXCEPT !.place = "node"]

Bind == <<Record("from", {"Model"}, <<"sourceModel", "targetModel">>)>>
Source == <<
    Flag("graphql", {"Model"}), ValueDec("rest", {"Model"}, "path"), Flag("paginated", {"Model"}),
    [Record("nested", {"Model"}, <<"parent", "path">>) EXCEPT !.place = "name"],
    ValueDec("pollInterval", {"Model"}, "seconds"), ValueDec("freshness", {"Model"}, "kind")>>
Strategy == <<ValueDec("strategy", {"Model"}, "value")>>
Config == <<
    Flag("source", {"Model"}), ValueDec("envVar", {"ModelProperty"}, "name"),
    Flag("secret", {"ModelProperty"}), ValueDec("path", {"Model"}, "pattern")>>
Cli == <<
    Flag("command", {"Model"}),
    [Record("subcommand", {"Model"}, <<"parent">>) EXCEPT !.place = "name"],
    Flag("cliFlag", {"ModelProperty"}), ValueDec("cliArg", {"ModelProperty"}, "position"),
    ValueDec("short", {"ModelProperty"}, "char"),
    ValueDec("about", {"Model", "ModelProperty"}, "text")>>
Http == <<
    Flag("router", {"Model"}),
    storeRoute("get"), storeRoute("post"), storeRoute("put"), storeRoute("httpDelete"),
    [ValueDec("state", {"Model"}, "config") EXCEPT !.place = "name"]>>
bindingCore == Bind \o Source \o Strategy \o Config \o Cli \o Http

storeRelation(kind) ==
    [Entry(kind, "relation", <<>>, <<OfTarget("property"), Itself("kind")>>) EXCEPT !.place = "node"]

sql == <<
    Flag("intern", {"Scalar"}), Flag("pk", {"ModelProperty"}), Flag("manual", {"ModelProperty"}),
    Entry("unique", "", <<"fields">>, <<OfTarget("anchor")>>),
    Entry("index", "", <<"fields">>, <<OfTarget("anchor")>>),
    ValueDec("default", {"ModelProperty"}, "value"),
    storeRelation("belongsTo"), storeRelation("hasMany"),
    storeRelation("hasOne"), storeRelation("manyToMany") >>

put(name, targets, params) ==
    [DecoratorSpec(name, "merge", targets, Params(params)) EXCEPT
        !.exclusiveKey = "clap", !.adds = IF params = <<>> THEN <<Itself(name)>> ELSE <<>>]

clap == <<
    put("valueName", {"ModelProperty"}, <<"valueName">>), put("requires", {"ModelProperty"}, <<"requires">>),
    put("requiresAll", {"ModelProperty"}, <<"requiresAll">>),
    put("conflictsWith", {"ModelProperty"}, <<"conflictsWith">>),
    put("valueDelimiter", {"ModelProperty"}, <<"valueDelimiter">>),
    put("positional", {"ModelProperty"}, <<>>), put("skip", {"ModelProperty"}, <<>>),
    put("hidden", {"ModelProperty"}, <<>>), put("global", {"ModelProperty"}, <<>>),
    [put("requiredOneOf", {"Model", "Operation"}, <<"requiredOneOf", "requiredOneOfName">>) EXCEPT
        !.params[2].optional = TRUE],
    put("rootArgs", {"Namespace"}, <<"args">>),
    put("argsConflictsWithSubcommands", {"Namespace"}, <<>>),
    put("afterHelp", {"Namespace", "Operation"}, <<"afterHelp">>) >>

daemon == <<ValueDec("daemon", {"Namespace"}, "options")>>

\* They call the factories as generated code would.
ByHand(lib) ==
    LET out == generateTs(lib)
        merged == {i \in DOMAIN lib : lib[i].shape = "merge"}
    IN [out EXCEPT
          !.instances = [i \in DOMAIN lib |-> [out.instances[i] EXCEPT
              !.fields = IF lib[i].shape \in {"object", "list", "merge"}
                         THEN FieldsOf(lib[i]) \o lib[i].adds ELSE <<>>]],
          !.accessors = {a \in @ : a.of \notin merged} \cup
              UNION {{Accessor("field", f.name, i) : f \in ToSet(FieldsOf(lib[i]) \o lib[i].adds)} :
                     i \in merged}]

\* A property has the name of the model that declares it; a copy keeps it.
TypesAssumption ==
    /\ \A t, u \in Types : t.id = u.id => t = u
    /\ \A t \in Types : t.kind = "ModelProperty" =>
          \E m \in Types : m.kind = "Model" /\ m.id = t.owner /\ (t.copy = "" => m.name = t.node)
    /\ \A t \in Types : t.copy # "" =>
          \E o \in Types : /\ o.id = t.copy /\ o.copy = "" /\ o.node = t.node
                          /\ t.kind = "ModelProperty" /\ o.kind = "ModelProperty"

\* A decorator with a place of its own is for one kind, and a record has no field twice.
WellDescribed(d) ==
    /\ \A s \in {d.params, d.options, d.adds} : s \in Seq(ToSet(s))
    /\ d.shape \in ToSet(Shapes) \cup {"merge"} /\ Value(d) # Undefined
    /\ \/ d.place = "type"
       \/ d.place = "name" /\ d.shape # "exclusive" /\ d.targets = {"Model"}
       \/ d.place = "node" /\ d.shape # "exclusive" /\ d.targets = {"ModelProperty"}
    /\ \A f, g \in ToSet(FieldsOf(d)) \cup ToSet(d.adds) : f.name = g.name => f = g
    /\ \A f \in ToSet(d.adds) : f.from \in {"target", "itself"}

TypesOf(l) == {tsType(p.type) : p \in UNION {ToSet(d.params \o d.options) : d \in ToSet(l)}}

ASSUME DecoratorsAssumption ==
    /\ TypesAssumption
    /\ \A c \in Cases :
        /\ c.max \in Nat /\ c.lib \in Seq(ToSet(c.lib))
        /\ \A d \in ToSet(c.lib) : WellDescribed(d)
        /\ \/ /\ c.out = ByHand(c.lib)
              /\ \A d \in ToSet(c.lib) : d.options = <<>>
           \/ /\ c.out \in {generateTs(c.lib), TsFile(c.lib)}
              /\ \A d \in ToSet(c.lib) : d.adds = <<>> /\ d.shape # "merge"
              /\ c.out = TsFile(c.lib) => \A d \in ToSet(c.lib) : d.options = <<>>
        /\ c.max > 0 => Builds(c.lib, c.out, TypesOf(c.lib))

-----------------------------------------------------------------------------
(* The factories *)

lib == case.lib
instances == case.out.instances

Slot(i, t) ==
    <<instances[i].key, CASE instances[i].place = "type" -> t.id
                          [] instances[i].place = "name" -> t.name
                          [] instances[i].place = "node" -> t.node>>

Kept(slot) == IF slot \in DOMAIN store THEN store[slot] ELSE Undefined

With(f, g) == [x \in DOMAIN f \cup DOMAIN g |-> IF x \in DOMAIN g THEN g[x] ELSE f[x]]

\* The arguments, in the order in which the .tsp file declares the parameters.
Arguments(i, args) ==
    [k \in DOMAIN case.out.passed[i] |->
        IF case.out.passed[i][k] \in DOMAIN args.given THEN args.given[case.out.passed[i][k]]
        ELSE args.options]

build(i, t, args) ==
    LET argument(k) == IF k \in DOMAIN Arguments(i, args) THEN Arguments(i, args)[k] ELSE Undefined
        value(f) == CASE f.from = "argument" -> argument(f.at)
                      [] f.from = "options"  -> IF argument(f.at) = Undefined THEN Undefined
                                                ELSE argument(f.at)[f.name]
                      [] f.from = "target"   -> t.name
                      [] f.from = "itself"   -> lib[i].name
        fields == ToSet(instances[i].fields)
    IN [n \in {f.name : f \in fields} |-> value(CHOOSE f \in fields : f.name = n)]

flagDec(i, t, args) == "true"

valueDec(i, t, args) == IF Arguments(i, args) = <<>> THEN Undefined ELSE Arguments(i, args)[1]

objectDec(i, t, args) == build(i, t, args)

\* Mutant: an entry replaces what the list holds.
listDec_Replaces(i, t, args) == <<build(i, t, args)>>

\* Under the key there is an array, or nothing.
listDec(i, t, args) ==
    (IF Slot(i, t) \in DOMAIN store THEN Kept(Slot(i, t)) ELSE <<>>) \o <<build(i, t, args)>>

\* Mutant: the later of two exclusive decorators wins.
exclusiveDec_LastWins(i, t, args) == instances[i].value

exclusiveDec(i, t, args) ==
    IF Kept(Slot(i, t)) # Undefined THEN Kept(Slot(i, t)) ELSE instances[i].value

\* clap.ts: what was not given leaves what was there.
merge(i, t, args) ==
    LET new == build(i, t, args)
        given == [f \in {n \in DOMAIN new : new[n] # Undefined} |-> new[f]]
    IN IF Slot(i, t) \in DOMAIN store THEN With(Kept(Slot(i, t)), given) ELSE given

Decorated(i, t, args) ==
    CASE instances[i].factory = "flag"      -> flagDec(i, t, args)
      [] instances[i].factory = "value"     -> valueDec(i, t, args)
      [] instances[i].factory = "object"    -> objectDec(i, t, args)
      [] instances[i].factory = "list"      -> listDec(i, t, args)
      [] instances[i].factory = "exclusive" -> exclusiveDec(i, t, args)
      [] instances[i].factory = "merge"     -> merge(i, t, args)

-----------------------------------------------------------------------------
(* Applications *)

Init ==
    /\ case \in Cases
    /\ store = <<>> /\ reported = <<>> /\ applied = <<>>

ArgumentsOf(d) ==
    LET names == {d.params[k].name : k \in DOMAIN d.params}
        may == {d.params[k].name : k \in {l \in DOMAIN d.params : d.params[l].optional}}
    IN [given   : {g \in [names -> Values \cup {Undefined}] : \A n \in names \ may : g[n] # Undefined},
        options : {Undefined} \cup
                  IF d.options = <<>> THEN {}
                  ELSE [{d.options[k].name : k \in DOMAIN d.options} -> Values \cup {Undefined}]]

Run(i, t, args) ==
    /\ store' = With(store, [slot \in {Slot(i, t)} |-> Decorated(i, t, args)])
    /\ reported' = IF instances[i].factory = "exclusive" /\ Kept(Slot(i, t)) # Undefined
                   THEN Append(reported, <<"duplicate", instances[i].handler, t.id>>) ELSE reported

Note(i, t, args) == applied' = Append(applied, [of |-> i, target |-> t, args |-> args])

\* $intern is for text only (sql/src/1_decorators.ts).
Accepts(i, t) == lib[i].name = "intern" => t.text

\* Only a list has a push; on another value the compiler stops with an exception.
Pushes(i, t) == instances[i].factory = "list" =>
    \A n \in DOMAIN applied : Slot(applied[n].of, applied[n].target) = Slot(i, t)
                             => instances[applied[n].of].factory = "list"

\* The source has a decorator on a type of one of the kinds it is declared for.
Apply(i, t, args) ==
    /\ Len(applied) < case.max
    /\ t.copy = "" /\ t.kind \in lib[i].targets
    /\ Accepts(i, t) /\ Pushes(i, t)
    /\ Run(i, t, args)
    /\ Note(i, t, args)
    /\ UNCHANGED case

Reject(i, t) ==
    /\ Len(reported) < case.max
    /\ t.kind \in lib[i].targets
    /\ ~Accepts(i, t)
    /\ reported' = Append(reported, <<"invalid", "intern", t.id>>)
    /\ UNCHANGED <<case, store, applied>>

On(t) == {n \in DOMAIN applied : applied[n].target = t}

Rank(n, S) == Cardinality({m \in S : m <= n})

\* The compiler runs the decorators of a property for the copy a spread makes of it.
Repeat(t) ==
    /\ t.copy # ""
    /\ \E o \in Types : \E n \in On(o) :
        /\ o.id = t.copy /\ Rank(n, On(o)) = Cardinality(On(t)) + 1
        /\ Run(applied[n].of, t, applied[n].args) /\ Note(applied[n].of, t, applied[n].args)
    /\ UNCHANGED case

Next ==
    \/ \E i \in DOMAIN lib, t \in Types : \E args \in ArgumentsOf(lib[i]) : Apply(i, t, args)
    \/ \E i \in DOMAIN lib, t \in Types : Reject(i, t)
    \/ \E t \in Types : Repeat(t)

Spec == Init /\ [][Next]_vars

-----------------------------------------------------------------------------
(* Properties *)

TypeOK ==
    /\ case \in Cases
    /\ \A slot \in DOMAIN store : Len(slot) = 2
    /\ \A n \in DOMAIN applied : applied[n].of \in DOMAIN lib /\ applied[n].target \in Types

\* Decorators that say one thing together: they are declared with a key of their own.
Together(i) == IF lib[i].exclusiveKey = "" \/ lib[i].shape = "merge" THEN {i}
               ELSE {j \in DOMAIN lib : lib[j].exclusiveKey = lib[i].exclusiveKey}

\* What an application says, by the names of the parameters.
Said(a) ==
    LET d == lib[a.of]
        said(n) == IF n \in DOMAIN a.args.given THEN a.args.given[n]
                   ELSE IF a.args.options = Undefined THEN Undefined ELSE a.args.options[n]
        added == {f.name : f \in ToSet(d.adds)}
        add(n) == IF (CHOOSE f \in ToSet(d.adds) : f.name = n).from = "itself" THEN d.name ELSE a.target.name
    IN CASE d.shape = "flag"      -> "true"
         [] d.shape = "value" /\ Len(d.params \o d.options) = 1 -> said(d.params[1].name)
         [] d.shape = "exclusive" -> Value(d)
         [] OTHER -> [n \in Names(d.params \o d.options) \cup added |-> IF n \in added THEN add(n) ELSE said(n)]

\* The applications that are about type t: on it, or on the properties of it.
About(i, t) ==
    {n \in DOMAIN applied :
        /\ applied[n].of \in Together(i)
        /\ IF lib[i].place = "node" THEN applied[n].target.owner = t.id ELSE applied[n].target = t}

InOrder(S) == [k \in 1..Cardinality(S) |-> CHOOSE n \in S : Rank(n, S) = k]

\* What an accessor is to return for type t, and what it returns.
Promised(a, t) ==
    LET said == [k \in DOMAIN InOrder(About(a.of, t)) |-> Said(applied[InOrder(About(a.of, t))[k]])]
    IN IF a.kind \in {"is", "has"} THEN About(a.of, t) # {}
       ELSE IF About(a.of, t) = {} THEN Undefined
       ELSE CASE a.kind = "field"                                -> Last(said)[a.name]
              [] a.kind = "get" /\ lib[a.of].shape = "list"      -> said
              [] a.kind = "get" /\ lib[a.of].shape = "exclusive" -> Head(said)
              [] OTHER                                           -> Last(said)

Returned(a, t) ==
    LET slot == <<instances[a.of].key, IF instances[a.of].place = "type" THEN t.id ELSE t.name>>
    IN CASE a.kind \in {"is", "has"} -> slot \in DOMAIN store
         [] a.kind = "field" /\ slot \in DOMAIN store ->
                IF a.name \in DOMAIN Kept(slot) THEN Kept(slot)[a.name] ELSE Undefined
         [] OTHER                    -> Kept(slot)

Targets(a) == {t \in Types : IF instances[a.of].place = "node" THEN t.kind = "Model"
                             ELSE t.kind \in lib[a.of].targets}

\* Decorators share their state that do not belong together: both name a key and are of
\* different shapes, or the key that one names is the name of the other.
SharedKey(i) ==
    LET key(d) == IF d.exclusiveKey # "" THEN d.exclusiveKey ELSE d.name
    IN \E j \in DOMAIN lib : /\ key(lib[j]) = key(lib[i])
                             /\ \E part \in {"shape", "place", "exclusiveKey"} : lib[j][part] # lib[i][part]

\* generate.tsx keeps a structured decorator under its own name, whatever key it names.
\* Such a library builds only if another decorator names that name as its key.
KeyIgnored(l) == {i \in Structured(l) : l[i].exclusiveKey \notin {"", l[i].name}}

\* A value is the first argument; others are dropped.
OnlyFirst(i) == lib[i].shape = "value" /\ (Len(lib[i].params) # 1 \/ lib[i].options # <<>>)

\* Models of one name are one to facts kept by name; so are a model and one that copies
\* a property of it, whose facts all go to the model that declares it.
SameName(t) == \E u \in Types : u.kind = t.kind /\ u # t /\ u.name = t.name
Copies(t)   == \E p, o \in Types : p.copy = o.id /\ t.id \in {p.owner, o.owner} /\ On(o) # {}
Muddled(i, t) ==
    \/ SharedKey(i) \/ \E j \in Together(i) : OnlyFirst(j)
    \/ KeyIgnored(lib) # {} /\ case.out = TsFile(lib)
    \/ lib[i].place # "type" /\ SameName(t)
    \/ lib[i].place = "node" /\ Copies(t)

\* An optional argument that is left out when its decorator is applied again.
LeftOut(a, t) == a.kind = "field" /\ About(a.of, t) # {} /\ Promised(a, t) = Undefined

(* Every accessor returns what the decorators it is for have said of the type: the   *)
(* last of them, all of them in order, or the first of exclusive ones, with a        *)
(* diagnostic for each that came too late.  Other decorators and types never matter. *)
AccessorsTell ==
    \A a \in case.out.accessors : \A t \in Targets(a) :
        \/ Muddled(a.of, t) \/ LeftOut(a, t)
        \/ /\ Returned(a, t) = Promised(a, t)
           /\ lib[a.of].shape = "exclusive" =>
                Cardinality({n \in DOMAIN reported : reported[n] = <<"duplicate", instances[a.of].handler, t.id>>})
                    = IF About(a.of, t) = {} THEN 0 ELSE Cardinality(About(a.of, t)) - 1

(* Where generate.tsx writes a library that builds, decorator-codegen.ts writes one   *)
(* that builds as well, and the same one unless a structured decorator names a key.   *)
GeneratorsAgree ==
    (\A i \in DOMAIN lib : lib[i].options = <<>> /\ lib[i].place = "type") =>
        /\ Builds(lib, TsFile(lib), {}) => Builds(lib, generateTs(lib), {})
        /\ KeyIgnored(lib) = {} => TsFile(lib) = generateTs(lib)
=============================================================================
