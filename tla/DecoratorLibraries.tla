-------------------------- MODULE DecoratorLibraries --------------------------
(***************************************************************************)
(* Libraries of decorators and the two programs that write their code from   *)
(* a description: decorator-codegen.ts, and reader.ts with generate.tsx,      *)
(* which takes the description from models of a TypeSpec program.  A         *)
(* generated library is what matters of its two files: the parameters the     *)
(* compiler passes, the names declared, the factory behind each decorator      *)
(* with its state key, and the accessors.                                      *)
(***************************************************************************)
EXTENDS Naturals, Sequences, SequencesExt

CONSTANT Undefined            \* JavaScript's undefined

-----------------------------------------------------------------------------
(* Descriptions *)

Param(name) == [name |-> name, type |-> "string", optional |-> FALSE]
Params(names) == [i \in DOMAIN names |-> Param(names[i])]

DecoratorSpec(name, shape, targets, params) ==
    [name |-> name, shape |-> shape, targets |-> targets, params |-> params,
     options |-> <<>>, exclusiveKey |-> "", exclusiveValue |-> "",
     place |-> "type", adds |-> <<>>]

Exclusive(name, targets, key) ==
    [DecoratorSpec(name, "exclusive", targets, <<>>) EXCEPT
        !.exclusiveKey = key, !.exclusiveValue = name]

\* decorator-spec.ts of the AsyncAPI library.
asyncapiSpec == <<
    [DecoratorSpec("server", "list", {"Namespace"}, Params(<<"url", "protocol">>)) EXCEPT
        !.options = Params(<<"protocolVersion", "pathname">>)],
    DecoratorSpec("channel", "value", {"Namespace", "Interface"}, Params(<<"address">>)),
    Exclusive("send", {"Operation"}, "direction"),
    Exclusive("receive", {"Operation"}, "direction"),
    [DecoratorSpec("reply", "object", {"Operation"}, <<>>) EXCEPT
        !.options = Params(<<"channel", "addressExpr">>)],
    DecoratorSpec("correlationId", "value", {"Operation"}, Params(<<"location">>)),
    DecoratorSpec("payload", "flag", {"ModelProperty"}, <<>>),
    DecoratorSpec("messageHeader", "value", {"ModelProperty"},
                  <<[Param("name") EXCEPT !.optional = TRUE]>>),
    DecoratorSpec("contentType", "value", {"Namespace", "Interface", "Operation"},
                  Params(<<"mediaType">>)),
    DecoratorSpec("amqpBinding", "value", {"Namespace", "Interface"},
                  <<[Param("bindings") EXCEPT !.type = "AmqpChannelBindingsDef"]>>),
    DecoratorSpec("amqpOperationBinding", "value", {"Operation"},
                  <<[Param("bindings") EXCEPT !.type = "AmqpOperationBindingsDef"]>>) >>

-----------------------------------------------------------------------------
(* reader.ts: descriptions from models with @decoratorDef *)

Shapes == <<"flag", "value", "object", "list", "exclusive">>

\* $decoratorDef keeps the shape, an ordinal, by name.
decoratorDef(m) == IF m.shape + 1 \in DOMAIN Shapes THEN Shapes[m.shape + 1] ELSE "value"

resolvePropertyType(prop) ==
    CASE prop.kind \notin {"Scalar", "Model", "Enum"}     -> "string"
      [] prop.kind = "Scalar" /\ prop.type = "float32" -> "float64"
      [] OTHER                                            -> prop.type

readModel(m) ==
    [DecoratorSpec(m.name, decoratorDef(m), m.targets,
                   [i \in DOMAIN m.properties |->
                       [name |-> m.properties[i].name, optional |-> m.properties[i].optional,
                        type |-> resolvePropertyType(m.properties[i])]]) EXCEPT
        !.exclusiveKey = m.exclusiveKey, !.exclusiveValue = m.exclusiveValue]

\* Namespaces are walked before the models outside of any; two are left out.
readLibrarySpec(ms) ==
    LET inside(m)  == m.path # <<>> /\ Head(m.path) \notin {"TypeSpec", "DecoratorDef"}
        outside(m) == m.path = <<>>
        found == SelectSeq(ms, inside) \o SelectSeq(ms, outside)
    IN [i \in DOMAIN found |-> readModel(found[i])]

-----------------------------------------------------------------------------
(* Both *)

tsType(type) == IF type \in {"int32", "int64", "float64"} THEN "number" ELSE type

Value(d) == IF d.exclusiveValue = "" THEN d.name ELSE d.exclusiveValue

\* What the code of one decorator does: where it keeps its state, what it puts there,
\* whom it calls about a conflict.
Instance(d, key, fields) ==
    [factory |-> d.shape, key |-> key, fields |-> fields, place |-> d.place,
     value   |-> IF d.shape = "exclusive" THEN Value(d) ELSE "",
     handler |-> IF d.shape # "exclusive" THEN "" ELSE
                 IF d.exclusiveKey = "" THEN d.name ELSE d.exclusiveKey]

\* A field of a value: from which argument, or from the bag of options, or else.
Field(name, from, at) == [name |-> name, from |-> from, at |-> at]
FieldsOf(d) == [i \in DOMAIN d.params |-> Field(d.params[i].name, "argument", i)]

exclusiveKeys(lib) == {d.exclusiveKey : d \in {e \in ToSet(lib) : e.shape = "exclusive"}} \ {""}

\* An accessor: its name and the decorator whose factory it belongs to.
Accessor(kind, name, i) == [kind |-> kind, name |-> name, of |-> i]

FirstOf(lib, key) ==
    CHOOSE i \in DOMAIN lib : /\ lib[i].shape = "exclusive" /\ lib[i].exclusiveKey = key
                              /\ \A j \in 1..(i - 1) : lib[j].shape = "exclusive" => lib[j].exclusiveKey # key

Structured(lib) == {i \in DOMAIN lib : lib[i].shape \in {"object", "list"}}

-----------------------------------------------------------------------------
(* decorator-codegen.ts *)

generateDecoratorTsp(d) ==
    [i \in DOMAIN d.params |-> d.params[i].name] \o (IF d.options = <<>> THEN <<>> ELSE <<"options">>)

generateDefInterface(d) ==
    {<<d.params[i].name, tsType(d.params[i].type)>> : i \in DOMAIN d.params}
    \cup {<<d.options[i].name, tsType(d.options[i].type)>> : i \in DOMAIN d.options}

\* Mutant: the value of an exclusive decorator is its name, whatever value it is given.
generateFactoryCall_ByName(d) ==
    [Instance(d, IF d.exclusiveKey # "" THEN d.exclusiveKey ELSE d.name,
              IF d.shape \notin {"object", "list"} THEN <<>>
              ELSE FieldsOf(d) \o [i \in DOMAIN d.options |->
                         Field(d.options[i].name, "options", Len(d.params) + 1)]) EXCEPT
        !.value = IF d.shape = "exclusive" THEN d.name ELSE ""]

generateFactoryCall(d) ==
    Instance(d, IF d.exclusiveKey # "" THEN d.exclusiveKey ELSE d.name,
             IF d.shape \notin {"object", "list"} THEN <<>>
             ELSE FieldsOf(d) \o [i \in DOMAIN d.options |->
                        Field(d.options[i].name, "options", Len(d.params) + 1)])

generateExports(lib) == UNION {
    CASE lib[i].shape = "flag"      -> {Accessor("is", lib[i].name, i)}
      [] lib[i].shape = "exclusive" -> {}
      [] OTHER -> {Accessor("get", lib[i].name, i), Accessor("has", lib[i].name, i)} : i \in DOMAIN lib}

generateExclusiveGetters(lib) ==
    {Accessor("get", key, FirstOf(lib, key)) : key \in exclusiveKeys(lib)}

generateStateKeys(lib) ==
    {IF d.exclusiveKey # "" THEN d.exclusiveKey ELSE d.name : d \in ToSet(lib)}

generateTs(lib) ==
    [instances |-> [i \in DOMAIN lib |-> generateFactoryCall(lib[i])],
     passed    |-> [i \in DOMAIN lib |-> generateDecoratorTsp(lib[i])],
     accessors |-> generateExports(lib) \cup generateExclusiveGetters(lib),
     fields    |-> [i \in Structured(lib) |-> generateDefInterface(lib[i])],
     keys      |-> generateStateKeys(lib),
     handlers  |-> exclusiveKeys(lib)]

\* What was written for the AsyncAPI library, as it is checked in.
asyncapi == generateTs(asyncapiSpec)

-----------------------------------------------------------------------------
(* generate.tsx *)

TspDeclarator(d) == [i \in DOMAIN d.params |-> d.params[i].name]

TsStateInterfaces(d) == {<<d.params[i].name, tsType(d.params[i].type)>> : i \in DOMAIN d.params}

\* Structured decorators keep their state under their own name, whatever key they name.
factoryCall(d) ==
    Instance(d, IF d.exclusiveKey # "" /\ d.shape \notin {"object", "list"} THEN d.exclusiveKey ELSE d.name,
             IF d.shape \notin {"object", "list"} THEN <<>>
             ELSE FieldsOf(d))

TsConflictHandlers(lib) == exclusiveKeys(lib)

TsExclusiveGetters(lib) == {Accessor("get", key, FirstOf(lib, key)) : key \in exclusiveKeys(lib)}

generateStateConfig(lib) ==
    {IF d.exclusiveKey # "" THEN d.exclusiveKey ELSE d.name : d \in ToSet(lib)}

accessors(lib) == UNION {
    CASE lib[i].shape = "flag"      -> {Accessor("is", lib[i].name, i)}
      [] lib[i].shape = "exclusive" -> {}
      [] OTHER -> {Accessor(kind, lib[i].name, i) : kind \in {"get", "has"}} : i \in DOMAIN lib}

TsFile(lib) ==
    [instances |-> [i \in DOMAIN lib |-> factoryCall(lib[i])],
     passed    |-> [i \in DOMAIN lib |-> TspDeclarator(lib[i])],
     accessors |-> accessors(lib) \cup TsExclusiveGetters(lib),
     fields    |-> [i \in Structured(lib) |-> TsStateInterfaces(lib[i])],
     keys      |-> generateStateConfig(lib),
     handlers  |-> TsConflictHandlers(lib)]

-----------------------------------------------------------------------------
(* What the compilers of the generated files accept *)

Names(s) == {s[i].name : i \in DOMAIN s}

\* A parameter that must be given does not follow one that may be left out.
OptionalsLast(s) == \A i, j \in DOMAIN s : i < j /\ s[i].optional => s[j].optional

\* No constant is declared twice, whatever is referred to is declared, the types are
\* types of TypeScript or imported, and a record has no field twice.
Builds(lib, out, imported) ==
    /\ \A i, j \in DOMAIN lib : lib[i].name = lib[j].name => i = j
    /\ \A a, b \in out.accessors : a.kind = b.kind /\ a.name = b.name => a = b
    /\ \A i \in DOMAIN lib :
        /\ out.instances[i].key \in out.keys
        /\ out.instances[i].handler \in out.handlers \cup {""}
        /\ OptionalsLast(lib[i].params)
        /\ lib[i].shape = "value" /\ Len(lib[i].params) = 1 =>
              tsType(lib[i].params[1].type) \in {"string", "boolean", "number"} \cup imported
    /\ \A i \in DOMAIN out.fields :
        /\ \A f \in out.fields[i] : f[2] \in {"string", "boolean", "number"} \cup imported
        /\ LET s == lib[i].params \o lib[i].options
           IN \A k, l \in DOMAIN s : s[k].name = s[l].name => k = l
        /\ lib[i].options # <<>> => "options" \notin Names(lib[i].params)
=============================================================================
