----------------------------- MODULE MCDecorators -----------------------------
(* Two models called M in two namespaces, a third one with a copy of a property of the  *)
(* first, and libraries of two or three decorators next to those of the repository.     *)
EXTENDS Decorators

Type(id, kind, name) == [id |-> id, kind |-> kind, name |-> name, owner |-> "", node |-> "",
                         copy |-> "", text |-> FALSE]
MCTypes == {
    Type("m1", "Model", "M"), Type("m2", "Model", "M"), Type("m3", "Model", "N"),
    [Type("p", "ModelProperty", "p") EXCEPT !.owner = "m1", !.node = "M"],
    [Type("q", "ModelProperty", "q") EXCEPT !.owner = "m3", !.node = "N"],
    [Type("p3", "ModelProperty", "p") EXCEPT !.owner = "m3", !.node = "M", !.copy = "p"],
    Type("ns", "Namespace", "S"), Type("op", "Operation", "f"),
    [Type("t", "Scalar", "T") EXCEPT !.text = TRUE], Type("n", "Scalar", "I") }

Prop(name, kind, type, optional) == [name |-> name, kind |-> kind, type |-> type, optional |-> optional]
Model(name, shape, properties, key, value) ==
    [path |-> <<"L">>, name |-> name, shape |-> shape, properties |-> properties,
     targets |-> {"Operation", "Namespace"}, exclusiveKey |-> key, exclusiveValue |-> value]
a == Prop("a", "Scalar", "string", FALSE)
b == Prop("b", "Scalar", "float32", TRUE)

Described == {
    <<Model("mark", 0, <<>>, "", ""), Model("tag", 1, <<a>>, "", "")>>,
    <<Model("on", 4, <<>>, "mode", "on"), Model("off", 4, <<>>, "mode", "off")>>,
    <<Model("on", 4, <<>>, "mode", ""), Model("off", 4, <<>>, "mode", "on"), Model("mode", 0, <<>>, "", "")>>,
    <<Model("on", 4, <<>>, "", "on"), Model("mark", 0, <<>>, "", "")>>,
    <<Model("on", 4, <<>>, "mode", ""), Model("mode", 1, <<a>>, "", "")>>,
    <<Model("meta", 2, <<a, b>>, "", ""), Model("hook", 3, <<a>>, "", "")>>,
    <<Model("meta", 2, <<a>>, "kept", ""), Model("hook", 3, <<a>>, "kept", "")>>,
    <<Model("meta", 2, <<a>>, "kept", ""), Model("mark", 0, <<>>, "meta", "")>>,
    <<Model("tag", 1, <<a>>, "kept", ""), Model("label", 1, <<a>>, "kept", "")>>,
    <<Model("tag", 1, <<b, a>>, "", "")>>, <<Model("tag", 1, <<a, b>>, "", "")>>,
    <<Model("meta", 2, <<b, a>>, "", "")>>,
    <<Model("tag", 1, <<Prop("a", "Scalar", "int8", FALSE)>>, "", "")>>,
    <<Model("meta", 2, <<Prop("a", "Model", "N", FALSE)>>, "", "")>>,
    <<Model("meta", 2, <<Prop("a", "Union", "U", FALSE)>>, "", "")>>,
    <<Model("tag", 0, <<>>, "", ""), [Model("tag", 0, <<>>, "", "") EXCEPT !.path = <<"K">>]>>,
    <<[Model("late", 9, <<a>>, "", "") EXCEPT !.path = <<>>], Model("tag", 1, <<a>>, "", ""),
      [Model("own", 0, <<>>, "", "") EXCEPT !.path = <<"DecoratorDef">>]>> }

Case(l, out, max) == [lib |-> l, out |-> out, max |-> max]
Generated == UNION { LET l == readLibrarySpec(ms) IN
                     {Case(l, out, IF Builds(l, out, {}) THEN 3 ELSE 0) : out \in {TsFile(l), generateTs(l)}} :
                     ms \in Described }
Few(l, names) == SelectSeq(l, LAMBDA d : d.name \in names)
MCCases == Generated \cup {
    Case(asyncapiSpec, asyncapi, 2),
    Case(bindingCore, ByHand(bindingCore), 1), Case(sql, ByHand(sql), 2), Case(clap, ByHand(clap), 2),
    Case(daemon, ByHand(daemon), 2) } \cup {
    Case(l, ByHand(l), 3) : l \in {Few(bindingCore, {"get", "put", "nested"}),
                                    Few(sql, {"belongsTo", "hasMany", "unique"}),
                                    Few(clap, {"requiredOneOf", "afterHelp", "positional"})} }
=============================================================================
