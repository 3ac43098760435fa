---------------------------- MODULE SyncFunctions ----------------------------
(***************************************************************************)
(* The code binding-core writes for the bindings of a program: for each      *)
(* binding a struct and a function that fills it from a JSON value, for each  *)
(* bound entity a sync function that calls the writers of packages/sqlx.  A    *)
(* program is a record [models, sources, bindings]: models as in Schema with   *)
(* their strategy, sources [name, fields, rest, graphql, freshness, interval,   *)
(* nested], bindings [source, target, map] with the chain of each mapped field. *)
(***************************************************************************)
EXTENDS Schema

CONSTANT SplitOf   \* the names with dots, and their parts
ASSUME SplitAssumption == \A n \in DOMAIN SplitOf : Len(SplitOf[n]) > 1

Base(type) == CASE type \in Integer -> "i64" [] type = "int32" -> "i32" [] type = "boolean" -> "bool"
                [] OTHER -> "String"
rustType(type, nullable) == [base |-> Base(type), nullable |-> nullable]
Number == [base |-> "i64", nullable |-> FALSE]
Str    == [base |-> "String", nullable |-> FALSE]

modelOf(p, name)  == CHOOSE m \in ToSet(Resolved(p.models)) : m.name = name
sourceOf(p, name) == CHOOSE s \in ToSet(p.sources) : s.name = name
isAutoIncr(m) == OneKey(m) /\ FirstKey(m).type = "integer"
writable(m)   == SelectSeq(m.fields, LAMBDA f : ~(isAutoIncr(m) /\ f.pk) /\ ~f.manual)
extractable(m) == SelectSeq(writable(m), LAMBDA f : f.rel = "")

-----------------------------------------------------------------------------
(* Extraction *)

\* What is read as another type than these is read as a string.
emitJsonAccess(type, nullable) ==
    [base |-> IF Base(type) \in {"i64", "bool"} THEN Base(type) ELSE "String", nullable |-> nullable]

\* Where a field comes from: its chain, its own name with dots, a field of that name.
jsonPath(p, b, f) ==
    CASE f.name \in DOMAIN b.map /\ b.map[f.name] # <<>> -> {b.map[f.name]}
      [] f.name \in DOMAIN SplitOf                         -> {SplitOf[f.name]}
      [] OTHER -> {<<s.name>> : s \in {s \in ToSet(sourceOf(p, b.source).fields) :
                                           s.name = f.name /\ f.name \notin DOMAIN b.map}}

emitExtractFn(p, b) ==
    LET bound == SelectSeq(extractable(modelOf(p, b.target)), LAMBDA f : jsonPath(p, b, f) # {})
    IN [i \in DOMAIN bound |-> [name |-> snakeCase(bound[i].name),
                                path |-> CHOOSE q \in jsonPath(p, b, bound[i]) : TRUE,
                                type |-> emitJsonAccess(bound[i].type, bound[i].nullable)]]

\* The structs, by the position of their binding; only ordinary entities have one.
FieldsStructs(p) ==
    LET has(b) == LET m == modelOf(p, b.target)
                  IN m \in Ordinary(Resolved(p.models)) /\ extractable(m) # <<>>
    IN [i \in {i \in DOMAIN p.bindings : has(p.bindings[i])} |->
           LET fs == extractable(modelOf(p, p.bindings[i].target))
           IN [j \in DOMAIN fs |-> [name |-> snakeCase(fs[j].name), type |-> rustType(fs[j].type, fs[j].nullable)]]]

\* The selection of a GraphQL query, as the set of paths it asks for. Fields whose type is
\* a model are opened, as deep as a program without cycles goes; one with goes on for ever.
Endless == "for ever"
Deep(p) == Len(p.sources)
emitModelFields(p) ==
    LET named(type) == {s \in ToSet(p.sources) : s.name = type}
        opened[n \in 0..Deep(p), s \in ToSet(p.sources)] ==
            UNION {IF named(f.type) = {} THEN {<<f.name>>}
                   ELSE IF n = 0 THEN {<<f.name, Endless>>}
                   ELSE {<<f.name>> \o q : q \in UNION {opened[n - 1, o] : o \in named(f.type)}} :
                   f \in ToSet(s.fields)}
    IN [s \in ToSet(p.sources) |-> opened[Deep(p), s]]

emitGraphqlFragment(p, source) ==
    LET own    == emitModelFields(p)
        nested == {s \in ToSet(p.sources) : s.nested # <<>> /\ Head(s.nested).parent = source.name}
    IN own[source] \cup UNION {{Head(s.nested).path \o q : q \in own[s]} : s \in nested}

-----------------------------------------------------------------------------
(* Writers and sync functions *)

emitUpsertFn(m) ==
    [name      |-> (IF m.strategy = "insert-ignore" THEN "insert_" ELSE "upsert_") \o snakeCase(m.name),
     params    |-> [i \in DOMAIN writable(m) |->
                       LET f == writable(m)[i]
                       IN [name |-> columnName(f),
                           type |-> IF f.rel # "" THEN [base |-> "i64", nullable |-> f.nullable]
                                    ELSE rustType(f.type, f.nullable)]],
     returnsId |-> isAutoIncr(m) /\ m.strategy = "upsert"]

\* An argument: a variable of the function, or a field of what was extracted.
Variable(name)  == [kind |-> "variable", name |-> name]
Extracted(name) == [kind |-> "field", name |-> name]
upsertArgs(m) ==
    [i \in DOMAIN writable(m) |-> LET f == writable(m)[i]
                                  IN IF f.rel # "" THEN Variable(columnName(f)) ELSE Extracted(snakeCase(f.name))]
upsertFn(m) == (IF m.strategy = "insert-ignore" THEN "insert_" ELSE "upsert_") \o snakeCase(m.name)

\* The models nested in the items of a source, once for each binding of theirs.
nestedChildren(p, source) == FlattenSeq([i \in DOMAIN p.sources |->
    LET s == p.sources[i]
    IN IF s.nested = <<>> \/ Head(s.nested).parent # source.name THEN <<>>
       ELSE SelectSeq([j \in DOMAIN p.bindings |-> [path |-> Head(s.nested).path, binding |-> p.bindings[j]]],
                      LAMBDA c : c.binding.source = s.name)])

parentFk(child, table) ==
    SelectSeq(child.fields, LAMBDA f : f.rel = "belongsTo" /\ snakeCase(f.leads) = table)

\* Mutant: the relation to the parent is looked up as the other relations are.
ChildCall_OwnVariable(table, c, child) ==
    [target |-> child.name, path |-> c.path, strategy |-> child.strategy, fn |-> upsertFn(child),
     deletes |-> child.strategy = "delete-replace", known |-> parentFk(child, table) # <<>>,
     args |-> upsertArgs(child)]

\* What is done with the children of one kind: DELETE by <table>_id, then a call for each.
ChildCall(table, c, child) ==
    LET fk  == parentFk(child, table)
        arg(a) == IF fk # <<>> /\ a = Variable(columnName(Head(fk))) THEN Variable(table \o "_id") ELSE a
    IN [target |-> child.name, path |-> c.path, strategy |-> child.strategy, fn |-> upsertFn(child),
        deletes |-> child.strategy = "delete-replace", known |-> fk # <<>>,
        args |-> [i \in DOMAIN upsertArgs(child) |-> arg(upsertArgs(child)[i])]]

BindingsOf(p, m) == SelectSeq(p.bindings, LAMBDA b : b.target = m.name)

HasSync(p, m) == /\ m \in Ordinary(Resolved(p.models)) /\ BindingsOf(p, m) # <<>>
                 /\ LET s == sourceOf(p, Head(BindingsOf(p, m)).source) IN s.graphql \/ s.rest # <<>>

emitSyncFn(p, m) ==
    LET source  == sourceOf(p, Head(BindingsOf(p, m)).source)
        table   == snakeCase(m.name)
        parents == SelectSeq(m.fields, LAMBDA f : f.rel = "belongsTo")
        kinds   == nestedChildren(p, source)
        places  == IF source.graphql THEN <<>> ELSE Head(source.rest)
        param(name, type) == [name |-> name, type |-> type]
    IN [source    |-> source,
        params    |-> (IF parents = <<>> THEN <<>> ELSE <<param(columnName(Head(parents)), Number)>>)
                         \o [i \in DOMAIN places |-> param(snakeCase(places[i]), Str)],
        places    |-> ToSet(places),
        transport |-> IF source.graphql THEN "graphql" ELSE "rest",
        freshness |-> source.freshness,
        interval  |-> source.interval,
        strategy  |-> m.strategy,
        fn        |-> upsertFn(m),
        args      |-> upsertArgs(m),
        id        |-> IF emitUpsertFn(m).returnsId /\ kinds # <<>> THEN {table \o "_id"} ELSE {},
        children  |-> [k \in DOMAIN kinds |-> ChildCall(table, kinds[k], modelOf(p, kinds[k].binding.target))]]

SyncEntities(p) == {m \in ToSet(Resolved(p.models)) : HasSync(p, m)}

-----------------------------------------------------------------------------
(* What the Rust compiler, the database and the endpoint accept *)

NamesOf(s) == {s[i].name : i \in DOMAIN s}

\* Every struct is declared once and filled with values of its types.
ExtractionFits(p) ==
    /\ \A i, j \in DOMAIN p.bindings : p.bindings[i].target = p.bindings[j].target => i = j
    /\ \A i \in DOMAIN p.bindings :
        /\ i \in DOMAIN FieldsStructs(p)
        /\ ToSet(FieldsStructs(p)[i]) =
               {[name |-> x.name, type |-> x.type] : x \in ToSet(emitExtractFn(p, p.bindings[i]))}

\* A call passes what is in scope, in the order and of the types of the parameters.
CallFits(p, scope, m, call) ==
    LET writer == emitUpsertFn(m)
        struct == UNION {ToSet(FieldsStructs(p)[i]) : i \in {i \in DOMAIN FieldsStructs(p) : p.bindings[i].target = m.name}}
        typed(a) == IF a.kind = "field" THEN struct ELSE scope
    IN /\ ~Interned(m) /\ call.fn = writer.name /\ Len(call.args) = Len(writer.params)
       /\ \A i \in DOMAIN call.args :
             \E v \in typed(call.args[i]) : v.name = call.args[i].name /\ v.type = writer.params[i].type

SyncFits(p, m) ==
    LET f     == emitSyncFn(p, m)
        table == snakeCase(m.name)
        scope == ToSet(f.params) \cup {[name |-> n, type |-> Number] : n \in f.id}
    IN /\ IsInjective([i \in DOMAIN f.params |-> f.params[i].name])
       /\ f.places \subseteq NamesOf(f.params)
       /\ CallFits(p, ToSet(f.params), m, f)
       /\ \A c \in ToSet(f.children) :
             LET child == modelOf(p, c.target)
             IN /\ CallFits(p, scope, child, c)
                /\ c.deletes => /\ c.known /\ table \o "_id" \in NamesOf(SetToSeq(scope))
                                /\ table \o "_id" \in NamesOf(entityTable(Resolved(p.models), child).columns)
       /\ f.transport = "graphql" =>
             LET chosen == emitGraphqlFragment(p, f.source)
                 Read(b) == {x.path : x \in ToSet(emitExtractFn(p, b))}
             IN /\ f.source.fields # <<>>
                /\ \A q \in chosen : Last(q) # Endless
                /\ Read(Head(BindingsOf(p, m))) \subseteq chosen
                /\ \A c \in ToSet(nestedChildren(p, f.source)) : \A q \in Read(c.binding) : c.path \o q \in chosen

Fits(p) == ExtractionFits(p) /\ \A m \in SyncEntities(p) : SyncFits(p, m)

-----------------------------------------------------------------------------
(* The programs whose functions do not fit, by what their author wrote *)

Sources(p, b, f) ==   \* a field of the target has a source
    \/ f.name \in DOMAIN b.map /\ b.map[f.name] # <<>>
    \/ f.name \in DOMAIN SplitOf
    \/ f.name \notin DOMAIN b.map /\ f.name \in NamesOf(sourceOf(p, b.source).fields)

OddBinding(p, b) ==
    LET m == modelOf(p, b.target)
    IN \/ Interned(m) \/ ~isEntityModel(m) \/ extractable(m) = <<>>
       \/ \E f \in ToSet(extractable(m)) : ~Sources(p, b, f) \/ f.type = "int32"
       \/ Cardinality({c \in ToSet(p.bindings) : c.target = b.target}) > 1

\* A path that a walk from model to model reaches the end of.
Walks(p, start, path) ==
    \E w \in [DOMAIN path -> ToSet(p.sources)] :
        /\ w[1] = start
        /\ \A i \in DOMAIN path : \E f \in ToSet(w[i].fields) :
              /\ f.name = path[i]
              /\ IF i < Len(path) THEN f.type = w[i + 1].name ELSE \A s \in ToSet(p.sources) : s.name # f.type

Reads(p, b) == {x.path : x \in ToSet(emitExtractFn(p, b))}
Circular(p) ==
    LET edges == {e \in ToSet(p.sources) \X ToSet(p.sources) : \E f \in ToSet(e[1].fields) : f.type = e[2].name}
    IN \E s \in ToSet(p.sources) : \E n \in 1..Len(p.sources) : \E w \in [1..(n + 1) -> ToSet(p.sources)] :
           w[1] = s /\ w[n + 1] = s /\ \A i \in 1..n : <<w[i], w[i + 1]>> \in edges

\* A relation is filled with a parameter or the key of the item, which are there and no Option.
OddRelation(m, f, known) == f.rel # "" /\ (f.nullable \/ columnName(f) \notin known)

\* The relation whose key the caller of a sync function gives.
GivenBy(m) == LET parents == SelectSeq(m.fields, LAMBDA f : f.rel = "belongsTo")
              IN IF parents = <<>> THEN {} ELSE {columnName(Head(parents))}

OddChild(p, m, child) ==
    LET table  == snakeCase(m.name)
        parent == {f \in ToSet(child.fields) : f.rel = "belongsTo" /\ f.target = m.name}
        replaced == child.strategy = "delete-replace"
    IN \/ \E f \in ToSet(writable(child)) \ parent : OddRelation(child, f, GivenBy(m))
       \/ \E f \in parent : f.nullable
       \/ parent # {} /\ ~(isAutoIncr(m) /\ m.strategy = "upsert")
       \/ replaced /\ \A f \in parent : columnName(f) # table \o "_id"

OddSync(p, m) ==
    LET b == Head(BindingsOf(p, m))
        s == sourceOf(p, b.source)
        places  == IF s.graphql THEN <<>> ELSE Head(s.rest)
        kinds   == {c \in ToSet(p.bindings) : LET n == sourceOf(p, c.source).nested
                                              IN n # <<>> /\ Head(n).parent = s.name}
    IN \/ \E f \in ToSet(writable(m)) : OddRelation(m, f, GivenBy(m))
       \/ \E c \in kinds : OddChild(p, m, modelOf(p, c.target))
       \/ \E i, j \in DOMAIN places : i # j /\ places[i] = places[j]
       \/ \E q \in ToSet(places) : snakeCase(q) # q \/ q \in GivenBy(m)
       \/ s.graphql /\ \/ s.fields = <<>> \/ Circular(p)
                       \/ \E q \in Reads(p, b) : ~Walks(p, s, q)
                       \/ \E c \in kinds : \E q \in Reads(p, c) : ~Walks(p, sourceOf(p, c.source), q)

Odd(p) == \/ \E b \in ToSet(p.bindings) : OddBinding(p, b)
          \/ \E m \in SyncEntities(p) : OddSync(p, m)
=============================================================================
