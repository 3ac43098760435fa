------------------------------- MODULE Schema -------------------------------
(* The schema that packages/sql reads off the models of a program and the      *)
(* tables it declares for them. A model is a record                             *)
(*   [name, ns, fields, unique, index, related]                                  *)
(* and a field a record                                                          *)
(*   [name, type, nullable, pk, manual, default, rel, target, leads, intern]     *)
(* with rel the kind of relation or "", target the model it leads to, and        *)
(* intern the scalar kept in a dictionary or "". unique and index are sequences  *)
(* of sequences of field names. Letter case is left out except for snake_case,   *)
(* which SnakeOf spells out for the names it changes. The program does not give    *)
(* related and leads: they are FALSE and "" until a model is resolved.              *)
EXTENDS Naturals, FiniteSets, SequencesExt

CONSTANT SnakeOf   \* snake case of the names that are not in snake case

snakeCase(n) == IF n \in DOMAIN SnakeOf THEN SnakeOf[n] ELSE n

Integer   == {"integer", "int64"}
Supported == {"string", "integer", "int64"}   \* of the fourteen, those the instances use

FieldsOf(m)    == ToSet(m.fields)
FieldNamed(m, n) == CHOOSE f \in FieldsOf(m) : f.name = n
KeyFields(m)   == {f \in FieldsOf(m) : f.pk}
OneKey(m)      == \E k \in KeyFields(m) : KeyFields(m) = {k}
FirstKey(m)    == m.fields[CHOOSE i \in DOMAIN m.fields : m.fields[i].pk /\ \A j \in 1..(i - 1) : ~m.fields[j].pk]
Interned(m)    == \E f \in FieldsOf(m) : f.intern # ""

(* The relations are kept by the simple name of the model that declares them.    *)
relationsOf(models, name) ==
    {g \in UNION {FieldsOf(o) : o \in {o \in ToSet(models) : o.name = name}} : g.rel # ""}
relOf(models, m, f) == {g \in relationsOf(models, m.name) : g.name = f.name}

(* The name of the model that a relation leads to; "Org | null" is a union, not a model. *)
resolveRelTarget(g) == IF g.nullable THEN "?" ELSE g.target

resolvedField(f, relations) ==
    IF relations = {} THEN [f EXCEPT !.rel = ""]
    ELSE LET g == CHOOSE g \in relations : TRUE IN [f EXCEPT !.rel = g.rel, !.leads = resolveRelTarget(g)]
resolvedFields(models, m) ==
    [i \in DOMAIN m.fields |-> resolvedField(m.fields[i], relOf(models, m, m.fields[i]))]
Resolved(models) ==
    [i \in DOMAIN models |->
        [models[i] EXCEPT !.fields  = resolvedFields(models, models[i]),
                          !.related = relationsOf(models, models[i].name) # {}]]

isEntityModel(m) == \/ m.related
                    \/ \E f \in FieldsOf(m) : f.pk \/ f.manual
                    \/ m.unique # <<>> \/ m.index # <<>>
Ordinary(models) == {m \in ToSet(models) : isEntityModel(m) /\ ~Interned(m)}
InternEntities(models) == {m \in ToSet(models) : Interned(m)}
Domains(models)  == {f.intern : f \in UNION {FieldsOf(m) : m \in ToSet(models)}} \ {""}

columnName(f) == IF f.rel # "" THEN snakeCase(f.name) \o "_id" ELSE snakeCase(f.name)
ColumnNamed(m, n) == columnName(FieldNamed(m, n))
Columns(m, names) == [i \in DOMAIN names |-> ColumnNamed(m, names[i])]

(* A row of an interned model keeps its column names as they are written.         *)
internColumn(f) == IF f.intern # "" \/ f.rel # "" THEN f.name \o "_id" ELSE f.name
qualified(m)    == IF m.ns = "" THEN m.name ELSE m.ns \o "__" \o m.name

(* The tables of a schema and the views and indexes of interned models, each in a  *)
(* place of its own: what it is, of which model or scalar, and for an index which. *)
TablePlaces(models) == ({"table"} \X Ordinary(models)) \cup ({"domain"} \X Domains(models))
                  \cup ({"rows"} \X InternEntities(models))
ViewPlaces(models)  == {"text"} \X InternEntities(models)
IndexPlaces(models) == UNION {{<<"index", m, i>> : i \in DOMAIN m.index} : m \in InternEntities(models)}

registeredName(p) ==
    CASE p[1] = "table"  -> snakeCase(p[2].name)
      [] p[1] = "domain" -> p[2]
      [] p[1] = "rows"   -> qualified(p[2])
      [] p[1] = "text"   -> qualified(p[2]) \o "_text"
      [] p[1] = "index"  -> qualified(p[2]) \o "_index_" \o ToString(p[3] - 1)

(* Mutant: the plain tables are not registered.                                    *)
Registered_OnlyInterned(models) ==
    [p \in {p \in TablePlaces(models) : p[1] # "table"} \cup ViewPlaces(models) \cup IndexPlaces(models) |-> registeredName(p)]

(* Registration in one space of names is refused when it meets a name in it. The       *)
(* indexes of ordinary models are not registered.                                        *)
Registered(models) == [p \in TablePlaces(models) \cup ViewPlaces(models) \cup IndexPlaces(models) |-> registeredName(p)]

TargetOf(models, f) == CHOOSE m \in ToSet(models) : m.name = f.target

(* Why a declaration of interning is refused.                                     *)
internFieldFails(models, f) ==
    \/ f.intern # "" /\ (f.rel # "" \/ f.manual \/ f.pk \/ f.default)
    \/ f.rel # "" /\ (\/ f.rel # "belongsTo"
                      \/ ~OneKey(TargetOf(models, f))
                      \/ FirstKey(TargetOf(models, f)).type \notin Integer)
    \/ f.intern = "" /\ f.rel = "" /\ f.type \notin Supported
    \/ f.manual
internStorageFails(models) ==
    \/ ~IsInjective(Registered(models))
    \/ \E m \in InternEntities(models) :
          \/ \E f \in FieldsOf(m) : internFieldFails(models, f)
          \/ ~IsInjective([i \in DOMAIN m.fields |-> internColumn(m.fields[i])])
          \/ \E k, l \in KeyFields(m) : k # l
          \/ \E k \in KeyFields(m) : k.type \notin Integer \/ k.nullable
          \/ \E names \in ToSet(m.unique) \cup ToSet(m.index) :
                names = <<>> \/ \E n \in ToSet(names) : n \notin {f.name : f \in FieldsOf(m)}

----------------------------------------------------------------------------
(* The statements that make the tables. A column is a record                       *)
(*   [name, integer, notNull, key, auto, default, ref]                             *)
(* with key the inline PRIMARY KEY, auto AUTOINCREMENT, ref <<>> or a table and    *)
(* a column of it; a table has also its composite key and its unique lists.        *)
scalarType(type) == IF type \in Integer THEN "INTEGER" ELSE "TEXT"
(* Mutant: INTEGER PRIMARY KEY, which gives the key of a deleted row again.         *)
identityColumn_Reused(type, autoIncrement) == [key |-> TRUE, auto |-> FALSE]

identityColumn(type, autoIncrement) ==
    [key |-> TRUE, auto |-> autoIncrement /\ scalarType(type) = "INTEGER"]
NoIdentity == [key |-> FALSE, auto |-> FALSE]

(* REFERENCES of a relation, which fits only if its target is an ordinary entity.    *)
reference(models, f) ==
    LET found == {m \in Ordinary(models) : m.name = f.leads}
        target == CHOOSE m \in found : TRUE
    IN [table  |-> snakeCase(f.leads),
        column |-> IF found = {} THEN "id" ELSE IF KeyFields(target) = {} THEN "undefined" ELSE FirstKey(target).name]

columnOf(models, m, f) ==
    LET alone    == KeyFields(m) = {f}
        identity == IF alone THEN identityColumn(f.type, TRUE) ELSE NoIdentity
    IN IF f.rel = "belongsTo"
       THEN [name |-> columnName(f), integer |-> TRUE, notNull |-> ~f.nullable, key |-> alone, auto |-> FALSE,
             default |-> f.default, ref |-> <<reference(models, f)>>]
       ELSE [name |-> columnName(f), integer |-> scalarType(f.type) = "INTEGER", notNull |-> ~alone /\ ~f.nullable,
             key |-> identity.key, auto |-> identity.auto, default |-> ~alone /\ f.default, ref |-> <<>>]

entityTable(models, m) ==
    [name    |-> snakeCase(m.name),
     columns |-> [i \in DOMAIN m.fields |-> columnOf(models, m, m.fields[i])],
     primary |-> IF \E k, l \in KeyFields(m) : k # l THEN {columnName(k) : k \in KeyFields(m)} ELSE {},
     unique  |-> [i \in DOMAIN m.unique |-> Columns(m, m.unique[i])]]

domainTable(d) ==
    [name    |-> d,
     columns |-> <<[name |-> "id", integer |-> TRUE, notNull |-> FALSE, key |-> TRUE, auto |-> FALSE,
                    default |-> FALSE, ref |-> <<>>],
                   [name |-> "value", integer |-> FALSE, notNull |-> TRUE, key |-> FALSE, auto |-> FALSE,
                    default |-> FALSE, ref |-> <<>>]>>,
     primary |-> {}, unique |-> <<<<"value">>>>]

internRef(models, f) ==
    LET target == TargetOf(models, f)
    IN CASE f.intern # "" -> <<[table |-> f.intern, column |-> "id"]>>
         [] f.intern = "" /\ f.rel # ""
            -> <<[table  |-> IF Interned(target) THEN qualified(target) ELSE snakeCase(target.name),
                  column |-> FirstKey(target).name]>>
         [] OTHER         -> <<>>
internTable(models, m) ==
    [name    |-> qualified(m),
     columns |-> [i \in DOMAIN m.fields |->
                     LET f == m.fields[i] IN
                     [name |-> internColumn(f),
                      integer |-> f.intern # "" \/ f.rel # "" \/ scalarType(f.type) = "INTEGER",
                      notNull |-> ~f.nullable /\ ~f.pk,
                      key |-> f.pk, auto |-> FALSE, default |-> f.default, ref |-> internRef(models, f)]],
     primary |-> {},
     unique  |-> [i \in DOMAIN m.unique |->
                     [j \in DOMAIN m.unique[i] |-> internColumn(FieldNamed(m, m.unique[i][j]))]]]

emitSQL(models) ==
    [p \in TablePlaces(models) |-> CASE p[1] = "table"  -> entityTable(models, p[2])
                               [] p[1] = "domain" -> domainTable(p[2])
                               [] p[1] = "rows"   -> internTable(models, p[2])]

(* What other code reads of the same tables, by names and types.                    *)
tableFacts(models) ==
    LET fact(name, cols) == [name |-> name, columns |-> cols]
    IN {fact(snakeCase(m.name),
             [i \in DOMAIN m.fields |->
                 [name    |-> columnName(m.fields[i]),
                  integer |-> m.fields[i].rel = "belongsTo" \/ m.fields[i].type \in Integer]]) :
            m \in Ordinary(models)}
       \cup {fact(d, <<[name |-> "id", integer |-> TRUE], [name |-> "value", integer |-> FALSE]>>) : d \in Domains(models)}
       \cup {fact(qualified(m),
                  [i \in DOMAIN m.fields |->
                      [name    |-> internColumn(m.fields[i]),
                       integer |-> m.fields[i].intern # "" \/ m.fields[i].rel # "" \/ m.fields[i].type \in Integer]]) :
                 m \in InternEntities(models)}

(* The sets of columns that no two rows of a table may share.                       *)
UniqueSets(t) == {{c.name} : c \in {c \in ToSet(t.columns) : c.key}}
                 \cup ({t.primary} \ {{}})
                 \cup {ToSet(u) : u \in ToSet(t.unique)}
=============================================================================
