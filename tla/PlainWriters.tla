---------------------------- MODULE PlainWriters ----------------------------
(* The writers generated for one model that keeps its text in its own columns: *)
(* the function of packages/rusqlite, packages/sqlx or the Go emitter of        *)
(* packages/binding-core, and the positional writer of packages/rusqlite, on     *)
(* the table that packages/sql declares for the model. A call is one step: it     *)
(* is one statement, or two in a savepoint that has written. The database is      *)
(* external: SQLite with its constraints, foreign keys not enforced.               *)
EXTENDS Schema

CONSTANTS Cases,     \* names of cases to [models, name]: a schema and one model of it
          Backends,  \* of "rusqlite", "sqlx" and "go"
          Strategies,\* of "upsert", "insert-ignore" and "delete-replace"
          Values,    \* what a column may hold beside Null
          MaxRows,   \* bound on the rows of the table
          MaxId      \* bound on the keys the database gives

Null == 0
ASSUME WritersAssumption ==
    /\ Backends \subseteq {"rusqlite", "sqlx", "go"}
    /\ Strategies \subseteq {"upsert", "insert-ignore", "delete-replace"}
    /\ Values \subseteq Nat \ {Null} /\ Values # {} /\ MaxRows \in Nat /\ MaxId \in Nat

VARIABLES case,     \* the schema, the back end and the strategy
          rows,     \* the table: rows by a number of their own, columns to values
          given,    \* the greatest key an AUTOINCREMENT table has held
          last      \* the last call: [op, args, ok, id, before]

vars == <<case, rows, given, last>>

ModelsOf == [c \in DOMAIN Cases |-> Resolved(Cases[c].models)]
EntityOf == [c \in DOMAIN Cases |-> CHOOSE m \in ToSet(ModelsOf[c]) : m.name = Cases[c].name]
TableOf  == [c \in DOMAIN Cases |-> entityTable(ModelsOf[c], EntityOf[c])]
UniqueSetsOf == [c \in DOMAIN Cases |-> UniqueSets(TableOf[c])]

models == ModelsOf[case.schema]
entity == EntityOf[case.schema]
table  == TableOf[case.schema]
uniqueSets == UniqueSetsOf[case.schema]
ColumnNames == {c.name : c \in ToSet(table.columns)}

----------------------------------------------------------------------------
(* The statement a back end writes for a model: the columns it sets, OR IGNORE,     *)
(* the columns of ON CONFLICT, the columns of DO UPDATE, and the one it RETURNS.     *)
autoIncrement(m) == \E k \in FieldsOf(m) : KeyFields(m) = {k} /\ k.type = "integer"
writable(m) == {f \in FieldsOf(m) : ~(autoIncrement(m) /\ f.pk) /\ ~f.manual}
columns(m)  == {columnName(f) : f \in writable(m)}
keyColumns(m) == {columnName(k) : k \in KeyFields(m)}
returnsId(m, strategy) == autoIncrement(m) /\ strategy = "upsert"

conflictNames(m) == IF m.unique # <<>> THEN ToSet(m.unique[1]) ELSE {k.name : k \in KeyFields(m)}
conflict(m, strategy) == IF strategy = "upsert" THEN {ColumnNamed(m, n) : n \in conflictNames(m)} ELSE {}

(* Mutant: the rusqlite writer sets the keys of the row it meets.                    *)
rusqlite_updates_Keys(m, strategy) == columns(m) \ conflict(m, strategy)

(* Mutant: it leaves alone the columns of every unique list, not of the first.         *)
rusqlite_updates_AllUnique(m, strategy) ==
    (columns(m) \ UNION {ToSet(Columns(m, u)) : u \in ToSet(m.unique)}) \ keyColumns(m)

rusqlite_updates(m, strategy) == (columns(m) \ conflict(m, strategy)) \ keyColumns(m)
sqlx_updates(m, strategy)     == (columns(m) \ conflict(m, strategy)) \ {snakeCase(k.name) : k \in KeyFields(m)}

Statement(m, strategy, updates, returning) ==
    [columns   |-> columns(m),
     orIgnore  |-> strategy # "upsert",
     conflict  |-> conflict(m, strategy),
     updates   |-> IF strategy = "upsert" THEN updates ELSE {},
     returning |-> IF returnsId(m, strategy) THEN {returning} ELSE {}]

(* Mutant: RETURNING id, whatever the key is called.                                    *)
emitRusqliteWriter_NamedId(m, strategy) ==
    LET s == Statement(m, strategy, rusqlite_updates(m, strategy), "id")
    IN IF columns(m) = {} THEN [s EXCEPT !.conflict = {}] ELSE s

emitRusqliteWriter(m, strategy) ==
    LET key == CHOOSE c \in keyColumns(m) : TRUE
        s   == Statement(m, strategy, rusqlite_updates(m, strategy), key)
    IN IF columns(m) = {} THEN [s EXCEPT !.conflict = {}] ELSE s
sqlx_emitUpsertFn(m, strategy) == Statement(m, strategy, sqlx_updates(m, strategy), "id")
go_emitUpsertFn(m, strategy)   == sqlx_emitUpsertFn(m, strategy)

Writers == [schema : DOMAIN Cases, backend : Backends, strategy : Strategies]
StatementsOf(m) == [b \in Backends |-> [s \in Strategies |->
    CASE b = "rusqlite" -> emitRusqliteWriter(m, s)
      [] b = "sqlx"     -> sqlx_emitUpsertFn(m, s)
      [] b = "go"       -> go_emitUpsertFn(m, s)]]
StatementOf == [c \in DOMAIN Cases |-> StatementsOf(EntityOf[c])]
statement == StatementOf[case.schema][case.backend][case.strategy]

(* Positional: every column that is not manual, the key among them, no conflict.     *)
emitRusqliteValueWriters(m) ==
    [columns |-> {columnName(f) : f \in {f \in FieldsOf(m) : ~f.manual}},
     orIgnore |-> FALSE, conflict |-> {}, updates |-> {}, returning |-> {}]
ValuesOf == [c \in DOMAIN Cases |-> emitRusqliteValueWriters(EntityOf[c])]

\* The fields of a model and their columns have names of their own, a relation leads
\* to a model, the one of its name, a unique list is of some fields of the model, and what
\* the writer of rusqlite looks for is among its parameters (it would not compile otherwise).
ASSUME CasesAssumption == \A c \in DOMAIN Cases :
    LET m == EntityOf[c]  s == emitRusqliteWriter(m, "upsert") IN
    /\ \A o \in ToSet(ModelsOf[c]) :
          /\ o.fields \in Seq(FieldsOf(o))
          /\ \A f \in FieldsOf(o) : f.rel # "" =>
                \E t \in ToSet(ModelsOf[c]) : \A u \in ToSet(ModelsOf[c]) : u.name = f.target <=> u = t
    /\ \A f, g \in FieldsOf(m) : f.name = g.name \/ columnName(f) = columnName(g) => f = g
    /\ \A f \in FieldsOf(m) : f.rel = "belongsTo" => f.type # "integer"
    /\ m.unique \in Seq(ToSet(m.unique))
    /\ \A u \in ToSet(m.unique) : ToSet(u) # {} /\ ToSet(u) \subseteq {f.name : f \in FieldsOf(m)}
    /\ s.returning # {} /\ s.updates = {} => s.conflict \subseteq s.columns

----------------------------------------------------------------------------
(* What SQLite does with a statement. The statements that make the tables end at the   *)
(* first one it cannot read, such as one with REFERENCES ?.                            *)
CutBefore(ms, m) == \E j \in DOMAIN ms : ms[j] = m /\ \E i \in 1..j :
    ms[i] \in Ordinary(ms) /\ \E f \in FieldsOf(ms[i]) : f.rel = "belongsTo" /\ f.leads = "?"
UndeclaredIn == [c \in DOMAIN Cases |-> CutBefore(ModelsOf[c], EntityOf[c])]
Undeclared == UndeclaredIn[case.schema]

NoColumns(s) == s.columns = {} /\ case.backend # "rusqlite"   \* "INSERT INTO t () ..."
Malformed(s) == \/ Undeclared
                \/ NoColumns(s)
                \/ s.conflict # {} /\ s.conflict \notin uniqueSets
                \/ ~(s.returning \subseteq ColumnNames)

IsRowid(c) == c.key /\ c.integer
Held(rs)  == {0} \cup {rs[i][c.name] : i \in DOMAIN rs, c \in {c \in ToSet(table.columns) : IsRowid(c)}}
NextKey   == IF \E c \in ToSet(table.columns) : c.auto THEN given + 1 ELSE Max(Held(rows)) + 1
DefaultValue == CHOOSE v \in Values : TRUE

(* The row an INSERT would add: a column it does not set has its default, and a      *)
(* rowid that is Null is the next one.                                                *)
NewRow(args) ==
    LET column(n) == CHOOSE c \in ToSet(table.columns) : c.name = n
    IN [n \in ColumnNames |->
           IF n \in DOMAIN args /\ (IsRowid(column(n)) => args[n] # Null) THEN args[n]
           ELSE IF IsRowid(column(n)) THEN NextKey
           ELSE IF column(n).default /\ n \notin DOMAIN args THEN DefaultValue
           ELSE Null]

Same(r, s, cols) == \A c \in cols : r[c] = s[c] /\ r[c] # Null
Meets(r, cols)   == {i \in DOMAIN rows : Same(rows[i], r, cols)}
Clashes(r, but)  == (UNION {Meets(r, u) : u \in uniqueSets}) \ but
Incomplete(r)    == \E c \in ToSet(table.columns) : c.notNull /\ r[c.name] = Null

FreshRow == CHOOSE i \in 1..(MaxRows + 1) : i \notin DOMAIN rows
Untouched(ok) == [ok |-> ok, rows |-> rows, hit |-> {}]

(* r is the row it would add.                                                          *)
Execute(s, r) ==
    LET met  == IF s.conflict = {} THEN {} ELSE Meets(r, s.conflict)
        i    == CHOOSE i \in met : TRUE
        next == [c \in ColumnNames |-> IF c \in s.updates THEN r[c] ELSE rows[i][c]]
    IN IF Malformed(s) THEN Untouched(FALSE)
       ELSE IF Incomplete(r) THEN Untouched(s.orIgnore)
       ELSE IF met = {} THEN
           IF Clashes(r, {}) # {} THEN Untouched(s.orIgnore)
           ELSE [ok |-> TRUE, rows |-> [k \in DOMAIN rows \cup {FreshRow} |->
                                           IF k = FreshRow THEN r ELSE rows[k]], hit |-> {FreshRow}]
       ELSE IF s.updates = {} THEN Untouched(TRUE)
       ELSE IF Clashes(next, {i}) # {} THEN Untouched(FALSE)
       ELSE [ok |-> TRUE, rows |-> [rows EXCEPT ![i] = next], hit |-> {i}]

(* Mutant: a statement that touched no row has no answer.                              *)
Answer_NoLookup(s, args, done) ==
    IF ~done.ok \/ s.returning = {} \/ done.hit = {} THEN {}
    ELSE LET c == CHOOSE c \in s.returning : TRUE IN {done.rows[i][c] : i \in done.hit}

(* INSERT ... RETURNING in a back end that wants one row of it: rusqlite looks for    *)
(* the row it met when the statement touched none, the others fail.                    *)
Answer(s, args, done) ==
    LET key  == CHOOSE c \in s.returning : TRUE
        looks == case.backend = "rusqlite" /\ s.updates = {} /\ s.conflict # {}
        kept == {i \in DOMAIN rows : \A c \in s.conflict : rows[i][c] = args[c]}
    IN CASE ~done.ok \/ s.returning = {} -> {}
         [] done.ok /\ s.returning # {} /\ done.hit # {} -> {done.rows[i][key] : i \in done.hit}
         [] OTHER -> IF looks THEN {rows[i][key] : i \in kept} ELSE {}

----------------------------------------------------------------------------
NoCall == [op |-> "none", args |-> <<>>, ok |-> TRUE, id |-> {}, before |-> <<>>]

Init == /\ case \in Writers
        /\ ~internStorageFails(models)
        /\ rows = <<>> /\ given = 0 /\ last = NoCall

NullsOf(m) == {columnName(f) : f \in {f \in FieldsOf(m) : f.nullable}}

Run(op, s, args) == \E r \in {NewRow(args)} : \E done \in {Execute(s, r)} :
    LET id == Answer(s, args, done)
        wants == s.returning # {}
    IN /\ rows' = done.rows
       /\ DOMAIN rows' \subseteq 1..MaxRows
       /\ given' = Max({given} \cup Held(rows'))
       /\ given' <= MaxId
       /\ last' = [op |-> op, args |-> args, id |-> id, ok |-> done.ok /\ (wants => id # {}),
                   before |-> IF op = last.op /\ args = last.args /\ last.ok THEN <<last.id>> ELSE <<>>]
       /\ UNCHANGED case

(* upsert_<table> or insert_<table>.                                                    *)
Write == \E args \in [statement.columns -> Values \cup {Null}] :
            /\ \A c \in DOMAIN args : args[c] = Null => c \in NullsOf(entity)
            /\ Run("write", statement, args)

(* insert_values with a value for each of the columns, Null among them.                 *)
InsertValues == LET s == ValuesOf[case.schema] IN
    /\ case.backend = "rusqlite"
    /\ \E args \in [s.columns -> Values \cup {Null}] : Run("values", s, args)

(* The sync function of a parent deletes the rows that belong to it, and so may the     *)
(* code of the application.                                                              *)
DeleteChildren == \E f \in FieldsOf(entity), v \in Values :
    /\ f.rel = "belongsTo"
    /\ LET gone == {i \in DOMAIN rows : rows[i][columnName(f)] = v}
       IN gone # {} /\ rows' = [i \in DOMAIN rows \ gone |-> rows[i]]
    /\ last' = NoCall
    /\ UNCHANGED <<case, given>>

Next == Write \/ InsertValues \/ DeleteChildren
Spec == Init /\ [][Next]_vars

----------------------------------------------------------------------------
(* What a call leaves.                                                                  *)
TypeOK ==
    /\ case \in Writers
    /\ DOMAIN rows \subseteq 1..MaxRows /\ rows \in [DOMAIN rows -> [ColumnNames -> Nat]]
    /\ given \in Nat
    /\ last.op \in {"none", "write", "values"} /\ last.ok \in BOOLEAN

KeyColumns == keyColumns(entity)

(* SQLx and Go take a key that is a relation for a column to be set, when the model   *)
(* is recognised by a list of unique columns.                                           *)
SetsRelationKeys == /\ case.backend # "rusqlite" /\ entity.unique # <<>>
                    /\ \E k \in KeyFields(entity) : k.rel # ""
(* They ask for one row where the statement may touch none, and for a column "id".       *)
NoRowReturned == case.backend # "rusqlite" /\ returnsId(entity, case.strategy) /\ statement.updates = {}
NotCalledId   == case.backend # "rusqlite" /\ returnsId(entity, case.strategy) /\ KeyColumns # {"id"}
(* They leave out the plain name of a key that is a relation, which may be the column    *)
(* of another field.                                                                      *)
NamedAsKey    == /\ case.backend # "rusqlite"
                 /\ \E k \in KeyFields(entity), f \in FieldsOf(entity) :
                       f # k /\ k.rel # "" /\ columnName(f) = snakeCase(k.name)
(* Nothing fills a manual column of the table, or no column is left to set.              *)
ManualMissing == \E c \in ToSet(table.columns) : c.notNull /\ ~c.default /\ c.name \notin statement.columns
(* Its default is the same in every row, but it may not be.                               *)
ManualUnique  == \E u \in uniqueSets : u \subseteq {columnName(f) : f \in {f \in FieldsOf(entity) : f.manual}}

(* A key names one row for good. No call changes the key of a stored row, also one that *)
(* meets the row by a list of unique columns (3_storage.tsx, `updates`), and a key that   *)
(* the database gave is not given again when its row is gone: a caller may still hold it.  *)
KeysStand ==
    /\ [][~SetsRelationKeys =>
            \A i \in DOMAIN rows \cap DOMAIN rows' : \A k \in KeyColumns : rows'[i][k] = rows[i][k]]_vars
    /\ [][autoIncrement(entity) /\ last'.op = "write" =>
            \A i \in DOMAIN rows' \ DOMAIN rows : \A k \in KeyColumns : rows'[i][k] > given]_vars

(* The row that a call met keeps its key, which then is not the one of the call.          *)
KeyKept(i, c) == c \in KeyColumns /\ \E j \in DOMAIN rows \ {i} :
    rows[j][c] = rows[i][c] /\ \A d \in statement.conflict \cap DOMAIN last.args : rows[j][d] = last.args[d]

(* After an upsert that succeeded there is a row with all that it was called with, and   *)
(* it is the row whose key was returned, also when the row was there before and nothing  *)
(* was written (3_storage.tsx, the SELECT after ON CONFLICT DO NOTHING).  A call that     *)
(* failed was refused because another row holds what the model says is unique, by a list  *)
(* other than the one the call is recognised by: the statement itself is never at fault.  *)
Stored == last.op = "write" =>
    /\ last.ok /\ case.strategy = "upsert" /\ ~NamedAsKey => \E i \in DOMAIN rows :
        /\ \A c \in DOMAIN last.args \ KeyColumns : rows[i][c] = last.args[c]
        /\ ~NotCalledId => \A id \in last.id : \A k \in KeyColumns : rows[i][k] = id
    /\ ~last.ok =>
        \/ NoRowReturned \/ NotCalledId \/ ManualMissing \/ ManualUnique \/ NamedAsKey
        \/ Undeclared \/ NoColumns(statement)
        \/ \E i \in DOMAIN rows, u \in uniqueSets \ {statement.conflict} :
              /\ u \cap DOMAIN last.args # {}
              /\ \A c \in u \cap DOMAIN last.args : rows[i][c] = last.args[c] \/ KeyKept(i, c)

(* The columns a call is recognised by have values in it.                                 *)
Named(u, args) == u # {} /\ u \subseteq DOMAIN args /\ \A c \in u : args[c] # Null
Recognised(args) == IF case.strategy = "upsert" THEN Named(statement.conflict, args)
                    ELSE \E u \in uniqueSets : Named(u, args)
KeysGiven(args) == \A k \in KeyColumns \cap DOMAIN args : args[k] # Null

(* A call made again at once, as a caller that lost the answer would, changes nothing     *)
(* and returns the same key, if the model has anything to recognise the row by and the      *)
(* database is not asked for a key in place of one that was left out.                        *)
RetrySettles == [][/\ last'.before # <<>> /\ last'.op = "write"
                   /\ Recognised(last'.args) /\ KeysGiven(last'.args) /\ ~NoRowReturned
                   => rows' = rows /\ last'.ok /\ <<last'.id>> = last'.before]_vars

(* A reference is made to what is no key: of a model that has a key of several columns or    *)
(* none, is interned, or spells its key as snake_case does not. A plain model that may have   *)
(* no target, "Org | null", refers to a table "?" and is not declared at all (2_facts.ts:11).  *)
OddTarget(m, f) == LET t == TargetOf(models, f) IN
    \/ f.leads # f.target /\ ~Interned(m)
    \/ ~OneKey(t) \/ (Interned(t) /\ ~Interned(m))
    \/ snakeCase(FirstKey(t).name) # FirstKey(t).name \/ FirstKey(t).rel # ""

(* The statements that declare the schema fit together: no two tables or views share a      *)
(* name, no two columns of an interned table, every reference that is not an odd one leads    *)
(* to a column that alone identifies a row, and what other generators are told of the tables   *)
(* is what was declared.                                                                        *)
TablesStand ==
    LET tables == emitSQL(models)
        name(p) == IF p[1] = "text" THEN qualified(p[2]) \o "_text" ELSE tables[p].name
        kinds(cs) == [i \in DOMAIN cs |-> [name |-> cs[i].name, integer |-> cs[i].integer]]
    IN /\ IsInjective([p \in DOMAIN tables \cup ViewPlaces(models) |-> name(p)])
       /\ \A m \in InternEntities(models) :
             IsInjective([i \in DOMAIN m.fields |-> internTable(models, m).columns[i].name])
       /\ \A m \in Ordinary(models) \cup InternEntities(models) : \A i \in DOMAIN m.fields :
             LET t == IF Interned(m) THEN internTable(models, m) ELSE entityTable(models, m)
             IN \A r \in ToSet(t.columns[i].ref) :
                   \/ m.fields[i].rel # "" /\ OddTarget(m, m.fields[i])
                   \/ \E p \in DOMAIN tables : tables[p].name = r.table /\ {r.column} \in UniqueSets(tables[p])
       /\ {[name |-> tables[p].name, columns |-> kinds(tables[p].columns)] : p \in DOMAIN tables} = tableFacts(models)
=============================================================================
