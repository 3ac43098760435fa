-------------------------- MODULE PlainWritersProofs --------------------------
(* The plain writers of any schema, any back end and any strategy, on tables of   *)
(* any size.                                                                       *)
EXTENDS PlainWriters, WellFoundedInduction, TLAPS

Cols == ToSet(table.columns)
Fields == FieldsOf(entity)
ManualColumns == {columnName(f) : f \in {f \in Fields : f.manual}}

-----------------------------------------------------------------------------
(* What is generated for a model fits the table that is declared for it.         *)

\* The columns of the table.
ColumnsFit ==
    /\ \A c, d \in Cols : c.name = d.name => c = d
    /\ \A c \in Cols : IsRowid(c) => KeyColumns = {c.name}
    /\ \A c \in Cols : c.auto => IsRowid(c)
    /\ \A c \in Cols : c.notNull => c.name \notin NullsOf(entity)
    /\ \A u \in uniqueSets : u \subseteq ColumnNames /\ u # {}
    /\ autoIncrement(entity) => \E c \in Cols : c.auto

LEMMA CaseParts ==
    ASSUME case \in Writers
    PROVE  /\ case.schema \in DOMAIN Cases /\ case.backend \in Backends /\ case.strategy \in Strategies
           /\ models = ModelsOf[case.schema] /\ entity = EntityOf[case.schema]
           /\ table = entityTable(models, entity)
           /\ uniqueSets = UniqueSets(table)
BY DEF Writers, models, entity, table, TableOf, uniqueSets, UniqueSetsOf

LEMMA FieldsFit ==
    ASSUME case \in Writers
    PROVE  /\ \A f, g \in Fields : f.name = g.name \/ columnName(f) = columnName(g) => f = g
           /\ \A f \in Fields : f.rel = "belongsTo" => f.type # "integer"
           /\ entity.unique \in Seq(ToSet(entity.unique))
           /\ \A u \in ToSet(entity.unique) : ToSet(u) # {} /\ ToSet(u) \subseteq {f.name : f \in Fields}
           /\ LET s == emitRusqliteWriter(entity, "upsert") IN
                  s.returning # {} /\ s.updates = {} => s.conflict \subseteq s.columns
BY CaseParts, CasesAssumption DEF Fields

LEMMA ColumnsOfFields ==
    ASSUME case \in Writers
    PROVE  /\ Cols = {columnOf(models, entity, f) : f \in Fields}
           /\ \A f \in Fields : columnOf(models, entity, f).name = columnName(f)
           /\ ColumnNames = {columnName(f) : f \in Fields}
<1>1. table.columns = [i \in DOMAIN entity.fields |-> columnOf(models, entity, entity.fields[i])]
    BY CaseParts DEF entityTable
<1>2. Cols = {columnOf(models, entity, f) : f \in Fields}
    BY <1>1 DEF Cols, Fields, FieldsOf, ToSet
<1>3. \A f \in Fields : columnOf(models, entity, f).name = columnName(f)
    BY DEF columnOf
<1> QED BY <1>2, <1>3 DEF ColumnNames, Cols

LEMMA ColumnOf ==
    ASSUME case \in Writers, NEW c \in Cols
    PROVE  \E f \in Fields : c = columnOf(models, entity, f) /\ c.name = columnName(f)
BY ColumnsOfFields

LEMMA ColumnKinds ==
    ASSUME case \in Writers, NEW f \in Fields, NEW c, c = columnOf(models, entity, f)
    PROVE  /\ IsRowid(c) => KeyFields(entity) = {f}
           /\ c.auto => IsRowid(c)
           /\ c.notNull => ~f.nullable
           /\ c.key <=> KeyFields(entity) = {f}
<1>1. CASE f.rel = "belongsTo"
    BY <1>1 DEF columnOf, IsRowid
<1>2. CASE f.rel # "belongsTo"
    BY <1>2 DEF columnOf, IsRowid, identityColumn, NoIdentity
<1> QED BY <1>1, <1>2

LEMMA UniqueColumns ==
    ASSUME case \in Writers, NEW u \in ToSet(entity.unique)
    PROVE  /\ ToSet(Columns(entity, u)) = {ColumnNamed(entity, n) : n \in ToSet(u)}
           /\ ToSet(Columns(entity, u)) \in uniqueSets
<1>1. ToSet(Columns(entity, u)) = {ColumnNamed(entity, n) : n \in ToSet(u)}
    BY DEF Columns, ToSet
<1>2. table.unique = [i \in DOMAIN entity.unique |-> Columns(entity, entity.unique[i])]
    BY CaseParts DEF entityTable
<1>3. Columns(entity, u) \in ToSet(table.unique)
    BY <1>2 DEF ToSet
<1> QED BY <1>1, <1>3, CaseParts DEF UniqueSets

LEMMA NamesOfFields ==
    ASSUME case \in Writers, NEW n \in {f.name : f \in Fields}
    PROVE  \E f \in Fields : f.name = n /\ FieldNamed(entity, n) = f /\ ColumnNamed(entity, n) = columnName(f)
<1>1. PICK f \in Fields : f.name = n
    OBVIOUS
<1>2. FieldNamed(entity, n) \in Fields /\ FieldNamed(entity, n).name = n
    BY <1>1 DEF FieldNamed, Fields
<1> QED BY <1>1, <1>2 DEF ColumnNamed

LEMMA UniqueSetsFit ==
    ASSUME case \in Writers, NEW u \in uniqueSets
    PROVE  u \subseteq ColumnNames /\ u # {}
<1>1. CASE u \in {{c.name} : c \in {c \in Cols : c.key}}
    BY <1>1 DEF ColumnNames, Cols
<1>2. CASE u \in {table.primary} \ {{}}
    <2>1. u = {columnName(k) : k \in KeyFields(entity)} /\ u # {}
        BY <1>2, CaseParts DEF entityTable
    <2> QED BY <2>1, ColumnsOfFields DEF KeyFields, Fields
<1>3. CASE u \in {ToSet(l) : l \in ToSet(table.unique)}
    <2>1. PICK i \in DOMAIN entity.unique : u = ToSet(Columns(entity, entity.unique[i]))
        <3>1. table.unique = [i \in DOMAIN entity.unique |-> Columns(entity, entity.unique[i])]
            BY CaseParts DEF entityTable
        <3> QED BY <1>3, <3>1 DEF ToSet
    <2>2. entity.unique[i] \in ToSet(entity.unique)
        BY DEF ToSet
    <2>3. u = {ColumnNamed(entity, n) : n \in ToSet(entity.unique[i])}
        BY <2>1, <2>2, UniqueColumns
    <2>4. ToSet(entity.unique[i]) \subseteq {f.name : f \in Fields} /\ ToSet(entity.unique[i]) # {}
        BY <2>2, FieldsFit
    <2>5. u \subseteq ColumnNames
        BY <2>3, <2>4, NamesOfFields, ColumnsOfFields
    <2> QED BY <2>3, <2>4, <2>5
<1> QED BY <1>1, <1>2, <1>3, CaseParts DEF UniqueSets, Cols

LEMMA TableFits ==
    ASSUME case \in Writers
    PROVE  ColumnsFit
<1>1. ASSUME NEW c \in Cols, NEW d \in Cols, c.name = d.name PROVE c = d
    BY <1>1, ColumnOf, FieldsFit
<1>2. ASSUME NEW c \in Cols PROVE
          /\ IsRowid(c) => KeyColumns = {c.name}
          /\ c.auto => IsRowid(c)
    <2>1. PICK f \in Fields : c = columnOf(models, entity, f) /\ c.name = columnName(f)
        BY ColumnOf
    <2> QED BY <2>1, ColumnKinds DEF KeyColumns, keyColumns
<1>3. ASSUME NEW c \in Cols, c.notNull PROVE c.name \notin NullsOf(entity)
    <2>1. PICK f \in Fields : c = columnOf(models, entity, f) /\ c.name = columnName(f)
        BY ColumnOf
    <2>2. ~f.nullable
        BY <2>1, <1>3, ColumnKinds
    <2> QED BY <2>1, <2>2, FieldsFit DEF NullsOf, Fields
<1>4. ASSUME autoIncrement(entity) PROVE \E c \in Cols : c.auto
    <2>1. PICK k \in Fields : KeyFields(entity) = {k} /\ k.type = "integer"
        BY <1>4 DEF autoIncrement, Fields
    <2>2. k.rel # "belongsTo"
        BY <2>1, FieldsFit
    <2>3. columnOf(models, entity, k).auto
        BY <2>1, <2>2 DEF columnOf, identityColumn, scalarType, Integer
    <2> QED BY <2>3, ColumnsOfFields
<1> QED BY <1>1, <1>2, <1>3, <1>4, UniqueSetsFit DEF ColumnsFit

\* The statement of the writer.
StatementFits == LET s == statement IN
    /\ s.columns = columns(entity) /\ s.columns \subseteq ColumnNames /\ s.conflict \subseteq ColumnNames
    /\ autoIncrement(entity) => s.columns \cap KeyColumns = {}
    /\ s.conflict # {} => s.conflict \in uniqueSets
    /\ s.updates \subseteq s.columns \ s.conflict
    /\ s.updates \cap KeyColumns = {} \/ SetsRelationKeys
    /\ case.strategy = "upsert" => (s.columns \ KeyColumns) \ s.updates \subseteq s.conflict \/ NamedAsKey
    /\ s.orIgnore = (case.strategy # "upsert")
    /\ case.strategy # "upsert" => s.conflict = {} /\ s.updates = {}
    /\ s.returning # {} => \E key : s.returning = {key} /\ (KeyColumns = {key} \/ NotCalledId)
    /\ s.returning # {} => returnsId(entity, case.strategy)
    /\ case.backend = "rusqlite" =>
           /\ s.returning \subseteq ColumnNames
           /\ s.returning # {} /\ s.updates = {} => s.conflict \subseteq s.columns

LEMMA StatementParts ==
    ASSUME case \in Writers
    PROVE  statement \in {emitRusqliteWriter(entity, case.strategy), sqlx_emitUpsertFn(entity, case.strategy)}
           /\ (case.backend = "rusqlite" => statement = emitRusqliteWriter(entity, case.strategy))
           /\ (case.backend # "rusqlite" => statement = sqlx_emitUpsertFn(entity, case.strategy))
<1>1. case.backend \in {"rusqlite", "sqlx", "go"}
    BY CaseParts, WritersAssumption
<1>2. statement = CASE case.backend = "rusqlite" -> emitRusqliteWriter(entity, case.strategy)
                    [] case.backend = "sqlx"     -> sqlx_emitUpsertFn(entity, case.strategy)
                    [] case.backend = "go"       -> go_emitUpsertFn(entity, case.strategy)
    BY CaseParts DEF statement, StatementOf, StatementsOf
<1> QED BY <1>1, <1>2 DEF go_emitUpsertFn

LEMMA KeysAreUnique ==
    ASSUME case \in Writers, KeyColumns # {}
    PROVE  KeyColumns \in uniqueSets
<1>1. PICK k \in Fields : k \in KeyFields(entity)
    BY DEF KeyColumns, keyColumns, KeyFields, Fields
<1>2. CASE KeyFields(entity) = {k}
    <2>1. columnOf(models, entity, k).key /\ columnOf(models, entity, k) \in Cols
        BY <1>2, ColumnKinds, ColumnsOfFields
    <2>2. KeyColumns = {columnOf(models, entity, k).name}
        BY <1>2, ColumnsOfFields DEF KeyColumns, keyColumns
    <2> QED BY <2>1, <2>2, CaseParts DEF UniqueSets, Cols
<1>3. CASE KeyFields(entity) # {k}
    <2>1. table.primary = KeyColumns
        BY <1>1, <1>3, CaseParts DEF entityTable, KeyColumns, keyColumns
    <2> QED BY <2>1, CaseParts DEF UniqueSets
<1> QED BY <1>2, <1>3

Recognising == {ColumnNamed(entity, n) : n \in conflictNames(entity)}

LEMMA RecognisedByUnique ==
    ASSUME case \in Writers
    PROVE  /\ Recognising \subseteq ColumnNames
           /\ Recognising # {} => Recognising \in uniqueSets
           /\ entity.unique = <<>> => Recognising = KeyColumns
<1>1. CASE entity.unique # <<>>
    <2>1. entity.unique[1] \in ToSet(entity.unique)
        BY <1>1, FieldsFit DEF ToSet
    <2>2. Recognising = ToSet(Columns(entity, entity.unique[1])) /\ Recognising \in uniqueSets
        BY <1>1, <2>1, UniqueColumns DEF Recognising, conflictNames
    <2> QED BY <1>1, <2>2, UniqueSetsFit
<1>2. CASE entity.unique = <<>>
    <2>1. \A k \in KeyFields(entity) : ColumnNamed(entity, k.name) = columnName(k)
        <3>1. SUFFICES ASSUME NEW k \in KeyFields(entity) PROVE ColumnNamed(entity, k.name) = columnName(k)
            OBVIOUS
        <3>2. k \in Fields /\ k.name \in {f.name : f \in Fields}
            BY DEF KeyFields, Fields
        <3> QED BY <3>2, NamesOfFields, FieldsFit
    <2>2. Recognising = KeyColumns
        BY <1>2, <2>1 DEF Recognising, conflictNames, KeyColumns, keyColumns
    <2>3. KeyColumns \subseteq ColumnNames
        BY ColumnsOfFields DEF KeyColumns, keyColumns, KeyFields, Fields
    <2> QED BY <2>2, <2>3, KeysAreUnique
<1> QED BY <1>1, <1>2

LEMMA ColumnsWritten ==
    ASSUME case \in Writers
    PROVE  /\ columns(entity) \subseteq ColumnNames
           /\ autoIncrement(entity) => columns(entity) \cap KeyColumns = {}
<1>1. columns(entity) \subseteq ColumnNames
    BY ColumnsOfFields DEF columns, writable, Fields
<1>2. ASSUME autoIncrement(entity), NEW f \in writable(entity), NEW k \in KeyFields(entity)
      PROVE  columnName(f) # columnName(k)
    BY <1>2, FieldsFit DEF writable, KeyFields, Fields
<1> QED BY <1>1, <1>2 DEF columns, KeyColumns, keyColumns

LEMMA Sets ==
    ASSUME case \in Writers
    PROVE  /\ statement.columns = columns(entity)
           /\ statement.conflict \in {{}, conflict(entity, case.strategy)}
           /\ statement.conflict = {} /\ columns(entity) # {} => conflict(entity, case.strategy) = {}
           /\ statement.orIgnore = (case.strategy # "upsert")
           /\ case.strategy # "upsert" => statement.updates = {} /\ statement.conflict = {}
           /\ case.strategy = "upsert" =>
                  statement.updates = IF case.backend = "rusqlite" THEN rusqlite_updates(entity, case.strategy)
                                      ELSE sqlx_updates(entity, case.strategy)
           /\ statement.returning # {} => returnsId(entity, case.strategy)
           /\ returnsId(entity, case.strategy) =>
                  statement.returning = IF case.backend = "rusqlite" THEN {CHOOSE c \in keyColumns(entity) : TRUE}
                                        ELSE {"id"}
<1>1. CASE case.backend = "rusqlite"
    <2> DEFINE key == CHOOSE c \in keyColumns(entity) : TRUE
               s   == Statement(entity, case.strategy, rusqlite_updates(entity, case.strategy), key)
    <2>1. statement = IF columns(entity) = {} THEN [s EXCEPT !.conflict = {}] ELSE s
        BY <1>1, StatementParts DEF emitRusqliteWriter
    <2>2. /\ s.columns = columns(entity) /\ s.conflict = conflict(entity, case.strategy)
          /\ s.orIgnore = (case.strategy # "upsert")
          /\ s.updates = IF case.strategy = "upsert" THEN rusqlite_updates(entity, case.strategy) ELSE {}
          /\ s.returning = IF returnsId(entity, case.strategy) THEN {key} ELSE {}
        BY DEF Statement
    <2>3. /\ statement.columns = s.columns /\ statement.orIgnore = s.orIgnore
          /\ statement.updates = s.updates /\ statement.returning = s.returning
          /\ statement.conflict = IF columns(entity) = {} THEN {} ELSE s.conflict
        BY <2>1 DEF Statement
    <2> HIDE DEF s
    <2> QED BY <1>1, <2>2, <2>3 DEF conflict
<1>2. CASE case.backend # "rusqlite"
    BY <1>2, StatementParts DEF sqlx_emitUpsertFn, Statement, conflict
<1> QED BY <1>1, <1>2

LEMMA UpdatesFit ==
    ASSUME case \in Writers
    PROVE  /\ statement.updates \subseteq statement.columns \ statement.conflict
           /\ statement.updates \cap KeyColumns = {} \/ SetsRelationKeys
           /\ case.strategy = "upsert" =>
                  (statement.columns \ KeyColumns) \ statement.updates \subseteq statement.conflict \/ NamedAsKey
<1>1. CASE case.strategy # "upsert"
    BY <1>1, Sets
<1>2. CASE case.strategy = "upsert" /\ case.backend = "rusqlite"
    BY <1>2, Sets DEF rusqlite_updates, KeyColumns
<1>3. CASE case.strategy = "upsert" /\ case.backend # "rusqlite"
    <2> DEFINE Plain == {snakeCase(k.name) : k \in KeyFields(entity)}
    <2>1. statement.updates = (columns(entity) \ conflict(entity, case.strategy)) \ Plain
        BY <1>3, Sets DEF sqlx_updates
    <2>2. statement.updates \subseteq statement.columns \ statement.conflict
        BY <2>1, Sets
    <2>3. CASE \A k \in KeyFields(entity) : k.rel = ""
        <3>1. Plain = KeyColumns
            BY <2>3 DEF KeyColumns, keyColumns, columnName
        <3> QED BY <2>1, <2>2, <3>1, Sets
    <2>4. ASSUME NEW k \in KeyFields(entity), k.rel # ""
          PROVE  statement.updates \cap KeyColumns = {} \/ SetsRelationKeys
        <3>1. CASE entity.unique # <<>>
            BY <1>3, <2>4, <3>1 DEF SetsRelationKeys
        <3>2. CASE entity.unique = <<>>
            <4>1. conflict(entity, case.strategy) = KeyColumns
                BY <1>3, <3>2, RecognisedByUnique DEF conflict, Recognising
            <4> QED BY <2>1, <4>1
        <3> QED BY <3>1, <3>2
    <2>5. ASSUME ~NamedAsKey, NEW c \in statement.columns \ KeyColumns, c \notin statement.updates
          PROVE  c \in statement.conflict
        <3>1. c \notin Plain
            <4> SUFFICES ASSUME NEW k \in KeyFields(entity), c = snakeCase(k.name) PROVE FALSE
                OBVIOUS
            <4>1. PICK f \in writable(entity) : c = columnName(f)
                BY <2>5, Sets DEF columns
            <4>2. k.rel # ""
                BY <2>5 DEF columnName, KeyColumns, keyColumns
            <4>3. f # k
                BY <2>5, <4>1 DEF KeyColumns, keyColumns
            <4> QED BY <1>3, <2>5, <4>1, <4>2, <4>3 DEF NamedAsKey, writable
        <3>2. c \in conflict(entity, case.strategy)
            BY <2>1, <2>5, <3>1, Sets
        <3> QED BY <2>5, <3>2, Sets
    <2>6. (statement.columns \ KeyColumns) \ statement.updates \subseteq statement.conflict \/ NamedAsKey
        BY <2>5
    <2>7. statement.updates \cap KeyColumns = {} \/ SetsRelationKeys
        BY <2>3, <2>4, <2>1 DEF KeyColumns
    <2> QED BY <2>2, <2>6, <2>7
<1> QED BY <1>1, <1>2, <1>3

LEMMA ReturningFits ==
    ASSUME case \in Writers, statement.returning # {}
    PROVE  /\ \E key : statement.returning = {key} /\ (KeyColumns = {key} \/ NotCalledId)
           /\ returnsId(entity, case.strategy)
           /\ case.backend = "rusqlite" =>
                  /\ statement.returning \subseteq ColumnNames
                  /\ statement.updates = {} => statement.conflict \subseteq statement.columns
<1>1. returnsId(entity, case.strategy)
    BY Sets
<1>2. PICK k \in Fields : KeyFields(entity) = {k}
    BY <1>1 DEF returnsId, autoIncrement, Fields
<1>3. KeyColumns = {columnName(k)}
    BY <1>2 DEF KeyColumns, keyColumns
<1>4. CASE case.backend = "rusqlite"
    <2>1. statement.returning = {columnName(k)}
        BY <1>1, <1>3, <1>4, Sets DEF KeyColumns
    <2>2. columnName(k) \in ColumnNames
        BY ColumnsOfFields
    <2>3. statement.updates = {} => statement.conflict \subseteq statement.columns
        <3>1. case.strategy = "upsert" /\ statement = emitRusqliteWriter(entity, "upsert")
            BY <1>1, <1>4, StatementParts DEF returnsId
        <3> QED BY <3>1, FieldsFit
    <2> QED BY <1>1, <1>3, <2>1, <2>2, <2>3
<1>5. CASE case.backend # "rusqlite"
    BY <1>1, <1>3, <1>5, Sets DEF NotCalledId
<1> QED BY <1>4, <1>5

LEMMA WriterFits ==
    ASSUME case \in Writers
    PROVE  StatementFits
<1>1. statement.conflict \subseteq ColumnNames /\ (statement.conflict # {} => statement.conflict \in uniqueSets)
    <2>1. conflict(entity, case.strategy) \in {{}, Recognising}
        BY DEF conflict, Recognising
    <2> QED BY <2>1, Sets, RecognisedByUnique
<1>2. /\ statement.columns = columns(entity) /\ statement.columns \subseteq ColumnNames
      /\ autoIncrement(entity) => statement.columns \cap KeyColumns = {}
      /\ statement.orIgnore = (case.strategy # "upsert")
      /\ case.strategy # "upsert" => statement.conflict = {} /\ statement.updates = {}
    BY Sets, ColumnsWritten
<1> QED BY <1>1, <1>2, UpdatesFit, ReturningFits DEF StatementFits

-----------------------------------------------------------------------------
(* The inductive invariant.                                                        *)

\* No two rows share what the model says is unique.
Distinct(rs) == \A u \in uniqueSets : \A i, j \in DOMAIN rs : Same(rs[i], rs[j], u) => i = j

\* No key the database keeps count of is greater than the greatest it has given.
Below(rs, g) == \A i \in DOMAIN rs : \A c \in Cols : IsRowid(c) => rs[i][c.name] <= g

-----------------------------------------------------------------------------
(* Least and greatest numbers.                                                      *)

LEMMA Least ==
    ASSUME NEW T, T \subseteq Nat, T # {}
    PROVE  \E x \in T : \A y \in T : x <= y
<1>1. PICK x \in T : \A y \in T : <<y, x>> \notin OpToRel(<, Nat)
    BY NatLessThanWellFounded, WFMin
<1>2. ASSUME NEW y \in T PROVE x <= y
    <2>1. x \in Nat /\ y \in Nat /\ <<y, x>> \in Nat \X Nat
        OBVIOUS
    <2> QED BY <1>1, <2>1 DEF OpToRel
<1> QED BY <1>2

LEMMA Greatest ==
    ASSUME NEW S, NEW b \in Nat, S \subseteq 0..b, S # {}
    PROVE  Max(S) \in S /\ \A y \in S : y <= Max(S)
<1> DEFINE T == {n \in Nat : b - n \in S}
<1>1. \A s \in S : b - s \in Nat /\ b - (b - s) = s
    <2>1. \A s \in S : s \in 0..b
        OBVIOUS
    <2> QED BY <2>1
<1>2. \A s \in S : b - s \in T
    BY <1>1
<1>3. PICK x \in T : \A y \in T : x <= y
    BY <1>2, Least
<1>4. b - x \in S /\ \A y \in S : b - x >= y
    <2>1. ASSUME NEW y \in S PROVE b - x >= y
        <3>1. y \in Int /\ x <= b - y /\ x \in Nat
            BY <1>1, <1>2, <1>3
        <3> QED BY <3>1
    <2> QED BY <2>1, <1>3
<1>5. Max(S) \in S /\ \A y \in S : Max(S) >= y
    BY <1>4 DEF Max
<1>6. \A y \in S : y \in Int
    OBVIOUS
<1> QED BY <1>5, <1>6

-----------------------------------------------------------------------------
(* The row an INSERT would add.                                                     *)

LEMMA NextKeyIsNew ==
    ASSUME TypeOK, Below(rows, given)
    PROVE  /\ NextKey \in Nat \ {0}
           /\ \A i \in DOMAIN rows : \A c \in Cols : IsRowid(c) => rows[i][c.name] < NextKey
           /\ (\E c \in Cols : c.auto) => NextKey = given + 1
<1>1. ASSUME NEW i \in DOMAIN rows, NEW c \in Cols
      PROVE  rows[i][c.name] \in Nat
    BY <1>1 DEF TypeOK, ColumnNames, Cols
<1>2. CASE \E c \in Cols : c.auto
    BY <1>1, <1>2 DEF NextKey, Cols, Below, TypeOK
<1>3. CASE ~\E c \in Cols : c.auto
    <2>1. Held(rows) \subseteq 0..given /\ Held(rows) # {}
        BY <1>1 DEF Held, Below, Cols, TypeOK
    <2>2. Max(Held(rows)) \in Nat /\ \A y \in Held(rows) : y <= Max(Held(rows))
        BY <2>1, Greatest DEF TypeOK
    <2>3. ASSUME NEW i \in DOMAIN rows, NEW c \in Cols, IsRowid(c)
          PROVE  rows[i][c.name] < Max(Held(rows)) + 1
        <3>1. rows[i][c.name] \in Held(rows)
            BY <2>3 DEF Held, Cols
        <3> QED BY <1>1, <2>2, <3>1
    <2> QED BY <1>3, <2>2, <2>3 DEF NextKey, Cols
<1> QED BY <1>2, <1>3

Arguments(args, cols) == args \in [cols -> Values \cup {Null}] /\ cols \subseteq ColumnNames

LEMMA NewRowParts ==
    ASSUME TypeOK, Below(rows, given), NEW cols, NEW args, Arguments(args, cols)
    PROVE  /\ NewRow(args) \in [ColumnNames -> Nat]
           /\ \A c \in Cols : NewRow(args)[c.name] =
                  IF c.name \in cols /\ (IsRowid(c) => args[c.name] # Null) THEN args[c.name]
                  ELSE IF IsRowid(c) THEN NextKey
                  ELSE IF c.default /\ c.name \notin cols THEN DefaultValue
                  ELSE Null
<1> DEFINE column(n) == CHOOSE c \in ToSet(table.columns) : c.name = n
<1>1. \A c \in Cols : column(c.name) = c /\ c.name \in ColumnNames
    <2>1. \A c, d \in Cols : c.name = d.name => c = d
        BY TableFits DEF TypeOK, ColumnsFit
    <2> QED BY <2>1 DEF Cols, ColumnNames
<1>2. NewRow(args) = [n \in ColumnNames |->
           IF n \in cols /\ (IsRowid(column(n)) => args[n] # Null) THEN args[n]
           ELSE IF IsRowid(column(n)) THEN NextKey
           ELSE IF column(n).default /\ n \notin cols THEN DefaultValue
           ELSE Null]
    BY DEF NewRow, Arguments
<1>3. DefaultValue \in Nat /\ Null \in Nat /\ NextKey \in Nat /\ \A n \in cols : args[n] \in Nat
    <2>1. DefaultValue \in Values
        BY WritersAssumption DEF DefaultValue
    <2>2. Values \subseteq Nat /\ Null \in Nat
        BY WritersAssumption DEF Null
    <2>3. \A n \in cols : args[n] \in Nat
        BY <2>2 DEF Arguments
    <2> QED BY <2>1, <2>2, <2>3, NextKeyIsNew
<1>4. NewRow(args) \in [ColumnNames -> Nat]
    BY <1>2, <1>3
<1>5. ASSUME NEW c \in Cols
      PROVE  NewRow(args)[c.name] =
                  IF c.name \in cols /\ (IsRowid(c) => args[c.name] # Null) THEN args[c.name]
                  ELSE IF IsRowid(c) THEN NextKey
                  ELSE IF c.default /\ c.name \notin cols THEN DefaultValue
                  ELSE Null
    BY <1>1, <1>2
<1> QED BY <1>4, <1>5

-----------------------------------------------------------------------------
(* What SQLite does.                                                                 *)

\* The statement stored a new row,
Inserts(s, r, done) ==
    /\ FreshRow \in 1..(MaxRows + 1) /\ FreshRow \notin DOMAIN rows
    /\ s.conflict # {} => Meets(r, s.conflict) = {}
    /\ Clashes(r, {}) = {}
    /\ done = [ok |-> TRUE, rows |-> [k \in DOMAIN rows \cup {FreshRow} |-> IF k = FreshRow THEN r ELSE rows[k]],
               hit |-> {FreshRow}]

\* or changed the one it met,
Changed(s, r, i) == [c \in ColumnNames |-> IF c \in s.updates THEN r[c] ELSE rows[i][c]]
Updates(s, r, done, i) ==
    /\ s.conflict # {} /\ s.updates # {} /\ i \in Meets(r, s.conflict)
    /\ Clashes(Changed(s, r, i), {i}) = {}
    /\ done = [ok |-> TRUE, rows |-> [rows EXCEPT ![i] = Changed(s, r, i)], hit |-> {i}]

\* or left the table alone: refused, or with nothing to change, or not at fault.
Leaves(s, r, done) ==
    /\ done.rows = rows /\ done.hit = {}
    /\ \/ done.ok = FALSE /\ Malformed(s)
       \/ /\ done.ok = s.orIgnore /\ ~Malformed(s)
          /\ Incomplete(r) \/ (Clashes(r, {}) # {} /\ (s.conflict # {} => Meets(r, s.conflict) = {}))
       \/ /\ done.ok = TRUE /\ ~Malformed(s) /\ ~Incomplete(r)
          /\ s.conflict # {} /\ s.updates = {} /\ Meets(r, s.conflict) # {}
       \/ /\ done.ok = FALSE /\ ~Malformed(s) /\ s.conflict # {} /\ s.updates # {}
          /\ \E i \in Meets(r, s.conflict) : Clashes(Changed(s, r, i), {i}) # {}

LEMMA Executed ==
    ASSUME TypeOK, NEW s, NEW r
    PROVE  \/ Leaves(s, r, Execute(s, r))
           \/ Inserts(s, r, Execute(s, r)) /\ ~Malformed(s) /\ ~Incomplete(r)
           \/ \E i \in DOMAIN rows : Updates(s, r, Execute(s, r), i) /\ ~Malformed(s) /\ ~Incomplete(r)
<1> DEFINE met == IF s.conflict = {} THEN {} ELSE Meets(r, s.conflict)
           i   == CHOOSE i \in met : TRUE
<1>1. Execute(s, r) =
          IF Malformed(s) THEN Untouched(FALSE)
          ELSE IF Incomplete(r) THEN Untouched(s.orIgnore)
          ELSE IF met = {} THEN
              IF Clashes(r, {}) # {} THEN Untouched(s.orIgnore)
              ELSE [ok |-> TRUE, rows |-> [k \in DOMAIN rows \cup {FreshRow} |->
                                              IF k = FreshRow THEN r ELSE rows[k]], hit |-> {FreshRow}]
          ELSE IF s.updates = {} THEN Untouched(TRUE)
          ELSE IF Clashes(Changed(s, r, i), {i}) # {} THEN Untouched(FALSE)
          ELSE [ok |-> TRUE, rows |-> [rows EXCEPT ![i] = Changed(s, r, i)], hit |-> {i}]
    BY DEF Execute, Changed
<1>2. FreshRow \in 1..(MaxRows + 1) /\ FreshRow \notin DOMAIN rows
    <2>1. MaxRows + 1 \in 1..(MaxRows + 1) /\ MaxRows + 1 \notin DOMAIN rows
        BY WritersAssumption DEF TypeOK
    <2> QED BY <2>1 DEF FreshRow
<1>3. Meets(r, s.conflict) \subseteq DOMAIN rows
    BY DEF Meets
<1>4. \A ok : Untouched(ok).rows = rows /\ Untouched(ok).hit = {} /\ Untouched(ok).ok = ok
    BY DEF Untouched
<1>5. CASE Malformed(s)
    BY <1>1, <1>4, <1>5 DEF Leaves
<1>6. CASE ~Malformed(s) /\ Incomplete(r)
    BY <1>1, <1>4, <1>6 DEF Leaves
<1>7. CASE ~Malformed(s) /\ ~Incomplete(r) /\ met = {} /\ Clashes(r, {}) # {}
    BY <1>1, <1>4, <1>7 DEF Leaves
<1>8. CASE ~Malformed(s) /\ ~Incomplete(r) /\ met = {} /\ Clashes(r, {}) = {}
    BY <1>1, <1>2, <1>8 DEF Inserts
<1>9. CASE ~Malformed(s) /\ ~Incomplete(r) /\ met # {} /\ s.updates = {}
    BY <1>1, <1>4, <1>9 DEF Leaves
<1>10. CASE ~Malformed(s) /\ ~Incomplete(r) /\ met # {} /\ s.updates # {} /\ Clashes(Changed(s, r, i), {i}) # {}
    BY <1>1, <1>4, <1>10 DEF Leaves
<1>11. CASE ~Malformed(s) /\ ~Incomplete(r) /\ met # {} /\ s.updates # {} /\ Clashes(Changed(s, r, i), {i}) = {}
    BY <1>1, <1>3, <1>11 DEF Updates
<1> QED BY <1>5, <1>6, <1>7, <1>8, <1>9, <1>10, <1>11

-----------------------------------------------------------------------------
(* What a call does to the table.                                                    *)

Tables == TypeOK /\ Distinct(rows) /\ Below(rows, given)

LEMMA RunParts ==
    ASSUME NEW op, NEW s, NEW args, Run(op, s, args)
    PROVE  LET done == Execute(s, NewRow(args))  id == Answer(s, args, done) IN
           /\ case' = case
           /\ rows' = done.rows /\ DOMAIN rows' \subseteq 1..MaxRows
           /\ given' = Max({given} \cup Held(rows'))
           /\ last' = [op |-> op, args |-> args, id |-> id, ok |-> done.ok /\ (s.returning # {} => id # {}),
                       before |-> IF op = last.op /\ args = last.args /\ last.ok THEN <<last.id>> ELSE <<>>]
BY DEF Run

LEMMA SameCase ==
    ASSUME case' = case
    PROVE  /\ models' = models /\ entity' = entity /\ table' = table /\ uniqueSets' = uniqueSets
           /\ statement' = statement /\ ColumnNames' = ColumnNames /\ Cols' = Cols /\ KeyColumns' = KeyColumns
BY DEF models, entity, table, uniqueSets, statement, ColumnNames, Cols, KeyColumns

LEMMA Met ==
    ASSUME NEW r, NEW u, NEW i
    PROVE  i \in Meets(r, u) <=> i \in DOMAIN rows /\ Same(rows[i], r, u)
BY DEF Meets

LEMMA NoClash ==
    ASSUME NEW r, NEW but, Clashes(r, but) = {}
    PROVE  \A u \in uniqueSets : \A i \in DOMAIN rows \ but : ~Same(rows[i], r, u)
BY Met DEF Clashes

LEMMA AClash ==
    ASSUME NEW r, NEW but, Clashes(r, but) # {}
    PROVE  \E u \in uniqueSets : \E i \in DOMAIN rows \ but : Same(rows[i], r, u)
BY Met DEF Clashes

LEMMA SameBack ==
    ASSUME NEW r, NEW s, NEW u, Same(r, s, u)
    PROVE  Same(s, r, u)
BY DEF Same

\* The rows are of the table, and a key in them is an old one or that of the new row.
LEMMA RowsAfter ==
    ASSUME Tables, NEW s, NEW r \in [ColumnNames -> Nat]
    PROVE  LET rs == Execute(s, r).rows IN
           /\ rs \in [DOMAIN rs -> [ColumnNames -> Nat]]
           /\ Distinct(rs)
           /\ \A i \in DOMAIN rs : \A c \in ColumnNames :
                  \/ i \in DOMAIN rows /\ rs[i][c] = rows[i][c]
                  \/ rs[i][c] = r[c]
<1> DEFINE done == Execute(s, r)
<1>1. CASE Leaves(s, r, done)
    <2>1. done.rows = rows
        BY <1>1 DEF Leaves
    <2>2. rows \in [DOMAIN rows -> [ColumnNames -> Nat]] /\ Distinct(rows)
        BY DEF Tables, TypeOK
    <2> HIDE DEF done
    <2>3. /\ done.rows \in [DOMAIN done.rows -> [ColumnNames -> Nat]] /\ Distinct(done.rows)
          /\ \A i \in DOMAIN done.rows : i \in DOMAIN rows /\ done.rows[i] = rows[i]
        BY <2>1, <2>2
    <2> QED BY <2>3 DEF done
<1>2. CASE Inserts(s, r, done)
    <2> DEFINE rs == [k \in DOMAIN rows \cup {FreshRow} |-> IF k = FreshRow THEN r ELSE rows[k]]
    <2>1. done.rows = rs /\ FreshRow \notin DOMAIN rows
        BY <1>2 DEF Inserts
    <2>2. rs \in [DOMAIN rows \cup {FreshRow} -> [ColumnNames -> Nat]]
        BY DEF Tables, TypeOK
    <2>3. ASSUME NEW u \in uniqueSets, NEW i \in DOMAIN rs, NEW j \in DOMAIN rs, Same(rs[i], rs[j], u)
          PROVE  i = j
        <3>1. \A k \in DOMAIN rows : ~Same(rows[k], r, u) /\ ~Same(r, rows[k], u)
            BY <1>2, NoClash, SameBack DEF Inserts
        <3>2. CASE i = FreshRow \/ j = FreshRow
            BY <2>1, <2>3, <3>1, <3>2
        <3>3. CASE i # FreshRow /\ j # FreshRow
            BY <2>3, <3>3 DEF Tables, Distinct
        <3> QED BY <3>2, <3>3
    <2>4. Distinct(rs)
        BY <2>3 DEF Distinct
    <2>5. \A i \in DOMAIN rs : \A c \in ColumnNames :
              (i \in DOMAIN rows /\ rs[i][c] = rows[i][c]) \/ rs[i][c] = r[c]
        OBVIOUS
    <2>6. DOMAIN rs = DOMAIN rows \cup {FreshRow}
        OBVIOUS
    <2> HIDE DEF done, rs
    <2> QED BY <2>1, <2>2, <2>4, <2>5, <2>6 DEF done
<1>3. ASSUME NEW i \in DOMAIN rows, Updates(s, r, done, i)
      PROVE  /\ done.rows \in [DOMAIN done.rows -> [ColumnNames -> Nat]]
             /\ Distinct(done.rows)
             /\ \A k \in DOMAIN done.rows : \A c \in ColumnNames :
                  \/ k \in DOMAIN rows /\ done.rows[k][c] = rows[k][c]
                  \/ done.rows[k][c] = r[c]
    <2> DEFINE next == Changed(s, r, i)
               rs   == [rows EXCEPT ![i] = next]
    <2>1. done.rows = rs
        BY <1>3 DEF Updates
    <2>2. rows \in [DOMAIN rows -> [ColumnNames -> Nat]]
        BY DEF Tables, TypeOK
    <2>3. next \in [ColumnNames -> Nat] /\ \A c \in ColumnNames : next[c] = rows[i][c] \/ next[c] = r[c]
        BY <2>2 DEF Changed
    <2>4. DOMAIN rs = DOMAIN rows /\ rs[i] = next /\ \A k \in DOMAIN rows : k # i => rs[k] = rows[k]
        BY <2>2
    <2>5. rs \in [DOMAIN rows -> [ColumnNames -> Nat]]
        BY <2>2, <2>3
    <2>6. ASSUME NEW u \in uniqueSets, NEW k \in DOMAIN rows, NEW l \in DOMAIN rows, Same(rs[k], rs[l], u)
          PROVE  k = l
        <3>1. \A j \in DOMAIN rows : j # i => ~Same(rows[j], next, u) /\ ~Same(next, rows[j], u)
            BY <1>3, NoClash, SameBack DEF Updates
        <3>2. CASE k = i \/ l = i
            BY <2>4, <2>6, <3>1, <3>2
        <3>3. CASE k # i /\ l # i
            BY <2>4, <2>6, <3>3 DEF Tables, Distinct
        <3> QED BY <3>2, <3>3
    <2>7. Distinct(rs)
        BY <2>4, <2>6 DEF Distinct
    <2>8. \A k \in DOMAIN rows : \A c \in ColumnNames : rs[k][c] = rows[k][c] \/ rs[k][c] = r[c]
        BY <2>3, <2>4
    <2> HIDE DEF done, rs, next
    <2> QED BY <2>1, <2>4, <2>5, <2>7, <2>8
<1>4. Leaves(s, r, done) \/ Inserts(s, r, done) \/ \E i \in DOMAIN rows : Updates(s, r, done, i)
    BY Executed DEF Tables
<1> HIDE DEF done
<1>5. QED BY <1>1, <1>2, <1>3, <1>4 DEF done

\* The counter of keys given covers the rows after a call.
LEMMA GivenAfter ==
    ASSUME Tables, NEW s, NEW r \in [ColumnNames -> Nat]
    PROVE  LET rs == Execute(s, r).rows  g == Max({given} \cup Held(rs)) IN
           /\ g \in Nat /\ given <= g /\ Below(rs, g)
<1> DEFINE rs == Execute(s, r).rows
           S  == {given} \cup Held(rs)
<1>1. /\ rs \in [DOMAIN rs -> [ColumnNames -> Nat]]
      /\ \A i \in DOMAIN rs : \A c \in ColumnNames :
            (i \in DOMAIN rows /\ rs[i][c] = rows[i][c]) \/ rs[i][c] = r[c]
    BY RowsAfter
<1>2. PICK b \in Nat : given <= b /\ \A c \in Cols : IsRowid(c) => r[c.name] <= b
    <2>1. given \in Nat /\ \A c \in Cols : c.name \in ColumnNames /\ r[c.name] \in Nat
        BY DEF Tables, TypeOK, Cols, ColumnNames
    <2>2. CASE \E c \in Cols : IsRowid(c)
        <3>1. PICK c \in Cols : IsRowid(c)
            BY <2>2
        <3>2. \A d \in Cols : IsRowid(d) => d.name = c.name
            BY <3>1, TableFits DEF ColumnsFit, Tables, TypeOK
        <3>3. given + r[c.name] \in Nat /\ given <= given + r[c.name] /\ r[c.name] <= given + r[c.name]
            BY <2>1
        <3> QED BY <3>2, <3>3
    <2>3. CASE ~\E c \in Cols : IsRowid(c)
        BY <2>1, <2>3
    <2> QED BY <2>2, <2>3
<1> HIDE DEF rs
<1>3. \A i \in DOMAIN rs : \A c \in Cols : IsRowid(c) => rs[i][c.name] \in 0..b
    <2> SUFFICES ASSUME NEW i \in DOMAIN rs, NEW c \in Cols, IsRowid(c) PROVE rs[i][c.name] \in 0..b
        OBVIOUS
    <2>1. c.name \in ColumnNames /\ rs[i][c.name] \in Nat
        BY <1>1 DEF Cols, ColumnNames
    <2>2. CASE rs[i][c.name] = r[c.name]
        BY <1>2, <2>1, <2>2
    <2>3. CASE i \in DOMAIN rows /\ rs[i][c.name] = rows[i][c.name]
        <3>1. rows[i][c.name] <= given /\ given \in Nat
            BY <2>3 DEF Tables, TypeOK, Below
        <3> QED BY <1>2, <2>1, <2>3, <3>1
    <2> QED BY <1>1, <2>1, <2>2, <2>3
<1>4. S \subseteq 0..b /\ S # {}
    BY <1>2, <1>3 DEF Held, Cols, Tables, TypeOK
<1>5. Max(S) \in S /\ \A y \in S : y <= Max(S)
    BY <1>4, Greatest
<1>6. Max(S) \in Nat /\ given <= Max(S)
    BY <1>4, <1>5
<1>7. ASSUME NEW i \in DOMAIN rs, NEW c \in Cols, IsRowid(c)
      PROVE  rs[i][c.name] <= Max(S)
    BY <1>5, <1>7 DEF Held, Cols
<1> QED BY <1>6, <1>7 DEF rs, Below

LEMMA NewRows ==
    ASSUME Tables, NEW cols, NEW args, Arguments(args, cols)
    PROVE  NewRow(args) \in [ColumnNames -> Nat]
BY NewRowParts DEF Tables

LEMMA TablesAfter ==
    ASSUME Tables, NEW s, NEW args, NEW op \in {"write", "values"}, s.orIgnore \in BOOLEAN,
           Arguments(args, s.columns), Run(op, s, args)
    PROVE  Tables'
<1> DEFINE r    == NewRow(args)
           done == Execute(s, r)
<1>1. r \in [ColumnNames -> Nat]
    BY NewRows
<1>2. /\ case' = case /\ rows' = done.rows /\ DOMAIN rows' \subseteq 1..MaxRows
      /\ given' = Max({given} \cup Held(rows'))
      /\ last'.op = op
      /\ last'.ok = (done.ok /\ (s.returning # {} => Answer(s, args, done) # {}))
    <2>1. /\ case' = case /\ rows' = done.rows /\ DOMAIN rows' \subseteq 1..MaxRows
          /\ given' = Max({given} \cup Held(rows'))
        BY RunParts
    <2>2. \E id, ok, before : /\ ok = (done.ok /\ (s.returning # {} => Answer(s, args, done) # {}))
                             /\ last' = [op |-> op, args |-> args, id |-> id, ok |-> ok, before |-> before]
        BY RunParts
    <2> HIDE DEF done
    <2> QED BY <2>1, <2>2
<1>3. done.ok \in BOOLEAN
    <2>1. CASE Leaves(s, r, done)
        BY <2>1 DEF Leaves
    <2>2. CASE Inserts(s, r, done)
        BY <2>2 DEF Inserts
    <2>3. ASSUME NEW i, Updates(s, r, done, i) PROVE done.ok = TRUE
        BY <2>3 DEF Updates
    <2>4. Leaves(s, r, done) \/ Inserts(s, r, done) \/ \E i \in DOMAIN rows : Updates(s, r, done, i)
        BY Executed DEF Tables
    <2> HIDE DEF done
    <2> QED BY <2>1, <2>2, <2>3, <2>4
<1> HIDE DEF r, done
<1>4. rows' \in [DOMAIN rows' -> [ColumnNames -> Nat]] /\ Distinct(rows')
    BY <1>1, <1>2, RowsAfter DEF done
<1>5. given' \in Nat /\ Below(rows', given')
    BY <1>1, <1>2, GivenAfter DEF done
<1>6. last'.op \in {"none", "write", "values"} /\ last'.ok \in BOOLEAN
    BY <1>2, <1>3
<1>7. TypeOK'
    BY <1>2, <1>4, <1>5, <1>6, SameCase DEF TypeOK, Tables
<1>8. Distinct(rows)' /\ Below(rows, given)'
    BY <1>2, <1>4, <1>5, SameCase DEF Distinct, Below
<1> QED BY <1>7, <1>8 DEF Tables

LEMMA WriteParts ==
    ASSUME TypeOK, Write
    PROVE  \E args : /\ Arguments(args, statement.columns)
                     /\ \A c \in statement.columns : args[c] = Null => c \in NullsOf(entity)
                     /\ Run("write", statement, args)
<1>1. statement.columns \subseteq ColumnNames
    BY WriterFits DEF TypeOK, StatementFits
<1> QED BY <1>1 DEF Write, Arguments

LEMMA InsertValuesParts ==
    ASSUME TypeOK, InsertValues
    PROVE  LET s == ValuesOf[case.schema] IN
           /\ s.orIgnore = FALSE /\ s.conflict = {} /\ s.updates = {} /\ s.returning = {}
           /\ \E args : Arguments(args, s.columns) /\ Run("values", s, args)
<1> DEFINE s == ValuesOf[case.schema]
<1>1. s = emitRusqliteValueWriters(entity)
    BY CaseParts DEF ValuesOf, TypeOK
<1>2. /\ s.orIgnore = FALSE /\ s.conflict = {} /\ s.updates = {} /\ s.returning = {}
      /\ s.columns = {columnName(f) : f \in {f \in Fields : ~f.manual}}
    BY <1>1 DEF emitRusqliteValueWriters, Fields
<1>3. s.columns \subseteq ColumnNames
    BY <1>2, ColumnsOfFields DEF TypeOK
<1>4. PICK args \in [s.columns -> Values \cup {Null}] : Run("values", s, args)
    BY DEF InsertValues
<1> HIDE DEF s
<1>5. QED BY <1>2, <1>3, <1>4 DEF s, Arguments

LEMMA DeleteParts ==
    ASSUME DeleteChildren
    PROVE  /\ case' = case /\ given' = given /\ last' = NoCall
           /\ DOMAIN rows' \subseteq DOMAIN rows /\ \A i \in DOMAIN rows' : rows'[i] = rows[i]
           /\ rows' \in [DOMAIN rows' -> {rows[i] : i \in DOMAIN rows}]
BY DEF DeleteChildren

LEMMA TablesStay ==
    ASSUME Tables, [Next]_vars
    PROVE  Tables'
<1>1. CASE Write
    <2>1. PICK args : Arguments(args, statement.columns) /\ Run("write", statement, args)
        BY <1>1, WriteParts DEF Tables
    <2>2. statement.orIgnore \in BOOLEAN
        BY WriterFits DEF Tables, TypeOK, StatementFits
    <2> QED BY <2>1, <2>2, TablesAfter
<1>2. CASE InsertValues
    <2>1. PICK args : Arguments(args, ValuesOf[case.schema].columns) /\ Run("values", ValuesOf[case.schema], args)
        BY <1>2, InsertValuesParts DEF Tables
    <2>2. ValuesOf[case.schema].orIgnore \in BOOLEAN
        BY <1>2, InsertValuesParts DEF Tables
    <2> QED BY <2>1, <2>2, TablesAfter
<1>3. CASE DeleteChildren
    <2>1. /\ case' = case /\ given' = given /\ last' = NoCall
          /\ DOMAIN rows' \subseteq DOMAIN rows /\ \A i \in DOMAIN rows' : rows'[i] = rows[i]
          /\ rows' \in [DOMAIN rows' -> {rows[i] : i \in DOMAIN rows}]
        BY <1>3, DeleteParts
    <2>2. rows' \in [DOMAIN rows' -> [ColumnNames -> Nat]]
        <3>1. \A i \in DOMAIN rows : rows[i] \in [ColumnNames -> Nat]
            BY DEF Tables, TypeOK
        <3> QED BY <2>1, <3>1
    <2>3. TypeOK'
        BY <2>1, <2>2, SameCase DEF TypeOK, Tables, NoCall
    <2>4. Distinct(rows)' /\ Below(rows, given)'
        BY <2>1, SameCase DEF Distinct, Below, Tables
    <2> QED BY <2>3, <2>4 DEF Tables
<1>4. CASE UNCHANGED vars
    <2>1. case' = case /\ rows' = rows /\ given' = given /\ last' = last
        BY <1>4 DEF vars
    <2> QED BY <2>1, SameCase DEF Tables, TypeOK, Distinct, Below
<1> QED BY <1>1, <1>2, <1>3, <1>4 DEF Next

LEMMA TablesAtFirst ==
    ASSUME Init
    PROVE  Tables
<1>1. DOMAIN rows = {} /\ given = 0 /\ last = NoCall /\ case \in Writers
    BY DEF Init
<1>2. rows \in [DOMAIN rows -> [ColumnNames -> Nat]]
    BY DEF Init
<1> QED BY <1>1, <1>2 DEF Tables, TypeOK, Distinct, Below, NoCall

-----------------------------------------------------------------------------
(* A key names one row for good.                                                      *)

LEMMA KeysAreColumns ==
    ASSUME TypeOK
    PROVE  KeyColumns \subseteq ColumnNames
BY ColumnsOfFields DEF TypeOK, KeyColumns, keyColumns, KeyFields, Fields

LEMMA KeysOfRows ==
    ASSUME Tables, NEW s, NEW r \in [ColumnNames -> Nat], s.updates \cap KeyColumns = {}
    PROVE  LET rs == Execute(s, r).rows IN
           \A i \in DOMAIN rows \cap DOMAIN rs : \A k \in KeyColumns : rs[i][k] = rows[i][k]
<1> DEFINE done == Execute(s, r)
<1>1. CASE Leaves(s, r, done)
    <2>1. done.rows = rows
        BY <1>1 DEF Leaves
    <2> QED BY <2>1
<1>2. CASE Inserts(s, r, done)
    <2>1. done.rows = [k \in DOMAIN rows \cup {FreshRow} |-> IF k = FreshRow THEN r ELSE rows[k]] /\ FreshRow \notin DOMAIN rows
        BY <1>2 DEF Inserts
    <2> HIDE DEF done
    <2> QED BY <2>1 DEF done
<1>3. ASSUME NEW i \in DOMAIN rows, Updates(s, r, done, i)
      PROVE  \A j \in DOMAIN rows : \A k \in KeyColumns : done.rows[j][k] = rows[j][k]
    <2>1. done.rows = [rows EXCEPT ![i] = Changed(s, r, i)]
        BY <1>3 DEF Updates
    <2>2. \A k \in KeyColumns : Changed(s, r, i)[k] = rows[i][k]
        BY KeysAreColumns DEF Changed, Tables
    <2> HIDE DEF done
    <2> QED BY <2>1, <2>2
<1>4. Leaves(s, r, done) \/ Inserts(s, r, done) \/ \E i \in DOMAIN rows : Updates(s, r, done, i)
    BY Executed DEF Tables
<1> HIDE DEF done
<1>5. QED BY <1>1, <1>2, <1>3, <1>4 DEF done

LEMMA KeysKept ==
    ASSUME Tables, [Next]_vars, ~SetsRelationKeys
    PROVE  \A i \in DOMAIN rows \cap DOMAIN rows' : \A k \in KeyColumns : rows'[i][k] = rows[i][k]
<1>1. CASE Write
    <2>1. PICK args : Arguments(args, statement.columns) /\ Run("write", statement, args)
        BY <1>1, WriteParts DEF Tables
    <2>2. statement.updates \cap KeyColumns = {}
        BY WriterFits DEF Tables, TypeOK, StatementFits
    <2>3. NewRow(args) \in [ColumnNames -> Nat]
        BY <2>1, NewRows
    <2>4. rows' = Execute(statement, NewRow(args)).rows
        BY <2>1, RunParts
    <2> QED BY <2>2, <2>3, <2>4, KeysOfRows
<1>2. CASE InsertValues
    <2> DEFINE s == ValuesOf[case.schema]
    <2>1. PICK args : Arguments(args, s.columns) /\ Run("values", s, args)
        BY <1>2, InsertValuesParts DEF Tables
    <2>2. s.updates \cap KeyColumns = {}
        BY <1>2, InsertValuesParts DEF Tables
    <2>3. NewRow(args) \in [ColumnNames -> Nat]
        BY <2>1, NewRows
    <2>4. rows' = Execute(s, NewRow(args)).rows
        BY <2>1, RunParts
    <2> QED BY <2>2, <2>3, <2>4, KeysOfRows
<1>3. CASE DeleteChildren
    BY <1>3, DeleteParts
<1>4. CASE UNCHANGED vars
    BY <1>4 DEF vars
<1> QED BY <1>1, <1>2, <1>3, <1>4 DEF Next

LEMMA KeysAreNew ==
    ASSUME Tables, [Next]_vars, autoIncrement(entity), last'.op = "write"
    PROVE  \A i \in DOMAIN rows' \ DOMAIN rows : \A k \in KeyColumns : rows'[i][k] > given
<1>1. CASE Write
    <2>1. PICK args : Arguments(args, statement.columns) /\ Run("write", statement, args)
        BY <1>1, WriteParts DEF Tables
    <2> DEFINE r    == NewRow(args)
               done == Execute(statement, r)
    <2>2. rows' = done.rows
        BY <2>1, RunParts
    <2>3. \A k \in KeyColumns : r[k] = given + 1
        <3>1. PICK c \in Cols : c.auto /\ IsRowid(c) /\ KeyColumns = {c.name} /\ c.name \notin statement.columns
            BY TableFits, WriterFits DEF Tables, TypeOK, ColumnsFit, StatementFits
        <3>2. r[c.name] = NextKey
            BY <2>1, <3>1, NewRowParts DEF Tables
        <3>3. NextKey = given + 1
            BY <3>1, NextKeyIsNew DEF Tables
        <3> QED BY <3>1, <3>2, <3>3
    <2>4. given \in Nat
        BY DEF Tables, TypeOK
    <2> HIDE DEF r
    <2>5. CASE DOMAIN done.rows \subseteq DOMAIN rows
        BY <2>2, <2>5
    <2>6. CASE Inserts(statement, r, done)
        <3>1. done.rows = [k \in DOMAIN rows \cup {FreshRow} |-> IF k = FreshRow THEN r ELSE rows[k]]
            BY <2>6 DEF Inserts
        <3>2. \A i \in DOMAIN done.rows \ DOMAIN rows : done.rows[i] = r
            BY <3>1
        <3> HIDE DEF done
        <3> QED BY <2>2, <2>3, <2>4, <3>2
    <2>7. ASSUME NEW i, Updates(statement, r, done, i) PROVE DOMAIN done.rows \subseteq DOMAIN rows
        BY <2>7 DEF Updates
    <2>8. Leaves(statement, r, done) => DOMAIN done.rows \subseteq DOMAIN rows
        BY DEF Leaves
    <2> QED BY <2>5, <2>6, <2>7, <2>8, Executed DEF Tables
<1>2. CASE InsertValues
    <2>1. last'.op = "values"
        BY <1>2, InsertValuesParts, RunParts DEF Tables
    <2> QED BY <2>1
<1>3. CASE DeleteChildren
    BY <1>3, DeleteParts
<1>4. CASE UNCHANGED vars
    BY <1>4 DEF vars
<1> QED BY <1>1, <1>2, <1>3, <1>4 DEF Next

-----------------------------------------------------------------------------
(* What a row that a call would add has in common with the call.                      *)

\* A value is given to every column that needs one.
Complete(cols, args) == \A c \in cols : c.notNull =>
    IF c.name \in DOMAIN args THEN args[c.name] # Null \/ IsRowid(c) ELSE c.default \/ IsRowid(c)

\* Row i has the values of a call in the columns of u.
Agrees(cols, rs, i, u, args) == \A c \in cols : c.name \in u =>
    /\ rs[i][c.name] # Null
    /\ rs[i][c.name] = IF c.name \in DOMAIN args THEN args[c.name] ELSE DefaultValue
    /\ c.name \in DOMAIN args \/ (c.default /\ ~IsRowid(c))

LEMMA IncompleteRow ==
    ASSUME Tables, NEW cols, NEW args, Arguments(args, cols)
    PROVE  Incomplete(NewRow(args)) <=> ~Complete(Cols, args)
<1> DEFINE r == NewRow(args)
<1>1. \A c \in Cols : r[c.name] =
          IF c.name \in cols /\ (IsRowid(c) => args[c.name] # Null) THEN args[c.name]
          ELSE IF IsRowid(c) THEN NextKey
          ELSE IF c.default /\ c.name \notin cols THEN DefaultValue
          ELSE Null
    BY NewRowParts DEF Tables
<1>2. NextKey # Null /\ DefaultValue # Null
    <2>1. NextKey \in Nat \ {0}
        BY NextKeyIsNew DEF Tables
    <2>2. DefaultValue \in Values /\ Null \notin Values
        BY WritersAssumption DEF DefaultValue
    <2> QED BY <2>1, <2>2 DEF Null
<1>3. DOMAIN args = cols
    BY DEF Arguments
<1>4. \A c \in Cols : r[c.name] = Null <=>
          ~(IF c.name \in cols THEN args[c.name] # Null \/ IsRowid(c) ELSE c.default \/ IsRowid(c))
    BY <1>1, <1>2
<1> HIDE DEF r
<1>5. QED BY <1>3, <1>4 DEF Incomplete, Complete, Cols, r

LEMMA SameAsNew ==
    ASSUME Tables, NEW cols, NEW args, Arguments(args, cols), NEW i \in DOMAIN rows,
           NEW u \in SUBSET ColumnNames, Same(rows[i], NewRow(args), u)
    PROVE  Agrees(Cols, rows, i, u, args)
<1> DEFINE r == NewRow(args)
<1> SUFFICES ASSUME NEW c \in Cols, c.name \in u
             PROVE  /\ rows[i][c.name] # Null
                    /\ rows[i][c.name] = IF c.name \in cols THEN args[c.name] ELSE DefaultValue
                    /\ c.name \in cols \/ (c.default /\ ~IsRowid(c))
    BY DEF Agrees, Arguments
<1>1. r[c.name] =
          IF c.name \in cols /\ (IsRowid(c) => args[c.name] # Null) THEN args[c.name]
          ELSE IF IsRowid(c) THEN NextKey
          ELSE IF c.default /\ c.name \notin cols THEN DefaultValue
          ELSE Null
    BY NewRowParts DEF Tables
<1>2. rows[i][c.name] = r[c.name] /\ rows[i][c.name] # Null
    BY DEF Same
<1>3. IsRowid(c) => r[c.name] # NextKey
    <2>1. IsRowid(c) => rows[i][c.name] < NextKey
        BY NextKeyIsNew DEF Tables
    <2>2. rows[i][c.name] \in Nat /\ NextKey \in Nat
        BY NextKeyIsNew DEF Tables, TypeOK, Cols, ColumnNames
    <2> QED BY <1>2, <2>1, <2>2
<1> HIDE DEF r
<1>4. QED BY <1>1, <1>2, <1>3

\* A row that has the values of a call would meet the row of the call.
LEMMA NewAsOld ==
    ASSUME Tables, NEW cols, NEW args, Arguments(args, cols), NEW i \in DOMAIN rows,
           NEW u \in SUBSET ColumnNames, Agrees(Cols, rows, i, u, args)
    PROVE  Same(rows[i], NewRow(args), u)
<1> DEFINE r == NewRow(args)
<1> SUFFICES ASSUME NEW n \in u PROVE rows[i][n] = r[n] /\ rows[i][n] # Null
    BY DEF Same
<1>1. PICK c \in Cols : c.name = n
    BY DEF Cols, ColumnNames
<1>2. r[c.name] =
          IF c.name \in cols /\ (IsRowid(c) => args[c.name] # Null) THEN args[c.name]
          ELSE IF IsRowid(c) THEN NextKey
          ELSE IF c.default /\ c.name \notin cols THEN DefaultValue
          ELSE Null
    BY NewRowParts DEF Tables
<1>3. /\ rows[i][c.name] # Null
      /\ rows[i][c.name] = IF c.name \in cols THEN args[c.name] ELSE DefaultValue
      /\ c.name \in cols \/ (c.default /\ ~IsRowid(c))
    BY <1>1 DEF Agrees, Arguments
<1> HIDE DEF r
<1>4. QED BY <1>1, <1>2, <1>3

\* A column that is unique and not set is manual, or of a key that the database gives.
LEMMA NotSet ==
    ASSUME TypeOK, NEW c \in Cols, c.name \notin statement.columns
    PROVE  IsRowid(c) \/ c.name \in ManualColumns
<1>1. PICK f \in Fields : c = columnOf(models, entity, f) /\ c.name = columnName(f)
    BY ColumnOf DEF TypeOK
<1>2. f \notin writable(entity)
    BY <1>1, WriterFits DEF TypeOK, StatementFits, columns
<1>3. CASE f.manual
    BY <1>1, <1>3 DEF ManualColumns
<1>4. CASE autoIncrement(entity) /\ f.pk
    <2>1. KeyFields(entity) = {f} /\ f.type = "integer"
        BY <1>4 DEF autoIncrement, KeyFields, Fields
    <2>2. f.rel # "belongsTo"
        BY <2>1, FieldsFit DEF TypeOK
    <2>3. columnOf(models, entity, f).key /\ columnOf(models, entity, f).integer
        BY <2>1, <2>2 DEF columnOf, identityColumn, scalarType, Integer
    <2> QED BY <1>1, <2>3 DEF IsRowid
<1> QED BY <1>2, <1>3, <1>4 DEF writable, Fields

\* A row that a new one would clash with has values of the call in common with it.
LEMMA UniqueSet ==
    ASSUME Tables, ~ManualUnique, NEW args, Arguments(args, statement.columns), NEW i \in DOMAIN rows,
           NEW u \in uniqueSets, Agrees(Cols, rows, i, u, args)
    PROVE  u \cap DOMAIN args # {}
<1> SUFFICES ASSUME u \cap DOMAIN args = {} PROVE FALSE
    OBVIOUS
<1>1. u \subseteq ColumnNames /\ DOMAIN args = statement.columns
    BY UniqueSetsFit DEF Tables, TypeOK, Arguments
<1>2. u \subseteq ManualColumns
    <2> SUFFICES ASSUME NEW n \in u PROVE n \in ManualColumns
        OBVIOUS
    <2>1. PICK c \in Cols : c.name = n
        BY <1>1 DEF Cols, ColumnNames
    <2>2. ~IsRowid(c) /\ c.name \notin statement.columns
        BY <1>1, <2>1 DEF Agrees
    <2> QED BY <2>1, <2>2, NotSet DEF Tables
<1> QED BY <1>2 DEF ManualUnique, ManualColumns, Fields

-----------------------------------------------------------------------------
(* What a call leaves.                                                                  *)

KeyOf(s) == CHOOSE c \in s.returning : TRUE

\* Row i has all that a call was made with, but what the database filled in, and
\* the call returned its key.
Settles(s, keys, rs, i, args, id) ==
    /\ \A c \in DOMAIN args : c \in s.updates \cup s.conflict /\ (c \in keys => args[c] # Null) => rs[i][c] = args[c]
    /\ id = IF s.returning = {} THEN {} ELSE {rs[i][KeyOf(s)]}

KeysHit(s, done) == {done.rows[i][KeyOf(s)] : i \in done.hit}

LEMMA AnswerOfHit ==
    ASSUME NEW s, NEW args, NEW done, done.ok = TRUE, done.hit # {}
    PROVE  /\ s.returning = {} => Answer(s, args, done) = {}
           /\ s.returning # {} => Answer(s, args, done) = KeysHit(s, done)
BY DEF Answer, KeyOf, KeysHit

KeptBy(s, args) == {i \in DOMAIN rows : \A c \in s.conflict : rows[i][c] = args[c]}

LEMMA AnswerOfNone ==
    ASSUME NEW s, NEW args, NEW done, done.ok = TRUE, done.hit = {}
    PROVE  /\ s.returning = {} => Answer(s, args, done) = {}
           /\ s.returning # {} /\ case.backend = "rusqlite" /\ s.updates = {} /\ s.conflict # {}
                  => Answer(s, args, done) = {rows[i][KeyOf(s)] : i \in KeptBy(s, args)}
           /\ s.returning # {} /\ ~(case.backend = "rusqlite" /\ s.updates = {} /\ s.conflict # {})
                  => Answer(s, args, done) = {}
BY DEF Answer, KeyOf, KeptBy

LEMMA ArgumentsOfRow ==
    ASSUME Tables, NEW cols, NEW args, Arguments(args, cols), NEW n \in cols,
           n \in KeyColumns => args[n] # Null
    PROVE  NewRow(args)[n] = args[n]
<1>1. PICK c \in Cols : c.name = n
    BY DEF Arguments, Cols, ColumnNames
<1>2. IsRowid(c) => n \in KeyColumns
    BY <1>1, TableFits DEF Tables, TypeOK, ColumnsFit
<1>3. NewRow(args)[c.name] =
          IF c.name \in cols /\ (IsRowid(c) => args[c.name] # Null) THEN args[c.name]
          ELSE IF IsRowid(c) THEN NextKey
          ELSE IF c.default /\ c.name \notin cols THEN DefaultValue
          ELSE Null
    BY NewRowParts DEF Tables
<1> QED BY <1>1, <1>2, <1>3

\* The columns that a row met the call by.
LEMMA MetBy ==
    ASSUME Tables, NEW cols, NEW args, Arguments(args, cols), NEW i \in DOMAIN rows,
           NEW u \in SUBSET ColumnNames, Same(rows[i], NewRow(args), u)
    PROVE  \A n \in u \cap cols : rows[i][n] = args[n] /\ args[n] # Null
<1>1. Agrees(Cols, rows, i, u, args)
    BY SameAsNew
<1> SUFFICES ASSUME NEW n \in u \cap cols PROVE rows[i][n] = args[n] /\ args[n] # Null
    OBVIOUS
<1>2. PICK c \in Cols : c.name = n
    BY DEF Cols, ColumnNames
<1> QED BY <1>1, <1>2 DEF Agrees, Arguments

LEMMA Kept ==
    ASSUME Tables, NEW cols, NEW args, Arguments(args, cols), NEW i \in DOMAIN rows,
           NEW u \in uniqueSets, Same(rows[i], NewRow(args), u), u \subseteq cols
    PROVE  {j \in DOMAIN rows : \A c \in u : rows[j][c] = args[c]} = {i}
<1>1. u \in SUBSET ColumnNames
    BY UniqueSetsFit DEF Tables, TypeOK
<1>2. \A n \in u : rows[i][n] = args[n] /\ args[n] # Null
    BY <1>1, MetBy
<1>3. ASSUME NEW j \in DOMAIN rows, \A c \in u : rows[j][c] = args[c]
      PROVE  j = i
    <2>1. Same(rows[j], rows[i], u)
        BY <1>2, <1>3 DEF Same
    <2> QED BY <2>1 DEF Tables, Distinct
<1> QED BY <1>2, <1>3

LEMMA UpsertSettles ==
    ASSUME Tables, case.strategy = "upsert", NEW args, Arguments(args, statement.columns),
           Execute(statement, NewRow(args)).ok,
           LET id == Answer(statement, args, Execute(statement, NewRow(args)))
           IN statement.returning # {} => id # {}
    PROVE  LET done == Execute(statement, NewRow(args))
               id   == Answer(statement, args, done)
           IN /\ ~Malformed(statement) /\ ~Incomplete(NewRow(args))
              /\ \E i \in DOMAIN done.rows : Settles(statement, KeyColumns, done.rows, i, args, id)
<1> DEFINE s    == statement
           r    == NewRow(args)
           done == Execute(s, r)
           id   == Answer(s, args, done)
<1>1. /\ s.columns \subseteq ColumnNames /\ s.conflict \subseteq ColumnNames /\ s.orIgnore = FALSE
      /\ s.conflict # {} => s.conflict \in uniqueSets
      /\ s.updates \subseteq s.columns \ s.conflict
      /\ case.backend = "rusqlite" /\ s.returning # {} /\ s.updates = {} => s.conflict \subseteq s.columns
    BY WriterFits DEF StatementFits, Tables, TypeOK
<1>2. DOMAIN args = s.columns /\ r \in [ColumnNames -> Nat]
    BY NewRows DEF Arguments
<1>3. \A c \in s.columns : (c \in KeyColumns => args[c] # Null) => r[c] = args[c]
    BY ArgumentsOfRow
<1>4. \/ Leaves(s, r, done)
      \/ Inserts(s, r, done) /\ ~Malformed(s) /\ ~Incomplete(r)
      \/ \E i \in DOMAIN rows : Updates(s, r, done, i) /\ ~Malformed(s) /\ ~Incomplete(r)
    BY Executed DEF Tables
<1>5. done.ok /\ (s.returning # {} => id # {})
    OBVIOUS
<1>6. \A i \in DOMAIN rows : Same(rows[i], r, s.conflict) =>
          \A c \in s.conflict \cap s.columns : rows[i][c] = args[c]
    BY <1>1, MetBy
<1>7. ASSUME NEW i \in DOMAIN rows, Same(rows[i], r, s.conflict), s.conflict # {},
             case.backend = "rusqlite", s.returning # {}, s.updates = {}
      PROVE  {j \in DOMAIN rows : \A c \in s.conflict : rows[j][c] = args[c]} = {i}
    BY <1>1, <1>7, Kept
<1> SUFFICES /\ ~Malformed(s) /\ ~Incomplete(r)
             /\ \E i \in DOMAIN done.rows : Settles(s, KeyColumns, done.rows, i, args, id)
    OBVIOUS
<1> HIDE DEF s, r, done
<1>8. CASE Inserts(s, r, done) /\ ~Malformed(s) /\ ~Incomplete(r)
    <2>1. done.ok = TRUE /\ done.hit = {FreshRow} /\ FreshRow \in DOMAIN done.rows /\ done.rows[FreshRow] = r
        BY <1>8 DEF Inserts
    <2>2. id = IF s.returning = {} THEN {} ELSE {done.rows[FreshRow][KeyOf(s)]}
        <3>1. s.returning = {} => id = {}
            BY <2>1, AnswerOfHit
        <3>2. s.returning # {} => id = KeysHit(s, done)
            BY <2>1, AnswerOfHit
        <3>3. KeysHit(s, done) = {done.rows[FreshRow][KeyOf(s)]}
            BY <2>1 DEF KeysHit
        <3> QED BY <3>1, <3>2, <3>3
    <2> HIDE DEF id
    <2>3. Settles(s, KeyColumns, done.rows, FreshRow, args, id)
        BY <1>2, <1>3, <2>1, <2>2 DEF Settles
    <2> QED BY <1>8, <2>1, <2>3
<1>9. ASSUME NEW i \in DOMAIN rows, Updates(s, r, done, i), ~Malformed(s), ~Incomplete(r)
      PROVE  \E j \in DOMAIN done.rows : Settles(s, KeyColumns, done.rows, j, args, id)
    <2>1. /\ done.ok = TRUE /\ done.hit = {i} /\ i \in DOMAIN done.rows /\ done.rows[i] = Changed(s, r, i)
          /\ i \in Meets(r, s.conflict)
        BY <1>9 DEF Updates
    <2>2. id = IF s.returning = {} THEN {} ELSE {done.rows[i][KeyOf(s)]}
        <3>1. s.returning = {} => id = {}
            BY <2>1, AnswerOfHit
        <3>2. s.returning # {} => id = KeysHit(s, done)
            BY <2>1, AnswerOfHit
        <3>3. KeysHit(s, done) = {done.rows[i][KeyOf(s)]}
            BY <2>1 DEF KeysHit
        <3> QED BY <3>1, <3>2, <3>3
    <2>3. \A c \in s.conflict \cap s.columns : rows[i][c] = args[c]
        BY <1>6, <2>1, Met
    <2>4. \A c \in s.columns : c \in s.updates \cup s.conflict /\ (c \in KeyColumns => args[c] # Null)
                                   => Changed(s, r, i)[c] = args[c]
        BY <1>1, <1>3, <2>3 DEF Changed
    <2> HIDE DEF id
    <2>5. Settles(s, KeyColumns, done.rows, i, args, id)
        BY <1>2, <2>1, <2>2, <2>4 DEF Settles
    <2> QED BY <2>1, <2>5
<1>10. CASE Leaves(s, r, done)
    <2>1. /\ done.rows = rows /\ done.hit = {} /\ ~Malformed(s) /\ ~Incomplete(r) /\ done.ok = TRUE
          /\ s.conflict # {} /\ s.updates = {} /\ Meets(r, s.conflict) # {}
        BY <1>1, <1>5, <1>10 DEF Leaves
    <2>2. PICK i \in DOMAIN rows : Same(rows[i], r, s.conflict)
        BY <2>1, Met
    <2>3. \A c \in s.conflict \cap s.columns : rows[i][c] = args[c]
        BY <1>6, <2>2
    <2>4. id = IF s.returning = {} THEN {} ELSE {rows[i][KeyOf(s)]}
        <3>1. CASE s.returning = {}
            BY <2>1, <3>1, AnswerOfNone
        <3>2. CASE s.returning # {}
            <4>1. case.backend = "rusqlite"
                BY <1>5, <2>1, <3>2, AnswerOfNone
            <4>2. id = {rows[j][KeyOf(s)] : j \in KeptBy(s, args)}
                BY <2>1, <3>2, <4>1, AnswerOfNone
            <4>3. KeptBy(s, args) = {i}
                BY <1>7, <2>1, <2>2, <3>2, <4>1 DEF KeptBy
            <4> QED BY <3>2, <4>2, <4>3
        <3> QED BY <3>1, <3>2
    <2> HIDE DEF id
    <2>5. Settles(s, KeyColumns, done.rows, i, args, id)
        BY <1>2, <2>1, <2>3, <2>4 DEF Settles
    <2> QED BY <2>1, <2>5
<1> QED BY <1>4, <1>8, <1>9, <1>10

\* What the statement may be at fault for.
AtFault == \/ NoRowReturned \/ NotCalledId \/ ManualMissing \/ ManualUnique \/ NamedAsKey
           \/ Undeclared \/ NoColumns(statement)

\* Row i holds what the call would have had to itself.
InTheWay(s, keys, rs, i, u, args) ==
    /\ u # s.conflict /\ u \cap DOMAIN args # {}
    /\ \A c \in u \cap DOMAIN args :
          \/ rs[i][c] = args[c]
          \/ c \in keys /\ \E j \in DOMAIN rs \ {i} :
                rs[j][c] = rs[i][c] /\ \A d \in s.conflict \cap DOMAIN args : rs[j][d] = args[d]

\* A new row is refused for another one, which holds what is unique.
LEMMA RefusedNew ==
    ASSUME Tables, ~AtFault, NEW args, Arguments(args, statement.columns),
           NEW i \in DOMAIN rows, NEW u \in uniqueSets, u # statement.conflict,
           Same(rows[i], NewRow(args), u)
    PROVE  InTheWay(statement, KeyColumns, rows, i, u, args)
<1>1. u \in SUBSET ColumnNames /\ DOMAIN args = statement.columns
    BY UniqueSetsFit DEF Tables, TypeOK, Arguments
<1>2. u \cap DOMAIN args # {}
    BY <1>1, SameAsNew, UniqueSet DEF AtFault
<1>3. \A c \in u \cap DOMAIN args : rows[i][c] = args[c]
    BY <1>1, MetBy
<1> QED BY <1>2, <1>3 DEF InTheWay

\* A row that a call met is not changed for another one, which holds what is unique.
LEMMA RefusedChange ==
    ASSUME Tables, ~AtFault, case.strategy = "upsert", NEW args, Arguments(args, statement.columns),
           NEW i \in DOMAIN rows, Same(rows[i], NewRow(args), statement.conflict), statement.conflict # {},
           NEW j \in DOMAIN rows \ {i}, NEW u \in uniqueSets,
           Same(rows[j], Changed(statement, NewRow(args), i), u)
    PROVE  InTheWay(statement, KeyColumns, rows, j, u, args)
<1> DEFINE s    == statement
           r    == NewRow(args)
           next == Changed(s, r, i)
<1>1. /\ s.columns \subseteq ColumnNames /\ s.conflict \subseteq ColumnNames /\ s.conflict \in uniqueSets
      /\ s.updates \subseteq s.columns \ s.conflict
      /\ (s.columns \ KeyColumns) \ s.updates \subseteq s.conflict
    BY WriterFits DEF StatementFits, Tables, TypeOK, AtFault
<1>2. u \subseteq ColumnNames /\ DOMAIN args = s.columns
    BY UniqueSetsFit DEF Tables, TypeOK, Arguments
<1>3. \A c \in ColumnNames : next[c] = IF c \in s.updates THEN r[c] ELSE rows[i][c]
    BY DEF Changed
<1>4. \A c \in u : rows[j][c] = next[c] /\ next[c] # Null
    BY DEF Same
<1>5. \A c \in s.conflict \cap s.columns : rows[i][c] = args[c]
    BY <1>1, MetBy
<1>6. ~Same(rows[j], rows[i], u)
    BY DEF Tables, Distinct
<1>7. u # s.conflict /\ u \cap s.columns # {}
    <2> SUFFICES ASSUME u \cap s.updates = {} PROVE FALSE
        BY <1>1
    <2>1. \A c \in u : rows[j][c] = rows[i][c] /\ rows[j][c] # Null
        BY <1>2, <1>3, <1>4
    <2> QED BY <1>6, <2>1 DEF Same
<1>8. ASSUME NEW c \in u \cap s.columns, c \in s.updates
      PROVE  rows[j][c] = args[c]
    <2>1. rows[j][c] = r[c] /\ rows[j][c] # Null
        BY <1>2, <1>3, <1>4, <1>8
    <2>2. Same(rows[j], r, {c})
        BY <2>1 DEF Same
    <2> QED BY <1>2, <1>8, <2>2, MetBy
<1>9. ASSUME NEW c \in u \cap s.columns, c \notin s.updates
      PROVE  \/ rows[j][c] = args[c]
             \/ c \in KeyColumns /\ rows[i][c] = rows[j][c]
    <2>1. rows[j][c] = rows[i][c]
        BY <1>2, <1>3, <1>4, <1>9
    <2>2. c \in KeyColumns \/ c \in s.conflict
        BY <1>1, <1>9
    <2> QED BY <1>5, <1>9, <2>1, <2>2
<1> HIDE DEF s, r, next
<1>10. i \in DOMAIN rows \ {j}
    OBVIOUS
<1>11. ASSUME NEW c \in u \cap s.columns
       PROVE  \/ rows[j][c] = args[c]
              \/ c \in KeyColumns /\ \E l \in DOMAIN rows \ {j} :
                    rows[l][c] = rows[j][c] /\ \A d \in s.conflict \cap s.columns : rows[l][d] = args[d]
    BY <1>5, <1>8, <1>9, <1>10
<1>12. InTheWay(s, KeyColumns, rows, j, u, args)
    BY <1>2, <1>7, <1>11 DEF InTheWay
<1> QED BY <1>12 DEF s

\* A call that fails leaves the table alone, with a row in the way of the call.
LEMMA Refused ==
    ASSUME Tables, ~AtFault, NEW args, Arguments(args, statement.columns),
           \A c \in statement.columns : args[c] = Null => c \in NullsOf(entity),
           LET done == Execute(statement, NewRow(args))  id == Answer(statement, args, done)
           IN ~(done.ok /\ (statement.returning # {} => id # {}))
    PROVE  /\ Execute(statement, NewRow(args)).rows = rows
           /\ \E i \in DOMAIN rows, u \in uniqueSets : InTheWay(statement, KeyColumns, rows, i, u, args)
<1> DEFINE s    == statement
           r    == NewRow(args)
           done == Execute(s, r)
           id   == Answer(s, args, done)
<1>1. /\ s.columns \subseteq ColumnNames /\ s.conflict \subseteq ColumnNames
      /\ s.orIgnore = (case.strategy # "upsert")
      /\ s.conflict # {} => s.conflict \in uniqueSets
      /\ case.strategy # "upsert" => s.conflict = {} /\ s.updates = {}
      /\ s.returning # {} => \E key : s.returning = {key} /\ KeyColumns = {key}
      /\ s.returning # {} => returnsId(entity, case.strategy)
      /\ case.backend = "rusqlite" /\ s.returning # {} /\ s.updates = {} => s.conflict \subseteq s.columns
    BY WriterFits DEF StatementFits, Tables, TypeOK, AtFault
<1>2. ~Malformed(s)
    <2>1. ~Undeclared /\ ~NoColumns(s)
        BY DEF AtFault
    <2>2. s.returning \subseteq ColumnNames
        BY <1>1, KeysAreColumns DEF Tables
    <2> QED BY <1>1, <2>1, <2>2 DEF Malformed
<1>3. ~Incomplete(r)
    <2>1. Complete(Cols, args)
        <3> SUFFICES ASSUME NEW c \in Cols, c.notNull
                     PROVE  IF c.name \in s.columns THEN args[c.name] # Null \/ IsRowid(c)
                            ELSE c.default \/ IsRowid(c)
            BY DEF Complete, Arguments
        <3>1. c.name \notin NullsOf(entity)
            BY TableFits DEF Tables, TypeOK, ColumnsFit
        <3>2. c.name \in s.columns \/ c.default
            BY DEF AtFault, ManualMissing, Cols
        <3> QED BY <3>1, <3>2
    <2> QED BY <2>1, IncompleteRow
<1>4. \A u \in uniqueSets : u # {}
    BY UniqueSetsFit DEF Tables, TypeOK
<1>5. \/ Leaves(s, r, done)
      \/ Inserts(s, r, done)
      \/ \E i \in DOMAIN rows : Updates(s, r, done, i)
    BY Executed DEF Tables
<1>6. ~(done.ok /\ (s.returning # {} => id # {}))
    OBVIOUS
<1>7. ASSUME NEW i \in DOMAIN rows, Same(rows[i], r, s.conflict), s.conflict # {},
             case.backend = "rusqlite", s.returning # {}, s.updates = {}
      PROVE  KeptBy(s, args) = {i}
    BY <1>1, <1>7, Kept DEF KeptBy
<1>8. ASSUME NEW i \in DOMAIN rows, NEW u \in uniqueSets, u # s.conflict, Same(rows[i], r, u)
      PROVE  InTheWay(s, KeyColumns, rows, i, u, args)
    BY <1>8, RefusedNew
<1>9. ASSUME NEW i \in DOMAIN rows, Same(rows[i], r, s.conflict), s.conflict # {}, s.updates # {},
             NEW j \in DOMAIN rows \ {i}, NEW u \in uniqueSets, Same(rows[j], Changed(s, r, i), u)
      PROVE  InTheWay(s, KeyColumns, rows, j, u, args)
    BY <1>1, <1>9, RefusedChange
<1> SUFFICES done.rows = rows /\ \E i \in DOMAIN rows, u \in uniqueSets : InTheWay(s, KeyColumns, rows, i, u, args)
    OBVIOUS
<1> HIDE DEF s, r, done
<1>10. ASSUME done.ok = TRUE, NEW i, done.hit = {i} PROVE FALSE
    <2>1. s.returning # {} => id = KeysHit(s, done)
        BY <1>10, AnswerOfHit
    <2>2. KeysHit(s, done) # {}
        BY <1>10 DEF KeysHit
    <2> QED BY <1>6, <1>10, <2>1, <2>2
<1>11. CASE Inserts(s, r, done)
    BY <1>10, <1>11 DEF Inserts
<1>12. ASSUME NEW i \in DOMAIN rows, Updates(s, r, done, i) PROVE FALSE
    BY <1>10, <1>12 DEF Updates
<1>13. CASE Leaves(s, r, done)
    <2>1. done.rows = rows /\ done.hit = {}
        BY <1>13 DEF Leaves
    <2>2. CASE done.ok = s.orIgnore /\ Clashes(r, {}) # {} /\ (s.conflict # {} => Meets(r, s.conflict) = {})
        <3>1. PICK u \in uniqueSets, i \in DOMAIN rows : Same(rows[i], r, u)
            BY <2>2, AClash
        <3>2. u # s.conflict
            BY <1>4, <2>2, <3>1, Met
        <3> QED BY <1>8, <2>1, <3>1, <3>2
    <2>3. CASE done.ok = TRUE /\ s.conflict # {} /\ s.updates = {} /\ Meets(r, s.conflict) # {}
        <3>1. PICK i \in DOMAIN rows : Same(rows[i], r, s.conflict)
            BY <2>3, Met
        <3>2. s.returning # {} /\ id = {}
            BY <1>6, <2>3
        <3>3. case.backend = "rusqlite"
            BY <1>1, <2>3, <3>2 DEF AtFault, NoRowReturned, s
        <3>4. id = {rows[l][KeyOf(s)] : l \in KeptBy(s, args)}
            BY <2>1, <2>3, <3>2, <3>3, AnswerOfNone
        <3>5. KeptBy(s, args) = {i}
            BY <1>7, <2>3, <3>1, <3>2, <3>3
        <3> QED BY <3>2, <3>4, <3>5
    <2>4. CASE s.conflict # {} /\ s.updates # {} /\ \E i \in Meets(r, s.conflict) : Clashes(Changed(s, r, i), {i}) # {}
        <3>1. PICK i \in DOMAIN rows : Same(rows[i], r, s.conflict) /\ Clashes(Changed(s, r, i), {i}) # {}
            BY <2>4, Met
        <3>2. PICK u \in uniqueSets, j \in DOMAIN rows \ {i} : Same(rows[j], Changed(s, r, i), u)
            BY <3>1, AClash
        <3> QED BY <1>9, <2>1, <2>4, <3>1, <3>2
    <2> QED BY <1>2, <1>3, <1>13, <2>2, <2>3, <2>4 DEF Leaves
<1> QED BY <1>5, <1>11, <1>12, <1>13

-----------------------------------------------------------------------------
(* The inductive invariant: the table, and what the last call left in it.              *)

\* A row has what is unique in the call.
Holds(cols, us, rs, args) == \E i \in DOMAIN rs : \E u \in us : Agrees(cols, rs, i, u, args)

LastCall == last.op = "write" =>
    /\ Arguments(last.args, statement.columns)
    /\ last.ok => ~Malformed(statement)
    /\ last.ok /\ case.strategy = "upsert" =>
          /\ Complete(Cols, last.args)
          /\ \E i \in DOMAIN rows : Settles(statement, KeyColumns, rows, i, last.args, last.id)
    /\ last.ok /\ case.strategy # "upsert" /\ Complete(Cols, last.args) =>
          \/ Holds(Cols, uniqueSets, rows, last.args)
          \/ \E i \in DOMAIN rows : \A c \in Cols : c.name \in DOMAIN last.args /\ last.args[c.name] # Null
                                                      => rows[i][c.name] = last.args[c.name]
    /\ last.ok /\ case.strategy # "upsert" => last.id = {}
    /\ ~last.ok => AtFault \/ \E i \in DOMAIN rows, u \in uniqueSets : InTheWay(statement, KeyColumns, rows, i, u, last.args)

IInv == Tables /\ LastCall

\* A row that was not there before is one with what the call gave.
LEMMA IgnoredOrStored ==
    ASSUME Tables, case.strategy # "upsert", NEW args, Arguments(args, statement.columns),
           Execute(statement, NewRow(args)).ok, Complete(Cols, args)
    PROVE  LET rs == Execute(statement, NewRow(args)).rows IN
           \/ rs = rows /\ Holds(Cols, uniqueSets, rows, args)
           \/ \E i \in DOMAIN rs : \A c \in Cols : c.name \in DOMAIN args /\ args[c.name] # Null
                                                      => rs[i][c.name] = args[c.name]
<1> DEFINE s    == statement
           r    == NewRow(args)
           done == Execute(s, r)
<1>1. s.conflict = {} /\ s.updates = {} /\ DOMAIN args = s.columns
    BY WriterFits DEF StatementFits, Tables, TypeOK, Arguments
<1>2. ~Incomplete(r)
    BY IncompleteRow
<1>3. \/ Leaves(s, r, done)
      \/ Inserts(s, r, done)
      \/ \E i \in DOMAIN rows : Updates(s, r, done, i)
    BY Executed DEF Tables
<1>4. \A c \in Cols : c.name \in s.columns /\ args[c.name] # Null => r[c.name] = args[c.name]
    BY ArgumentsOfRow
<1>5. ASSUME NEW i \in DOMAIN rows, NEW u \in uniqueSets, Same(rows[i], r, u)
      PROVE  Agrees(Cols, rows, i, u, args)
    BY <1>5, SameAsNew, UniqueSetsFit DEF Tables, TypeOK
<1>6. done.ok
    OBVIOUS
<1> SUFFICES \/ done.rows = rows /\ Holds(Cols, uniqueSets, rows, args)
             \/ \E i \in DOMAIN done.rows : \A c \in Cols : c.name \in DOMAIN args /\ args[c.name] # Null
                                                      => done.rows[i][c.name] = args[c.name]
    OBVIOUS
<1> HIDE DEF s, r, done
<1>7. CASE Leaves(s, r, done)
    <2>1. done.rows = rows /\ Clashes(r, {}) # {}
        BY <1>1, <1>2, <1>6, <1>7 DEF Leaves
    <2>2. PICK u \in uniqueSets, i \in DOMAIN rows : Same(rows[i], r, u)
        BY <2>1, AClash
    <2> QED BY <1>5, <2>1, <2>2 DEF Holds
<1>8. CASE Inserts(s, r, done)
    <2>1. FreshRow \in DOMAIN done.rows /\ done.rows[FreshRow] = r
        BY <1>8 DEF Inserts
    <2> QED BY <1>1, <1>4, <2>1
<1>9. ASSUME NEW i, Updates(s, r, done, i) PROVE FALSE
    BY <1>1, <1>9 DEF Updates
<1> QED BY <1>3, <1>7, <1>8, <1>9

LEMMA WriteLeaves ==
    ASSUME Tables, Write
    PROVE  LastCall'
<1>1. PICK args : /\ Arguments(args, statement.columns)
                  /\ \A c \in statement.columns : args[c] = Null => c \in NullsOf(entity)
                  /\ Run("write", statement, args)
    BY WriteParts DEF Tables
<1> DEFINE s    == statement
           r    == NewRow(args)
           done == Execute(s, r)
           id   == Answer(s, args, done)
           ok   == done.ok /\ (s.returning # {} => id # {})
<1>2. case' = case /\ rows' = done.rows
    BY <1>1, RunParts
<1>3. last'.op = "write" /\ last'.args = args /\ last'.id = id /\ last'.ok = ok
    <2>1. \E before : last' = [op |-> "write", args |-> args, id |-> id, ok |-> ok, before |-> before]
        BY <1>1, RunParts
    <2> HIDE DEF id, ok
    <2> QED BY <2>1
<1>4. ok => ~Malformed(s)
    <2>1. CASE Leaves(s, r, done)
        BY <2>1 DEF Leaves
    <2>2. CASE ~Leaves(s, r, done)
        BY <2>2, Executed DEF Tables
    <2> QED BY <2>1, <2>2
<1>5. ok /\ case.strategy = "upsert" =>
          /\ Complete(Cols, args)
          /\ \E i \in DOMAIN done.rows : Settles(s, KeyColumns, done.rows, i, args, id)
    BY <1>1, UpsertSettles, IncompleteRow
<1>6. ok /\ case.strategy # "upsert" /\ Complete(Cols, args) =>
          \/ Holds(Cols, uniqueSets, done.rows, args)
          \/ \E i \in DOMAIN done.rows : \A c \in Cols : c.name \in DOMAIN args /\ args[c.name] # Null
                                                      => done.rows[i][c.name] = args[c.name]
    BY <1>1, IgnoredOrStored
<1>7. ok /\ case.strategy # "upsert" => id = {}
    <2>1. case.strategy # "upsert" => s.returning = {}
        BY WriterFits DEF StatementFits, Tables, TypeOK, returnsId
    <2> QED BY <2>1 DEF Answer
<1>8. ~ok => AtFault \/ \E i \in DOMAIN done.rows, u \in uniqueSets : InTheWay(s, KeyColumns, done.rows, i, u, args)
    BY <1>1, Refused
<1>9. /\ statement' = s /\ Cols' = Cols /\ KeyColumns' = KeyColumns /\ uniqueSets' = uniqueSets
      /\ ColumnNames' = ColumnNames /\ case'.strategy = case.strategy
    BY <1>2, SameCase
<1>10. AtFault' <=> AtFault
    BY <1>2, SameCase DEF AtFault, NoRowReturned, NotCalledId, ManualMissing, ManualUnique, NamedAsKey, Undeclared, NoColumns
<1>11. Malformed(statement)' <=> Malformed(s)
    BY <1>2, SameCase DEF Malformed, Undeclared, NoColumns
<1>12. Arguments(args, statement.columns)' /\ (ok => ~Malformed(statement)')
    BY <1>1, <1>4, <1>9, <1>11 DEF Arguments, s
<1>13. ok /\ case'.strategy = "upsert" =>
          /\ Complete(Cols', args)
          /\ \E i \in DOMAIN rows' : Settles(statement', KeyColumns', rows', i, args, id)
    BY <1>2, <1>5, <1>9
<1>14. ok /\ case'.strategy # "upsert" /\ Complete(Cols', args) =>
          \/ Holds(Cols', uniqueSets', rows', args)
          \/ \E i \in DOMAIN rows' : \A c \in Cols' : c.name \in DOMAIN args /\ args[c.name] # Null
                                                      => rows'[i][c.name] = args[c.name]
    BY <1>2, <1>6, <1>9
<1>15. ok /\ case'.strategy # "upsert" => id = {}
    BY <1>7, <1>9
<1>16. ~ok => AtFault' \/ \E i \in DOMAIN rows', u \in uniqueSets' : InTheWay(statement', KeyColumns', rows', i, u, args)
    BY <1>2, <1>8, <1>9, <1>10
<1> HIDE DEF s, r, done, id, ok
<1>17. Arguments(last.args, statement.columns)'
    BY <1>3, <1>12 DEF Arguments
<1> QED BY <1>3, <1>12, <1>13, <1>14, <1>15, <1>16, <1>17 DEF LastCall

LEMMA LastCallStays ==
    ASSUME IInv, [Next]_vars
    PROVE  LastCall'
<1>1. CASE Write
    BY <1>1, WriteLeaves DEF IInv
<1>2. CASE InsertValues
    <2>1. last'.op = "values"
        BY <1>2, InsertValuesParts, RunParts DEF IInv, Tables
    <2> QED BY <2>1 DEF LastCall
<1>3. CASE DeleteChildren
    <2>1. last'.op = "none"
        BY <1>3, DeleteParts DEF NoCall
    <2> QED BY <2>1 DEF LastCall
<1>4. CASE UNCHANGED vars
    <2>1. case' = case /\ rows' = rows /\ last' = last
        BY <1>4 DEF vars
    <2>2. /\ statement' = statement /\ Cols' = Cols /\ KeyColumns' = KeyColumns /\ uniqueSets' = uniqueSets
          /\ ColumnNames' = ColumnNames
        BY <2>1, SameCase
    <2>3. AtFault' <=> AtFault
        BY <2>1, SameCase DEF AtFault, NoRowReturned, NotCalledId, ManualMissing, ManualUnique, NamedAsKey, Undeclared, NoColumns
    <2>4. Malformed(statement)' <=> Malformed(statement)
        BY <2>1, SameCase DEF Malformed, Undeclared, NoColumns
    <2>5. Arguments(last.args, statement.columns)' <=> Arguments(last.args, statement.columns)
        BY <2>1, <2>2 DEF Arguments
    <2> QED BY <2>1, <2>2, <2>3, <2>4, <2>5 DEF IInv, LastCall
<1> QED BY <1>1, <1>2, <1>3, <1>4 DEF Next

\* The invariant holds of every state.
THEOREM Invariance == Spec => []IInv
<1>1. Init => IInv
    BY TablesAtFirst DEF IInv, Init, NoCall, LastCall
<1>2. IInv /\ [Next]_vars => IInv'
    BY TablesStay, LastCallStays DEF IInv
<1> QED BY <1>1, <1>2, PTL DEF Spec

\* The state of the table and of the last call is of the right kind.
THEOREM TypeCorrect == Spec => []TypeOK
<1>1. IInv => TypeOK
    BY DEF IInv, Tables
<1> QED BY <1>1, Invariance, PTL

\* A key names one row for good: no call changes the key of a stored row, and a key that
\* the database gave is not given again (3_storage.tsx, `updates`; AUTOINCREMENT).
THEOREM KeysStandForGood == Spec => KeysStand
<1>1. Tables /\ [Next]_vars =>
        [~SetsRelationKeys =>
            \A i \in DOMAIN rows \cap DOMAIN rows' : \A k \in KeyColumns : rows'[i][k] = rows[i][k]]_vars
    BY KeysKept
<1>2. Tables /\ [Next]_vars =>
        [autoIncrement(entity) /\ last'.op = "write" =>
            \A i \in DOMAIN rows' \ DOMAIN rows : \A k \in KeyColumns : rows'[i][k] > given]_vars
    BY KeysAreNew
<1>3. IInv => Tables
    BY DEF IInv
<1> QED BY <1>1, <1>2, <1>3, Invariance, PTL DEF KeysStand, Spec

\* An upsert that succeeded left a row with all that it was called with, and returned its
\* key; one that failed was refused for another row, by a unique list the call is not
\* recognised by (3_storage.tsx, the statement and the SELECT after DO NOTHING).
THEOREM StoredAsCalled == Spec => []Stored
<1> SUFFICES ASSUME IInv, last.op = "write" PROVE Stored
    <2>1. IInv => Stored
        BY DEF Stored
    <2> QED BY <2>1, Invariance, PTL
<1> DEFINE s == statement
<1>1. /\ (s.columns \ KeyColumns) \ s.updates \subseteq s.conflict \/ NamedAsKey \/ case.strategy # "upsert"
      /\ s.returning # {} => \E key : s.returning = {key} /\ (KeyColumns = {key} \/ NotCalledId)
      /\ DOMAIN last.args = s.columns
    BY WriterFits DEF StatementFits, IInv, Tables, TypeOK, LastCall, Arguments
<1>2. ASSUME last.ok, case.strategy = "upsert", ~NamedAsKey
      PROVE  \E i \in DOMAIN rows :
                /\ \A c \in DOMAIN last.args \ KeyColumns : rows[i][c] = last.args[c]
                /\ ~NotCalledId => \A id \in last.id : \A k \in KeyColumns : rows[i][k] = id
    <2>1. PICK i \in DOMAIN rows : Settles(s, KeyColumns, rows, i, last.args, last.id)
        BY <1>2 DEF IInv, LastCall
    <2>2. \A c \in DOMAIN last.args \ KeyColumns : rows[i][c] = last.args[c]
        BY <1>1, <1>2, <2>1 DEF Settles
    <2>3. ASSUME ~NotCalledId, NEW id \in last.id, NEW k \in KeyColumns PROVE rows[i][k] = id
        <3>1. s.returning # {} /\ id = rows[i][KeyOf(s)]
            BY <2>1, <2>3 DEF Settles
        <3>2. KeyOf(s) = k
            BY <1>1, <2>3, <3>1 DEF KeyOf
        <3> QED BY <3>1, <3>2
    <2> QED BY <2>2, <2>3
<1>3. ASSUME ~last.ok
      PROVE  \/ NoRowReturned \/ NotCalledId \/ ManualMissing \/ ManualUnique \/ NamedAsKey
             \/ Undeclared \/ NoColumns(s)
             \/ \E i \in DOMAIN rows, u \in uniqueSets \ {s.conflict} :
                   /\ u \cap DOMAIN last.args # {}
                   /\ \A c \in u \cap DOMAIN last.args : rows[i][c] = last.args[c] \/ KeyKept(i, c)
    <2>1. CASE AtFault
        BY <2>1 DEF AtFault
    <2>2. CASE ~AtFault
        <3>1. PICK i \in DOMAIN rows, u \in uniqueSets : InTheWay(s, KeyColumns, rows, i, u, last.args)
            BY <1>3, <2>2 DEF IInv, LastCall
        <3>2. \A c \in u \cap DOMAIN last.args : rows[i][c] = last.args[c] \/ KeyKept(i, c)
            BY <3>1 DEF InTheWay, KeyKept
        <3> QED BY <3>1, <3>2 DEF InTheWay
    <2> QED BY <2>1, <2>2
<1> QED BY <1>2, <1>3 DEF Stored

-----------------------------------------------------------------------------
(* A call made again.                                                                  *)

\* An upsert that is recognised by a row with all that it gives leaves it as it is.
LEMMA AgainUpsert ==
    ASSUME Tables, case.strategy = "upsert", NEW args, Arguments(args, statement.columns),
           NEW answer, NEW i \in DOMAIN rows, Settles(statement, KeyColumns, rows, i, args, answer),
           Complete(Cols, args), ~Malformed(statement), Named(statement.conflict, args), KeysGiven(args), ~NoRowReturned
    PROVE  LET done == Execute(statement, NewRow(args)) IN
           done.rows = rows /\ done.ok = TRUE /\ Answer(statement, args, done) = answer
<1> DEFINE s    == statement
           r    == NewRow(args)
           done == Execute(s, r)
           id   == Answer(s, args, done)
<1>1. /\ s.columns \subseteq ColumnNames /\ s.conflict \in uniqueSets /\ s.conflict # {}
      /\ s.updates \subseteq s.columns /\ s.conflict \subseteq s.columns /\ DOMAIN args = s.columns
      /\ s.returning # {} => returnsId(entity, case.strategy)
    BY WriterFits DEF StatementFits, Tables, TypeOK, Arguments, Named
<1>2. \A c \in s.columns : (c \in KeyColumns => args[c] # Null) => r[c] = args[c]
    BY ArgumentsOfRow
<1>3. \A c \in s.columns : c \in KeyColumns => args[c] # Null
    BY <1>1 DEF KeysGiven
<1>4. \A c \in s.updates \cup s.conflict : rows[i][c] = args[c] /\ r[c] = args[c]
    BY <1>1, <1>2, <1>3 DEF Settles
<1>5. Same(rows[i], r, s.conflict)
    BY <1>4 DEF Same, Named
<1>6. \A j \in DOMAIN rows : Same(rows[j], r, s.conflict) => j = i
    <2> SUFFICES ASSUME NEW j \in DOMAIN rows, Same(rows[j], r, s.conflict) PROVE j = i
        OBVIOUS
    <2>1. Same(rows[i], rows[j], s.conflict)
        BY <1>5 DEF Same
    <2> QED BY <1>1, <2>1 DEF Tables, Distinct
<1>7. Changed(s, r, i) = rows[i]
    <2>1. \A c \in ColumnNames : c \in s.updates => r[c] = rows[i][c]
        BY <1>4
    <2>2. rows[i] \in [ColumnNames -> Nat]
        BY DEF Tables, TypeOK
    <2> QED BY <2>1, <2>2 DEF Changed
<1>8. Clashes(rows[i], {i}) = {}
    <2> SUFFICES ASSUME Clashes(rows[i], {i}) # {} PROVE FALSE
        OBVIOUS
    <2>1. PICK u \in uniqueSets, j \in DOMAIN rows \ {i} : Same(rows[j], rows[i], u)
        BY AClash
    <2> QED BY <2>1 DEF Tables, Distinct
<1>9. ~Incomplete(r)
    BY IncompleteRow
<1>10. \/ Leaves(s, r, done)
       \/ Inserts(s, r, done)
       \/ \E j \in DOMAIN rows : Updates(s, r, done, j)
    BY Executed DEF Tables
<1>11. answer = IF s.returning = {} THEN {} ELSE {rows[i][KeyOf(s)]}
    BY DEF Settles
<1>12. s.returning # {} /\ s.updates = {} => case.backend = "rusqlite"
    BY <1>1 DEF NoRowReturned
<1>13. KeptBy(s, args) = {i}
    BY <1>1, <1>5, Kept DEF KeptBy
<1>14. ~Malformed(s) /\ rows \in [DOMAIN rows -> [ColumnNames -> Nat]]
    BY DEF Tables, TypeOK
<1> SUFFICES done.rows = rows /\ done.ok = TRUE /\ id = answer
    OBVIOUS
<1> HIDE DEF s, r, done
<1>15. CASE Leaves(s, r, done)
    <2>1. \A j \in Meets(r, s.conflict) : Clashes(Changed(s, r, j), {j}) = {}
        BY <1>6, <1>7, <1>8, Met
    <2>2. done.rows = rows /\ done.hit = {} /\ done.ok = TRUE /\ s.updates = {}
        BY <1>1, <1>5, <1>9, <1>14, <1>15, <2>1, Met DEF Leaves
    <2>3. CASE s.returning = {}
        BY <1>11, <2>2, <2>3, AnswerOfNone
    <2>4. CASE s.returning # {}
        <3>1. id = {rows[j][KeyOf(s)] : j \in KeptBy(s, args)}
            BY <1>1, <1>12, <2>2, <2>4, AnswerOfNone
        <3> QED BY <1>11, <1>13, <2>2, <2>4, <3>1
    <2> QED BY <2>2, <2>3, <2>4
<1>16. CASE Inserts(s, r, done)
    BY <1>1, <1>5, <1>16, Met DEF Inserts
<1>17. ASSUME NEW j \in DOMAIN rows, Updates(s, r, done, j)
       PROVE  done.rows = rows /\ done.ok = TRUE /\ id = answer
    <2>1. j = i
        BY <1>6, <1>17, Met DEF Updates
    <2>2. done.ok = TRUE /\ done.hit = {i}
        BY <1>17, <2>1 DEF Updates
    <2>3. done.rows = rows
        <3>1. done.rows = [rows EXCEPT ![i] = rows[i]]
            BY <1>7, <1>17, <2>1 DEF Updates
        <3> QED BY <1>14, <3>1
    <2>4. KeysHit(s, done) = {rows[i][KeyOf(s)]}
        BY <2>2, <2>3 DEF KeysHit
    <2>5. s.returning = {} => id = {}
        BY <2>2, AnswerOfHit
    <2>6. s.returning # {} => id = KeysHit(s, done)
        BY <2>2, AnswerOfHit
    <2> QED BY <1>11, <2>2, <2>3, <2>4, <2>5, <2>6
<1> QED BY <1>10, <1>15, <1>16, <1>17

\* An insert that is recognised by a row is ignored.
LEMMA AgainIgnored ==
    ASSUME Tables, case.strategy # "upsert", NEW args, Arguments(args, statement.columns), ~Malformed(statement),
           Complete(Cols, args) =>
              \/ Holds(Cols, uniqueSets, rows, args)
              \/ \E i \in DOMAIN rows : \A c \in Cols : c.name \in DOMAIN args /\ args[c.name] # Null
                                                      => rows[i][c.name] = args[c.name],
           \E u \in uniqueSets : Named(u, args)
    PROVE  LET done == Execute(statement, NewRow(args)) IN
           done.rows = rows /\ done.ok = TRUE /\ Answer(statement, args, done) = {}
<1> DEFINE s    == statement
           r    == NewRow(args)
           done == Execute(s, r)
<1>1. s.conflict = {} /\ s.updates = {} /\ s.orIgnore = TRUE /\ s.returning = {} /\ DOMAIN args = s.columns
    BY WriterFits DEF StatementFits, Tables, TypeOK, Arguments, returnsId
<1>2. ASSUME Complete(Cols, args)
      PROVE  \E i \in DOMAIN rows : \E u \in uniqueSets : Agrees(Cols, rows, i, u, args)
    <2>1. CASE Holds(Cols, uniqueSets, rows, args)
        BY <2>1 DEF Holds
    <2>2. ASSUME NEW i \in DOMAIN rows, \A c \in Cols : c.name \in DOMAIN args /\ args[c.name] # Null
                                                      => rows[i][c.name] = args[c.name]
          PROVE  \E u \in uniqueSets : Agrees(Cols, rows, i, u, args)
        <3>1. PICK u \in uniqueSets : Named(u, args)
            OBVIOUS
        <3> QED BY <2>2, <3>1 DEF Named, Agrees
    <2> QED BY <1>2, <2>1, <2>2
<1>3. Complete(Cols, args) => \E i \in DOMAIN rows : \E u \in uniqueSets : Same(rows[i], r, u)
    BY <1>2, NewAsOld, UniqueSetsFit DEF Tables, TypeOK
<1>4. Incomplete(r) <=> ~Complete(Cols, args)
    BY IncompleteRow
<1>5. ~Incomplete(r) => Clashes(r, {}) # {}
    BY <1>3, <1>4, NoClash
<1>6. \/ Leaves(s, r, done)
      \/ Inserts(s, r, done) /\ ~Incomplete(r)
      \/ \E j \in DOMAIN rows : Updates(s, r, done, j)
    BY Executed DEF Tables
<1>7. ~Malformed(s)
    OBVIOUS
<1> SUFFICES done.rows = rows /\ done.ok = TRUE /\ Answer(s, args, done) = {}
    OBVIOUS
<1> HIDE DEF s, r, done
<1>8. CASE Leaves(s, r, done)
    <2>1. done.rows = rows /\ done.ok = TRUE
        BY <1>1, <1>7, <1>8 DEF Leaves
    <2>2. Answer(s, args, done) = {}
        BY <1>1 DEF Answer
    <2> QED BY <2>1, <2>2
<1>9. ~(Inserts(s, r, done) /\ ~Incomplete(r))
    BY <1>5 DEF Inserts
<1>10. \A j : ~Updates(s, r, done, j)
    BY <1>1 DEF Updates
<1> QED BY <1>6, <1>8, <1>9, <1>10

LEMMA Again ==
    ASSUME IInv, Write, last'.before # <<>>, Recognised(last'.args), KeysGiven(last'.args), ~NoRowReturned
    PROVE  rows' = rows /\ last'.ok /\ <<last'.id>> = last'.before
<1>1. PICK args : Arguments(args, statement.columns) /\ Run("write", statement, args)
    BY WriteParts DEF IInv, Tables
<1> DEFINE s    == statement
           done == Execute(s, NewRow(args))
           id   == Answer(s, args, done)
           ok   == done.ok /\ (s.returning # {} => id # {})
<1>2. rows' = done.rows
    BY <1>1, RunParts
<1>3. /\ last'.args = args /\ last'.id = id /\ last'.ok = ok
      /\ last'.before = IF "write" = last.op /\ args = last.args /\ last.ok THEN <<last.id>> ELSE <<>>
    <2>1. last' = [op |-> "write", args |-> args, id |-> id, ok |-> ok,
                   before |-> IF "write" = last.op /\ args = last.args /\ last.ok THEN <<last.id>> ELSE <<>>]
        BY <1>1, RunParts
    <2> HIDE DEF id, ok
    <2> QED BY <2>1
<1>4. last.op = "write" /\ last.args = args /\ last.ok /\ last'.before = <<last.id>>
    BY <1>3
<1>5. Recognised(args) /\ KeysGiven(args)
    BY <1>3
<1>6. LastCall /\ Tables /\ ~Malformed(s)
    BY <1>4 DEF IInv, LastCall
<1>7. CASE case.strategy = "upsert"
    <2>1. Complete(Cols, args) /\ \E i \in DOMAIN rows : Settles(s, KeyColumns, rows, i, args, last.id)
        BY <1>4, <1>6, <1>7 DEF LastCall
    <2>2. Named(s.conflict, args)
        BY <1>5, <1>7 DEF Recognised
    <2>3. PICK i \in DOMAIN rows : Settles(s, KeyColumns, rows, i, args, last.id)
        BY <2>1
    <2>4. done.rows = rows /\ done.ok = TRUE /\ id = last.id
        BY <1>1, <1>5, <1>6, <1>7, <2>1, <2>2, <2>3, AgainUpsert
    <2>5. s.returning # {} => last.id # {}
        BY <2>3 DEF Settles
    <2> HIDE DEF s, done, id
    <2> QED BY <1>2, <1>3, <1>4, <2>4, <2>5
<1>8. CASE case.strategy # "upsert"
    <2>1. /\ last.id = {}
          /\ Complete(Cols, args) =>
              \/ Holds(Cols, uniqueSets, rows, args)
              \/ \E i \in DOMAIN rows : \A c \in Cols : c.name \in DOMAIN args /\ args[c.name] # Null
                                                      => rows[i][c.name] = args[c.name]
        BY <1>4, <1>6, <1>8 DEF LastCall
    <2>2. \E u \in uniqueSets : Named(u, args)
        BY <1>5, <1>8 DEF Recognised
    <2>3. done.rows = rows /\ done.ok = TRUE /\ id = {}
        BY <1>1, <1>6, <1>8, <2>1, <2>2, AgainIgnored
    <2>4. s.returning = {}
        BY <1>6, <1>8, WriterFits DEF StatementFits, Tables, TypeOK, returnsId
    <2> HIDE DEF s, done, id
    <2> QED BY <1>2, <1>3, <1>4, <2>1, <2>3, <2>4
<1> QED BY <1>7, <1>8

\* A call made again at once changes nothing and returns the same key, if the model has
\* anything to recognise the row by (ON CONFLICT, OR IGNORE and the SELECT after them).
THEOREM RetriesSettle == Spec => RetrySettles
<1>1. IInv /\ [Next]_vars =>
        [/\ last'.before # <<>> /\ last'.op = "write"
         /\ Recognised(last'.args) /\ KeysGiven(last'.args) /\ ~NoRowReturned
         => rows' = rows /\ last'.ok /\ <<last'.id>> = last'.before]_vars
    <2> SUFFICES ASSUME IInv, Next, last'.before # <<>>, last'.op = "write",
                        Recognised(last'.args), KeysGiven(last'.args), ~NoRowReturned
                 PROVE  rows' = rows /\ last'.ok /\ <<last'.id>> = last'.before
        OBVIOUS
    <2>1. CASE Write
        BY <2>1, Again
    <2>2. CASE InsertValues
        BY <2>2, InsertValuesParts, RunParts DEF IInv, Tables
    <2>3. CASE DeleteChildren
        BY <2>3, DeleteParts DEF NoCall
    <2> QED BY <2>1, <2>2, <2>3 DEF Next
<1> QED BY <1>1, Invariance, PTL DEF RetrySettles, Spec

-----------------------------------------------------------------------------
(* The statements that declare a schema fit together.                             *)

\* A schema that registration has let through.
Accepted(ms) == ~internStorageFails(ms)

LEMMA SchemaParts ==
    ASSUME case \in Writers
    PROVE  \A o \in ToSet(models) :
              /\ o.fields \in Seq(FieldsOf(o))
              /\ \A f \in FieldsOf(o) : f.rel # "" =>
                    \E t \in ToSet(models) : \A u \in ToSet(models) : u.name = f.target <=> u = t
<1> DEFINE c == case.schema
<1>1. c \in DOMAIN Cases /\ models = ModelsOf[c]
    BY CaseParts
<1>2. \A o \in ToSet(ModelsOf[c]) :
          /\ o.fields \in Seq(FieldsOf(o))
          /\ \A f \in FieldsOf(o) : f.rel # "" =>
                \E t \in ToSet(ModelsOf[c]) : \A u \in ToSet(ModelsOf[c]) : u.name = f.target <=> u = t
    <2> HIDE DEF c
    <2> QED BY <1>1, CasesAssumption
<1> HIDE DEF c
<1> QED BY <1>1, <1>2

LEMMA AcceptedParts ==
    ASSUME NEW ms, Accepted(ms)
    PROVE  /\ IsInjective(Registered(ms))
           /\ \A m \in InternEntities(ms) :
                 /\ \A f \in FieldsOf(m) : ~internFieldFails(ms, f)
                 /\ IsInjective([i \in DOMAIN m.fields |-> internColumn(m.fields[i])])
                 /\ \A k, l \in KeyFields(m) : k = l
BY DEF Accepted, internStorageFails

\* What is declared in a place has the name that is registered for it.
LEMMA NameOfTable ==
    ASSUME NEW ms, NEW m \in Ordinary(ms)
    PROVE  /\ emitSQL(ms)[<<"table", m>>] = entityTable(ms, m)
           /\ registeredName(<<"table", m>>) = snakeCase(m.name)
<1>1. <<"table", m>> \in TablePlaces(ms)
    BY DEF TablePlaces
<1> QED BY <1>1 DEF emitSQL, registeredName

LEMMA NameOfDomain ==
    ASSUME NEW ms, NEW d \in Domains(ms)
    PROVE  /\ emitSQL(ms)[<<"domain", d>>] = domainTable(d)
           /\ registeredName(<<"domain", d>>) = d
<1>1. <<"domain", d>> \in TablePlaces(ms)
    BY DEF TablePlaces
<1> QED BY <1>1 DEF emitSQL, registeredName

LEMMA NameOfRows ==
    ASSUME NEW ms, NEW m \in InternEntities(ms)
    PROVE  /\ emitSQL(ms)[<<"rows", m>>] = internTable(ms, m)
           /\ registeredName(<<"rows", m>>) = qualified(m)
           /\ registeredName(<<"text", m>>) = qualified(m) \o "_text"
<1>1. <<"rows", m>> \in TablePlaces(ms)
    BY DEF TablePlaces
<1> QED BY <1>1 DEF emitSQL, registeredName

LEMMA PlaceOfTable ==
    ASSUME NEW ms, NEW p \in TablePlaces(ms)
    PROVE  \/ \E m \in Ordinary(ms) : p = <<"table", m>>
           \/ \E d \in Domains(ms) : p = <<"domain", d>>
           \/ \E m \in InternEntities(ms) : p = <<"rows", m>>
BY DEF TablePlaces

LEMMA NameDeclared ==
    ASSUME NEW ms, NEW p \in TablePlaces(ms)
    PROVE  emitSQL(ms)[p].name = registeredName(p) /\ p[1] # "text"
<1>1. ASSUME NEW m \in Ordinary(ms), p = <<"table", m>> PROVE emitSQL(ms)[p].name = registeredName(p) /\ p[1] # "text"
    <2>1. entityTable(ms, m).name = snakeCase(m.name)
        BY DEF entityTable
    <2> QED BY <1>1, <2>1, NameOfTable
<1>2. ASSUME NEW d \in Domains(ms), p = <<"domain", d>> PROVE emitSQL(ms)[p].name = registeredName(p) /\ p[1] # "text"
    <2>1. domainTable(d).name = d
        BY DEF domainTable
    <2> QED BY <1>2, <2>1, NameOfDomain
<1>3. ASSUME NEW m \in InternEntities(ms), p = <<"rows", m>> PROVE emitSQL(ms)[p].name = registeredName(p) /\ p[1] # "text"
    <2>1. internTable(ms, m).name = qualified(m)
        BY DEF internTable
    <2> QED BY <1>3, <2>1, NameOfRows
<1> QED BY <1>1, <1>2, <1>3, PlaceOfTable

\* No two tables or views share a name.
LEMMA NamesStand ==
    ASSUME NEW ms, Accepted(ms)
    PROVE  IsInjective([p \in DOMAIN emitSQL(ms) \cup ViewPlaces(ms) |->
               IF p[1] = "text" THEN qualified(p[2]) \o "_text" ELSE emitSQL(ms)[p].name])
<1> DEFINE places == DOMAIN emitSQL(ms) \cup ViewPlaces(ms)
           name(p) == IF p[1] = "text" THEN qualified(p[2]) \o "_text" ELSE emitSQL(ms)[p].name
<1>1. DOMAIN emitSQL(ms) = TablePlaces(ms)
    BY DEF emitSQL
<1>2. \A p \in places : name(p) = registeredName(p)
    <2> SUFFICES ASSUME NEW p \in places PROVE name(p) = registeredName(p)
        OBVIOUS
    <2>1. CASE p \in TablePlaces(ms)
        BY <2>1, NameDeclared
    <2>2. CASE p \in ViewPlaces(ms)
        <3>1. PICK m \in InternEntities(ms) : p = <<"text", m>>
            BY <2>2 DEF ViewPlaces
        <3> QED BY <3>1, NameOfRows
    <2> QED BY <1>1, <2>1, <2>2
<1>3. \A p, q \in places : registeredName(p) = registeredName(q) => p = q
    BY <1>1, AcceptedParts DEF Registered, IsInjective
<1> HIDE DEF places, name
<1>4. IsInjective([p \in places |-> name(p)])
    BY <1>2, <1>3 DEF IsInjective
<1> QED BY <1>4 DEF places, name

\* No two columns of an interned table.
LEMMA ColumnsStand ==
    ASSUME NEW ms, Accepted(ms), NEW m \in InternEntities(ms)
    PROVE  IsInjective([i \in DOMAIN m.fields |-> internTable(ms, m).columns[i].name])
<1>1. \A i \in DOMAIN m.fields : internTable(ms, m).columns[i].name = internColumn(m.fields[i])
    BY DEF internTable
<1>2. IsInjective([i \in DOMAIN m.fields |-> internColumn(m.fields[i])])
    BY AcceptedParts
<1> QED BY <1>1, <1>2 DEF IsInjective

-----------------------------------------------------------------------------
\* What other generators are told of a table.
Kinds(cs) == [i \in DOMAIN cs |-> [name |-> cs[i].name, integer |-> cs[i].integer]]
Told(t) == [name |-> t.name, columns |-> Kinds(t.columns)]

ToldOfModel(m) ==
    [name |-> snakeCase(m.name),
     columns |-> [i \in DOMAIN m.fields |->
                     [name    |-> columnName(m.fields[i]),
                      integer |-> m.fields[i].rel = "belongsTo" \/ m.fields[i].type \in Integer]]]
ToldOfDomain(d) ==
    [name |-> d, columns |-> <<[name |-> "id", integer |-> TRUE], [name |-> "value", integer |-> FALSE]>>]
ToldOfRows(m) ==
    [name |-> qualified(m),
     columns |-> [i \in DOMAIN m.fields |->
                     [name    |-> internColumn(m.fields[i]),
                      integer |-> m.fields[i].intern # "" \/ m.fields[i].rel # "" \/ m.fields[i].type \in Integer]]]

LEMMA ScalarTypes == ASSUME NEW t PROVE scalarType(t) = "INTEGER" <=> t \in Integer
BY DEF scalarType

LEMMA ToldOfPlain ==
    ASSUME NEW ms, NEW m
    PROVE  Told(entityTable(ms, m)) = ToldOfModel(m)
<1> DEFINE cs == entityTable(ms, m).columns
<1>1. cs = [i \in DOMAIN m.fields |-> columnOf(ms, m, m.fields[i])] /\ entityTable(ms, m).name = snakeCase(m.name)
    BY DEF entityTable
<1>2. ASSUME NEW f PROVE
          [name |-> columnOf(ms, m, f).name, integer |-> columnOf(ms, m, f).integer]
              = [name |-> columnName(f), integer |-> f.rel = "belongsTo" \/ f.type \in Integer]
    <2>1. columnOf(ms, m, f).name = columnName(f)
        BY DEF columnOf
    <2>2. CASE f.rel = "belongsTo"
        <3>1. columnOf(ms, m, f).integer = TRUE
            BY <2>2 DEF columnOf
        <3> QED BY <2>1, <2>2, <3>1
    <2>3. CASE f.rel # "belongsTo"
        <3>1. columnOf(ms, m, f).integer = (scalarType(f.type) = "INTEGER")
            BY <2>3 DEF columnOf
        <3>2. columnOf(ms, m, f).integer = (f.type \in Integer)
            BY <3>1, ScalarTypes
        <3> QED BY <2>1, <2>3, <3>2
    <2> QED BY <2>2, <2>3
<1> HIDE DEF cs
<1>3. Kinds(cs) = [i \in DOMAIN m.fields |-> [name |-> columnOf(ms, m, m.fields[i]).name,
                                                  integer |-> columnOf(ms, m, m.fields[i]).integer]]
    BY <1>1 DEF Kinds
<1>4. Kinds(cs) = [i \in DOMAIN m.fields |->
                     [name    |-> columnName(m.fields[i]),
                      integer |-> m.fields[i].rel = "belongsTo" \/ m.fields[i].type \in Integer]]
    BY <1>2, <1>3
<1> QED BY <1>1, <1>4 DEF Told, ToldOfModel, cs

LEMMA ToldOfDictionary ==
    ASSUME NEW d
    PROVE  Told(domainTable(d)) = ToldOfDomain(d)
<1>1. domainTable(d).name = d /\ DOMAIN domainTable(d).columns = 1..2
    BY DEF domainTable
<1>2. domainTable(d).columns[1].name = "id" /\ domainTable(d).columns[1].integer = TRUE
    BY DEF domainTable
<1>3. domainTable(d).columns[2].name = "value" /\ domainTable(d).columns[2].integer = FALSE
    BY DEF domainTable
<1>4. Kinds(domainTable(d).columns)
          = <<[name |-> "id", integer |-> TRUE], [name |-> "value", integer |-> FALSE]>>
    <2> DEFINE cs == domainTable(d).columns
               one == [name |-> "id", integer |-> TRUE]
               two == [name |-> "value", integer |-> FALSE]
    <2>1. DOMAIN cs = 1..2
        BY <1>1
    <2>2. [name |-> cs[1].name, integer |-> cs[1].integer] = one
        BY <1>2
    <2>3. [name |-> cs[2].name, integer |-> cs[2].integer] = two
        BY <1>3
    <2> HIDE DEF cs, one, two
    <2>4. Kinds(cs) = [i \in 1..2 |-> IF i = 1 THEN one ELSE two]
        BY <2>1, <2>2, <2>3 DEF Kinds
    <2>5. <<one, two>> = [i \in 1..2 |-> IF i = 1 THEN one ELSE two]
        OBVIOUS
    <2>6. Kinds(cs) = <<one, two>>
        BY <2>4, <2>5
    <2> QED BY <2>6 DEF cs, one, two
<1> QED BY <1>1, <1>4 DEF Told, ToldOfDomain

LEMMA ToldOfInterned ==
    ASSUME NEW ms, NEW m
    PROVE  Told(internTable(ms, m)) = ToldOfRows(m)
<1> DEFINE cs == internTable(ms, m).columns
<1>1. internTable(ms, m).name = qualified(m) /\ DOMAIN cs = DOMAIN m.fields
    BY DEF internTable
<1>2. ASSUME NEW i \in DOMAIN m.fields PROVE
          [name |-> cs[i].name, integer |-> cs[i].integer]
              = [name    |-> internColumn(m.fields[i]),
                 integer |-> m.fields[i].intern # "" \/ m.fields[i].rel # "" \/ m.fields[i].type \in Integer]
    <2>1. cs[i].name = internColumn(m.fields[i])
        BY DEF internTable
    <2>2. cs[i].integer = (m.fields[i].intern # "" \/ m.fields[i].rel # "" \/ scalarType(m.fields[i].type) = "INTEGER")
        BY DEF internTable
    <2>3. cs[i].integer = (m.fields[i].intern # "" \/ m.fields[i].rel # "" \/ m.fields[i].type \in Integer)
        BY <2>2, ScalarTypes
    <2> HIDE DEF cs
    <2> QED BY <2>1, <2>3
<1> HIDE DEF cs
<1>3. Kinds(cs) = [i \in DOMAIN m.fields |-> [name |-> cs[i].name, integer |-> cs[i].integer]]
    BY <1>1 DEF Kinds
<1>4. Kinds(cs) = [i \in DOMAIN m.fields |->
                     [name    |-> internColumn(m.fields[i]),
                      integer |-> m.fields[i].intern # "" \/ m.fields[i].rel # "" \/ m.fields[i].type \in Integer]]
    BY <1>2, <1>3
<1> QED BY <1>1, <1>4 DEF Told, ToldOfRows, cs

LEMMA ToldAsDeclared ==
    ASSUME NEW ms
    PROVE  {Told(emitSQL(ms)[p]) : p \in DOMAIN emitSQL(ms)} = tableFacts(ms)
<1> DEFINE plain == {ToldOfModel(m) : m \in Ordinary(ms)}
           domains == {ToldOfDomain(d) : d \in Domains(ms)}
           interned == {ToldOfRows(m) : m \in InternEntities(ms)}
<1>1. tableFacts(ms) = plain \cup domains \cup interned
    BY DEF tableFacts, ToldOfModel, ToldOfDomain, ToldOfRows
<1>2. DOMAIN emitSQL(ms) = TablePlaces(ms)
    BY DEF emitSQL
<1>3. ASSUME NEW p \in TablePlaces(ms) PROVE Told(emitSQL(ms)[p]) \in plain \cup domains \cup interned
    <2>1. ASSUME NEW m \in Ordinary(ms), p = <<"table", m>> PROVE Told(emitSQL(ms)[p]) \in plain
        BY <2>1, NameOfTable, ToldOfPlain
    <2>2. ASSUME NEW d \in Domains(ms), p = <<"domain", d>> PROVE Told(emitSQL(ms)[p]) \in domains
        BY <2>2, NameOfDomain, ToldOfDictionary
    <2>3. ASSUME NEW m \in InternEntities(ms), p = <<"rows", m>> PROVE Told(emitSQL(ms)[p]) \in interned
        BY <2>3, NameOfRows, ToldOfInterned
    <2> HIDE DEF plain, domains, interned
    <2> QED BY <2>1, <2>2, <2>3, PlaceOfTable
<1>4. ASSUME NEW m \in Ordinary(ms) PROVE \E p \in TablePlaces(ms) : Told(emitSQL(ms)[p]) = ToldOfModel(m)
    <2>1. <<"table", m>> \in TablePlaces(ms)
        BY DEF TablePlaces
    <2> QED BY <2>1, NameOfTable, ToldOfPlain
<1>5. ASSUME NEW d \in Domains(ms) PROVE \E p \in TablePlaces(ms) : Told(emitSQL(ms)[p]) = ToldOfDomain(d)
    <2>1. <<"domain", d>> \in TablePlaces(ms)
        BY DEF TablePlaces
    <2> QED BY <2>1, NameOfDomain, ToldOfDictionary
<1>6. ASSUME NEW m \in InternEntities(ms) PROVE \E p \in TablePlaces(ms) : Told(emitSQL(ms)[p]) = ToldOfRows(m)
    <2>1. <<"rows", m>> \in TablePlaces(ms)
        BY DEF TablePlaces
    <2> QED BY <2>1, NameOfRows, ToldOfInterned
<1> QED BY <1>1, <1>2, <1>3, <1>4, <1>5, <1>6

-----------------------------------------------------------------------------
(* References. *)

LEMMA TheKey ==
    ASSUME NEW m, m.fields \in Seq(FieldsOf(m)), OneKey(m)
    PROVE  /\ KeyFields(m) = {FirstKey(m)}
           /\ FirstKey(m).pk
           /\ \E i \in DOMAIN m.fields : m.fields[i] = FirstKey(m)
<1>1. PICK k : KeyFields(m) = {k}
    BY DEF OneKey
<1> DEFINE is == {i \in DOMAIN m.fields : m.fields[i].pk}
<1>2. DOMAIN m.fields = 1..Len(m.fields) /\ Len(m.fields) \in Nat
    OBVIOUS
<1>3. \A i \in is : m.fields[i] = k /\ i \in Nat
    BY <1>1, <1>2 DEF KeyFields, FieldsOf, ToSet
<1>4. is # {}
    BY <1>1 DEF KeyFields, FieldsOf, ToSet
<1>5. PICK i \in is : \A j \in is : i <= j
    BY <1>3, <1>4, Least
<1>6. \A j \in 1..(i - 1) : ~m.fields[j].pk
    BY <1>2, <1>5
<1>7. \E n \in DOMAIN m.fields : m.fields[n].pk /\ \A j \in 1..(n - 1) : ~m.fields[j].pk
    BY <1>5, <1>6
<1>8. PICK n \in is : FirstKey(m) = m.fields[n]
    BY <1>7 DEF FirstKey
<1>9. FirstKey(m) = k
    BY <1>3, <1>8
<1> QED BY <1>1, <1>8, <1>9

LEMMA TheTarget ==
    ASSUME case \in Writers, NEW m \in ToSet(models), NEW f \in FieldsOf(m), f.rel # ""
    PROVE  /\ TargetOf(models, f) \in ToSet(models) /\ TargetOf(models, f).name = f.target
           /\ \A u \in ToSet(models) : u.name = f.target => u = TargetOf(models, f)
<1>1. PICK t \in ToSet(models) : \A u \in ToSet(models) : u.name = f.target <=> u = t
    BY SchemaParts
<1> QED BY <1>1 DEF TargetOf

\* The only key of a model that is not interned is the key of its table.
LEMMA KeyOfPlain ==
    ASSUME NEW ms, NEW t, t \in Ordinary(ms), t.fields \in Seq(FieldsOf(t)), OneKey(t),
           snakeCase(FirstKey(t).name) = FirstKey(t).name, FirstKey(t).rel = ""
    PROVE  /\ emitSQL(ms)[<<"table", t>>].name = snakeCase(t.name)
           /\ {FirstKey(t).name} \in UniqueSets(emitSQL(ms)[<<"table", t>>])
<1> DEFINE k == FirstKey(t)
           c == columnOf(ms, t, k)
           table_ == entityTable(ms, t)
<1>1. emitSQL(ms)[<<"table", t>>] = table_ /\ table_.name = snakeCase(t.name)
    <2>1. emitSQL(ms)[<<"table", t>>] = table_
        BY NameOfTable
    <2>2. table_.name = snakeCase(t.name)
        BY DEF entityTable
    <2> QED BY <2>1, <2>2
<1>2. KeyFields(t) = {k}
    BY TheKey
<1>3. PICK i \in DOMAIN t.fields : t.fields[i] = k
    BY TheKey
<1>4. c.key = TRUE
    BY <1>2 DEF columnOf, identityColumn
<1>5. c.name = k.name
    <2>1. c.name = columnName(k)
        BY DEF columnOf
    <2> QED BY <2>1 DEF columnName
<1>6. table_.columns = [j \in DOMAIN t.fields |-> columnOf(ms, t, t.fields[j])]
    BY DEF entityTable
<1>7. c \in ToSet(table_.columns)
    <2> HIDE DEF table_, k
    <2>1. table_.columns[i] = c /\ i \in DOMAIN table_.columns
        BY <1>3, <1>6
    <2> HIDE DEF c
    <2> QED BY <2>1 DEF ToSet
<1> HIDE DEF table_, c, k
<1>8. {k.name} \in UniqueSets(table_)
    BY <1>4, <1>5, <1>7 DEF UniqueSets
<1> QED BY <1>1, <1>8 DEF k

LEMMA KeyOfInterned ==
    ASSUME NEW ms, Accepted(ms), NEW t, t \in InternEntities(ms), t.fields \in Seq(FieldsOf(t)), OneKey(t),
           FirstKey(t).rel = ""
    PROVE  /\ emitSQL(ms)[<<"rows", t>>].name = qualified(t)
           /\ {FirstKey(t).name} \in UniqueSets(emitSQL(ms)[<<"rows", t>>])
<1> DEFINE k == FirstKey(t)
           table_ == internTable(ms, t)
<1>1. emitSQL(ms)[<<"rows", t>>] = table_ /\ table_.name = qualified(t)
    <2>1. emitSQL(ms)[<<"rows", t>>] = table_
        BY NameOfRows
    <2>2. table_.name = qualified(t)
        BY DEF internTable
    <2> QED BY <2>1, <2>2
<1>2. PICK i \in DOMAIN t.fields : t.fields[i] = k
    BY TheKey
<1>3. k.pk /\ k \in FieldsOf(t)
    BY <1>2, TheKey DEF FieldsOf, ToSet
<1>4. ~internFieldFails(ms, k)
    BY <1>3, AcceptedParts
<1>5. k.intern = ""
    BY <1>3, <1>4 DEF internFieldFails
<1> DEFINE c == table_.columns[i]
<1>6. c.name = internColumn(k) /\ c.key = k.pk /\ i \in DOMAIN table_.columns
    BY <1>2 DEF internTable
<1>7. c.name = k.name
    BY <1>5, <1>6 DEF internColumn
<1> HIDE DEF table_, k
<1>8. c \in ToSet(table_.columns)
    BY <1>6 DEF ToSet
<1> HIDE DEF c
<1>9. {k.name} \in UniqueSets(table_)
    BY <1>3, <1>6, <1>7, <1>8 DEF UniqueSets
<1> QED BY <1>1, <1>9 DEF k

LEMMA KeyOfDictionary ==
    ASSUME NEW ms, NEW d \in Domains(ms)
    PROVE  /\ emitSQL(ms)[<<"domain", d>>].name = d
           /\ {"id"} \in UniqueSets(emitSQL(ms)[<<"domain", d>>])
<1> DEFINE table_ == domainTable(d)
           c == table_.columns[1]
<1>1. emitSQL(ms)[<<"domain", d>>] = table_ /\ table_.name = d
    BY NameOfDomain DEF domainTable
<1>2. c.name = "id" /\ c.key = TRUE /\ 1 \in DOMAIN table_.columns
    BY DEF domainTable
<1> HIDE DEF table_
<1>3. c \in ToSet(table_.columns)
    BY <1>2 DEF ToSet
<1> HIDE DEF c
<1>4. {"id"} \in UniqueSets(table_)
    BY <1>2, <1>3 DEF UniqueSets
<1> QED BY <1>1, <1>4

\* A table in which the column that a reference names identifies a row.
Leads(ms, r) == \E p \in DOMAIN emitSQL(ms) :
    emitSQL(ms)[p].name = r.table /\ {r.column} \in UniqueSets(emitSQL(ms)[p])

LEMMA PlacesOf ==
    ASSUME NEW ms
    PROVE  /\ DOMAIN emitSQL(ms) = TablePlaces(ms)
           /\ \A m \in Ordinary(ms) : <<"table", m>> \in TablePlaces(ms)
           /\ \A d \in Domains(ms) : <<"domain", d>> \in TablePlaces(ms)
           /\ \A m \in InternEntities(ms) : <<"rows", m>> \in TablePlaces(ms)
BY DEF emitSQL, TablePlaces

LEMMA PlainTarget ==
    ASSUME case \in Writers, NEW t \in ToSet(models), ~Interned(t), OneKey(t)
    PROVE  t \in Ordinary(models)
BY DEF Ordinary, isEntityModel, OneKey, KeyFields

LEMMA PlainReference ==
    ASSUME case \in Writers, NEW m \in ToSet(models), ~Interned(m), NEW f \in FieldsOf(m),
           f.rel = "belongsTo", ~OddTarget(m, f)
    PROVE  Leads(models, reference(models, f))
<1> DEFINE t == TargetOf(models, f)
           r == reference(models, f)
<1>1. t \in ToSet(models) /\ t.name = f.target /\ \A u \in ToSet(models) : u.name = f.target => u = t
    BY TheTarget
<1>2. /\ OneKey(t) /\ ~Interned(t)
      /\ snakeCase(FirstKey(t).name) = FirstKey(t).name /\ FirstKey(t).rel = ""
      /\ f.leads = f.target
    BY DEF OddTarget
<1> HIDE DEF t
<1>3. t \in Ordinary(models) /\ t.fields \in Seq(FieldsOf(t))
    BY <1>1, <1>2, PlainTarget, SchemaParts
<1>4. {o \in Ordinary(models) : o.name = f.leads} = {t}
    BY <1>1, <1>2, <1>3 DEF Ordinary
<1>5. KeyFields(t) # {}
    BY <1>2 DEF OneKey
<1>6. r.table = snakeCase(t.name) /\ r.column = FirstKey(t).name
    <2>1. r.table = snakeCase(f.leads) /\ r.column = FirstKey(t).name
        BY <1>4, <1>5 DEF reference
    <2> QED BY <1>1, <1>2, <2>1
<1> HIDE DEF r
<1>7. /\ emitSQL(models)[<<"table", t>>].name = snakeCase(t.name)
      /\ {FirstKey(t).name} \in UniqueSets(emitSQL(models)[<<"table", t>>])
    BY <1>2, <1>3, KeyOfPlain
<1>8. Leads(models, r)
    BY <1>3, <1>6, <1>7, PlacesOf DEF Leads
<1> QED BY <1>8 DEF r

LEMMA OneElement ==
    ASSUME NEW x, NEW s, s = <<x>>
    PROVE  ToSet(s) = {x}
BY DEF ToSet

LEMMA NoElement ==
    ASSUME NEW s, s = <<>>
    PROVE  ToSet(s) = {}
BY DEF ToSet

LEMMA InternedReference ==
    ASSUME case \in Writers, Accepted(models), NEW m \in InternEntities(models), NEW f \in FieldsOf(m),
           NEW r \in ToSet(internRef(models, f)), ~(f.rel # "" /\ OddTarget(m, f))
    PROVE  Leads(models, r)
<1>1. CASE f.intern # ""
    <2>1. r = [table |-> f.intern, column |-> "id"]
        <3>1. internRef(models, f) = <<[table |-> f.intern, column |-> "id"]>>
            BY <1>1 DEF internRef
        <3>2. ToSet(internRef(models, f)) = {[table |-> f.intern, column |-> "id"]}
            BY <3>1, OneElement
        <3> QED BY <3>2
    <2>2. f.intern \in Domains(models)
        BY <1>1 DEF Domains, InternEntities
    <2> QED BY <2>1, <2>2, KeyOfDictionary, PlacesOf DEF Leads
<1>2. CASE f.intern = "" /\ f.rel # ""
    <2> DEFINE t == TargetOf(models, f)
    <2>1. t \in ToSet(models) /\ t.name = f.target
        BY <1>2, TheTarget DEF InternEntities
    <2>2. OneKey(t) /\ snakeCase(FirstKey(t).name) = FirstKey(t).name /\ FirstKey(t).rel = ""
        BY <1>2 DEF OddTarget
    <2>3. /\ r.table = IF Interned(t) THEN qualified(t) ELSE snakeCase(t.name)
          /\ r.column = FirstKey(t).name
        <3> DEFINE led == [table  |-> IF Interned(t) THEN qualified(t) ELSE snakeCase(t.name),
                           column |-> FirstKey(t).name]
        <3>1. internRef(models, f) = <<led>>
            BY <1>2 DEF internRef
        <3> HIDE DEF led
        <3>2. ToSet(internRef(models, f)) = {led}
            BY <3>1, OneElement
        <3>3. r = led
            BY <3>2
        <3> USE DEF led
        <3> HIDE DEF t
        <3> QED BY <3>3
    <2> HIDE DEF t
    <2>4. t.fields \in Seq(FieldsOf(t))
        BY <2>1, SchemaParts
    <2>5. CASE Interned(t)
        <3>1. t \in InternEntities(models)
            BY <2>1, <2>5 DEF InternEntities
        <3> QED BY <2>2, <2>3, <2>4, <2>5, <3>1, KeyOfInterned, PlacesOf DEF Leads
    <2>6. CASE ~Interned(t)
        <3>1. t \in Ordinary(models)
            BY <2>1, <2>2, <2>6, PlainTarget
        <3> QED BY <2>2, <2>3, <2>4, <2>6, <3>1, KeyOfPlain, PlacesOf DEF Leads
    <2> QED BY <2>5, <2>6
<1>3. CASE f.intern = "" /\ f.rel = ""
    <2>1. internRef(models, f) = <<>>
        BY <1>3 DEF internRef
    <2>2. ToSet(internRef(models, f)) = {}
        BY <2>1, NoElement
    <2> QED BY <2>2
<1> QED BY <1>1, <1>2, <1>3

LEMMA ReferencesStand ==
    ASSUME case \in Writers, Accepted(models),
           NEW m \in Ordinary(models) \cup InternEntities(models), NEW i \in DOMAIN m.fields,
           NEW t, t = IF Interned(m) THEN internTable(models, m) ELSE entityTable(models, m),
           NEW r \in ToSet(t.columns[i].ref), ~(m.fields[i].rel # "" /\ OddTarget(m, m.fields[i]))
    PROVE  Leads(models, r)
<1> DEFINE f == m.fields[i]
<1>1. f \in FieldsOf(m) /\ m \in ToSet(models)
    BY DEF FieldsOf, ToSet, Ordinary, InternEntities
<1>2. CASE Interned(m)
    <2>1. t.columns[i].ref = internRef(models, f)
        BY <1>2 DEF internTable
    <2>2. m \in InternEntities(models)
        BY <1>1, <1>2 DEF InternEntities
    <2> QED BY <1>1, <2>1, <2>2, InternedReference
<1>3. CASE ~Interned(m)
    <2>1. t.columns[i] = columnOf(models, m, f)
        BY <1>3 DEF entityTable
    <2> DEFINE led == reference(models, f)
               ref == columnOf(models, m, f).ref
    <2>2. f.rel = "belongsTo"
        <3>1. CASE f.rel # "belongsTo"
            <4>1. ref = <<>>
                BY <3>1 DEF columnOf
            <4> HIDE DEF ref
            <4>2. ToSet(ref) = {}
                BY <4>1, NoElement
            <4> QED BY <2>1, <4>2 DEF ref
        <3> QED BY <3>1
    <2>3. r = led
        <3>1. ref = <<led>>
            BY <2>2 DEF columnOf
        <3> HIDE DEF ref, led
        <3>2. ToSet(ref) = {led}
            BY <3>1, OneElement
        <3>3. t.columns[i].ref = ref
            BY <2>1 DEF ref
        <3> QED BY <3>2, <3>3
    <2> QED BY <1>1, <1>3, <2>2, <2>3, PlainReference
<1> QED BY <1>2, <1>3

-----------------------------------------------------------------------------
\* The schema of the case is one that registration has let through.
LEMMA SchemaAccepted == Init => Accepted(models)
BY DEF Init, Accepted

LEMMA AcceptedStays ==
    ASSUME Accepted(models), [Next]_vars
    PROVE  Accepted(models)'
<1>1. case' = case
    BY DEF Next, Write, InsertValues, DeleteChildren, Run, vars
<1> QED BY <1>1, SameCase DEF Accepted

LEMMA SchemaStands ==
    ASSUME case \in Writers, Accepted(models)
    PROVE  TablesStand
<1> DEFINE tables == emitSQL(models)
           name(p) == IF p[1] = "text" THEN qualified(p[2]) \o "_text" ELSE tables[p].name
           kinds(cs) == [i \in DOMAIN cs |-> [name |-> cs[i].name, integer |-> cs[i].integer]]
<1>1. IsInjective([p \in DOMAIN tables \cup ViewPlaces(models) |-> name(p)])
    BY NamesStand
<1>2. \A m \in InternEntities(models) :
          IsInjective([i \in DOMAIN m.fields |-> internTable(models, m).columns[i].name])
    BY ColumnsStand
<1>3. \A m \in Ordinary(models) \cup InternEntities(models) : \A i \in DOMAIN m.fields :
          LET t == IF Interned(m) THEN internTable(models, m) ELSE entityTable(models, m)
          IN \A r \in ToSet(t.columns[i].ref) :
                \/ m.fields[i].rel # "" /\ OddTarget(m, m.fields[i])
                \/ \E p \in DOMAIN tables : tables[p].name = r.table /\ {r.column} \in UniqueSets(tables[p])
    BY ReferencesStand DEF Leads
<1>4. {[name |-> tables[p].name, columns |-> kinds(tables[p].columns)] : p \in DOMAIN tables} = tableFacts(models)
    BY ToldAsDeclared DEF Told, Kinds
<1> QED BY <1>1, <1>2, <1>3, <1>4 DEF TablesStand

\* The statements that declare a schema fit together (3_intern.ts, the registration of
\* names; 5_emit_sql.ts; 4a_table_facts.ts), whatever its models are.
THEOREM TablesFitTogether == Spec => []TablesStand
<1>1. IInv /\ Accepted(models) => TablesStand
    BY SchemaStands DEF IInv, Tables, TypeOK
<1>2. Spec => []Accepted(models)
    BY SchemaAccepted, AcceptedStays, PTL DEF Spec
<1> QED BY <1>1, <1>2, Invariance, PTL
=============================================================================
