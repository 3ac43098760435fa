------------------------------ MODULE TaggedRows ------------------------------
(***************************************************************************)
(* insert_all of the generated tagged row writer: the rows of a batch are   *)
(* sorted into groups by their tag, one table each, and a group goes to its *)
(* table in statements of as many rows as the limits of the connection      *)
(* allow.  A row is stored under an ordinal, which is that of the batch and *)
(* the place of the row in it.                                              *)
(*                                                                         *)
(* Tables are numbered in the order of their groups, rows from 1.           *)
(***************************************************************************)
EXTENDS Integers, FiniteSets

CONSTANTS
    NTables,      \* the tables
    Columns,      \* the number of columns of a table,
    Prefix,       \* the length of `INSERT INTO t (...) VALUES '
    Tuple,        \* and the length of `(?, ...)'
    Limits,       \* limits of variables and of the length of a statement
    Sources,      \* ordinals of batches
    MaxOrdinal,   \* the largest i64
    MaxRows,      \* bound on the rows of a batch
    MaxCalls      \* bound on the calls

Tables == 1..NTables

ASSUME TaggedRowsAssumption ==
    /\ NTables \in Nat
    /\ Columns \in [Tables -> Nat \ {0}]
    /\ Prefix \in [Tables -> Nat]
    /\ Tuple \in [Tables -> Nat]
    /\ Limits \subseteq [variables : Nat, length : Nat]
    /\ MaxOrdinal \in Nat
    /\ Sources \subseteq {n \in Int : n <= MaxOrdinal}
    /\ MaxRows \in Nat
    /\ MaxCalls \in Nat

VARIABLES
    limits,       \* of the connection
    stored,       \* the rows in the tables
    pc,           \* whether a call inserts
    rows,         \* the batch: the table of each row
    source,       \* its ordinal
    todo,         \* the rows of the batch that are not inserted
    inserted,     \* how many are
    result,       \* what the last call returned
    calls         \* how many there were

batch == <<rows, source, calls>>
vars == <<limits, stored, pc, rows, source, todo, inserted, result, calls>>

Batches == UNION {[1..n -> Tables] : n \in 0..MaxRows}
Size(b) == Cardinality(DOMAIN b)

\* Mutant: every row gets the ordinal of the batch.
Row_OfBatch(i) == [call |-> calls, index |-> i, table |-> rows[i], ordinal |-> source]

Row(i) == [call |-> calls, index |-> i, table |-> rows[i], ordinal |-> source + (i - 1)]

-----------------------------------------------------------------------------
(* Statements *)

\* The length of a statement of n rows, as multi_row_sql puts it together.
SqlLength(t, n) == Prefix[t] + n * Tuple[t] + (n - 1) * 2

Fits(t, n, limit) ==
    /\ n * Columns[t] <= limit.variables
    /\ SqlLength(t, n) <= limit.length

Least(m, n) == IF m <= n THEN m ELSE n

\* Mutant: the separators are left out.
StatementCapacity_NoSeparators(t, limit) ==
    LET byVariables == limit.variables \div Columns[t]
        bySql == (limit.length - Prefix[t] + 2) \div (Tuple[t] + 1)
    IN IF limit.length < Prefix[t] THEN 0 ELSE Least(byVariables, bySql)

\* statement_capacity, which is an error where this is 0.
StatementCapacity(t, limit) ==
    LET byVariables == limit.variables \div Columns[t]
        bySql == (limit.length - Prefix[t] + 2) \div (Tuple[t] + 2)
    IN IF limit.length < Prefix[t] THEN 0 ELSE Least(byVariables, bySql)

Left(t) == {i \in todo : rows[i] = t}

\* Mutant: chunks are taken from anywhere in the group.
IsChunk_Unordered(c, t) ==
    /\ c \subseteq Left(t)
    /\ Cardinality(c) = Least(StatementCapacity(t, limits), Cardinality(Left(t)))

\* The next of the chunks of a group.
IsChunk(c, t) ==
    /\ c \subseteq Left(t)
    /\ \A i \in c, j \in Left(t) \ c : i < j
    /\ Cardinality(c) = Least(StatementCapacity(t, limits), Cardinality(Left(t)))

-----------------------------------------------------------------------------
(* Calls *)

Init ==
    /\ limits \in Limits
    /\ stored = {}
    /\ pc = "idle"
    /\ rows \in [1..0 -> Tables] /\ source \in Sources
    /\ todo = {} /\ inserted = 0 /\ result = "ok" /\ calls = 0

\* The program changes the limits of its connection.
SetLimits ==
    /\ pc = "idle"
    /\ limits' \in Limits \ {limits}
    /\ UNCHANGED <<stored, pc, batch, todo, inserted, result>>

Call(b, s) ==
    /\ pc = "idle"
    /\ calls < MaxCalls
    /\ calls' = calls + 1
    /\ rows' = b
    /\ source' = s
    /\ todo' = DOMAIN b
    /\ inserted' = 0
    /\ UNCHANGED <<limits, stored>>

Overflows(b, s) == s + (Size(b) - 1) > MaxOrdinal

TooLong(b) == \E t \in Tables :
    (\E i \in DOMAIN b : b[i] = t) /\ StatementCapacity(t, limits) = 0

ReturnEmpty(b, s) ==
    /\ Call(b, s)
    /\ b \in [1..0 -> Tables]
    /\ result' = "ok"
    /\ UNCHANGED pc

RejectOrdinal(b, s) ==
    /\ Call(b, s)
    /\ b \notin [1..0 -> Tables]
    /\ Overflows(b, s)
    /\ result' = "overflow"
    /\ UNCHANGED pc

RejectLimit(b, s) ==
    /\ Call(b, s)
    /\ ~ Overflows(b, s)
    /\ TooLong(b)
    /\ result' = "limit"
    /\ UNCHANGED pc

BeginInserts(b, s) ==
    /\ Call(b, s)
    /\ b \notin [1..0 -> Tables]
    /\ ~ Overflows(b, s)
    /\ ~ TooLong(b)
    /\ result' = "none"
    /\ pc' = "insert"

\* One statement; the tables come one after the other.
InsertChunk(t) ==
    /\ pc = "insert"
    /\ Left(t) # {}
    /\ \A u \in Tables : u < t => Left(u) = {}
    /\ \E c \in SUBSET todo :
        /\ IsChunk(c, t)
        /\ stored' = stored \union {Row(i) : i \in c}
        /\ todo' = todo \ c
        /\ inserted' = inserted + Cardinality(c)
    /\ UNCHANGED <<limits, pc, batch, result>>

ReturnOk ==
    /\ pc = "insert" /\ todo = {}
    /\ pc' = "idle" /\ result' = "ok"
    /\ UNCHANGED <<limits, stored, batch, todo, inserted>>

\* A value is no JSON, or a statement fails; earlier statements stand.
Fail ==
    /\ pc = "insert" /\ todo # {}
    /\ pc' = "idle" /\ result' = "failed"
    /\ UNCHANGED <<limits, stored, batch, todo, inserted>>

Next ==
    \/ SetLimits
    \/ \E b \in Batches, s \in Sources :
        ReturnEmpty(b, s) \/ RejectOrdinal(b, s) \/ RejectLimit(b, s) \/ BeginInserts(b, s)
    \/ \E t \in Tables : InsertChunk(t)
    \/ ReturnOk
    \/ Fail

Spec == Init /\ [][Next]_vars

-----------------------------------------------------------------------------
OfCall == {r \in stored : r.call = calls}

(* Every ordinal in the tables is an i64, and every variable has its type.  *)
TypeOK ==
    /\ limits \in Limits
    /\ stored \subseteq [call : 0..calls, index : 1..MaxRows, table : Tables,
                         ordinal : {n \in Int : n <= MaxOrdinal}]
    /\ pc \in {"idle", "insert"}
    /\ rows \in Batches /\ source \in Sources
    /\ todo \subseteq DOMAIN rows
    /\ inserted \in 0..MaxRows
    /\ result \in {"none", "ok", "overflow", "limit", "failed"}
    /\ calls \in 0..MaxCalls

\* The rows that are newly stored fit into one statement for the first table
\* that has rows left.
StatementFits ==
    inserted' > inserted =>
        \E t \in Tables : /\ Left(t) # {} /\ \A u \in Tables : u < t => Left(u) = {}
                          /\ Fits(t, inserted' - inserted, limits)

(* No statement has more variables or is longer than the connection allows:  *)
(* statement_capacity counts what multi_row_sql writes.                      *)
StatementsFit == [][StatementFits]_vars

(* A call that returns Ok has stored each of its rows once, in its table and *)
(* under its ordinal, and says how many; nothing else is stored by it.       *)
OkMeansAll ==
    result = "ok" => /\ OfCall = {[call |-> calls, index |-> i, table |-> rows[i],
                                   ordinal |-> source + (i - 1)] : i \in DOMAIN rows}
                     /\ inserted = Size(rows)

(* What a call has stored when it fails is the beginning of what it was to   *)
(* store, table by table and in the order of the batch.                      *)
StoredInOrder ==
    \A r \in OfCall : \A i \in DOMAIN rows \ {s.index : s \in OfCall} :
        r.table < rows[i] \/ (r.table = rows[i] /\ r.index < i)

\* What makes these inductive: todo has just the rows that are not stored.
Accounted ==
    /\ OfCall = {Row(i) : i \in DOMAIN rows \ todo}
    /\ inserted + Cardinality(todo) = Size(rows)
    /\ \A i \in DOMAIN rows \ todo, j \in todo :
        rows[i] < rows[j] \/ (rows[i] = rows[j] /\ i < j)
    /\ result = "ok" => todo = {}
    /\ pc = "insert" => /\ ~ Overflows(rows, source)
                        /\ \A i \in DOMAIN rows : StatementCapacity(rows[i], limits) > 0

IInv == TypeOK /\ Accounted
=============================================================================
