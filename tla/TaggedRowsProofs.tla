--------------------------- MODULE TaggedRowsProofs ---------------------------
(* What insert_all does for every batch, table and limit. *)
EXTENDS TaggedRows, FiniteSetTheorems, TLAPS

(* The product of a quotient with its divisor: what \div returns is the      *)
(* largest n with n * b <= a.                                                *)
LEMMA Quotient ==
    ASSUME NEW a \in Nat, NEW b \in Nat \ {0}, NEW n \in Nat
    PROVE  /\ a \div b \in Nat
           /\ n <= a \div b <=> n * b <= a
<1> DEFINE q == a \div b
<1>1. q \in Nat /\ a = b * q + (a % b) /\ a % b \in 0..(b - 1)
    BY SMT
<1>2. ASSUME n <= q PROVE n * b <= a
    <2>1. n * b <= q * b
        BY <1>1, <1>2, SMT
    <2> QED BY <1>1, <2>1, SMT
<1>3. ASSUME n > q PROVE n * b > a
    <2>1. n * b >= (q + 1) * b
        BY <1>1, <1>3, SMT
    <2> QED BY <1>1, <2>1, SMT
<1> QED BY <1>1, <1>2, <1>3, SMT

(* statement_capacity against multi_row_sql: a statement of n rows fits the   *)
(* limits exactly if n is at most the capacity.                              *)
THEOREM CapacityFits ==
    ASSUME NEW t \in Tables, NEW limit \in [variables : Nat, length : Nat],
           NEW n \in Nat \ {0}
    PROVE  /\ StatementCapacity(t, limit) \in Nat
           /\ n <= StatementCapacity(t, limit) <=> Fits(t, n, limit)
<1> USE TaggedRowsAssumption
<1> DEFINE c == Columns[t]
           w == Tuple[t] + 2
           rest == limit.length - Prefix[t]
<1>0. c \in Nat \ {0} /\ w \in Nat \ {0} /\ Prefix[t] \in Nat /\ Tuple[t] \in Nat
      /\ limit.variables \in Nat /\ limit.length \in Nat
    OBVIOUS
<1>1. /\ limit.variables \div c \in Nat
      /\ n <= limit.variables \div c <=> n * c <= limit.variables
    BY <1>0, Quotient
<1>2. n * w = n * Tuple[t] + n * 2
    BY <1>0, SMT
<1>3. SqlLength(t, n) <= limit.length <=> n * w <= rest + 2
    BY <1>0, <1>2 DEF SqlLength
<1>4. CASE limit.length < Prefix[t]
    <2>1. n * w >= w
        BY <1>0, SMT
    <2>2. ~ (n * w <= rest + 2)
        <3>1. n * Tuple[t] >= 0 /\ n * 2 >= 2
            BY <1>0, SMT
        <3> QED BY <1>0, <1>2, <1>4, <3>1
    <2> QED BY <1>0, <1>3, <1>4, <2>2 DEF StatementCapacity, Fits
<1>5. CASE limit.length >= Prefix[t]
    <2>1. rest + 2 \in Nat
        BY <1>0, <1>5
    <2>2. /\ (rest + 2) \div w \in Nat
          /\ n <= (rest + 2) \div w <=> n * w <= rest + 2
        BY <1>0, <2>1, Quotient
    <2>3. StatementCapacity(t, limit) = Least(limit.variables \div c, (rest + 2) \div w)
        BY <1>0, <1>5 DEF StatementCapacity
    <2> QED BY <1>1, <1>3, <2>2, <2>3 DEF Least, Fits
<1> QED BY <1>0, <1>4, <1>5

-----------------------------------------------------------------------------
(* A batch is a sequence of tables. *)
LEMMA BatchShape ==
    ASSUME NEW b \in Batches
    PROVE  /\ Size(b) \in 0..MaxRows
           /\ DOMAIN b = 1..Size(b)
           /\ IsFiniteSet(DOMAIN b)
           /\ \A i \in DOMAIN b : b[i] \in Tables
           /\ b \in [1..0 -> Tables] <=> DOMAIN b = {}
<1>1. PICK n \in 0..MaxRows : b \in [1..n -> Tables]
    BY DEF Batches
<1>2. n \in Nat
    BY <1>1, TaggedRowsAssumption
<1>3. IsFiniteSet(1..n) /\ Cardinality(1..n) = n
    BY <1>2, FS_Interval
<1>4. DOMAIN b = 1..n /\ Size(b) = n
    BY <1>1, <1>3 DEF Size
<1> QED BY <1>1, <1>2, <1>3, <1>4

(* Taking a chunk away from the rows that are left. *)
LEMMA ChunkCounts ==
    ASSUME IsFiniteSet(todo), NEW c \in SUBSET todo
    PROVE  /\ IsFiniteSet(c) /\ Cardinality(c) \in Nat
           /\ Cardinality(todo) \in Nat
           /\ Cardinality(todo \ c) = Cardinality(todo) - Cardinality(c)
<1>1. IsFiniteSet(c)
    BY FS_Subset
<1>2. todo \intersect c = c
    OBVIOUS
<1>3. Cardinality(todo \ c) = Cardinality(todo) - Cardinality(todo \intersect c)
    BY FS_Difference
<1> QED BY <1>1, <1>2, <1>3, FS_CardinalityType

LEMMA InitIInv == Init => IInv
<1> SUFFICES ASSUME Init PROVE IInv
    OBVIOUS
<1> USE DEF Init
<1>1. rows \in Batches
    <2>1. 0 \in 0..MaxRows
        BY TaggedRowsAssumption
    <2> QED BY <2>1 DEF Batches
<1>2. DOMAIN rows = {} /\ Size(rows) = 0
    BY FS_EmptySet DEF Size
<1>3. TypeOK
    BY <1>1, TaggedRowsAssumption DEF TypeOK
<1>4. Accounted
    BY <1>2, FS_EmptySet DEF Accounted, OfCall
<1> QED BY <1>3, <1>4 DEF IInv

(* Every call begins with a batch of which nothing is stored. *)
LEMMA CallKeeps ==
    ASSUME IInv, NEW b \in Batches, NEW s \in Sources, Call(b, s),
           pc' \in {"idle", "insert"},
           result' \in {"none", "ok", "overflow", "limit", "failed"},
           result' = "ok" => b \in [1..0 -> Tables],
           pc' = "insert" => ~ Overflows(b, s) /\ ~ TooLong(b)
    PROVE  IInv'
<1> USE DEF Call
<1>1. /\ Size(b) \in 0..MaxRows /\ DOMAIN b = 1..Size(b) /\ IsFiniteSet(DOMAIN b)
      /\ \A i \in DOMAIN b : b[i] \in Tables
      /\ b \in [1..0 -> Tables] <=> DOMAIN b = {}
    BY BatchShape
<1>2. calls \in 0..MaxCalls /\ calls' \in 0..MaxCalls
    BY TaggedRowsAssumption DEF IInv, TypeOK
<1>3. TypeOK'
    BY <1>1, <1>2, TaggedRowsAssumption DEF IInv, TypeOK
<1>4. OfCall' = {}
    BY <1>2 DEF OfCall, IInv, TypeOK
<1>5. OfCall' = {Row(i)' : i \in (DOMAIN b) \ DOMAIN b}
    BY <1>4
<1>6. inserted' + Cardinality(todo') = Size(rows')
    BY <1>1 DEF Size
<1>7. pc' = "insert" => \A i \in DOMAIN rows' : StatementCapacity(rows'[i], limits') > 0
    <2> SUFFICES ASSUME pc' = "insert", NEW i \in DOMAIN b
                 PROVE  StatementCapacity(b[i], limits) > 0
        OBVIOUS
    <2>1. StatementCapacity(b[i], limits) # 0 /\ b[i] \in Tables
        BY <1>1 DEF TooLong
    <2>2. limits \in [variables : Nat, length : Nat]
        BY TaggedRowsAssumption DEF IInv, TypeOK
    <2>3. StatementCapacity(b[i], limits) \in Nat
        BY <2>1, <2>2, CapacityFits
    <2> QED BY <2>1, <2>3
<1>8. result' = "ok" => todo' = {}
    BY <1>1
<1>9. pc' = "insert" => ~ Overflows(rows', source')
    OBVIOUS
<1> QED BY <1>3, <1>5, <1>6, <1>7, <1>8, <1>9 DEF IInv, Accounted, Overflows, Size

LEMMA InsertKeeps ==
    ASSUME IInv, NEW t \in Tables, InsertChunk(t)
    PROVE  IInv'
<1> USE DEF InsertChunk
<1>1. PICK c \in SUBSET todo : /\ IsChunk(c, t)
                               /\ stored' = stored \union {Row(i) : i \in c}
                               /\ todo' = todo \ c
                               /\ inserted' = inserted + Cardinality(c)
    OBVIOUS
<1>2. /\ Size(rows) \in 0..MaxRows /\ DOMAIN rows = 1..Size(rows)
      /\ IsFiniteSet(DOMAIN rows) /\ \A i \in DOMAIN rows : rows[i] \in Tables
    BY BatchShape DEF IInv, TypeOK
<1>3. todo \subseteq DOMAIN rows /\ IsFiniteSet(todo)
    BY <1>2, FS_Subset DEF IInv, TypeOK
<1>4. /\ Cardinality(c) \in Nat /\ Cardinality(todo) \in Nat
      /\ Cardinality(todo') = Cardinality(todo) - Cardinality(c)
      /\ Cardinality(todo') \in Nat
    <2>1. IsFiniteSet(todo')
        BY <1>1, <1>3, FS_Subset
    <2> QED BY <1>1, <1>3, <2>1, ChunkCounts, FS_CardinalityType
<1>5. inserted + Cardinality(todo) = Size(rows) /\ inserted \in Nat
    BY TaggedRowsAssumption DEF IInv, TypeOK, Accounted
<1>6. \A i \in c : Row(i) \in [call : 0..calls, index : 1..MaxRows, table : Tables,
                               ordinal : {n \in Int : n <= MaxOrdinal}]
    <2> SUFFICES ASSUME NEW i \in c
                 PROVE  Row(i) \in [call : 0..calls, index : 1..MaxRows, table : Tables,
                                    ordinal : {n \in Int : n <= MaxOrdinal}]
        OBVIOUS
    <2>1. i \in 1..Size(rows) /\ rows[i] \in Tables /\ i \in 1..MaxRows
        BY <1>1, <1>2, <1>3, TaggedRowsAssumption
    <2>2. source \in Int /\ source + (Size(rows) - 1) <= MaxOrdinal
        BY <1>2, TaggedRowsAssumption DEF IInv, TypeOK, Accounted, Overflows
    <2>3. source + (i - 1) \in Int /\ source + (i - 1) <= MaxOrdinal
        BY <1>2, <2>1, <2>2, TaggedRowsAssumption
    <2>4. calls \in 0..calls
        BY TaggedRowsAssumption DEF IInv, TypeOK
    <2> QED BY <2>1, <2>3, <2>4 DEF Row
<1>7. TypeOK'
    <2>1. inserted' \in 0..MaxRows
        BY <1>1, <1>2, <1>4, <1>5, TaggedRowsAssumption
    <2> QED BY <1>1, <1>3, <1>6, <2>1 DEF IInv, TypeOK, batch
<1>8. OfCall' = {Row(i)' : i \in DOMAIN rows' \ todo'}
    <2>1. OfCall' = OfCall \union {Row(i) : i \in c}
        BY <1>1 DEF OfCall, Row, batch
    <2>2. DOMAIN rows \ todo' = (DOMAIN rows \ todo) \union c
        BY <1>1, <1>3
    <2>3. OfCall = {Row(i) : i \in DOMAIN rows \ todo}
        BY DEF IInv, Accounted
    <2>4. OfCall' = {Row(i) : i \in DOMAIN rows \ todo'}
        BY <2>1, <2>2, <2>3
    <2> QED BY <2>4 DEF Row, batch
<1>9. \A i \in DOMAIN rows' \ todo', j \in todo' :
        rows'[i] < rows'[j] \/ (rows'[i] = rows'[j] /\ i < j)
    <2> SUFFICES ASSUME NEW i \in DOMAIN rows \ todo', NEW j \in todo'
                 PROVE  rows[i] < rows[j] \/ (rows[i] = rows[j] /\ i < j)
        BY DEF batch
    <2>1. CASE i \notin todo
        BY <1>1, <2>1 DEF IInv, Accounted
    <2>2. CASE i \in c
        <3>1. rows[i] = t /\ rows[j] \in Tables /\ j \in todo
            BY <1>1, <1>2, <1>3, <2>2 DEF IsChunk, Left
        <3>2. ~ (rows[j] < t)
            BY <3>1 DEF Left
        <3>3. CASE rows[j] = t
            BY <1>1, <2>2, <3>1, <3>3 DEF IsChunk, Left
        <3>4. CASE rows[j] > t
            BY <3>1, <3>4
        <3> QED BY <3>1, <3>2, <3>3, <3>4, TaggedRowsAssumption DEF Tables
    <2> QED BY <1>1, <2>1, <2>2
<1>10. inserted' + Cardinality(todo') = Size(rows')
    BY <1>1, <1>4, <1>5 DEF batch
<1>11. result' = "ok" => todo' = {}
    BY <1>1 DEF IInv, Accounted
<1>12. pc' = "insert" => /\ ~ Overflows(rows', source')
                         /\ \A i \in DOMAIN rows' : StatementCapacity(rows'[i], limits') > 0
    BY DEF IInv, Accounted, batch
<1> QED BY <1>7, <1>8, <1>9, <1>10, <1>11, <1>12 DEF IInv, Accounted, Overflows, Size

LEMMA NextIInv == IInv /\ [Next]_vars => IInv'
<1> SUFFICES ASSUME IInv, [Next]_vars PROVE IInv'
    OBVIOUS
<1> USE DEF IInv
<1>1. CASE SetLimits
    BY <1>1 DEF SetLimits, batch, TypeOK, Accounted, OfCall, Row, Size, Overflows
<1>2. ASSUME NEW b \in Batches, NEW s \in Sources,
             ReturnEmpty(b, s) \/ RejectOrdinal(b, s) \/ RejectLimit(b, s)
             \/ BeginInserts(b, s)
      PROVE  IInv'
    <2>1. pc \in {"idle", "insert"}
        BY DEF TypeOK
    <2>2. CASE ReturnEmpty(b, s)
        BY <2>1, <2>2, CallKeeps DEF ReturnEmpty, Call
    <2>3. CASE RejectOrdinal(b, s)
        BY <2>1, <2>3, CallKeeps DEF RejectOrdinal, Call
    <2>4. CASE RejectLimit(b, s)
        BY <2>1, <2>4, CallKeeps DEF RejectLimit, Call
    <2>5. CASE BeginInserts(b, s)
        BY <2>1, <2>5, CallKeeps DEF BeginInserts
    <2> QED BY <1>2, <2>2, <2>3, <2>4, <2>5
<1>3. ASSUME NEW t \in Tables, InsertChunk(t) PROVE IInv'
    BY <1>3, InsertKeeps
<1>4. CASE ReturnOk
    BY <1>4 DEF ReturnOk, batch, TypeOK, Accounted, OfCall, Row, Size, Overflows
<1>5. CASE Fail
    BY <1>5 DEF Fail, batch, TypeOK, Accounted, OfCall, Row, Size, Overflows
<1>6. CASE UNCHANGED vars
    BY <1>6 DEF vars, batch, TypeOK, Accounted, OfCall, Row, Size, Overflows
<1> QED BY <1>1, <1>2, <1>3, <1>4, <1>5, <1>6 DEF Next

(* The inductive invariant holds in every reachable state. *)
THEOREM Invariance == Spec => []IInv
<1> QED BY InitIInv, NextIInv, PTL DEF Spec

(* Every ordinal in the tables is an i64: see TypeOK. *)
THEOREM TypeCorrect == Spec => []TypeOK
<1>1. IInv => TypeOK
    BY DEF IInv
<1> QED BY <1>1, Invariance, PTL

(* A call that returns Ok has stored all of its rows, each once. *)
THEOREM Complete == Spec => []OkMeansAll
<1>1. IInv => OkMeansAll
    <2> SUFFICES ASSUME IInv, result = "ok" PROVE OkMeansAll
        BY DEF OkMeansAll
    <2>1. todo = {} /\ Cardinality(todo) = 0
        BY FS_EmptySet DEF IInv, Accounted
    <2>2. inserted = Size(rows)
        BY <2>1, BatchShape DEF IInv, Accounted, TypeOK
    <2> QED BY <2>1, <2>2 DEF IInv, Accounted, OkMeansAll, Row
<1> QED BY <1>1, Invariance, PTL

(* What a failed call has stored is the beginning of its batch. *)
THEOREM Ordered == Spec => []StoredInOrder
<1>1. IInv => StoredInOrder
    <2> SUFFICES ASSUME IInv, NEW r \in OfCall,
                        NEW i \in DOMAIN rows \ {s.index : s \in OfCall}
                 PROVE  r.table < rows[i] \/ (r.table = rows[i] /\ r.index < i)
        BY DEF StoredInOrder
    <2>1. PICK k \in DOMAIN rows \ todo : r = Row(k)
        BY DEF IInv, Accounted
    <2>2. r.index = k /\ r.table = rows[k]
        BY <2>1 DEF Row
    <2>3. i \in todo
        <3> SUFFICES ASSUME i \notin todo PROVE FALSE
            OBVIOUS
        <3>1. Row(i) \in OfCall /\ Row(i).index = i
            BY DEF IInv, Accounted, Row
        <3> QED BY <3>1
    <2> QED BY <2>2, <2>3 DEF IInv, Accounted
<1> QED BY <1>1, Invariance, PTL

(* No statement goes beyond the limits of its connection. *)
THEOREM WithinLimits == Spec => StatementsFit
<1>1. IInv /\ [Next]_vars => StatementFits
    <2> SUFFICES ASSUME IInv, [Next]_vars, inserted' > inserted
                 PROVE  \E t \in Tables :
                            /\ Left(t) # {} /\ \A u \in Tables : u < t => Left(u) = {}
                            /\ Fits(t, inserted' - inserted, limits)
        BY DEF StatementFits
    <2>1. inserted \in Nat
        BY TaggedRowsAssumption DEF IInv, TypeOK
    <2>2. PICK t \in Tables : InsertChunk(t)
        BY <2>1 DEF Next, SetLimits, ReturnEmpty, RejectOrdinal, RejectLimit,
                    BeginInserts, Call, ReturnOk, Fail, vars
    <2>3. PICK c \in SUBSET todo : IsChunk(c, t) /\ inserted' = inserted + Cardinality(c)
        BY <2>2 DEF InsertChunk
    <2>4. IsFiniteSet(todo)
        BY BatchShape, FS_Subset DEF IInv, TypeOK
    <2>5. Cardinality(c) \in Nat
        BY <2>4, ChunkCounts
    <2>6. Cardinality(c) # 0 /\ inserted' - inserted = Cardinality(c)
        BY <2>1, <2>3, <2>5
    <2>7. IsFiniteSet(Left(t)) /\ Cardinality(Left(t)) \in Nat
        BY <2>4, FS_Subset, FS_CardinalityType DEF Left
    <2>8. limits \in [variables : Nat, length : Nat]
        BY TaggedRowsAssumption DEF IInv, TypeOK
    <2>9. /\ StatementCapacity(t, limits) \in Nat
          /\ Cardinality(c) <= StatementCapacity(t, limits)
                => Fits(t, Cardinality(c), limits)
        BY <2>5, <2>6, <2>8, CapacityFits
    <2>10. Cardinality(c) <= StatementCapacity(t, limits)
        BY <2>3, <2>7, <2>9 DEF IsChunk, Least
    <2> QED BY <2>2, <2>6, <2>9, <2>10 DEF InsertChunk
<1> QED BY <1>1, Invariance, PTL DEF Spec, StatementsFit
=============================================================================
