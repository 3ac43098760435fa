---------------------------- MODULE InternWriter ----------------------------
(***************************************************************************)
(* The generated writers of interned storage on one SQLite database:       *)
(* intern_<domain> and upsert_<entity> as emitted by                       *)
(* packages/rusqlite/src/2_intern_writer.ts (and, with the same statements *)
(* and transactions, packages/sqlx/src/2_intern_writer.ts) over the schema *)
(* of packages/sql/src/5_emit_sql.ts.                                      *)
(*                                                                         *)
(* A step is one SQL statement. Any statement may fail, a writer may find  *)
(* the database busy, and a process may die; callers may wrap the writers  *)
(* in transactions of their own. The database is external: one writer at a *)
(* time, taken by the first statement that writes, and whole transactions. *)
(***************************************************************************)
EXTENDS Naturals, Sequences, SequencesExt

CONSTANTS
    Writers,    \* connections
    Words,      \* text values of one dictionary (an InternDomain)
    Null,       \* an absent optional value
    Entities,   \* entities with interned fields
    Fields,     \* their interned fields, in the order of the declaration
    Key,        \* the columns of entity.unique[0], {} if there is none
    Optional,   \* the nullable fields
    MaxCalls,   \* bound on the calls of writers
    Nobody      \* not a writer

\* The call of intern_<domain> itself, without an entity.
Bare == "bare"

ASSUME InternAssumption ==
    /\ Null \notin Words /\ Nobody \notin Writers /\ Bare \notin Entities
    /\ \A e \in Entities :
           /\ Fields[e] \in Seq(Range(Fields[e])) /\ Fields[e] # <<>>
           /\ Key[e] \subseteq Range(Fields[e])
    /\ MaxCalls \in Nat

VARIABLES
    disk,       \* the committed database
    mem,        \* the database as the writer that holds it sees it
    mark,       \* the database at the savepoint of that writer
    holder,     \* the writer that has written and not yet committed
    outer,      \* writers inside a transaction of their caller
    wpc,        \* the statement each writer is at
    call,       \* its arguments: the entity, if any, and the text of each field
    ids,        \* the dictionary ids it has, in the order of the fields
    result,     \* the id it is about to return
    calls       \* calls so far

dbVars == <<disk, mem, mark, holder>>
localVars == <<call, ids, result>>
vars == <<dbVars, outer, wpc, localVars, calls>>

\* A database: the dictionary and the rows, whose primary keys are their
\* places, since ids are given in order and nothing is ever deleted. History of
\* the writes that are part of this database: `told' is what their callers were
\* told, `said' the words they were made for.
Empty == [dict |-> <<>>, rows |-> [e \in Entities |-> <<>>], told |-> {}, said |-> {}]

Texts(e) == {t \in [Range(Fields[e]) -> Words \union {Null}] :
                \A f \in Range(Fields[e]) \ Optional : t[f] # Null}

\* With NOT NULL and the foreign keys into the dictionary.
Database(d) ==
    /\ d.dict \in Seq(Words)
    /\ \A e \in Entities : \A i \in DOMAIN d.rows[e] :
           /\ d.rows[e][i] \in [Range(Fields[e]) -> 0..Len(d.dict)]
           /\ \A f \in Range(Fields[e]) : d.rows[e][i][f] = 0 => f \in Optional

TypeOK ==
    /\ Database(disk) /\ Database(mem) /\ Database(mark)
    /\ holder \in Writers \union {Nobody}
    /\ outer \subseteq Writers
    /\ wpc \in [Writers -> {"idle", "intern", "lookup", "insert", "select", "release",
                            "word", "wordLookup"}]
    /\ \A w \in Writers : call[w].entity \in Entities \union {Bare}
    /\ ids \in [Writers -> Seq(Nat)] /\ result \in [Writers -> Nat]
    /\ calls \in 0..MaxCalls

Init ==
    /\ disk = Empty /\ mem = Empty /\ mark = Empty /\ holder = Nobody
    /\ outer = {}
    /\ wpc = [w \in Writers |-> "idle"]
    /\ call = [w \in Writers |-> [entity |-> Bare, text |-> Null]]
    /\ ids = [w \in Writers |-> <<>>] /\ result = [w \in Writers |-> 0]
    /\ calls = 0

Goto(w, phase) == wpc' = [wpc EXCEPT ![w] = phase]

-----------------------------------------------------------------------------
(* The dictionary.                                                         *)

Knows(d, word) == \E i \in DOMAIN d.dict : d.dict[i] = word

\* INSERT ... ON CONFLICT(value) DO NOTHING
Learn(d, word) == IF Knows(d, word) THEN d ELSE [d EXCEPT !.dict = Append(@, word)]

\* Mutant: the id of the row inserted last, whether or not there was an insert.
IdOf_LastInsert(d, word) == Len(d.dict)

\* SELECT id ... WHERE value = ?
IdOf(d, word) == CHOOSE i \in DOMAIN d.dict : d.dict[i] = word

\* The _text view: a left join with the dictionary.
Text(d, id) == IF id = 0 THEN Null ELSE d.dict[id]
TextRow(d, row) == [f \in DOMAIN row |-> Text(d, row[f])]
View(d) == [e \in Entities |-> [i \in DOMAIN d.rows[e] |-> TextRow(d, d.rows[e][i])]]

-----------------------------------------------------------------------------
(* The database: transactions and savepoints.                              *)

\* A statement that writes waits for the writer that holds the database.
CanWrite(w) == holder \in {w, Nobody}

\* The first statement to write finds the savepoint's image in the file.
Write(w, d) == holder' = w /\ mem' = d /\ UNCHANGED <<disk, mark>>

\* The savepoint is released with image d; outside a transaction that commits.
ReleaseSavepoint(w, d) ==
    /\ mem' = d /\ mark' = d
    /\ disk' = IF w \in outer THEN disk ELSE d
    /\ holder' = IF w \in outer THEN w ELSE Nobody

\* The savepoint is rolled back; outside a transaction that ends it.
RollbackSavepoint(w) ==
    /\ IF holder = w THEN mem' = mark ELSE UNCHANGED mem
    /\ holder' = IF w \in outer THEN holder
                 ELSE IF holder = w THEN Nobody ELSE holder
    /\ UNCHANGED <<disk, mark>>

\* The transaction is gone, and with it all that was not committed.
RollbackAll(w) ==
    /\ IF holder = w THEN mem' = disk /\ mark' = disk /\ holder' = Nobody
       ELSE UNCHANGED <<mem, mark, holder>>
    /\ UNCHANGED disk

-----------------------------------------------------------------------------
(* upsert_<entity>.                                                        *)

FieldAt(w) == Fields[call[w].entity][Len(ids[w]) + 1]
WordAt(w) == call[w].text[FieldAt(w)]
NewRow(w) == LET fields == Fields[call[w].entity]
             IN  [f \in Range(fields) |-> ids[w][CHOOSE i \in DOMAIN fields : fields[i] = f]]

\* The fields that the conflict clause updates: those outside the key.
Updates(e) == Range(Fields[e]) \ Key[e]

\* The statement after the id of a field is known.
AfterId(w) == IF Len(ids'[w]) = Len(Fields[call[w].entity]) THEN "insert" ELSE "intern"

\* begin_write(): a savepoint, which touches nothing yet.
CallUpsert(w, e, text) ==
    /\ wpc[w] = "idle" /\ calls < MaxCalls
    /\ call' = [call EXCEPT ![w] = [entity |-> e, text |-> text]]
    /\ ids' = [ids EXCEPT ![w] = <<>>]
    /\ calls' = calls + 1
    /\ Goto(w, "intern")
    /\ UNCHANGED <<dbVars, outer, result>>

\* An absent value has no dictionary entry.
SkipNull(w) ==
    /\ wpc[w] = "intern" /\ WordAt(w) = Null
    /\ ids' = [ids EXCEPT ![w] = Append(@, 0)]
    /\ Goto(w, AfterId(w))
    /\ UNCHANGED <<dbVars, outer, call, result, calls>>

\* intern_<domain>: the insert,
InternInsert(w) ==
    /\ wpc[w] = "intern" /\ WordAt(w) # Null
    /\ CanWrite(w)
    /\ Write(w, Learn(mem, WordAt(w)))
    /\ Goto(w, "lookup")
    /\ UNCHANGED <<outer, localVars, calls>>

\* and the select.
InternSelect(w) ==
    /\ wpc[w] = "lookup"
    /\ ids' = [ids EXCEPT ![w] = Append(@, IdOf(mem, WordAt(w)))]
    /\ Goto(w, AfterId(w))
    /\ UNCHANGED <<dbVars, outer, call, result, calls>>

\* The rows that the conflict clause finds: NULL differs from NULL.
Conflicts(d, e, row) ==
    {i \in DOMAIN d.rows[e] :
        Key[e] # {} /\ \A f \in Key[e] : d.rows[e][i][f] = row[f] /\ row[f] # 0}

\* Mutant: every row is new; the conflict clause is missing.
InsertRow_NoConflict(w) ==
    /\ wpc[w] = "insert" /\ CanWrite(w)
    /\ LET e == call[w].entity
       IN  /\ Write(w, [mem EXCEPT !.rows[e] = Append(@, NewRow(w))])
           /\ result' = [result EXCEPT ![w] = Len(mem.rows[e]) + 1]
           /\ Goto(w, "release")
    /\ UNCHANGED <<outer, call, ids, calls>>

\* INSERT ... ON CONFLICT(key) DO UPDATE or DO NOTHING, RETURNING the id of the
\* row it has written, if any.
InsertRow(w) ==
    /\ wpc[w] = "insert" /\ CanWrite(w)
    /\ LET e == call[w].entity
           row == NewRow(w)
           found == Conflicts(mem, e, row)
       IN  \/ /\ found = {}
              /\ Write(w, [mem EXCEPT !.rows[e] = Append(@, row)])
              /\ result' = [result EXCEPT ![w] = Len(mem.rows[e]) + 1]
              /\ Goto(w, "release")
           \/ \E i \in found :
              /\ Updates(e) # {}
              /\ Write(w, [mem EXCEPT !.rows[e][i] =
                             [f \in DOMAIN row |-> IF f \in Updates(e) THEN row[f] ELSE @[f]]])
              /\ result' = [result EXCEPT ![w] = i]
              /\ Goto(w, "release")
           \/ /\ found # {} /\ Updates(e) = {}
              /\ Write(w, mem)
              /\ UNCHANGED result
              /\ Goto(w, "select")
    /\ UNCHANGED <<outer, call, ids, calls>>

\* Nothing was written, so nothing was returned: the row is looked up by its
\* key, with IS for each column.
SelectId(w) ==
    /\ wpc[w] = "select"
    /\ \E i \in DOMAIN mem.rows[call[w].entity] :
           /\ \A f \in Key[call[w].entity] : mem.rows[call[w].entity][i][f] = NewRow(w)[f]
           /\ result' = [result EXCEPT ![w] = i]
    /\ Goto(w, "release")
    /\ UNCHANGED <<dbVars, outer, call, ids, calls>>

Claim(w) == [entity |-> call[w].entity, text |-> call[w].text, id |-> result[w]]
Said(w) == Range(call[w].text) \ {Null}

\* commit() of the savepoint, and Ok(id).
Release(w) ==
    /\ wpc[w] = "release"
    /\ ReleaseSavepoint(w, [mem EXCEPT !.told = @ \union {Claim(w)}, !.said = @ \union Said(w)])
    /\ Goto(w, "idle")
    /\ UNCHANGED <<outer, localVars, calls>>

\* Mutant: the savepoint is released, not rolled back, on the way out.
Fail_Releases(w) ==
    /\ wpc[w] \in {"intern", "lookup", "insert", "select", "release", "word", "wordLookup"}
    /\ IF holder = w THEN ReleaseSavepoint(w, mem) ELSE UNCHANGED dbVars
    /\ Goto(w, "idle")
    /\ UNCHANGED <<outer, localVars, calls>>

\* A statement fails, if only because the database stays busy: `?' returns the
\* error, and dropping the savepoint rolls it back.
Fail(w) ==
    /\ wpc[w] \in {"intern", "lookup", "insert", "select", "release", "word", "wordLookup"}
    /\ RollbackSavepoint(w)
    /\ Goto(w, "idle")
    /\ UNCHANGED <<outer, localVars, calls>>

-----------------------------------------------------------------------------
(* intern_<domain> called by itself: each statement is a transaction of    *)
(* its own, unless the caller has one.                                     *)

CallIntern(w, word) ==
    /\ wpc[w] = "idle" /\ calls < MaxCalls
    /\ call' = [call EXCEPT ![w] = [entity |-> Bare, text |-> word]]
    /\ calls' = calls + 1
    /\ Goto(w, "word")
    /\ UNCHANGED <<dbVars, outer, ids, result>>

BareInsert(w) ==
    /\ wpc[w] = "word" /\ CanWrite(w)
    /\ ReleaseSavepoint(w, [Learn(mem, call[w].text) EXCEPT !.said = @ \union {call[w].text}])
    /\ Goto(w, "wordLookup")
    /\ UNCHANGED <<outer, localVars, calls>>

\* The select sees the caller's transaction, or what is committed.
BareSelect(w) ==
    /\ wpc[w] = "wordLookup"
    /\ result' = [result EXCEPT ![w] = IdOf(IF holder = w THEN mem ELSE disk, call[w].text)]
    /\ Goto(w, "idle")
    /\ UNCHANGED <<dbVars, outer, call, ids, calls>>

-----------------------------------------------------------------------------
(* The callers.                                                            *)

BeginOuter(w) ==
    /\ wpc[w] = "idle" /\ w \notin outer
    /\ outer' = outer \union {w}
    /\ UNCHANGED <<dbVars, wpc, localVars, calls>>

CommitOuter(w) ==
    /\ wpc[w] = "idle" /\ w \in outer
    /\ outer' = outer \ {w}
    /\ disk' = IF holder = w THEN mem ELSE disk
    /\ holder' = IF holder = w THEN Nobody ELSE holder
    /\ UNCHANGED <<mem, mark, wpc, localVars, calls>>

RollbackOuter(w) ==
    /\ wpc[w] = "idle" /\ w \in outer
    /\ outer' = outer \ {w}
    /\ RollbackAll(w)
    /\ UNCHANGED <<wpc, localVars, calls>>

\* The process dies; another takes over its connection from the start.
Die(w) ==
    /\ wpc[w] # "idle" \/ w \in outer
    /\ outer' = outer \ {w}
    /\ RollbackAll(w)
    /\ Goto(w, "idle")
    /\ UNCHANGED <<localVars, calls>>

AllQuiet ==
    /\ calls = MaxCalls /\ \A w \in Writers : wpc[w] = "idle"
    /\ UNCHANGED vars

Step(w) ==
    \/ SkipNull(w) \/ InternInsert(w) \/ InternSelect(w)
    \/ InsertRow(w) \/ SelectId(w) \/ Release(w)
    \/ BareInsert(w) \/ BareSelect(w)

Next ==
    \/ \E w \in Writers :
        \/ \E e \in Entities : \E text \in Texts(e) : CallUpsert(w, e, text)
        \/ \E word \in Words : CallIntern(w, word)
        \/ Step(w) \/ Fail(w)
        \/ BeginOuter(w) \/ CommitOuter(w) \/ RollbackOuter(w) \/ Die(w)
    \/ AllQuiet

Spec == Init /\ [][Next]_vars

-----------------------------------------------------------------------------
(* Properties.                                                             *)

\* Dictionaries cannot be told from tables of text: the committed views, and the
\* views of the writer that holds the database between its calls, behave like
\* text tables with atomic upserts, commits and rollbacks.
Promise == INSTANCE TextTable WITH
    Fields <- [e \in Entities |-> Range(Fields[e])],
    table <- View(disk), draft <- View(mark)
ImplementsTextTable == Promise!Spec

\* An id that a caller was told stays the id of that text: dictionary ids are
\* never given to another word, and a row's key never changes under its id.
ClaimsStand ==
    \A d \in {disk, mem} : \A c \in d.told :
        \A f \in Key[c.entity] : View(d)[c.entity][c.id][f] = c.text[f]

\* What is committed of a dictionary was put there by a call that succeeded, or
\* by intern_<domain> itself: a writer that fails takes its words back along.
NothingLeftBehind == Range(disk.dict) \subseteq disk.said
=============================================================================
