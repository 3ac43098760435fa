----------------------------- MODULE TextTable -----------------------------
(***************************************************************************)
(* What the interned writers promise: tables of rows of text, as shown by  *)
(* the _text views, that nobody can tell from tables without dictionaries. *)
(* An upsert happens as a whole or not at all.                             *)
(***************************************************************************)
EXTENDS Naturals, Sequences

CONSTANTS
    Entities,   \* entities with interned fields
    Fields,     \* the fields of each entity but its primary key
    Key,        \* the first unique key of each, {} if it has none
    Words,      \* text
    Null        \* the absent value of an optional field

VARIABLES
    table,      \* the rows everybody sees; a row's primary key is its index
    draft       \* the rows the writer in possession of the database sees

vars == <<table, draft>>

Calls == UNION {[entity : {e}, text : [Fields[e] -> Words \union {Null}]] : e \in Entities}

\* NULL differs from NULL in a unique key.
SameKey(e, row, text) ==
    Key[e] # {} /\ \A f \in Key[e] : row[f] = text[f] /\ text[f] # Null

\* The tables after an upsert: a row with the same key is overwritten and keeps
\* its place, any other is new.
Upserted(tables, e, text) ==
    LET rows == tables[e]
        twins == {i \in DOMAIN rows : SameKey(e, rows[i], text)}
    IN  [tables EXCEPT ![e] = IF twins = {} THEN Append(rows, text)
                              ELSE [i \in DOMAIN rows |-> IF i \in twins THEN text ELSE rows[i]]]

Init == table = [e \in Entities |-> <<>>] /\ draft = table

\* Within the caller's transaction, or in one of its own.
Upsert ==
    \E c \in Calls :
        /\ draft' = Upserted(draft, c.entity, c.text)
        /\ table' \in {table, draft'}

Commit == table' = draft /\ UNCHANGED draft

Rollback == draft' = table /\ UNCHANGED table

Next == Upsert \/ Commit \/ Rollback

Spec == Init /\ [][Next]_vars
=============================================================================
