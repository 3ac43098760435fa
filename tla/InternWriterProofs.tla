-------------------------- MODULE InternWriterProofs --------------------------
(* The interned writers on one database, for any number of connections,      *)
(* words and entities: what callers were told stands, and the text views     *)
(* behave like tables without dictionaries.                                   *)
EXTENDS InternWriter, SequenceTheorems, TLAPS

-----------------------------------------------------------------------------
(* The inductive invariant.                                                *)

Row(e) == [Range(Fields[e]) -> Nat]
AnyText == UNION {Texts(e) : e \in Entities}
Claims == [entity : Entities, text : AnyText, id : Nat]

Record(d) ==
    /\ d \in [dict : Seq(Words), rows : {d.rows}, told : SUBSET Claims, said : SUBSET Words]
    /\ d.rows \in [Entities -> Range(d.rows)]

Shape(d) == Record(d) /\ \A e \in Entities : d.rows[e] \in Seq(Row(e))

\* The UNIQUE value column of the dictionary.
DistinctWords(d) == \A i, j \in DOMAIN d.dict : d.dict[i] = d.dict[j] => i = j

\* The UNIQUE keys of the rows, where NULL differs from NULL.
DistinctKeys(d) ==
    \A e \in Entities : \A i, j \in DOMAIN d.rows[e] :
        Key[e] # {} /\ (\A f \in Key[e] : d.rows[e][i][f] = d.rows[e][j][f] /\ d.rows[e][i][f] # 0)
            => i = j

\* A row has the text that its caller was told of.
TellsOf(d, e, id, text) ==
    id \in DOMAIN d.rows[e] /\ \A f \in Key[e] : Text(d, d.rows[e][id][f]) = text[f]

ToldStand(d) == \A c \in d.told : TellsOf(d, c.entity, c.id, c.text)

Sound(d) == Shape(d) /\ Database(d) /\ DistinctWords(d) /\ DistinctKeys(d) /\ ToldStand(d)

\* Every word is one that somebody said.
Clean(d) == \A i \in DOMAIN d.dict : d.dict[i] \in d.said

\* d has the words of c, perhaps more.
Extends(d, c) == \A word \in Words : Knows(c, word) => Knows(d, word)

\* The committed image is part of the savepoint's, and that of what the writer
\* sees; only the last has words that nobody has said yet.
DbInv ==
    /\ Sound(disk) /\ Sound(mark) /\ Sound(mem)
    /\ Clean(disk) /\ Clean(mark)
    /\ Extends(mark, disk) /\ Extends(mem, mark)
    /\ holder = Nobody => mem = disk /\ mark = disk

Upserting == {"intern", "lookup", "insert", "select", "release"}

CallType ==
    call \in [Writers -> [entity : Entities \union {Bare}, text : AnyText \union Words \union {Null}]]

\* The arguments of a call, and how far it has come with its fields.
CallOf(w) ==
    /\ wpc[w] \in Upserting => call[w].entity \in Entities /\ call[w].text \in Texts(call[w].entity)
    /\ wpc[w] \in {"word", "wordLookup"} => call[w].text \in Words
    /\ wpc[w] \in {"intern", "lookup"} => Len(ids[w]) < Len(Fields[call[w].entity])
    /\ wpc[w] \in {"insert", "select", "release"} => Len(ids[w]) = Len(Fields[call[w].entity])

\* The ids that a call has found are those of its words, as long as it holds
\* the database.
IdsOf(w) ==
    wpc[w] \in Upserting =>
        \A i \in 1..Len(ids[w]) :
            LET text == call[w].text[Fields[call[w].entity][i]] IN
            \/ text = Null /\ ids[w][i] = 0
            \/ /\ text # Null /\ holder = w
               /\ ids[w][i] \in DOMAIN mem.dict /\ mem.dict[ids[w][i]] = text

\* What the writer that holds the database sees, against the savepoint's image:
\* new words show in no view before their row does.
HoldOf(w) ==
    /\ holder = w /\ w \notin outer => mark = disk /\ wpc[w] \in Upserting
    /\ holder = w /\ wpc[w] \notin Upserting => mem = mark
    /\ holder = w /\ wpc[w] \in {"intern", "lookup", "insert"} => View(mem) = View(mark)
    /\ holder = w /\ wpc[w] \in Upserting =>
           \A i \in DOMAIN mem.dict :
               mem.dict[i] \in mem.said \/ \E f \in DOMAIN call[w].text : call[w].text[f] = mem.dict[i]
    /\ wpc[w] \in {"lookup", "select", "release"} => holder = w
    /\ wpc[w] = "lookup" => WordAt(w) # Null /\ Knows(mem, WordAt(w))
    /\ wpc[w] \in {"select", "release"} =>
           View(mem) = Promise!Upserted(View(mark), call[w].entity, call[w].text)
    /\ wpc[w] = "release" => TellsOf(mem, call[w].entity, result[w], call[w].text)
    /\ wpc[w] = "wordLookup" => Knows(IF holder = w THEN mem ELSE disk, call[w].text)

WriterInv(w) == CallOf(w) /\ IdsOf(w) /\ HoldOf(w)

IInv == TypeOK /\ DbInv /\ CallType /\ \A w \in Writers : WriterInv(w)

-----------------------------------------------------------------------------
(* Databases.                                                              *)

LEMMA FieldsShape ==
    ASSUME NEW e \in Entities
    PROVE  /\ Len(Fields[e]) \in Nat \ {0} /\ DOMAIN Fields[e] = 1..Len(Fields[e])
           /\ \A i \in 1..Len(Fields[e]) : Fields[e][i] \in Range(Fields[e])
           /\ \A f \in Range(Fields[e]) : \E i \in 1..Len(Fields[e]) : Fields[e][i] = f
           /\ Key[e] \subseteq Range(Fields[e])
<1>1. /\ Fields[e] \in Seq(Range(Fields[e])) /\ Fields[e] # <<>>
      /\ Key[e] \subseteq Range(Fields[e])
    BY InternAssumption
<1>2. Len(Fields[e]) \in Nat \ {0} /\ DOMAIN Fields[e] = 1..Len(Fields[e])
    BY <1>1, EmptySeq, LenProperties
<1> QED BY <1>1, <1>2 DEF Range

LEMMA SoundParts ==
    ASSUME NEW d, Sound(d)
    PROVE  /\ d.dict \in Seq(Words) /\ Len(d.dict) \in Nat /\ DOMAIN d.dict = 1..Len(d.dict)
           /\ \A i \in DOMAIN d.dict : d.dict[i] \in Words
           /\ \A e \in Entities : DOMAIN d.rows[e] = 1..Len(d.rows[e]) /\ Len(d.rows[e]) \in Nat
           /\ \A e \in Entities : \A i \in DOMAIN d.rows[e] :
                  /\ d.rows[e][i] \in [Range(Fields[e]) -> 0..Len(d.dict)]
                  /\ DOMAIN d.rows[e][i] = Range(Fields[e])
                  /\ \A f \in Range(Fields[e]) : d.rows[e][i][f] \in 0..Len(d.dict)
<1>1. d.dict \in Seq(Words) /\ \A e \in Entities : d.rows[e] \in Seq(Row(e))
    BY DEF Sound, Shape, Record
<1>2. Len(d.dict) \in Nat /\ DOMAIN d.dict = 1..Len(d.dict)
    BY <1>1, LenProperties
<1>3. \A i \in DOMAIN d.dict : d.dict[i] \in Words
    BY <1>1, <1>2, ElementOfSeq
<1>4. \A e \in Entities : DOMAIN d.rows[e] = 1..Len(d.rows[e]) /\ Len(d.rows[e]) \in Nat
    BY <1>1, LenProperties
<1>5. \A e \in Entities : \A i \in DOMAIN d.rows[e] : d.rows[e][i] \in [Range(Fields[e]) -> 0..Len(d.dict)]
    BY DEF Sound, Database
<1> QED BY <1>1, <1>2, <1>3, <1>4, <1>5

(* What a statement changes of a database, and what it leaves: the words, *)
LEMMA WordsChanged ==
    ASSUME NEW d, Record(d), NEW words \in Seq(Words), NEW l, l = [d EXCEPT !.dict = words]
    PROVE  Record(l) /\ l.dict = words /\ l.rows = d.rows /\ l.told = d.told /\ l.said = d.said
BY DEF Record

(* and the rows of one table. *)
Changes(l, d, e, table) ==
    /\ Record(l) /\ l.dict = d.dict /\ l.told = d.told /\ l.said = d.said
    /\ l.rows = [d.rows EXCEPT ![e] = table]

LEMMA RowsChanged ==
    ASSUME NEW d, Record(d), NEW e \in Entities, NEW table, NEW l, l = [d EXCEPT !.rows[e] = table]
    PROVE  Changes(l, d, e, table)
<1>1. /\ l.dict = d.dict /\ l.told = d.told /\ l.said = d.said
      /\ l.rows = [d.rows EXCEPT ![e] = table]
    BY DEF Record
<1>2. l \in [dict : Seq(Words), rows : {l.rows}, told : SUBSET Claims, said : SUBSET Words]
    BY DEF Record
<1>3. l.rows \in [Entities -> Range(l.rows)]
    BY <1>1 DEF Record, Range
<1> QED BY <1>1, <1>2, <1>3 DEF Record, Changes

LEMMA TableChanged ==
    ASSUME NEW d, Record(d), NEW e \in Entities, NEW table, NEW l, Changes(l, d, e, table)
    PROVE  /\ Record(l) /\ l.dict = d.dict /\ l.told = d.told /\ l.said = d.said
           /\ l.rows[e] = table /\ \A o \in Entities \ {e} : l.rows[o] = d.rows[o]
BY DEF Record, Changes

(* An id never loses its word when the dictionary grows. *)
LEMMA SameTexts ==
    ASSUME NEW d, NEW l, Sound(d), l.rows = d.rows, Len(l.dict) \in Nat,
           DOMAIN l.dict = 1..Len(l.dict), Len(d.dict) <= Len(l.dict),
           \A i \in DOMAIN d.dict : l.dict[i] = d.dict[i]
    PROVE  /\ View(l) = View(d)
           /\ \A id \in 0..Len(d.dict) : Text(l, id) = Text(d, id)
<1>1. ASSUME NEW id \in 0..Len(d.dict) PROVE Text(l, id) = Text(d, id)
    BY SoundParts DEF Text
<1>2. ASSUME NEW e \in Entities, NEW i \in DOMAIN d.rows[e]
      PROVE  TextRow(l, d.rows[e][i]) = TextRow(d, d.rows[e][i])
    <2>1. DOMAIN d.rows[e][i] = Range(Fields[e]) /\ \A f \in Range(Fields[e]) : d.rows[e][i][f] \in 0..Len(d.dict)
        BY SoundParts
    <2> QED BY <1>1, <2>1 DEF TextRow
<1>3. View(l) = View(d)
    BY <1>2 DEF View
<1> QED BY <1>1, <1>3

LEMMA LearnWord ==
    ASSUME NEW d, Sound(d), NEW word \in Words
    PROVE  /\ Sound(Learn(d, word)) /\ View(Learn(d, word)) = View(d) /\ Knows(Learn(d, word), word)
           /\ Learn(d, word).rows = d.rows /\ Learn(d, word).told = d.told /\ Learn(d, word).said = d.said
           /\ \A i \in DOMAIN d.dict : i \in DOMAIN Learn(d, word).dict /\ Learn(d, word).dict[i] = d.dict[i]
           /\ \A i \in DOMAIN Learn(d, word).dict :
                  Learn(d, word).dict[i] = word \/ (i \in DOMAIN d.dict /\ Learn(d, word).dict[i] = d.dict[i])
<1>1. CASE Knows(d, word)
    BY <1>1 DEF Learn
<1>2. CASE ~ Knows(d, word)
    <2> DEFINE l == Learn(d, word)
    <2>1. PICK n \in Nat : n = Len(d.dict)
        BY SoundParts
    <2>2. PICK words \in Seq(Words) : words = Append(d.dict, word)
        BY SoundParts, AppendProperties
    <2>a. l = [d EXCEPT !.dict = words]
        BY <1>2, <2>2 DEF Learn
    <2> HIDE DEF l
    <2>3. Record(l) /\ l.dict = Append(d.dict, word) /\ l.rows = d.rows /\ l.told = d.told /\ l.said = d.said
        <3>1. Record(d)
            BY DEF Sound, Shape
        <3>2. Record(l) /\ l.dict = words /\ l.rows = d.rows /\ l.told = d.told /\ l.said = d.said
            BY <2>a, <3>1, WordsChanged
        <3> QED BY <2>2, <3>2
    <2>4. d.dict \in Seq(Words) /\ DOMAIN d.dict = 1..n
        BY <2>1, SoundParts
    <2>5. /\ l.dict \in Seq(Words) /\ Len(l.dict) = n + 1
          /\ \A i \in 1..n : l.dict[i] = d.dict[i]
          /\ l.dict[n + 1] = word
        BY <2>1, <2>3, <2>4, AppendProperties
    <2>6. DOMAIN l.dict = 1..(n + 1)
        BY <2>5, LenProperties
    <2>7. Len(l.dict) \in Nat /\ DOMAIN l.dict = 1..Len(l.dict) /\ Len(d.dict) <= Len(l.dict)
        BY <2>1, <2>5, <2>6
    <2>8. \A i \in DOMAIN d.dict : l.dict[i] = d.dict[i]
        BY <2>4, <2>5
    <2>9. View(l) = View(d) /\ \A id \in 0..Len(d.dict) : Text(l, id) = Text(d, id)
        BY <2>3, <2>7, <2>8, SameTexts
    <2>10. Shape(l)
        BY <2>3 DEF Sound, Shape
    <2>11. Database(l)
        <3> SUFFICES ASSUME NEW e \in Entities, NEW i \in DOMAIN l.rows[e]
                     PROVE  /\ l.rows[e][i] \in [Range(Fields[e]) -> 0..Len(l.dict)]
                            /\ \A f \in Range(Fields[e]) : l.rows[e][i][f] = 0 => f \in Optional
            BY <2>5 DEF Database
        <3>1. d.rows[e][i] \in [Range(Fields[e]) -> 0..n]
            BY <2>1, <2>3, SoundParts
        <3>2. 0..n \subseteq 0..(n + 1)
            OBVIOUS
        <3> QED BY <2>3, <2>5, <3>1, <3>2 DEF Sound, Database
    <2>12. DistinctWords(l)
        <3>1. \A i \in 1..n : d.dict[i] # word
            BY <1>2, <2>4 DEF Knows
        <3>2. \A i, j \in 1..n : d.dict[i] = d.dict[j] => i = j
            BY <2>4 DEF Sound, DistinctWords
        <3>3. \A i \in 1..(n + 1) : i \in 1..n \/ i = n + 1
            OBVIOUS
        <3> QED BY <2>5, <2>6, <3>1, <3>2, <3>3 DEF DistinctWords
    <2>13. DistinctKeys(l)
        BY <2>3 DEF Sound, DistinctKeys
    <2>14. ToldStand(l)
        <3> SUFFICES ASSUME NEW c \in l.told
                     PROVE  TellsOf(l, c.entity, c.id, c.text)
            BY DEF ToldStand
        <3>1. c \in Claims /\ TellsOf(d, c.entity, c.id, c.text)
            BY <2>3 DEF Sound, Shape, Record, ToldStand
        <3>2. c.entity \in Entities
            BY <3>1 DEF Claims
        <3>3. \A f \in Key[c.entity] : d.rows[c.entity][c.id][f] \in 0..Len(d.dict)
            BY <3>1, <3>2, SoundParts, FieldsShape DEF TellsOf
        <3> QED BY <2>3, <2>9, <3>1, <3>3 DEF TellsOf
    <2>15. Sound(l)
        BY <2>10, <2>11, <2>12, <2>13, <2>14 DEF Sound
    <2>16. Knows(l, word)
        BY <2>5, <2>6 DEF Knows
    <2>17. /\ \A i \in DOMAIN l.dict : l.dict[i] = word \/ (i \in DOMAIN d.dict /\ l.dict[i] = d.dict[i])
           /\ \A i \in DOMAIN d.dict : i \in DOMAIN l.dict /\ l.dict[i] = d.dict[i]
        BY <2>4, <2>5, <2>6
    <2> QED BY <2>3, <2>9, <2>15, <2>16, <2>17 DEF l
<1> QED BY <1>1, <1>2

(* The id of a word that the dictionary has. *)
LEMMA IdOfWord ==
    ASSUME NEW d, NEW word, Knows(d, word)
    PROVE  IdOf(d, word) \in DOMAIN d.dict /\ d.dict[IdOf(d, word)] = word
BY DEF Knows, IdOf

(* The text of an id tells which id it is. *)
LEMMA TextTells ==
    ASSUME NEW d, Sound(d), NEW a \in 0..Len(d.dict), NEW b \in 0..Len(d.dict)
    PROVE  /\ (Text(d, a) = Text(d, b) /\ Text(d, b) # Null) <=> (a = b /\ b # 0)
           /\ Text(d, a) \in Words \union {Null}
           /\ Text(d, a) = Null <=> a = 0
<1>1. /\ DOMAIN d.dict = 1..Len(d.dict) /\ Len(d.dict) \in Nat
      /\ \A i \in DOMAIN d.dict : d.dict[i] \in Words
      /\ \A i, j \in DOMAIN d.dict : d.dict[i] = d.dict[j] => i = j
    BY SoundParts DEF Sound, DistinctWords
<1>2. \A i \in 0..Len(d.dict) : i # 0 => i \in DOMAIN d.dict
    BY <1>1
<1>3. Null \notin Words
    BY InternAssumption
<1> QED BY <1>1, <1>2, <1>3 DEF Text

(* The view of a table is a table of text. *)
LEMMA ViewShape ==
    ASSUME NEW d, Sound(d), NEW e \in Entities
    PROVE  /\ View(d)[e] \in Seq([Range(Fields[e]) -> Words \union {Null}])
           /\ Len(View(d)[e]) = Len(d.rows[e]) /\ DOMAIN View(d)[e] = DOMAIN d.rows[e]
           /\ \A i \in DOMAIN d.rows[e] : \A f \in Range(Fields[e]) :
                  View(d)[e][i][f] = Text(d, d.rows[e][i][f])
           /\ \A i \in DOMAIN d.rows[e] : View(d)[e][i] = TextRow(d, d.rows[e][i])
<1>1. View(d)[e] = [i \in DOMAIN d.rows[e] |-> TextRow(d, d.rows[e][i])]
    BY DEF View
<1>2. DOMAIN d.rows[e] = 1..Len(d.rows[e]) /\ Len(d.rows[e]) \in Nat
    BY SoundParts
<1>3. ASSUME NEW i \in DOMAIN d.rows[e]
      PROVE  /\ TextRow(d, d.rows[e][i]) \in [Range(Fields[e]) -> Words \union {Null}]
             /\ \A f \in Range(Fields[e]) : TextRow(d, d.rows[e][i])[f] = Text(d, d.rows[e][i][f])
    <2>1. DOMAIN d.rows[e][i] = Range(Fields[e]) /\ \A f \in Range(Fields[e]) : d.rows[e][i][f] \in 0..Len(d.dict)
        BY SoundParts
    <2>2. \A f \in Range(Fields[e]) : Text(d, d.rows[e][i][f]) \in Words \union {Null}
        BY <2>1, TextTells
    <2> QED BY <2>1, <2>2 DEF TextRow
<1>4. View(d)[e] \in Seq([Range(Fields[e]) -> Words \union {Null}])
    BY <1>1, <1>2, <1>3
<1>5. DOMAIN View(d)[e] = DOMAIN d.rows[e]
    BY <1>1
<1>6. DOMAIN View(d)[e] = 1..Len(View(d)[e]) /\ Len(View(d)[e]) \in Nat
    BY <1>4, LenProperties
<1> QED BY <1>1, <1>2, <1>3, <1>4, <1>5, <1>6

LEMMA ViewCell ==
    ASSUME NEW d, Sound(d), NEW e \in Entities, NEW i \in DOMAIN d.rows[e], NEW f \in Range(Fields[e])
    PROVE  View(d)[e][i][f] = Text(d, d.rows[e][i][f])
BY ViewShape

-----------------------------------------------------------------------------
(* Rows.                                                                   *)

\* A row of dictionary ids that spells a text.
Spells(d, e, row, text) ==
    /\ row \in [Range(Fields[e]) -> 0..Len(d.dict)] /\ text \in Texts(e)
    /\ \A f \in Range(Fields[e]) : Text(d, row[f]) = text[f]

LEMMA SpellsParts ==
    ASSUME NEW d, Sound(d), NEW e \in Entities, NEW row, NEW text, Spells(d, e, row, text)
    PROVE  /\ row \in Row(e) /\ DOMAIN row = Range(Fields[e]) /\ text \in AnyText
           /\ text \in [Range(Fields[e]) -> Words \union {Null}]
           /\ TextRow(d, row) = text
           /\ \A f \in Range(Fields[e]) : row[f] = 0 => f \in Optional
<1>1. row \in Row(e) /\ DOMAIN row = Range(Fields[e])
    BY SoundParts DEF Spells, Row
<1>2. text \in AnyText /\ text \in [Range(Fields[e]) -> Words \union {Null}]
    BY DEF Spells, Texts, AnyText
<1>3. TextRow(d, row) = text
    BY <1>1, <1>2 DEF Spells, TextRow
<1>4. \A f \in Range(Fields[e]) : row[f] = 0 => f \in Optional
    BY DEF Spells, Text, Texts
<1> QED BY <1>1, <1>2, <1>3, <1>4

(* The rows that the conflict clause finds are the ones with the same key of *)
(* text, and there is at most one.                                            *)
LEMMA TwinsAreConflicts ==
    ASSUME NEW d, Sound(d), NEW e \in Entities, NEW row, NEW text, Spells(d, e, row, text)
    PROVE  /\ {i \in DOMAIN View(d)[e] : Promise!SameKey(e, View(d)[e][i], text)} = Conflicts(d, e, row)
           /\ \A i, j \in Conflicts(d, e, row) : i = j
           /\ \A i \in Conflicts(d, e, row) :
                  i \in DOMAIN d.rows[e] /\ \A f \in Key[e] : d.rows[e][i][f] = row[f] /\ row[f] # 0
<1>1. Key[e] \subseteq Range(Fields[e])
    BY FieldsShape
<1>2. ASSUME NEW i \in DOMAIN d.rows[e], NEW f \in Key[e]
      PROVE  (View(d)[e][i][f] = text[f] /\ text[f] # Null) <=> (d.rows[e][i][f] = row[f] /\ row[f] # 0)
    <2>1. f \in Range(Fields[e]) /\ row[f] \in 0..Len(d.dict) /\ text[f] = Text(d, row[f])
        BY <1>1 DEF Spells
    <2>2. d.rows[e][i][f] \in 0..Len(d.dict)
        BY <2>1, SoundParts
    <2>3. View(d)[e][i][f] = Text(d, d.rows[e][i][f])
        BY <2>1, ViewShape
    <2> QED BY <2>1, <2>2, <2>3, TextTells
<1>3. \A i \in DOMAIN d.rows[e] :
          Promise!SameKey(e, View(d)[e][i], text)
              <=> Key[e] # {} /\ \A f \in Key[e] : d.rows[e][i][f] = row[f] /\ row[f] # 0
    BY <1>2 DEF Promise!SameKey
<1>4. {i \in DOMAIN View(d)[e] : Promise!SameKey(e, View(d)[e][i], text)} = Conflicts(d, e, row)
    BY <1>3, ViewShape DEF Conflicts
<1>5. \A i, j \in Conflicts(d, e, row) : i = j
    BY DEF Conflicts, Sound, DistinctKeys
<1> QED BY <1>4, <1>5 DEF Conflicts

(* What the abstract table becomes, in the three cases of the statement. *)
LEMMA UpsertedView ==
    ASSUME NEW d, Sound(d), NEW e \in Entities, NEW row, NEW text, Spells(d, e, row, text)
    PROVE  /\ DOMAIN Promise!Upserted(View(d), e, text) = Entities
           /\ \A o \in Entities \ {e} : Promise!Upserted(View(d), e, text)[o] = View(d)[o]
           /\ Conflicts(d, e, row) = {} =>
                  Promise!Upserted(View(d), e, text)[e] = Append(View(d)[e], text)
           /\ \A k \in Conflicts(d, e, row) :
                  Promise!Upserted(View(d), e, text)[e] =
                      [i \in DOMAIN d.rows[e] |-> IF i = k THEN text ELSE View(d)[e][i]]
<1> DEFINE twins == {i \in DOMAIN View(d)[e] : Promise!SameKey(e, View(d)[e][i], text)}
           new == IF twins = {} THEN Append(View(d)[e], text)
                  ELSE [i \in DOMAIN View(d)[e] |-> IF i \in twins THEN text ELSE View(d)[e][i]]
<1>1. twins = Conflicts(d, e, row) /\ \A i, j \in Conflicts(d, e, row) : i = j
    BY TwinsAreConflicts
<1>2. Promise!Upserted(View(d), e, text) = [View(d) EXCEPT ![e] = new]
    BY DEF Promise!Upserted
<1>3. DOMAIN View(d) = Entities /\ DOMAIN View(d)[e] = DOMAIN d.rows[e]
    BY ViewShape DEF View
<1> HIDE DEF twins
<1>4. ASSUME NEW k \in Conflicts(d, e, row)
      PROVE  new = [i \in DOMAIN d.rows[e] |-> IF i = k THEN text ELSE View(d)[e][i]]
    BY <1>1, <1>3, <1>4
<1>5. Conflicts(d, e, row) = {} => new = Append(View(d)[e], text)
    BY <1>1
<1> HIDE DEF new
<1> QED BY <1>2, <1>3, <1>4, <1>5

(* The three cases themselves: a new row, *)
LEMMA RowInserted ==
    ASSUME NEW d, Sound(d), NEW e \in Entities, NEW row, NEW text, Spells(d, e, row, text),
           Conflicts(d, e, row) = {},
           NEW l, Changes(l, d, e, Append(d.rows[e], row))
    PROVE  /\ Sound(l) /\ View(l) = Promise!Upserted(View(d), e, text)
           /\ TellsOf(l, e, Len(d.rows[e]) + 1, text)
           /\ l.dict = d.dict /\ l.said = d.said
<1>1. PICK n \in Nat : n = Len(d.rows[e])
    BY SoundParts
<1>2. Record(l) /\ l.dict = d.dict /\ l.told = d.told /\ l.said = d.said
    BY TableChanged DEF Sound, Shape
<1>3. l.rows[e] = Append(d.rows[e], row) /\ \A o \in Entities \ {e} : l.rows[o] = d.rows[o]
    <2> DEFINE table == Append(d.rows[e], row)
    <2>1. Record(d)
        BY DEF Sound, Shape
    <2>2. Changes(l, d, e, table)
        OBVIOUS
    <2> HIDE DEF table
    <2>3. l.rows[e] = table /\ \A o \in Entities \ {e} : l.rows[o] = d.rows[o]
        BY <2>1, <2>2, TableChanged
    <2> QED BY <2>3 DEF table
<1>4. d.rows[e] \in Seq(Row(e)) /\ DOMAIN d.rows[e] = 1..n
    BY <1>1, SoundParts DEF Sound, Shape
<1>5. row \in Row(e) /\ DOMAIN row = Range(Fields[e]) /\ TextRow(d, row) = text
    BY SpellsParts
<1>6. /\ l.rows[e] \in Seq(Row(e)) /\ Len(l.rows[e]) = n + 1
      /\ \A i \in 1..n : l.rows[e][i] = d.rows[e][i]
      /\ l.rows[e][n + 1] = row
    BY <1>1, <1>3, <1>4, <1>5, AppendProperties
<1>7. DOMAIN l.rows[e] = 1..(n + 1)
    BY <1>6, LenProperties
<1>8. \A i \in 1..(n + 1) : i \in 1..n \/ i = n + 1
    OBVIOUS
<1>9. Shape(l)
    BY <1>2, <1>3, <1>6 DEF Sound, Shape
<1>10. Database(l)
    <2>1. ASSUME NEW o \in Entities, NEW i \in DOMAIN l.rows[o]
          PROVE  /\ l.rows[o][i] \in [Range(Fields[o]) -> 0..Len(l.dict)]
                 /\ \A f \in Range(Fields[o]) : l.rows[o][i][f] = 0 => f \in Optional
        <3>1. CASE o = e /\ i = n + 1
            <4>1. row \in [Range(Fields[e]) -> 0..Len(l.dict)]
                BY <1>2 DEF Spells
            <4>2. \A f \in Range(Fields[e]) : row[f] = 0 => f \in Optional
                BY SpellsParts
            <4>3. l.rows[o][i] = row
                BY <1>6, <3>1
            <4> QED BY <3>1, <4>1, <4>2, <4>3
        <3>2. CASE i \in DOMAIN d.rows[o] /\ l.rows[o][i] = d.rows[o][i]
            BY <1>2, <3>2 DEF Sound, Database
        <3>3. CASE o = e /\ i # n + 1
            <4>1. i \in 1..n
                BY <1>7, <1>8, <3>3
            <4> QED BY <1>4, <1>6, <3>2, <3>3, <4>1
        <3>4. CASE o # e
            BY <1>3, <3>2, <3>4
        <3> QED BY <3>1, <3>3, <3>4
    <2> QED BY <1>2, <2>1 DEF Sound, Database
<1>11. DistinctWords(l)
    BY <1>2 DEF Sound, DistinctWords
<1>12. DistinctKeys(l)
    <2>1. ASSUME NEW i \in 1..(n + 1), NEW j \in 1..(n + 1), Key[e] # {},
                 \A f \in Key[e] : l.rows[e][i][f] = l.rows[e][j][f] /\ l.rows[e][i][f] # 0
          PROVE  i = j
        <3>1. \A k \in 1..n : \E f \in Key[e] : ~ (d.rows[e][k][f] = row[f] /\ row[f] # 0)
            BY <1>4, <2>1 DEF Conflicts
        <3>2. CASE i \in 1..n /\ j \in 1..n
            <4>1. l.rows[e][i] = d.rows[e][i] /\ l.rows[e][j] = d.rows[e][j]
                BY <1>6, <3>2
            <4>2. i \in DOMAIN d.rows[e] /\ j \in DOMAIN d.rows[e]
                BY <1>4, <3>2
            <4> QED BY <2>1, <4>1, <4>2 DEF Sound, DistinctKeys
        <3>3. CASE i \in 1..n /\ j = n + 1
            <4>1. l.rows[e][i] = d.rows[e][i] /\ l.rows[e][j] = row
                BY <1>6, <3>3
            <4> QED BY <2>1, <3>1, <3>3, <4>1
        <3>4. CASE i = n + 1 /\ j \in 1..n
            <4>1. l.rows[e][j] = d.rows[e][j] /\ l.rows[e][i] = row
                BY <1>6, <3>4
            <4> QED BY <2>1, <3>1, <3>4, <4>1
        <3> QED BY <1>8, <3>2, <3>3, <3>4
    <2>2. ASSUME NEW o \in Entities \ {e}, NEW i \in DOMAIN l.rows[o], NEW j \in DOMAIN l.rows[o], Key[o] # {},
                 \A f \in Key[o] : l.rows[o][i][f] = l.rows[o][j][f] /\ l.rows[o][i][f] # 0
          PROVE  i = j
        <3>1. l.rows[o] = d.rows[o]
            BY <1>3
        <3> QED BY <2>2, <3>1 DEF Sound, DistinctKeys
    <2>3. \A o \in Entities : o = e \/ o \in Entities \ {e}
        OBVIOUS
    <2> QED BY <1>7, <2>1, <2>2, <2>3 DEF DistinctKeys
<1>13. ToldStand(l)
    <2> SUFFICES ASSUME NEW c \in l.told
                 PROVE  TellsOf(l, c.entity, c.id, c.text)
        BY DEF ToldStand
    <2>1. c.entity \in Entities /\ TellsOf(d, c.entity, c.id, c.text)
        BY <1>2 DEF Sound, Shape, Record, ToldStand, Claims
    <2>2. c.id \in DOMAIN l.rows[c.entity] /\ l.rows[c.entity][c.id] = d.rows[c.entity][c.id]
        <3>1. CASE c.entity = e
            <4>1. c.id \in 1..n
                BY <1>4, <2>1, <3>1 DEF TellsOf
            <4>2. c.id \in 1..(n + 1) /\ l.rows[e][c.id] = d.rows[e][c.id]
                BY <1>6, <4>1
            <4> QED BY <1>7, <3>1, <4>1, <4>2
        <3>2. CASE c.entity \in Entities \ {e}
            BY <1>3, <2>1, <3>2 DEF TellsOf
        <3> QED BY <2>1, <3>1, <3>2
    <2> QED BY <1>2, <2>1, <2>2 DEF TellsOf, Text
<1>14. Sound(l)
    BY <1>9, <1>10, <1>11, <1>12, <1>13 DEF Sound
<1>15. TellsOf(l, e, n + 1, text)
    BY <1>2, <1>6, <1>7, FieldsShape DEF TellsOf, Spells, Text
<1>16. \A o \in Entities : \A i \in DOMAIN d.rows[o] :
           l.rows[o][i] = d.rows[o][i] /\ TextRow(l, l.rows[o][i]) = TextRow(d, d.rows[o][i])
    <2>1. \A o \in Entities : \A i \in DOMAIN d.rows[o] : l.rows[o][i] = d.rows[o][i]
        BY <1>3, <1>4, <1>6
    <2>2. \A r : TextRow(l, r) = TextRow(d, r)
        BY <1>2 DEF TextRow, Text
    <2> QED BY <2>1, <2>2
<1>17. View(l)[e] = Append(View(d)[e], text)
    <2>1. View(d)[e] \in Seq([Range(Fields[e]) -> Words \union {Null}]) /\ Len(View(d)[e]) = n
        BY <1>1, ViewShape
    <2>2. text \in [Range(Fields[e]) -> Words \union {Null}]
        BY SpellsParts
    <2>3. /\ Append(View(d)[e], text) \in Seq([Range(Fields[e]) -> Words \union {Null}])
          /\ Len(Append(View(d)[e], text)) = n + 1
          /\ \A i \in 1..n : Append(View(d)[e], text)[i] = View(d)[e][i]
          /\ Append(View(d)[e], text)[n + 1] = text
        BY <2>1, <2>2, AppendProperties
    <2>4. View(l)[e] \in Seq([Range(Fields[e]) -> Words \union {Null}]) /\ Len(View(l)[e]) = n + 1
        BY <1>6, <1>14, ViewShape
    <2>5. \A i \in 1..n : View(l)[e][i] = View(d)[e][i]
        <3>1. \A i \in 1..n : i \in DOMAIN d.rows[e] /\ i \in DOMAIN l.rows[e]
            BY <1>4, <1>7
        <3>2. \A i \in 1..n : View(l)[e][i] = TextRow(l, l.rows[e][i])
            BY <1>14, <3>1, ViewShape
        <3>3. \A i \in 1..n : View(d)[e][i] = TextRow(d, d.rows[e][i])
            BY <3>1, ViewShape
        <3> QED BY <1>16, <3>1, <3>2, <3>3
    <2>6. TextRow(l, row) = TextRow(d, row)
        BY <1>2 DEF TextRow, Text
    <2>7. View(l)[e][n + 1] = text
        <3>1. n + 1 \in DOMAIN l.rows[e]
            BY <1>7
        <3>2. View(l)[e][n + 1] = TextRow(l, l.rows[e][n + 1])
            BY <1>14, <3>1, ViewShape
        <3> QED BY <1>5, <1>6, <2>6, <3>2
    <2> QED BY <1>8, <2>3, <2>4, <2>5, <2>7, SeqEqual
<1>18. \A o \in Entities \ {e} : View(l)[o] = View(d)[o]
    BY <1>3, <1>16 DEF View
<1>19. View(l) = Promise!Upserted(View(d), e, text)
    <2>1. View(l) = [o \in Entities |-> View(l)[o]]
        BY DEF View
    <2>2. \A o \in Entities : View(l)[o] = Promise!Upserted(View(d), e, text)[o]
        BY <1>17, <1>18, UpsertedView
    <2>3. /\ DOMAIN Promise!Upserted(View(d), e, text) = Entities
          /\ Promise!Upserted(View(d), e, text) = [o \in Entities |-> Promise!Upserted(View(d), e, text)[o]]
        BY UpsertedView DEF Promise!Upserted, View
    <2> QED BY <2>1, <2>2, <2>3
<1> QED BY <1>1, <1>2, <1>14, <1>15, <1>19

(* one that overwrites the row with its key, *)
LEMMA RowUpdated ==
    ASSUME NEW d, Sound(d), NEW e \in Entities, NEW row, NEW text, Spells(d, e, row, text),
           NEW k \in Conflicts(d, e, row),
           NEW l, Changes(l, d, e, [d.rows[e] EXCEPT ![k] = row])
    PROVE  /\ Sound(l) /\ View(l) = Promise!Upserted(View(d), e, text)
           /\ TellsOf(l, e, k, text)
           /\ l.dict = d.dict /\ l.said = d.said
<1>1. PICK n \in Nat : n = Len(d.rows[e])
    BY SoundParts
<1>2. Record(l) /\ l.dict = d.dict /\ l.told = d.told /\ l.said = d.said
    BY TableChanged DEF Sound, Shape
<1>3. l.rows[e] = [d.rows[e] EXCEPT ![k] = row] /\ \A o \in Entities \ {e} : l.rows[o] = d.rows[o]
    <2> DEFINE table == [d.rows[e] EXCEPT ![k] = row]
    <2>1. Record(d)
        BY DEF Sound, Shape
    <2>2. Changes(l, d, e, table)
        OBVIOUS
    <2> HIDE DEF table
    <2>3. l.rows[e] = table /\ \A o \in Entities \ {e} : l.rows[o] = d.rows[o]
        BY <2>1, <2>2, TableChanged
    <2> QED BY <2>3 DEF table
<1>4. d.rows[e] \in Seq(Row(e)) /\ DOMAIN d.rows[e] = 1..n
    BY <1>1, SoundParts DEF Sound, Shape
<1>5. row \in Row(e) /\ DOMAIN row = Range(Fields[e]) /\ TextRow(d, row) = text
    BY SpellsParts
<1>6. k \in 1..n /\ \A f \in Key[e] : d.rows[e][k][f] = row[f] /\ row[f] # 0
    BY <1>4, TwinsAreConflicts
<1>7. DOMAIN l.rows[e] = 1..n /\ l.rows[e][k] = row
      /\ \A i \in 1..n : i # k => l.rows[e][i] = d.rows[e][i]
    BY <1>3, <1>4, <1>6
<1>8. \A i \in 1..n : \A f \in Key[e] : l.rows[e][i][f] = d.rows[e][i][f]
    BY <1>6, <1>7
<1>9. Shape(l)
    <2>1. l.rows[e] \in Seq(Row(e))
        BY <1>1, <1>3, <1>4, <1>5, <1>6, ExceptSeq
    <2> QED BY <1>2, <1>3, <2>1 DEF Sound, Shape
<1>10. Database(l)
    <2>1. ASSUME NEW o \in Entities, NEW i \in DOMAIN l.rows[o]
          PROVE  /\ l.rows[o][i] \in [Range(Fields[o]) -> 0..Len(l.dict)]
                 /\ \A f \in Range(Fields[o]) : l.rows[o][i][f] = 0 => f \in Optional
        <3>1. CASE o = e /\ i = k
            <4>1. row \in [Range(Fields[e]) -> 0..Len(l.dict)]
                BY <1>2 DEF Spells
            <4>2. \A f \in Range(Fields[e]) : row[f] = 0 => f \in Optional
                BY SpellsParts
            <4>3. l.rows[o][i] = row
                BY <1>7, <3>1
            <4> QED BY <3>1, <4>1, <4>2, <4>3
        <3>2. CASE i \in DOMAIN d.rows[o] /\ l.rows[o][i] = d.rows[o][i]
            BY <1>2, <3>2 DEF Sound, Database
        <3>3. CASE o = e /\ i # k
            BY <1>4, <1>7, <3>2, <3>3
        <3>4. CASE o # e
            BY <1>3, <3>2, <3>4
        <3> QED BY <3>1, <3>3, <3>4
    <2> QED BY <1>2, <2>1 DEF Sound, Database
<1>11. DistinctWords(l)
    BY <1>2 DEF Sound, DistinctWords
<1>12. DistinctKeys(l)
    <2>1. ASSUME NEW i \in 1..n, NEW j \in 1..n, Key[e] # {},
                 \A f \in Key[e] : l.rows[e][i][f] = l.rows[e][j][f] /\ l.rows[e][i][f] # 0
          PROVE  i = j
        <3>1. \A f \in Key[e] : d.rows[e][i][f] = d.rows[e][j][f] /\ d.rows[e][i][f] # 0
            BY <1>8, <2>1
        <3> QED BY <1>4, <2>1, <3>1 DEF Sound, DistinctKeys
    <2>2. ASSUME NEW o \in Entities \ {e}, NEW i \in DOMAIN l.rows[o], NEW j \in DOMAIN l.rows[o], Key[o] # {},
                 \A f \in Key[o] : l.rows[o][i][f] = l.rows[o][j][f] /\ l.rows[o][i][f] # 0
          PROVE  i = j
        <3>1. l.rows[o] = d.rows[o]
            BY <1>3
        <3> QED BY <2>2, <3>1 DEF Sound, DistinctKeys
    <2>3. \A o \in Entities : o = e \/ o \in Entities \ {e}
        OBVIOUS
    <2> QED BY <1>7, <2>1, <2>2, <2>3 DEF DistinctKeys
<1>13. ToldStand(l)
    <2> SUFFICES ASSUME NEW c \in l.told
                 PROVE  TellsOf(l, c.entity, c.id, c.text)
        BY DEF ToldStand
    <2>1. c.entity \in Entities /\ TellsOf(d, c.entity, c.id, c.text)
        BY <1>2 DEF Sound, Shape, Record, ToldStand, Claims
    <2>2. c.id \in DOMAIN l.rows[c.entity]
          /\ \A f \in Key[c.entity] : l.rows[c.entity][c.id][f] = d.rows[c.entity][c.id][f]
        <3>1. CASE c.entity = e
            BY <1>4, <1>7, <1>8, <2>1, <3>1 DEF TellsOf
        <3>2. CASE c.entity \in Entities \ {e}
            BY <1>3, <2>1, <3>2 DEF TellsOf
        <3> QED BY <2>1, <3>1, <3>2
    <2> QED BY <1>2, <2>1, <2>2 DEF TellsOf, Text
<1>14. Sound(l)
    BY <1>9, <1>10, <1>11, <1>12, <1>13 DEF Sound
<1>15. TellsOf(l, e, k, text)
    BY <1>2, <1>6, <1>7, FieldsShape DEF TellsOf, Spells, Text
<1>16. \A r : TextRow(l, r) = TextRow(d, r)
    BY <1>2 DEF TextRow, Text
<1>17. View(l)[e] = [i \in DOMAIN d.rows[e] |-> IF i = k THEN text ELSE View(d)[e][i]]
    <2>1. View(l)[e] = [i \in 1..n |-> TextRow(l, l.rows[e][i])]
        BY <1>7 DEF View
    <2>2. \A i \in 1..n : View(d)[e][i] = TextRow(d, d.rows[e][i])
        BY <1>4, ViewShape
    <2>3. \A i \in 1..n : TextRow(l, l.rows[e][i]) = IF i = k THEN text ELSE View(d)[e][i]
        BY <1>5, <1>7, <1>16, <2>2
    <2> QED BY <1>4, <2>1, <2>3
<1>18. \A o \in Entities \ {e} : View(l)[o] = View(d)[o]
    BY <1>3, <1>16 DEF View
<1>19. View(l) = Promise!Upserted(View(d), e, text)
    <2>1. View(l) = [o \in Entities |-> View(l)[o]]
        BY DEF View
    <2>2. \A o \in Entities : View(l)[o] = Promise!Upserted(View(d), e, text)[o]
        BY <1>17, <1>18, UpsertedView
    <2>3. /\ DOMAIN Promise!Upserted(View(d), e, text) = Entities
          /\ Promise!Upserted(View(d), e, text) = [o \in Entities |-> Promise!Upserted(View(d), e, text)[o]]
        BY UpsertedView DEF Promise!Upserted, View
    <2> QED BY <2>1, <2>2, <2>3
<1> QED BY <1>2, <1>14, <1>15, <1>19

(* and one that finds its row as it is, since its key is all there is. *)
LEMMA RowFound ==
    ASSUME NEW d, Sound(d), NEW e \in Entities, NEW row, NEW text, Spells(d, e, row, text),
           NEW k \in Conflicts(d, e, row), Updates(e) = {}
    PROVE  View(d) = Promise!Upserted(View(d), e, text)
<1>1. k \in DOMAIN d.rows[e] /\ \A f \in Key[e] : d.rows[e][k][f] = row[f]
    BY TwinsAreConflicts
<1>2. Key[e] = Range(Fields[e])
    BY FieldsShape DEF Updates
<1>3. View(d)[e][k] = text
    <2>1. DOMAIN d.rows[e][k] = Range(Fields[e]) /\ View(d)[e][k] = TextRow(d, d.rows[e][k])
        <3>1. DOMAIN d.rows[e][k] = Range(Fields[e])
            BY <1>1, SoundParts
        <3>2. View(d)[e][k] = TextRow(d, d.rows[e][k])
            BY <1>1, ViewShape
        <3> QED BY <3>1, <3>2
    <2>2. DOMAIN row = Range(Fields[e]) /\ TextRow(d, row) = text
        BY SpellsParts
    <2>3. TextRow(d, d.rows[e][k]) = TextRow(d, row)
        BY <1>1, <1>2, <2>1, <2>2 DEF TextRow
    <2> QED BY <2>1, <2>2, <2>3
<1>4. View(d)[e] = [i \in DOMAIN d.rows[e] |-> View(d)[e][i]]
    BY DEF View
<1>5. View(d)[e] = [i \in DOMAIN d.rows[e] |-> IF i = k THEN text ELSE View(d)[e][i]]
    BY <1>3, <1>4
<1>6. View(d) = [o \in Entities |-> View(d)[o]]
    BY DEF View
<1>7. \A o \in Entities : View(d)[o] = Promise!Upserted(View(d), e, text)[o]
    BY <1>5, UpsertedView
<1>8. Promise!Upserted(View(d), e, text) = [o \in Entities |-> Promise!Upserted(View(d), e, text)[o]]
    BY UpsertedView DEF Promise!Upserted, View
<1> QED BY <1>6, <1>7, <1>8

-----------------------------------------------------------------------------
(* What a writer knows of its call.                                        *)

LEMMA CallParts ==
    ASSUME IInv, NEW w \in Writers, wpc[w] \in Upserting
    PROVE  /\ call[w].entity \in Entities /\ call[w].text \in Texts(call[w].entity)
           /\ call[w].text \in [Range(Fields[call[w].entity]) -> Words \union {Null}]
           /\ Len(ids[w]) \in Nat /\ ids[w] \in Seq(Nat)
           /\ Said(w) \subseteq Words
<1>1. WriterInv(w) /\ ids[w] \in Seq(Nat)
    BY DEF IInv, TypeOK
<1>2. call[w].entity \in Entities /\ call[w].text \in Texts(call[w].entity)
    BY <1>1 DEF WriterInv, CallOf
<1>3. call[w].text \in [Range(Fields[call[w].entity]) -> Words \union {Null}]
    BY <1>2 DEF Texts
<1>4. Said(w) \subseteq Words
    BY <1>3 DEF Said, Range
<1> QED BY <1>1, <1>2, <1>3, <1>4, LenProperties

(* The word that a writer is at is one of its call's. *)
LEMMA WordOfCall ==
    ASSUME IInv, NEW w \in Writers, wpc[w] \in {"intern", "lookup"}
    PROVE  /\ Len(ids[w]) + 1 \in 1..Len(Fields[call[w].entity])
           /\ FieldAt(w) \in DOMAIN call[w].text /\ WordAt(w) \in Words \union {Null}
<1>1. call[w].entity \in Entities /\ Len(ids[w]) \in Nat
      /\ call[w].text \in [Range(Fields[call[w].entity]) -> Words \union {Null}]
    BY CallParts DEF Upserting
<1>2. Len(ids[w]) < Len(Fields[call[w].entity])
    BY DEF IInv, WriterInv, CallOf
<1>3. Len(Fields[call[w].entity]) \in Nat
    BY <1>1, FieldsShape
<1>4. Len(ids[w]) + 1 \in 1..Len(Fields[call[w].entity])
    BY <1>1, <1>2, <1>3
<1>5. FieldAt(w) \in Range(Fields[call[w].entity])
    BY <1>1, <1>4, FieldsShape DEF FieldAt
<1> QED BY <1>1, <1>4, <1>5 DEF WordAt

(* The row that it inserts spells its text. *)
LEMMA NewRowSpells ==
    ASSUME IInv, NEW w \in Writers, wpc[w] \in {"insert", "select"}
    PROVE  Spells(mem, call[w].entity, NewRow(w), call[w].text)
<1> DEFINE e == call[w].entity
           text == call[w].text
           at(f) == CHOOSE i \in DOMAIN Fields[e] : Fields[e][i] = f
<1>1. e \in Entities /\ text \in Texts(e)
    BY CallParts DEF Upserting
<1>2. PICK n \in Nat : n = Len(Fields[e]) /\ n = Len(ids[w]) /\ DOMAIN Fields[e] = 1..n
    BY <1>1, FieldsShape DEF IInv, WriterInv, CallOf
<1>3. NewRow(w) = [f \in Range(Fields[e]) |-> ids[w][at(f)]]
    BY DEF NewRow
<1>4. Sound(mem) /\ Len(mem.dict) \in Nat /\ DOMAIN mem.dict = 1..Len(mem.dict)
    BY SoundParts DEF IInv, DbInv
<1>5. ASSUME NEW f \in Range(Fields[e])
      PROVE  at(f) \in 1..n /\ Fields[e][at(f)] = f
    <2>1. \E i \in DOMAIN Fields[e] : Fields[e][i] = f
        BY <1>1, FieldsShape
    <2> QED BY <1>2, <2>1
<1> HIDE DEF e, text, at
<1>6. ASSUME NEW i \in 1..n
      PROVE  \/ text[Fields[e][i]] = Null /\ ids[w][i] = 0
             \/ /\ text[Fields[e][i]] # Null
                /\ ids[w][i] \in DOMAIN mem.dict /\ mem.dict[ids[w][i]] = text[Fields[e][i]]
    BY <1>2 DEF IInv, WriterInv, IdsOf, Upserting, e, text
<1>7. ASSUME NEW f \in Range(Fields[e])
      PROVE  ids[w][at(f)] \in 0..Len(mem.dict) /\ Text(mem, ids[w][at(f)]) = text[f]
    <2>1. \/ text[f] = Null /\ ids[w][at(f)] = 0
          \/ ids[w][at(f)] \in DOMAIN mem.dict /\ mem.dict[ids[w][at(f)]] = text[f]
        BY <1>5, <1>6
    <2> QED BY <1>4, <2>1 DEF Text
<1>8. Spells(mem, e, NewRow(w), text)
    BY <1>1, <1>3, <1>7 DEF Spells
<1> QED BY <1>8 DEF e, text

-----------------------------------------------------------------------------
(* What a step of one writer is to the others.                             *)

Same(v) ==
    /\ wpc'[v] = wpc[v] /\ call'[v] = call[v] /\ ids'[v] = ids[v] /\ result'[v] = result[v]
    /\ v \in outer' <=> v \in outer

(* A step that leaves the database alone. *)
LEMMA OthersBeside ==
    ASSUME IInv, NEW v \in Writers, Same(v), UNCHANGED dbVars
    PROVE  WriterInv(v)'
<1>1. WriterInv(v)
    BY DEF IInv
<1>2. CallOf(v)'
    BY <1>1 DEF WriterInv, CallOf, Same
<1>3. IdsOf(v)'
    BY <1>1 DEF WriterInv, IdsOf, Same, dbVars
<1>4. HoldOf(v)'
    <2>1. HoldOf(v) /\ UNCHANGED <<disk, mem, mark, holder>>
        BY <1>1 DEF WriterInv, dbVars
    <2>2. WordAt(v)' = WordAt(v)
        BY DEF Same, FieldAt, WordAt
    <2>3. /\ wpc'[v] = wpc[v] /\ call'[v] = call[v] /\ result'[v] = result[v]
          /\ v \in outer' <=> v \in outer
        BY DEF Same
    <2> QED BY <2>1, <2>2, <2>3 DEF HoldOf
<1> QED BY <1>2, <1>3, <1>4 DEF WriterInv

(* A step of the writer that holds the database, or takes it. *)
LEMMA OthersWait ==
    ASSUME IInv, NEW w \in Writers, NEW v \in Writers, v # w, Same(v),
           holder \in {w, Nobody}, holder' \in {w, Nobody}, Extends(disk', disk)
    PROVE  WriterInv(v)'
<1>1. WriterInv(v) /\ holder # v /\ holder' # v
    BY InternAssumption DEF IInv
<1>2. CallOf(v)'
    BY <1>1 DEF WriterInv, CallOf, Same
<1>3. IdsOf(v)'
    BY <1>1 DEF WriterInv, IdsOf, Same
<1>4. wpc[v] \notin {"lookup", "select", "release"}
    BY <1>1 DEF WriterInv, HoldOf
<1>5. wpc[v] = "wordLookup" => Knows(disk', call[v].text)
    BY <1>1 DEF WriterInv, HoldOf, CallOf, Extends
<1>6. HoldOf(v)'
    BY <1>1, <1>4, <1>5 DEF HoldOf, Same
<1> QED BY <1>2, <1>3, <1>6 DEF WriterInv

(* The statements of the database. *)
LEMMA WriteKeeps ==
    ASSUME IInv, NEW w \in Writers, CanWrite(w), NEW d, Write(w, d), Sound(d), Extends(d, mem)
    PROVE  DbInv' /\ Extends(disk', disk) /\ holder \in {w, Nobody} /\ holder' = w
<1>1. /\ holder' = w /\ holder' # Nobody /\ mem' = d /\ disk' = disk /\ mark' = mark
      /\ holder \in {w, Nobody}
    BY InternAssumption DEF Write, CanWrite
<1>2. Extends(d, mark)
    BY DEF IInv, DbInv, Extends
<1> QED BY <1>1, <1>2 DEF IInv, DbInv, Extends

LEMMA ReleaseKeeps ==
    ASSUME IInv, NEW w \in Writers, holder \in {w, Nobody}, NEW d, ReleaseSavepoint(w, d),
           Sound(d), Clean(d), Extends(d, mem)
    PROVE  DbInv' /\ Extends(disk', disk) /\ holder' \in {w, Nobody}
<1>1. /\ mem' = d /\ mark' = d
      /\ \/ w \in outer /\ disk' = disk /\ holder' = w
         \/ w \notin outer /\ disk' = d /\ holder' = Nobody
    BY DEF ReleaseSavepoint
<1>2. Extends(d, disk) /\ Extends(d, d) /\ Extends(disk, disk)
    BY DEF IInv, DbInv, Extends
<1>3. Nobody # w
    BY InternAssumption
<1>4. CASE w \in outer
    BY <1>1, <1>2, <1>3, <1>4 DEF IInv, DbInv
<1>5. CASE w \notin outer
    BY <1>1, <1>2, <1>5 DEF IInv, DbInv
<1> QED BY <1>4, <1>5

LEMMA TypeFrom ==
    ASSUME IInv, DbInv', CallType', holder' \in Writers \union {Nobody}, outer' \subseteq Writers,
           NEW w \in Writers,
           NEW phase \in {"idle", "intern", "lookup", "insert", "select", "release", "word", "wordLookup"},
           Goto(w, phase), ids' \in [Writers -> Seq(Nat)], result' \in [Writers -> Nat],
           calls' \in 0..MaxCalls
    PROVE  TypeOK'
<1>1. Database(disk)' /\ Database(mem)' /\ Database(mark)'
    BY DEF DbInv, Sound
<1>2. wpc' \in [Writers -> {"idle", "intern", "lookup", "insert", "select", "release", "word", "wordLookup"}]
    BY DEF IInv, TypeOK, Goto
<1>3. \A v \in Writers : call'[v].entity \in Entities \union {Bare}
    BY DEF CallType
<1> QED BY <1>1, <1>2, <1>3 DEF TypeOK

-----------------------------------------------------------------------------
(* The invariant holds at the start, and each step keeps it.               *)

LEMMA InitIInv == Init => IInv
<1> SUFFICES ASSUME Init PROVE IInv
    OBVIOUS
<1>1. Empty.dict = <<>> /\ Empty.told = {} /\ Empty.said = {} /\ DOMAIN Empty.dict = {}
      /\ \A e \in Entities : Empty.rows[e] = <<>> /\ DOMAIN Empty.rows[e] = {}
    BY EmptySeq DEF Empty
<1>2. Record(Empty)
    <2>1. <<>> \in Seq(Words) /\ {} \in SUBSET Claims /\ {} \in SUBSET Words
        BY EmptySeq
    <2>2. Empty \in [dict : Seq(Words), rows : {Empty.rows}, told : SUBSET Claims, said : SUBSET Words]
        BY <2>1 DEF Empty
    <2>3. Empty.rows \in [Entities -> Range(Empty.rows)]
        BY DEF Empty, Range
    <2> QED BY <2>2, <2>3 DEF Record
<1>3. Sound(Empty) /\ Clean(Empty) /\ Extends(Empty, Empty) /\ Database(Empty)
    <2>1. Shape(Empty)
        BY <1>1, <1>2, EmptySeq DEF Shape
    <2>2. Database(Empty)
        BY <1>1, EmptySeq DEF Database
    <2> QED BY <1>1, <2>1, <2>2 DEF Sound, DistinctWords, DistinctKeys, ToldStand, Clean, Extends
<1>4. DbInv
    BY <1>3 DEF Init, DbInv
<1>5. CallType
    BY DEF Init, CallType
<1>6. TypeOK
    BY <1>3, EmptySeq, InternAssumption DEF Init, TypeOK
<1>7. ASSUME NEW w \in Writers PROVE WriterInv(w)
    <2>1. wpc[w] = "idle" /\ holder # w
        BY InternAssumption DEF Init
    <2> QED BY <2>1 DEF WriterInv, CallOf, IdsOf, HoldOf, Upserting
<1> QED BY <1>4, <1>5, <1>6, <1>7 DEF IInv

LEMMA CallUpsertKeeps ==
    ASSUME IInv, NEW w \in Writers, NEW e \in Entities, NEW text \in Texts(e), CallUpsert(w, e, text)
    PROVE  IInv'
<1>1. UNCHANGED dbVars /\ outer' = outer /\ result' = result /\ UNCHANGED <<disk, mem, mark, holder>>
      /\ wpc[w] = "idle" /\ wpc' = [wpc EXCEPT ![w] = "intern"]
      /\ call' = [call EXCEPT ![w] = [entity |-> e, text |-> text]]
      /\ ids' = [ids EXCEPT ![w] = <<>>]
    BY DEF CallUpsert, Goto, dbVars
<1>2. DbInv'
    BY <1>1 DEF IInv, DbInv
<1>3. CallType'
    BY <1>1 DEF IInv, CallType, AnyText
<1>4. TypeOK'
    <2>1. ids' \in [Writers -> Seq(Nat)]
        BY <1>1, EmptySeq DEF IInv, TypeOK
    <2>2. calls' \in 0..MaxCalls
        BY InternAssumption DEF CallUpsert, IInv, TypeOK
    <2>3. Goto(w, "intern")
        BY DEF CallUpsert
    <2> QED BY <1>1, <1>2, <1>3, <2>1, <2>2, <2>3, TypeFrom DEF IInv, TypeOK
<1>5. ASSUME NEW v \in Writers, v # w PROVE WriterInv(v)'
    <2>1. Same(v)
        BY <1>1, <1>5 DEF Same, IInv, TypeOK, CallType
    <2> QED BY <1>1, <2>1, OthersBeside
<1>6. WriterInv(w)'
    <2>1. /\ wpc'[w] = "intern" /\ ids'[w] = <<>> /\ Len(ids'[w]) = 0
          /\ call'[w].entity = e /\ call'[w].text = text
        BY <1>1, EmptySeq DEF IInv, TypeOK, CallType
    <2>2. CallOf(w)'
        BY <2>1, FieldsShape DEF CallOf
    <2>3. IdsOf(w)'
        <3>1. \A i \in 1..Len(ids'[w]) : FALSE
            BY <2>1
        <3> QED BY <3>1 DEF IdsOf
    <2>4. HoldOf(w)'
        <3>1. holder = w => mem = mark /\ w \in outer
            BY <1>1 DEF IInv, WriterInv, HoldOf, Upserting
        <3>2. \A i \in DOMAIN mark.dict : mark.dict[i] \in mark.said
            BY DEF IInv, DbInv, Clean
        <3> QED BY <1>1, <2>1, <3>1, <3>2 DEF HoldOf, Upserting
    <2> QED BY <2>2, <2>3, <2>4 DEF WriterInv
<1> QED BY <1>2, <1>3, <1>4, <1>5, <1>6 DEF IInv

(* The id of the field that a writer is at is found. *)
LEMMA IdFound ==
    ASSUME IInv, NEW w \in Writers, wpc[w] \in {"intern", "lookup"}, NEW id \in Nat,
           ids' = [ids EXCEPT ![w] = Append(@, id)], Goto(w, AfterId(w)),
           UNCHANGED <<dbVars, outer, call, result, calls>>,
           \/ WordAt(w) = Null /\ id = 0
           \/ WordAt(w) # Null /\ holder = w /\ id \in DOMAIN mem.dict /\ mem.dict[id] = WordAt(w)
    PROVE  IInv'
<1>1. UNCHANGED dbVars /\ UNCHANGED <<disk, mem, mark, holder>>
      /\ outer' = outer /\ call' = call /\ result' = result /\ calls' = calls
    BY DEF dbVars
<1>2. DbInv'
    BY <1>1 DEF IInv, DbInv
<1>3. CallType'
    BY <1>1 DEF IInv, CallType
<1> DEFINE e == call[w].entity
<1>4. e \in Entities /\ Len(ids[w]) \in Nat /\ ids[w] \in Seq(Nat) /\ ids \in [Writers -> Seq(Nat)]
      /\ wpc \in [Writers -> {"idle", "intern", "lookup", "insert", "select", "release", "word", "wordLookup"}]
    BY CallParts DEF Upserting, IInv, TypeOK
<1>5. PICK n \in Nat : n = Len(ids[w])
    BY <1>4
<1>6. /\ ids'[w] = Append(ids[w], id) /\ ids'[w] \in Seq(Nat) /\ Len(ids'[w]) = n + 1
      /\ (\A i \in 1..n : ids'[w][i] = ids[w][i]) /\ ids'[w][n + 1] = id
    <2>1. ids'[w] = Append(ids[w], id)
        BY <1>4
    <2> QED BY <1>4, <1>5, <2>1, AppendProperties
<1>7. n + 1 \in 1..Len(Fields[e]) /\ Len(Fields[e]) \in Nat /\ FieldAt(w) = Fields[e][n + 1]
      /\ WordAt(w) = call[w].text[Fields[e][n + 1]]
    BY <1>4, <1>5, WordOfCall, FieldsShape DEF FieldAt, WordAt
<1>8. \/ wpc'[w] = "insert" /\ n + 1 = Len(Fields[e])
      \/ wpc'[w] = "intern" /\ n + 1 < Len(Fields[e])
    <2>1. wpc'[w] = AfterId(w)
        BY <1>4 DEF Goto
    <2>2. AfterId(w) = IF n + 1 = Len(Fields[e]) THEN "insert" ELSE "intern"
        BY <1>6 DEF AfterId
    <2> QED BY <1>7, <2>1, <2>2
<1>9. TypeOK'
    <2>1. ids' \in [Writers -> Seq(Nat)]
        BY <1>4, <1>6
    <2>2. AfterId(w) \in {"intern", "insert"}
        BY DEF AfterId
    <2> QED BY <1>1, <1>2, <1>3, <2>1, <2>2, TypeFrom DEF IInv, TypeOK
<1>10. ASSUME NEW v \in Writers, v # w PROVE WriterInv(v)'
    <2>1. Same(v)
        BY <1>1, <1>4, <1>10 DEF Same, Goto
    <2> QED BY <1>1, <2>1, OthersBeside
<1>11. CallOf(w)'
    BY <1>1, <1>6, <1>8 DEF IInv, WriterInv, CallOf, Upserting
<1>12. IdsOf(w)'
    <2>1. \A i \in 1..(n + 1) : i \in 1..n \/ i = n + 1
        OBVIOUS
    <2>2. ASSUME NEW i \in 1..n
          PROVE  \/ call[w].text[Fields[e][i]] = Null /\ ids[w][i] = 0
                 \/ /\ call[w].text[Fields[e][i]] # Null /\ holder = w
                    /\ ids[w][i] \in DOMAIN mem.dict /\ mem.dict[ids[w][i]] = call[w].text[Fields[e][i]]
        BY <1>5 DEF IInv, WriterInv, IdsOf, Upserting
    <2>3. ASSUME NEW i \in 1..(n + 1)
          PROVE  \/ call[w].text[Fields[e][i]] = Null /\ ids'[w][i] = 0
                 \/ /\ call[w].text[Fields[e][i]] # Null /\ holder = w
                    /\ ids'[w][i] \in DOMAIN mem.dict /\ mem.dict[ids'[w][i]] = call[w].text[Fields[e][i]]
        <3>1. CASE i \in 1..n
            BY <1>6, <2>2, <3>1
        <3>2. CASE i = n + 1
            BY <1>6, <1>7, <3>2
        <3> QED BY <2>1, <3>1, <3>2
    <2> QED BY <1>1, <1>6, <2>3 DEF IdsOf
<1>13. HoldOf(w)'
    BY <1>1, <1>8 DEF IInv, WriterInv, HoldOf, Upserting
<1> QED BY <1>2, <1>3, <1>9, <1>10, <1>11, <1>12, <1>13 DEF IInv, WriterInv

LEMMA SkipNullKeeps ==
    ASSUME IInv, NEW w \in Writers, SkipNull(w)
    PROVE  IInv'
<1>1. PICK id \in Nat : id = 0
    OBVIOUS
<1>2. ids' = [ids EXCEPT ![w] = Append(@, id)] /\ Goto(w, AfterId(w))
      /\ UNCHANGED <<dbVars, outer, call, result, calls>>
      /\ wpc[w] \in {"intern", "lookup"} /\ WordAt(w) = Null
    BY <1>1 DEF SkipNull
<1> QED BY <1>1, <1>2, IdFound

LEMMA InternSelectKeeps ==
    ASSUME IInv, NEW w \in Writers, InternSelect(w)
    PROVE  IInv'
<1>1. wpc[w] = "lookup" /\ holder = w /\ WordAt(w) # Null /\ Knows(mem, WordAt(w))
    BY DEF InternSelect, IInv, WriterInv, HoldOf
<1>2. DOMAIN mem.dict = 1..Len(mem.dict)
    BY SoundParts DEF IInv, DbInv
<1>3. PICK id \in Nat : id = IdOf(mem, WordAt(w)) /\ id \in DOMAIN mem.dict /\ mem.dict[id] = WordAt(w)
    BY <1>1, <1>2, IdOfWord
<1>4. ids' = [ids EXCEPT ![w] = Append(@, id)] /\ Goto(w, AfterId(w))
      /\ UNCHANGED <<dbVars, outer, call, result, calls>>
      /\ wpc[w] \in {"intern", "lookup"}
    BY <1>3 DEF InternSelect
<1> QED BY <1>1, <1>3, <1>4, IdFound

LEMMA InternInsertKeeps ==
    ASSUME IInv, NEW w \in Writers, InternInsert(w)
    PROVE  IInv'
<1> DEFINE word == WordAt(w)
           d == Learn(mem, WordAt(w))
<1>1. /\ wpc[w] = "intern" /\ word # Null /\ CanWrite(w) /\ Write(w, d)
      /\ wpc' = [wpc EXCEPT ![w] = "lookup"] /\ Goto(w, "lookup")
      /\ outer' = outer /\ call' = call /\ ids' = ids /\ result' = result /\ calls' = calls
    BY DEF InternInsert, Goto, localVars
<1>2. word \in Words
    BY <1>1, WordOfCall
<1>3. Sound(mem)
    BY DEF IInv, DbInv
<1>4. /\ Sound(d) /\ View(d) = View(mem) /\ Knows(d, word) /\ d.said = mem.said
      /\ \A i \in DOMAIN mem.dict : i \in DOMAIN d.dict /\ d.dict[i] = mem.dict[i]
      /\ \A i \in DOMAIN d.dict : d.dict[i] = word \/ (i \in DOMAIN mem.dict /\ d.dict[i] = mem.dict[i])
    BY <1>2, <1>3, LearnWord
<1>5. Extends(d, mem)
    BY <1>4 DEF Extends, Knows
<1> HIDE DEF d
<1>6. DbInv' /\ Extends(disk', disk) /\ holder \in {w, Nobody} /\ holder' = w
    BY <1>1, <1>4, <1>5, WriteKeeps
<1>7. mem' = d /\ mark' = mark /\ disk' = disk
    BY <1>1 DEF Write
<1>8. CallType'
    BY <1>1 DEF IInv, CallType
<1>9. TypeOK'
    BY <1>1, <1>6, <1>8, TypeFrom DEF IInv, TypeOK
<1>10. ASSUME NEW v \in Writers, v # w PROVE WriterInv(v)'
    <2>1. Same(v)
        BY <1>1, <1>10 DEF Same, IInv, TypeOK
    <2> QED BY <1>6, <1>10, <2>1, OthersWait
<1>11. wpc'[w] = "lookup"
    BY <1>1 DEF IInv, TypeOK
<1>12. CallOf(w)'
    BY <1>1, <1>11 DEF IInv, WriterInv, CallOf, Upserting
<1>13. IdsOf(w)'
    <2>1. ASSUME NEW i \in 1..Len(ids[w])
          PROVE  \/ call[w].text[Fields[call[w].entity][i]] = Null /\ ids[w][i] = 0
                 \/ /\ call[w].text[Fields[call[w].entity][i]] # Null
                    /\ ids[w][i] \in DOMAIN mem.dict
                    /\ mem.dict[ids[w][i]] = call[w].text[Fields[call[w].entity][i]]
        BY <1>1 DEF IInv, WriterInv, IdsOf, Upserting
    <2>2. ASSUME NEW i \in 1..Len(ids[w])
          PROVE  \/ call[w].text[Fields[call[w].entity][i]] = Null /\ ids[w][i] = 0
                 \/ /\ call[w].text[Fields[call[w].entity][i]] # Null
                    /\ ids[w][i] \in DOMAIN d.dict
                    /\ d.dict[ids[w][i]] = call[w].text[Fields[call[w].entity][i]]
        BY <1>4, <2>1
    <2> QED BY <1>1, <1>6, <1>7, <2>2 DEF IdsOf
<1>14. HoldOf(w)'
    <2>1. w \notin outer => mark = disk
        BY <1>6 DEF IInv, DbInv, WriterInv, HoldOf
    <2>2. View(mem) = View(mark)
        BY <1>1, <1>6 DEF IInv, DbInv, WriterInv, HoldOf
    <2>3. WordAt(w)' = word
        BY <1>1 DEF WordAt, FieldAt
    <2>4. \A i \in DOMAIN mem.dict :
              mem.dict[i] \in mem.said \/ \E f \in DOMAIN call[w].text : call[w].text[f] = mem.dict[i]
        BY <1>1, <1>6 DEF IInv, DbInv, Clean, WriterInv, HoldOf, Upserting
    <2>5. \E f \in DOMAIN call[w].text : call[w].text[f] = word
        BY <1>1, WordOfCall DEF WordAt
    <2>6. \A i \in DOMAIN d.dict :
              d.dict[i] \in d.said \/ \E f \in DOMAIN call[w].text : call[w].text[f] = d.dict[i]
        BY <1>4, <2>4, <2>5
    <2> QED BY <1>1, <1>4, <1>6, <1>7, <1>11, <2>1, <2>2, <2>3, <2>6 DEF HoldOf, Upserting
<1> QED BY <1>6, <1>8, <1>9, <1>10, <1>12, <1>13, <1>14 DEF IInv, WriterInv

(* The statement that writes the row, in any of its cases. *)
LEMMA RowWritten ==
    ASSUME IInv, NEW w \in Writers, wpc[w] = "insert", CanWrite(w),
           NEW d, Write(w, d), Sound(d), d.dict = mem.dict, d.said = mem.said,
           View(d) = Promise!Upserted(View(mem), call[w].entity, call[w].text),
           NEW phase \in {"select", "release"}, Goto(w, phase),
           outer' = outer, call' = call, ids' = ids, calls' = calls,
           result' \in [Writers -> Nat], \A v \in Writers \ {w} : result'[v] = result[v],
           phase = "release" => TellsOf(d, call[w].entity, result'[w], call[w].text)
    PROVE  IInv'
<1>1. wpc' = [wpc EXCEPT ![w] = phase] /\ mem' = d /\ mark' = mark /\ disk' = disk
    BY DEF Goto, Write
<1>2. Extends(d, mem)
    BY DEF Extends, Knows
<1>3. DbInv' /\ Extends(disk', disk) /\ holder \in {w, Nobody} /\ holder' = w
    BY <1>2, WriteKeeps
<1>4. CallType'
    BY DEF IInv, CallType
<1>5. TypeOK'
    BY <1>3, <1>4, TypeFrom DEF IInv, TypeOK
<1>6. ASSUME NEW v \in Writers, v # w PROVE WriterInv(v)'
    <2>1. Same(v)
        BY <1>1, <1>6 DEF Same, IInv, TypeOK
    <2> QED BY <1>3, <1>6, <2>1, OthersWait
<1>7. wpc'[w] = phase
    BY <1>1 DEF IInv, TypeOK
<1>8. CallOf(w)'
    BY <1>7 DEF IInv, WriterInv, CallOf, Upserting
<1>9. IdsOf(w)'
    BY <1>1, <1>3 DEF IInv, WriterInv, IdsOf, Upserting
<1>10. HoldOf(w)'
    <2>1. w \notin outer => mark = disk
        BY <1>3 DEF IInv, DbInv, WriterInv, HoldOf
    <2>2. View(mem) = View(mark)
        BY <1>3 DEF IInv, DbInv, WriterInv, HoldOf
    <2>3. \A i \in DOMAIN d.dict :
              d.dict[i] \in d.said \/ \E f \in DOMAIN call[w].text : call[w].text[f] = d.dict[i]
        BY <1>3 DEF IInv, DbInv, Clean, WriterInv, HoldOf, Upserting
    <2> QED BY <1>1, <1>3, <1>7, <2>1, <2>2, <2>3 DEF HoldOf, Upserting
<1> QED BY <1>3, <1>4, <1>5, <1>6, <1>8, <1>9, <1>10 DEF IInv, WriterInv

LEMMA InsertRowKeeps ==
    ASSUME IInv, NEW w \in Writers, InsertRow(w)
    PROVE  IInv'
<1> DEFINE e == call[w].entity
           text == call[w].text
           row == NewRow(w)
<1>1. /\ wpc[w] = "insert" /\ CanWrite(w)
      /\ outer' = outer /\ call' = call /\ ids' = ids /\ calls' = calls
    BY DEF InsertRow
<1>2. Spells(mem, e, row, text) /\ Sound(mem) /\ Record(mem) /\ e \in Entities
    <2>1. Spells(mem, e, row, text)
        BY <1>1, NewRowSpells
    <2>2. e \in Entities
        BY <1>1, CallParts DEF Upserting
    <2> QED BY <2>1, <2>2 DEF IInv, DbInv, Sound, Shape
<1>3. result \in [Writers -> Nat] /\ DOMAIN mem.rows[e] = 1..Len(mem.rows[e]) /\ Len(mem.rows[e]) \in Nat
    BY <1>2, SoundParts DEF IInv, TypeOK
<1>4. \/ /\ Conflicts(mem, e, row) = {}
         /\ Write(w, [mem EXCEPT !.rows[e] = Append(@, row)])
         /\ result' = [result EXCEPT ![w] = Len(mem.rows[e]) + 1]
         /\ Goto(w, "release")
      \/ \E i \in Conflicts(mem, e, row) :
         /\ Write(w, [mem EXCEPT !.rows[e][i] =
                        [f \in DOMAIN row |-> IF f \in Updates(e) THEN row[f] ELSE @[f]]])
         /\ result' = [result EXCEPT ![w] = i]
         /\ Goto(w, "release")
      \/ /\ Conflicts(mem, e, row) # {} /\ Updates(e) = {}
         /\ Write(w, mem)
         /\ result' = result
         /\ Goto(w, "select")
    BY DEF InsertRow
<1> HIDE DEF e, text, row
<1>5. CASE /\ Conflicts(mem, e, row) = {}
           /\ Write(w, [mem EXCEPT !.rows[e] = Append(@, row)])
           /\ result' = [result EXCEPT ![w] = Len(mem.rows[e]) + 1]
           /\ Goto(w, "release")
    <2>1. PICK table : table = Append(mem.rows[e], row)
        OBVIOUS
    <2>2. PICK d : d = [mem EXCEPT !.rows[e] = table]
        OBVIOUS
    <2>3. Write(w, d)
        BY <1>5, <2>1, <2>2
    <2>4. Changes(d, mem, e, Append(mem.rows[e], row))
        BY <1>2, <2>1, <2>2, RowsChanged
    <2>5. /\ Sound(d) /\ View(d) = Promise!Upserted(View(mem), e, text)
          /\ TellsOf(d, e, Len(mem.rows[e]) + 1, text) /\ d.dict = mem.dict /\ d.said = mem.said
        BY <1>2, <1>5, <2>4, RowInserted
    <2>6. result' \in [Writers -> Nat] /\ result'[w] = Len(mem.rows[e]) + 1
          /\ \A v \in Writers \ {w} : result'[v] = result[v]
        BY <1>3, <1>5
    <2> QED BY <1>1, <1>5, <2>3, <2>5, <2>6, RowWritten DEF e, text
<1>6. ASSUME NEW i \in Conflicts(mem, e, row),
             Write(w, [mem EXCEPT !.rows[e][i] =
                          [f \in DOMAIN row |-> IF f \in Updates(e) THEN row[f] ELSE @[f]]]),
             result' = [result EXCEPT ![w] = i],
             Goto(w, "release")
      PROVE  IInv'
    <2>1. [f \in DOMAIN row |-> IF f \in Updates(e) THEN row[f] ELSE mem.rows[e][i][f]] = row
        <3>1. \A f \in Key[e] : mem.rows[e][i][f] = row[f]
            BY <1>2, TwinsAreConflicts
        <3>2. row \in Row(e) /\ DOMAIN row = Range(Fields[e])
            BY <1>2, SpellsParts
        <3> QED BY <3>1, <3>2 DEF Updates, Row
    <2>2. PICK table : table = [mem.rows[e] EXCEPT ![i] = row]
        OBVIOUS
    <2>3. PICK d : d = [mem EXCEPT !.rows[e] = table]
        OBVIOUS
    <2>4. Write(w, d)
        BY <1>6, <2>1, <2>2, <2>3
    <2>5. Changes(d, mem, e, [mem.rows[e] EXCEPT ![i] = row])
        BY <1>2, <2>2, <2>3, RowsChanged
    <2>6. /\ Sound(d) /\ View(d) = Promise!Upserted(View(mem), e, text)
          /\ TellsOf(d, e, i, text) /\ d.dict = mem.dict /\ d.said = mem.said
        BY <1>2, <2>5, RowUpdated
    <2>7. i \in Nat
        BY <1>2, <1>3, TwinsAreConflicts
    <2>8. result' \in [Writers -> Nat] /\ result'[w] = i
          /\ \A v \in Writers \ {w} : result'[v] = result[v]
        BY <1>3, <1>6, <2>7
    <2> QED BY <1>1, <1>6, <2>4, <2>6, <2>8, RowWritten DEF e, text
<1>7. CASE /\ Conflicts(mem, e, row) # {} /\ Updates(e) = {}
           /\ Write(w, mem)
           /\ result' = result
           /\ Goto(w, "select")
    <2>1. View(mem) = Promise!Upserted(View(mem), e, text)
        BY <1>2, <1>7, RowFound
    <2> QED BY <1>1, <1>2, <1>3, <1>7, <2>1, RowWritten DEF e, text
<1> QED BY <1>4, <1>5, <1>6, <1>7

LEMMA SelectIdKeeps ==
    ASSUME IInv, NEW w \in Writers, SelectId(w)
    PROVE  IInv'
<1> DEFINE e == call[w].entity
           text == call[w].text
<1>1. PICK i \in DOMAIN mem.rows[e] :
          /\ \A f \in Key[e] : mem.rows[e][i][f] = NewRow(w)[f]
          /\ result' = [result EXCEPT ![w] = i]
    BY DEF SelectId
<1>2. /\ wpc[w] = "select" /\ Goto(w, "release") /\ wpc' = [wpc EXCEPT ![w] = "release"]
      /\ UNCHANGED dbVars /\ UNCHANGED <<disk, mem, mark, holder>>
      /\ outer' = outer /\ call' = call /\ ids' = ids /\ calls' = calls
    BY DEF SelectId, Goto, dbVars
<1>3. e \in Entities /\ Spells(mem, e, NewRow(w), text) /\ Sound(mem)
    <2>1. Spells(mem, e, NewRow(w), text)
        BY <1>2, NewRowSpells
    <2>2. e \in Entities
        BY <1>2, CallParts DEF Upserting
    <2> QED BY <2>1, <2>2 DEF IInv, DbInv
<1>4. DOMAIN mem.rows[e] = 1..Len(mem.rows[e]) /\ i \in Nat
    BY <1>3, SoundParts
<1>5. result' \in [Writers -> Nat] /\ result'[w] = i /\ \A v \in Writers \ {w} : result'[v] = result[v]
    BY <1>1, <1>4 DEF IInv, TypeOK
<1>6. TellsOf(mem, e, i, text)
    BY <1>1, <1>3, FieldsShape DEF TellsOf, Spells
<1>7. DbInv' /\ CallType'
    BY <1>2 DEF IInv, DbInv, CallType
<1>8. TypeOK'
    BY <1>2, <1>5, <1>7, TypeFrom DEF IInv, TypeOK
<1>9. ASSUME NEW v \in Writers, v # w PROVE WriterInv(v)'
    <2>1. Same(v)
        BY <1>2, <1>5, <1>9 DEF Same, IInv, TypeOK
    <2> QED BY <1>2, <2>1, OthersBeside
<1>10. wpc'[w] = "release"
    BY <1>2 DEF IInv, TypeOK
<1>11. CallOf(w)'
    BY <1>2, <1>10 DEF IInv, WriterInv, CallOf, Upserting
<1>12. IdsOf(w)'
    BY <1>2 DEF IInv, WriterInv, IdsOf, Upserting
<1>13. HoldOf(w)'
    BY <1>2, <1>5, <1>6, <1>10 DEF IInv, WriterInv, HoldOf, Upserting
<1> QED BY <1>7, <1>8, <1>9, <1>11, <1>12, <1>13 DEF IInv, WriterInv

(* What is written down of a call changes no table. *)
LEMMA Recorded ==
    ASSUME NEW d, Sound(d), NEW l, Record(l), l.dict = d.dict, l.rows = d.rows,
           \A c \in l.told : TellsOf(d, c.entity, c.id, c.text)
    PROVE  Sound(l) /\ View(l) = View(d) /\ Extends(l, d)
<1>1. \A id : Text(l, id) = Text(d, id)
    BY DEF Text
<1>2. Shape(l)
    BY DEF Sound, Shape
<1>3. Database(l)
    BY DEF Sound, Database
<1>4. DistinctWords(l) /\ DistinctKeys(l)
    BY DEF Sound, DistinctWords, DistinctKeys
<1>5. ToldStand(l)
    BY <1>1 DEF ToldStand, TellsOf
<1>6. View(l) = View(d)
    BY <1>1 DEF View, TextRow
<1>7. Extends(l, d)
    BY DEF Extends, Knows
<1> QED BY <1>2, <1>3, <1>4, <1>5, <1>6, <1>7 DEF Sound

(* The image that a call releases. *)
LEMMA Released ==
    ASSUME IInv, NEW w \in Writers, wpc[w] = "release",
           NEW d, d = [mem EXCEPT !.told = @ \union {Claim(w)}, !.said = @ \union Said(w)]
    PROVE  Sound(d) /\ View(d) = View(mem) /\ Extends(d, mem) /\ Clean(d)
<1>1. Sound(mem) /\ Record(mem) /\ holder = w
    BY DEF IInv, DbInv, Sound, Shape, WriterInv, HoldOf
<1>2. /\ call[w].entity \in Entities /\ call[w].text \in Texts(call[w].entity) /\ Said(w) \subseteq Words
      /\ call[w].text \in [Range(Fields[call[w].entity]) -> Words \union {Null}]
    BY CallParts DEF Upserting
<1>3. Claim(w) \in Claims /\ TellsOf(mem, Claim(w).entity, Claim(w).id, Claim(w).text)
    <2>1. result[w] \in Nat
        BY DEF IInv, TypeOK
    <2>2. call[w].text \in AnyText
        BY <1>2 DEF AnyText
    <2>3. TellsOf(mem, call[w].entity, result[w], call[w].text)
        BY DEF IInv, WriterInv, HoldOf
    <2> QED BY <1>2, <2>1, <2>2, <2>3 DEF Claim, Claims
<1>4. mem.told \subseteq Claims /\ mem.said \subseteq Words
    BY <1>1 DEF Record
<1>5. PICK told \in SUBSET Claims : told = mem.told \union {Claim(w)}
    BY <1>3, <1>4
<1>6. PICK said \in SUBSET Words : said = mem.said \union Said(w)
    BY <1>2, <1>4
<1>7. d = [mem EXCEPT !.told = told, !.said = said]
    BY <1>5, <1>6
<1>8. Record(d) /\ d.dict = mem.dict /\ d.rows = mem.rows /\ d.told = told /\ d.said = said
    BY <1>1, <1>7 DEF Record
<1>9. \A c \in told : TellsOf(mem, c.entity, c.id, c.text)
    BY <1>1, <1>3, <1>5 DEF Sound, ToldStand
<1>10. Sound(d) /\ View(d) = View(mem) /\ Extends(d, mem)
    BY <1>1, <1>8, <1>9, Recorded
<1>11. Clean(d)
    <2> SUFFICES ASSUME NEW i \in DOMAIN mem.dict
                 PROVE  mem.dict[i] \in mem.said \/ mem.dict[i] \in Said(w)
        BY <1>6, <1>8 DEF Clean
    <2>1. mem.dict[i] \in mem.said \/ \E f \in DOMAIN call[w].text : call[w].text[f] = mem.dict[i]
        BY <1>1 DEF IInv, WriterInv, HoldOf, Upserting
    <2>2. mem.dict[i] # Null
        BY <1>1, SoundParts, InternAssumption
    <2> QED BY <2>1, <2>2 DEF Said, Range
<1> QED BY <1>10, <1>11

LEMMA ReleaseIsKept ==
    ASSUME IInv, NEW w \in Writers, Release(w)
    PROVE  IInv'
<1>1. /\ wpc[w] = "release" /\ Goto(w, "idle") /\ wpc' = [wpc EXCEPT ![w] = "idle"]
      /\ outer' = outer /\ call' = call /\ ids' = ids /\ result' = result /\ calls' = calls
    BY DEF Release, Goto, localVars
<1>2. PICK d : /\ d = [mem EXCEPT !.told = @ \union {Claim(w)}, !.said = @ \union Said(w)]
               /\ ReleaseSavepoint(w, d)
    BY DEF Release
<1>3. Sound(d) /\ Extends(d, mem) /\ Clean(d)
    BY <1>1, <1>2, Released
<1>4. holder = w
    BY <1>1 DEF IInv, WriterInv, HoldOf
<1>5. DbInv' /\ Extends(disk', disk) /\ holder' \in {w, Nobody}
    BY <1>2, <1>3, <1>4, ReleaseKeeps
<1>6. CallType'
    BY <1>1 DEF IInv, CallType
<1>7. TypeOK'
    BY <1>1, <1>5, <1>6, TypeFrom DEF IInv, TypeOK
<1>8. ASSUME NEW v \in Writers, v # w PROVE WriterInv(v)'
    <2>1. Same(v)
        BY <1>1, <1>8 DEF Same, IInv, TypeOK
    <2> QED BY <1>4, <1>5, <1>8, <2>1, OthersWait
<1>9. WriterInv(w)'
    <2>1. wpc'[w] = "idle"
        BY <1>1 DEF IInv, TypeOK
    <2>2. (holder' = w => w \in outer') /\ mem' = mark'
        BY <1>1, <1>2, InternAssumption DEF ReleaseSavepoint
    <2> QED BY <2>1, <2>2 DEF WriterInv, CallOf, IdsOf, HoldOf, Upserting
<1> QED BY <1>5, <1>6, <1>7, <1>8, <1>9 DEF IInv

LEMMA BareInsertKeeps ==
    ASSUME IInv, NEW w \in Writers, BareInsert(w)
    PROVE  IInv'
<1> DEFINE word == call[w].text
           l == Learn(mem, word)
<1>1. /\ wpc[w] = "word" /\ Goto(w, "wordLookup") /\ wpc' = [wpc EXCEPT ![w] = "wordLookup"]
      /\ outer' = outer /\ call' = call /\ ids' = ids /\ result' = result /\ calls' = calls
      /\ holder \in {w, Nobody}
    BY DEF BareInsert, Goto, localVars, CanWrite
<1>2. PICK d : d = [l EXCEPT !.said = @ \union {word}] /\ ReleaseSavepoint(w, d)
    BY DEF BareInsert
<1>3. word \in Words /\ Sound(mem) /\ mem = mark /\ Clean(mem)
    BY <1>1 DEF IInv, DbInv, WriterInv, CallOf, HoldOf, Upserting
<1>4. /\ Sound(l) /\ Knows(l, word) /\ l.said = mem.said /\ l.told = mem.told
      /\ \A i \in DOMAIN mem.dict : i \in DOMAIN l.dict /\ l.dict[i] = mem.dict[i]
      /\ \A i \in DOMAIN l.dict : l.dict[i] = word \/ (i \in DOMAIN mem.dict /\ l.dict[i] = mem.dict[i])
    BY <1>3, LearnWord
<1> HIDE DEF l
<1>5. Record(d) /\ d.dict = l.dict /\ d.rows = l.rows /\ d.told = l.told /\ d.said = l.said \union {word}
    <2>1. Record(l) /\ l.said \union {word} \in SUBSET Words
        BY <1>3, <1>4 DEF Sound, Shape, Record
    <2> QED BY <1>2, <2>1 DEF Record
<1>6. Sound(d) /\ Extends(d, l)
    <2>1. \A c \in d.told : TellsOf(l, c.entity, c.id, c.text)
        BY <1>4, <1>5 DEF Sound, ToldStand
    <2> QED BY <1>4, <1>5, <2>1, Recorded
<1>7. Extends(d, mem) /\ Knows(d, word)
    BY <1>4, <1>5 DEF Extends, Knows
<1>8. Clean(d)
    BY <1>3, <1>4, <1>5 DEF Clean
<1>9. DbInv' /\ Extends(disk', disk) /\ holder' \in {w, Nobody}
    BY <1>1, <1>2, <1>6, <1>7, <1>8, ReleaseKeeps
<1>10. CallType'
    BY <1>1 DEF IInv, CallType
<1>11. TypeOK'
    BY <1>1, <1>9, <1>10, TypeFrom DEF IInv, TypeOK
<1>12. ASSUME NEW v \in Writers, v # w PROVE WriterInv(v)'
    <2>1. Same(v)
        BY <1>1, <1>12 DEF Same, IInv, TypeOK
    <2> QED BY <1>1, <1>9, <1>12, <2>1, OthersWait
<1>13. WriterInv(w)'
    <2>1. wpc'[w] = "wordLookup" /\ call'[w].text = word
        BY <1>1 DEF IInv, TypeOK
    <2>2. \/ holder' = w /\ w \in outer' /\ mem' = d /\ mark' = d
          \/ holder' = Nobody /\ holder' # w /\ disk' = d
        BY <1>1, <1>2, InternAssumption DEF ReleaseSavepoint
    <2> QED BY <1>3, <1>7, <2>1, <2>2 DEF WriterInv, CallOf, IdsOf, HoldOf, Upserting
<1> QED BY <1>9, <1>10, <1>11, <1>12, <1>13 DEF IInv

(* Steps that leave the database, and the arguments, alone. *)
LEMMA CallInternKeeps ==
    ASSUME IInv, NEW w \in Writers, NEW word \in Words, CallIntern(w, word)
    PROVE  IInv'
<1>1. UNCHANGED dbVars /\ outer' = outer /\ ids' = ids /\ result' = result /\ UNCHANGED <<disk, mem, mark, holder>>
      /\ wpc[w] = "idle" /\ wpc' = [wpc EXCEPT ![w] = "word"] /\ Goto(w, "word")
      /\ call' = [call EXCEPT ![w] = [entity |-> Bare, text |-> word]]
    BY DEF CallIntern, Goto, dbVars
<1>2. DbInv' /\ CallType'
    BY <1>1 DEF IInv, DbInv, CallType
<1>3. calls' \in 0..MaxCalls
    BY InternAssumption DEF CallIntern, IInv, TypeOK
<1>4. TypeOK'
    BY <1>1, <1>2, <1>3, TypeFrom DEF IInv, TypeOK
<1>5. ASSUME NEW v \in Writers, v # w PROVE WriterInv(v)'
    <2>1. Same(v)
        BY <1>1, <1>5 DEF Same, IInv, TypeOK, CallType
    <2> QED BY <1>1, <2>1, OthersBeside
<1>6. WriterInv(w)'
    <2>1. wpc'[w] = "word" /\ call'[w].text = word
        BY <1>1 DEF IInv, TypeOK, CallType
    <2>2. holder = w => mem = mark /\ w \in outer
        BY <1>1 DEF IInv, WriterInv, HoldOf, Upserting
    <2> QED BY <1>1, <2>1, <2>2 DEF WriterInv, CallOf, IdsOf, HoldOf, Upserting
<1> QED BY <1>2, <1>4, <1>5, <1>6 DEF IInv

LEMMA BareSelectKeeps ==
    ASSUME IInv, NEW w \in Writers, BareSelect(w)
    PROVE  IInv'
<1> DEFINE d == IF holder = w THEN mem ELSE disk
<1>1. UNCHANGED dbVars /\ outer' = outer /\ call' = call /\ ids' = ids /\ calls' = calls
      /\ UNCHANGED <<disk, mem, mark, holder>>
      /\ wpc[w] = "wordLookup" /\ wpc' = [wpc EXCEPT ![w] = "idle"] /\ Goto(w, "idle")
      /\ result' = [result EXCEPT ![w] = IdOf(d, call[w].text)]
    BY DEF BareSelect, Goto, dbVars
<1>2. DbInv' /\ CallType'
    BY <1>1 DEF IInv, DbInv, CallType
<1>3. IdOf(d, call[w].text) \in Nat
    <2>1. Knows(d, call[w].text)
        BY <1>1 DEF IInv, WriterInv, HoldOf
    <2>2. DOMAIN d.dict = 1..Len(d.dict)
        BY SoundParts DEF IInv, DbInv
    <2> QED BY <2>1, <2>2, IdOfWord
<1>4. result' \in [Writers -> Nat] /\ \A v \in Writers \ {w} : result'[v] = result[v]
    BY <1>1, <1>3 DEF IInv, TypeOK
<1>5. TypeOK'
    BY <1>1, <1>2, <1>4, TypeFrom DEF IInv, TypeOK
<1>6. ASSUME NEW v \in Writers, v # w PROVE WriterInv(v)'
    <2>1. Same(v)
        BY <1>1, <1>4, <1>6 DEF Same, IInv, TypeOK
    <2> QED BY <1>1, <2>1, OthersBeside
<1>7. WriterInv(w)'
    <2>1. wpc'[w] = "idle"
        BY <1>1 DEF IInv, TypeOK
    <2>2. holder = w => mem = mark /\ w \in outer
        BY <1>1 DEF IInv, WriterInv, HoldOf, Upserting
    <2> QED BY <1>1, <2>1, <2>2 DEF WriterInv, CallOf, IdsOf, HoldOf, Upserting
<1> QED BY <1>2, <1>5, <1>6, <1>7 DEF IInv

LEMMA BeginOuterKeeps ==
    ASSUME IInv, NEW w \in Writers, BeginOuter(w)
    PROVE  IInv'
<1>1. UNCHANGED dbVars /\ call' = call /\ ids' = ids /\ result' = result /\ calls' = calls
      /\ UNCHANGED <<disk, mem, mark, holder>>
      /\ wpc[w] = "idle" /\ wpc' = wpc /\ w \notin outer /\ outer' = outer \union {w}
    BY DEF BeginOuter, dbVars, localVars
<1>2. DbInv' /\ CallType'
    BY <1>1 DEF IInv, DbInv, CallType
<1>3. Goto(w, "idle")
    BY <1>1 DEF Goto, IInv, TypeOK
<1>4. TypeOK'
    BY <1>1, <1>2, <1>3, TypeFrom DEF IInv, TypeOK
<1>5. ASSUME NEW v \in Writers, v # w PROVE WriterInv(v)'
    <2>1. Same(v)
        BY <1>1, <1>5 DEF Same
    <2> QED BY <1>1, <2>1, OthersBeside
<1>6. WriterInv(w)'
    <2>1. holder # w
        BY <1>1 DEF IInv, WriterInv, HoldOf, Upserting
    <2> QED BY <1>1, <2>1 DEF WriterInv, CallOf, IdsOf, HoldOf, Upserting
<1> QED BY <1>2, <1>4, <1>5, <1>6 DEF IInv

LEMMA CommitOuterKeeps ==
    ASSUME IInv, NEW w \in Writers, CommitOuter(w)
    PROVE  IInv'
<1>1. /\ wpc[w] = "idle" /\ wpc' = wpc /\ outer' = outer \ {w} /\ mem' = mem /\ mark' = mark
      /\ call' = call /\ ids' = ids /\ result' = result /\ calls' = calls
      /\ \/ holder = w /\ disk' = mem /\ holder' = Nobody
         \/ holder # w /\ disk' = disk /\ holder' = holder
    BY DEF CommitOuter, localVars
<1>2. holder = w => mem = mark
    BY <1>1 DEF IInv, WriterInv, HoldOf, Upserting
<1>3. DbInv' /\ Extends(disk', disk)
    BY <1>1, <1>2 DEF IInv, DbInv, Extends
<1>4. CallType'
    BY <1>1 DEF IInv, CallType
<1>5. Goto(w, "idle")
    BY <1>1 DEF Goto, IInv, TypeOK
<1>6. TypeOK'
    BY <1>1, <1>3, <1>4, <1>5, TypeFrom DEF IInv, TypeOK
<1>7. ASSUME NEW v \in Writers, v # w PROVE WriterInv(v)'
    <2>1. Same(v)
        BY <1>1, <1>7 DEF Same
    <2>2. CASE holder = w
        BY <1>1, <1>3, <1>7, <2>1, <2>2, OthersWait
    <2>3. CASE holder # w
        <3>1. UNCHANGED dbVars
            BY <1>1, <2>3 DEF dbVars
        <3> QED BY <2>1, <3>1, OthersBeside
    <2> QED BY <2>2, <2>3
<1>8. WriterInv(w)'
    <2>1. holder' # w
        BY <1>1, InternAssumption
    <2> QED BY <1>1, <2>1 DEF WriterInv, CallOf, IdsOf, HoldOf, Upserting
<1> QED BY <1>3, <1>4, <1>6, <1>7, <1>8 DEF IInv

(* A transaction that is gone. *)
LEMMA GoneKeeps ==
    ASSUME IInv, NEW w \in Writers, RollbackAll(w), outer' = outer \ {w}, Goto(w, "idle"),
           UNCHANGED <<localVars, calls>>
    PROVE  IInv'
<1>1. /\ wpc' = [wpc EXCEPT ![w] = "idle"] /\ disk' = disk
      /\ call' = call /\ ids' = ids /\ result' = result /\ calls' = calls
      /\ \/ holder = w /\ mem' = disk /\ mark' = disk /\ holder' = Nobody
         \/ holder # w /\ UNCHANGED <<mem, mark, holder>>
    BY DEF RollbackAll, Goto, localVars
<1>2. DbInv' /\ Extends(disk', disk)
    BY <1>1 DEF IInv, DbInv, Extends
<1>3. CallType'
    BY <1>1 DEF IInv, CallType
<1>4. TypeOK'
    BY <1>1, <1>2, <1>3, TypeFrom DEF IInv, TypeOK
<1>5. ASSUME NEW v \in Writers, v # w PROVE WriterInv(v)'
    <2>1. Same(v)
        BY <1>1, <1>5 DEF Same, IInv, TypeOK
    <2>2. CASE holder = w
        BY <1>1, <1>2, <1>5, <2>1, <2>2, OthersWait
    <2>3. CASE holder # w
        <3>1. UNCHANGED dbVars
            BY <1>1, <2>3 DEF dbVars
        <3> QED BY <2>1, <3>1, OthersBeside
    <2> QED BY <2>2, <2>3
<1>6. WriterInv(w)'
    <2>1. holder' # w /\ wpc'[w] = "idle"
        BY <1>1, InternAssumption DEF IInv, TypeOK
    <2> QED BY <1>1, <2>1 DEF WriterInv, CallOf, IdsOf, HoldOf, Upserting
<1> QED BY <1>2, <1>3, <1>4, <1>5, <1>6 DEF IInv

LEMMA RollbackOuterKeeps ==
    ASSUME IInv, NEW w \in Writers, RollbackOuter(w)
    PROVE  IInv'
<1>1. Goto(w, "idle")
    BY DEF RollbackOuter, Goto, IInv, TypeOK
<1> QED BY <1>1, GoneKeeps DEF RollbackOuter

LEMMA DieKeeps ==
    ASSUME IInv, NEW w \in Writers, Die(w)
    PROVE  IInv'
BY GoneKeeps DEF Die

LEMMA FailKeeps ==
    ASSUME IInv, NEW w \in Writers, Fail(w)
    PROVE  IInv'
<1>1. /\ wpc' = [wpc EXCEPT ![w] = "idle"] /\ Goto(w, "idle") /\ disk' = disk /\ mark' = mark
      /\ call' = call /\ ids' = ids /\ result' = result /\ calls' = calls /\ outer' = outer
      /\ \/ holder = w /\ mem' = mark /\ w \in outer /\ holder' = w
         \/ holder = w /\ mem' = mark /\ w \notin outer /\ holder' = Nobody
         \/ holder # w /\ mem' = mem /\ holder' = holder
    BY DEF Fail, RollbackSavepoint, Goto, localVars
<1>2. holder = w /\ w \notin outer => mark = disk
    BY DEF IInv, WriterInv, HoldOf
<1>3. Nobody # w
    BY InternAssumption
<1>4. DbInv' /\ Extends(disk', disk)
    BY <1>1, <1>2, <1>3 DEF IInv, DbInv, Extends
<1>5. CallType'
    BY <1>1 DEF IInv, CallType
<1>6. TypeOK'
    BY <1>1, <1>4, <1>5, TypeFrom DEF IInv, TypeOK
<1>7. ASSUME NEW v \in Writers, v # w PROVE WriterInv(v)'
    <2>1. Same(v)
        BY <1>1, <1>7 DEF Same, IInv, TypeOK
    <2>2. CASE holder = w
        BY <1>1, <1>4, <1>7, <2>1, <2>2, OthersWait
    <2>3. CASE holder # w
        <3>1. UNCHANGED dbVars
            BY <1>1, <2>3 DEF dbVars
        <3> QED BY <2>1, <3>1, OthersBeside
    <2> QED BY <2>2, <2>3
<1>8. WriterInv(w)'
    <2>1. wpc'[w] = "idle" /\ (holder' = w => mem' = mark' /\ w \in outer')
        BY <1>1, <1>3 DEF IInv, TypeOK
    <2> QED BY <2>1 DEF WriterInv, CallOf, IdsOf, HoldOf, Upserting
<1> QED BY <1>4, <1>5, <1>6, <1>7, <1>8 DEF IInv

LEMMA StutterKeeps ==
    ASSUME IInv, UNCHANGED vars
    PROVE  IInv'
<1>1. UNCHANGED <<disk, mem, mark, holder, outer, wpc, call, ids, result, calls>>
    BY DEF vars, dbVars, localVars
<1>2. TypeOK' /\ DbInv' /\ CallType'
    BY <1>1 DEF IInv, TypeOK, DbInv, CallType
<1>3. ASSUME NEW v \in Writers PROVE WriterInv(v)'
    BY <1>1, OthersBeside DEF Same, dbVars
<1> QED BY <1>2, <1>3 DEF IInv

LEMMA NextIInv == IInv /\ [Next]_vars => IInv'
<1> SUFFICES ASSUME IInv, [Next]_vars PROVE IInv'
    OBVIOUS
<1>1. ASSUME NEW w \in Writers, NEW e \in Entities, NEW text \in Texts(e), CallUpsert(w, e, text) PROVE IInv'
    BY <1>1, CallUpsertKeeps
<1>2. ASSUME NEW w \in Writers, NEW word \in Words, CallIntern(w, word) PROVE IInv'
    BY <1>2, CallInternKeeps
<1>3. ASSUME NEW w \in Writers, Step(w) PROVE IInv'
    BY <1>3, SkipNullKeeps, InternInsertKeeps, InternSelectKeeps, InsertRowKeeps, SelectIdKeeps,
       ReleaseIsKept, BareInsertKeeps, BareSelectKeeps DEF Step
<1>4. ASSUME NEW w \in Writers, Fail(w) \/ BeginOuter(w) \/ CommitOuter(w) \/ RollbackOuter(w) \/ Die(w) PROVE IInv'
    BY <1>4, FailKeeps, BeginOuterKeeps, CommitOuterKeeps, RollbackOuterKeeps, DieKeeps
<1>5. CASE AllQuiet \/ UNCHANGED vars
    BY <1>5, StutterKeeps DEF AllQuiet
<1> QED BY <1>1, <1>2, <1>3, <1>4, <1>5 DEF Next

-----------------------------------------------------------------------------
(* What follows.                                                           *)

(* The invariant holds in every state of the writers: uniqueness in the       *)
(* database, claims that stand, and savepoints that lose nothing.             *)
THEOREM Invariance == Spec => []IInv
<1>1. Init => IInv
    BY InitIInv
<1>2. IInv /\ [Next]_vars => IInv'
    BY NextIInv
<1> QED BY <1>1, <1>2, PTL DEF Spec

(* Every image of the database obeys its constraints: ids within the          *)
(* dictionary, and no NULL in a required column.                              *)
THEOREM TypeCorrect == Spec => []TypeOK
<1>1. IInv => TypeOK
    BY DEF IInv
<1> QED BY <1>1, Invariance, PTL

(* An id that a caller was told of stays the id of that text, whatever other  *)
(* connections write, fail at or take back.                                   *)
THEOREM IdsStand == Spec => []ClaimsStand
<1>1. IInv => ClaimsStand
    <2> SUFFICES ASSUME IInv, NEW d \in {disk, mem}, NEW c \in d.told, NEW f \in Key[c.entity]
                 PROVE  View(d)[c.entity][c.id][f] = c.text[f]
        BY DEF ClaimsStand
    <2>1. Sound(d)
        BY DEF IInv, DbInv
    <2>2. c.entity \in Entities /\ TellsOf(d, c.entity, c.id, c.text)
        BY <2>1 DEF Sound, Shape, Record, ToldStand, Claims
    <2>3. f \in Range(Fields[c.entity])
        BY <2>2, FieldsShape
    <2>4. View(d)[c.entity][c.id][f] = Text(d, d.rows[c.entity][c.id][f])
        BY <2>1, <2>2, <2>3, ViewCell DEF TellsOf
    <2> QED BY <2>2, <2>4 DEF TellsOf
<1> QED BY <1>1, Invariance, PTL

(* No committed word of a dictionary stems from a call that failed.           *)
THEOREM FailureLeavesNoWord == Spec => []NothingLeftBehind
<1>1. IInv => NothingLeftBehind
    BY DEF IInv, DbInv, Clean, NothingLeftBehind, Range
<1> QED BY <1>1, Invariance, PTL

-----------------------------------------------------------------------------
(* Tables of text. A call that returns its id is the upsert, whole, of the    *)
(* table that its savepoint found; the end of a transaction is a commit or a   *)
(* rollback; no other step shows.                                              *)

LEMMA ReleaseUpserts ==
    ASSUME IInv, NEW w \in Writers, Release(w)
    PROVE  Promise!Upsert
<1> DEFINE c == [entity |-> call[w].entity, text |-> call[w].text]
<1>1. wpc[w] = "release"
    BY DEF Release
<1>2. PICK d : /\ d = [mem EXCEPT !.told = @ \union {Claim(w)}, !.said = @ \union Said(w)]
               /\ ReleaseSavepoint(w, d)
    BY DEF Release
<1>3. mark' = d /\ (disk' = disk \/ disk' = d)
    BY <1>2 DEF ReleaseSavepoint
<1>4. View(d) = View(mem)
    BY <1>1, <1>2, Released
<1>5. View(mem) = Promise!Upserted(View(mark), c.entity, c.text)
    BY <1>1 DEF IInv, WriterInv, HoldOf
<1>6. c \in Promise!Calls
    BY <1>1, CallParts DEF Upserting, Promise!Calls
<1> HIDE DEF c
<1>7. View(mark') = Promise!Upserted(View(mark), c.entity, c.text)
    BY <1>3, <1>4, <1>5
<1>8. View(disk') \in {View(disk), View(mark')}
    BY <1>3
<1> QED BY <1>6, <1>7, <1>8 DEF Promise!Upsert

LEMMA BareInsertIsUnseen ==
    ASSUME IInv, NEW w \in Writers, BareInsert(w)
    PROVE  View(disk') = View(disk) /\ View(mark') = View(mark)
<1> DEFINE word == call[w].text
           l == Learn(mem, word)
<1>1. wpc[w] = "word" /\ holder \in {w, Nobody}
    BY DEF BareInsert, CanWrite
<1>2. PICK d : d = [l EXCEPT !.said = @ \union {word}] /\ ReleaseSavepoint(w, d)
    BY DEF BareInsert
<1>3. word \in Words /\ Sound(mem) /\ mem = mark /\ (w \notin outer => mem = disk)
    BY <1>1 DEF IInv, DbInv, WriterInv, CallOf, HoldOf, Upserting
<1>4. Sound(l) /\ View(l) = View(mem)
    BY <1>3, LearnWord
<1> HIDE DEF l
<1>5. d.dict = l.dict /\ d.rows = l.rows
    BY <1>2, <1>4 DEF Sound, Shape, Record
<1>6. View(d) = View(l)
    BY <1>5 DEF View, TextRow, Text
<1> QED BY <1>2, <1>3, <1>4, <1>6 DEF ReleaseSavepoint

LEMMA CommitOuterCommits ==
    ASSUME IInv, NEW w \in Writers, CommitOuter(w)
    PROVE  Promise!Commit \/ (disk' = disk /\ mark' = mark)
<1>1. holder = w => mem = mark
    BY DEF CommitOuter, IInv, WriterInv, HoldOf, Upserting
<1> QED BY <1>1 DEF CommitOuter, Promise!Commit

LEMMA RollbackRollsBack ==
    ASSUME NEW w \in Writers, RollbackAll(w)
    PROVE  Promise!Rollback \/ (disk' = disk /\ mark' = mark)
BY DEF RollbackAll, Promise!Rollback

LEMMA InitTextTable == Init => Promise!Init
<1> SUFFICES ASSUME Init PROVE Promise!Init
    OBVIOUS
<1>1. View(Empty) = [e \in Entities |-> <<>>]
    <2>1. ASSUME NEW e \in Entities
          PROVE  [i \in DOMAIN Empty.rows[e] |-> TextRow(Empty, Empty.rows[e][i])] = <<>>
        <3>1. Empty.rows[e] = <<>> /\ DOMAIN Empty.rows[e] = {}
            BY EmptySeq DEF Empty
        <3>2. [i \in DOMAIN Empty.rows[e] |-> TextRow(Empty, Empty.rows[e][i])] \in Seq(Nat)
            BY <3>1
        <3> QED BY <3>1, <3>2, EmptySeq
    <2> QED BY <2>1 DEF View
<1> QED BY <1>1 DEF Init, Promise!Init

LEMMA NextTextTable == IInv /\ [Next]_vars => [Promise!Next]_<<View(disk), View(mark)>>
<1> SUFFICES ASSUME IInv, [Next]_vars
             PROVE  Promise!Next \/ (View(disk') = View(disk) /\ View(mark') = View(mark))
    OBVIOUS
<1>1. ASSUME disk' = disk, mark' = mark
      PROVE  View(disk') = View(disk) /\ View(mark') = View(mark)
    BY <1>1
<1>2. ASSUME NEW w \in Writers, NEW e \in Entities, NEW text \in Texts(e), CallUpsert(w, e, text)
      PROVE  disk' = disk /\ mark' = mark
    BY <1>2 DEF CallUpsert, dbVars
<1>3. ASSUME NEW w \in Writers, NEW word \in Words, CallIntern(w, word)
      PROVE  disk' = disk /\ mark' = mark
    BY <1>3 DEF CallIntern, dbVars
<1>4. ASSUME NEW w \in Writers, SkipNull(w) \/ InternSelect(w) \/ SelectId(w) \/ BareSelect(w) \/ BeginOuter(w)
      PROVE  disk' = disk /\ mark' = mark
    BY <1>4 DEF SkipNull, InternSelect, SelectId, BareSelect, BeginOuter, dbVars
<1>5. ASSUME NEW w \in Writers, InternInsert(w) \/ InsertRow(w)
      PROVE  disk' = disk /\ mark' = mark
    BY <1>5 DEF InternInsert, InsertRow, Write
<1>6. ASSUME NEW w \in Writers, Fail(w)
      PROVE  disk' = disk /\ mark' = mark
    BY <1>6 DEF Fail, RollbackSavepoint
<1>7. ASSUME NEW w \in Writers, Release(w)
      PROVE  Promise!Next
    BY <1>7, ReleaseUpserts DEF Promise!Next
<1>8. ASSUME NEW w \in Writers, BareInsert(w)
      PROVE  View(disk') = View(disk) /\ View(mark') = View(mark)
    BY <1>8, BareInsertIsUnseen
<1>9. ASSUME NEW w \in Writers, CommitOuter(w)
      PROVE  Promise!Next \/ (disk' = disk /\ mark' = mark)
    BY <1>9, CommitOuterCommits DEF Promise!Next
<1>10. ASSUME NEW w \in Writers, RollbackOuter(w) \/ Die(w)
       PROVE  Promise!Next \/ (disk' = disk /\ mark' = mark)
    BY <1>10, RollbackRollsBack DEF RollbackOuter, Die, Promise!Next
<1>11. CASE AllQuiet \/ UNCHANGED vars
    BY <1>1, <1>11 DEF AllQuiet, vars, dbVars
<1>12. ASSUME NEW w \in Writers, Step(w)
       PROVE  Promise!Next \/ (View(disk') = View(disk) /\ View(mark') = View(mark))
    BY <1>1, <1>4, <1>5, <1>7, <1>8, <1>12 DEF Step
<1> QED BY <1>1, <1>2, <1>3, <1>4, <1>6, <1>9, <1>10, <1>11, <1>12 DEF Next

(* The interned writers implement tables of text with atomic upserts, for any *)
(* number of connections: dictionaries, savepoints and failures never show.    *)
THEOREM TablesOfText == Spec => ImplementsTextTable
<1>1. Init => Promise!Init
    BY InitTextTable
<1>2. IInv /\ [Next]_vars => [Promise!Next]_Promise!vars
    BY NextTextTable DEF Promise!vars
<1> QED BY <1>1, <1>2, Invariance, PTL DEF Spec, ImplementsTextTable, Promise!Spec
=============================================================================
