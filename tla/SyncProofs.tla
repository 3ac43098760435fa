------------------------------ MODULE SyncProofs ------------------------------
(* What a stored validator means, for any program, any documents the endpoint    *)
(* may list, any number of its versions and of calls that fail.                   *)
EXTENDS Sync, SequenceTheorems, TLAPS

Entries == UNION {ToSet(doc) : doc \in Documents}

\* The call has an answer and works on it.
Working == pc \notin {"idle", "request"}

TypeOK ==
    /\ program \in DOMAIN Programs /\ fn = SyncFnOf(Programs[program])
    /\ version \in Nat \ {0} /\ listed \in Documents
    /\ etag \in 0..version /\ lastModified \in 0..version
    /\ polled \in BOOLEAN /\ age \in Nat
    /\ pc \in {"idle", "request", "item", "children", "delete", "poll"}
    /\ answer \in [version : 0..version, items : Seq(Entries)]
    /\ Working => (answer.items = <<>> <=> pc = "poll")
    /\ kind \in Nat /\ failures \in Nat

\* A call shows the validator the poll state has, and a call that works on an
\* answer did not have the validator of the endpoint's version to show.
ValidatorInv ==
    /\ etag # None => rest_api /\ fn.freshness = "etag"
    /\ lastModified # None => rest_api /\ fn.freshness = "last-modified"
    /\ ~Idle => program \in Fitting
    /\ pc = "request" => asked = Validator
    /\ Working => version \notin {etag, lastModified}

\* What Current says of one item and of one kind of its children, of given tables
\* is and rows, a function f and a version v, for the children that are written.
RowThere(is, f, v, item) == \E row \in is : row.key = item.key /\ (f.strategy = "upsert" => row.body = v)
Parent(f, k, item) == IF f.children[k].known THEN {item.key} ELSE {}
ChildThere(rows, f, v, item, k, child) == \E row \in rows :
    /\ row.kind = k /\ row.child = child
    /\ f.children[k].strategy # "insert-ignore" => row.body = v
    /\ f.children[k].strategy # "insert-ignore" \/ f.children[k].keyed => row.parent = Parent(f, k, item)
Under(rows, f, item, k) == {row.child : row \in {r \in rows : r.kind = k /\ r.parent = Parent(f, k, item)}}
KindThere(rows, f, v, item, k, some) ==
    \/ f.children[k].deletes /\ ~f.children[k].keyed
    \/ /\ \A child \in some : ChildThere(rows, f, v, item, k, child)
       /\ f.children[k].deletes => Under(rows, f, item, k) = some
ItemThere(is, rows, f, v, item) ==
    /\ RowThere(is, f, v, item)
    /\ \A k \in DOMAIN f.children : KindThere(rows, f, v, item, k, item.children[k])

\* The number of items that are done.
Done == Len(listed) - Len(answer.items)

\* What is left of the answer is the end of the document.
AnswerLeft ==
    /\ Done \in Nat
    /\ \A i \in 1..Len(answer.items) : answer.items[i] = listed[Done + i]

\* The item at hand: its row, the kinds before this one and, of this kind, the
\* children that are written.
ItemAtHand == pc \in {"children", "delete"} =>
    /\ RowThere(items, fn, version, Item)
    /\ \A k \in DOMAIN fn.children : k \in 1..(kind - 1) =>
          KindThere(children, fn, version, Item, k, Item.children[k])
    /\ kind # 0 => kind \in DOMAIN fn.children /\ rest \subseteq Item.children[kind]
    /\ pc = "delete" => kind # 0 /\ fn.children[kind].deletes /\ rest = Item.children[kind]
    /\ pc = "children" /\ kind # 0 => KindThere(children, fn, version, Item, kind, Item.children[kind] \ rest)
    /\ pc = "children" /\ kind = 0 => rest = {}

\* While the endpoint stays as it answered, what is done of its document stands
\* in the tables.
Fresh == Working /\ answer.version = version
ItemsDone == \A n \in 1..Done : ItemThere(items, children, fn, version, listed[n])

IInv == /\ TypeOK /\ ValidatorInv
        /\ Fresh => AnswerLeft /\ ItemsDone /\ ItemAtHand
        /\ EtagMeansRows

----------------------------------------------------------------------------
(* The tables.                                                                *)

LEMMA CurrentMeans ==
    Current <=> \A n \in DOMAIN listed : ItemThere(items, children, fn, version, listed[n])
BY DEF Current, ItemThere, RowThere, KindThere, ChildThere, Under, Parent, ParentOf, LosesMoved, ChildrenCurrent

\* Rows of other kinds say nothing of this one.
LEMMA OfOneKind ==
    ASSUME NEW rows, NEW others, NEW f, NEW v, NEW item, NEW k, NEW some,
           \A r : r.kind = k => (r \in rows <=> r \in others),
           KindThere(rows, f, v, item, k, some)
    PROVE  KindThere(others, f, v, item, k, some)
BY DEF KindThere, ChildThere, Under

\* The children of another item are deleted.
LEMMA OthersDeleted ==
    ASSUME NEW rows, NEW f, NEW v, NEW item, NEW k, NEW some, NEW other,
           f.children[k].deletes, f.children[k].known, other.key # item.key,
           KindThere(rows, f, v, item, k, some)
    PROVE  KindThere({r \in rows : ~(r.kind = k /\ r.parent = Parent(f, k, other))}, f, v, item, k, some)
<1> DEFINE left == {r \in rows : ~(r.kind = k /\ r.parent = Parent(f, k, other))}
<1>1. Parent(f, k, item) # Parent(f, k, other)
    BY DEF Parent
<1>2. SUFFICES ASSUME f.children[k].keyed,
                      \A child \in some : ChildThere(rows, f, v, item, k, child),
                      Under(rows, f, item, k) = some
               PROVE  /\ \A child \in some : ChildThere(left, f, v, item, k, child)
                      /\ Under(left, f, item, k) = some
    BY DEF KindThere
<1>3. ASSUME NEW child \in some PROVE ChildThere(left, f, v, item, k, child)
    BY <1>1, <1>2 DEF ChildThere
<1>4. Under(left, f, item, k) = Under(rows, f, item, k)
    BY <1>1 DEF Under
<1> QED BY <1>2, <1>3, <1>4

\* What InsertChild makes of the children.
Meeting(rows, f, new) == {row \in rows : /\ row.kind = new.kind /\ row.child = new.child
                                         /\ f.children[new.kind].keyed => row.parent = new.parent}
Inserted(rows, f, new) ==
    IF Meeting(rows, f, new) # {} /\ f.children[new.kind].strategy # "upsert" THEN rows
    ELSE (rows \ Meeting(rows, f, new)) \cup {new}

\* A child of another item is written.
LEMMA OthersInserted ==
    ASSUME NEW rows, NEW f, NEW v, NEW item, NEW k, NEW some, NEW other, NEW new,
           new.kind = k, new.child \notin some, new.parent = Parent(f, k, other),
           f.children[k].deletes => f.children[k].known, other.key # item.key,
           KindThere(rows, f, v, item, k, some)
    PROVE  KindThere(Inserted(rows, f, new), f, v, item, k, some)
<1> DEFINE grown == Inserted(rows, f, new)
<1>1. \A r \in rows : r.child # new.child => r \in grown
    BY DEF Inserted, Meeting
<1>2. \A child \in some : ChildThere(rows, f, v, item, k, child) => ChildThere(grown, f, v, item, k, child)
    BY <1>1 DEF ChildThere
<1>3. ASSUME f.children[k].deletes, f.children[k].keyed PROVE Under(grown, f, item, k) = Under(rows, f, item, k)
    <2>1. Parent(f, k, item) # new.parent
        BY <1>3 DEF Parent
    <2>2. \A r : r.parent = Parent(f, k, item) => (r \in grown <=> r \in rows)
        BY <2>1, <1>3 DEF Inserted, Meeting
    <2> QED BY <2>2 DEF Under
<1> QED BY <1>2, <1>3 DEF KindThere

\* A child of this item is written: it is among those that are.
LEMMA OwnInserted ==
    ASSUME NEW rows, NEW f, NEW v, NEW item, NEW k, NEW some, NEW child, NEW new,
           new.kind = k, new.child = child, new.parent = Parent(f, k, item), new.body = v,
           child \notin some,
           f.children[k].strategy \in Strategies,
           f.children[k].deletes <=> f.children[k].strategy = "delete-replace",
           KindThere(rows, f, v, item, k, some)
    PROVE  KindThere(Inserted(rows, f, new), f, v, item, k, some \cup {child})
<1> DEFINE grown == Inserted(rows, f, new)
<1>1. SUFFICES ASSUME ~(f.children[k].deletes /\ ~f.children[k].keyed),
                      \A c \in some : ChildThere(rows, f, v, item, k, c),
                      f.children[k].deletes => Under(rows, f, item, k) = some
               PROVE  /\ \A c \in some \cup {child} : ChildThere(grown, f, v, item, k, c)
                      /\ f.children[k].deletes => Under(grown, f, item, k) = some \cup {child}
    BY DEF KindThere
<1>2. \A r \in rows : r.child # new.child => r \in grown
    BY DEF Inserted, Meeting
<1>3. \A c \in some : ChildThere(grown, f, v, item, k, c)
    BY <1>1, <1>2 DEF ChildThere
<1>4. new \in grown => ChildThere(grown, f, v, item, k, child)
    BY DEF ChildThere
<1>5. CASE f.children[k].deletes
    <2>1. Meeting(rows, f, new) = {}
        <3> SUFFICES ASSUME NEW r \in Meeting(rows, f, new) PROVE FALSE
            OBVIOUS
        <3>1. r \in rows /\ r.kind = k /\ r.child = child /\ r.parent = Parent(f, k, item)
            BY <1>1, <1>5 DEF Meeting
        <3>2. child \in Under(rows, f, item, k)
            BY <3>1 DEF Under
        <3> QED BY <3>2, <1>1, <1>5
    <2>2. grown = rows \cup {new}
        BY <2>1 DEF Inserted
    <2>3. Under(grown, f, item, k) = Under(rows, f, item, k) \cup {child}
        BY <2>2 DEF Under
    <2> QED BY <2>2, <2>3, <1>1, <1>3, <1>4, <1>5
<1>6. CASE f.children[k].strategy = "upsert"
    BY <1>3, <1>4, <1>6 DEF Inserted
<1>7. CASE f.children[k].strategy = "insert-ignore"
    <2>1. CASE Meeting(rows, f, new) = {}
        BY <2>1, <1>3, <1>4, <1>7 DEF Inserted
    <2>2. CASE Meeting(rows, f, new) # {}
        <3>1. PICK r \in rows : r.kind = k /\ r.child = child /\ (f.children[k].keyed => r.parent = Parent(f, k, item))
            BY <2>2 DEF Meeting
        <3>2. grown = rows
            BY <2>2, <1>7 DEF Inserted
        <3>3. ChildThere(grown, f, v, item, k, child)
            BY <3>1, <3>2, <1>7 DEF ChildThere
        <3> QED BY <3>3, <1>3, <1>7
    <2> QED BY <2>1, <2>2
<1> QED BY <1>5, <1>6, <1>7 DEF Strategies

----------------------------------------------------------------------------
(* The function and the document.                                              *)

LEMMA KindOfChildren ==
    ASSUME TypeOK, program \in Fitting, NEW k \in DOMAIN fn.children
    PROVE  /\ fn.children[k].deletes => fn.children[k].known
           /\ fn.children[k].deletes <=> fn.children[k].strategy = "delete-replace"
           /\ fn.children[k].strategy \in Strategies
<1> DEFINE p == Programs[program]
           m == modelOf(p, p.item)
           g == emitSyncFn(p, m)
<1>1. /\ k \in DOMAIN g.children
      /\ fn.children[k].deletes = g.children[k].deletes
      /\ fn.children[k].known = g.children[k].known
      /\ fn.children[k].strategy = g.children[k].strategy
    BY DEF TypeOK, SyncFnOf
<1>2. g.children[k].deletes <=> g.children[k].strategy = "delete-replace"
    BY <1>1 DEF emitSyncFn, ChildCall
<1>3. SyncFits(p, m)
    BY SyncAssumption DEF Fitting, Fits, TypeOK
<1>4. g.children[k].deletes => g.children[k].known
    BY <1>1, <1>3 DEF SyncFits, ToSet
<1>5. fn.children[k].strategy \in Strategies
    BY SyncAssumption DEF TypeOK, ToSet
<1> QED BY <1>1, <1>2, <1>4, <1>5

LEMMA DocumentOf ==
    ASSUME TypeOK
    PROVE  /\ listed \in Seq(Entries)
           /\ \A i, j \in 1..Len(listed) : i # j =>
                 /\ listed[i].key # listed[j].key
                 /\ \A k \in DOMAIN fn.children : listed[i].children[k] \cap listed[j].children[k] = {}
<1>1. listed \in Documents /\ program \in DOMAIN Programs /\ fn = SyncFnOf(Programs[program])
    BY DEF TypeOK
<1>2. listed \in Seq(ToSet(listed))
    BY <1>1, SyncAssumption
<1>3. ToSet(listed) \subseteq Entries
    BY <1>1 DEF Entries
<1>4. listed \in Seq(Entries)
    BY <1>2, <1>3
<1>5. DOMAIN listed = 1..Len(listed)
    BY <1>2
<1> QED BY <1>1, <1>4, <1>5, SyncAssumption

\* The item at hand is the one after those that are done.
LEMMA ItemIsNext ==
    ASSUME TypeOK, Working, AnswerLeft, pc # "poll"
    PROVE  /\ Done + 1 \in 1..Len(listed) /\ Item = listed[Done + 1]
           /\ answer.items # <<>> /\ Len(answer.items) \in Nat
<1>1. listed \in Seq(Entries) /\ answer.items \in Seq(Entries)
    BY DocumentOf DEF TypeOK
<1>2. answer.items # <<>> /\ Len(answer.items) \in Nat \ {0} /\ Len(listed) \in Nat
    <2>1. answer.items # <<>>
        BY DEF TypeOK
    <2>2. \A q \in Seq(Entries) : Len(q) \in Nat /\ (q # <<>> => Len(q) # 0)
        BY EmptySeq, LenProperties
    <2> QED BY <2>1, <2>2, <1>1
<1>3. Done + 1 \in 1..Len(listed)
    BY <1>2 DEF Done, AnswerLeft
<1>4. Item = answer.items[1]
    BY <1>1, <1>2 DEF Item
<1> QED BY <1>2, <1>3, <1>4 DEF AnswerLeft

\* A step that leaves function, endpoint, tables and answer leaves what is done.
LEMMA DoneStays ==
    ASSUME UNCHANGED <<fn, version, listed, items, children, answer>>
    PROVE  ItemsDone' = ItemsDone
BY DEF ItemsDone, Done

----------------------------------------------------------------------------
LEMMA InitIInv == Init => IInv
<1> SUFFICES ASSUME Init PROVE IInv
    OBVIOUS
<1> USE DEF Init
<1>1. answer \in [version : 0..version, items : Seq(Entries)]
    BY DEF NoAnswer, None
<1>2. TypeOK
    <2>1. version \in Nat \ {0} /\ etag \in 0..version /\ lastModified \in 0..version
        BY DEF None
    <2> QED BY <1>1, <2>1 DEF TypeOK, Working
<1>3. ValidatorInv
    BY DEF ValidatorInv, Working, Idle, None
<1>4. ~Fresh
    BY DEF Fresh, Working
<1>5. EtagMeansRows
    BY DEF EtagMeansRows, None
<1> QED BY <1>2, <1>3, <1>4, <1>5 DEF IInv

LEMMA ChangeKeeps == ASSUME IInv, Change PROVE IInv'
<1> USE DEF IInv, Change, poll, tables, call
<1>1. TypeOK'
    BY DEF TypeOK, Working
<1>2. ValidatorInv'
    BY DEF ValidatorInv, Working, Idle, Validator, rest_api, TypeOK
<1>3. ~Fresh'
    BY DEF Fresh, TypeOK
<1>4. EtagMeansRows'
    BY DEF EtagMeansRows, TypeOK
<1> QED BY <1>1, <1>2, <1>3, <1>4

\* Steps that leave everything but the time, the failures and what is asked.
LEMMA QuietKeeps ==
    ASSUME IInv, TypeOK', ValidatorInv',
           UNCHANGED <<fn, version, listed, etag, lastModified, items, children>>,
           ~Working' \/ UNCHANGED <<pc, answer, kind, rest>>
    PROVE  IInv'
<1> USE DEF IInv
<1>1. Current' = Current
    BY DEF Current, LosesMoved, ChildrenCurrent, ParentOf
<1>2. EtagMeansRows'
    BY <1>1 DEF EtagMeansRows
<1>3. CASE ~Working'
    BY <1>2, <1>3 DEF Fresh
<1>4. CASE UNCHANGED <<pc, answer, kind, rest>>
    <2>1. ItemsDone' = ItemsDone
        BY <1>4, DoneStays
    <2>2. (Fresh' <=> Fresh) /\ (AnswerLeft' <=> AnswerLeft) /\ (ItemAtHand' <=> ItemAtHand)
        BY <1>4 DEF Fresh, Working, AnswerLeft, Done, ItemAtHand, Item
    <2> QED BY <1>2, <2>1, <2>2
<1> QED BY <1>3, <1>4

LEMMA TickKeeps == ASSUME IInv, Tick PROVE IInv'
<1> USE DEF Tick, endpoint, tables, call
<1>1. TypeOK'
    BY DEF IInv, TypeOK, Working
<1>2. ValidatorInv'
    BY DEF IInv, ValidatorInv, Working, Idle, Validator, rest_api
<1> QED BY <1>1, <1>2, QuietKeeps

LEMMA CallKeeps == ASSUME IInv, Call PROVE IInv'
<1> USE DEF Call, endpoint, poll, tables
<1>1. TypeOK'
    BY DEF IInv, TypeOK, Working
<1>2. ValidatorInv'
    BY DEF IInv, ValidatorInv, Working, Idle, Validator, rest_api
<1>3. ~Working'
    BY DEF Working
<1> QED BY <1>1, <1>2, <1>3, QuietKeeps

\* The call is over, the poll state is as it was.
LEMMA ReturnKeeps ==
    ASSUME IInv, Return, failures' \in Nat, UNCHANGED <<program, fn, endpoint, poll, tables>>
    PROVE  IInv'
<1> USE DEF Return, endpoint, poll, tables
<1>1. TypeOK'
    BY DEF IInv, TypeOK, Working, NoAnswer, None
<1>2. ValidatorInv'
    BY DEF IInv, ValidatorInv, Working, Idle, Validator, rest_api
<1>3. ~Working'
    BY DEF Working
<1> QED BY <1>1, <1>2, <1>3, QuietKeeps

LEMMA NotModifiedKeeps == ASSUME IInv, NotModified PROVE IInv'
BY ReturnKeeps DEF NotModified, IInv, TypeOK

LEMMA FailKeeps == ASSUME IInv, Fail PROVE IInv'
BY ReturnKeeps DEF Fail, IInv, TypeOK

LEMMA AnswerKeeps == ASSUME IInv, Answer PROVE IInv'
<1> USE DEF IInv
<1>1. /\ pc = "request" /\ (asked = None \/ asked # version)
      /\ answer' = [version |-> version, items |-> listed]
      /\ pc' = NextItem(listed)
      /\ UNCHANGED <<program, fn, version, listed, etag, lastModified, polled, age, items, children,
                     asked, kind, rest, failures>>
    BY DEF Answer, endpoint, poll, tables
<1>2. listed \in Seq(Entries) /\ Len(listed) \in Nat
    BY DocumentOf
<1>3. TypeOK'
    BY <1>1, <1>2 DEF TypeOK, Working, NextItem
<1>4. pc' \in {"item", "poll"} /\ (listed = <<>> <=> pc' = "poll")
    BY <1>1 DEF NextItem
<1>5. ValidatorInv'
    BY <1>1, <1>4 DEF ValidatorInv, Working, Idle, Validator, rest_api, TypeOK, None
<1>6. Done' = 0
    BY <1>1, <1>2 DEF Done
<1>7. AnswerLeft'
    BY <1>1, <1>2, <1>6 DEF AnswerLeft
<1>8. ItemsDone' /\ ItemAtHand'
    BY <1>4, <1>6 DEF ItemsDone, ItemAtHand
<1>9. EtagMeansRows'
    BY <1>4, <1>5 DEF EtagMeansRows, ValidatorInv, Working
<1> QED BY <1>3, <1>5, <1>7, <1>8, <1>9

----------------------------------------------------------------------------
(* The steps of a call that works on an answer. They leave the poll state, and   *)
(* what is to be shown is what holds while the answer is fresh.                   *)

LEMMA WorkKeeps ==
    ASSUME IInv, Working, Working', TypeOK', UNCHANGED <<program, fn, endpoint, poll>>,
           Fresh' => AnswerLeft' /\ ItemsDone' /\ ItemAtHand'
    PROVE  IInv'
<1> USE DEF IInv, endpoint, poll
<1>1. ValidatorInv'
    BY DEF ValidatorInv, Working, Idle, Validator, rest_api
<1>2. EtagMeansRows'
    BY <1>1 DEF EtagMeansRows, ValidatorInv
<1> QED BY <1>1, <1>2

LEMMA UpsertItemKeeps == ASSUME IInv, UpsertItem PROVE IInv'
<1> USE DEF IInv
<1>1. /\ pc = "item" /\ pc' = "children" /\ kind' = 0 /\ rest' = {}
      /\ UNCHANGED <<program, fn, version, listed, etag, lastModified, polled, age, children, asked, answer, failures>>
    BY DEF UpsertItem, endpoint, poll
<1>2. TypeOK'
    BY <1>1 DEF TypeOK, Working
<1>3. ASSUME Fresh' PROVE AnswerLeft' /\ ItemsDone' /\ ItemAtHand'
    <2>1. Fresh /\ AnswerLeft /\ ItemsDone /\ answer.version = version
        BY <1>1, <1>3 DEF Fresh, Working
    <2>2. /\ Done + 1 \in 1..Len(listed) /\ Item = listed[Done + 1]
          /\ answer.items # <<>> /\ Done \in Nat
        BY <2>1, <1>1, ItemIsNext DEF AnswerLeft, Working
    <2>3. AnswerLeft'
        BY <2>1, <2>2, <1>1 DEF AnswerLeft, Done
    <2>4. RowThere(items', fn, version, Item)
        <3> DEFINE known == {row \in items : row.key = Item.key}
                   new   == [key |-> Item.key, body |-> version]
        <3>1. items' = IF known # {} /\ fn.strategy # "upsert" THEN items ELSE (items \ known) \cup {new}
            BY <2>1 DEF UpsertItem
        <3>2. CASE known # {} /\ fn.strategy # "upsert"
            BY <3>1, <3>2 DEF RowThere
        <3>3. CASE ~(known # {} /\ fn.strategy # "upsert")
            <4>1. new \in items' /\ new.key = Item.key /\ new.body = version
                BY <3>1, <3>3
            <4> QED BY <4>1 DEF RowThere
        <3> QED BY <3>2, <3>3
    <2>5. \A row \in items : row.key # Item.key => row \in items'
        BY DEF UpsertItem
    <2>6. ASSUME NEW n \in 1..Done PROVE ItemThere(items', children, fn, version, listed[n])
        <3>1. listed[n].key # Item.key
            BY <2>2, DocumentOf
        <3>2. ItemThere(items, children, fn, version, listed[n])
            BY <2>1 DEF ItemsDone
        <3> QED BY <3>1, <3>2, <2>5 DEF ItemThere, RowThere
    <2>7. ItemsDone'
        BY <2>6, <1>1 DEF ItemsDone, Done
    <2>8. ItemAtHand'
        <3>1. ASSUME NEW k \in 1..(0 - 1) PROVE FALSE
            OBVIOUS
        <3>2. Item' = Item
            BY <1>1 DEF Item
        <3> QED BY <2>4, <3>1, <3>2, <1>1 DEF ItemAtHand
    <2> QED BY <2>3, <2>7, <2>8
<1> QED BY <1>1, <1>2, <1>3, WorkKeeps DEF Working, endpoint, poll

LEMMA NextKindKeeps == ASSUME IInv, NextKind PROVE IInv'
<1> USE DEF IInv
<1>1. /\ pc = "children" /\ rest = {} /\ kind + 1 \in DOMAIN fn.children
      /\ kind' = kind + 1 /\ rest' = Item.children[kind + 1]
      /\ pc' = IF fn.children[kind + 1].deletes THEN "delete" ELSE "children"
      /\ UNCHANGED <<program, fn, version, listed, etag, lastModified, polled, age, items, children, asked, answer, failures>>
    BY DEF NextKind, endpoint, poll, tables
<1>2. TypeOK' /\ kind \in Nat
    BY <1>1 DEF TypeOK, Working
<1>3. ASSUME Fresh' PROVE AnswerLeft' /\ ItemsDone' /\ ItemAtHand'
    <2>1. Fresh /\ AnswerLeft /\ ItemsDone /\ ItemAtHand
        BY <1>1, <1>3 DEF Fresh, Working
    <2>2. AnswerLeft'
        BY <2>1, <1>1 DEF AnswerLeft, Done
    <2>3. ItemsDone'
        BY <2>1, <1>1, DoneStays
    <2>4. Item' = Item
        BY <1>1 DEF Item
    <2>5. ASSUME NEW k \in DOMAIN fn.children, k \in 1..kind
          PROVE  KindThere(children, fn, version, Item, k, Item.children[k])
        <3>1. CASE k = kind
            <4>1. KindThere(children, fn, version, Item, kind, Item.children[kind] \ rest)
                BY <3>1, <2>1, <2>5, <1>1, <1>2 DEF ItemAtHand
            <4>2. Item.children[kind] \ rest = Item.children[kind]
                BY <1>1
            <4> QED BY <3>1, <4>1, <4>2
        <3>2. CASE k # kind
            <4>1. k \in 1..(kind - 1)
                BY <3>2, <2>5, <1>2
            <4> QED BY <4>1, <2>1, <1>1 DEF ItemAtHand
        <3> QED BY <3>1, <3>2
    <2>6. ~fn.children[kind + 1].deletes =>
              KindThere(children, fn, version, Item, kind + 1, {})
        BY DEF KindThere
    <2>7. Item.children[kind + 1] \ Item.children[kind + 1] = {}
        OBVIOUS
    <2>8. (kind + 1) - 1 = kind /\ kind + 1 # 0
        BY <1>2
    <2>9. RowThere(items, fn, version, Item)
        BY <2>1, <1>1 DEF ItemAtHand
    <2>10. ItemAtHand'
        <3>1. \A k \in DOMAIN fn.children : k \in 1..((kind + 1) - 1) =>
                  KindThere(children, fn, version, Item, k, Item.children[k])
            BY <2>5, <2>8
        <3>2. CASE fn.children[kind + 1].deletes
            BY <3>1, <3>2, <2>4, <2>8, <2>9, <1>1 DEF ItemAtHand
        <3>3. CASE ~fn.children[kind + 1].deletes
            BY <3>1, <3>3, <2>4, <2>6, <2>7, <2>8, <2>9, <1>1 DEF ItemAtHand
        <3> QED BY <3>2, <3>3
    <2> QED BY <2>2, <2>3, <2>10
<1> QED BY <1>1, <1>2, <1>3, WorkKeeps DEF Working, endpoint, poll, Next

LEMMA DeleteChildrenKeeps == ASSUME IInv, DeleteChildren PROVE IInv'
<1> USE DEF IInv
<1>1. /\ pc = "delete" /\ pc' = "children"
      /\ UNCHANGED <<program, fn, version, listed, etag, lastModified, polled, age, items, asked, answer,
                     kind, rest, failures>>
    BY DEF DeleteChildren, endpoint, poll
<1>2. children' = {r \in children : ~(r.kind = kind /\ r.parent = Parent(fn, kind, Item))}
    BY DEF DeleteChildren, Parent, ParentOf
<1>3. TypeOK' /\ kind \in Nat
    BY <1>1 DEF TypeOK, Working
<1>4. ASSUME Fresh' PROVE AnswerLeft' /\ ItemsDone' /\ ItemAtHand'
    <2>1. Fresh /\ AnswerLeft /\ ItemsDone /\ ItemAtHand
        BY <1>1, <1>4 DEF Fresh, Working
    <2>2. /\ Done + 1 \in 1..Len(listed) /\ Item = listed[Done + 1] /\ Done \in Nat
        BY <2>1, <1>1, ItemIsNext DEF AnswerLeft, Working
    <2>3. AnswerLeft'
        BY <2>1, <2>2, <1>1 DEF AnswerLeft, Done
    <2>4. /\ kind # 0 /\ kind \in DOMAIN fn.children /\ fn.children[kind].deletes
          /\ rest = Item.children[kind] /\ RowThere(items, fn, version, Item)
          /\ \A k \in DOMAIN fn.children : k \in 1..(kind - 1) =>
                KindThere(children, fn, version, Item, k, Item.children[k])
        BY <2>1, <1>1 DEF ItemAtHand
    <2>5. fn.children[kind].known
        BY <2>4, <1>1, KindOfChildren DEF ValidatorInv, Idle
    <2>6. ASSUME NEW item, NEW k, NEW some, k # kind \/ item.key # Item.key,
                 KindThere(children, fn, version, item, k, some)
          PROVE  KindThere(children', fn, version, item, k, some)
        <3>1. CASE k # kind
            <4>1. \A r : r.kind = k => (r \in children <=> r \in children')
                BY <3>1, <1>2
            <4> QED BY <4>1, <2>6, OfOneKind
        <3>2. CASE k = kind /\ item.key # Item.key
            BY <3>2, <1>2, <2>4, <2>5, <2>6, OthersDeleted
        <3> QED BY <3>1, <3>2, <2>6
    <2>7. ASSUME NEW n \in 1..Done PROVE ItemThere(items, children', fn, version, listed[n])
        <3>1. listed[n].key # Item.key
            BY <2>2, DocumentOf
        <3>2. ItemThere(items, children, fn, version, listed[n])
            BY <2>1 DEF ItemsDone
        <3> QED BY <3>1, <3>2, <2>6 DEF ItemThere
    <2>8. ItemsDone'
        BY <2>7, <1>1 DEF ItemsDone, Done
    <2>9. KindThere(children', fn, version, Item, kind, {})
        BY <1>2 DEF KindThere, Under
    <2>10. ASSUME NEW k \in DOMAIN fn.children, k \in 1..(kind - 1)
           PROVE  KindThere(children', fn, version, Item, k, Item.children[k])
        <3>1. k # kind
            BY <2>10, <1>3
        <3> QED BY <3>1, <2>4, <2>6, <2>10
    <2>11. Item' = Item /\ Item.children[kind] \ rest = {}
        BY <1>1, <2>4 DEF Item
    <2>12. ItemAtHand'
        BY <2>4, <2>9, <2>10, <2>11, <1>1 DEF ItemAtHand
    <2> QED BY <2>3, <2>8, <2>12
<1> QED BY <1>1, <1>3, <1>4, WorkKeeps DEF Working, endpoint, poll

LEMMA InsertChildKeeps == ASSUME IInv, InsertChild PROVE IInv'
<1> USE DEF IInv
<1>1. PICK child \in rest :
          /\ children' = Written([kind |-> kind, child |-> child, parent |-> ParentOf(kind, Item),
                                  body |-> answer.version])
          /\ rest' = rest \ {child}
    BY DEF InsertChild
<1>2. /\ pc = "children"
      /\ UNCHANGED <<program, fn, version, listed, etag, lastModified, polled, age, items, pc, asked, answer,
                     kind, failures>>
    BY DEF InsertChild, endpoint, poll
<1>3. TypeOK' /\ kind \in Nat
    BY <1>2 DEF TypeOK, Working
<1>4. ASSUME Fresh' PROVE AnswerLeft' /\ ItemsDone' /\ ItemAtHand'
    <2>1. Fresh /\ AnswerLeft /\ ItemsDone /\ ItemAtHand /\ answer.version = version
        BY <1>2, <1>4 DEF Fresh, Working
    <2>2. /\ Done + 1 \in 1..Len(listed) /\ Item = listed[Done + 1] /\ Done \in Nat
        BY <2>1, <1>2, ItemIsNext DEF AnswerLeft, Working
    <2>3. AnswerLeft'
        BY <2>1, <2>2, <1>2 DEF AnswerLeft, Done
    <2>4. /\ kind # 0 /\ kind \in DOMAIN fn.children
          /\ rest \subseteq Item.children[kind] /\ RowThere(items, fn, version, Item)
          /\ \A k \in DOMAIN fn.children : k \in 1..(kind - 1) =>
                KindThere(children, fn, version, Item, k, Item.children[k])
          /\ KindThere(children, fn, version, Item, kind, Item.children[kind] \ rest)
        BY <2>1, <1>1, <1>2 DEF ItemAtHand
    <2>5. /\ fn.children[kind].deletes => fn.children[kind].known
          /\ fn.children[kind].deletes <=> fn.children[kind].strategy = "delete-replace"
          /\ fn.children[kind].strategy \in Strategies
        BY <2>4, <1>2, KindOfChildren DEF ValidatorInv, Idle
    <2>6. PICK new : /\ new.kind = kind /\ new.child = child /\ new.parent = Parent(fn, kind, Item)
                     /\ new.body = version /\ children' = Inserted(children, fn, new)
        <3> DEFINE row == [kind |-> kind, child |-> child, parent |-> ParentOf(kind, Item), body |-> answer.version]
        <3>1. /\ row.kind = kind /\ row.child = child /\ row.parent = Parent(fn, kind, Item)
              /\ row.body = version
            BY <2>1 DEF Parent, ParentOf
        <3>2. Written(row) = Inserted(children, fn, row)
            BY <3>1 DEF Written, Conflicts, Inserted, Meeting, Kind
        <3> QED BY <3>1, <3>2, <1>1
    <2>7. \A r : r.kind # kind => (r \in children <=> r \in children')
        BY <2>6 DEF Inserted, Meeting
    <2>8. ASSUME NEW item, NEW k \in DOMAIN fn.children, k # kind \/ (item.key # Item.key /\ child \notin item.children[kind]),
                 KindThere(children, fn, version, item, k, item.children[k])
          PROVE  KindThere(children', fn, version, item, k, item.children[k])
        <3>1. CASE k # kind
            BY <3>1, <2>7, <2>8, OfOneKind
        <3>2. CASE k = kind /\ item.key # Item.key /\ child \notin item.children[kind]
            BY <3>2, <2>5, <2>6, <2>8, OthersInserted
        <3> QED BY <3>1, <3>2, <2>8
    <2>9. ASSUME NEW n \in 1..Done PROVE ItemThere(items, children', fn, version, listed[n])
        <3>1. n \in 1..Len(listed) /\ n # Done + 1
            BY <2>2, DocumentOf
        <3>2. listed[n].key # Item.key /\ child \notin listed[n].children[kind]
            BY <3>1, <2>2, <2>4, DocumentOf
        <3>3. ItemThere(items, children, fn, version, listed[n])
            BY <2>1 DEF ItemsDone
        <3> QED BY <3>2, <3>3, <2>8 DEF ItemThere
    <2>10. ItemsDone'
        BY <2>9, <1>2 DEF ItemsDone, Done
    <2>11. KindThere(children', fn, version, Item, kind, Item.children[kind] \ rest')
        <3>1. KindThere(children', fn, version, Item, kind, (Item.children[kind] \ rest) \cup {child})
            BY <2>4, <2>5, <2>6, OwnInserted
        <3>2. Item.children[kind] \ rest' = (Item.children[kind] \ rest) \cup {child}
            BY <1>1, <2>4
        <3> QED BY <3>1, <3>2
    <2>12. ASSUME NEW k \in DOMAIN fn.children, k \in 1..(kind - 1)
           PROVE  KindThere(children', fn, version, Item, k, Item.children[k])
        <3>1. k # kind
            BY <2>12, <1>3
        <3> QED BY <3>1, <2>4, <2>8, <2>12
    <2>13. Item' = Item /\ rest' \subseteq Item.children[kind]
        BY <1>1, <1>2, <2>4 DEF Item
    <2>14. ItemAtHand'
        BY <2>4, <2>11, <2>12, <2>13, <1>2 DEF ItemAtHand
    <2> QED BY <2>3, <2>10, <2>14
<1> QED BY <1>2, <1>3, <1>4, WorkKeeps DEF Working, endpoint, poll

LEMMA ItemDoneKeeps == ASSUME IInv, ItemDone PROVE IInv'
<1> USE DEF IInv
<1>1. /\ pc = "children" /\ rest = {} /\ DOMAIN fn.children = 1..kind
      /\ answer' = [answer EXCEPT !.items = Tail(@)]
      /\ pc' = NextItem(Tail(answer.items))
      /\ UNCHANGED <<program, fn, version, listed, etag, lastModified, polled, age, items, children,
                     asked, kind, rest, failures>>
    BY DEF ItemDone, endpoint, poll, tables
<1>2. pc' \in {"item", "poll"} /\ (Tail(answer.items) = <<>> <=> pc' = "poll")
    BY <1>1 DEF NextItem
<1>3. answer'.version = answer.version /\ answer'.items = Tail(answer.items)
    BY <1>1 DEF TypeOK
<1>4. answer.items \in Seq(Entries) /\ kind \in Nat
    BY DEF TypeOK
<1>5. answer.items # <<>>
    BY <1>1 DEF TypeOK, Working
<1>6. /\ Tail(answer.items) \in Seq(Entries) /\ Len(answer.items) \in Nat \ {0}
      /\ Len(Tail(answer.items)) = Len(answer.items) - 1
      /\ \A i \in 1..Len(Tail(answer.items)) : Tail(answer.items)[i] = answer.items[i + 1]
    BY <1>4, <1>5, HeadTailProperties, LenProperties, EmptySeq
<1>7. answer' \in [version : 0..version, items : Seq(Entries)]
    BY <1>1, <1>6 DEF TypeOK
<1>8. TypeOK'
    BY <1>1, <1>2, <1>3, <1>7 DEF TypeOK, Working
<1>9. ASSUME Fresh' PROVE AnswerLeft' /\ ItemsDone' /\ ItemAtHand'
    <2>1. Fresh /\ AnswerLeft /\ ItemsDone /\ ItemAtHand
        BY <1>1, <1>3, <1>9 DEF Fresh, Working
    <2>2. /\ Done + 1 \in 1..Len(listed) /\ Item = listed[Done + 1] /\ Done \in Nat
        BY <2>1, <1>1, ItemIsNext DEF AnswerLeft, Working
    <2>3. Len(listed) \in Nat
        BY DocumentOf
    <2>4. Done' = Done + 1
        <3>1. Done' = Len(listed) - Len(Tail(answer.items))
            BY <1>1, <1>3 DEF Done
        <3>2. Len(listed) - (Len(answer.items) - 1) = (Len(listed) - Len(answer.items)) + 1
            BY <1>6, <2>3
        <3> QED BY <3>1, <3>2, <1>6 DEF Done
    <2>5. ASSUME NEW i \in 1..Len(Tail(answer.items))
          PROVE  Tail(answer.items)[i] = listed[(Done + 1) + i]
        <3>1. i + 1 \in 1..Len(answer.items) /\ i \in Nat
            BY <1>6
        <3>2. answer.items[i + 1] = listed[Done + (i + 1)]
            BY <3>1, <2>1 DEF AnswerLeft
        <3>3. Done + (i + 1) = (Done + 1) + i
            BY <3>1, <2>2
        <3> QED BY <3>2, <3>3, <1>6
    <2>6. AnswerLeft'
        BY <2>2, <2>4, <2>5, <1>1, <1>3 DEF AnswerLeft
    <2>7. ASSUME NEW k \in DOMAIN fn.children
          PROVE  KindThere(children, fn, version, Item, k, Item.children[k])
        <3>1. CASE k = kind
            <4>1. KindThere(children, fn, version, Item, kind, Item.children[kind] \ rest)
                BY <3>1, <2>1, <2>7, <1>1 DEF ItemAtHand
            <4>2. Item.children[kind] \ rest = Item.children[kind]
                BY <1>1
            <4> QED BY <3>1, <4>1, <4>2
        <3>2. CASE k # kind
            <4>1. k \in 1..(kind - 1)
                BY <3>2, <2>7, <1>1, <1>4
            <4> QED BY <4>1, <2>1, <1>1 DEF ItemAtHand
        <3> QED BY <3>1, <3>2
    <2>8. ItemThere(items, children, fn, version, Item)
        BY <2>1, <2>7, <1>1 DEF ItemAtHand, ItemThere
    <2>9. \A n \in 1..(Done + 1) : ItemThere(items, children, fn, version, listed[n])
        <3> SUFFICES ASSUME NEW n \in 1..(Done + 1)
                     PROVE  ItemThere(items, children, fn, version, listed[n])
            OBVIOUS
        <3>1. n \in 1..Done \/ n = Done + 1
            BY <2>2
        <3> QED BY <3>1, <2>1, <2>2, <2>8 DEF ItemsDone
    <2>10. ItemsDone'
        BY <2>4, <2>9, <1>1 DEF ItemsDone
    <2>11. ItemAtHand'
        BY <1>2 DEF ItemAtHand
    <2> QED BY <2>6, <2>10, <2>11
<1> QED BY <1>1, <1>2, <1>8, <1>9, WorkKeeps DEF Working, endpoint, poll

(* The poll state is set when nothing of the answer is left. It is the validator  *)
(* of the endpoint only when the whole document stands in the tables.              *)
LEMMA SetPollStateKeeps == ASSUME IInv, SetPollState PROVE IInv'
<1> USE DEF IInv
<1>1. /\ pc = "poll" /\ Return
      /\ IF rest_api THEN PollStateOf(answer.version) ELSE UNCHANGED poll
      /\ UNCHANGED <<program, fn, version, listed, items, children, failures>>
    BY DEF SetPollState, endpoint, tables
<1>2. pc' = "idle"
    BY <1>1 DEF Return
<1>3. /\ etag' \in {None, etag, answer.version} /\ lastModified' \in {None, lastModified, answer.version}
      /\ polled' \in BOOLEAN /\ age' \in Nat
    <2>1. CASE rest_api
        BY <2>1, <1>1 DEF PollStateOf
    <2>2. CASE ~rest_api
        BY <2>2, <1>1 DEF poll, TypeOK
    <2> QED BY <2>1, <2>2
<1>4. TypeOK'
    BY <1>1, <1>2, <1>3 DEF TypeOK, Working, Return, NoAnswer, None
<1>5. ValidatorInv'
    <2>1. CASE rest_api
        BY <2>1, <1>1, <1>2 DEF ValidatorInv, PollStateOf, Working, Idle, rest_api
    <2>2. CASE ~rest_api
        BY <2>2, <1>1, <1>2 DEF ValidatorInv, poll, Working, Idle, rest_api
    <2> QED BY <2>1, <2>2
<1>6. ~Fresh'
    BY <1>2 DEF Fresh, Working
<1>7. EtagMeansRows'
    <2> SUFFICES ASSUME version \in {etag', lastModified'} PROVE Current'
        BY <1>1 DEF EtagMeansRows
    <2>1. answer.version = version /\ Working
        BY <1>1, <1>3 DEF ValidatorInv, Working, TypeOK, None
    <2>2. AnswerLeft /\ ItemsDone
        BY <2>1 DEF Fresh
    <2>3. listed \in Seq(Entries) /\ answer.items = <<>>
        BY <1>1, <2>1, DocumentOf DEF TypeOK
    <2>4. Done = Len(listed) /\ DOMAIN listed = 1..Len(listed)
        BY <2>3 DEF Done
    <2>5. Current
        BY <2>2, <2>4, CurrentMeans DEF ItemsDone
    <2>6. Current' = Current
        BY <1>1 DEF Current, LosesMoved, ChildrenCurrent, ParentOf
    <2> QED BY <2>5, <2>6
<1> QED BY <1>4, <1>5, <1>6, <1>7

----------------------------------------------------------------------------
LEMMA NextIInv == ASSUME IInv, [Next]_vars PROVE IInv'
<1>1. CASE UNCHANGED vars
    <2> USE <1>1 DEF vars, endpoint, poll, tables, call
    <2>1. TypeOK'
        BY DEF IInv, TypeOK, Working
    <2>2. ValidatorInv'
        BY DEF IInv, ValidatorInv, Working, Idle, Validator, rest_api
    <2> QED BY <2>1, <2>2, QuietKeeps
<1>2. CASE Next
    BY <1>1, <1>2, ChangeKeeps, TickKeeps, CallKeeps, NotModifiedKeeps, AnswerKeeps, UpsertItemKeeps,
       NextKindKeeps, DeleteChildrenKeeps, InsertChildKeeps, ItemDoneKeeps, SetPollStateKeeps, FailKeeps
       DEF Next, Step, NoFunctions
<1> QED BY <1>1, <1>2

THEOREM Invariance == Spec => []IInv
<1>1. Init => IInv
    BY InitIInv
<1>2. IInv /\ [Next]_vars => IInv'
    BY NextIInv
<1> QED BY <1>1, <1>2, PTL DEF Spec

\* Every variable has its type in every reachable state.
THEOREM TypeCorrect == Spec => []TypeOK
<1>1. IInv => TypeOK
    BY DEF IInv
<1> QED BY <1>1, Invariance, PTL

(* A stored validator is that of the endpoint only when the tables hold all it     *)
(* stands for, whatever the endpoint listed and whichever calls failed before.      *)
THEOREM ValidatorMeansRows == Spec => []EtagMeansRows
<1>1. IInv => EtagMeansRows
    BY DEF IInv
<1> QED BY <1>1, Invariance, PTL
===============================================================================
