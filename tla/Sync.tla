-------------------------------- MODULE Sync --------------------------------
(***************************************************************************)
(* A generated sync function of binding-core, sync_<entity>: it asks an      *)
(* endpoint for a list of items, over REST unless it did so lately and with   *)
(* the validator of its last answer, and writes what it gets row by row, each  *)
(* item with the children nested in it, kind after kind, and then the new poll  *)
(* state.  Its statements run in no transaction of their own, and the first      *)
(* that fails ends the call.                                                      *)
(***************************************************************************)
EXTENDS SyncFunctions, Integers

CONSTANTS
    Programs,     \* names to programs, with item the entity that is synced
    Documents,    \* what the endpoint may list: sequences of [key, children],
                  \* children a sequence of sets, by kind
    MaxVersion,   \* bound on the versions of the endpoint
    MaxFailures   \* bound on the calls that fail

\* What a row is recognised by: a unique list, or the keys.
RecognisedBy(m) == IF m.unique # <<>> THEN ToSet(m.unique[1]) ELSE {k.name : k \in KeyFields(m)}

\* The sync function of a program, as far as it decides what a call does: keyed tells whether
\* the parent is a part of what a child is recognised by.
SyncFnOf(p) ==
    LET f == emitSyncFn(p, modelOf(p, p.item))
        Related(child) == {g.name : g \in {g \in ToSet(child.fields) : g.rel # ""}}
        Of(c) == [strategy |-> c.strategy, deletes |-> c.deletes, known |-> c.known,
                  keyed |-> RecognisedBy(modelOf(p, c.target)) \cap Related(modelOf(p, c.target)) # {}]
    IN [transport |-> f.transport, freshness |-> f.freshness, interval |-> f.interval, strategy |-> f.strategy,
        children |-> [k \in DOMAIN f.children |-> Of(f.children[k])]]

Strategies == {"upsert", "insert-ignore", "delete-replace"}
Fitting == {n \in DOMAIN Programs : Fits(Programs[n])}
Strange == {n \in DOMAIN Programs : Odd(Programs[n])}

ASSUME SyncAssumption ==
    /\ {MaxVersion, MaxFailures} \subseteq Nat
    /\ \A n \in DOMAIN Programs : \A s \in ToSet(Programs[n].sources) : s.interval \in Nat
    \* Rows are recognised in one way, by columns that are given, and have others beside them.
    /\ \A n \in DOMAIN Programs : \A m \in ToSet(Programs[n].models) :
          ~Interned(m) => /\ Len(m.unique) = (IF isAutoIncr(m) \/ KeyFields(m) = {} THEN 1 ELSE 0)
                           /\ RecognisedBy(m) \subseteq NamesOf(writable(m))
                           /\ RecognisedBy(m) # NamesOf(writable(m))
    /\ \A n \in DOMAIN Programs :
          /\ modelOf(Programs[n], Programs[n].item) \in SyncEntities(Programs[n])
          /\ \A c \in ToSet(SyncFnOf(Programs[n]).children) : c.strategy \in Strategies
    \* The endpoint lists an item once, and a child of a kind with one item.
    /\ \A doc \in Documents :
          /\ doc \in Seq(ToSet(doc))
          /\ \A i, j \in DOMAIN doc : i # j =>
                /\ doc[i].key # doc[j].key
                /\ \A n \in DOMAIN Programs : \A k \in DOMAIN SyncFnOf(Programs[n]).children :
                      doc[i].children[k] \cap doc[j].children[k] = {}

VARIABLES
    program, fn,                    \* of Programs, and its sync function
    version, listed,                \* the endpoint: its validator and its document
    etag, lastModified, polled, age,\* the poll state; age is the time since last_polled_at
    items, children,                \* the tables
    pc, asked, answer,              \* the call: the validator it shows, the answer it works on
    kind, rest,                     \* of the first item: the kind of children, those still to write
    failures

endpoint == <<version, listed>>
poll == <<etag, lastModified, polled, age>>
tables == <<items, children>>
call == <<pc, asked, answer, kind, rest>>
vars == <<program, fn, endpoint, poll, tables, call, failures>>

None == 0
Idle == pc = "idle"
NoAnswer == [version |-> None, items |-> <<>>]
rest_api == fn.transport = "rest"

Init ==
    /\ program \in DOMAIN Programs
    /\ fn = SyncFnOf(Programs[program])
    /\ version = 1 /\ listed \in Documents
    /\ etag = None /\ lastModified = None /\ polled = FALSE /\ age = 0
    /\ items = {} /\ children = {}
    /\ pc = "idle" /\ asked = None /\ answer = NoAnswer
    /\ kind = 0 /\ rest = {}
    /\ failures = 0

-----------------------------------------------------------------------------
(* The endpoint *)

Change ==
    /\ program \in Fitting /\ version < MaxVersion
    /\ version' = version + 1
    /\ listed' \in Documents \ {listed}
    /\ UNCHANGED <<program, fn, poll, tables, call, failures>>

Tick ==
    /\ age < fn.interval
    /\ age' = age + 1
    /\ UNCHANGED <<program, fn, endpoint, etag, lastModified, polled, tables, call, failures>>

-----------------------------------------------------------------------------
(* The call *)

\* What goes into the request of what the poll state holds.
Validator == CASE ~rest_api                      -> None
               [] fn.freshness = "etag"          -> etag
               [] fn.freshness = "last-modified" -> lastModified
               [] OTHER                          -> None

\* get_poll_state; within the interval the call returns at once.
Call ==
    /\ program \in Fitting /\ Idle
    /\ rest_api /\ polled => age >= fn.interval
    /\ pc' = "request" /\ asked' = Validator
    /\ UNCHANGED <<program, fn, endpoint, poll, tables, answer, kind, rest, failures>>

\* Where it returns, what it holds is gone.
Return == pc' = "idle" /\ asked' = None /\ answer' = NoAnswer /\ kind' = 0 /\ rest' = {}

NotModified ==
    /\ pc = "request"
    /\ asked # None /\ asked = version
    /\ Return
    /\ UNCHANGED <<program, fn, endpoint, poll, tables, failures>>

\* Where the item loop goes on with the items that are left.
NextItem(left) == IF left # <<>> THEN "item" ELSE "poll"

\* The poll state after an answer of version v.
PollStateOf(v) ==
    /\ etag' = IF fn.freshness = "etag" THEN v ELSE None
    /\ lastModified' = IF fn.freshness = "last-modified" THEN v ELSE None
    /\ polled' = TRUE /\ age' = 0

\* Mutant: the poll state is set before the items are written.
Answer_SetsPollState ==
    /\ pc = "request"
    /\ asked = None \/ asked # version
    /\ answer' = [version |-> version, items |-> listed]
    /\ pc' = NextItem(listed)
    /\ IF rest_api THEN PollStateOf(version) ELSE UNCHANGED poll
    /\ UNCHANGED <<program, fn, endpoint, tables, asked, kind, rest, failures>>

Answer ==
    /\ pc = "request"
    /\ asked = None \/ asked # version
    /\ answer' = [version |-> version, items |-> listed]
    /\ pc' = NextItem(listed)
    /\ UNCHANGED <<program, fn, endpoint, poll, tables, asked, kind, rest, failures>>

Item == Head(answer.items)

\* On conflict with the item's key an upsert updates the row; the two other strategies
\* are INSERT OR IGNORE.
UpsertItem ==
    /\ pc = "item"
    /\ LET known == {row \in items : row.key = Item.key}
       IN items' = IF known # {} /\ fn.strategy # "upsert" THEN items
                   ELSE (items \ known) \union {[key |-> Item.key, body |-> answer.version]}
    /\ pc' = "children" /\ kind' = 0 /\ rest' = {}
    /\ UNCHANGED <<program, fn, endpoint, poll, children, asked, answer, failures>>

Kind == fn.children[kind]
\* A child has its item for parent where its model refers to it.
ParentOf(k, item) == IF fn.children[k].known THEN {item.key} ELSE {}

NextKind ==
    /\ pc = "children" /\ rest = {} /\ kind + 1 \in DOMAIN fn.children
    /\ kind' = kind + 1 /\ rest' = Item.children[kind']
    /\ pc' = IF fn.children[kind'].deletes THEN "delete" ELSE "children"
    /\ UNCHANGED <<program, fn, endpoint, poll, tables, asked, answer, failures>>

\* Mutant: the children of all items go.
DeleteChildren_All ==
    /\ pc = "delete"
    /\ children' = {row \in children : row.kind # kind}
    /\ pc' = "children"
    /\ UNCHANGED <<program, fn, endpoint, poll, items, asked, answer, kind, rest, failures>>

DeleteChildren ==
    /\ pc = "delete"
    /\ children' = {row \in children : ~(row.kind = kind /\ row.parent = ParentOf(kind, Item))}
    /\ pc' = "children"
    /\ UNCHANGED <<program, fn, endpoint, poll, items, asked, answer, kind, rest, failures>>

Conflicts(row, new) ==
    /\ row.kind = new.kind /\ row.child = new.child
    /\ fn.children[new.kind].keyed => row.parent = new.parent

Written(new) ==
    LET known == {row \in children : Conflicts(row, new)}
    IN IF known # {} /\ Kind.strategy # "upsert" THEN children
       ELSE (children \ known) \union {new}

InsertChild ==
    /\ pc = "children"
    /\ \E child \in rest :
        /\ children' = Written([kind |-> kind, child |-> child, parent |-> ParentOf(kind, Item),
                                body |-> answer.version])
        /\ rest' = rest \ {child}
    /\ UNCHANGED <<program, fn, endpoint, poll, items, pc, asked, answer, kind, failures>>

ItemDone ==
    /\ pc = "children" /\ rest = {} /\ DOMAIN fn.children = 1..kind
    /\ answer' = [answer EXCEPT !.items = Tail(@)]
    /\ pc' = NextItem(Tail(answer.items))
    /\ UNCHANGED <<program, fn, endpoint, poll, tables, asked, kind, rest, failures>>

\* Over GraphQL there is no poll state to set.
SetPollState ==
    /\ pc = "poll"
    /\ IF rest_api THEN PollStateOf(answer.version) ELSE UNCHANGED poll
    /\ Return
    /\ UNCHANGED <<program, fn, endpoint, tables, failures>>

\* A request or a statement fails, an answer is no list, or the process dies:
\* what is written stays, and the poll state is the old one.
Fail ==
    /\ ~ Idle
    /\ failures < MaxFailures
    /\ failures' = failures + 1
    /\ Return
    /\ UNCHANGED <<program, fn, endpoint, poll, tables>>

Step == \/ Call \/ NotModified \/ Answer \/ UpsertItem \/ NextKind \/ DeleteChildren
        \/ InsertChild \/ ItemDone \/ SetPollState

\* The functions of a program that does not fit are not there to be called.
NoFunctions == program \notin Fitting /\ UNCHANGED vars

Next == Change \/ Tick \/ Step \/ Fail \/ NoFunctions

Spec == Init /\ [][Next]_vars

\* The program calls its sync function again and again, and time passes.
FairSpec == Spec /\ WF_vars(Step) /\ WF_vars(Tick)

-----------------------------------------------------------------------------
(* The functions of a program are compiled and find the columns and fields     *)
(* they name, unless its author wrote one of the things that Odd lists:         *)
(* struct and extraction, call and writer, DELETE and table, query and           *)
(* extraction are written by different parts of the emitter and must agree.       *)
FunctionsFit == program \in Fitting <=> program \notin Strange

\* A child that moves is ignored under its new item and deleted under its old one.
LosesMoved(k) == fn.children[k].deletes /\ ~fn.children[k].keyed

\* The children of an item, as their strategies are to write them.
ChildrenCurrent(item, k) ==
    LET Of(child) == {row \in children : row.kind = k /\ row.child = child}
        renewed   == fn.children[k].strategy # "insert-ignore"
    IN /\ \A child \in item.children[k] : \E row \in Of(child) :
            /\ renewed => row.body = version
            /\ renewed \/ fn.children[k].keyed => row.parent = ParentOf(k, item)
       /\ fn.children[k].deletes =>
            {row.child : row \in {r \in children : r.kind = k /\ r.parent = ParentOf(k, item)}} = item.children[k]

Current ==
    \A n \in DOMAIN listed :
        /\ \E row \in items : row.key = listed[n].key /\ (fn.strategy = "upsert" => row.body = version)
        /\ \A k \in DOMAIN fn.children : LosesMoved(k) \/ ChildrenCurrent(listed[n], k)

(* A validator is stored only when the tables hold what it stands for, so that  *)
(* a 304 loses nothing, whichever calls failed on the way: the poll state is     *)
(* set after the item loop.                                                       *)
EtagMeansRows == version \in {etag, lastModified} => Current

(* Once the endpoint has settled and calls do not fail any more, its items get   *)
(* into the tables: a call that failed is made good by a later one.               *)
Converges == []<>(program \in Fitting => Current)
=============================================================================
