------------------------------- MODULE CTypes -------------------------------
(* The declarations packages/c writes for a program: their names, the C symbols *)
(* each brings with it, how a type is held in C, and the programs refused.      *)
(* A program is a record [named, decl]: the ids of its named declarations in     *)
(* the order of the walk, and all declarations by id. A declaration is a record  *)
(*   [kind, ns, name, members, value]                                            *)
(* of kind model, collection (a model with an indexer: value), union, enum,       *)
(* interface or scalar; a member is a record [name, type, optional, text, number, *)
(* params], text being the string of an enumerator, number <<>> or its number. A   *)
(* name is [parts, dash]: what stands between the underscores, and whether they are     *)
(* hyphens in the source. An anonymous model is a declaration without a name, and  *)
(* has kind model. An identifier is its parts. A type is a record with a kind.      *)
EXTENDS Integers, FiniteSets, SequencesExt

CONSTANTS Keywords,   \* the identifiers of one part that C keeps for itself
          Digits      \* the parts that begin with a digit

Unnamed == [parts |-> <<>>, dash |-> FALSE]
Joined(m, n) == [parts |-> m.parts \o n.parts, dash |-> m.dash \/ n.dash]
Part(s) == [parts |-> <<s>>, dash |-> FALSE]

cIdentifier(n) == (IF n.parts # <<>> /\ Head(n.parts) \in Digits THEN <<"">> ELSE <<>>)
                    \o n.parts \o (IF n.parts \in Keywords THEN <<"">> ELSE <<>>)

----------------------------------------------------------------------------
(* How a type is held. "nullable" is an unnamed union of null and one other type.  *)
nullable(t)         == t.kind = "nullable"
inlineCollection(t) == t.kind \in {"array", "map"}
RECURSIVE isString(_)
isString(t) == t.kind \in {"text", "literal"} \/ (nullable(t) /\ isString(t.inner))
pointerValue(t) == isString(t) \/ t.kind \in {"model", "union", "nullable", "unknown"}
needsCopy(t)    == nullable(t) \/ isString(t) \/ t.kind \in {"unknown", "model", "union"} \/ inlineCollection(t)
RECURSIVE tupleOwnsMemory(_)
tupleOwnsMemory(t) == \E i \in DOMAIN t.values : LET v == t.values[i] IN
    pointerValue(v) \/ nullable(v) \/ inlineCollection(v) \/ (v.kind = "tuple" /\ tupleOwnsMemory(v))

(* What the copy of a type cannot be written for, and what has no codec.             *)
copyValueThrows(t) ==
    IF nullable(t) THEN ~pointerValue(t.inner) /\ (inlineCollection(t.inner) \/ (t.inner.kind = "tuple" /\ tupleOwnsMemory(t.inner)))
    ELSE t.kind = "tuple" /\ tupleOwnsMemory(t)
RECURSIVE copyThrows(_)
copyThrows(t) == CASE inlineCollection(t) -> copyThrows(t.value)
                   [] t.kind = "tuple"    -> \E i \in DOMAIN t.values : copyThrows(t.values[i])
                   [] OTHER               -> copyValueThrows(t)
fieldThrows(t)   == copyThrows(IF nullable(t) /\ inlineCollection(t.inner) THEN t.inner ELSE t)
variantThrows(t) == inlineCollection(t) \/ copyValueThrows(t)

RECURSIVE Holds(_, _)
Holds(t, kinds) == \/ t.kind \in kinds
                   \/ nullable(t) /\ Holds(t.inner, kinds)
                   \/ inlineCollection(t) /\ Holds(t.value, kinds)
                   \/ t.kind = "tuple" /\ \E i \in DOMAIN t.values : Holds(t.values[i], kinds)
typeOfThrows(t) == Holds(t, {"null"})
codecThrows(t)  == Holds(t, {"null", "interface"})

----------------------------------------------------------------------------
(* Names. An anonymous model is declared under the name of the first site that     *)
(* leads to it.                                                                      *)
Concat(seqs) == FlattenSeq(seqs)
RECURSIVE site(_, _, _), membersOf(_, _, _)
site(p, t, name) ==
    CASE t.kind = "tuple"    -> Concat([i \in DOMAIN t.values |-> site(p, t.values[i], Joined(name, Part(ToString(i - 1))))])
      [] nullable(t)         -> site(p, t.inner, name)
      [] inlineCollection(t) -> site(p, t.value, Joined(name, Part("item")))
      [] t.kind = "model" /\ p.decl[t.id].name = Unnamed -> <<[id |-> t.id, name |-> name]>> \o membersOf(p, t.id, name)
      [] OTHER               -> <<>>
membersOf(p, id, name) ==
    LET d == p.decl[id]
        under(m) == Joined(name, m.name)
        result(m) == site(p, m.type, Joined(under(m), Part("result")))
        params(m) == Concat([i \in DOMAIN m.params |-> site(p, m.params[i].type, Joined(under(m), m.params[i].name))])
    IN CASE d.kind = "collection" -> site(p, d.value, Joined(name, Part("item")))
         [] d.kind = "interface"  -> Concat([i \in DOMAIN d.members |-> result(d.members[i]) \o params(d.members[i])])
         [] d.kind \in {"enum", "scalar"} -> <<>>
         [] OTHER                 -> Concat([i \in DOMAIN d.members |-> site(p, d.members[i].type, under(d.members[i]))])

(* All declarations: [id, name, ns], the anonymous ones in the namespace of the site. *)
declarations(p) ==
    LET named  == [i \in DOMAIN p.named |-> LET d == p.decl[p.named[i]] IN [id |-> p.named[i], name |-> d.name, ns |-> d.ns]]
        sites  == Concat([i \in DOMAIN p.named |->
                      LET d == p.decl[p.named[i]]  found == membersOf(p, p.named[i], d.name)
                      IN [k \in DOMAIN found |-> [id |-> found[k].id, name |-> found[k].name, ns |-> d.ns]]])
        first  == SelectSeq([i \in DOMAIN sites |-> [i |-> i, it |-> sites[i]]],
                            LAMBDA e : \A j \in 1..(e.i - 1) : sites[j].id # e.it.id)
    IN named \o [i \in DOMAIN first |-> first[i].it]

symbolOf(e) == Concat([i \in DOMAIN e.ns |-> cIdentifier(e.ns[i])]) \o cIdentifier(e.name)
pathOf(e)   == [i \in DOMAIN e.ns |-> cIdentifier(e.ns[i])] \o <<cIdentifier(e.name)>>

(* The identifiers that a declaration brings into the one space of C. Those made of a   *)
(* member have it as it is written, or as it is called in C.                              *)
Spelled(n, mapped) == IF mapped THEN cIdentifier(n) ELSE n.parts
Suffixed(base, suffixes) == [i \in DOMAIN suffixes |-> base \o suffixes[i]]
interfaceSlots(base, d) == Concat([i \in DOMAIN d.members |->
    LET op   == d.members[i]
        slot == base \o cIdentifier(op.name)
    IN (IF inlineCollection(op.type) THEN <<slot \o <<"result">>>> ELSE <<>>)
         \o Concat([k \in DOMAIN op.params |->
               IF inlineCollection(op.params[k].type) THEN <<slot \o cIdentifier(op.params[k].name)>> ELSE <<>>])])
Symbols(p, e, mapped) ==
    LET d    == p.decl[e.id]
        base == symbolOf(e)
        each(prefix) == [i \in DOMAIN d.members |-> prefix \o Spelled(d.members[i].name, mapped)]
        json == Suffixed(base, <<<<"json", "value">>, <<"json", "read">>, <<"json", "encode">>, <<"json", "decode">>>>)
        cases == <<<<"cases">>, <<"cases", "init">>, <<"match">>>>
    IN <<base>> \o
       CASE d.kind = "scalar" -> <<>>
         [] d.kind \in {"model", "collection"} -> Suffixed(base, <<<<"create">>>>) \o json
         [] d.kind = "interface" -> Suffixed(base, <<<<"create">>>>) \o interfaceSlots(base, d)
         [] d.kind = "enum"  -> Suffixed(base, <<<<"to", "string">>, <<"from", "string">>>> \o cases) \o each(base)
         [] d.kind = "union" -> Suffixed(base, <<<<"tag">>, <<"value">>, <<"tag", "to", "string">>, <<"parse">>, <<"create">>>> \o cases)
                                  \o each(base \o <<"tag">>) \o each(base \o <<"create">>) \o json

(* What emitC looks at, member names as they are written; and what the headers of the   *)
(* declarations and of the codecs hold.                                                   *)
(* Mutant: the constructors of the variants are forgotten.                                *)
checkedSymbols_NoVariants(p) == LET ds == declarations(p) IN
    Concat([i \in DOMAIN ds |-> IF p.decl[ds[i].id].kind = "union" THEN <<symbolOf(ds[i])>> ELSE Symbols(p, ds[i], FALSE)])

checkedSymbols(p) == LET ds == declarations(p) IN
    LET all == Concat([i \in DOMAIN ds |-> Symbols(p, ds[i], FALSE)])
    IN [i \in DOMAIN all |-> cIdentifier([parts |-> all[i], dash |-> FALSE])]
headerSymbols(p) == LET ds == declarations(p) IN Concat([i \in DOMAIN ds |-> Symbols(p, ds[i], TRUE)])

(* What the file of the code of a declaration sees: its header, and a table of its own    *)
(* if it is an enum. Helpers, whose names depend on no program, are left out.              *)
fileSymbols(p, e) == Symbols(p, e, TRUE) \o
    (IF p.decl[e.id].kind = "enum" THEN <<symbolOf(e) \o <<"strings">>>> ELSE <<>>)

(* The members of the struct of a model; has_ is put before the identifier.               *)
checkedMembers(d) == Concat([i \in DOMAIN d.members |-> LET m == d.members[i] IN
    <<cIdentifier(m.name)>> \o (IF m.optional THEN <<cIdentifier(Joined(Part("has"), m.name))>> ELSE <<>>)])
structMembers(d) == Concat([i \in DOMAIN d.members |-> LET id == cIdentifier(d.members[i].name) IN
    (IF d.members[i].optional THEN <<<<"has">> \o id>> ELSE <<>>) \o <<id>>])

(* The numbers C gives to the enumerators of an enum: one more than the last one, if the   *)
(* source has none.                                                                         *)
ordinals(d) == LET n[i \in 0..Len(d.members)] ==
                       IF i = 0 THEN -1 ELSE IF d.members[i].number # <<>> THEN Head(d.members[i].number) ELSE n[i - 1] + 1
               IN [i \in DOMAIN d.members |-> n[i]]

(* The programs emitC refuses.                                                             *)
declarationThrows(d) ==
    LET ms == ToSet(d.members)
        ids(seq) == [i \in DOMAIN seq |-> cIdentifier(seq[i].name)]
    IN \/ ~IsInjective(ids(d.members))
       \/ d.kind = "model" /\ (~IsInjective(checkedMembers(d)) \/ \E m \in ms : codecThrows(m.type) \/ fieldThrows(m.type))
       \/ d.kind = "collection" /\ (codecThrows(d.value) \/ copyThrows(d.value))
       \/ d.kind = "union" /\ (ms = {} \/ \E m \in ms : m.type.kind # "null" /\ (codecThrows(m.type) \/ variantThrows(m.type)))
       \/ d.kind = "enum" /\ (ms = {} \/ ~IsInjective(ordinals(d))
                             \/ ~IsInjective([i \in DOMAIN d.members |-> d.members[i].text]))
       \/ d.kind = "interface" /\ \E m \in ms : \/ ~IsInjective(ids(m.params)) \/ typeOfThrows(m.type)
                                                \/ \E q \in ToSet(m.params) : q.optional \/ typeOfThrows(q.type) \/ q.name.parts \in {<<"self">>, <<"arena">>}
emitCThrows(p) == LET ds == declarations(p) IN
    \/ ~IsInjective(checkedSymbols(p))
    \/ ~IsInjective([i \in DOMAIN ds |-> pathOf(ds[i])])
    \/ \E e \in ToSet(ds) : declarationThrows(p.decl[e.id])
=============================================================================
