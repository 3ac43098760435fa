------------------------------- MODULE CHeaps -------------------------------
(* A program in C that uses the generated constructors and codecs: it makes      *)
(* values by hand, copies them into heaps, writes and reads JSON, and destroys    *)
(* heaps. The heap functions of mimalloc and the JSON library are external; any   *)
(* one allocation of a call may fail.                                              *)
EXTENDS CValues

CONSTANTS Programs,    \* sequence of programs
          Heaps,       \* heaps of the caller
          Inputs(_, _),\* of a program and a declaration: what the caller makes by hand
          Documents(_, _), \* of the same: documents it is sent
          MaxCalls     \* bound on the calls of a run

ASSUME HeapsAssumption == Caller \notin Heaps /\ MaxCalls \in Nat

VARIABLES held,   \* per heap, the value the caller has in it: <<>> or <<declaration, pointer>>
          wire,   \* the document the program wrote last: <<>> or [id, doc, from]
          call,   \* the last call: [op, id, in, out, bad]
          calls   \* their number

vars == <<prog, held, wire, call, calls>>

NoCall == [op |-> "none", id |-> "", in |-> Null, out |-> Null, bad |-> NoPlace]

Init == /\ \E i \in DOMAIN Programs : prog = Programs[i] /\ ~emitCThrows(Programs[i])
        /\ held = [h \in Heaps |-> <<>>] /\ wire = <<>> /\ call = NoCall /\ calls = 0

----------------------------------------------------------------------------
KeyType == [kind |-> "text", key |-> TRUE]

(* The parts of a value in memory, each with the step that leads to it.             *)
At(step, t, v) == <<[at |-> step, t |-> t, v |-> v]>>
partsOfItems(t, c) ==
    IF c.count = 0 \/ c.items \in {Null, Junk} THEN <<>>
    ELSE LET e(i) == c.items[2][i]
         IN FlattenSeq([i \in 1..c.count |->
                IF t.kind = "map" THEN At(<<i, 1>>, KeyType, e(i)[1]) \o At(<<i, 2>>, t.value, e(i)[2])
                ELSE At(<<i>>, t.value, e(i))])
partsOfDecl(id, s) ==
    LET d == Decl(id) IN
    CASE d.kind = "collection" -> At(<<1>>, d.value, s)
      [] d.kind = "union" -> IF s[1] \notin DOMAIN d.members THEN <<>>
                             ELSE IF IsNull(d.members[s[1]]) THEN <<>> ELSE At(<<1>>, d.members[s[1]].type, s[2])
      [] d.kind = "model" -> FlattenSeq([i \in DOMAIN d.members |->
                                IF d.members[i].optional /\ ~s[i].has THEN <<>> ELSE At(<<i>>, d.members[i].type, s[i].val)])
Parts(t, v) ==
    CASE nullable(t) -> IF v = Null THEN <<>> ELSE IF pointerValue(t.inner) THEN At(<<>>, t.inner, v) ELSE At(<<1>>, t.inner, v[2])
      [] inlineCollection(t) -> partsOfItems(t, v)
      [] t.kind = "tuple"    -> FlattenSeq([i \in DOMAIN t.values |-> At(<<i>>, t.values[i], v[i])])
      [] t.kind \in {"model", "union"} -> IF v = Null THEN <<>> ELSE partsOfDecl(t.id, v[2])
      [] OTHER -> <<>>
(* The pointer that a value is, or its items are.                                     *)
PointerOf(t, v) == CASE inlineCollection(t) -> IF v.count = 0 THEN Null ELSE v.items
                     [] pointerValue(t)     -> v
                     [] OTHER               -> Null

RECURSIVE Owners(_, _)
Owners(t, v) == (IF PointerOf(t, v) = Null THEN {} ELSE {PointerOf(t, v)[1]})
                  \cup UNION {Owners(Parts(t, v)[i].t, Parts(t, v)[i].v) : i \in DOMAIN Parts(t, v)}

(* The places of the allocations that make a value; reading an enum allocates too.     *)
RECURSIVE Places(_, _, _)
Places(t, v, reading) ==
    (IF (PointerOf(t, v) # Null /\ ~(nullable(t) /\ pointerValue(t.inner))) \/ (reading /\ t.kind \in {"enum", "member"})
     THEN {<<0>>} ELSE {})
    \cup UNION {{Parts(t, v)[i].at \o q : q \in Places(Parts(t, v)[i].t, Parts(t, v)[i].v, reading)} : i \in DOMAIN Parts(t, v)}

(* What a value says, wherever it is.                                                    *)
RECURSIVE Meaning(_, _)
Meaning(t, v) == IF t.kind \in {"text", "literal", "unknown"} /\ v # Null THEN <<v[2]>>
                 ELSE IF Parts(t, v) # <<>> THEN
                    LET ps == Parts(t, v) IN
                    (IF t.kind = "union" THEN <<v[2][1]>> ELSE <<>>)
                      \o [i \in DOMAIN ps |-> <<ps[i].at, Meaning(ps[i].t, ps[i].v)>>]
                 ELSE CASE inlineCollection(t) -> <<>>
                        [] t.kind = "union" /\ v # Null -> <<v[2][1]>>
                        [] t.kind = "model" /\ v # Null -> <<"empty">>
                        [] OTHER -> <<v>>

Ref(id) == [kind |-> IF Decl(id).kind = "union" THEN "union" ELSE "model", id |-> id]

(* What a constructor cannot copy: items that are announced and not there, entries      *)
(* without a key, unions without a variant.                                               *)
RECURSIVE Malformed(_, _)
Malformed(t, v) ==
    \/ inlineCollection(t) /\ v.count > 0 /\ v.items = Null
    \/ "key" \in DOMAIN t /\ v = Null
    \/ t.kind = "union" /\ v # Null /\ v[2][1] \notin DOMAIN Decl(t.id).members
    \/ \E i \in DOMAIN Parts(t, v) : Malformed(Parts(t, v)[i].t, Parts(t, v)[i].v)

(* A value that is all there: nothing that has to be is NULL, every enumerator and        *)
(* literal is the one of its type.                                                          *)
RECURSIVE Complete(_, _)
Complete(t, v) ==
    /\ ~nullable(t) /\ pointerValue(t) => v # Null
    /\ inlineCollection(t) => (v.count > 0 => v.items # Null)
    /\ t.kind = "literal" => v[2] = t.text
    /\ t.kind = "unknown" => v[2] # Garbage
    /\ t.kind = "enum"    => \E e \in Enumerators(t.id) : e.number = v
    /\ t.kind = "member"  => v = t.number
    /\ t.kind = "union"   => v[2][1] \in DOMAIN Decl(t.id).members
    /\ \A i \in DOMAIN Parts(t, v) : Complete(Parts(t, v)[i].t, Parts(t, v)[i].v)

(* unknown | null: NULL and the JSON null are one document.                                 *)
RECURSIVE NullText(_, _)
NullText(t, v) == \/ nullable(t) /\ t.inner.kind = "unknown" /\ v # Null /\ v[2] = <<"null">>
                  \/ \E i \in DOMAIN Parts(t, v) : NullText(Parts(t, v)[i].t, Parts(t, v)[i].v)

(* A document is found within another: all it says is there, member by member the first       *)
(* of a name with the first.                                                                    *)
RECURSIVE Within(_, _)
Within(new, old) ==
    LET rank(m, i) == Cardinality({k \in 1..(i - 1) : m[k][1] = m[i][1]}) IN
    CASE isNum(new)      -> isNum(old) /\ Halves(new) = Halves(old)
      [] new[1] = "arr"  -> /\ old[1] = "arr" /\ Len(old[2]) = Len(new[2])
                            /\ \A i \in DOMAIN new[2] : Within(new[2][i], old[2][i])
      [] new[1] = "obj"  -> /\ old[1] = "obj"
                            /\ \A i \in DOMAIN new[2] : \E j \in DOMAIN old[2] :
                                  /\ old[2][j][1] = new[2][i][1] /\ rank(old[2], j) = rank(new[2], i)
                                  /\ Within(new[2][i][2], old[2][j][2])
      [] OTHER           -> new = old

----------------------------------------------------------------------------
Called(op, id, in, out, bad) == /\ calls < MaxCalls
                                /\ calls' = calls + 1
                                /\ call' = [op |-> op, id |-> id, in |-> in, out |-> out, bad |-> bad]
                                /\ UNCHANGED prog
Keeps(heap, id, out) == held' = [held EXCEPT ![heap] = IF out = Null THEN <<>> ELSE <<id, out>>]
Fresh == calls = 0      \* a run is about one value and its copies
Values == {id \in DOMAIN prog.decl : Decl(id).kind \in {"model", "collection", "union"}}
PlacesOf(id, v, reading) == IF v = Null THEN {} ELSE Places(Ref(id), v, reading)

(* Name_create of what the caller made by hand, or of a value in another heap.                    *)
CreateFrom(id, v, heap) ==
    \E bad \in {NoPlace} \cup PlacesOf(id, create(id, v, heap, NoPlace), FALSE) :
        \E out \in {create(id, v, heap, bad)} :
            /\ Called("create", id, v, out, bad) /\ Keeps(heap, id, out)
            /\ UNCHANGED wire
Build == Fresh /\ \E id \in Values : \E v \in Inputs(prog, id), heap \in Heaps : CreateFrom(id, v, heap)
Copy  == \E from, heap \in Heaps : held[from] # <<>> /\ held[heap] = <<>> /\ CreateFrom(held[from][1], held[from][2], heap)

Encode == \E h \in Heaps :
    /\ held[h] # <<>>
    /\ LET id == held[h][1]  doc == json_encode(id, held[h][2])
       IN /\ Called("encode", id, held[h][2], doc, NoPlace)
          /\ wire' = IF doc = Nothing THEN <<>> ELSE <<[id |-> id, doc |-> doc, from |-> held[h][2]]>>
    /\ UNCHANGED held

DecodeInto(id, doc, heap) ==
    \E bad \in {NoPlace} \cup PlacesOf(id, json_decode(id, doc, heap, NoPlace), TRUE) :
        \E out \in {json_decode(id, doc, heap, bad)} :
            /\ Called("decode", id, doc, out, bad) /\ Keeps(heap, id, out)
            /\ UNCHANGED wire
Receive == Fresh /\ \E id \in Values : \E doc \in Documents(prog, id), heap \in Heaps : DecodeInto(id, doc, heap)
Decode  == wire # <<>> /\ \E heap \in Heaps : held[heap] = <<>> /\ DecodeInto(wire[1].id, wire[1].doc, heap)

Destroy == \E h \in Heaps : /\ held[h] # <<>> /\ held' = [held EXCEPT ![h] = <<>>]
                            /\ Called("destroy", held[h][1], held[h][2], Null, NoPlace)
                            /\ UNCHANGED wire

Next == Build \/ Copy \/ Encode \/ Receive \/ Decode \/ Destroy
Spec == Init /\ [][Next]_vars

----------------------------------------------------------------------------
(* A value in a heap consists of memory of that heap alone: it stays whole when the caller          *)
(* destroys the heap, or changes the variables, that it was made from (1_type_map.tsx:74).            *)
OwnMemory == \A h \in Heaps : held[h] # <<>> => Owners(Ref(held[h][1]), held[h][2]) = {h}

(* A constructor returns NULL exactly if an allocation failed or the input cannot be a value, and      *)
(* otherwise says what its input says: there is no copy of a part (2_emit.tsx, `return NULL`).           *)
CopyWhole == call.op = "create" =>
    /\ call.out = Null <=> call.bad # NoPlace \/ call.in = Null \/ Malformed(Ref(call.id), call.in)
    /\ call.out # Null => Meaning(Ref(call.id), call.out) = Meaning(Ref(call.id), call.in)

(* What is written is read again as the same value, unless an allocation fails, and a value is           *)
(* written exactly if it is complete.                                                                       *)
RoundTrip ==
    /\ call.op = "encode" => (call.out # Nothing <=> Complete(Ref(call.id), call.in))
    /\ call.op = "decode" /\ wire # <<>> /\ call.bad = NoPlace =>
          /\ call.out # Null
          /\ ~NullText(Ref(call.id), wire[1].from) => Meaning(Ref(call.id), call.out) = Meaning(Ref(call.id), wire[1].from)

(* Whatever document is accepted, the value says nothing else than the document: no number is cut to      *)
(* fewer bits, no text at a NUL, and of two members of a name the first counts (5_wire.tsx, decode).        *)
ReadsTrue == call.op = "decode" /\ call.out # Null => Within(json_value(call.id, call.out), call.in)

(* Members and variants that are C keywords or begin with a digit are looked at without the underscore    *)
(* they get in C.                                                                                             *)
Respelled == \E id \in DOMAIN prog.decl : \E m \in ToSet(Decl(id).members) : cIdentifier(m.name) # m.name.parts

(* An enumerator is called like the table of its enum, E_strings, which emitC does not look at.           *)
NamedAsTable(d) == d.kind = "enum" /\ \E m \in ToSet(d.members) : cIdentifier(m.name) = <<"strings">>

(* No two things that the code of an accepted program declares have one name where they meet: in the space *)
(* of the headers, in a struct, in the file of a declaration (README: "Mapped symbol collisions are           *)
(* emission errors"), but for Respelled and NamedAsTable, which emitC accepts without a look.                  *)
NamesApart == ~Respelled =>
    /\ IsInjective(headerSymbols(prog))
    /\ \A id \in DOMAIN prog.decl : Decl(id).kind = "model" => IsInjective(structMembers(Decl(id)))
    /\ \A e \in ToSet(declarations(prog)) : NamedAsTable(Decl(e.id)) \/ IsInjective(fileSymbols(prog, e))
=============================================================================
