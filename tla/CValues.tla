------------------------------ MODULE CValues ------------------------------
(* Values of the declared types in C memory, the constructors that copy them     *)
(* into a heap and the codecs between them and JSON (2_emit.tsx, 5_wire.tsx).     *)
(* A pointer is Null or <<heap, what it points to>>. In memory a model is the      *)
(* sequence of its fields [has, val], a union <<tag, payload>>, a collection       *)
(* [count, items], an entry of a map <<key, value>>, an enumerator its number, a    *)
(* text a sequence of characters. JSON is <<"null">>, <<"bool", b>>, <<"int", n>>,   *)
(* <<"real", h>> for h halves, <<"str", text>>, <<"arr", items>> or                   *)
(* <<"obj", <<key, value>> ...>>. A failure is a place: the path, in numbers, from      *)
(* the root to the allocation that fails, which ends in 0.                               *)
EXTENDS CTypes

CONSTANTS Wide,       \* bits of the integers of the JSON library and of (u)int64
          FloatMax    \* the greatest float32, in halves
ASSUME WidthAssumption == Wide \in Nat \ {0} /\ FloatMax \in Nat

VARIABLE prog         \* the program the C code was generated for

Null     == <<>>
Junk     == <<"junk">>           \* memory nobody has written
Caller   == "caller"             \* the heap of what the caller made by hand
NoPlace  == <<>>
Nul      == "nul"                \* the character NUL
Nothing  == <<"none">>           \* no JSON value
Garbage  == <<"garbage">>        \* text that is no JSON
Here(bad)        == bad = <<0>>
Below(bad, step) == IF bad # <<>> /\ Head(bad) = step THEN Tail(bad) ELSE NoPlace

TextType    == [kind |-> "text"]
Decl(id)    == prog.decl[id]
IsNull(m)   == m.type.kind = "null"
nameText(n) == IF n.dash THEN <<"-">> \o n.parts ELSE n.parts
cText(s)    == LET ends == {i \in DOMAIN s : s[i] = Nul} IN IF ends = {} THEN s ELSE SubSeq(s, 1, Min(ends) - 1)
Enumerators(id) == {[number |-> ordinals(Decl(id))[i], text |-> Decl(id).members[i].text] : i \in DOMAIN Decl(id).members}
Found(set)  == CHOOSE e \in set : TRUE

NoItems == [count |-> 0, items |-> Null]
RECURSIVE Zero(_)
Zero(t) == CASE inlineCollection(t) -> NoItems
             [] t.kind = "tuple" -> [i \in DOMAIN t.values |-> Zero(t.values[i])]
             [] t.kind \in {"int", "uint", "float", "enum", "member"} -> 0
             [] t.kind = "bool"  -> FALSE
             [] OTHER            -> Null

----------------------------------------------------------------------------
(* Constructors. What is copied into a struct or into items is [fail, val].            *)
Copied(v) == [fail |-> FALSE, val |-> v]
Failed    == [fail |-> TRUE, val |-> Null]
AllOf(results, build(_)) ==
    IF \E i \in DOMAIN results : results[i].fail THEN Failed
    ELSE Copied(build([i \in DOMAIN results |-> results[i].val]))
allocated(heap, v, bad) == IF Here(bad) THEN Null ELSE <<heap, v>>

RECURSIVE create(_, _, _, _), copyValue(_, _, _, _), copyInto(_, _, _, _), copyCollection(_, _, _, _)
copyValue(t, v, heap, bad) ==
    CASE nullable(t) /\ pointerValue(t.inner)  -> copyValue(t.inner, v, heap, bad)
      [] nullable(t) /\ ~pointerValue(t.inner) -> IF v = Null THEN Null ELSE allocated(heap, v[2], bad)
      [] t.kind = "unknown" \/ isString(t)     -> IF v = Null THEN Null ELSE allocated(heap, v[2], bad)
      [] t.kind \in {"model", "union"}         -> create(t.id, v, heap, bad)
      [] OTHER                                 -> v

(* Mutant: a copy that could not be made is not noticed.                                 *)
checked_Ignored(t, v, out) == Copied(out)

(* if (source && !destination) return NULL                                               *)
checked(t, v, out) == IF needsCopy(t) /\ v # Null /\ out = Null THEN Failed ELSE Copied(out)

copyTuple(t, v, heap, bad) ==
    AllOf([i \in DOMAIN t.values |-> copyInto(t.values[i], v[i], heap, Below(bad, i))], LAMBDA s : s)

copyInto(t, v, heap, bad) == CASE inlineCollection(t) -> copyCollection(t, v, heap, bad)
                               [] t.kind = "tuple"    -> copyTuple(t, v, heap, bad)
                               [] OTHER               -> checked(t, v, copyValue(t, v, heap, bad))

(* Mutant: the keys of a map stay where they are.                                         *)
copyEntry_SharesKeys(t, e, heap, bad) ==
    IF e[1] = Null THEN Failed
    ELSE LET out == copyInto(t, e[2], heap, Below(bad, 2))
         IN IF out.fail THEN Failed ELSE Copied(<<e[1], out.val>>)

copyEntry(t, e, heap, bad) ==
    IF e[1] = Null \/ Here(Below(bad, 1)) THEN Failed
    ELSE LET out == copyInto(t, e[2], heap, Below(bad, 2))
         IN IF out.fail THEN Failed ELSE Copied(<<<<heap, e[1][2]>>, out.val>>)

copyCollection(t, c, heap, bad) ==
    IF c.count = 0 THEN Copied(NoItems)
    ELSE IF c.items = Null \/ Here(bad) THEN Failed
    ELSE LET item(i) == IF t.kind = "map" THEN copyEntry(t.value, c.items[2][i], heap, Below(bad, i))
                        ELSE copyInto(t.value, c.items[2][i], heap, Below(bad, i))
         IN AllOf([i \in 1..c.count |-> item(i)], LAMBDA s : [count |-> c.count, items |-> <<heap, s>>])

(* A field that is absent keeps the zeros of the allocation; the collection of a nullable *)
(* one is made first.                                                                       *)
copyField(m, f, heap, bad) ==
    LET t      == m.type
        absent == m.optional /\ ~f.has
        out    == CASE absent -> Copied(Zero(t))
                    [] ~absent /\ nullable(t) /\ inlineCollection(t.inner) ->
                          IF f.val = Null THEN Copied(Null) ELSE IF Here(bad) THEN Failed
                          ELSE AllOf(<<copyCollection(t.inner, f.val[2], heap, Below(bad, 1))>>, LAMBDA s : <<heap, s[1]>>)
                    [] OTHER -> copyInto(t, f.val, heap, bad)
    IN IF out.fail THEN Failed ELSE Copied([has |-> f.has, val |-> out.val])

create(id, v, heap, bad) ==
    LET d   == Decl(id)
        out == CASE d.kind = "collection" -> copyCollection(d.value, v[2], heap, Below(bad, 1))
                 [] d.kind = "model" -> AllOf([i \in DOMAIN d.members |->
                                           copyField(d.members[i], v[2][i], heap, Below(bad, i))], LAMBDA s : s)
                 [] d.kind = "union" ->
                       IF v[2][1] \notin DOMAIN d.members THEN Failed
                       ELSE IF IsNull(d.members[v[2][1]]) THEN Copied(<<v[2][1], 0>>)
                       ELSE LET t == d.members[v[2][1]].type
                            IN AllOf(<<checked(t, v[2][2], copyValue(t, v[2][2], heap, Below(bad, 1)))>>,
                                     LAMBDA s : <<v[2][1], s[1]>>)
    IN IF v = Null \/ Here(bad) THEN Null ELSE IF out.fail THEN Null ELSE <<heap, out.val>>

----------------------------------------------------------------------------
(* Writing JSON. A value that could not be written is Nothing, and whoever holds it       *)
(* returns NULL.                                                                            *)
Json(kind, x) == <<kind, x>>
Gather(kind, items) == IF Nothing \in Range(items) THEN Nothing ELSE Json(kind, items)
Pair(key, j)        == IF j = Nothing THEN Nothing ELSE <<key, j>>
enumText(id, v)     == {e.text : e \in {e \in Enumerators(id) : e.number = v}}

RECURSIVE encode(_, _), json_value(_, _), encodeCollection(_, _)
encode(t, v) ==
    CASE nullable(t) -> IF v = Null THEN <<"null">> ELSE encode(t.inner, IF pointerValue(t.inner) THEN v ELSE v[2])
      [] inlineCollection(t) -> encodeCollection(t, v)
      [] t.kind = "tuple"    -> Gather("arr", [i \in DOMAIN t.values |-> encode(t.values[i], v[i])])
      [] t.kind \in {"model", "union"} -> json_value(t.id, v)
      [] t.kind = "unknown"  -> IF v = Null \/ v[2] = Garbage THEN Nothing ELSE v[2]
      [] t.kind = "member"   -> IF v # t.number \/ enumText(t.id, v) = {} THEN Nothing ELSE Json("str", Found(enumText(t.id, v)))
      [] t.kind = "enum"     -> IF enumText(t.id, v) = {} THEN Nothing ELSE Json("str", Found(enumText(t.id, v)))
      [] t.kind = "text"     -> IF v = Null THEN Nothing ELSE Json("str", v[2])
      [] t.kind = "literal"  -> IF v = Null \/ v[2] # t.text THEN Nothing ELSE Json("str", v[2])
      [] t.kind \in {"int", "uint"} -> Json("int", v)
      [] t.kind = "float"    -> Json("real", v)
      [] t.kind = "bool"     -> Json("bool", v)
encodeCollection(t, c) ==
    LET e(i) == c.items[2][i]
        item(i) == IF t.kind = "array" THEN encode(t.value, e(i))
                   ELSE IF e(i)[1] = Null THEN Nothing ELSE Pair(e(i)[1][2], encode(t.value, e(i)[2]))
    IN IF c.count > 0 /\ c.items = Null THEN Nothing
       ELSE Gather(IF t.kind = "map" THEN "obj" ELSE "arr", [i \in 1..c.count |-> item(i)])

(* Mutant: an optional field is written whether it is there or not.                          *)
Present_Always(d, s) == [i \in DOMAIN d.members |-> i]

Present(d, s) == SelectSeq([i \in DOMAIN d.members |-> i], LAMBDA i : d.members[i].optional => s[i].has)
encodeFields(d, s) == LET at == Present(d, s) IN
    Gather("obj", [k \in DOMAIN at |->
        Pair(nameText(d.members[at[k]].name), encode(d.members[at[k]].type, s[at[k]].val))])
encodeVariant(d, tag, v) == LET m == d.members[tag] IN
    Gather("obj", << <<<<"tag">>, Json("str", nameText(m.name))>>,
                     Pair(<<"value">>, IF IsNull(m) THEN <<"null">> ELSE encode(m.type, v)) >>)
json_value(id, v) ==
    LET d == Decl(id) IN
    CASE v = Null -> Nothing
      [] v # Null /\ d.kind = "collection" -> encodeCollection(d.value, v[2])
      [] v # Null /\ d.kind = "model"      -> encodeFields(d, v[2])
      [] v # Null /\ d.kind = "union"      ->
            IF v[2][1] \notin DOMAIN d.members THEN Nothing ELSE encodeVariant(d, v[2][1], v[2][2])

----------------------------------------------------------------------------
(* Reading JSON. The JSON library holds an integer as unsigned if it is not negative, as   *)
(* signed if it is, and as a real if it has too many bits.                                   *)
Pow(b)  == 2 ^ b
isUint(j) == j[1] = "int" /\ j[2] >= 0 /\ j[2] < Pow(Wide)
isSint(j) == j[1] = "int" /\ j[2] < 0 /\ j[2] >= -Pow(Wide - 1)
isInt(j)  == isUint(j) \/ isSint(j)
isNum(j)  == j[1] \in {"int", "real"}
getSint(j) == IF j[2] >= Pow(Wide - 1) THEN j[2] - Pow(Wide) ELSE j[2]
Halves(j)  == IF j[1] = "int" THEN 2 * j[2] ELSE j[2]
SignedCast(n, bits) == ((n + Pow(bits - 1)) % Pow(bits)) - Pow(bits - 1)
isStr(j)  == j[1] = "str" /\ cText(j[2]) = j[2]     \* strlen agrees with the length
Members(j, key) == {i \in DOMAIN j[2] : j[2][i][1] = key}
objGet(j, key)  == IF Members(j, key) = {} THEN Nothing ELSE j[2][Min(Members(j, key))][2]
owned(heap, v, bad) == IF Here(bad) THEN Failed ELSE Copied(<<heap, v>>)

(* Mutant: the unsigned integers that a signed one cannot hold are let through.               *)
decodeInt_Unsigned(t, j) ==
    IF ~isInt(j) \/ (t.bits < Wide /\ (getSint(j) < -Pow(t.bits - 1) \/ getSint(j) >= Pow(t.bits - 1))) THEN Failed
    ELSE Copied(SignedCast(getSint(j), t.bits))

decodeInt(t, j) ==
    IF \/ ~isInt(j) \/ (isUint(j) /\ j[2] >= Pow(Wide - 1))
       \/ t.bits < Wide /\ (getSint(j) < -Pow(t.bits - 1) \/ getSint(j) >= Pow(t.bits - 1)) THEN Failed
    ELSE Copied(SignedCast(getSint(j), t.bits))
decodeUint(t, j)  == IF ~isUint(j) \/ (t.bits < Wide /\ j[2] >= Pow(t.bits)) THEN Failed ELSE Copied(j[2] % Pow(t.bits))
decodeFloat(t, j) == IF ~isNum(j) \/ (t.bits < Wide /\ (Halves(j) < -FloatMax \/ Halves(j) > FloatMax)) THEN Failed
                     ELSE Copied(Halves(j))
decodeEnum(id, j, bad) == LET found == {e \in Enumerators(id) : e.text = j[2]} IN
    IF ~isStr(j) THEN Failed ELSE IF found = {} \/ Here(bad) THEN Failed ELSE Copied(Found(found).number)

RECURSIVE decode(_, _, _, _), json_read(_, _, _, _), decodeCollection(_, _, _, _)
decode(t, j, heap, bad) ==
    CASE nullable(t) ->
            IF j = <<"null">> THEN Copied(Null) ELSE IF pointerValue(t.inner) THEN decode(t.inner, j, heap, bad)
            ELSE IF Here(bad) THEN Failed
            ELSE LET out == decode(t.inner, j, heap, Below(bad, 1))
                     val == IF inlineCollection(t.inner) /\ ~out.fail /\ out.val.count = 0   \* malloc, not zalloc
                            THEN [out.val EXCEPT !.items = Junk] ELSE out.val
                 IN IF out.fail THEN Failed ELSE Copied(<<heap, val>>)
      [] inlineCollection(t) -> decodeCollection(t, j, heap, bad)
      [] t.kind = "tuple"    ->
            IF j[1] # "arr" THEN Failed ELSE IF Len(j[2]) # Len(t.values) THEN Failed
            ELSE AllOf([i \in DOMAIN t.values |-> decode(t.values[i], j[2][i], heap, Below(bad, i))], LAMBDA s : s)
      [] t.kind \in {"model", "union"} ->
            LET out == json_read(t.id, j, heap, bad) IN IF out = Null THEN Failed ELSE Copied(out)
      [] t.kind = "unknown"  -> owned(heap, j, bad)
      [] t.kind = "member"   -> LET out == decodeEnum(t.id, j, bad) IN IF ~out.fail /\ out.val # t.number THEN Failed ELSE out
      [] t.kind = "enum"     -> decodeEnum(t.id, j, bad)
      [] t.kind = "text"     -> IF ~isStr(j) THEN Failed ELSE owned(heap, cText(j[2]), bad)
      [] t.kind = "literal"  -> IF ~isStr(j) THEN Failed ELSE IF j[2] # t.text THEN Failed ELSE owned(heap, j[2], bad)
      [] t.kind = "int"      -> decodeInt(t, j)
      [] t.kind = "uint"     -> decodeUint(t, j)
      [] t.kind = "float"    -> decodeFloat(t, j)
      [] t.kind = "bool"     -> IF j[1] # "bool" THEN Failed ELSE Copied(j[2])
decodeEntry(t, e, heap, bad) ==
    IF cText(e[1]) # e[1] \/ Here(Below(bad, 1)) THEN Failed
    ELSE AllOf(<<decode(t, e[2], heap, Below(bad, 2))>>, LAMBDA s : <<<<heap, e[1]>>, s[1]>>)
decodeCollection(t, j, heap, bad) ==
    LET item(i) == IF t.kind = "map" THEN decodeEntry(t.value, j[2][i], heap, Below(bad, i))
                   ELSE decode(t.value, j[2][i], heap, Below(bad, i))
    IN IF j[1] # (IF t.kind = "map" THEN "obj" ELSE "arr") THEN Failed
       ELSE IF j[2] = <<>> THEN Copied(NoItems)
       ELSE IF Here(bad) THEN Failed
       ELSE AllOf([i \in DOMAIN j[2] |-> item(i)], LAMBDA s : [count |-> Len(j[2]), items |-> <<heap, s>>])

decodeField(m, j, heap, bad) ==
    LET member == objGet(j, nameText(m.name)) IN
    IF member = Nothing THEN IF m.optional THEN Copied([has |-> FALSE, val |-> Zero(m.type)]) ELSE Failed
    ELSE AllOf(<<decode(m.type, member, heap, bad)>>, LAMBDA s : [has |-> m.optional, val |-> s[1]])
decodeVariant(d, j, heap, bad) ==
    LET tag   == objGet(j, <<"tag">>)
        value == objGet(j, <<"value">>)
        named == {k \in DOMAIN d.members : nameText(d.members[k].name) = tag[2]}
        m     == d.members[Found(named)]
    IN IF tag[1] # "str" \/ value = Nothing THEN Failed
       ELSE IF cText(tag[2]) # tag[2] \/ named = {} THEN Failed
       ELSE IF IsNull(m) THEN IF value = <<"null">> THEN Copied(<<Found(named), 0>>) ELSE Failed
       ELSE AllOf(<<decode(m.type, value, heap, Below(bad, 1))>>, LAMBDA s : <<Found(named), s[1]>>)
json_read(id, j, heap, bad) ==
    LET d   == Decl(id)
        out == CASE d.kind = "collection" -> decodeCollection(d.value, j, heap, Below(bad, 1))
                 [] d.kind = "model" -> AllOf([i \in DOMAIN d.members |->
                                           decodeField(d.members[i], j, heap, Below(bad, i))], LAMBDA s : s)
                 [] d.kind = "union" -> decodeVariant(d, j, heap, bad)
    IN IF (d.kind # "collection" /\ j[1] # "obj") \/ Here(bad) THEN Null ELSE IF out.fail THEN Null ELSE <<heap, out.val>>

(* <Name>_json_encode and <Name>_json_decode; a document is Garbage or JSON.                    *)
json_encode(id, v) == json_value(id, v)
json_decode(id, doc, heap, bad) == IF doc = Garbage THEN Null ELSE json_read(id, doc, heap, bad)
=============================================================================
