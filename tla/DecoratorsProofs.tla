--------------------------- MODULE DecoratorsProofs ---------------------------
(***************************************************************************)
(* For any library: what the two generators of it have in common, and that     *)
(* accessors return what decorators have said.  For the second: which slots of   *)
(* the state maps the applications have written, and what each shape of           *)
(* decorator leaves in one; then which of the applications an accessor is about.   *)
(***************************************************************************)
EXTENDS Decorators, FiniteSetTheorems, WellFoundedInduction, TLAPS

-----------------------------------------------------------------------------
(* What the two write for one decorator without a bag of options.                *)

Plain(d) == d.options = <<>> /\ d.params \in Seq(ToSet(d.params))

LEMMA NothingAppended ==
    ASSUME NEW s, s \in Seq(ToSet(s)), NEW f(_), NEW e, e = <<>>
    PROVE  [i \in DOMAIN s |-> f(i)] \o e = [i \in DOMAIN s |-> f(i)]
<1> DEFINE r == [i \in DOMAIN s |-> f(i)]
           S == {f(i) : i \in DOMAIN s}
<1>1. Len(s) \in Nat /\ DOMAIN s = 1..Len(s)
    OBVIOUS
<1>2. r \in [1..Len(s) -> S]
    BY <1>1
<1>3. r \in Seq(S)
    BY <1>1, <1>2
<1> HIDE DEF r, S
<1>4. r \o <<>> = r
    BY <1>3
<1> QED BY <1>4 DEF r

LEMMA SamePassed ==
    ASSUME NEW d, Plain(d)
    PROVE  generateDecoratorTsp(d) = TspDeclarator(d)
<1>1. generateDecoratorTsp(d) = [i \in DOMAIN d.params |-> d.params[i].name] \o <<>>
    BY DEF Plain, generateDecoratorTsp
<1> QED BY <1>1, NothingAppended DEF Plain, TspDeclarator

LEMMA SameInterface ==
    ASSUME NEW d, Plain(d)
    PROVE  generateDefInterface(d) = TsStateInterfaces(d)
BY DEF Plain, generateDefInterface, TsStateInterfaces

LEMMA SameFields ==
    ASSUME NEW d, Plain(d)
    PROVE  FieldsOf(d) \o [i \in DOMAIN d.options |-> Field(d.options[i].name, "options", Len(d.params) + 1)]
           = FieldsOf(d)
<1>1. [i \in DOMAIN d.options |-> Field(d.options[i].name, "options", Len(d.params) + 1)] = <<>>
    BY DEF Plain
<1> DEFINE r == [i \in DOMAIN d.params |-> Field(d.params[i].name, "argument", i)]
           S == {Field(d.params[i].name, "argument", i) : i \in DOMAIN d.params}
<1>2. r \in Seq(S)
    <2>1. Len(d.params) \in Nat /\ DOMAIN d.params = 1..Len(d.params)
        BY DEF Plain
    <2>2. r \in [1..Len(d.params) -> S]
        BY <2>1
    <2> QED BY <2>1, <2>2
<1>3. FieldsOf(d) = r
    BY DEF FieldsOf
<1> HIDE DEF r, S
<1>4. r \o <<>> = r
    BY <1>2
<1> QED BY <1>1, <1>3, <1>4

\* The key that a decorator names is the one it is kept under.
LEMMA SameFactory ==
    ASSUME NEW d, Plain(d), ~(d.shape \in {"object", "list"} /\ d.exclusiveKey \notin {"", d.name})
    PROVE  generateFactoryCall(d) = factoryCall(d)
<1> DEFINE own  == IF d.exclusiveKey # "" THEN d.exclusiveKey ELSE d.name
           kept == IF d.exclusiveKey # "" /\ d.shape \notin {"object", "list"} THEN d.exclusiveKey ELSE d.name
           more == FieldsOf(d) \o [i \in DOMAIN d.options |-> Field(d.options[i].name, "options", Len(d.params) + 1)]
<1>1. own = kept
    OBVIOUS
<1>2. more = FieldsOf(d)
    BY SameFields
<1>3. generateFactoryCall(d) = Instance(d, own, IF d.shape \notin {"object", "list"} THEN <<>> ELSE more)
    BY DEF generateFactoryCall
<1>4. factoryCall(d) = Instance(d, kept, IF d.shape \notin {"object", "list"} THEN <<>> ELSE FieldsOf(d))
    BY DEF factoryCall
<1> HIDE DEF own, kept, more
<1> QED BY <1>1, <1>2, <1>3, <1>4

LEMMA SameAccessors ==
    ASSUME NEW l
    PROVE  generateExports(l) \cup generateExclusiveGetters(l) = accessors(l) \cup TsExclusiveGetters(l)
<1>1. generateExclusiveGetters(l) = TsExclusiveGetters(l)
    BY DEF generateExclusiveGetters, TsExclusiveGetters
<1> DEFINE kinds(i) == {Accessor(kind, l[i].name, i) : kind \in {"get", "has"}}
           both(i)  == {Accessor("get", l[i].name, i), Accessor("has", l[i].name, i)}
<1>2. \A i \in DOMAIN l : kinds(i) = both(i)
    OBVIOUS
<1>3. generateExports(l) = UNION {CASE l[i].shape = "flag" -> {Accessor("is", l[i].name, i)}
                                    [] l[i].shape = "exclusive" -> {}
                                    [] OTHER -> both(i) : i \in DOMAIN l}
    BY DEF generateExports
<1>4. accessors(l) = UNION {CASE l[i].shape = "flag" -> {Accessor("is", l[i].name, i)}
                              [] l[i].shape = "exclusive" -> {}
                              [] OTHER -> kinds(i) : i \in DOMAIN l}
    BY DEF accessors
<1> HIDE DEF kinds, both
<1>5. generateExports(l) = accessors(l)
    BY <1>2, <1>3, <1>4
<1> QED BY <1>1, <1>5

-----------------------------------------------------------------------------
(* The two files of a library.                                                   *)

LEMMA SameFiles ==
    ASSUME NEW l, \A i \in DOMAIN l : Plain(l[i])
    PROVE  /\ generateTs(l).passed = TsFile(l).passed
           /\ generateTs(l).accessors = TsFile(l).accessors
           /\ generateTs(l).fields = TsFile(l).fields
           /\ generateTs(l).keys = TsFile(l).keys
           /\ generateTs(l).handlers = TsFile(l).handlers
<1>1. generateTs(l).passed = TsFile(l).passed
    <2>1. [i \in DOMAIN l |-> generateDecoratorTsp(l[i])] = [i \in DOMAIN l |-> TspDeclarator(l[i])]
        BY SamePassed
    <2> QED BY <2>1 DEF generateTs, TsFile
<1>2. generateTs(l).accessors = TsFile(l).accessors
    BY SameAccessors DEF generateTs, TsFile
<1>3. generateTs(l).fields = TsFile(l).fields
    <2>1. [i \in Structured(l) |-> generateDefInterface(l[i])] = [i \in Structured(l) |-> TsStateInterfaces(l[i])]
        BY SameInterface DEF Structured
    <2> QED BY <2>1 DEF generateTs, TsFile
<1>4. generateTs(l).keys = TsFile(l).keys
    BY DEF generateTs, TsFile, generateStateKeys, generateStateConfig
<1>5. generateTs(l).handlers = TsFile(l).handlers
    BY DEF generateTs, TsFile, TsConflictHandlers
<1> QED BY <1>1, <1>2, <1>3, <1>4, <1>5

LEMMA SameLibrary ==
    ASSUME NEW l, \A i \in DOMAIN l : Plain(l[i]), KeyIgnored(l) = {}
    PROVE  TsFile(l) = generateTs(l)
<1>1. \A i \in DOMAIN l : generateFactoryCall(l[i]) = factoryCall(l[i])
    <2> TAKE i \in DOMAIN l
    <2>1. ~(l[i].shape \in {"object", "list"} /\ l[i].exclusiveKey \notin {"", l[i].name})
        BY DEF KeyIgnored, Structured
    <2> QED BY <2>1, SameFactory
<1>2. [i \in DOMAIN l |-> generateFactoryCall(l[i])] = [i \in DOMAIN l |-> factoryCall(l[i])]
    BY <1>1
<1>3. generateTs(l).instances = TsFile(l).instances
    BY <1>2 DEF generateTs, TsFile
<1> DEFINE Parts == {"instances", "passed", "accessors", "fields", "keys", "handlers"}
<1>4. DOMAIN generateTs(l) = Parts /\ generateTs(l) = [p \in Parts |-> generateTs(l)[p]]
    BY DEF generateTs
<1>5. DOMAIN TsFile(l) = Parts /\ TsFile(l) = [p \in Parts |-> TsFile(l)[p]]
    BY DEF TsFile
<1>6. \A p \in Parts : generateTs(l)[p] = TsFile(l)[p]
    BY <1>3, SameFiles
<1> QED BY <1>4, <1>5, <1>6

\* Where the one that drops a key builds, the other finds its key declared.
LEMMA BothBuild ==
    ASSUME NEW l, \A i \in DOMAIN l : Plain(l[i]), Builds(l, TsFile(l), {})
    PROVE  Builds(l, generateTs(l), {})
<1> DEFINE one == TsFile(l)
           other == generateTs(l)
<1>1. /\ one.accessors = other.accessors /\ one.fields = other.fields
      /\ one.keys = other.keys /\ one.handlers = other.handlers
    BY SameFiles
<1>2. ASSUME NEW i \in DOMAIN l
      PROVE  other.instances[i].key \in other.keys /\ other.instances[i].handler = one.instances[i].handler
    <2>1. other.instances[i] = generateFactoryCall(l[i]) /\ one.instances[i] = factoryCall(l[i])
        BY <1>2 DEF generateTs, TsFile
    <2>2. generateFactoryCall(l[i]).handler = factoryCall(l[i]).handler
        BY DEF generateFactoryCall, factoryCall, Instance
    <2>3. generateFactoryCall(l[i]).key = IF l[i].exclusiveKey # "" THEN l[i].exclusiveKey ELSE l[i].name
        BY DEF generateFactoryCall, Instance
    <2>4. l[i] \in ToSet(l)
        BY <1>2 DEF ToSet
    <2>5. other.keys = generateStateKeys(l)
        BY DEF generateTs
    <2>6. generateFactoryCall(l[i]).key \in generateStateKeys(l)
        BY <2>3, <2>4 DEF generateStateKeys
    <2> QED BY <2>1, <2>2, <2>5, <2>6
<1> HIDE DEF one, other
<1>3. Builds(l, one, {})
    BY DEF one
<1>4. Builds(l, other, {})
    BY <1>1, <1>2, <1>3 DEF Builds
<1> QED BY <1>4 DEF other

-----------------------------------------------------------------------------
\* The library in use is one of the cases.
LibraryInv == case \in Cases

LEMMA LibraryStays == LibraryInv /\ [Next]_vars => LibraryInv'
BY DEF LibraryInv, Next, Apply, Reject, Repeat, vars

(* Whatever decorators are described, a library that generate.tsx can write can be  *)
(* written by decorator-codegen.ts, and is the same but for ignored keys.           *)
THEOREM GeneratorsAlwaysAgree == Spec => []GeneratorsAgree
<1>1. LibraryInv => GeneratorsAgree
    <2> SUFFICES ASSUME LibraryInv, \A i \in DOMAIN lib : lib[i].options = <<>> /\ lib[i].place = "type"
                 PROVE  /\ Builds(lib, TsFile(lib), {}) => Builds(lib, generateTs(lib), {})
                        /\ KeyIgnored(lib) = {} => TsFile(lib) = generateTs(lib)
        BY DEF GeneratorsAgree
    <2>1. \A i \in DOMAIN lib : Plain(lib[i])
        <3>1. lib \in Seq(ToSet(lib)) /\ \A d \in ToSet(lib) : WellDescribed(d)
            BY DecoratorsAssumption DEF LibraryInv, lib
        <3>2. \A i \in DOMAIN lib : WellDescribed(lib[i])
            BY <3>1 DEF ToSet
        <3> QED BY <3>2 DEF Plain, WellDescribed
    <2> QED BY <2>1, BothBuild, SameLibrary
<1>2. Init => LibraryInv
    BY DEF Init, LibraryInv
<1> QED BY <1>1, <1>2, LibraryStays, PTL DEF Spec

-----------------------------------------------------------------------------
(* Sets of numbers in their order.                                               *)

LEMMA Least ==
    ASSUME NEW T, T \subseteq Nat, T # {}
    PROVE  \E x \in T : \A y \in T : x <= y
<1>1. PICK x \in T : \A y \in T : <<y, x>> \notin OpToRel(<, Nat)
    BY NatLessThanWellFounded, WFMin
<1>2. ASSUME NEW y \in T PROVE x <= y
    <2>1. x \in Nat /\ y \in Nat /\ <<y, x>> \in Nat \X Nat
        OBVIOUS
    <2> QED BY <1>1, <2>1 DEF OpToRel
<1> QED BY <1>2

LEMMA Counted ==
    ASSUME NEW n \in Nat, NEW S, S \subseteq 1..n
    PROVE  /\ IsFiniteSet(S) /\ Cardinality(S) \in Nat
           /\ Cardinality(S) = 0 <=> S = {}
           /\ Cardinality(S \cup {n + 1}) = Cardinality(S) + 1
<1>1. IsFiniteSet(1..n)
    BY FS_Interval
<1>2. IsFiniteSet(S)
    BY <1>1, FS_Subset
<1>3. n + 1 \notin S
    OBVIOUS
<1> QED BY <1>2, <1>3, FS_CardinalityType, FS_EmptySet, FS_AddElement

\* A number beyond the others comes last, and leaves the order of the others.
LEMMA OneMore ==
    ASSUME NEW n \in Nat, NEW S, S \subseteq 1..n
    PROVE  /\ DOMAIN InOrder(S) = 1..Cardinality(S)
           /\ DOMAIN InOrder(S \cup {n + 1}) = 1..(Cardinality(S) + 1)
           /\ InOrder(S \cup {n + 1})[Cardinality(S) + 1] = n + 1
           /\ \A k \in 1..Cardinality(S) : InOrder(S \cup {n + 1})[k] = InOrder(S)[k]
<1> DEFINE T == S \cup {n + 1}
           c == Cardinality(S)
<1>1. c \in Nat /\ Cardinality(T) = c + 1
    BY Counted
<1>2. ASSUME NEW m \in S PROVE Rank(m, T) = Rank(m, S) /\ Rank(m, S) \in 0..c
    <2>1. {l \in T : l <= m} = {l \in S : l <= m}
        OBVIOUS
    <2>2. {l \in S : l <= m} \subseteq S
        OBVIOUS
    <2>3. IsFiniteSet(S) /\ Cardinality({l \in S : l <= m}) <= c
        BY <2>2, Counted, FS_Subset
    <2>4. Cardinality({l \in S : l <= m}) \in Nat
        BY <2>2, Counted
    <2> QED BY <2>1, <2>3, <2>4, <1>1 DEF Rank
<1>3. Rank(n + 1, T) = c + 1
    <2>1. \A l \in T : l <= n + 1
        OBVIOUS
    <2>2. {l \in T : l <= n + 1} = T
        BY <2>1
    <2> QED BY <2>2, <1>1 DEF Rank
<1>4. DOMAIN InOrder(S) = 1..c /\ DOMAIN InOrder(T) = 1..(c + 1)
    BY <1>1 DEF InOrder
<1>5. InOrder(T)[c + 1] = n + 1
    <2>1. \A m \in T : Rank(m, T) = c + 1 => m = n + 1
        BY <1>1, <1>2
    <2>2. n + 1 \in T /\ c + 1 \in 1..(c + 1)
        BY <1>1
    <2>3. InOrder(T)[c + 1] = CHOOSE m \in T : Rank(m, T) = c + 1
        BY <1>1, <2>2 DEF InOrder
    <2> HIDE DEF T, c
    <2>4. (CHOOSE m \in T : Rank(m, T) = c + 1) = n + 1
        BY <2>1, <2>2, <1>3
    <2> QED BY <2>3, <2>4
<1>6. ASSUME NEW k \in 1..c PROVE InOrder(T)[k] = InOrder(S)[k]
    <2>0. k # c + 1 /\ (\A m : m \in T <=> m \in S \/ m = n + 1)
        BY <1>1
    <2> HIDE DEF T, c
    <2>1. \A m : (m \in T /\ Rank(m, T) = k) <=> (m \in S /\ Rank(m, S) = k)
        BY <2>0, <1>2, <1>3
    <2>2. (CHOOSE m \in T : Rank(m, T) = k) = (CHOOSE m \in S : Rank(m, S) = k)
        BY <2>1
    <2>3. k \in 1..(c + 1)
        BY <1>1
    <2>4. InOrder(T)[k] = CHOOSE m \in T : Rank(m, T) = k
        BY <2>3, <1>1 DEF InOrder
    <2>5. InOrder(S)[k] = CHOOSE m \in S : Rank(m, S) = k
        BY DEF InOrder, c
    <2> QED BY <2>2, <2>4, <2>5
<1> QED BY <1>4, <1>5, <1>6

LEMMA Joined ==
    ASSUME NEW s, NEW t, s \in Seq(ToSet(s)), t \in Seq(ToSet(t))
    PROVE  /\ DOMAIN s = 1..Len(s) /\ Len(s) \in Nat /\ DOMAIN t = 1..Len(t) /\ Len(t) \in Nat
           /\ DOMAIN (s \o t) = 1..(Len(s) + Len(t))
           /\ \A k \in DOMAIN s : k \in DOMAIN (s \o t) /\ (s \o t)[k] = s[k]
           /\ \A k \in DOMAIN t : Len(s) + k \in DOMAIN (s \o t) /\ (s \o t)[Len(s) + k] = t[k]
<1>1. DOMAIN s = 1..Len(s) /\ Len(s) \in Nat /\ DOMAIN t = 1..Len(t) /\ Len(t) \in Nat
    OBVIOUS
<1>2. s \in Seq(ToSet(s) \cup ToSet(t)) /\ t \in Seq(ToSet(s) \cup ToSet(t))
    OBVIOUS
<1>3. /\ DOMAIN (s \o t) = 1..(Len(s) + Len(t))
      /\ \A k \in 1..(Len(s) + Len(t)) : (s \o t)[k] = IF k <= Len(s) THEN s[k] ELSE t[k - Len(s)]
    BY <1>2
<1>4. ASSUME NEW k \in DOMAIN s PROVE k \in DOMAIN (s \o t) /\ (s \o t)[k] = s[k]
    BY <1>1, <1>3
<1>5. ASSUME NEW k \in DOMAIN t PROVE Len(s) + k \in DOMAIN (s \o t) /\ (s \o t)[Len(s) + k] = t[k]
    <2>1. k + Len(s) \in 1..(Len(s) + Len(t)) /\ ~(k + Len(s) <= Len(s)) /\ k + Len(s) - Len(s) = k
        BY <1>1
    <2> QED BY <1>3, <2>1
<1> QED BY <1>1, <1>3, <1>4, <1>5

LEMMA ToSetBoth ==
    ASSUME NEW s, NEW t, s \in Seq(ToSet(s)), t \in Seq(ToSet(t))
    PROVE  ToSet(s \o t) = ToSet(s) \cup ToSet(t)
<1> DEFINE m == Len(s)
           n == Len(t)
<1>1. m \in Nat /\ n \in Nat /\ DOMAIN s = 1..m /\ DOMAIN t = 1..n
    OBVIOUS
<1>2. s \in Seq(ToSet(s) \cup ToSet(t)) /\ t \in Seq(ToSet(s) \cup ToSet(t))
    OBVIOUS
<1>3. /\ DOMAIN (s \o t) = 1..(m + n)
      /\ \A k \in 1..(m + n) : (s \o t)[k] = IF k <= m THEN s[k] ELSE t[k - m]
    BY <1>2
<1>4. ASSUME NEW x \in ToSet(s) PROVE x \in ToSet(s \o t)
    <2>1. PICK k \in 1..m : s[k] = x
        BY <1>1 DEF ToSet
    <2> QED BY <1>1, <1>3, <2>1 DEF ToSet
<1>5. ASSUME NEW x \in ToSet(t) PROVE x \in ToSet(s \o t)
    <2>1. PICK k \in 1..n : t[k] = x
        BY <1>1 DEF ToSet
    <2>2. k + m \in 1..(m + n) /\ (s \o t)[k + m] = x
        BY <1>1, <1>3, <2>1
    <2> QED BY <1>3, <2>2 DEF ToSet
<1>6. ASSUME NEW x \in ToSet(s \o t) PROVE x \in ToSet(s) \cup ToSet(t)
    <2>1. PICK k \in 1..(m + n) : (s \o t)[k] = x
        BY <1>3 DEF ToSet
    <2>2. CASE k <= m
        BY <1>1, <1>3, <2>1, <2>2 DEF ToSet
    <2>3. CASE ~(k <= m)
        <3>1. k - m \in 1..n /\ t[k - m] = x
            BY <1>1, <1>3, <2>1, <2>3
        <3> QED BY <1>1, <3>1 DEF ToSet
    <2> QED BY <2>2, <2>3
<1> QED BY <1>4, <1>5, <1>6

LEMMA NamesBoth ==
    ASSUME NEW s, NEW t, s \in Seq(ToSet(s)), t \in Seq(ToSet(t))
    PROVE  Names(s \o t) = Names(s) \cup Names(t)
<1>1. \A q : Names(q) = {x.name : x \in ToSet(q)}
    BY DEF Names, ToSet
<1> QED BY <1>1, ToSetBoth

-----------------------------------------------------------------------------
(* What the code of one decorator does.                                          *)

KeyOf(d) == IF d.exclusiveKey # "" THEN d.exclusiveKey ELSE d.name
KeysKept == KeyIgnored(lib) = {} \/ case.out # TsFile(lib)

LEMMA OfCase ==
    ASSUME case \in Cases
    PROVE  /\ DOMAIN lib = 1..Len(lib) /\ Len(lib) \in Nat
           /\ \A i \in DOMAIN lib : lib[i] \in ToSet(lib) /\ WellDescribed(lib[i])
           /\ \/ case.out = ByHand(lib) /\ \A i \in DOMAIN lib : lib[i].options = <<>>
              \/ /\ \/ case.out = generateTs(lib)
                    \/ case.out = TsFile(lib) /\ \A i \in DOMAIN lib : lib[i].options = <<>>
                 /\ \A i \in DOMAIN lib : lib[i].adds = <<>> /\ lib[i].shape # "merge"
           /\ case.max \in Nat
           /\ case.max > 0 => Builds(lib, case.out, TypesOf(lib))
<1>1. /\ case.max \in Nat /\ lib \in Seq(ToSet(lib))
      /\ \A d \in ToSet(lib) : WellDescribed(d)
      /\ \/ /\ case.out = ByHand(lib)
            /\ \A d \in ToSet(lib) : d.options = <<>>
         \/ /\ case.out \in {generateTs(lib), TsFile(lib)}
            /\ \A d \in ToSet(lib) : d.adds = <<>> /\ d.shape # "merge"
            /\ case.out = TsFile(lib) => \A d \in ToSet(lib) : d.options = <<>>
      /\ case.max > 0 => Builds(lib, case.out, TypesOf(lib))
    BY DecoratorsAssumption DEF lib
<1>2. \A i \in DOMAIN lib : lib[i] \in ToSet(lib)
    BY DEF ToSet
<1>3. DOMAIN lib = 1..Len(lib) /\ Len(lib) \in Nat
    BY <1>1
<1> HIDE DEF lib
<1> QED BY <1>1, <1>2, <1>3

OptionFields(d) == {Field(d.options[k].name, "options", Len(d.params) + 1) : k \in DOMAIN d.options}
AllFields(d) == ToSet(FieldsOf(d)) \cup OptionFields(d) \cup ToSet(d.adds)

Listed(d) == /\ d.params \in Seq(ToSet(d.params)) /\ d.options \in Seq(ToSet(d.options))
             /\ d.adds \in Seq(ToSet(d.adds))

LEMMA OfTwo ==
    ASSUME NEW d, d.shape \in {"object", "list"}, Listed(d)
    PROVE  /\ ToSet(generateFactoryCall(d).fields) = ToSet(FieldsOf(d)) \cup OptionFields(d)
           /\ factoryCall(d).fields = FieldsOf(d)
<1> DEFINE s == FieldsOf(d)
           t == [k \in DOMAIN d.options |-> Field(d.options[k].name, "options", Len(d.params) + 1)]
<1>1. DOMAIN d.params = 1..Len(d.params) /\ Len(d.params) \in Nat
      /\ DOMAIN d.options = 1..Len(d.options) /\ Len(d.options) \in Nat
    BY DEF Listed
<1>2. s \in Seq(ToSet(s))
    <2>1. s \in [1..Len(d.params) -> ToSet(s)]
        BY <1>1 DEF ToSet, FieldsOf
    <2> HIDE DEF s
    <2> QED BY <1>1, <2>1
<1>3. t \in Seq(ToSet(t))
    <2>1. t \in [1..Len(d.options) -> ToSet(t)]
        BY <1>1 DEF ToSet
    <2> HIDE DEF t
    <2> QED BY <1>1, <2>1
<1>4. ToSet(t) = OptionFields(d)
    BY DEF ToSet, OptionFields
<1>5. generateFactoryCall(d).fields = s \o t
    BY DEF generateFactoryCall, Instance
<1>6. factoryCall(d).fields = s
    BY DEF factoryCall, Instance
<1> HIDE DEF s, t
<1>7. ToSet(s \o t) = ToSet(s) \cup ToSet(t)
    BY <1>2, <1>3, ToSetBoth
<1> QED BY <1>4, <1>5, <1>6, <1>7 DEF s

LEMMA OfInstance ==
    ASSUME case \in Cases, NEW i \in DOMAIN lib
    PROVE  /\ instances[i].factory = lib[i].shape /\ instances[i].place = lib[i].place
           /\ lib[i].shape = "exclusive" => /\ instances[i].value = Value(lib[i])
                                            /\ instances[i].handler = instances[i].key
           /\ KeysKept => instances[i].key = KeyOf(lib[i])
<1> DEFINE d == lib[i]
           one == generateFactoryCall(d)
           two == factoryCall(d)
<1>1. /\ one.factory = d.shape /\ one.place = d.place /\ one.key = KeyOf(d)
      /\ d.shape = "exclusive" => one.value = Value(d) /\ one.handler = one.key
    <2>1. one.factory = d.shape /\ one.place = d.place /\ one.key = KeyOf(d)
        BY DEF generateFactoryCall, Instance, KeyOf
    <2>2. d.shape = "exclusive" => one.value = Value(d)
        BY DEF generateFactoryCall, Instance
    <2>3. d.shape = "exclusive" => one.handler = KeyOf(d)
        BY DEF generateFactoryCall, Instance, KeyOf
    <2> QED BY <2>1, <2>2, <2>3
<1>2. /\ two.factory = d.shape /\ two.place = d.place
      /\ two.key = IF d.exclusiveKey # "" /\ d.shape \notin {"object", "list"} THEN d.exclusiveKey ELSE d.name
      /\ d.shape = "exclusive" => two.value = Value(d) /\ two.handler = KeyOf(d)
    <2>1. two.factory = d.shape /\ two.place = d.place
        BY DEF factoryCall, Instance
    <2>2. two.key = IF d.exclusiveKey # "" /\ d.shape \notin {"object", "list"} THEN d.exclusiveKey ELSE d.name
        BY DEF factoryCall, Instance
    <2>3. d.shape = "exclusive" => two.value = Value(d)
        BY DEF factoryCall, Instance
    <2>4. d.shape = "exclusive" => two.handler = KeyOf(d)
        BY DEF factoryCall, Instance, KeyOf
    <2> QED BY <2>1, <2>2, <2>3, <2>4
<1>3. CASE case.out = ByHand(lib)
    <2> DEFINE own == IF d.shape \in {"object", "list", "merge"} THEN FieldsOf(d) \o d.adds ELSE <<>>
    <2>1. generateTs(lib).instances[i] = one
        BY DEF generateTs
    <2>2. instances[i] = [one EXCEPT !.fields = own]
        BY <1>3, <2>1 DEF ByHand, instances, generateTs
    <2>3. /\ instances[i].factory = one.factory /\ instances[i].place = one.place /\ instances[i].key = one.key
          /\ instances[i].value = one.value /\ instances[i].handler = one.handler
        BY <2>2 DEF generateFactoryCall, Instance
    <2> QED BY <1>1, <2>3
<1>4. CASE case.out = generateTs(lib)
    <2>1. instances[i] = one
        BY <1>4 DEF generateTs, instances
    <2> QED BY <1>1, <2>1
<1>5. CASE case.out = TsFile(lib)
    <2>1. instances[i] = two
        BY <1>5 DEF TsFile, instances
    <2>2. d.shape = "exclusive" => two.key = KeyOf(d)
        BY <1>2 DEF KeyOf
    <2>3. KeysKept => two.key = KeyOf(d)
        <3>1. KeysKept => ~(d.shape \in {"object", "list"} /\ d.exclusiveKey \notin {"", d.name})
            BY <1>5 DEF KeysKept, KeyIgnored, Structured
        <3> QED BY <1>2, <3>1 DEF KeyOf
    <2> QED BY <1>2, <2>1, <2>2, <2>3
<1> QED BY <1>3, <1>4, <1>5, OfCase

LEMMA FieldsOfInstance ==
    ASSUME case \in Cases, NEW i \in DOMAIN lib, lib[i].shape \in {"object", "list", "merge"}
    PROVE  ToSet(instances[i].fields) = AllFields(lib[i])
<1> DEFINE d == lib[i]
           one == generateFactoryCall(d)
<1>1. Listed(d)
    BY OfCase DEF WellDescribed, Listed
<1>2. CASE case.out = ByHand(lib) /\ d.options = <<>>
    <2>1. generateTs(lib).instances[i] = one
        BY DEF generateTs
    <2>2. instances[i] = [one EXCEPT !.fields = FieldsOf(d) \o d.adds]
        BY <1>2, <2>1 DEF ByHand, instances, generateTs
    <2>3. instances[i].fields = FieldsOf(d) \o d.adds
        BY <2>2 DEF generateFactoryCall, Instance
    <2>4. FieldsOf(d) \in Seq(ToSet(FieldsOf(d)))
        <3>1. DOMAIN d.params = 1..Len(d.params) /\ Len(d.params) \in Nat
            BY <1>1 DEF Listed
        <3>2. FieldsOf(d) \in [1..Len(d.params) -> ToSet(FieldsOf(d))]
            BY <3>1 DEF ToSet, FieldsOf
        <3> QED BY <3>1, <3>2
    <2>5. ToSet(FieldsOf(d) \o d.adds) = ToSet(FieldsOf(d)) \cup ToSet(d.adds)
        BY <1>1, <2>4, ToSetBoth DEF Listed
    <2>6. OptionFields(d) = {}
        BY <1>2 DEF OptionFields
    <2> QED BY <2>3, <2>5, <2>6 DEF AllFields
<1>3. CASE d.shape \in {"object", "list"} /\ d.adds = <<>> /\ case.out = generateTs(lib)
    <2>1. instances[i] = one
        BY <1>3 DEF generateTs, instances
    <2>2. ToSet(d.adds) = {}
        BY <1>3 DEF ToSet
    <2>3. ToSet(one.fields) = ToSet(FieldsOf(d)) \cup OptionFields(d)
        BY <1>1, <1>3, OfTwo
    <2> QED BY <2>1, <2>2, <2>3 DEF AllFields
<1>4. CASE d.shape \in {"object", "list"} /\ d.adds = <<>> /\ d.options = <<>> /\ case.out = TsFile(lib)
    <2>1. instances[i] = factoryCall(d)
        BY <1>4 DEF TsFile, instances
    <2>2. ToSet(d.adds) = {} /\ OptionFields(d) = {}
        BY <1>4 DEF ToSet, OptionFields
    <2>3. factoryCall(d).fields = FieldsOf(d)
        BY <1>1, <1>4, OfTwo
    <2> QED BY <2>1, <2>2, <2>3 DEF AllFields
<1> QED BY <1>2, <1>3, <1>4, OfCase

-----------------------------------------------------------------------------
(* What is built of an application is what it says.                              *)

LEMMA OfPassed ==
    ASSUME case \in Cases, NEW i \in DOMAIN lib
    PROVE  /\ \A k \in DOMAIN lib[i].params : /\ k \in DOMAIN case.out.passed[i]
                                              /\ case.out.passed[i][k] = lib[i].params[k].name
           /\ lib[i].options # <<>> =>
                 /\ Len(lib[i].params) + 1 \in DOMAIN case.out.passed[i]
                 /\ case.out.passed[i][Len(lib[i].params) + 1] = "options"
           /\ lib[i].options = <<>> => \A k \in DOMAIN case.out.passed[i] : k \in DOMAIN lib[i].params
<1> DEFINE d == lib[i]
           names == [k \in DOMAIN d.params |-> d.params[k].name]
<1>1. Listed(d)
    BY OfCase DEF WellDescribed, Listed
<1>2. DOMAIN d.params = 1..Len(d.params) /\ Len(d.params) \in Nat
    BY <1>1 DEF Listed
<1>3. names \in Seq({d.params[k].name : k \in DOMAIN d.params} \cup {"options"})
    BY <1>2
<1>4. /\ DOMAIN names = DOMAIN d.params /\ Len(names) = Len(d.params)
      /\ \A k \in DOMAIN d.params : names[k] = d.params[k].name
    BY <1>2, <1>3
<1>5. CASE case.out.passed[i] = names /\ d.options = <<>>
    BY <1>4, <1>5
<1>6. CASE case.out.passed[i] = names \o (IF d.options = <<>> THEN <<>> ELSE <<"options">>)
    <2> HIDE DEF names
    <2>1. CASE d.options = <<>>
        <3>1. names \o <<>> = names
            BY <1>3
        <3> QED BY <1>4, <1>6, <2>1, <3>1
    <2>2. CASE d.options # <<>>
        <3>1. case.out.passed[i] = names \o <<"options">>
            BY <1>6, <2>2
        <3>2. /\ DOMAIN (names \o <<"options">>) = 1..(Len(names) + 1)
              /\ (names \o <<"options">>)[Len(names) + 1] = "options"
              /\ \A k \in 1..Len(names) : (names \o <<"options">>)[k] = names[k]
            BY <1>3
        <3> QED BY <1>2, <1>4, <2>2, <3>1, <3>2
    <2> QED BY <2>1, <2>2
<1>7. case.out = TsFile(lib) => case.out.passed[i] = names
    BY DEF TsFile, TspDeclarator
<1>8. case.out \in {generateTs(lib), ByHand(lib)} =>
          case.out.passed[i] = names \o (IF d.options = <<>> THEN <<>> ELSE <<"options">>)
    <2>1. generateTs(lib).passed[i] = names \o (IF d.options = <<>> THEN <<>> ELSE <<"options">>)
        BY DEF generateTs, generateDecoratorTsp
    <2>2. ByHand(lib).passed = generateTs(lib).passed
        BY DEF ByHand, generateTs
    <2> QED BY <2>1, <2>2
<1> QED BY <1>5, <1>6, <1>7, <1>8, OfCase

LEMMA OfArguments ==
    ASSUME case \in Cases, NEW i \in DOMAIN lib, NEW args \in ArgumentsOf(lib[i])
    PROVE  /\ DOMAIN args.given = Names(lib[i].params)
           /\ \A k \in DOMAIN lib[i].params :
                 /\ k \in DOMAIN Arguments(i, args)
                 /\ Arguments(i, args)[k] = args.given[lib[i].params[k].name]
           /\ lib[i].options # <<>> /\ "options" \notin Names(lib[i].params) =>
                 /\ Len(lib[i].params) + 1 \in DOMAIN Arguments(i, args)
                 /\ Arguments(i, args)[Len(lib[i].params) + 1] = args.options
<1> DEFINE d == lib[i]
<1>1. DOMAIN args.given = Names(d.params)
    BY DEF ArgumentsOf, Names
<1>2. \A k \in DOMAIN d.params : d.params[k].name \in Names(d.params)
    BY DEF Names
<1>3. DOMAIN Arguments(i, args) = DOMAIN case.out.passed[i]
    BY DEF Arguments
<1>4. \A k \in DOMAIN case.out.passed[i] : Arguments(i, args)[k] =
          IF case.out.passed[i][k] \in DOMAIN args.given THEN args.given[case.out.passed[i][k]] ELSE args.options
    BY DEF Arguments
<1> QED BY <1>1, <1>2, <1>3, <1>4, OfPassed

\* A library that builds: options have names of their own.
LEMMA OfOptions ==
    ASSUME case \in Cases, case.max > 0, NEW i \in DOMAIN lib, lib[i].shape \in {"object", "list", "merge"},
           lib[i].options # <<>>
    PROVE  /\ "options" \notin Names(lib[i].params) /\ lib[i].adds = <<>>
           /\ \A n \in Names(lib[i].options) : n \notin Names(lib[i].params)
<1> DEFINE d == lib[i]
           s == d.params \o d.options
<1>1. Listed(d)
    BY OfCase DEF WellDescribed, Listed
<1>2. /\ d.adds = <<>> /\ d.shape # "merge"
      /\ case.out = generateTs(lib) \/ case.out = TsFile(lib)
    BY OfCase
<1>3. i \in DOMAIN case.out.fields
    <2>1. i \in Structured(lib)
        BY <1>2 DEF Structured
    <2>2. DOMAIN generateTs(lib).fields = Structured(lib) /\ DOMAIN TsFile(lib).fields = Structured(lib)
        BY DEF generateTs, TsFile
    <2> QED BY <1>2, <2>1, <2>2
<1>4. Builds(lib, case.out, TypesOf(lib))
    BY OfCase
<1>5. "options" \notin Names(d.params) /\ \A k, l \in DOMAIN s : s[k].name = s[l].name => k = l
    BY <1>3, <1>4 DEF Builds
<1>6. ASSUME NEW k \in DOMAIN d.options, NEW l \in DOMAIN d.params PROVE d.options[k].name # d.params[l].name
    <2>1. Len(d.params) + k \in DOMAIN s /\ s[Len(d.params) + k] = d.options[k]
        <3> DEFINE p == d.params
                   o == d.options
        <3>1. p \in Seq(ToSet(p)) /\ o \in Seq(ToSet(o)) /\ k \in DOMAIN o
            BY <1>1 DEF Listed
        <3> HIDE DEF p, o
        <3>2. Len(p) + k \in DOMAIN (p \o o) /\ (p \o o)[Len(p) + k] = o[k]
            BY <3>1, Joined
        <3> QED BY <3>2 DEF p, o
    <2>2. l \in DOMAIN s /\ s[l] = d.params[l]
        BY <1>1, Joined DEF Listed
    <2>3. l # Len(d.params) + k
        <3>1. l \in 1..Len(d.params) /\ Len(d.params) \in Nat /\ k \in 1..Len(d.options)
            BY <1>1, Joined DEF Listed
        <3> QED BY <3>1
    <2> HIDE DEF s
    <2> QED BY <1>5, <2>1, <2>2, <2>3
<1> QED BY <1>2, <1>5, <1>6 DEF Names

LEMMA FieldNames ==
    ASSUME NEW d
    PROVE  /\ {f.name : f \in ToSet(FieldsOf(d))} = Names(d.params)
           /\ {f.name : f \in OptionFields(d)} = Names(d.options)
<1>1. ToSet(FieldsOf(d)) = {Field(d.params[k].name, "argument", k) : k \in DOMAIN d.params}
    BY DEF ToSet, FieldsOf
<1>2. \A n, k : Field(n, "argument", k).name = n
    BY DEF Field
<1>3. \A n, k : Field(n, "options", k).name = n
    BY DEF Field
<1> QED BY <1>1, <1>2, <1>3 DEF OptionFields, Names

LEMMA BuiltIsSaid ==
    ASSUME case \in Cases, case.max > 0, NEW i \in DOMAIN lib, lib[i].shape \in {"object", "list", "merge"},
           NEW t, NEW args \in ArgumentsOf(lib[i])
    PROVE  build(i, t, args) = Said([of |-> i, target |-> t, args |-> args])
<1> DEFINE d == lib[i]
           F == AllFields(d)
           argument(k) == IF k \in DOMAIN Arguments(i, args) THEN Arguments(i, args)[k] ELSE Undefined
           value(f) == CASE f.from = "argument" -> argument(f.at)
                         [] f.from = "options"  -> IF argument(f.at) = Undefined THEN Undefined
                                                   ELSE argument(f.at)[f.name]
                         [] f.from = "target"   -> t.name
                         [] f.from = "itself"   -> d.name
           said(n) == IF n \in DOMAIN args.given THEN args.given[n]
                      ELSE IF args.options = Undefined THEN Undefined ELSE args.options[n]
           added == {f.name : f \in ToSet(d.adds)}
           add(n) == IF (CHOOSE f \in ToSet(d.adds) : f.name = n).from = "itself" THEN d.name ELSE t.name
           all == Names(d.params \o d.options) \cup added
           mine(n) == value(CHOOSE f \in F : f.name = n)
           its(n) == IF n \in added THEN add(n) ELSE said(n)
<1>1. build(i, t, args) = [n \in {f.name : f \in F} |-> mine(n)]
    <2>1. ToSet(instances[i].fields) = F
        BY FieldsOfInstance
    <2> QED BY <2>1 DEF build
<1>2. Said([of |-> i, target |-> t, args |-> args]) = [n \in all |-> its(n)]
    BY DEF Said
<1>3. Listed(d) /\ WellDescribed(d)
    BY OfCase DEF WellDescribed, Listed
<1>4. {f.name : f \in F} = all
    <2>1. Names(d.params \o d.options) = Names(d.params) \cup Names(d.options)
        BY <1>3, NamesBoth DEF Listed
    <2>2. {f.name : f \in ToSet(FieldsOf(d))} = Names(d.params)
        BY FieldNames
    <2>3. {f.name : f \in OptionFields(d)} = Names(d.options)
        BY FieldNames
    <2> QED BY <2>1, <2>2, <2>3 DEF AllFields
<1>5. ASSUME NEW k \in DOMAIN d.params, NEW f, f = Field(d.params[k].name, "argument", k)
      PROVE  f \in F /\ value(f) = its(f.name) /\ \A g \in F : g.name = f.name => g = f
    <2>1. f.name = d.params[k].name /\ f.from = "argument" /\ f.at = k
        BY <1>5 DEF Field
    <2>2. f \in ToSet(FieldsOf(d)) /\ f.name \in Names(d.params)
        BY <1>5, <2>1 DEF FieldsOf, ToSet, Names
    <2>3. f.name \notin added
        BY <1>3, <2>1, <2>2 DEF WellDescribed
    <2>4. f.name \notin Names(d.options)
        <3>1. CASE d.options = <<>>
            BY <3>1 DEF Names
        <3> QED BY <3>1, <2>2, OfOptions
    <2>5. \A g \in OptionFields(d) : g.name \in Names(d.options)
        BY DEF OptionFields, Names, Field
    <2>6. \A g \in F : g.name = f.name => g = f
        BY <1>3, <2>2, <2>4, <2>5 DEF AllFields, WellDescribed
    <2>7. value(f) = args.given[f.name] /\ f.name \in DOMAIN args.given
        BY <2>1, <2>2, OfArguments
    <2> QED BY <2>2, <2>3, <2>6, <2>7 DEF AllFields
<1>6. ASSUME NEW k \in DOMAIN d.options, NEW f, f = Field(d.options[k].name, "options", Len(d.params) + 1)
      PROVE  f \in F /\ value(f) = its(f.name) /\ \A g \in F : g.name = f.name => g = f
    <2>1. f.name = d.options[k].name /\ f.from = "options" /\ f.at = Len(d.params) + 1
        BY <1>6 DEF Field
    <2>2. f \in OptionFields(d) /\ f.name \in Names(d.options)
        BY <1>6, <2>1 DEF OptionFields, Names
    <2>3. d.options # <<>>
        BY <1>6
    <2>4. "options" \notin Names(d.params) /\ d.adds = <<>> /\ f.name \notin Names(d.params)
        BY <2>2, <2>3, OfOptions
    <2>5. ToSet(d.adds) = {}
        BY <2>4 DEF ToSet
    <2>6. \A g \in ToSet(FieldsOf(d)) : g.name \in Names(d.params)
        BY FieldNames
    <2>7. \A g \in OptionFields(d) : g.name = f.name => g = f
        BY <2>1, <1>6 DEF OptionFields, Field
    <2>8. \A g \in F : g.name = f.name => g = f
        BY <2>4, <2>5, <2>6, <2>7 DEF AllFields
    <2>9. argument(f.at) = args.options /\ f.name \notin DOMAIN args.given
        BY <2>1, <2>3, <2>4, OfArguments
    <2>10. value(f) = its(f.name)
        BY <2>1, <2>5, <2>9
    <2> QED BY <2>2, <2>8, <2>10 DEF AllFields
<1>7. ASSUME NEW f \in ToSet(d.adds)
      PROVE  f \in F /\ value(f) = its(f.name) /\ \A g \in F : g.name = f.name => g = f
    <2>1. \A g \in ToSet(FieldsOf(d)) \cup ToSet(d.adds) : g.name = f.name => g = f
        BY <1>3 DEF WellDescribed
    <2>2. OptionFields(d) = {}
        <3>1. d.options = <<>>
            <4>1. d.adds # <<>>
                BY DEF ToSet
            <4> QED BY <4>1, OfOptions
        <3> QED BY <3>1 DEF OptionFields
    <2>3. \A g \in F : g.name = f.name => g = f
        BY <2>1, <2>2 DEF AllFields
    <2>4. (CHOOSE g \in ToSet(d.adds) : g.name = f.name) = f
        BY <2>1
    <2>5. f.from \in {"target", "itself"}
        BY <1>3 DEF WellDescribed
    <2>6. value(f) = its(f.name)
        BY <2>4, <2>5
    <2> QED BY <2>3, <2>6 DEF AllFields
<1>8. ASSUME NEW n \in all PROVE mine(n) = its(n)
    <2>1. PICK f \in F : f.name = n
        BY <1>4
    <2>2. value(f) = its(f.name) /\ \A g \in F : g.name = f.name => g = f
        <3>1. CASE f \in ToSet(FieldsOf(d))
            <4>1. PICK k \in DOMAIN d.params : f = Field(d.params[k].name, "argument", k)
                BY <3>1 DEF ToSet, FieldsOf
            <4> HIDE DEF value, its, F
            <4> QED BY <4>1, <1>5
        <3>2. CASE f \in OptionFields(d)
            <4>1. PICK k \in DOMAIN d.options : f = Field(d.options[k].name, "options", Len(d.params) + 1)
                BY <3>2 DEF OptionFields
            <4> HIDE DEF value, its, F
            <4> QED BY <4>1, <1>6
        <3>3. CASE f \in ToSet(d.adds)
            <4> HIDE DEF value, its, F
            <4> QED BY <3>3, <1>7
        <3> QED BY <3>1, <3>2, <3>3 DEF AllFields
    <2>3. (CHOOSE g \in F : g.name = n) = f
        <3> HIDE DEF F, value, its
        <3> QED BY <2>1, <2>2
    <2> HIDE DEF F, value, its
    <2> QED BY <2>1, <2>2, <2>3
<1> HIDE DEF mine, its, all, F
<1> QED BY <1>1, <1>2, <1>4, <1>8

-----------------------------------------------------------------------------
(* More about sets of numbers in their order.                                    *)

\* The last of them is the greatest.
LEMMA OrderEnds ==
    ASSUME NEW n \in Nat, NEW S, S \subseteq 1..n, NEW m \in S, \A l \in S : l <= m
    PROVE  Cardinality(S) \in Nat \ {0} /\ InOrder(S)[Cardinality(S)] = m
<1> DEFINE R == S \ {m}
<1>1. m \in Nat /\ m - 1 \in Nat /\ R \subseteq 1..(m - 1) /\ S = R \cup {(m - 1) + 1}
    OBVIOUS
<1> HIDE DEF R
<1>2. /\ Cardinality(R) \in Nat /\ Cardinality(R \cup {(m - 1) + 1}) = Cardinality(R) + 1
    BY <1>1, Counted
<1>3. InOrder(R \cup {(m - 1) + 1})[Cardinality(R) + 1] = (m - 1) + 1
    BY <1>1, OneMore
<1> QED BY <1>1, <1>2, <1>3

Within(S) == \A k \in 1..Cardinality(S) : InOrder(S)[k] \in S

LEMMA OrderWithin ==
    ASSUME NEW n \in Nat, NEW S, S \subseteq 1..n
    PROVE  Within(S)
<1> DEFINE T == {m \in Nat : \E R : R \subseteq 1..m /\ ~Within(R)}
<1> SUFFICES ASSUME ~Within(S) PROVE FALSE
    OBVIOUS
<1>1. T \subseteq Nat /\ T # {}
    OBVIOUS
<1>2. PICK m \in T : \A l \in T : m <= l
    <2> HIDE DEF T
    <2> QED BY <1>1, Least
<1>3. PICK R : R \subseteq 1..m /\ ~Within(R)
    BY <1>2
<1>4. CASE m \notin R
    <2>1. R = {} \/ (m - 1 \in Nat /\ R \subseteq 1..(m - 1))
        BY <1>2, <1>3, <1>4
    <2>2. R # {}
        <3>1. Within({})
            <4>1. Cardinality({}) = 0
                BY FS_EmptySet
            <4> QED BY <4>1 DEF Within
        <3> QED BY <1>3, <3>1
    <2>3. m - 1 \in T
        BY <1>3, <2>1, <2>2
    <2> QED BY <1>2, <2>3
<1>5. CASE m \in R
    <2> DEFINE Q == R \ {m}
    <2>1. m - 1 \in Nat /\ Q \subseteq 1..(m - 1) /\ R = Q \cup {(m - 1) + 1}
        BY <1>2, <1>3, <1>5
    <2>2. m - 1 \notin T
        BY <1>2, <2>1
    <2>3. Within(Q)
        BY <2>1, <2>2
    <2>8. m \in Nat
        BY <1>2
    <2> HIDE DEF Q, T
    <2>9. (m - 1) + 1 = m
        BY ONLY <2>8
    <2>4. /\ Cardinality(Q) \in Nat /\ Cardinality(R) = Cardinality(Q) + 1
          /\ InOrder(R)[Cardinality(Q) + 1] = m
          /\ \A k \in 1..Cardinality(Q) : InOrder(R)[k] = InOrder(Q)[k]
        <3>1. Cardinality(Q) \in Nat /\ Cardinality(Q \cup {(m - 1) + 1}) = Cardinality(Q) + 1
            BY <2>1, Counted
        <3>2. /\ InOrder(Q \cup {(m - 1) + 1})[Cardinality(Q) + 1] = (m - 1) + 1
              /\ \A k \in 1..Cardinality(Q) : InOrder(Q \cup {(m - 1) + 1})[k] = InOrder(Q)[k]
            BY <2>1, OneMore
        <3> QED BY ONLY <2>9, <2>1, <3>1, <3>2
    <2>5. ASSUME NEW k \in 1..Cardinality(R) PROVE InOrder(R)[k] \in R
        <3>1. k \in 1..Cardinality(Q) \/ k = Cardinality(Q) + 1
            BY <2>4
        <3> QED BY <1>5, <2>1, <2>3, <2>4, <3>1 DEF Within
    <2> QED BY <1>3, <2>5 DEF Within
<1> QED BY <1>4, <1>5

LEMMA Appended ==
    ASSUME NEW s, s \in Seq(ToSet(s)), NEW x
    PROVE  /\ Len(s) \in Nat /\ DOMAIN s = 1..Len(s)
           /\ DOMAIN Append(s, x) = 1..(Len(s) + 1) /\ Append(s, x)[Len(s) + 1] = x
           /\ \A n \in 1..Len(s) : Append(s, x)[n] = s[n]
           /\ Append(s, x) \in Seq(ToSet(Append(s, x)))
<1>1. Len(s) \in Nat /\ DOMAIN s = 1..Len(s)
    OBVIOUS
<1>2. s \in Seq(ToSet(s) \cup {x})
    OBVIOUS
<1>3. /\ DOMAIN Append(s, x) = 1..(Len(s) + 1) /\ Append(s, x)[Len(s) + 1] = x
      /\ \A n \in 1..Len(s) : Append(s, x)[n] = s[n]
    BY <1>2
<1>4. Append(s, x) \in [1..(Len(s) + 1) -> ToSet(Append(s, x))]
    <2>1. Append(s, x) \in Seq(ToSet(s) \cup {x})
        BY <1>2
    <2>2. \A n \in 1..(Len(s) + 1) : Append(s, x)[n] \in ToSet(Append(s, x))
        BY <1>3 DEF ToSet
    <2> DEFINE q == Append(s, x)
    <2>3. q \in Seq(ToSet(s) \cup {x}) /\ DOMAIN q = 1..(Len(s) + 1)
        BY <1>3, <2>1
    <2> HIDE DEF q
    <2>4. q = [n \in DOMAIN q |-> q[n]]
        BY <2>3
    <2> USE DEF q
    <2> QED BY <2>2, <2>3, <2>4
<1>5. Append(s, x) \in Seq(ToSet(Append(s, x)))
    <2> DEFINE q == Append(s, x)
    <2>1. q \in [1..(Len(s) + 1) -> ToSet(q)]
        BY <1>4
    <2> HIDE DEF q
    <2>2. q \in Seq(ToSet(q))
        BY <1>1, <2>1
    <2> QED BY <2>2 DEF q
<1> QED BY <1>1, <1>3, <1>5

-----------------------------------------------------------------------------
(* What has been applied.                                                        *)

SlotOf(n)  == Slot(applied[n].of, applied[n].target)
ShapeOf(n) == lib[applied[n].of].shape
Built(n)   == build(applied[n].of, applied[n].target, applied[n].args)
Wrote(s)   == {n \in DOMAIN applied : SlotOf(n) = s}
Alike(s, shape) == \A n \in Wrote(s) : ShapeOf(n) = shape

\* A copy has a decorator only after the property it copies.
CopiedLater(t) == t.copy # "" => \E o \in Types : o.id = t.copy /\ On(o) # {}

Sound(a) ==
    /\ a.of \in DOMAIN lib /\ a.target \in Types /\ a.args \in ArgumentsOf(lib[a.of])
    /\ a.target.kind \in lib[a.of].targets /\ CopiedLater(a.target)

HistoryInv ==
    /\ case \in Cases
    /\ applied \in Seq(ToSet(applied)) /\ reported \in Seq(ToSet(reported))
    /\ \A n \in DOMAIN applied : Sound(applied[n])
    /\ applied # <<>> => case.max > 0

\* Apply and Repeat: one more application.
Ran(i, t, args) ==
    /\ i \in DOMAIN lib /\ t \in Types /\ args \in ArgumentsOf(lib[i])
    /\ t.kind \in lib[i].targets /\ CopiedLater(t) /\ case.max > 0
    /\ Run(i, t, args) /\ Note(i, t, args) /\ case' = case

Refused(t) ==
    /\ reported' = Append(reported, <<"invalid", "intern", t.id>>)
    /\ UNCHANGED <<case, store, applied>>

LEMMA StepIs ==
    ASSUME HistoryInv, Next
    PROVE  (\E i, t, args : Ran(i, t, args)) \/ \E t : Refused(t)
<1>1. ASSUME NEW i \in DOMAIN lib, NEW t \in Types, NEW args \in ArgumentsOf(lib[i]), Apply(i, t, args)
      PROVE  Ran(i, t, args)
    <2>1. Len(applied) \in Nat /\ case.max \in Nat
        BY OfCase DEF HistoryInv
    <2>2. Len(applied) < case.max
        BY <1>1 DEF Apply
    <2>3. case.max > 0
        BY <2>1, <2>2
    <2> QED BY <1>1, <2>3 DEF Apply, Ran, CopiedLater
<1>2. ASSUME NEW i \in DOMAIN lib, NEW t \in Types, Reject(i, t)
      PROVE  Refused(t)
    BY <1>2 DEF Reject, Refused
<1>3. ASSUME NEW t \in Types, Repeat(t)
      PROVE  \E i, args : Ran(i, t, args)
    <2>1. PICK o \in Types, n \in DOMAIN applied :
              /\ n \in On(o) /\ o.id = t.copy
              /\ Run(applied[n].of, t, applied[n].args) /\ Note(applied[n].of, t, applied[n].args)
        BY <1>3 DEF Repeat, On
    <2>2. t.copy # "" /\ case' = case
        BY <1>3 DEF Repeat
    <2>3. o.kind = t.kind
        <3>1. \A u, v \in Types : u.id = v.id => u = v
            BY DecoratorsAssumption DEF TypesAssumption
        <3>2. PICK u \in Types : u.id = t.copy /\ t.kind = "ModelProperty" /\ u.kind = "ModelProperty"
            BY <2>2, DecoratorsAssumption DEF TypesAssumption
        <3> QED BY <2>1, <3>1, <3>2
    <2>4. applied[n].target = o
        BY <2>1 DEF On
    <2>5. applied # <<>>
        BY <2>1
    <2>6. Ran(applied[n].of, t, applied[n].args)
        BY <2>1, <2>2, <2>3, <2>4, <2>5 DEF Ran, HistoryInv, Sound, CopiedLater
    <2> QED BY <2>6
<1> QED BY <1>1, <1>2, <1>3 DEF Next

LEMMA Steady ==
    ASSUME case' = case
    PROVE  /\ lib' = lib /\ instances' = instances
           /\ \A i, t : Slot(i, t)' = Slot(i, t)
           /\ \A i, t, args : build(i, t, args)' = build(i, t, args)
           /\ \A i, args : Arguments(i, args)' = Arguments(i, args)
<1>1. lib' = lib /\ instances' = instances
    BY DEF lib, instances
<1>2. \A i, t : Slot(i, t)' = Slot(i, t)
    BY <1>1 DEF Slot
<1>3. \A i, args : Arguments(i, args)' = Arguments(i, args)
    BY DEF Arguments
<1>4. \A i, t, args : build(i, t, args)' = build(i, t, args)
    BY DEF build, Arguments, lib, instances
<1> QED BY <1>1, <1>2, <1>3, <1>4

\* N is the number of the application, s the slot it writes.
Writes(i, t, args, N, s) == Ran(i, t, args) /\ N = Len(applied) + 1 /\ s = Slot(i, t)

LEMMA GrownApplied ==
    ASSUME HistoryInv, NEW i, NEW t, NEW args, NEW N, NEW s, Writes(i, t, args, N, s)
    PROVE  /\ Len(applied) \in Nat /\ N = Len(applied) + 1
           /\ DOMAIN applied = 1..Len(applied) /\ DOMAIN applied' = 1..N
           /\ applied'[N].of = i /\ applied'[N].target = t /\ applied'[N].args = args
           /\ \A n \in DOMAIN applied : applied'[n] = applied[n]
<1> DEFINE a == [of |-> i, target |-> t, args |-> args]
<1>1. applied' = Append(applied, a) /\ N = Len(applied) + 1
    BY DEF Writes, Ran, Note
<1>2. applied \in Seq(ToSet(applied))
    BY DEF HistoryInv
<1>3. a.of = i /\ a.target = t /\ a.args = args
    OBVIOUS
<1> HIDE DEF a
<1>4. /\ Len(applied) \in Nat /\ DOMAIN applied = 1..Len(applied) /\ DOMAIN applied' = 1..N
      /\ applied'[N] = a /\ \A n \in 1..Len(applied) : applied'[n] = applied[n]
    BY <1>1, <1>2, Appended
<1> QED BY <1>1, <1>3, <1>4

LEMMA GrownHere ==
    ASSUME HistoryInv, NEW i, NEW t, NEW args, NEW N, NEW s, Writes(i, t, args, N, s)
    PROVE  SlotOf(N)' = s /\ ShapeOf(N)' = lib[i].shape /\ Built(N)' = build(i, t, args)
<1>1. case' = case /\ s = Slot(i, t)
    BY DEF Writes, Ran
<1> QED BY <1>1, GrownApplied, Steady DEF SlotOf, ShapeOf, Built

LEMMA GrownBefore ==
    ASSUME HistoryInv, NEW i, NEW t, NEW args, NEW N, NEW s, Writes(i, t, args, N, s), NEW n \in DOMAIN applied
    PROVE  SlotOf(n)' = SlotOf(n) /\ ShapeOf(n)' = ShapeOf(n) /\ Built(n)' = Built(n)
<1>1. case' = case
    BY DEF Writes, Ran
<1>2. applied'[n] = applied[n]
    BY GrownApplied
<1> QED BY <1>1, <1>2, Steady DEF SlotOf, ShapeOf, Built

LEMMA GrownWrote ==
    ASSUME HistoryInv, NEW i, NEW t, NEW args, NEW N, NEW s, Writes(i, t, args, N, s), NEW r
    PROVE  Wrote(r) \subseteq 1..Len(applied) /\ Wrote(r)' = IF r = s THEN Wrote(r) \cup {N} ELSE Wrote(r)
<1>1. /\ Len(applied) \in Nat /\ N = Len(applied) + 1
      /\ DOMAIN applied = 1..Len(applied) /\ DOMAIN applied' = 1..N
    BY GrownApplied
<1>2. Wrote(r) \subseteq 1..Len(applied)
    BY <1>1 DEF Wrote
<1>3. Wrote(r)' = {n \in 1..N : SlotOf(n)' = r}
    BY <1>1 DEF Wrote
<1>4. 1..N = (1..Len(applied)) \cup {N}
    BY <1>1
<1>5. \A n \in DOMAIN applied : SlotOf(n)' = SlotOf(n)
    BY GrownBefore
<1>6. SlotOf(N)' = s
    BY GrownHere
<1> QED BY <1>1, <1>2, <1>3, <1>4, <1>5, <1>6 DEF Wrote

LEMMA GrownStore ==
    ASSUME HistoryInv, NEW i, NEW t, NEW args, NEW N, NEW s, Writes(i, t, args, N, s), NEW w, w = Decorated(i, t, args)
    PROVE  DOMAIN store' = DOMAIN store \cup {s} /\ store'[s] = w
<1>1. store' = With(store, [slot \in {s} |-> w])
    BY DEF Writes, Ran, Run
<1> QED BY <1>1 DEF With

LEMMA GrownElsewhere ==
    ASSUME HistoryInv, NEW i, NEW t, NEW args, NEW N, NEW s, Writes(i, t, args, N, s),
           NEW r \in DOMAIN store, r # s
    PROVE  store'[r] = store[r]
<1> DEFINE w == Decorated(i, t, args)
<1>1. store' = With(store, [slot \in {s} |-> w])
    BY DEF Writes, Ran, Run
<1> HIDE DEF w
<1> QED BY <1>1 DEF With

LEMMA HistoryStays == HistoryInv /\ [Next]_vars => HistoryInv'
<1> SUFFICES ASSUME HistoryInv, [Next]_vars PROVE HistoryInv'
    OBVIOUS
<1>1. CASE UNCHANGED vars
    <2>1. case' = case /\ applied' = applied /\ reported' = reported
        BY <1>1 DEF vars
    <2>2. lib' = lib /\ \A t : On(t)' = On(t)
        BY <2>1 DEF lib, On
    <2>3. \A t : CopiedLater(t)' = CopiedLater(t)
        BY <2>2 DEF CopiedLater
    <2>4. \A a : Sound(a)' = Sound(a)
        BY <2>2, <2>3 DEF Sound, ArgumentsOf
    <2> QED BY <2>1, <2>4 DEF HistoryInv
<1>2. ASSUME NEW t, Refused(t) PROVE HistoryInv'
    <2>1. case' = case /\ applied' = applied
        BY <1>2 DEF Refused
    <2>2. lib' = lib /\ \A u : On(u)' = On(u)
        BY <2>1 DEF lib, On
    <2>3. \A u : CopiedLater(u)' = CopiedLater(u)
        BY <2>2 DEF CopiedLater
    <2>4. reported' \in Seq(ToSet(reported'))
        BY <1>2, Appended DEF Refused, HistoryInv
    <2>5. \A a : Sound(a)' = Sound(a)
        BY <2>2, <2>3 DEF Sound, ArgumentsOf
    <2> QED BY <2>1, <2>4, <2>5 DEF HistoryInv
<1>3. ASSUME NEW i, NEW t, NEW args, Ran(i, t, args) PROVE HistoryInv'
    <2> DEFINE a == [of |-> i, target |-> t, args |-> args]
    <2>0. PICK N, s : Writes(i, t, args, N, s)
        BY <1>3 DEF Writes
    <2>1. /\ Len(applied) \in Nat /\ N = Len(applied) + 1
          /\ DOMAIN applied = 1..Len(applied) /\ DOMAIN applied' = 1..N
          /\ \A n \in DOMAIN applied : applied'[n] = applied[n]
        BY <2>0, GrownApplied
    <2>11. applied'[N].of = i /\ applied'[N].target = t /\ applied'[N].args = args
        BY <2>0, GrownApplied
    <2>2. applied' \in Seq(ToSet(applied'))
        <3> HIDE DEF a
        <3> QED BY <1>3, Appended DEF Ran, Note, HistoryInv, a
    <2>3. reported' \in Seq(ToSet(reported'))
        BY <1>3, Appended DEF Ran, Run, HistoryInv
    <2>4. case' = case /\ lib' = lib
        BY <1>3, Steady DEF Ran
    <2>5. ASSUME NEW u, CopiedLater(u) PROVE CopiedLater(u)'
        <3>1. \A o : On(o) \subseteq On(o)'
            BY <2>1 DEF On
        <3> QED BY <2>5, <3>1 DEF CopiedLater
    <2>6. ASSUME NEW b, Sound(b) PROVE Sound(b)'
        BY <2>4, <2>5, <2>6 DEF Sound, ArgumentsOf
    <2>8. ASSUME NEW b, b.of = i, b.target = t, b.args = args PROVE Sound(b)
        BY <1>3, <2>8 DEF Ran, Sound
    <2>9. ASSUME NEW n \in DOMAIN applied' PROVE Sound(applied[n])'
        <3>1. PICK b : b = applied'[n]
            OBVIOUS
        <3>2. Sound(b)
            <4>1. CASE n \in DOMAIN applied
                BY <2>1, <3>1, <4>1 DEF HistoryInv
            <4>2. CASE n \notin DOMAIN applied
                <5>1. n = N
                    BY <2>1, <4>2
                <5> QED BY <5>1, <2>11, <2>8, <3>1
            <4> QED BY <4>1, <4>2
        <3>3. Sound(b)'
            BY <3>2, <2>6
        <3> QED BY <3>1, <3>3
    <2>7. case'.max > 0
        BY <1>3, <2>4 DEF Ran
    <2>10. case' \in Cases
        BY <2>4 DEF HistoryInv
    <2> QED BY <2>2, <2>3, <2>7, <2>9, <2>10 DEF HistoryInv
<1> QED BY <1>1, <1>2, <1>3, StepIs

-----------------------------------------------------------------------------
(* What the state maps hold.                                                     *)

Newest(n) == \A m \in Wrote(SlotOf(n)) : m <= n
\* What the n-th application put there.
Told(n) == [k \in 1..Cardinality(Wrote(SlotOf(n))) |-> Built(InOrder(Wrote(SlotOf(n)))[k])]

SlotsInv == DOMAIN store = {SlotOf(n) : n \in DOMAIN applied}
LastInv == \A n \in DOMAIN applied : Newest(n) =>
    /\ ShapeOf(n) = "flag"   => store[SlotOf(n)] = "true"
    /\ ShapeOf(n) = "value"  => store[SlotOf(n)] = valueDec(applied[n].of, applied[n].target, applied[n].args)
    /\ ShapeOf(n) = "object" => store[SlotOf(n)] = Built(n)
ListInv == \A n \in DOMAIN applied : Alike(SlotOf(n), "list") => store[SlotOf(n)] = Told(n)
FirstInv == \A n \in DOMAIN applied : Alike(SlotOf(n), "exclusive") =>
    store[SlotOf(n)] = instances[applied[InOrder(Wrote(SlotOf(n)))[1]].of].value
\* A field is that of the last application that gave one.
MergeInv == \A n \in DOMAIN applied : Alike(SlotOf(n), "merge") =>
    /\ \A f \in DOMAIN store[SlotOf(n)] : \E m \in Wrote(SlotOf(n)) : f \in DOMAIN Built(m)
    /\ \A m \in Wrote(SlotOf(n)) : \A f \in DOMAIN Built(m) :
          Built(m)[f] # Undefined /\ (\A l \in Wrote(SlotOf(n)) : f \in DOMAIN Built(l) => l <= m)
              => f \in DOMAIN store[SlotOf(n)] /\ store[SlotOf(n)][f] = Built(m)[f]
Late(handler, id) == {n \in DOMAIN reported : reported[n] = <<"duplicate", handler, id>>}
ReportsInv == \A h, id : Alike(<<h, id>>, "exclusive") =>
    Cardinality(Late(h, id)) = IF Wrote(<<h, id>>) = {} THEN 0 ELSE Cardinality(Wrote(<<h, id>>)) - 1

LEMMA SlotsStay ==
    ASSUME HistoryInv, SlotsInv, NEW i, NEW t, NEW args, Ran(i, t, args)
    PROVE  SlotsInv'
<1>0. PICK N, s : Writes(i, t, args, N, s)
    BY DEF Writes
<1>1. DOMAIN applied' = DOMAIN applied \cup {N}
    <2>1. /\ Len(applied) \in Nat /\ N = Len(applied) + 1
          /\ DOMAIN applied = 1..Len(applied) /\ DOMAIN applied' = 1..N
        BY <1>0, GrownApplied
    <2> QED BY <2>1
<1>2. SlotOf(N)' = s
    BY <1>0, GrownHere
<1>3. \A n \in DOMAIN applied : SlotOf(n)' = SlotOf(n)
    BY <1>0, GrownBefore
<1>4. DOMAIN store' = {SlotOf(n) : n \in DOMAIN applied} \cup {s}
    <2>1. DOMAIN store' = DOMAIN store \cup {s}
        <3>1. PICK w : w = Decorated(i, t, args)
            OBVIOUS
        <3> QED BY <1>0, <3>1, GrownStore
    <2> QED BY <2>1 DEF SlotsInv
<1> DEFINE after(n) == SlotOf(n)'
<1>5. DOMAIN store' = {after(n) : n \in DOMAIN applied'}
    BY <1>1, <1>2, <1>3, <1>4
<1> QED BY <1>5 DEF SlotsInv

\* An application changes the slot it writes, and no other.
LEMMA Elsewhere ==
    ASSUME HistoryInv, SlotsInv, NEW i, NEW t, NEW args, NEW N, NEW s, Writes(i, t, args, N, s),
           NEW r, r # s
    PROVE  /\ Wrote(r)' = Wrote(r)
           /\ r \in DOMAIN store => store'[r] = store[r]
           /\ \A shape : Alike(r, shape)' = Alike(r, shape)
           /\ \A m \in Wrote(r) : m \in DOMAIN applied /\ Built(m)' = Built(m) /\ applied'[m] = applied[m]
<1>1. Wrote(r)' = Wrote(r)
    BY GrownWrote
<1>2. \A m \in Wrote(r) : m \in DOMAIN applied
    BY DEF Wrote
<1>3. \A m \in Wrote(r) : Built(m)' = Built(m) /\ ShapeOf(m)' = ShapeOf(m)
    BY <1>2, GrownBefore
<1>4. \A m \in Wrote(r) : applied'[m] = applied[m]
    BY <1>2, GrownApplied
<1>5. \A shape : Alike(r, shape)' = Alike(r, shape)
    BY <1>1, <1>3 DEF Alike
<1>6. r \in DOMAIN store => store'[r] = store[r]
    BY GrownElsewhere
<1> QED BY <1>1, <1>2, <1>3, <1>4, <1>5, <1>6

LEMMA AlikeElsewhere ==
    ASSUME HistoryInv, SlotsInv, NEW i, NEW t, NEW args, NEW N, NEW s, Writes(i, t, args, N, s),
           NEW r, r # s, NEW shape
    PROVE  Alike(r, shape)' <=> Alike(r, shape)
<1>1. Wrote(r)' = Wrote(r)
    BY GrownWrote
<1>2. \A m \in Wrote(r) : m \in DOMAIN applied
    BY DEF Wrote
<1>3. \A m \in Wrote(r) : ShapeOf(m)' = ShapeOf(m)
    BY <1>2, GrownBefore
<1> QED BY <1>1, <1>3 DEF Alike

\* Of the slot it writes, it is the last.
LEMMA Here ==
    ASSUME HistoryInv, SlotsInv, NEW i, NEW t, NEW args, NEW N, NEW s, Writes(i, t, args, N, s)
    PROVE  /\ Wrote(s)' = Wrote(s) \cup {N} /\ Wrote(s) \subseteq 1..Len(applied)
           /\ \A m \in Wrote(s) : m \in DOMAIN applied /\ Built(m)' = Built(m) /\ applied'[m] = applied[m]
           /\ \A shape : Alike(s, shape)' <=> Alike(s, shape) /\ lib[i].shape = shape
           /\ s \in DOMAIN store <=> Wrote(s) # {}
<1>1. Wrote(s)' = Wrote(s) \cup {N} /\ Wrote(s) \subseteq 1..Len(applied)
    BY GrownWrote
<1>2. \A m \in Wrote(s) : m \in DOMAIN applied
    BY DEF Wrote
<1>3. \A m \in Wrote(s) : Built(m)' = Built(m) /\ ShapeOf(m)' = ShapeOf(m)
    BY <1>2, GrownBefore
<1>4. \A m \in Wrote(s) : applied'[m] = applied[m]
    BY <1>2, GrownApplied
<1>5. ShapeOf(N)' = lib[i].shape
    BY GrownHere
<1>6. \A shape : Alike(s, shape)' <=> Alike(s, shape) /\ lib[i].shape = shape
    BY <1>1, <1>3, <1>5 DEF Alike
<1>7. s \in DOMAIN store <=> Wrote(s) # {}
    BY DEF SlotsInv, Wrote
<1> QED BY <1>1, <1>2, <1>3, <1>4, <1>6, <1>7

\* In an application of the kind: it is the new one, or an earlier one, on another slot or on this.
LEMMA Which ==
    ASSUME HistoryInv, NEW i, NEW t, NEW args, NEW N, NEW s, Writes(i, t, args, N, s), NEW n \in DOMAIN applied'
    PROVE  /\ n = N \/ n \in DOMAIN applied
           /\ SlotOf(n)' = s => n \in Wrote(s) \cup {N}
           /\ SlotOf(n)' # s => /\ n \in DOMAIN applied /\ SlotOf(n) = SlotOf(n)' /\ n # N
                                /\ applied'[n] = applied[n]
                                /\ ShapeOf(n)' = ShapeOf(n) /\ Built(n)' = Built(n)
<1>1. /\ Len(applied) \in Nat /\ N = Len(applied) + 1
      /\ DOMAIN applied = 1..Len(applied) /\ DOMAIN applied' = 1..N
    BY GrownApplied
<1>2. n = N \/ n \in DOMAIN applied
    BY <1>1
<1>3. SlotOf(N)' = s
    BY GrownHere
<1>4. n \in DOMAIN applied => SlotOf(n)' = SlotOf(n) /\ ShapeOf(n)' = ShapeOf(n) /\ Built(n)' = Built(n)
    BY GrownBefore
<1>5. n \in DOMAIN applied => applied'[n] = applied[n]
    BY GrownApplied
<1> QED BY <1>2, <1>3, <1>4, <1>5 DEF Wrote

LEMMA DecoratedIs ==
    ASSUME case \in Cases, NEW i \in DOMAIN lib, NEW t, NEW args
    PROVE  /\ lib[i].shape = "flag"      => Decorated(i, t, args) = "true"
           /\ lib[i].shape = "value"     => Decorated(i, t, args) = valueDec(i, t, args)
           /\ lib[i].shape = "object"    => Decorated(i, t, args) = build(i, t, args)
           /\ lib[i].shape = "list"      => Decorated(i, t, args) = listDec(i, t, args)
           /\ lib[i].shape = "exclusive" => Decorated(i, t, args) = exclusiveDec(i, t, args)
           /\ lib[i].shape = "merge"     => Decorated(i, t, args) = merge(i, t, args)
<1>1. instances[i].factory = lib[i].shape
    BY OfInstance
<1> QED BY <1>1 DEF Decorated, flagDec, objectDec

Valued(n) == valueDec(applied[n].of, applied[n].target, applied[n].args)

LEMMA GrownValued ==
    ASSUME HistoryInv, NEW i, NEW t, NEW args, NEW N, NEW s, Writes(i, t, args, N, s)
    PROVE  /\ Valued(N)' = valueDec(i, t, args)
           /\ \A n \in DOMAIN applied : Valued(n)' = Valued(n)
<1>1. case' = case
    BY DEF Writes, Ran
<1>2. \A j, args1 : Arguments(j, args1)' = Arguments(j, args1)
    BY <1>1, Steady
<1>3. \A j, u, args1 : valueDec(j, u, args1)' = valueDec(j, u, args1)
    BY <1>2 DEF valueDec
<1>4. applied'[N].of = i /\ applied'[N].target = t /\ applied'[N].args = args
    BY GrownApplied
<1>5. \A n \in DOMAIN applied : applied'[n] = applied[n]
    BY GrownApplied
<1> QED BY <1>2, <1>4, <1>5 DEF Valued, valueDec

LEMMA LastStays ==
    ASSUME HistoryInv, SlotsInv, LastInv, NEW i, NEW t, NEW args, Ran(i, t, args)
    PROVE  LastInv'
<1>0. PICK N, s : Writes(i, t, args, N, s)
    BY DEF Writes
<1>i. i \in DOMAIN lib /\ case \in Cases
    BY DEF Ran, HistoryInv
<1> SUFFICES ASSUME NEW n \in DOMAIN applied', Newest(n)'
             PROVE  /\ ShapeOf(n)' = "flag"   => (store[SlotOf(n)])' = "true"
                    /\ ShapeOf(n)' = "value"  => (store[SlotOf(n)])' = Valued(n)'
                    /\ ShapeOf(n)' = "object" => (store[SlotOf(n)])' = Built(n)'
    BY DEF LastInv, Valued
<1>1. PICK r : r = SlotOf(n)'
    OBVIOUS
<1>2. \A m \in Wrote(r)' : m <= n
    BY <1>1 DEF Newest
<1>3. CASE r = s
    <2>1. N \in Wrote(s)' /\ N \in Nat /\ n \in 1..N
        <3>1. /\ Len(applied) \in Nat /\ N = Len(applied) + 1 /\ DOMAIN applied' = 1..N
            BY <1>0, GrownApplied
        <3>2. N \in Wrote(s)'
            BY <1>0, Here
        <3> QED BY <3>1, <3>2
    <2>2. n = N
        BY <1>2, <1>3, <2>1
    <2>3. ShapeOf(n)' = lib[i].shape /\ Built(n)' = build(i, t, args)
        BY <1>0, <2>2, GrownHere
    <2>4. Valued(n)' = valueDec(i, t, args)
        BY <1>0, <2>2, GrownValued
    <2>5. store'[s] = Decorated(i, t, args)
        <3>1. PICK w : w = Decorated(i, t, args)
            OBVIOUS
        <3> QED BY <1>0, <3>1, GrownStore
    <2>6. (store[SlotOf(n)])' = store'[s]
        BY <1>1, <1>3
    <2> QED BY <1>i, <2>3, <2>4, <2>5, <2>6, DecoratedIs
<1>4. CASE r # s
    <2>1. n \in DOMAIN applied /\ SlotOf(n) = r /\ ShapeOf(n)' = ShapeOf(n) /\ Built(n)' = Built(n)
        BY <1>0, <1>1, <1>4, Which
    <2>2. Valued(n)' = Valued(n)
        BY <1>0, <2>1, GrownValued
    <2>3. Wrote(r)' = Wrote(r)
        BY <1>0, <1>4, Elsewhere
    <2>4. Newest(n)
        BY <1>2, <2>1, <2>3 DEF Newest
    <2>5. store'[r] = store[r]
        <3>1. r \in DOMAIN store
            BY <2>1 DEF SlotsInv
        <3> QED BY <1>0, <1>4, <3>1, Elsewhere
    <2>6. (store[SlotOf(n)])' = store[SlotOf(n)]
        BY <1>1, <2>1, <2>5
    <2>7. /\ ShapeOf(n) = "flag"   => store[SlotOf(n)] = "true"
          /\ ShapeOf(n) = "value"  => store[SlotOf(n)] = Valued(n)
          /\ ShapeOf(n) = "object" => store[SlotOf(n)] = Built(n)
        BY <2>1, <2>4 DEF LastInv, Valued
    <2> QED BY <2>1, <2>2, <2>6, <2>7
<1> QED BY <1>3, <1>4

\* The entries of a list, by slot.
ListOf(r) == [k \in 1..Cardinality(Wrote(r)) |-> Built(InOrder(Wrote(r))[k])]

LEMMA ListGrows ==
    ASSUME NEW c \in Nat, NEW S, NEW f \in [1..c -> S], NEW g \in [1..(c + 1) -> S],
           \A k \in 1..c : g[k] = f[k]
    PROVE  g = f \o <<g[c + 1]>>
<1>1. f \in Seq(S) /\ g \in Seq(S)
    OBVIOUS
<1>2. PICK b \in S : b = g[c + 1]
    OBVIOUS
<1>3. Len(f) = c /\ Len(g) = c + 1 /\ <<b>> \in Seq(S)
    BY <1>1
<1>4. f \o <<b>> \in Seq(S) /\ Len(f \o <<b>>) = c + 1
    BY <1>1, <1>2, <1>3
<1>5. \A k \in 1..(c + 1) : g[k] = (f \o <<b>>)[k]
    <2> TAKE k \in 1..(c + 1)
    <2>1. k \in 1..c \/ k = c + 1
        OBVIOUS
    <2> QED BY <1>1, <1>2, <1>3, <2>1
<1> QED BY <1>1, <1>2, <1>3, <1>4, <1>5

LEMMA ListsStay ==
    ASSUME HistoryInv, SlotsInv, ListInv, NEW i, NEW t, NEW args, Ran(i, t, args)
    PROVE  ListInv'
<1>0. PICK N, s : Writes(i, t, args, N, s)
    BY DEF Writes
<1>i. i \in DOMAIN lib /\ case \in Cases /\ s = Slot(i, t)
    BY <1>0 DEF Ran, HistoryInv, Writes
<1>n. Len(applied) \in Nat /\ N = Len(applied) + 1
    BY <1>0, GrownApplied
<1> SUFFICES ASSUME NEW n \in DOMAIN applied', Alike(SlotOf(n), "list")'
             PROVE  (store[SlotOf(n)] = Told(n))'
    BY DEF ListInv
<1>1. PICK r : r = SlotOf(n)'
    OBVIOUS
<1>2. Alike(r, "list")'
    BY <1>1
<1>3. Told(n)' = ListOf(r)'
    BY <1>1 DEF Told, ListOf
<1>4. ASSUME r # s PROVE store'[r] = ListOf(r)'
    <2>1. n \in DOMAIN applied /\ SlotOf(n) = r
        BY <1>0, <1>1, <1>4, Which
    <2>2. Wrote(r)' = Wrote(r) /\ Alike(r, "list")
        <3>1. Wrote(r)' = Wrote(r)
            BY <1>0, <1>4, Elsewhere
        <3>2. Alike(r, "list")' <=> Alike(r, "list")
            BY <1>0, <1>4, AlikeElsewhere
        <3> QED BY <1>2, <3>1, <3>2
    <2>3. store'[r] = store[r]
        <3>1. r \in DOMAIN store
            BY <2>1 DEF SlotsInv
        <3> QED BY <1>0, <1>4, <3>1, Elsewhere
    <2>4. store[r] = ListOf(r)
        BY <2>1, <2>2 DEF ListInv, Told, ListOf
    <2>5. Within(Wrote(r))
        BY <1>0, <1>n, GrownWrote, OrderWithin
    <2>6. \A m \in Wrote(r) : Built(m)' = Built(m)
        BY <1>0, <1>4, Elsewhere
    <2>7. \A k \in 1..Cardinality(Wrote(r)) : Built(InOrder(Wrote(r))[k])' = Built(InOrder(Wrote(r))[k])
        BY <2>2, <2>5, <2>6 DEF Within
    <2>8. ListOf(r)' = ListOf(r)
        BY <2>2, <2>7 DEF ListOf
    <2> QED BY <2>3, <2>4, <2>8
<1>5. ASSUME r = s PROVE store'[s] = ListOf(s)'
    <2>1. lib[i].shape = "list" /\ Alike(s, "list")
        BY <1>0, <1>2, <1>5, Here
    <2>2. PICK W : W = Wrote(s)
        OBVIOUS
    <2>3. Wrote(s)' = W \cup {N} /\ W \subseteq 1..Len(applied)
        BY <1>0, <2>2, Here
    <2>4. Cardinality(W) \in Nat /\ Cardinality(W \cup {N}) = Cardinality(W) + 1 /\ (Cardinality(W) = 0 <=> W = {})
        BY <1>n, <2>3, Counted
    <2>5. /\ InOrder(W \cup {N})[Cardinality(W) + 1] = N
          /\ \A k \in 1..Cardinality(W) : InOrder(W \cup {N})[k] = InOrder(W)[k]
        BY <1>n, <2>3, OneMore
    <2>6. Within(W)
        BY <1>n, <2>3, OrderWithin
    <2>7. ListOf(s)' = [k \in 1..(Cardinality(W) + 1) |-> Built(InOrder(W \cup {N})[k])']
        BY <2>3, <2>4 DEF ListOf
    <2>8. Built(N)' = build(i, t, args)
        BY <1>0, GrownHere
    <2>9. \A m \in W : Built(m)' = Built(m)
        BY <1>0, <2>2, Here
    <2>10. store'[s] = (IF s \in DOMAIN store THEN store[s] ELSE <<>>) \o <<build(i, t, args)>>
        <3>1. store'[s] = Decorated(i, t, args)
            <4>1. PICK w : w = Decorated(i, t, args)
                OBVIOUS
            <4> QED BY <1>0, <4>1, GrownStore
        <3>2. Decorated(i, t, args) = listDec(i, t, args)
            BY <1>i, <2>1, DecoratedIs
        <3> QED BY <1>i, <3>1, <3>2 DEF listDec, Kept
    <2>11. (IF s \in DOMAIN store THEN store[s] ELSE <<>>) = ListOf(s)
        <3>1. CASE W = {}
            <4>1. s \notin DOMAIN store
                BY <1>0, <2>2, <3>1, Here
            <4>2. ListOf(s) = <<>>
                BY <2>2, <2>4, <3>1 DEF ListOf
            <4> QED BY <4>1, <4>2
        <3>2. CASE W # {}
            <4>1. s \in DOMAIN store
                BY <1>0, <2>2, <3>2, Here
            <4>2. PICK m : m \in DOMAIN applied /\ SlotOf(m) = s
                BY <2>2, <3>2 DEF Wrote
            <4>3. store[s] = ListOf(s)
                BY <2>1, <4>2 DEF ListInv, Told, ListOf
            <4> QED BY <4>1, <4>3
        <3> QED BY <3>1, <3>2
    <2>12. PICK c, f, g, b : c = Cardinality(W) /\ f = ListOf(s) /\ g = ListOf(s)' /\ b = build(i, t, args)
        OBVIOUS
    <2>13. c \in Nat /\ f = [k \in 1..c |-> Built(InOrder(W)[k])]
        BY <2>2, <2>4, <2>12 DEF ListOf
    <2>14. DOMAIN f = 1..c /\ f = [k \in 1..c |-> f[k]]
        BY <2>13
    <2>15. g = [k \in 1..(c + 1) |-> Built(InOrder(W \cup {N})[k])']
        BY <2>7, <2>12
    <2>16. DOMAIN g = 1..(c + 1) /\ g = [k \in 1..(c + 1) |-> g[k]]
        BY <2>15
    <2>17. g[c + 1] = b
        BY <2>5, <2>8, <2>12, <2>13, <2>15
    <2>18. \A k \in 1..c : g[k] = f[k]
        <3> TAKE k \in 1..c
        <3>1. k \in 1..(c + 1) /\ k \in 1..Cardinality(W)
            BY <2>12, <2>13
        <3>2. InOrder(W)[k] \in W
            BY <2>6, <3>1 DEF Within
        <3>3. PICK m : m = InOrder(W)[k]
            OBVIOUS
        <3>4. Built(m)' = Built(m)
            BY <2>9, <3>2, <3>3
        <3>5. g[k] = Built(m)'
            BY <2>5, <2>15, <3>1, <3>3
        <3> QED BY <2>13, <3>3, <3>4, <3>5
    <2>20. PICK S : S = {f[k] : k \in 1..c} \cup {g[k] : k \in 1..(c + 1)}
        OBVIOUS
    <2>21. f \in [1..c -> S] /\ g \in [1..(c + 1) -> S]
        BY ONLY <2>14, <2>16, <2>20
    <2>19. g = f \o <<b>>
        BY ONLY <2>13, <2>17, <2>18, <2>21, ListGrows
    <2> QED BY <2>10, <2>11, <2>12, <2>19
<1>6. (store[SlotOf(n)])' = store'[r]
    BY <1>1
<1> QED BY <1>3, <1>4, <1>5, <1>6

\* Who was first to write a slot, and the value it stands for.
FirstOn(r) == InOrder(Wrote(r))[1]
FirstValue(r) == instances[applied[FirstOn(r)].of].value

LEMMA FirstValued ==
    ASSUME HistoryInv, NEW n \in DOMAIN applied, Alike(SlotOf(n), "exclusive")
    PROVE  /\ FirstOn(SlotOf(n)) \in Wrote(SlotOf(n)) /\ FirstOn(SlotOf(n)) \in DOMAIN applied
           /\ FirstValue(SlotOf(n)) # Undefined
<1>1. PICK W : W = Wrote(SlotOf(n))
    OBVIOUS
<1>2. Len(applied) \in Nat /\ DOMAIN applied = 1..Len(applied)
    BY DEF HistoryInv
<1>3. n \in W /\ W \subseteq 1..Len(applied)
    BY <1>1, <1>2 DEF Wrote
<1>4. Cardinality(W) \in Nat /\ Cardinality(W) # 0
    BY <1>2, <1>3, Counted
<1>5. 1 \in 1..Cardinality(W)
    BY <1>4
<1>6. InOrder(W)[1] \in W
    BY <1>2, <1>3, <1>5, OrderWithin DEF Within
<1>7. PICK m : m = InOrder(W)[1]
    OBVIOUS
<1>8. m \in DOMAIN applied /\ ShapeOf(m) = "exclusive"
    BY <1>1, <1>2, <1>3, <1>6, <1>7 DEF Alike
<1>9. PICK i : i = applied[m].of
    OBVIOUS
<1>10. i \in DOMAIN lib /\ lib[i].shape = "exclusive" /\ case \in Cases
    BY <1>8, <1>9 DEF HistoryInv, Sound, ShapeOf
<1>11. instances[i].value = Value(lib[i]) /\ WellDescribed(lib[i])
    BY <1>10, OfInstance, OfCase
<1>12. Value(lib[i]) # Undefined
    BY <1>11 DEF WellDescribed
<1> QED BY <1>1, <1>6, <1>7, <1>8, <1>9, <1>11, <1>12 DEF FirstOn, FirstValue

LEMMA FirstStays ==
    ASSUME HistoryInv, SlotsInv, FirstInv, NEW i, NEW t, NEW args, Ran(i, t, args)
    PROVE  FirstInv'
<1>0. PICK N, s : Writes(i, t, args, N, s)
    BY DEF Writes
<1>i. i \in DOMAIN lib /\ case \in Cases /\ s = Slot(i, t) /\ case' = case
    BY <1>0 DEF Ran, HistoryInv, Writes
<1>n. Len(applied) \in Nat /\ N = Len(applied) + 1
    BY <1>0, GrownApplied
<1>v. instances' = instances
    BY <1>i, Steady
<1> SUFFICES ASSUME NEW n \in DOMAIN applied', Alike(SlotOf(n), "exclusive")'
             PROVE  (store[SlotOf(n)] = FirstValue(SlotOf(n)))'
    BY DEF FirstInv, FirstValue, FirstOn
<1>1. PICK r : r = SlotOf(n)'
    OBVIOUS
<1>2. Alike(r, "exclusive")'
    BY <1>1
<1>4. ASSUME r # s PROVE store'[r] = FirstValue(r)'
    <2>1. n \in DOMAIN applied /\ SlotOf(n) = r
        BY <1>0, <1>1, <1>4, Which
    <2>2. Wrote(r)' = Wrote(r)
        BY <1>0, <1>4, Elsewhere
    <2>3. Alike(r, "exclusive")
        <3>1. Alike(r, "exclusive")' <=> Alike(r, "exclusive")
            BY <1>0, <1>4, AlikeElsewhere
        <3> QED BY <1>2, <3>1
    <2>4. store'[r] = store[r]
        <3>1. r \in DOMAIN store
            BY <2>1 DEF SlotsInv
        <3> QED BY <1>0, <1>4, <3>1, Elsewhere
    <2>5. store[r] = FirstValue(r)
        BY <2>1, <2>3 DEF FirstInv, FirstValue, FirstOn
    <2>6. PICK m : m = FirstOn(r)
        OBVIOUS
    <2>7. m \in DOMAIN applied
        BY <2>1, <2>3, <2>6, FirstValued
    <2>8. applied'[m] = applied[m]
        BY <1>0, <2>7, GrownApplied
    <2>9. FirstOn(r)' = m
        BY <2>2, <2>6 DEF FirstOn
    <2>10. FirstValue(r)' = FirstValue(r)
        BY <1>v, <2>6, <2>8, <2>9 DEF FirstValue
    <2> QED BY <2>4, <2>5, <2>10
<1>5. ASSUME r = s PROVE store'[s] = FirstValue(s)'
    <2>1. lib[i].shape = "exclusive" /\ Alike(s, "exclusive")
        BY <1>0, <1>2, <1>5, Here
    <2>2. PICK W : W = Wrote(s)
        OBVIOUS
    <2>3. Wrote(s)' = W \cup {N} /\ W \subseteq 1..Len(applied)
        BY <1>0, <2>2, Here
    <2>4. Cardinality(W) \in Nat /\ (Cardinality(W) = 0 <=> W = {})
        BY <1>n, <2>3, Counted
    <2>5. /\ InOrder(W \cup {N})[Cardinality(W) + 1] = N
          /\ \A k \in 1..Cardinality(W) : InOrder(W \cup {N})[k] = InOrder(W)[k]
        BY <1>n, <2>3, OneMore
    <2>6. store'[s] = IF Kept(s) # Undefined THEN Kept(s) ELSE instances[i].value
        <3>1. store'[s] = Decorated(i, t, args)
            <4>1. PICK w : w = Decorated(i, t, args)
                OBVIOUS
            <4> QED BY <1>0, <4>1, GrownStore
        <3>2. Decorated(i, t, args) = exclusiveDec(i, t, args)
            BY <1>i, <2>1, DecoratedIs
        <3> QED BY <1>i, <3>1, <3>2 DEF exclusiveDec
    <2>7. CASE W = {}
        <3>1. s \notin DOMAIN store
            BY <1>0, <2>2, <2>7, Here
        <3>2. store'[s] = instances[i].value
            BY <2>6, <3>1 DEF Kept
        <3>3. FirstOn(s)' = N
            BY <2>3, <2>4, <2>5, <2>7 DEF FirstOn
        <3>4. applied'[N].of = i
            BY <1>0, GrownApplied
        <3> QED BY <1>v, <3>2, <3>3, <3>4 DEF FirstValue
    <2>8. CASE W # {}
        <3>1. s \in DOMAIN store
            BY <1>0, <2>2, <2>8, Here
        <3>2. PICK l : l \in DOMAIN applied /\ SlotOf(l) = s
            BY <2>2, <2>8 DEF Wrote
        <3>3. store[s] = FirstValue(s)
            BY <2>1, <3>2 DEF FirstInv, FirstValue, FirstOn
        <3>4. PICK m : m = FirstOn(s)
            OBVIOUS
        <3>5. m \in DOMAIN applied /\ FirstValue(s) # Undefined
            BY <2>1, <3>2, <3>4, FirstValued
        <3>6. store'[s] = FirstValue(s)
            BY <2>6, <3>1, <3>3, <3>5 DEF Kept
        <3>7. applied'[m] = applied[m]
            BY <1>0, <3>5, GrownApplied
        <3>8. 1 \in 1..Cardinality(W)
            BY <2>4, <2>8
        <3>11. InOrder(W \cup {N})[1] = InOrder(W)[1]
            BY <2>5, <3>8
        <3>9. FirstOn(s)' = m
            BY <2>2, <2>3, <3>4, <3>11 DEF FirstOn
        <3>10. FirstValue(s)' = FirstValue(s)
            BY <1>v, <3>4, <3>7, <3>9 DEF FirstValue
        <3> QED BY <3>6, <3>10
    <2> QED BY <2>7, <2>8
<1>6. (store[SlotOf(n)])' = store'[r] /\ FirstValue(SlotOf(n))' = FirstValue(r)'
    BY <1>1 DEF FirstValue, FirstOn
<1> QED BY <1>4, <1>5, <1>6

-----------------------------------------------------------------------------
(* clap.ts.                                                                      *)

\* A record of the slot has the fields given, each as the last application that gave it.
FieldsKept(r) == \A f \in DOMAIN store[r] : \E m \in Wrote(r) : f \in DOMAIN Built(m)
FieldKept(r, m, f) ==
    Built(m)[f] # Undefined /\ (\A l \in Wrote(r) : f \in DOMAIN Built(l) => l <= m)
        => f \in DOMAIN store[r] /\ store[r][f] = Built(m)[f]

LEMMA MergeIs ==
    MergeInv <=> \A n \in DOMAIN applied : Alike(SlotOf(n), "merge") =>
        /\ FieldsKept(SlotOf(n))
        /\ \A m \in Wrote(SlotOf(n)) : \A f \in DOMAIN Built(m) : FieldKept(SlotOf(n), m, f)
    BY DEF MergeInv, FieldsKept, FieldKept

Mixed(b, w, s) ==
    /\ DOMAIN w = {n \in DOMAIN b : b[n] # Undefined} \cup (IF s \in DOMAIN store THEN DOMAIN store[s] ELSE {})
    /\ \A f \in DOMAIN w : w[f] = IF f \in DOMAIN b /\ b[f] # Undefined THEN b[f] ELSE store[s][f]

LEMMA Merged ==
    ASSUME HistoryInv, SlotsInv, NEW i, NEW t, NEW args, NEW N, NEW s, Writes(i, t, args, N, s),
           lib[i].shape = "merge", NEW b, b = build(i, t, args), NEW w, w = Decorated(i, t, args)
    PROVE  Mixed(b, w, s)
<1>1. i \in DOMAIN lib /\ case \in Cases /\ s = Slot(i, t)
    BY DEF Ran, HistoryInv, Writes
<1>2. w = merge(i, t, args)
    BY <1>1, DecoratedIs
<1> DEFINE given == [f \in {n \in DOMAIN b : b[n] # Undefined} |-> b[f]]
<1>3. w = IF s \in DOMAIN store THEN With(store[s], given) ELSE given
    BY <1>1, <1>2 DEF merge, Kept
<1> QED BY <1>3 DEF With, Mixed

LEMMA MergeStays ==
    ASSUME HistoryInv, SlotsInv, MergeInv, NEW i, NEW t, NEW args, Ran(i, t, args)
    PROVE  MergeInv'
<1>0. PICK N, s : Writes(i, t, args, N, s)
    BY DEF Writes
<1>n. Len(applied) \in Nat /\ N = Len(applied) + 1
    BY <1>0, GrownApplied
<1> SUFFICES ASSUME NEW n \in DOMAIN applied', Alike(SlotOf(n), "merge")'
             PROVE  (/\ FieldsKept(SlotOf(n))
                     /\ \A m \in Wrote(SlotOf(n)) : \A f \in DOMAIN Built(m) : FieldKept(SlotOf(n), m, f))'
    BY DEF MergeInv, FieldsKept, FieldKept
<1>1. PICK r : r = SlotOf(n)'
    OBVIOUS
<1>2. Alike(r, "merge")'
    BY <1>1
<1>4. ASSUME r # s
      PROVE  FieldsKept(r)' /\ \A m \in Wrote(r)' : \A f \in DOMAIN Built(m)' : FieldKept(r, m, f)'
    <2>1. n \in DOMAIN applied /\ SlotOf(n) = r
        BY <1>0, <1>1, <1>4, Which
    <2>2. Wrote(r)' = Wrote(r)
        BY <1>0, <1>4, Elsewhere
    <2>3. Alike(r, "merge")
        <3>1. Alike(r, "merge")' <=> Alike(r, "merge")
            BY <1>0, <1>4, AlikeElsewhere
        <3> QED BY <1>2, <3>1
    <2>4. store'[r] = store[r]
        <3>1. r \in DOMAIN store
            BY <2>1 DEF SlotsInv
        <3> QED BY <1>0, <1>4, <3>1, Elsewhere
    <2>5. FieldsKept(r) /\ \A m \in Wrote(r) : \A f \in DOMAIN Built(m) : FieldKept(r, m, f)
        BY <2>1, <2>3, MergeIs
    <2>6. \A m \in Wrote(r) : Built(m)' = Built(m)
        BY <1>0, <1>4, Elsewhere
    <2>7. FieldsKept(r)'
        BY <2>2, <2>4, <2>5, <2>6 DEF FieldsKept
    <2>8. ASSUME NEW m \in Wrote(r)', NEW f \in DOMAIN Built(m)' PROVE FieldKept(r, m, f)'
        <3>1. m \in Wrote(r) /\ f \in DOMAIN Built(m)
            BY <2>2, <2>6, <2>8
        <3>2. FieldKept(r, m, f)
            BY <2>5, <3>1
        <3> QED BY <2>2, <2>4, <2>6, <3>1, <3>2 DEF FieldKept
    <2> QED BY <2>7, <2>8
<1>5. ASSUME r = s
      PROVE  FieldsKept(s)' /\ \A m \in Wrote(s)' : \A f \in DOMAIN Built(m)' : FieldKept(s, m, f)'
    <2>1. lib[i].shape = "merge" /\ Alike(s, "merge")
        BY <1>0, <1>2, <1>5, Here
    <2>2. Wrote(s)' = Wrote(s) \cup {N} /\ Wrote(s) \subseteq 1..Len(applied)
        BY <1>0, Here
    <2>3. PICK b, w : b = build(i, t, args) /\ w = Decorated(i, t, args)
        OBVIOUS
    <2>4. Built(N)' = b
        BY <1>0, <2>3, GrownHere
    <2>5. \A m \in Wrote(s) : Built(m)' = Built(m)
        BY <1>0, Here
    <2>6. store'[s] = w
        BY <1>0, <2>3, GrownStore
    <2>7. /\ DOMAIN w = {f \in DOMAIN b : b[f] # Undefined} \cup (IF s \in DOMAIN store THEN DOMAIN store[s] ELSE {})
          /\ \A f \in DOMAIN w : w[f] = IF f \in DOMAIN b /\ b[f] # Undefined THEN b[f] ELSE store[s][f]
        <3>1. Mixed(b, w, s)
            BY <1>0, <2>1, <2>3, Merged
        <3> QED BY <3>1 DEF Mixed
    <2>8. s \in DOMAIN store => /\ FieldsKept(s)
                                /\ \A m \in Wrote(s) : \A f \in DOMAIN Built(m) : FieldKept(s, m, f)
        <3>1. ASSUME s \in DOMAIN store PROVE \E l \in DOMAIN applied : SlotOf(l) = s
            BY <3>1 DEF SlotsInv
        <3> QED BY <2>1, <3>1, MergeIs
    <2>9. s \in DOMAIN store <=> Wrote(s) # {}
        BY <1>0, Here
    <2>10. FieldsKept(s)'
        BY <2>2, <2>4, <2>5, <2>6, <2>7, <2>8 DEF FieldsKept
    <2>11. ASSUME NEW m \in Wrote(s)', NEW f \in DOMAIN Built(m)',
                  Built(m)'[f] # Undefined, \A l \in Wrote(s)' : f \in DOMAIN Built(l)' => l <= m
           PROVE  f \in DOMAIN store'[s] /\ store'[s][f] = Built(m)'[f]
        <3>1. CASE m = N
            BY <2>4, <2>6, <2>7, <2>11, <3>1
        <3>2. CASE m # N
            <4>1. m \in Wrote(s) /\ Built(m)' = Built(m) /\ m \in 1..Len(applied)
                BY <2>2, <2>5, <2>11, <3>2
            <4>2. f \notin DOMAIN b
                <5>1. ~(N <= m)
                    BY <1>n, <4>1
                <5> QED BY <2>2, <2>4, <2>11, <5>1
            <4>3. FieldKept(s, m, f) /\ s \in DOMAIN store
                BY <2>8, <2>9, <2>11, <4>1
            <4>4. f \in DOMAIN store[s] /\ store[s][f] = Built(m)[f]
                BY <2>2, <2>5, <2>11, <4>1, <4>3 DEF FieldKept
            <4> QED BY <2>6, <2>7, <4>1, <4>2, <4>3, <4>4
        <3> QED BY <3>1, <3>2
    <2> QED BY <2>10, <2>11 DEF FieldKept
<1>6. FieldsKept(SlotOf(n))' = FieldsKept(r)' /\ Wrote(SlotOf(n))' = Wrote(r)'
    BY <1>1 DEF FieldsKept, Wrote
<1>7. \A m, f : FieldKept(SlotOf(n), m, f)' = FieldKept(r, m, f)'
    BY <1>1 DEF FieldKept, Wrote
<1> QED BY <1>4, <1>5, <1>6, <1>7

-----------------------------------------------------------------------------
(* Diagnostics.                                                                  *)

LEMMA LateGrows ==
    ASSUME HistoryInv, NEW x, reported' = Append(reported, x), NEW h, NEW id
    PROVE  /\ Len(reported) \in Nat /\ Late(h, id) \subseteq 1..Len(reported)
           /\ Late(h, id)' = IF x = <<"duplicate", h, id>> THEN Late(h, id) \cup {Len(reported) + 1} ELSE Late(h, id)
<1>1. reported \in Seq(ToSet(reported))
    BY DEF HistoryInv
<1>2. /\ Len(reported) \in Nat /\ DOMAIN reported = 1..Len(reported)
      /\ DOMAIN reported' = 1..(Len(reported) + 1) /\ reported'[Len(reported) + 1] = x
      /\ \A n \in 1..Len(reported) : reported'[n] = reported[n]
    BY <1>1, Appended
<1>3. PICK y : y = <<"duplicate", h, id>>
    OBVIOUS
<1>4. Late(h, id) = {n \in 1..Len(reported) : reported[n] = y}
    BY <1>2, <1>3 DEF Late
<1>5. Late(h, id)' = {n \in 1..(Len(reported) + 1) : reported'[n] = y}
    BY <1>2, <1>3 DEF Late
<1>6. 1..(Len(reported) + 1) = 1..Len(reported) \cup {Len(reported) + 1}
    BY <1>2
<1> QED BY <1>2, <1>3, <1>4, <1>5, <1>6

LEMMA ReportsStay ==
    ASSUME HistoryInv, SlotsInv, FirstInv, ReportsInv, NEW i, NEW t, NEW args, Ran(i, t, args)
    PROVE  ReportsInv'
<1>0. PICK N, s : Writes(i, t, args, N, s)
    BY DEF Writes
<1>i. i \in DOMAIN lib /\ case \in Cases /\ s = Slot(i, t)
    BY <1>0 DEF Ran, HistoryInv, Writes
<1>n. Len(applied) \in Nat /\ N = Len(applied) + 1
    BY <1>0, GrownApplied
<1>f. instances[i].factory = lib[i].shape
    BY <1>i, OfInstance
<1>e. lib[i].shape = "exclusive" => s = <<instances[i].handler, t.id>>
    <2> SUFFICES ASSUME lib[i].shape = "exclusive" PROVE s = <<instances[i].handler, t.id>>
        OBVIOUS
    <2>1. instances[i].place = lib[i].place /\ instances[i].handler = instances[i].key
        BY <1>i, OfInstance
    <2>2. lib[i].place = "type"
        <3>1. WellDescribed(lib[i])
            BY <1>i, OfCase
        <3> QED BY <3>1 DEF WellDescribed
    <2> QED BY <1>i, <2>1, <2>2 DEF Slot
<1>r. reported' = IF lib[i].shape = "exclusive" /\ Kept(s) # Undefined
                  THEN Append(reported, <<"duplicate", instances[i].handler, t.id>>) ELSE reported
    BY <1>i, <1>f DEF Ran, Run
<1> SUFFICES ASSUME NEW h, NEW id, Alike(<<h, id>>, "exclusive")'
             PROVE  Cardinality(Late(h, id))' =
                        IF Wrote(<<h, id>>)' = {} THEN 0 ELSE Cardinality(Wrote(<<h, id>>)') - 1
    BY DEF ReportsInv
<1>1. PICK r : r = <<h, id>>
    OBVIOUS
<1>4. CASE r # s
    <2>1. Wrote(r)' = Wrote(r)
        BY <1>0, <1>4, Elsewhere
    <2>2. Alike(r, "exclusive")
        <3>1. Alike(r, "exclusive")' <=> Alike(r, "exclusive")
            BY <1>0, <1>4, AlikeElsewhere
        <3> QED BY <1>1, <3>1
    <2>3. Late(h, id)' = Late(h, id)
        <3>1. CASE lib[i].shape = "exclusive" /\ Kept(s) # Undefined
            <4>1. PICK x : x = <<"duplicate", instances[i].handler, t.id>>
                OBVIOUS
            <4>2. x # <<"duplicate", h, id>>
                <5>1. ~(instances[i].handler = h /\ t.id = id)
                    BY <1>e, <1>1, <1>4, <3>1
                <5> QED BY <4>1, <5>1
            <4>3. reported' = Append(reported, x)
                BY <1>r, <3>1, <4>1
            <4> QED BY <4>2, <4>3, LateGrows
        <3>2. CASE ~(lib[i].shape = "exclusive" /\ Kept(s) # Undefined)
            <4>1. reported' = reported
                BY <1>r, <3>2
            <4> QED BY <4>1 DEF Late
        <3> QED BY <3>1, <3>2
    <2>4. Cardinality(Late(h, id)) = IF Wrote(r) = {} THEN 0 ELSE Cardinality(Wrote(r)) - 1
        BY <1>1, <2>2 DEF ReportsInv
    <2> QED BY <1>1, <2>1, <2>3, <2>4
<1>5. CASE r = s
    <2>1. lib[i].shape = "exclusive" /\ Alike(s, "exclusive")
        BY <1>0, <1>1, <1>5, Here
    <2>2. PICK W : W = Wrote(s)
        OBVIOUS
    <2>3. Wrote(s)' = W \cup {N} /\ W \subseteq 1..Len(applied)
        BY <1>0, <2>2, Here
    <2>4. Cardinality(W) \in Nat /\ Cardinality(W \cup {N}) = Cardinality(W) + 1 /\ (Cardinality(W) = 0 <=> W = {})
        BY <1>n, <2>3, Counted
    <2>5. h = instances[i].handler /\ id = t.id
        BY <1>e, <1>1, <1>5, <2>1
    <2>6. PICK L : L = Late(h, id)
        OBVIOUS
    <2>7. Cardinality(L) = IF W = {} THEN 0 ELSE Cardinality(W) - 1
        BY <1>1, <1>5, <2>1, <2>2, <2>6 DEF ReportsInv
    <2>8. CASE W = {}
        <3>1. s \notin DOMAIN store
            BY <1>0, <2>2, <2>8, Here
        <3>2. reported' = reported
            BY <1>r, <3>1 DEF Kept
        <3>3. Late(h, id)' = L
            BY <2>6, <3>2 DEF Late
        <3>4. Cardinality(Wrote(s)') = 1
            BY <2>3, <2>4, <2>8
        <3>5. Cardinality(L) = 0
            BY <2>7, <2>8
        <3>6. Wrote(s)' # {}
            BY <2>3
        <3> QED BY <1>1, <1>5, <3>3, <3>4, <3>5, <3>6
    <2>9. CASE W # {}
        <3>1. PICK l : l \in DOMAIN applied /\ SlotOf(l) = s
            BY <2>2, <2>9 DEF Wrote
        <3>2. store[s] = FirstValue(s)
            BY <2>1, <3>1 DEF FirstInv, FirstValue, FirstOn
        <3>3. FirstValue(s) # Undefined
            BY <2>1, <3>1, FirstValued
        <3>4. s \in DOMAIN store
            BY <1>0, <2>2, <2>9, Here
        <3>5. Kept(s) # Undefined
            BY <3>2, <3>3, <3>4 DEF Kept
        <3>6. PICK x : x = <<"duplicate", h, id>>
            OBVIOUS
        <3>7. reported' = Append(reported, x)
            BY <1>r, <2>1, <2>5, <3>5, <3>6
        <3>8. Len(reported) \in Nat /\ L \subseteq 1..Len(reported)
            BY <2>6, <3>7, LateGrows
        <3>9. Late(h, id)' = L \cup {Len(reported) + 1}
            BY <2>6, <3>6, <3>7, LateGrows
        <3>10. Cardinality(L \cup {Len(reported) + 1}) = Cardinality(L) + 1
            BY <3>8, Counted
        <3>11. Wrote(s)' # {} /\ Cardinality(Wrote(s)') = Cardinality(W) + 1
            BY <2>3, <2>4
        <3>12. Cardinality(L) = Cardinality(W) - 1
            BY <2>7, <2>9
        <3>13. Cardinality(Late(h, id))' = (Cardinality(W) - 1) + 1
            BY <3>9, <3>10, <3>12
        <3> QED BY <1>1, <1>5, <2>4, <3>11, <3>13
    <2> QED BY <2>8, <2>9
<1> QED BY <1>4, <1>5

-----------------------------------------------------------------------------
(* All of it.                                                                    *)

StoreInv == SlotsInv /\ LastInv /\ ListInv /\ FirstInv /\ MergeInv

LEMMA QuietSteps ==
    ASSUME HistoryInv, StoreInv, UNCHANGED <<case, store, applied>>
    PROVE  /\ StoreInv' /\ \A r : Wrote(r)' = Wrote(r)
           /\ \A r, shape : Alike(r, shape)' = Alike(r, shape)
<1>1. lib' = lib /\ instances' = instances /\ store' = store /\ applied' = applied /\ case' = case
    BY DEF lib, instances
<1>2. \A n : SlotOf(n)' = SlotOf(n) /\ ShapeOf(n)' = ShapeOf(n) /\ Built(n)' = Built(n)
    BY <1>1, Steady DEF SlotOf, ShapeOf, Built
<1>3. \A r : Wrote(r)' = Wrote(r)
    BY <1>1, <1>2 DEF Wrote
<1>4. \A r, shape : Alike(r, shape)' = Alike(r, shape)
    BY <1>2, <1>3 DEF Alike
<1>5. SlotsInv'
    BY <1>1, <1>2 DEF StoreInv, SlotsInv
<1>6. LastInv'
    <2>1. \A n : Newest(n)' = Newest(n)
        BY <1>2, <1>3 DEF Newest
    <2>2. \A j, u, args1 : valueDec(j, u, args1)' = valueDec(j, u, args1)
        BY <1>1, Steady DEF valueDec
    <2> QED BY <1>1, <1>2, <2>1, <2>2 DEF StoreInv, LastInv
<1>7. ListInv'
    <2>1. \A n : Told(n)' = Told(n)
        BY <1>2, <1>3 DEF Told
    <2> QED BY <1>1, <1>2, <1>4, <2>1 DEF StoreInv, ListInv
<1>8. FirstInv'
    BY <1>1, <1>2, <1>3, <1>4 DEF StoreInv, FirstInv
<1>9. MergeInv'
    BY <1>1, <1>2, <1>3, <1>4 DEF StoreInv, MergeInv
<1> QED BY <1>3, <1>4, <1>5, <1>6, <1>7, <1>8, <1>9 DEF StoreInv

LEMMA ReportsKept ==
    ASSUME HistoryInv, StoreInv, ReportsInv, UNCHANGED <<case, store, applied>>,
           \A h, id : Late(h, id)' = Late(h, id)
    PROVE  ReportsInv'
<1>1. \A r : Wrote(r)' = Wrote(r)
    BY QuietSteps
<1>2. \A r, shape : Alike(r, shape)' = Alike(r, shape)
    BY QuietSteps
<1> QED BY <1>1, <1>2 DEF ReportsInv

LEMMA AllStays == HistoryInv /\ StoreInv /\ ReportsInv /\ [Next]_vars => StoreInv' /\ ReportsInv'
<1> SUFFICES ASSUME HistoryInv, StoreInv, ReportsInv, [Next]_vars PROVE StoreInv' /\ ReportsInv'
    OBVIOUS
<1>1. CASE UNCHANGED vars
    <2>1. UNCHANGED <<case, store, applied>> /\ reported' = reported
        BY <1>1 DEF vars
    <2>2. \A h, id : Late(h, id)' = Late(h, id)
        BY <2>1 DEF Late
    <2>3. StoreInv'
        BY <2>1, QuietSteps
    <2>4. ReportsInv'
        BY <2>1, <2>2, ReportsKept
    <2> QED BY <2>3, <2>4
<1>2. ASSUME NEW t, Refused(t) PROVE StoreInv' /\ ReportsInv'
    <2>1. UNCHANGED <<case, store, applied>>
        BY <1>2 DEF Refused
    <2>2. ASSUME NEW h, NEW id PROVE Late(h, id)' = Late(h, id)
        <3>1. PICK x : x = <<"invalid", "intern", t.id>>
            OBVIOUS
        <3>2. x # <<"duplicate", h, id>>
            BY <3>1
        <3>3. reported' = Append(reported, x)
            BY <1>2, <3>1 DEF Refused
        <3> QED BY <3>2, <3>3, LateGrows
    <2>3. StoreInv'
        BY <2>1, QuietSteps
    <2>4. ReportsInv'
        BY <2>1, <2>2, ReportsKept
    <2> QED BY <2>3, <2>4
<1>3. ASSUME NEW i, NEW t, NEW args, Ran(i, t, args) PROVE StoreInv' /\ ReportsInv'
    <2>1. SlotsInv'
        BY <1>3, SlotsStay DEF StoreInv
    <2>2. LastInv'
        BY <1>3, LastStays DEF StoreInv
    <2>3. ListInv'
        BY <1>3, ListsStay DEF StoreInv
    <2>4. FirstInv'
        BY <1>3, FirstStays DEF StoreInv
    <2>5. MergeInv'
        BY <1>3, MergeStays DEF StoreInv
    <2>6. ReportsInv'
        BY <1>3, ReportsStay DEF StoreInv
    <2> QED BY <2>1, <2>2, <2>3, <2>4, <2>5, <2>6 DEF StoreInv
<1> QED BY <1>1, <1>2, <1>3, StepIs

LEMMA AllStarts == Init => HistoryInv /\ StoreInv /\ ReportsInv
<1> SUFFICES ASSUME Init PROVE HistoryInv /\ StoreInv /\ ReportsInv
    OBVIOUS
<1>1. case \in Cases /\ store = <<>> /\ reported = <<>> /\ applied = <<>>
    BY DEF Init
<1>2. DOMAIN applied = {} /\ DOMAIN reported = {} /\ DOMAIN store = {}
    BY <1>1
<1>3. \A r : Wrote(r) = {}
    BY <1>2 DEF Wrote
<1>4. HistoryInv
    <2>1. <<>> \in Seq(ToSet(<<>>))
        OBVIOUS
    <2> QED BY <1>1, <1>2, <2>1 DEF HistoryInv
<1>5. StoreInv
    BY <1>2 DEF StoreInv, SlotsInv, LastInv, ListInv, FirstInv, MergeInv
<1>6. ReportsInv
    <2>1. \A h, id : Late(h, id) = {}
        BY <1>2 DEF Late
    <2>2. Cardinality({}) = 0
        BY FS_EmptySet
    <2> QED BY <1>3, <2>1, <2>2 DEF ReportsInv
<1> QED BY <1>4, <1>5, <1>6

(* What has been applied, what the state maps hold and what has been reported fit     *)
(* together: the inductive invariant behind what accessors tell.                      *)
THEOREM StateTold == Spec => [](HistoryInv /\ StoreInv /\ ReportsInv)
<1>1. HistoryInv /\ StoreInv /\ ReportsInv /\ [Next]_vars => (HistoryInv /\ StoreInv /\ ReportsInv)'
    BY HistoryStays, AllStays
<1> QED BY <1>1, AllStarts, PTL DEF Spec

(* Applications are of decorators of the library to types of the program, and the    *)
(* state maps hold facts under a key and a type or a name.                            *)
THEOREM DecoratorsTypeCorrect == Spec => []TypeOK
<1>1. HistoryInv /\ StoreInv => TypeOK
    <2> SUFFICES ASSUME HistoryInv, StoreInv PROVE TypeOK
        OBVIOUS
    <2>1. \A slot \in DOMAIN store : Len(slot) = 2
        BY DEF StoreInv, SlotsInv, SlotOf, Slot
    <2> QED BY <2>1 DEF TypeOK, HistoryInv, Sound
<1> QED BY <1>1, StateTold, PTL

-----------------------------------------------------------------------------
(* Accessors.                                                                    *)

\* The first of the decorators of an exclusive key is one of the library.
LEMMA OfFirst ==
    ASSUME case \in Cases, NEW key \in exclusiveKeys(lib)
    PROVE  FirstOf(lib, key) \in DOMAIN lib /\ lib[FirstOf(lib, key)].shape = "exclusive"
<1> DEFINE T == {i \in DOMAIN lib : lib[i].shape = "exclusive" /\ lib[i].exclusiveKey = key}
<1>1. DOMAIN lib = 1..Len(lib) /\ Len(lib) \in Nat
    BY OfCase
<1>2. T \subseteq Nat /\ T # {}
    <2>1. PICK d \in ToSet(lib) : d.shape = "exclusive" /\ d.exclusiveKey = key
        BY DEF exclusiveKeys
    <2>2. PICK i \in DOMAIN lib : lib[i] = d
        BY <2>1 DEF ToSet
    <2> QED BY <1>1, <2>1, <2>2
<1>3. PICK i \in T : \A j \in T : i <= j
    <2> HIDE DEF T
    <2> QED BY <1>2, Least
<1>4. \A j \in 1..(i - 1) : lib[j].shape = "exclusive" => lib[j].exclusiveKey # key
    <2> SUFFICES ASSUME NEW j \in 1..(i - 1), lib[j].shape = "exclusive", lib[j].exclusiveKey = key PROVE FALSE
        OBVIOUS
    <2>1. i \in 1..Len(lib)
        BY <1>1
    <2>2. j \in DOMAIN lib /\ ~(i <= j)
        BY <1>1, <2>1
    <2> QED BY <1>3, <2>2
<1>5. i \in DOMAIN lib /\ lib[i].shape = "exclusive" /\ lib[i].exclusiveKey = key
    OBVIOUS
<1> QED BY <1>4, <1>5 DEF FirstOf

\* Accessors of decorators: of flags, of others.
LEMMA OfExports ==
    ASSUME case \in Cases, NEW a \in generateExports(lib) \cup accessors(lib)
    PROVE  a.of \in DOMAIN lib /\ a.kind \in {"is", "has", "get"}
<1>1. CASE a \in generateExports(lib)
    <2>1. PICK i \in DOMAIN lib : a \in {Accessor("is", lib[i].name, i), Accessor("get", lib[i].name, i), Accessor("has", lib[i].name, i)}
        BY <1>1 DEF generateExports
    <2> QED BY <2>1 DEF Accessor
<1>2. CASE a \in accessors(lib)
    <2>1. PICK i \in DOMAIN lib : a \in {Accessor("is", lib[i].name, i)} \cup {Accessor(kind, lib[i].name, i) : kind \in {"get", "has"}}
        BY <1>2 DEF accessors
    <2> QED BY <2>1 DEF Accessor
<1> QED BY <1>1, <1>2

LEMMA OfGetters ==
    ASSUME case \in Cases, NEW a \in generateExclusiveGetters(lib) \cup TsExclusiveGetters(lib)
    PROVE  a.of \in DOMAIN lib /\ a.kind = "get" /\ lib[a.of].shape = "exclusive"
<1>1. PICK key \in exclusiveKeys(lib) : a = Accessor("get", key, FirstOf(lib, key))
    BY DEF generateExclusiveGetters, TsExclusiveGetters
<1>2. a.of = FirstOf(lib, key) /\ a.kind = "get"
    BY <1>1 DEF Accessor
<1> QED BY <1>2, OfFirst

\* The fields of what is merged, by hand.
Fields == UNION {{Accessor("field", f.name, i) : f \in ToSet(FieldsOf(lib[i]) \o lib[i].adds)} :
                 i \in {j \in DOMAIN lib : lib[j].shape = "merge"}}

LEMMA OfFields ==
    ASSUME case \in Cases
    PROVE  /\ \A a \in Fields : /\ a.kind = "field" /\ a.of \in DOMAIN lib /\ lib[a.of].shape = "merge"
                                /\ \E f \in AllFields(lib[a.of]) : f.name = a.name
           /\ case.out = ByHand(lib) => \A i \in DOMAIN lib : lib[i].shape = "merge" =>
                  \A f \in AllFields(lib[i]) : Accessor("field", f.name, i) \in Fields
<1>1. ASSUME NEW i \in DOMAIN lib
      PROVE  ToSet(FieldsOf(lib[i]) \o lib[i].adds) = ToSet(FieldsOf(lib[i])) \cup ToSet(lib[i].adds)
    <2>1. lib[i].params \in Seq(ToSet(lib[i].params)) /\ lib[i].adds \in Seq(ToSet(lib[i].adds))
        BY OfCase DEF WellDescribed
    <2>2. DOMAIN lib[i].params = 1..Len(lib[i].params) /\ Len(lib[i].params) \in Nat
        BY <2>1
    <2> DEFINE s == FieldsOf(lib[i])
    <2>3. s \in [1..Len(lib[i].params) -> ToSet(s)]
        BY <2>2 DEF ToSet, FieldsOf
    <2> HIDE DEF s
    <2>4. s \in Seq(ToSet(s))
        BY <2>2, <2>3
    <2> QED BY <2>1, <2>4, ToSetBoth DEF s
<1>2. ASSUME NEW a \in Fields
      PROVE  /\ a.kind = "field" /\ a.of \in DOMAIN lib /\ lib[a.of].shape = "merge"
             /\ \E f \in AllFields(lib[a.of]) : f.name = a.name
    <2>1. PICK i \in DOMAIN lib : /\ lib[i].shape = "merge"
                                  /\ \E f \in ToSet(FieldsOf(lib[i]) \o lib[i].adds) : a = Accessor("field", f.name, i)
        BY DEF Fields
    <2>2. PICK f \in ToSet(FieldsOf(lib[i]) \o lib[i].adds) : a = Accessor("field", f.name, i)
        BY <2>1
    <2>3. a.kind = "field" /\ a.of = i /\ a.name = f.name
        BY <2>2 DEF Accessor
    <2>4. f \in AllFields(lib[i])
        BY <1>1, <2>2 DEF AllFields
    <2> QED BY <2>1, <2>3, <2>4
<1>3. ASSUME case.out = ByHand(lib), NEW i \in DOMAIN lib, lib[i].shape = "merge", NEW f \in AllFields(lib[i])
      PROVE  Accessor("field", f.name, i) \in Fields
    <2>1. lib[i].options = <<>>
        BY <1>3, OfCase
    <2>2. OptionFields(lib[i]) = {}
        BY <2>1 DEF OptionFields
    <2>3. f \in ToSet(FieldsOf(lib[i]) \o lib[i].adds)
        BY <1>1, <2>2 DEF AllFields
    <2> QED BY <1>3, <2>3 DEF Fields
<1> QED BY <1>2, <1>3

LEMMA OfAccessor ==
    ASSUME case \in Cases, NEW a \in case.out.accessors
    PROVE  /\ a.of \in DOMAIN lib /\ a.kind \in {"is", "has", "get", "field"}
           /\ a.kind = "field" <=> lib[a.of].shape = "merge"
           /\ a.kind = "field" => \E f \in AllFields(lib[a.of]) : f.name = a.name
<1>1. generateTs(lib).accessors = generateExports(lib) \cup generateExclusiveGetters(lib)
    BY DEF generateTs
<1>2. TsFile(lib).accessors = accessors(lib) \cup TsExclusiveGetters(lib)
    BY DEF TsFile
<1>3. CASE case.out = ByHand(lib)
    <2>1. ByHand(lib).accessors =
              {b \in generateTs(lib).accessors : b.of \notin {j \in DOMAIN lib : lib[j].shape = "merge"}} \cup Fields
        BY DEF ByHand, Fields, generateTs
    <2>2. a \in Fields \/ /\ a \in generateExports(lib) \cup generateExclusiveGetters(lib)
                          /\ a.of \notin {j \in DOMAIN lib : lib[j].shape = "merge"}
        BY <1>1, <1>3, <2>1
    <2>3. CASE a \in Fields
        BY <2>3, OfFields
    <2>4. CASE a \notin Fields
        <3>1. a.of \in DOMAIN lib /\ a.kind \in {"is", "has", "get"}
            BY <2>2, <2>4, OfExports, OfGetters
        <3> QED BY <2>2, <2>4, <3>1
    <2> QED BY <2>3, <2>4
<1>4. CASE /\ case.out = generateTs(lib) \/ case.out = TsFile(lib)
           /\ \A i \in DOMAIN lib : lib[i].shape # "merge"
    <2>1. \/ a \in generateExports(lib) \cup accessors(lib)
          \/ a \in generateExclusiveGetters(lib) \cup TsExclusiveGetters(lib)
        BY <1>1, <1>2, <1>4
    <2>2. a.of \in DOMAIN lib /\ a.kind \in {"is", "has", "get"}
        BY <2>1, OfExports, OfGetters
    <2> QED BY <1>4, <2>2
<1> QED BY <1>3, <1>4, OfCase

\* A library that builds has no field of a merged record twice.
LEMMA FieldOnce ==
    ASSUME case \in Cases, case.max > 0, NEW i \in DOMAIN lib, NEW j \in DOMAIN lib,
           lib[i].shape = "merge", lib[j].shape = "merge",
           NEW f \in AllFields(lib[i]), NEW g \in AllFields(lib[j]), f.name = g.name
    PROVE  i = j
<1>1. case.out = ByHand(lib)
    BY OfCase
<1>2. Accessor("field", f.name, i) \in Fields /\ Accessor("field", g.name, j) \in Fields
    BY <1>1, OfFields
<1>3. Fields \subseteq case.out.accessors
    BY <1>1 DEF ByHand, Fields, generateTs
<1>4. \A a, b \in case.out.accessors : a.kind = b.kind /\ a.name = b.name => a = b
    BY OfCase DEF Builds
<1>5. PICK a, b : a = Accessor("field", f.name, i) /\ b = Accessor("field", g.name, j)
    OBVIOUS
<1>6. a.kind = "field" /\ a.name = f.name /\ a.of = i /\ b.kind = "field" /\ b.name = g.name /\ b.of = j
    BY <1>5 DEF Accessor
<1> QED BY <1>2, <1>3, <1>4, <1>5, <1>6

-----------------------------------------------------------------------------
(* What an accessor reads is what the applications it is for have written.       *)

Reads(a, t) == <<instances[a.of].key, IF instances[a.of].place = "type" THEN t.id ELSE t.name>>

\* Decorators that share a key have the shape, the place and the key of their own in common.
Unshared(i) == \A j \in DOMAIN lib : KeyOf(lib[j]) = KeyOf(lib[i]) =>
    lib[j].shape = lib[i].shape /\ lib[j].place = lib[i].place /\ lib[j].exclusiveKey = lib[i].exclusiveKey

LEMMA Clear ==
    ASSUME NEW i, NEW t, ~Muddled(i, t)
    PROVE  /\ Unshared(i) /\ KeysKept
           /\ \A j \in Together(i) : ~OnlyFirst(j)
           /\ lib[i].place # "type" => ~SameName(t)
           /\ lib[i].place = "node" => ~Copies(t)
<1>1. Unshared(i)
    <2> SUFFICES ASSUME NEW j \in DOMAIN lib, KeyOf(lib[j]) = KeyOf(lib[i])
                 PROVE  /\ lib[j].shape = lib[i].shape /\ lib[j].place = lib[i].place
                        /\ lib[j].exclusiveKey = lib[i].exclusiveKey
        BY DEF Unshared
    <2>1. ~SharedKey(i)
        BY DEF Muddled
    <2>2. \A part \in {"shape", "place", "exclusiveKey"} : lib[j][part] = lib[i][part]
        BY <2>1 DEF SharedKey, KeyOf
    <2>3. lib[j]["shape"] = lib[i]["shape"]
        BY <2>2
    <2>4. lib[j]["place"] = lib[i]["place"]
        BY <2>2
    <2>5. lib[j]["exclusiveKey"] = lib[i]["exclusiveKey"]
        BY <2>2
    <2> QED BY <2>3, <2>4, <2>5
<1> QED BY <1>1 DEF Muddled, KeysKept

\* The same property, or the properties of the model, for facts kept by name.
For(i, u, t) == IF lib[i].place = "node" THEN u.owner = t.id ELSE u = t

LEMMA SameType ==
    ASSUME HistoryInv, NEW n \in DOMAIN applied, NEW a \in case.out.accessors, NEW t \in Targets(a),
           ~Muddled(a.of, t), KeyOf(lib[applied[n].of]) = KeyOf(lib[a.of])
    PROVE  SlotOf(n) = Reads(a, t) <=> For(a.of, applied[n].target, t)
<1>1. PICK i, j, u : i = a.of /\ j = applied[n].of /\ u = applied[n].target
    OBVIOUS
<1>2. case \in Cases /\ i \in DOMAIN lib /\ j \in DOMAIN lib
    <2>1. case \in Cases /\ j \in DOMAIN lib
        BY <1>1 DEF HistoryInv, Sound
    <2> QED BY <1>1, <2>1, OfAccessor
<1>3. u \in Types /\ u.kind \in lib[j].targets /\ CopiedLater(u)
    BY <1>1 DEF HistoryInv, Sound
<1>4. /\ lib[j].place = lib[i].place /\ KeysKept
      /\ lib[i].place # "type" => ~SameName(t)
      /\ lib[i].place = "node" => ~Copies(t)
    BY <1>1, <1>2, Clear DEF Unshared
<1>5. instances[i].key = instances[j].key /\ instances[i].place = lib[i].place /\ instances[j].place = lib[i].place
    BY <1>1, <1>2, <1>4, OfInstance
<1>6. WellDescribed(lib[i]) /\ WellDescribed(lib[j])
    BY <1>2, OfCase
<1>7. t \in Types /\ IF lib[i].place = "node" THEN t.kind = "Model" ELSE t.kind \in lib[i].targets
    BY <1>1, <1>5 DEF Targets
<1>8. SlotOf(n) = <<instances[i].key, CASE lib[i].place = "type" -> u.id
                                      [] lib[i].place = "name" -> u.name
                                      [] lib[i].place = "node" -> u.node>>
    BY <1>1, <1>5 DEF SlotOf, Slot
<1>9. Reads(a, t) = <<instances[i].key, IF lib[i].place = "type" THEN t.id ELSE t.name>>
    BY <1>1, <1>5 DEF Reads
<1>10. CASE lib[i].place = "type"
    <2>1. SlotOf(n) = Reads(a, t) <=> u.id = t.id
        BY <1>8, <1>9, <1>10
    <2>2. u.id = t.id <=> u = t
        BY <1>3, <1>7, DecoratorsAssumption DEF TypesAssumption
    <2> QED BY <1>1, <1>10, <2>1, <2>2 DEF For
<1>11. CASE lib[i].place = "name"
    <2>1. SlotOf(n) = Reads(a, t) <=> u.name = t.name
        BY <1>8, <1>9, <1>11
    <2>2. u.kind = "Model" /\ t.kind = "Model"
        BY <1>3, <1>4, <1>6, <1>7, <1>11 DEF WellDescribed
    <2>3. u.name = t.name <=> u = t
        BY <1>3, <1>4, <1>11, <2>2 DEF SameName
    <2> QED BY <1>1, <1>11, <2>1, <2>3 DEF For
<1>12. CASE lib[i].place = "node"
    <2>1. SlotOf(n) = Reads(a, t) <=> u.node = t.name
        BY <1>8, <1>9, <1>12
    <2>2. u.kind = "ModelProperty" /\ t.kind = "Model"
        BY <1>3, <1>4, <1>6, <1>7, <1>12 DEF WellDescribed
    <2>3. \A m \in Types : m.kind = "Model" /\ m.name = t.name => m = t
        BY <1>4, <1>12, <2>2 DEF SameName
    <2>4. \A m \in Types : m.id = t.id => m = t
        BY <1>7, DecoratorsAssumption DEF TypesAssumption
    <2>5. u.node = t.name <=> u.owner = t.id
        <3>1. CASE u.copy = ""
            <4>1. PICK m \in Types : m.kind = "Model" /\ m.id = u.owner /\ m.name = u.node
                BY <1>3, <2>2, <3>1, DecoratorsAssumption DEF TypesAssumption
            <4> QED BY <2>3, <2>4, <4>1
        <3>2. CASE u.copy # ""
            <4>1. PICK o \in Types : o.id = u.copy /\ o.copy = "" /\ o.node = u.node /\ o.kind = "ModelProperty"
                BY <1>3, <3>2, DecoratorsAssumption DEF TypesAssumption
            <4>2. PICK m \in Types : m.kind = "Model" /\ m.id = o.owner /\ m.name = o.node
                BY <4>1, DecoratorsAssumption DEF TypesAssumption
            <4>3. On(o) # {}
                <5>1. PICK p \in Types : p.id = u.copy /\ On(p) # {}
                    BY <1>3, <3>2 DEF CopiedLater
                <5>2. p = o
                    <6>1. \A q, r \in Types : q.id = r.id => q = r
                        BY DecoratorsAssumption DEF TypesAssumption
                    <6> QED BY <4>1, <5>1, <6>1
                <5> QED BY <5>1, <5>2
            <4>4. t.id # u.owner /\ t.id # o.owner
                BY <1>3, <1>4, <1>12, <4>1, <4>3 DEF Copies
            <4> QED BY <2>3, <4>1, <4>2, <4>4
        <3> QED BY <3>1, <3>2
    <2> QED BY <1>1, <1>12, <2>1, <2>5 DEF For
<1> QED BY <1>6, <1>10, <1>11, <1>12 DEF WellDescribed

\* What is written there is written by decorators of the same key.
LEMMA SameKey ==
    ASSUME HistoryInv, NEW n \in DOMAIN applied, NEW a \in case.out.accessors, NEW t, KeysKept,
           SlotOf(n) = Reads(a, t)
    PROVE  KeyOf(lib[applied[n].of]) = KeyOf(lib[a.of])
<1>1. PICK i, j, u : i = a.of /\ j = applied[n].of /\ u = applied[n].target
    OBVIOUS
<1>2. case \in Cases /\ i \in DOMAIN lib /\ j \in DOMAIN lib
    <2>1. case \in Cases /\ j \in DOMAIN lib
        BY <1>1 DEF HistoryInv, Sound
    <2> QED BY <1>1, <2>1, OfAccessor
<1>3. instances[j].key = instances[i].key
    BY <1>1 DEF SlotOf, Slot, Reads
<1> QED BY <1>1, <1>2, <1>3, OfInstance

\* Those that belong together are those of the same key.
LEMMA TogetherIs ==
    ASSUME case \in Cases, case.max > 0, NEW i \in DOMAIN lib, NEW j \in DOMAIN lib, Unshared(i)
    PROVE  /\ j \in Together(i) => KeyOf(lib[j]) = KeyOf(lib[i])
           /\ lib[i].shape # "merge" /\ KeyOf(lib[j]) = KeyOf(lib[i]) => j \in Together(i)
<1>1. \A k, l \in DOMAIN lib : lib[k].name = lib[l].name => k = l
    BY OfCase DEF Builds
<1>2. j \in Together(i) => KeyOf(lib[j]) = KeyOf(lib[i])
    BY DEF Together, KeyOf
<1>3. ASSUME lib[i].shape # "merge", KeyOf(lib[j]) = KeyOf(lib[i]) PROVE j \in Together(i)
    <2>1. lib[j].exclusiveKey = lib[i].exclusiveKey
        BY <1>3 DEF Unshared
    <2>2. CASE lib[i].exclusiveKey = ""
        <3>1. j = i
            BY <1>1, <1>3, <2>1, <2>2 DEF KeyOf
        <3> QED BY <2>2, <3>1 DEF Together
    <2>3. CASE lib[i].exclusiveKey # ""
        BY <1>3, <2>1, <2>3 DEF Together
    <2> QED BY <2>2, <2>3
<1> QED BY <1>2, <1>3

LEMMA AboutIs ==
    ASSUME HistoryInv, NEW a \in case.out.accessors, NEW t \in Targets(a), ~Muddled(a.of, t)
    PROVE  /\ lib[a.of].shape # "merge" => About(a.of, t) = Wrote(Reads(a, t))
           /\ lib[a.of].shape = "merge" => About(a.of, t) = {n \in Wrote(Reads(a, t)) : applied[n].of = a.of}
           /\ Alike(Reads(a, t), lib[a.of].shape)
           /\ \A n \in Wrote(Reads(a, t)) : lib[a.of].shape # "merge" => applied[n].of \in Together(a.of)
<1>1. case \in Cases /\ a.of \in DOMAIN lib
    BY OfAccessor DEF HistoryInv
<1>2. Unshared(a.of) /\ KeysKept
    BY Clear
<1>3. ASSUME NEW n \in DOMAIN applied
      PROVE  /\ applied[n].of \in DOMAIN lib /\ case.max > 0
             /\ SlotOf(n) = Reads(a, t) <=> KeyOf(lib[applied[n].of]) = KeyOf(lib[a.of]) /\ For(a.of, applied[n].target, t)
    <2>1. applied[n].of \in DOMAIN lib /\ case.max > 0
        <3>1. applied # <<>>
            OBVIOUS
        <3> QED BY <3>1 DEF HistoryInv, Sound
    <2> QED BY <1>2, <2>1, SameKey, SameType
<1>4. \A n \in Wrote(Reads(a, t)) : n \in DOMAIN applied /\ KeyOf(lib[applied[n].of]) = KeyOf(lib[a.of])
    BY <1>3 DEF Wrote
<1>5. Alike(Reads(a, t), lib[a.of].shape)
    BY <1>2, <1>3, <1>4 DEF Alike, ShapeOf, Unshared
<1>6. ASSUME lib[a.of].shape # "merge", NEW n \in DOMAIN applied
      PROVE  applied[n].of \in Together(a.of) <=> KeyOf(lib[applied[n].of]) = KeyOf(lib[a.of])
    BY <1>1, <1>2, <1>3, <1>6, TogetherIs
<1>7. lib[a.of].shape # "merge" => About(a.of, t) = Wrote(Reads(a, t))
    BY <1>3, <1>6 DEF About, Wrote, For
<1>8. lib[a.of].shape = "merge" => About(a.of, t) = {n \in Wrote(Reads(a, t)) : applied[n].of = a.of}
    BY <1>3 DEF About, Wrote, For, Together
<1> QED BY <1>4, <1>5, <1>6, <1>7, <1>8

-----------------------------------------------------------------------------
(* What is read is what was said.                                                *)

\* What an application wrote is what it says.
LEMMA SaidIs ==
    ASSUME HistoryInv, NEW n \in DOMAIN applied
    PROVE  /\ ShapeOf(n) = "flag" => Said(applied[n]) = "true"
           /\ ShapeOf(n) = "value" /\ ~OnlyFirst(applied[n].of) => Said(applied[n]) = Valued(n)
           /\ ShapeOf(n) \in {"object", "list", "merge"} => Said(applied[n]) = Built(n)
           /\ ShapeOf(n) = "exclusive" => Said(applied[n]) = instances[applied[n].of].value
<1>1. PICK j, u, args : j = applied[n].of /\ u = applied[n].target /\ args = applied[n].args
    OBVIOUS
<1>2. case \in Cases /\ case.max > 0 /\ j \in DOMAIN lib /\ args \in ArgumentsOf(lib[j])
    <2>1. applied # <<>>
        OBVIOUS
    <2> QED BY <1>1, <2>1 DEF HistoryInv, Sound
<1>3. Said(applied[n]) = Said([of |-> j, target |-> u, args |-> args])
    BY <1>1 DEF Said
<1>4. ShapeOf(n) = lib[j].shape /\ Built(n) = build(j, u, args) /\ Valued(n) = valueDec(j, u, args)
    BY <1>1 DEF ShapeOf, Built, Valued
<1>5. lib[j].shape = "flag" => Said(applied[n]) = "true"
    BY <1>1 DEF Said
<1>6. ASSUME lib[j].shape = "value", ~OnlyFirst(j) PROVE Said(applied[n]) = Valued(n)
    <2>1. Len(lib[j].params) = 1 /\ lib[j].options = <<>>
        BY <1>6 DEF OnlyFirst
    <2>2. lib[j].params \in Seq(ToSet(lib[j].params)) /\ lib[j].options \in Seq(ToSet(lib[j].options))
        BY <1>2, OfCase DEF WellDescribed
    <2>3. lib[j].params \o lib[j].options = lib[j].params
        BY <2>1, <2>2
    <2>4. 1 \in DOMAIN lib[j].params
        BY <2>1, <2>2
    <2>5. 1 \in DOMAIN Arguments(j, args) /\ Arguments(j, args)[1] = args.given[lib[j].params[1].name]
        BY <1>2, <2>4, OfArguments
    <2>6. lib[j].params[1].name \in DOMAIN args.given
        <3>1. DOMAIN args.given = Names(lib[j].params)
            BY <1>2, OfArguments
        <3> QED BY <2>4, <3>1 DEF Names
    <2>7. Said(applied[n]) = args.given[lib[j].params[1].name]
        BY <1>1, <1>6, <2>1, <2>3, <2>6 DEF Said
    <2>8. Arguments(j, args) # <<>>
        BY <2>5
    <2> QED BY <1>4, <2>5, <2>7, <2>8 DEF valueDec
<1>7. lib[j].shape \in {"object", "list", "merge"} => Said(applied[n]) = Built(n)
    BY <1>2, <1>3, <1>4, BuiltIsSaid
<1>8. ASSUME lib[j].shape = "exclusive" PROVE Said(applied[n]) = instances[j].value
    <2>1. Said(applied[n]) = Value(lib[j])
        BY <1>1, <1>8 DEF Said
    <2> QED BY <1>2, <1>8, <2>1, OfInstance
<1> QED BY <1>1, <1>4, <1>5, <1>6, <1>7, <1>8

\* What the applications at the positions of W say, in their order.
SaidOn(W) == [k \in DOMAIN InOrder(W) |-> Said(applied[InOrder(W)[k]])]

LEMMA SaidEnds ==
    ASSUME HistoryInv, NEW W, W \subseteq DOMAIN applied, W # {}
    PROVE  /\ Cardinality(W) \in Nat \ {0} /\ SaidOn(W) = [k \in 1..Cardinality(W) |-> Said(applied[InOrder(W)[k]])]
           /\ \A k \in 1..Cardinality(W) : InOrder(W)[k] \in W
           /\ Head(SaidOn(W)) = Said(applied[InOrder(W)[1]])
           /\ \E m \in W : (\A l \in W : l <= m) /\ Last(SaidOn(W)) = Said(applied[m])
<1>1. Len(applied) \in Nat /\ DOMAIN applied = 1..Len(applied) /\ W \subseteq 1..Len(applied)
    BY DEF HistoryInv
<1>2. Cardinality(W) \in Nat \ {0}
    BY <1>1, Counted
<1>3. \A k \in 1..Cardinality(W) : InOrder(W)[k] \in W
    BY <1>1, OrderWithin DEF Within
<1>4. PICK c : c = Cardinality(W)
    OBVIOUS
<1>5. DOMAIN InOrder(W) = 1..c
    BY <1>4 DEF InOrder
<1>6. PICK q : q = SaidOn(W)
    OBVIOUS
<1>7. q = [k \in 1..c |-> Said(applied[InOrder(W)[k]])]
    BY <1>5, <1>6 DEF SaidOn
<1>8. Len(q) = c /\ DOMAIN q = 1..c /\ q[1] = Said(applied[InOrder(W)[1]])
    <2>1. 1 \in 1..c /\ c \in Nat
        BY <1>2, <1>4
    <2>2. DOMAIN q = 1..c /\ q[1] = Said(applied[InOrder(W)[1]]) /\ q = [k \in 1..c |-> q[k]]
        BY <1>7, <2>1
    <2> QED BY <2>1, <2>2
<1>9. Head(q) = Said(applied[InOrder(W)[1]])
    BY <1>8
<1>10. PICK m \in W : \A l \in W : l <= m
    <2> DEFINE T == {Len(applied) - n : n \in W}
    <2>1. T \subseteq Nat /\ T # {}
        BY <1>1
    <2>2. PICK x \in T : \A y \in T : x <= y
        <3> HIDE DEF T
        <3> QED BY <2>1, Least
    <2>3. PICK m \in W : x = Len(applied) - m
        OBVIOUS
    <2>4. ASSUME NEW l \in W PROVE l <= m
        <3>1. Len(applied) - m <= Len(applied) - l
            BY <2>2, <2>3
        <3>2. l \in Nat /\ m \in Nat
            BY <1>1
        <3> QED BY <1>1, <3>1, <3>2
    <2> QED BY <2>4
<1>11. InOrder(W)[c] = m
    BY <1>1, <1>4, <1>10, OrderEnds
<1>12. Last(q) = Said(applied[m])
    <2>1. c \in 1..c
        BY <1>2, <1>4
    <2>2. q[c] = Said(applied[InOrder(W)[c]])
        BY <1>7, <2>1
    <2> QED BY <1>8, <1>11, <2>2 DEF Last
<1> QED BY <1>2, <1>3, <1>4, <1>6, <1>7, <1>9, <1>10, <1>12

\* A slot nobody wrote, and one somebody did.
LEMMA Stored ==
    ASSUME SlotsInv, NEW r
    PROVE  r \in DOMAIN store <=> Wrote(r) # {}
    BY DEF SlotsInv, Wrote

LEMMA ReturnedIs ==
    ASSUME NEW a, NEW t
    PROVE  /\ a.kind \in {"is", "has"} => Returned(a, t) = (Reads(a, t) \in DOMAIN store)
           /\ a.kind = "get" => Returned(a, t) = IF Reads(a, t) \in DOMAIN store THEN store[Reads(a, t)] ELSE Undefined
           /\ a.kind = "field" /\ Reads(a, t) \notin DOMAIN store => Returned(a, t) = Undefined
           /\ a.kind = "field" /\ Reads(a, t) \in DOMAIN store =>
                  Returned(a, t) = IF a.name \in DOMAIN store[Reads(a, t)] THEN store[Reads(a, t)][a.name] ELSE Undefined
    BY DEF Returned, Reads, Kept

LEMMA PromisedIs ==
    ASSUME NEW a, NEW t
    PROVE  /\ a.kind \in {"is", "has"} => Promised(a, t) = (About(a.of, t) # {})
           /\ a.kind \in {"get", "field"} /\ About(a.of, t) = {} => Promised(a, t) = Undefined
           /\ a.kind = "field" /\ About(a.of, t) # {} => Promised(a, t) = Last(SaidOn(About(a.of, t)))[a.name]
           /\ a.kind = "get" /\ About(a.of, t) # {} =>
                  Promised(a, t) = IF lib[a.of].shape = "list" THEN SaidOn(About(a.of, t))
                                   ELSE IF lib[a.of].shape = "exclusive" THEN Head(SaidOn(About(a.of, t)))
                                   ELSE Last(SaidOn(About(a.of, t)))
    BY DEF Promised, SaidOn

\* A flag, a value or a record: the last.
LEMMA GetsLast ==
    ASSUME HistoryInv, StoreInv, NEW r, Wrote(r) # {},
           NEW shape \in {"flag", "value", "object"}, Alike(r, shape),
           shape = "value" => \A n \in Wrote(r) : ~OnlyFirst(applied[n].of)
    PROVE  store[r] = Last(SaidOn(Wrote(r)))
<1>1. Wrote(r) \subseteq DOMAIN applied
    BY DEF Wrote
<1>2. PICK m \in Wrote(r) : (\A l \in Wrote(r) : l <= m) /\ Last(SaidOn(Wrote(r))) = Said(applied[m])
    BY <1>1, SaidEnds
<1>3. m \in DOMAIN applied /\ SlotOf(m) = r /\ ShapeOf(m) = shape
    BY DEF Wrote, Alike
<1>4. Newest(m)
    BY <1>2, <1>3 DEF Newest
<1>5. /\ ShapeOf(m) = "flag"   => store[r] = "true"
      /\ ShapeOf(m) = "value"  => store[r] = Valued(m)
      /\ ShapeOf(m) = "object" => store[r] = Built(m)
    BY <1>3, <1>4 DEF StoreInv, LastInv, Valued
<1> QED BY <1>2, <1>3, <1>5, SaidIs

\* A list: all of them.
LEMMA GetsAll ==
    ASSUME HistoryInv, StoreInv, NEW r, Wrote(r) # {}, Alike(r, "list")
    PROVE  store[r] = SaidOn(Wrote(r))
<1>1. Wrote(r) \subseteq DOMAIN applied
    BY DEF Wrote
<1>2. PICK n \in DOMAIN applied : SlotOf(n) = r
    BY DEF Wrote
<1>3. store[r] = ListOf(r)
    BY <1>2 DEF StoreInv, ListInv, Told, ListOf
<1>4. SaidOn(Wrote(r)) = [k \in 1..Cardinality(Wrote(r)) |-> Said(applied[InOrder(Wrote(r))[k]])]
    BY <1>1, SaidEnds
<1>5. \A m \in Wrote(r) : Said(applied[m]) = Built(m)
    BY <1>1, SaidIs DEF Alike
<1>6. \A k \in 1..Cardinality(Wrote(r)) : InOrder(Wrote(r))[k] \in Wrote(r)
    BY <1>1, SaidEnds
<1> QED BY <1>3, <1>4, <1>5, <1>6 DEF ListOf

\* Exclusive decorators: the first.
LEMMA GetsFirst ==
    ASSUME HistoryInv, StoreInv, NEW r, Wrote(r) # {}, Alike(r, "exclusive")
    PROVE  store[r] = Head(SaidOn(Wrote(r)))
<1>1. Wrote(r) \subseteq DOMAIN applied
    BY DEF Wrote
<1>2. PICK n \in DOMAIN applied : SlotOf(n) = r
    BY DEF Wrote
<1>3. store[r] = FirstValue(r)
    BY <1>2 DEF StoreInv, FirstInv, FirstValue, FirstOn
<1>4. PICK m : m = FirstOn(r)
    OBVIOUS
<1>5. m \in Wrote(r) /\ m \in DOMAIN applied
    BY <1>2, <1>4, FirstValued
<1>6. Head(SaidOn(Wrote(r))) = Said(applied[m])
    BY <1>1, <1>4, SaidEnds DEF FirstOn
<1>7. ShapeOf(m) = "exclusive"
    BY <1>5 DEF Alike
<1>8. Said(applied[m]) = instances[applied[m].of].value
    BY <1>5, <1>7, SaidIs
<1> QED BY <1>3, <1>4, <1>6, <1>8 DEF FirstValue

\* The names of the fields of what an application builds.
LEMMA BuiltNames ==
    ASSUME HistoryInv, NEW n \in DOMAIN applied, ShapeOf(n) = "merge"
    PROVE  /\ DOMAIN Built(n) = {f.name : f \in AllFields(lib[applied[n].of])}
           /\ applied[n].of \in DOMAIN lib /\ lib[applied[n].of].shape = "merge" /\ case.max > 0
<1>1. PICK j, u, args : j = applied[n].of /\ u = applied[n].target /\ args = applied[n].args
    OBVIOUS
<1>2. case \in Cases /\ case.max > 0 /\ j \in DOMAIN lib /\ lib[j].shape = "merge"
    <2>1. applied # <<>>
        OBVIOUS
    <2> QED BY <1>1, <2>1 DEF HistoryInv, Sound, ShapeOf
<1>3. ToSet(instances[j].fields) = AllFields(lib[j])
    BY <1>2, FieldsOfInstance
<1>4. DOMAIN build(j, u, args) = {f.name : f \in AllFields(lib[j])}
    BY <1>3 DEF build
<1> QED BY <1>1, <1>2, <1>4 DEF Built

\* A field of a merged record: of the last application of the decorator it is a field of.
LEMMA GetsField ==
    ASSUME HistoryInv, StoreInv, NEW a \in case.out.accessors, a.kind = "field",
           NEW t, NEW r, Alike(r, "merge"), About(a.of, t) = {n \in Wrote(r) : applied[n].of = a.of},
           r = Reads(a, t), ~LeftOut(a, t)
    PROVE  Returned(a, t) = Promised(a, t)
<1>1. case \in Cases /\ a.of \in DOMAIN lib /\ lib[a.of].shape = "merge"
    BY OfAccessor DEF HistoryInv
<1>2. PICK g \in AllFields(lib[a.of]) : g.name = a.name
    BY <1>1, OfAccessor
<1>3. Wrote(r) \subseteq DOMAIN applied
    BY DEF Wrote
<1>4. \A n \in Wrote(r) : ShapeOf(n) = "merge"
    BY DEF Alike
<1>5. ASSUME NEW n \in Wrote(r) PROVE a.name \in DOMAIN Built(n) <=> applied[n].of = a.of
    <2>1. n \in DOMAIN applied /\ ShapeOf(n) = "merge"
        BY <1>3, <1>4
    <2>2. DOMAIN Built(n) = {f.name : f \in AllFields(lib[applied[n].of])}
        BY <2>1, BuiltNames
    <2>3. applied[n].of \in DOMAIN lib /\ lib[applied[n].of].shape = "merge" /\ case.max > 0
        BY <2>1, BuiltNames
    <2>4. ASSUME NEW f \in AllFields(lib[applied[n].of]), f.name = a.name PROVE applied[n].of = a.of
        BY <1>1, <1>2, <2>3, <2>4, FieldOnce
    <2> QED BY <1>2, <2>2, <2>4
<1>6. ASSUME NEW m \in Wrote(r)
      PROVE  FieldsKept(r) /\ \A f \in DOMAIN Built(m) : FieldKept(r, m, f)
    <2>1. m \in DOMAIN applied /\ SlotOf(m) = r
        BY DEF Wrote
    <2>2. MergeInv
        BY DEF StoreInv
    <2> QED BY <2>1, <2>2, MergeIs
<1>7. r \in DOMAIN store <=> Wrote(r) # {}
    BY Stored DEF StoreInv
<1>8. CASE About(a.of, t) = {}
    <2>1. Promised(a, t) = Undefined
        BY <1>8, PromisedIs
    <2>2. ASSUME r \in DOMAIN store PROVE a.name \notin DOMAIN store[r]
        <3>1. FieldsKept(r)
            BY <1>6, <1>7, <2>2
        <3> QED BY <1>5, <1>8, <3>1 DEF FieldsKept
    <2> QED BY <2>1, <2>2, ReturnedIs
<1>9. CASE About(a.of, t) # {}
    <2>1. About(a.of, t) \subseteq DOMAIN applied
        BY <1>3
    <2>2. PICK m \in About(a.of, t) : (\A l \in About(a.of, t) : l <= m) /\ Last(SaidOn(About(a.of, t))) = Said(applied[m])
        BY <1>9, <2>1, SaidEnds
    <2>3. m \in Wrote(r) /\ m \in DOMAIN applied /\ a.name \in DOMAIN Built(m) /\ ShapeOf(m) = "merge"
        BY <1>3, <1>4, <1>5, <2>2
    <2>4. Said(applied[m]) = Built(m)
        BY <2>3, SaidIs
    <2>5. Promised(a, t) = Built(m)[a.name]
        BY <1>9, <2>2, <2>4, PromisedIs
    <2>6. Built(m)[a.name] # Undefined
        BY <1>9, <2>5 DEF LeftOut
    <2>7. \A l \in Wrote(r) : a.name \in DOMAIN Built(l) => l <= m
        BY <1>5, <2>2
    <2>8. FieldKept(r, m, a.name)
        BY <1>6, <2>3
    <2>9. a.name \in DOMAIN store[r] /\ store[r][a.name] = Built(m)[a.name]
        BY <2>6, <2>7, <2>8 DEF FieldKept
    <2>10. r \in DOMAIN store
        BY <1>7, <2>3
    <2> QED BY <2>5, <2>9, <2>10, ReturnedIs
<1> QED BY <1>8, <1>9

\* A decorator of its own: what it wrote last, all of it, or what was written first.
LEMMA GetsWhole ==
    ASSUME HistoryInv, StoreInv, NEW a \in case.out.accessors, a.kind = "get",
           NEW t, NEW r, Alike(r, lib[a.of].shape), About(a.of, t) = Wrote(r), r = Reads(a, t),
           \A n \in Wrote(r) : ~OnlyFirst(applied[n].of)
    PROVE  Returned(a, t) = Promised(a, t)
<1>1. lib[a.of].shape \in {"flag", "value", "object", "list", "exclusive"}
    <2>1. case \in Cases /\ a.of \in DOMAIN lib /\ lib[a.of].shape # "merge"
        BY OfAccessor DEF HistoryInv
    <2>2. WellDescribed(lib[a.of])
        BY <2>1, OfCase
    <2>3. ToSet(Shapes) = {"flag", "value", "object", "list", "exclusive"}
        <3>1. DOMAIN Shapes = 1..5
            BY DEF Shapes
        <3>2. 1..5 = {1, 2, 3, 4, 5}
            OBVIOUS
        <3>3. /\ Shapes[1] = "flag" /\ Shapes[2] = "value" /\ Shapes[3] = "object"
              /\ Shapes[4] = "list" /\ Shapes[5] = "exclusive"
            BY DEF Shapes
        <3> QED BY <3>1, <3>2, <3>3 DEF ToSet
    <2> QED BY <2>1, <2>2, <2>3 DEF WellDescribed
<1>2. r \in DOMAIN store <=> Wrote(r) # {}
    BY Stored DEF StoreInv
<1>3. CASE Wrote(r) = {}
    BY <1>2, <1>3, ReturnedIs, PromisedIs
<1>4. CASE Wrote(r) # {}
    <2>1. Returned(a, t) = store[r]
        BY <1>2, <1>4, ReturnedIs
    <2>2. Promised(a, t) = IF lib[a.of].shape = "list" THEN SaidOn(Wrote(r))
                           ELSE IF lib[a.of].shape = "exclusive" THEN Head(SaidOn(Wrote(r)))
                           ELSE Last(SaidOn(Wrote(r)))
        BY <1>4, PromisedIs
    <2>3. lib[a.of].shape \in {"flag", "value", "object"} => store[r] = Last(SaidOn(Wrote(r)))
        BY <1>4, GetsLast
    <2>4. lib[a.of].shape = "list" => store[r] = SaidOn(Wrote(r))
        BY <1>4, GetsAll
    <2>5. lib[a.of].shape = "exclusive" => store[r] = Head(SaidOn(Wrote(r)))
        BY <1>4, GetsFirst
    <2> QED BY <1>1, <2>1, <2>2, <2>3, <2>4, <2>5
<1> QED BY <1>3, <1>4

LEMMA Tells == HistoryInv /\ StoreInv /\ ReportsInv => AccessorsTell
<1> SUFFICES ASSUME HistoryInv, StoreInv, ReportsInv,
                    NEW a \in case.out.accessors, NEW t \in Targets(a), ~Muddled(a.of, t), ~LeftOut(a, t)
             PROVE  /\ Returned(a, t) = Promised(a, t)
                    /\ lib[a.of].shape = "exclusive" =>
                         Cardinality(Late(instances[a.of].handler, t.id))
                             = IF About(a.of, t) = {} THEN 0 ELSE Cardinality(About(a.of, t)) - 1
    BY DEF AccessorsTell, Late
<1>1. PICK r : r = Reads(a, t)
    OBVIOUS
<1>2. /\ a.of \in DOMAIN lib /\ a.kind \in {"is", "has", "get", "field"} /\ case \in Cases
      /\ a.kind = "field" <=> lib[a.of].shape = "merge"
    BY OfAccessor DEF HistoryInv
<1>3. lib[a.of].shape # "merge" => About(a.of, t) = Wrote(r)
    BY <1>1, AboutIs
<1>4. lib[a.of].shape = "merge" => About(a.of, t) = {n \in Wrote(r) : applied[n].of = a.of}
    BY <1>1, AboutIs
<1>5. Alike(r, lib[a.of].shape)
    BY <1>1, AboutIs
<1>6. ASSUME lib[a.of].shape # "merge" PROVE \A n \in Wrote(r) : ~OnlyFirst(applied[n].of)
    <2>1. \A n \in Wrote(r) : applied[n].of \in Together(a.of)
        BY <1>1, <1>6, AboutIs
    <2> QED BY <2>1, Clear
<1>7. Returned(a, t) = Promised(a, t)
    <2>1. CASE a.kind \in {"is", "has"}
        <3>1. r \in DOMAIN store <=> Wrote(r) # {}
            BY Stored DEF StoreInv
        <3>2. Returned(a, t) = (r \in DOMAIN store)
            BY <1>1, <2>1, ReturnedIs
        <3>3. Promised(a, t) = (About(a.of, t) # {})
            BY <2>1, PromisedIs
        <3>4. About(a.of, t) = Wrote(r)
            BY <1>2, <1>3, <2>1
        <3> QED BY <3>1, <3>2, <3>3, <3>4
    <2>2. CASE a.kind = "get"
        BY <1>1, <1>2, <1>3, <1>5, <1>6, <2>2, GetsWhole
    <2>3. CASE a.kind = "field"
        <3>1. Alike(r, "merge")
            BY <1>2, <1>5, <2>3
        <3> QED BY <1>1, <1>2, <1>4, <2>3, <3>1, GetsField
    <2> QED BY <1>2, <2>1, <2>2, <2>3
<1>8. ASSUME lib[a.of].shape = "exclusive"
      PROVE  Cardinality(Late(instances[a.of].handler, t.id))
                 = IF About(a.of, t) = {} THEN 0 ELSE Cardinality(About(a.of, t)) - 1
    <2>1. instances[a.of].handler = instances[a.of].key /\ instances[a.of].place = lib[a.of].place
        BY <1>2, <1>8, OfInstance
    <2>2. lib[a.of].place = "type"
        <3>1. WellDescribed(lib[a.of])
            BY <1>2, OfCase
        <3> QED BY <1>8, <3>1 DEF WellDescribed
    <2>3. r = <<instances[a.of].handler, t.id>>
        BY <1>1, <2>1, <2>2 DEF Reads
    <2>4. Alike(<<instances[a.of].handler, t.id>>, "exclusive") /\ About(a.of, t) = Wrote(<<instances[a.of].handler, t.id>>)
        BY <1>3, <1>5, <1>8, <2>3
    <2> QED BY <2>4 DEF ReportsInv
<1> QED BY <1>7, <1>8

(* Whatever the library, the program and the order of its decorators, an accessor     *)
(* returns the last, all, or the first of what they say, as its shape is, and every    *)
(* exclusive decorator that comes too late is reported once.                          *)
THEOREM AccessorsAlwaysTell == Spec => []AccessorsTell
<1> QED BY StateTold, Tells, PTL
=============================================================================
