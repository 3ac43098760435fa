----------------------------- MODULE FilesProofs -----------------------------
(* The files of a project for any versions of the program, any bodies, any sets  *)
(* of libraries and emitters, any routes that keep files apart, and any number of  *)
(* compiles, edits and writes cut off; and a file with zones, of any length, with  *)
(* any zones and any number of emits and edits.                                     *)
EXTENDS Emits, Regions, FiniteSetTheorems, WellFoundedInduction, TLAPS

-----------------------------------------------------------------------------
(* Emits *)

Stages   == Libraries \cup Emitters
Targets  == Paths \cup AllFiles
Contents == [body : Nat, hash : Nat, own : {0, 1}]

TypeOK ==
    /\ loaded \in SUBSET Stages
    /\ program \in Programs /\ compiled \in Programs
    /\ todo \subseteq loaded
    /\ stage \in loaded \cup {"none"}
    /\ pending \subseteq [file : AllFiles, text : Contents]
    /\ disk \in [Targets -> Contents]
    /\ status \in {"idle", "running", "ok", "failed"}
    /\ writers \in [Targets -> SUBSET loaded]

\* A stage runs in a compile only, and it is one that refuses nothing.
StageInv ==
    /\ status # "running" => todo = {} /\ stage = "none"
    /\ stage = "none" => pending = {}
    /\ stage # "none" => ~Refuses(stage)

\* What waits to be written is of this stage and this version. It has what the
\* user wrote in generated.rs, and it is no ops.rs with code of the user.
PendingInv == \A w \in pending :
    /\ w.file \in Files(stage, compiled)
    /\ w.text.body = BodyOf[compiled][w.file]
    /\ w.file = "generated.rs" => w.text.own = disk[PathOf(w.file)].own
    /\ w.file = "ops.rs" => w.text.own = 0 /\ disk[PathOf(w.file)].own = 0

\* After a refusal only libraries that refuse as well are left.
Doomed == todo # {} /\ stage = "none" /\ \A s \in todo : Refuses(s)

Good(s, f) == disk[PathOf(f)].body = BodyOf[compiled][f] \/ NotRepaired(s, f)
Waits(s, f) == s = stage /\ \E w \in pending : w.file = f

\* Every file of a stage that had its turn is good, or waits to be written.
Settled == \A s \in loaded \ todo : \A f \in Files(s, compiled) : Good(s, f) \/ Waits(s, f)
CurrentInv == status \in {"running", "ok"} => Doomed \/ Settled

\* Who wrote a file has it among its own, and a library wrote one only when it
\* was the only library.
WritersInv == \A path \in Targets : \A s \in writers[path] :
    /\ \E f \in Files(s, compiled) : path = PathOf(f)
    /\ s \in Libraries => Cardinality(loaded \cap Libraries) <= 1

IInv == TypeOK /\ StageInv /\ PendingInv /\ CurrentInv /\ WritersInv

----------------------------------------------------------------------------
(* The names of the files and where they go.                                  *)

Crate == {"ops_auto.rs", "ops.rs"}

LEMMA CrateFiles == Files("rust", 1) = Crate
BY DEF Files, Crate

LEMMA FilesAreFiles ==
    ASSUME NEW s \in Stages, NEW p \in Programs
    PROVE  Files(s, p) \subseteq AllFiles
BY DEF AllFiles, Stages

LEMMA TypeOfPath ==
    ASSUME NEW f \in AllFiles
    PROVE  PathOf(f) \in Targets
BY DEF Targets, Paths

\* Two files never go to one place.
LEMMA PathsApart ==
    ASSUME NEW f \in AllFiles, NEW g \in AllFiles, PathOf(f) = PathOf(g)
    PROVE  f = g
<1> DEFINE Sent(h) == h \in Files("rust", 1) /\ ~Unrouted /\ h \in DOMAIN Routes
<1> HIDE DEF Sent
<1>1. \A h : PathOf(h) = IF Sent(h) THEN Routes[h] ELSE h
    BY DEF PathOf, Sent
<1>2. \A h : Sent(h) => h \in Files("rust", 1) \cap DOMAIN Routes
    BY DEF Sent
<1>3. CASE Sent(f) /\ Sent(g)
    BY <1>1, <1>2, <1>3, EmitsAssumption
<1>4. CASE Sent(f) /\ ~Sent(g)
    BY <1>1, <1>2, <1>4, EmitsAssumption
<1>5. CASE ~Sent(f) /\ Sent(g)
    BY <1>1, <1>2, <1>5, EmitsAssumption
<1>6. CASE ~Sent(f) /\ ~Sent(g)
    BY <1>1, <1>6
<1> QED BY <1>3, <1>4, <1>5, <1>6

\* Only libraries have files in common.
LEMMA OwnFiles ==
    ASSUME NEW s \in Stages, NEW t \in Stages, NEW p \in Programs,
           NEW f \in Files(s, p), f \in Files(t, p)
    PROVE  s = t \/ (s \in Libraries /\ t \in Libraries)
<1> DEFINE OfLibraries == {"schema_auto.sql", "generated.rs", "intern_auto.rs", "schema.sql", "generated.go"}
<1>1. \A r \in Libraries : Files(r, p) \subseteq OfLibraries
    BY DEF Libraries, Files
<1>2. Files("rust", p) = Crate
    BY DEF Files, Crate
<1>3. Files("c", p) = CFiles
    BY DEF Files
<1>4. OfLibraries \cap Crate = {} /\ OfLibraries \cap CFiles = {} /\ Crate \cap CFiles = {}
    BY DEF Crate, CFiles
<1> HIDE DEF OfLibraries
<1> QED BY <1>1, <1>2, <1>3, <1>4 DEF Stages, Emitters

\* ops.rs is a file of the Rust emitter, and of nobody else.
LEMMA OpsIsRust ==
    ASSUME NEW s \in Stages, NEW p \in Programs, "ops.rs" \in Files(s, p)
    PROVE  s = "rust"
BY DEF Stages, Libraries, Emitters, Files, CFiles

LEMMA UserFiles == \A f \in {"generated.rs", "ops.rs"} : Programs # {} => f \in AllFiles
<1> SUFFICES ASSUME NEW p \in Programs PROVE "generated.rs" \in AllFiles /\ "ops.rs" \in AllFiles
    OBVIOUS
<1>1. "generated.rs" \in Files("rusqlite", p) /\ "ops.rs" \in Files("rust", p)
    BY DEF Files
<1>2. "rusqlite" \in Stages /\ "rust" \in Stages
    BY DEF Stages, Libraries, Emitters
<1> QED BY <1>1, <1>2, FilesAreFiles

LEMMA TypeOfRendered ==
    ASSUME TypeOK, NEW s, NEW f \in AllFiles, NEW old \in Contents
    PROVE  Rendered(s, f, old) \in Contents
<1>1. BodyOf[compiled][f] \in Nat /\ compiled \in Nat
    BY EmitsAssumption DEF TypeOK
<1>2. (IF f = "generated.rs" THEN old.own ELSE 0) \in {0, 1}
    BY DEF Contents
<1> QED BY <1>1, <1>2 DEF Rendered, Contents

\* The libraries a project loads can be counted.
LEMMA LoadedLibraries ==
    ASSUME TypeOK
    PROVE  IsFiniteSet(loaded \cap Libraries) /\ Cardinality(loaded \cap Libraries) \in Nat
<1>1. IsFiniteSet({"rusqlite"}) /\ IsFiniteSet({"sqlx"}) /\ IsFiniteSet({"binding-core"})
    BY FS_Singleton
<1>2. Libraries = ({"rusqlite"} \cup {"sqlx"}) \cup {"binding-core"}
    BY DEF Libraries
<1>3. IsFiniteSet(Libraries)
    BY <1>1, <1>2, FS_Union
<1>4. IsFiniteSet(loaded \cap Libraries)
    BY <1>3, FS_Subset
<1> QED BY <1>4, FS_CardinalityType

LEMMA OnlyOne ==
    ASSUME NEW S, IsFiniteSet(S), Cardinality(S) <= 1, NEW a \in S, NEW b \in S
    PROVE  a = b
<1> SUFFICES ASSUME a # b PROVE FALSE
    OBVIOUS
<1>1. IsFiniteSet(S \ {a}) /\ Cardinality(S \ {a}) = Cardinality(S) - 1
    BY FS_RemoveElement
<1>2. Cardinality(S) \in Nat /\ Cardinality(S \ {a}) \in Nat
    BY <1>1, FS_CardinalityType
<1>3. Cardinality(S \ {a}) = 0
    BY <1>1, <1>2
<1>4. S \ {a} = {}
    BY <1>1, <1>3, FS_EmptySet
<1> QED BY <1>4

LEMMA RenderedParts ==
    \A s, f, old : /\ Rendered(s, f, old).body = BodyOf[compiled][f]
                   /\ Rendered(s, f, old).own = IF f = "generated.rs" THEN old.own ELSE 0
BY DEF Rendered

----------------------------------------------------------------------------
LEMMA InitIInv == Init => IInv
<1> SUFFICES ASSUME Init PROVE IInv
    OBVIOUS
<1> USE DEF Init
<1>1. Absent \in Contents
    BY DEF Absent, Contents
<1>2. TypeOK
    BY <1>1, EmitsAssumption DEF TypeOK, Targets, Stages
<1>3. StageInv /\ PendingInv /\ CurrentInv
    BY DEF StageInv, PendingInv, CurrentInv
<1>4. WritersInv
    BY DEF WritersInv, Targets
<1> QED BY <1>2, <1>3, <1>4 DEF IInv

(* Between compiles only the disk and the program change.                      *)
LEMMA EditedKeeps ==
    ASSUME IInv, Edited, program' \in Programs, disk' \in [Targets -> Contents]
    PROVE  IInv'
<1> USE DEF IInv, Edited
<1>1. TypeOK'
    BY DEF TypeOK
<1>2. pending = {} /\ stage = "none" /\ todo = {}
    BY DEF StageInv
<1>3. StageInv' /\ PendingInv' /\ CurrentInv'
    BY <1>2 DEF StageInv, PendingInv, CurrentInv
<1>4. WritersInv'
    BY DEF WritersInv
<1> QED BY <1>1, <1>3, <1>4

\* What an edit makes of one file.
LEMMA Touched ==
    ASSUME NEW d \in [Targets -> Contents], NEW path \in Targets,
           NEW body \in Nat, NEW own \in {0, 1}
    PROVE  [d EXCEPT ![path].body = body, ![path].own = own] \in [Targets -> Contents]
BY DEF Contents

LEMMA EditProgramKeeps == ASSUME IInv, EditProgram PROVE IInv'
<1>1. program' \in Programs /\ disk' \in [Targets -> Contents]
    BY DEF EditProgram, IInv, TypeOK
<1> QED BY <1>1, EditedKeeps DEF EditProgram

\* The code of the user stays in every place.
OwnStays == \A path \in Targets : disk[path].own = 1 => disk'[path].own = 1

LEMMA EditFileKeeps == ASSUME IInv, EditFile PROVE IInv' /\ OwnStays
<1>1. PICK path \in Targets :
          disk' = [disk EXCEPT ![path].body = Cut,
                               ![path].own = IF path = "generated.rs" THEN @ ELSE 1]
    BY DEF EditFile, IInv, TypeOK
<1>2. disk \in [Targets -> Contents] /\ program \in Programs
    BY DEF IInv, TypeOK
<1>3. disk' \in [Targets -> Contents] /\ OwnStays
    BY <1>1, <1>2 DEF Contents, OwnStays, Cut
<1>4. program' \in Programs
    BY <1>2 DEF EditFile
<1> QED BY <1>3, <1>4, EditedKeeps DEF EditFile

LEMMA WriteOwnKeeps == ASSUME IInv, WriteOwn PROVE IInv' /\ OwnStays
<1>1. PICK f \in {"generated.rs", "ops.rs"} : disk' = [disk EXCEPT ![PathOf(f)].own = 1]
    BY DEF WriteOwn
<1>2. disk \in [Targets -> Contents] /\ program \in Programs
    BY DEF IInv, TypeOK
<1>3. PathOf(f) \in Targets
    BY <1>2, UserFiles, TypeOfPath
<1>4. disk' \in [Targets -> Contents] /\ OwnStays
    BY <1>1, <1>2, <1>3 DEF Contents, OwnStays
<1>5. program' \in Programs
    BY <1>2 DEF WriteOwn
<1> QED BY <1>4, <1>5, EditedKeeps DEF WriteOwn

----------------------------------------------------------------------------
(* The turns of a compile.                                                     *)

LEMMA CompileKeeps == ASSUME IInv, Compile PROVE IInv'
<1> USE DEF IInv, Compile
<1>1. TypeOK'
    BY DEF TypeOK
<1>2. pending = {} /\ stage = "none"
    BY DEF StageInv
<1>3. StageInv' /\ PendingInv'
    BY <1>2 DEF StageInv, PendingInv
<1>4. CurrentInv'
    BY DEF CurrentInv, Settled
<1>5. WritersInv'
    BY DEF WritersInv, TypeOK
<1> QED BY <1>1, <1>3, <1>4, <1>5

LEMMA DiagnoseKeeps == ASSUME IInv, Diagnose PROVE IInv'
<1> USE DEF IInv
<1>1. PICK s \in todo :
          /\ Running /\ Refuses(s)
          /\ todo' = {t \in todo \ {s} : t \in Libraries /\ Refuses(t)}
          /\ status' = IF todo' = {} THEN "failed" ELSE "running"
          /\ UNCHANGED <<stage, pending>>
    BY DEF Diagnose
<1> USE <1>1 DEF Running
<1>2. TypeOK'
    BY DEF TypeOK
<1>3. \A t : Refuses(t)' <=> Refuses(t)
    BY DEF Refuses, loadedAutoEmitters
<1>4. StageInv' /\ PendingInv'
    BY <1>3 DEF StageInv, PendingInv
<1>5. CurrentInv'
    BY <1>3 DEF CurrentInv, Doomed
<1>6. WritersInv'
    BY DEF WritersInv
<1> QED BY <1>2, <1>4, <1>5, <1>6

\* A file a stage skips is good as it is.
LEMMA SkippedIsGood ==
    ASSUME NEW s \in Stages, NEW f \in Files(s, compiled), Skips(s, f)
    PROVE  Good(s, f)
<1>1. CASE s = "c"
    BY <1>1 DEF Skips, unchanged, Good, NotRepaired
<1>2. CASE s = "rust"
    BY <1>2 DEF Skips, USER_OWNED_FILES, Good, NotRepaired
<1>3. CASE s \in Libraries
    <2>1. autoFile(f, disk[PathOf(f)])
        BY <1>3 DEF Skips, Libraries
    <2> QED BY <2>1 DEF autoFile, Good
<1> QED BY <1>1, <1>2, <1>3 DEF Stages, Emitters

LEMMA BeginKeeps == ASSUME IInv, Begin PROVE IInv'
<1> USE DEF IInv
<1>1. PICK s \in todo :
          /\ Running /\ ~Refuses(s)
          /\ stage' = s
          /\ pending' = {[file |-> f, text |-> Rendered(s, f, disk[PathOf(f)])] :
                             f \in {f \in Files(s, compiled) : ~Skips(s, f)}}
          /\ todo' = todo \ {s} /\ status' = status
    BY DEF Begin
<1>2. /\ status = "running" /\ stage = "none" /\ loaded' = loaded /\ program' = program
      /\ compiled' = compiled /\ writers' = writers /\ disk' = disk
    BY <1>1 DEF Running
<1>3. s \in Stages /\ s \in loaded /\ compiled \in Programs /\ disk \in [Targets -> Contents]
    BY DEF TypeOK
<1>4. s # "none"
    BY <1>3 DEF Stages, Libraries, Emitters
<1>5. \A w \in pending' : /\ w.file \in Files(s, compiled) /\ ~Skips(s, w.file)
                          /\ w.text = Rendered(s, w.file, disk[PathOf(w.file)])
                          /\ w = [file |-> w.file, text |-> w.text]
    BY <1>1
<1>6. Files(s, compiled) \subseteq AllFiles
    BY <1>3, FilesAreFiles
<1>7. TypeOK'
    <2>1. ASSUME NEW w \in pending' PROVE w \in [file : AllFiles, text : Contents]
        <3>1. w.file \in AllFiles
            BY <1>5, <1>6
        <3>2. disk[PathOf(w.file)] \in Contents
            BY <3>1, <1>3, TypeOfPath
        <3>3. w.text \in Contents
            BY <3>1, <3>2, <1>5, TypeOfRendered
        <3> QED BY <3>1, <3>3, <1>5
    <2>2. pending' \subseteq [file : AllFiles, text : Contents]
        BY <2>1
    <2>3. todo' \subseteq loaded /\ stage' \in loaded
        BY <1>1, <1>3 DEF TypeOK
    <2> QED BY <2>2, <2>3, <1>1, <1>2 DEF TypeOK
<1>8. \A t : Refuses(t)' <=> Refuses(t)
    BY <1>2 DEF Refuses, loadedAutoEmitters
<1>9. StageInv'
    BY <1>1, <1>2, <1>4, <1>8 DEF StageInv
<1>10. PendingInv'
    <2> SUFFICES ASSUME NEW w \in pending'
                 PROVE  /\ w.file \in Files(s, compiled)
                        /\ w.text.body = BodyOf[compiled][w.file]
                        /\ w.file = "generated.rs" => w.text.own = disk[PathOf(w.file)].own
                        /\ w.file = "ops.rs" => w.text.own = 0 /\ disk[PathOf(w.file)].own = 0
        BY <1>1, <1>2 DEF PendingInv, PathOf, Unrouted
    <2>1. /\ w.text.body = BodyOf[compiled][w.file]
          /\ w.file = "generated.rs" => w.text.own = disk[PathOf(w.file)].own
          /\ w.file = "ops.rs" => w.text.own = 0
        BY <1>5, RenderedParts
    <2>2. ASSUME w.file = "ops.rs" PROVE disk[PathOf(w.file)].own = 0
        <3>1. s = "rust"
            BY <2>2, <1>3, <1>5, OpsIsRust
        <3>2. ~Present(PathOf(w.file))
            BY <3>1, <2>2, <1>5 DEF Skips, USER_OWNED_FILES
        <3> QED BY <3>2 DEF Present, Absent
    <2> QED BY <2>1, <2>2, <1>5
<1>11. CurrentInv'
    <2>1. Settled
        BY <1>1, <1>2 DEF CurrentInv, Doomed
    <2>2. pending = {}
        BY <1>2 DEF StageInv
    <2>3. \A t, f : Good(t, f)' <=> Good(t, f)
        BY <1>2 DEF Good, NotRepaired, PathOf, Written, Unrouted
    <2>4. ASSUME NEW t \in loaded \ todo', NEW f \in Files(t, compiled)
          PROVE  Good(t, f) \/ Waits(t, f)'
        <3>1. CASE t # s
            BY <3>1, <1>1, <2>1, <2>2 DEF Settled, Waits
        <3>2. CASE t = s /\ Skips(s, f)
            BY <3>2, <1>3, SkippedIsGood
        <3>3. CASE t = s /\ ~Skips(s, f)
            <4>1. [file |-> f, text |-> Rendered(s, f, disk[PathOf(f)])] \in pending'
                BY <3>3, <1>1
            <4> QED BY <4>1, <3>3, <1>1 DEF Waits
        <3> QED BY <3>1, <3>2, <3>3
    <2> QED BY <2>3, <2>4, <1>2 DEF CurrentInv, Settled
<1>12. WritersInv'
    BY <1>2 DEF WritersInv, PathOf, Unrouted
<1> QED BY <1>7, <1>9, <1>10, <1>11, <1>12

----------------------------------------------------------------------------
(* The writes of a stage.                                                      *)

LEMMA PutOne ==
    ASSUME TypeOK, NEW w \in pending, disk' = Put({w}, {})
    PROVE  /\ disk' \in [Targets -> Contents]
           /\ disk'[PathOf(w.file)] = w.text
           /\ \A path \in Targets : path # PathOf(w.file) => disk'[path] = disk[path]
<1>1. DOMAIN disk = Targets /\ w.file \in AllFiles /\ w.text \in Contents
    BY DEF TypeOK
<1>2. PathOf(w.file) \in Targets
    BY <1>1, TypeOfPath
<1>3. disk' = [path \in Targets |-> IF PathOf(w.file) = path THEN w.text ELSE disk[path]]
    <2>1. \A path : (\E x \in {w} : PathOf(x.file) = path) <=> PathOf(w.file) = path
        OBVIOUS
    <2>2. \A path : PathOf(w.file) = path => (CHOOSE x \in {w} : PathOf(x.file) = path) = w
        OBVIOUS
    <2> QED BY <2>1, <2>2, <1>1 DEF Put
<1> QED BY <1>1, <1>2, <1>3 DEF TypeOK

LEMMA TypeOfPut ==
    ASSUME TypeOK, NEW ws \in SUBSET pending, NEW partial
    PROVE  Put(ws, partial) \in [Targets -> Contents]
<1>1. DOMAIN disk = Targets
    BY DEF TypeOK
<1>2. ASSUME NEW path \in Targets, \E w \in ws : PathOf(w.file) = path
      PROVE  (CHOOSE w \in ws : PathOf(w.file) = path) \in pending
    BY <1>2
<1>3. \A w \in pending : w.text \in Contents /\ [body |-> Cut, hash |-> w.text.hash, own |-> 0] \in Contents
    BY DEF TypeOK, Contents, Cut
<1>4. \A path \in Targets : disk[path] \in Contents
    BY DEF TypeOK
<1> DEFINE Found(path) == CHOOSE w \in ws : PathOf(w.file) = path
           Text(path) == IF \E w \in ws : PathOf(w.file) = path
                         THEN IF Found(path) \in partial
                              THEN [body |-> Cut, hash |-> Found(path).text.hash, own |-> 0]
                              ELSE Found(path).text
                         ELSE disk[path]
<1>5. Put(ws, partial) = [path \in Targets |-> Text(path)]
    BY <1>1 DEF Put
<1>6. \A path \in Targets : Text(path) \in Contents
    <2> SUFFICES ASSUME NEW path \in Targets PROVE Text(path) \in Contents
        OBVIOUS
    <2>1. CASE \E w \in ws : PathOf(w.file) = path
        <3>1. Found(path) \in pending
            BY <2>1, <1>2
        <3> HIDE DEF Found
        <3> QED BY <3>1, <2>1, <1>3
    <2>2. CASE ~\E w \in ws : PathOf(w.file) = path
        BY <2>2, <1>4
    <2> QED BY <2>1, <2>2
<1> HIDE DEF Text
<1> QED BY <1>5, <1>6

LEMMA WriteFileKeeps ==
    ASSUME IInv, WriteFile
    PROVE  IInv' /\ \A f \in {"generated.rs", "ops.rs"} :
                        disk[PathOf(f)].own = 1 => disk'[PathOf(f)].own = 1
<1> USE DEF IInv
<1>1. PICK w \in pending :
          /\ pending' = pending \ {w} /\ disk' = Put({w}, {})
          /\ writers' = [writers EXCEPT ![PathOf(w.file)] = @ \cup {stage}]
    BY DEF WriteFile
<1>2. /\ loaded' = loaded /\ program' = program /\ compiled' = compiled /\ todo' = todo
      /\ stage' = stage /\ status' = status /\ stage # "none"
    BY DEF WriteFile
<1>3. /\ disk' \in [Targets -> Contents]
      /\ disk'[PathOf(w.file)] = w.text
      /\ \A path \in Targets : path # PathOf(w.file) => disk'[path] = disk[path]
    BY <1>1, PutOne
<1>4. /\ w.file \in AllFiles /\ PathOf(w.file) \in Targets
      /\ \A x \in pending : x.file \in AllFiles
    BY TypeOfPath DEF TypeOK
<1>5. \A f \in AllFiles : f # w.file => disk'[PathOf(f)] = disk[PathOf(f)]
    BY <1>3, <1>4, PathsApart, TypeOfPath
<1>6. /\ stage \in loaded /\ stage \in Stages /\ compiled \in Programs /\ status = "running"
      /\ loaded \subseteq Stages
    BY <1>2 DEF TypeOK, StageInv
<1>7. /\ w.file \in Files(stage, compiled)
      /\ w.text.body = BodyOf[compiled][w.file]
      /\ w.file = "generated.rs" => w.text.own = disk[PathOf(w.file)].own
      /\ w.file = "ops.rs" => disk[PathOf(w.file)].own = 0
    BY DEF PendingInv
<1>8. TypeOK'
    BY <1>1, <1>2, <1>3, <1>6 DEF TypeOK
<1>9. StageInv'
    BY <1>1, <1>2 DEF StageInv, Refuses, loadedAutoEmitters
<1>10. PendingInv'
    <2>1. ASSUME NEW x \in pending', x.file # w.file
          PROVE  disk'[PathOf(x.file)] = disk[PathOf(x.file)]
        BY <2>1, <1>1, <1>4, <1>5
    <2>2. ASSUME NEW x \in pending', x.file = w.file
          PROVE  /\ x.file = "generated.rs" => x.text.own = disk'[PathOf(x.file)].own
                 /\ x.file = "ops.rs" => x.text.own = 0 /\ disk'[PathOf(x.file)].own = 0
        BY <2>2, <1>1, <1>3, <1>7 DEF PendingInv
    <2>3. ASSUME NEW x \in pending'
          PROVE  /\ x.file \in Files(stage, compiled)
                 /\ x.text.body = BodyOf[compiled][x.file]
                 /\ x.file = "generated.rs" => x.text.own = disk'[PathOf(x.file)].own
                 /\ x.file = "ops.rs" => x.text.own = 0 /\ disk'[PathOf(x.file)].own = 0
        <3>1. x \in pending
            BY <1>1
        <3>2. CASE x.file = w.file
            BY <3>1, <3>2, <2>2 DEF PendingInv
        <3>3. CASE x.file # w.file
            BY <3>1, <3>3, <2>1 DEF PendingInv
        <3> QED BY <3>2, <3>3
    <2> QED BY <2>3, <1>2 DEF PendingInv, PathOf, Unrouted
<1>11. CurrentInv'
    <2>1. Settled
        BY <1>2, <1>6 DEF CurrentInv, Doomed
    <2>2. ASSUME NEW s \in loaded \ todo, NEW f \in Files(s, compiled)
          PROVE  Good(s, f)' \/ Waits(s, f)'
        <3>1. f \in AllFiles
            BY <1>6, FilesAreFiles
        <3>2. CASE f = w.file
            BY <3>2, <1>2, <1>3, <1>7 DEF Good, PathOf, Unrouted
        <3>3. CASE f # w.file /\ Good(s, f)
            <4>1. disk'[PathOf(f)] = disk[PathOf(f)]
                BY <3>1, <3>3, <1>5
            <4> QED BY <4>1, <3>3, <1>2 DEF Good, NotRepaired, PathOf, Written, Unrouted
        <3>4. CASE f # w.file /\ Waits(s, f)
            BY <3>4, <1>1, <1>2 DEF Waits
        <3> QED BY <3>2, <3>3, <3>4, <2>1 DEF Settled
    <2> QED BY <2>2, <1>2 DEF CurrentInv, Settled
<1>12. WritersInv'
    <2> SUFFICES ASSUME NEW path \in Targets, NEW s \in writers'[path]
                 PROVE  /\ \E f \in Files(s, compiled) : path = PathOf(f)
                        /\ s \in Libraries => Cardinality(loaded \cap Libraries) <= 1
        BY <1>2 DEF WritersInv, PathOf, Unrouted
    <2>1. CASE s \in writers[path]
        BY <2>1 DEF WritersInv
    <2>2. CASE s \notin writers[path]
        <3>1. path = PathOf(w.file) /\ s = stage
            BY <2>2, <1>1, <1>4 DEF TypeOK
        <3>2. Cardinality(loaded \cap Libraries) \in Nat
            BY LoadedLibraries
        <3>3. s \in Libraries => Cardinality(loaded \cap Libraries) <= 1
            BY <3>1, <3>2, <1>2 DEF StageInv, Refuses, loadedAutoEmitters
        <3> QED BY <3>1, <3>3, <1>7
    <2> QED BY <2>1, <2>2
<1>13. ASSUME NEW f \in {"generated.rs", "ops.rs"}, disk[PathOf(f)].own = 1
       PROVE  disk'[PathOf(f)].own = 1
    <2>1. CASE f = w.file
        BY <2>1, <1>3, <1>7, <1>13
    <2>2. CASE f # w.file
        <3>1. f \in AllFiles
            BY <1>6, UserFiles
        <3> QED BY <3>1, <2>2, <1>5, <1>13
    <2> QED BY <2>1, <2>2
<1> QED BY <1>8, <1>9, <1>10, <1>11, <1>12, <1>13

LEMMA CutOffKeeps == ASSUME IInv, CutOff PROVE IInv'
<1> USE DEF IInv
<1>1. PICK ws \in SUBSET pending : \E partial \in SUBSET ws : disk' = Put(ws, partial)
    BY DEF CutOff
<1>2. disk' \in [Targets -> Contents]
    BY <1>1, TypeOfPut
<1> USE DEF CutOff
<1>3. TypeOK'
    BY <1>2 DEF TypeOK
<1>4. StageInv' /\ PendingInv' /\ CurrentInv'
    BY DEF StageInv, PendingInv, CurrentInv
<1>5. WritersInv'
    BY DEF WritersInv, PathOf, Unrouted
<1> QED BY <1>3, <1>4, <1>5

LEMMA FinishKeeps == ASSUME IInv, Finish PROVE IInv'
<1> USE DEF IInv, Finish
<1>1. status = "running"
    BY DEF StageInv
<1>2. TypeOK'
    BY DEF TypeOK
<1>3. StageInv' /\ PendingInv'
    BY <1>1 DEF StageInv, PendingInv
<1>4. CurrentInv'
    <2>1. \A s \in loaded \ todo : \A f \in Files(s, compiled) : Good(s, f)
        BY <1>1 DEF CurrentInv, Doomed, Settled, Waits
    <2>2. \A s, f : Good(s, f)' <=> Good(s, f)
        BY DEF Good, NotRepaired, PathOf, Written, Unrouted
    <2> QED BY <2>1, <2>2 DEF CurrentInv, Settled
<1>5. WritersInv'
    BY DEF WritersInv, PathOf, Unrouted
<1> QED BY <1>2, <1>3, <1>4, <1>5

----------------------------------------------------------------------------
LEMMA NextIInv == ASSUME IInv, [Next]_vars PROVE IInv'
<1>1. CASE UNCHANGED vars
    <2> USE <1>1 DEF vars, IInv, PathOf, Unrouted
    <2>1. TypeOK'
        BY DEF TypeOK
    <2>2. StageInv' /\ PendingInv'
        BY DEF StageInv, PendingInv, Refuses, loadedAutoEmitters
    <2>3. CurrentInv'
        BY DEF CurrentInv, Doomed, Settled, Good, Waits, NotRepaired, Refuses, loadedAutoEmitters, Written
    <2>4. WritersInv'
        BY DEF WritersInv
    <2> QED BY <2>1, <2>2, <2>3, <2>4
<1>2. CASE Next
    BY <1>2, EditProgramKeeps, EditFileKeeps, WriteOwnKeeps, CompileKeeps, DiagnoseKeeps,
       BeginKeeps, WriteFileKeeps, CutOffKeeps, FinishKeeps DEF Next
<1> QED BY <1>1, <1>2

THEOREM Invariance == Spec => []IInv
<1>1. Init => IInv
    BY InitIInv
<1>2. IInv /\ [Next]_vars => IInv'
    BY NextIInv
<1> QED BY <1>1, <1>2, PTL DEF Spec

\* Every variable has its type in every reachable state.
THEOREM TypeCorrect == Spec => []TypeOK
<1>1. IInv => TypeOK
    BY DEF IInv
<1> QED BY <1>1, Invariance, PTL

(* After a compile that succeeded every file holds what it would write, after   *)
(* any compiles that were cut off or refused, and any edits.                     *)
THEOREM EndsCurrent == Spec => []Current
<1>1. IInv => Current
    <2> SUFFICES ASSUME IInv, status = "ok" PROVE
                 \A s \in loaded : \A f \in Files(s, compiled) : Good(s, f)
        BY DEF Current, Good
    <2>1. todo = {} /\ pending = {} /\ CurrentInv
        BY DEF IInv, StageInv
    <2> QED BY <2>1 DEF CurrentInv, Doomed, Settled, Waits
<1> QED BY <1>1, Invariance, PTL

(* No two generators write one file in a compile.                                *)
THEOREM WritesAlone == Spec => []OneWriter
<1>1. IInv => OneWriter
    <2> SUFFICES ASSUME IInv, NEW path \in Targets
                 PROVE  Cardinality(writers[path]) <= 1
        BY DEF OneWriter, IInv, TypeOK
    <2> USE DEF IInv
    <2>1. writers[path] \subseteq loaded /\ loaded \subseteq Stages /\ compiled \in Programs
        BY DEF TypeOK
    <2>2. ASSUME NEW s \in writers[path], NEW t \in writers[path] PROVE s = t
        <3>1. PICK f \in Files(s, compiled) : path = PathOf(f)
            BY DEF WritersInv
        <3>2. PICK g \in Files(t, compiled) : path = PathOf(g)
            BY DEF WritersInv
        <3>3. f = g
            BY <3>1, <3>2, <2>1, FilesAreFiles, PathsApart
        <3>4. s = t \/ (s \in Libraries /\ t \in Libraries)
            BY <3>3, <2>1, OwnFiles
        <3>5. ASSUME s \in Libraries, t \in Libraries PROVE s = t
            <4>1. Cardinality(loaded \cap Libraries) <= 1
                BY <3>5 DEF WritersInv
            <4>2. s \in loaded \cap Libraries /\ t \in loaded \cap Libraries
                BY <3>5, <2>1
            <4> QED BY <4>1, <4>2, LoadedLibraries, OnlyOne
        <3> QED BY <3>4, <3>5
    <2>3. CASE writers[path] = {}
        <3>1. Cardinality({}) = 0
            BY FS_EmptySet
        <3> QED BY <3>1, <2>3
    <2>4. CASE writers[path] # {}
        <3>1. PICK s : writers[path] = {s}
            BY <2>2, <2>4
        <3>2. Cardinality({s}) = 1
            BY FS_Singleton
        <3> QED BY <3>1, <3>2
    <2> QED BY <2>3, <2>4
<1> QED BY <1>1, Invariance, PTL

(* Only a write that is cut off takes the code of the user from generated.rs or   *)
(* ops.rs, wherever a project wants them.                                          *)
THEOREM UserCodeIsKept == Spec => UserCodeStays
<1>1. ASSUME IInv, [Next]_vars, ~CutOff, NEW f \in {"generated.rs", "ops.rs"},
             disk[PathOf(f)].own = 1
      PROVE  disk'[PathOf(f)].own = 1
    <2>1. PathOf(f) \in Targets
        BY <1>1, UserFiles, TypeOfPath DEF IInv, TypeOK
    <2>2. CASE EditFile \/ WriteOwn
        BY <2>1, <2>2, <1>1, EditFileKeeps, WriteOwnKeeps DEF OwnStays
    <2>3. CASE WriteFile
        BY <2>3, <1>1, WriteFileKeeps
    <2>4. CASE disk' = disk
        BY <2>4, <1>1
    <2> QED BY <2>2, <2>3, <2>4, <1>1
            DEF Next, vars, EditProgram, Compile, Diagnose, Begin, Running, Finish
<1>2. IInv /\ [Next]_vars =>
          [~CutOff => \A f \in {"generated.rs", "ops.rs"} :
              disk[PathOf(f)].own = 1 => disk'[PathOf(f)].own = 1]_vars
    BY <1>1 DEF PathOf, Unrouted
<1> QED BY <1>2, Invariance, PTL DEF Spec, UserCodeStays

-----------------------------------------------------------------------------
(* Regions *)

(* The order of the lines of a file.                                              *)

Lines == Solid \union {Blank}

Before(f, x, y) == \E m, n \in DOMAIN f : m < n /\ f[m] = x /\ f[n] = y

LEMMA ConcatOrder ==
    ASSUME NEW a \in Seq(Lines), NEW b \in Seq(Lines)
    PROVE  /\ a \o b \in Seq(Lines)
           /\ \A x : x \in Range(a \o b) <=> x \in Range(a) \/ x \in Range(b)
           /\ \A x, y : Before(a \o b, x, y) <=>
                \/ Before(a, x, y)
                \/ Before(b, x, y)
                \/ x \in Range(a) /\ y \in Range(b)
<1> DEFINE c == a \o b
<1>1. /\ c \in Seq(Lines) /\ Len(c) = Len(a) + Len(b)
      /\ Len(a) \in Nat /\ Len(b) \in Nat
      /\ DOMAIN a = 1..Len(a) /\ DOMAIN b = 1..Len(b) /\ DOMAIN c = 1..Len(c)
      /\ \A n \in 1..Len(a) : c[n] = a[n]
      /\ \A n \in 1..Len(b) : c[n + Len(a)] = b[n]
    OBVIOUS
<1>2. \A n \in DOMAIN c : n \in DOMAIN a \/ (n - Len(a) \in DOMAIN b /\ c[n] = b[n - Len(a)])
    <2> TAKE n \in DOMAIN c
    <2>1. n \in DOMAIN a \/ n - Len(a) \in 1..Len(b)
        BY <1>1
    <2>2. n \in Int /\ Len(a) \in Int /\ (n - Len(a)) + Len(a) = n
        BY <1>1
    <2> QED BY <2>1, <2>2, <1>1
<1>3. \A n \in DOMAIN b : n + Len(a) \in DOMAIN c
    BY <1>1
<1>4. \A n \in DOMAIN a : n \in DOMAIN c
    BY <1>1
<1> HIDE DEF c
<1>5. ASSUME NEW x PROVE x \in Range(c) <=> x \in Range(a) \/ x \in Range(b)
    <2>1. x \in Range(c) => x \in Range(a) \/ x \in Range(b)
        BY <1>1, <1>2 DEF Range
    <2>2. x \in Range(a) => x \in Range(c)
        BY <1>1, <1>4 DEF Range
    <2>3. x \in Range(b) => x \in Range(c)
        BY <1>1, <1>3 DEF Range
    <2> QED BY <2>1, <2>2, <2>3
<1>6. ASSUME NEW x, NEW y, Before(c, x, y)
      PROVE  Before(a, x, y) \/ Before(b, x, y) \/ (x \in Range(a) /\ y \in Range(b))
    <2>1. PICK m \in DOMAIN c, n \in DOMAIN c : m < n /\ c[m] = x /\ c[n] = y
        BY <1>6 DEF Before
    <2>2. CASE m \in DOMAIN a /\ n \in DOMAIN a
        BY <2>1, <2>2, <1>1 DEF Before
    <2>3. CASE m \in DOMAIN a /\ n \notin DOMAIN a
        BY <2>1, <2>3, <1>1, <1>2 DEF Range
    <2>4. CASE m \notin DOMAIN a
        <3>1. n \notin DOMAIN a
            BY <2>1, <2>4, <1>1
        <3>2. m - Len(a) \in DOMAIN b /\ n - Len(a) \in DOMAIN b /\ m - Len(a) < n - Len(a)
            BY <3>1, <2>1, <2>4, <1>1, <1>2
        <3>3. b[m - Len(a)] = x /\ b[n - Len(a)] = y
            BY <3>1, <2>1, <2>4, <1>2
        <3> QED BY <3>2, <3>3 DEF Before
    <2> QED BY <2>2, <2>3, <2>4
<1>7. ASSUME NEW x, NEW y, Before(a, x, y) PROVE Before(c, x, y)
    BY <1>7, <1>1, <1>4 DEF Before
<1>8. ASSUME NEW x, NEW y, Before(b, x, y) PROVE Before(c, x, y)
    <2>1. PICK m \in DOMAIN b, n \in DOMAIN b : m < n /\ b[m] = x /\ b[n] = y
        BY <1>8 DEF Before
    <2>2. m + Len(a) < n + Len(a)
        BY <2>1, <1>1
    <2> QED BY <2>1, <2>2, <1>1, <1>3 DEF Before
<1>9. ASSUME NEW x, NEW y, x \in Range(a), y \in Range(b) PROVE Before(c, x, y)
    <2>1. PICK m \in DOMAIN a : a[m] = x
        BY <1>9 DEF Range
    <2>2. PICK n \in DOMAIN b : b[n] = y
        BY <1>9 DEF Range
    <2>3. m < n + Len(a)
        BY <2>1, <2>2, <1>1
    <2> QED BY <2>1, <2>2, <2>3, <1>1, <1>3, <1>4 DEF Before
<1>10. c \in Seq(Lines)
    BY <1>1
<1> QED BY <1>10, <1>5, <1>6, <1>7, <1>8, <1>9 DEF c

LEMMA OneLine ==
    ASSUME NEW l \in Lines
    PROVE  <<l>> \in Seq(Lines) /\ Range(<<l>>) = {l} /\ \A x, y : ~ Before(<<l>>, x, y)
<1>1. <<l>> \in Seq(Lines) /\ DOMAIN <<l>> = {1} /\ <<l>>[1] = l
    OBVIOUS
<1>2. Range(<<l>>) = {l}
    BY <1>1 DEF Range
<1>3. \A x, y : ~ Before(<<l>>, x, y)
    BY <1>1 DEF Before
<1> QED BY <1>1, <1>2, <1>3

LEMMA NoLine == <<>> \in Seq(Lines) /\ Range(<<>>) = {} /\ \A x, y : ~ Before(<<>>, x, y)
<1>1. DOMAIN <<>> = {} /\ <<>> \in Seq(Lines)
    OBVIOUS
<1> QED BY <1>1 DEF Range, Before

LEMMA SubstringOrder ==
    ASSUME NEW f \in Seq(Lines), NEW i \in 0..Len(f), NEW j \in i..Len(f)
    PROVE  /\ Substring(f, i, j) \in Seq(Lines)
           /\ \A x : x \in Range(Substring(f, i, j)) <=> \E n \in (i + 1)..j : f[n] = x
           /\ \A x, y : Before(Substring(f, i, j), x, y) <=>
                \E m, n \in (i + 1)..j : m < n /\ f[m] = x /\ f[n] = y
<1> DEFINE s == Substring(f, i, j)
<1>1. Len(f) \in Nat /\ i \in Nat /\ j \in Nat /\ i <= j /\ j <= Len(f)
    OBVIOUS
<1>2. s \in Seq(Lines) /\ Len(s) = j - i /\ \A n \in 1..(j - i) : s[n] = f[n + i]
    BY <1>1 DEF Substring
<1>3. DOMAIN s = 1..(j - i)
    BY <1>2
<1> HIDE DEF s
<1>4. \A n \in DOMAIN s : n + i \in (i + 1)..j
    BY <1>1, <1>3
<1>5. \A n \in (i + 1)..j : n - i \in DOMAIN s /\ s[n - i] = f[n]
    <2> TAKE n \in (i + 1)..j
    <2>1. n - i \in DOMAIN s /\ (n - i) + i = n
        BY <1>1, <1>3
    <2> QED BY <2>1, <1>2, <1>3
<1>6. ASSUME NEW x PROVE x \in Range(s) <=> \E n \in (i + 1)..j : f[n] = x
    <2>1. x \in Range(s) <=> \E m \in DOMAIN s : s[m] = x
        BY DEF Range
    <2> HIDE DEF s
    <2>2. ASSUME NEW m \in DOMAIN s, s[m] = x PROVE \E n \in (i + 1)..j : f[n] = x
        BY <2>2, <1>2, <1>4
    <2>3. ASSUME NEW n \in (i + 1)..j, f[n] = x PROVE \E m \in DOMAIN s : s[m] = x
        BY <2>3, <1>5
    <2> QED BY <2>1, <2>2, <2>3
<1>7. ASSUME NEW x, NEW y, Before(s, x, y)
      PROVE  \E m, n \in (i + 1)..j : m < n /\ f[m] = x /\ f[n] = y
    <2>1. PICK m \in DOMAIN s, n \in DOMAIN s : m < n /\ s[m] = x /\ s[n] = y
        BY <1>7 DEF Before
    <2>2. m + i < n + i
        BY <2>1, <1>1, <1>3
    <2> QED BY <2>1, <2>2, <1>2, <1>3, <1>4
<1>8. ASSUME NEW x, NEW y, NEW m \in (i + 1)..j, NEW n \in (i + 1)..j, m < n /\ f[m] = x /\ f[n] = y
      PROVE  Before(s, x, y)
    <2>1. m - i < n - i
        BY <1>8, <1>1
    <2> QED BY <2>1, <1>8, <1>5 DEF Before
<1>9. s \in Seq(Lines)
    BY <1>2
<1> QED BY <1>6, <1>7, <1>8, <1>9 DEF s

(* Files whose lines are ordered by keys.                                          *)

Keys(X, key) == Blank \notin X /\ \A x \in X : key[x] \in Int

\* But for blank lines, s has the lines of X with keys above lo, up to hi, by key.
Keyed(s, X, key, lo, hi) ==
    /\ s \in Seq(Lines)
    /\ \A x \in Range(s) : x # Blank => x \in X /\ lo < key[x] /\ key[x] <= hi
    /\ \A x \in X : lo < key[x] /\ key[x] <= hi => x \in Range(s)
    /\ \A x, y \in X : x \in Range(s) /\ y \in Range(s) => (Before(s, x, y) <=> key[x] < key[y])

LEMMA KeyedConcat ==
    ASSUME NEW X, NEW key, Keys(X, key), NEW lo \in Int, NEW mid \in Int, NEW hi \in Int,
           lo <= mid, mid <= hi,
           NEW a, NEW b, Keyed(a, X, key, lo, mid), Keyed(b, X, key, mid, hi)
    PROVE  Keyed(a \o b, X, key, lo, hi)
<1>1. a \in Seq(Lines) /\ b \in Seq(Lines)
    BY DEF Keyed
<1>2. \A x : x \in Range(a \o b) <=> x \in Range(a) \/ x \in Range(b)
    BY <1>1, ConcatOrder
<1>3. \A x, y : Before(a \o b, x, y) <=>
          Before(a, x, y) \/ Before(b, x, y) \/ (x \in Range(a) /\ y \in Range(b))
    BY <1>1, ConcatOrder
<1>4. \A x \in X : x # Blank /\ key[x] \in Int
    BY DEF Keys
<1>5. \A x \in X : x \in Range(a) => lo < key[x] /\ key[x] <= mid
    BY <1>4 DEF Keyed
<1>6. \A x \in X : x \in Range(b) => mid < key[x] /\ key[x] <= hi
    BY <1>4 DEF Keyed
<1>7. \A x, y : Before(a, x, y) => x \in Range(a) /\ y \in Range(a)
    BY DEF Before, Range
<1>8. \A x, y : Before(b, x, y) => x \in Range(b) /\ y \in Range(b)
    BY DEF Before, Range
<1>9. \A x \in Range(a \o b) : x # Blank => x \in X /\ lo < key[x] /\ key[x] <= hi
    <2> TAKE x \in Range(a \o b)
    <2> HAVE x # Blank
    <2>1. x \in X
        BY <1>2 DEF Keyed
    <2> QED BY <2>1, <1>2, <1>4, <1>5, <1>6
<1>10. \A x \in X : lo < key[x] /\ key[x] <= hi => x \in Range(a \o b)
    <2> TAKE x \in X
    <2> HAVE lo < key[x] /\ key[x] <= hi
    <2>1. key[x] <= mid \/ mid < key[x]
        BY <1>4
    <2>2. x \in Range(a) \/ x \in Range(b)
        BY <2>1 DEF Keyed
    <2> QED BY <2>2, <1>2
<1>11. ASSUME NEW x \in X, NEW y \in X, x \in Range(a \o b), y \in Range(a \o b)
       PROVE  Before(a \o b, x, y) <=> key[x] < key[y]
    <2>1. CASE x \in Range(a) /\ y \in Range(a)
        <3>1. x \notin Range(b) /\ y \notin Range(b)
            BY <2>1, <1>4, <1>5, <1>6
        <3>2. Before(a, x, y) <=> key[x] < key[y]
            BY <2>1 DEF Keyed
        <3> QED BY <3>1, <3>2, <1>3, <1>8
    <2>2. CASE x \in Range(b) /\ y \in Range(b)
        <3>1. x \notin Range(a) /\ y \notin Range(a)
            BY <2>2, <1>4, <1>5, <1>6
        <3>2. Before(b, x, y) <=> key[x] < key[y]
            BY <2>2 DEF Keyed
        <3> QED BY <3>1, <3>2, <1>3, <1>7
    <2>3. CASE x \in Range(a) /\ y \in Range(b)
        <3>1. key[x] < key[y]
            BY <2>3, <1>4, <1>5, <1>6
        <3> QED BY <3>1, <2>3, <1>3
    <2>4. CASE x \in Range(b) /\ y \in Range(a)
        <3>1. x \notin Range(a) /\ y \notin Range(b) /\ ~ key[x] < key[y]
            BY <2>4, <1>4, <1>5, <1>6
        <3> QED BY <3>1, <1>3, <1>7, <1>8
    <2> QED BY <2>1, <2>2, <2>3, <2>4, <1>2, <1>11
<1>12. a \o b \in Seq(Lines)
    BY <1>1, ConcatOrder
<1> QED BY <1>9, <1>10, <1>11, <1>12 DEF Keyed

\* Nothing, where X has nothing.
LEMMA KeyedNothing ==
    ASSUME NEW X, NEW key, NEW lo, NEW hi, \A x \in X : ~ (lo < key[x] /\ key[x] <= hi)
    PROVE  Keyed(<<>>, X, key, lo, hi)
BY NoLine DEF Keyed

LEMMA BlankLine == Blank \in Lines
BY DEF Lines

LEMMA KeyedBlank ==
    ASSUME NEW X, NEW key, Keys(X, key), NEW lo, NEW hi,
           \A x \in X : ~ (lo < key[x] /\ key[x] <= hi)
    PROVE  Keyed(<<Blank>>, X, key, lo, hi)
BY BlankLine, OneLine DEF Keyed, Keys

LEMMA KeyedLine ==
    ASSUME NEW X, NEW key, Keys(X, key), NEW lo, NEW hi, NEW l \in X, l \in Lines,
           \A x \in X : lo < key[x] /\ key[x] <= hi <=> x = l
    PROVE  Keyed(<<l>>, X, key, lo, hi)
<1>1. <<l>> \in Seq(Lines) /\ Range(<<l>>) = {l} /\ \A x, y : ~ Before(<<l>>, x, y)
    BY OneLine
<1>2. key[l] \in Int
    BY DEF Keys
<1> QED BY <1>1, <1>2 DEF Keyed

-----------------------------------------------------------------------------
(* Pieces put together.                                                             *)

LEMMA Least ==
    ASSUME NEW T, T \subseteq Nat, T # {}
    PROVE  \E x \in T : \A y \in T : x <= y
<1>1. PICK x \in T : \A y \in T : <<y, x>> \notin OpToRel(<, Nat)
    BY NatLessThanWellFounded, WFMin
<1>2. ASSUME NEW y \in T PROVE x <= y
    <2>1. x \in Nat /\ y \in Nat /\ <<y, x>> \in Nat \X Nat
        OBVIOUS
    <2> QED BY <1>1, <2>1 DEF OpToRel
<1> QED BY <1>2

\* f[i] is the first i pieces.
Accumulates(f, P, n) == f = [i \in 1..n |-> IF i = 1 THEN P[i] ELSE f[i - 1] \o P[i]]

LEMMA Accumulated ==
    ASSUME NEW P, NEW n \in Nat
    PROVE  \E f : Accumulates(f, P, n)
<1> DEFINE T == {m \in Nat : ~ \E f : Accumulates(f, P, m)}
<1> SUFFICES ASSUME n \in T PROVE FALSE
    OBVIOUS
<1>1. PICK m \in T : \A k \in T : m <= k
    <2>1. T \subseteq Nat /\ T # {}
        OBVIOUS
    <2> HIDE DEF T
    <2> QED BY <2>1, Least
<1>2. m # 0
    <2>1. Accumulates([i \in 1..0 |-> IF i = 1 THEN P[i] ELSE P[i]], P, 0)
        BY DEF Accumulates
    <2> QED BY <2>1
<1>3. m - 1 \in Nat /\ m - 1 \notin T
    <2>1. m \in Nat
        OBVIOUS
    <2>2. m - 1 \in Nat /\ ~ (m <= m - 1)
        BY <2>1, <1>2
    <2> HIDE DEF T
    <2> QED BY <2>2, <1>1
<1>4. PICK g : Accumulates(g, P, m - 1)
    BY <1>3
<1> DEFINE h == [i \in 1..m |-> IF i = 1 THEN P[i] ELSE g[i - 1] \o P[i]]
<1>5. \A i \in 1..(m - 1) : g[i] = h[i]
    <2> TAKE i \in 1..(m - 1)
    <2>1. i \in 1..m
        BY <1>3
    <2>2. g[i] = IF i = 1 THEN P[i] ELSE g[i - 1] \o P[i]
        BY <1>4 DEF Accumulates
    <2> QED BY <2>1, <2>2
<1>6. \A i \in 1..m : i # 1 => i - 1 \in 1..(m - 1)
    BY <1>3
<1>7. h = [i \in 1..m |-> IF i = 1 THEN P[i] ELSE h[i - 1] \o P[i]]
    <2>1. \A i \in 1..m : i # 1 => g[i - 1] = h[i - 1]
        BY <1>5, <1>6
    <2> HIDE DEF h
    <2>2. h = [i \in 1..m |-> IF i = 1 THEN P[i] ELSE g[i - 1] \o P[i]]
        BY DEF h
    <2>3. \A i \in 1..m : h[i] = IF i = 1 THEN P[i] ELSE h[i - 1] \o P[i]
        BY <2>1, <2>2
    <2> QED BY ONLY <2>2, <2>3
<1>8. Accumulates(h, P, m)
    <2> HIDE DEF h
    <2> QED BY <1>7 DEF Accumulates
<1> QED BY <1>8

LEMMA Flattened ==
    ASSUME NEW P, NEW n \in Nat, n > 0, DOMAIN P = 1..n, Len(P) = n
    PROVE  \E f : Accumulates(f, P, n) /\ FlattenSeq(P) = f[n]
<1> DEFINE flatten == CHOOSE f : f = [i \in 1..Len(P) |-> IF i = 1 THEN P[i] ELSE f[i - 1] \o P[i]]
<1>1. FlattenSeq(P) = flatten[Len(P)]
    BY DEF FlattenSeq
<1>2. \E f : f = [i \in 1..Len(P) |-> IF i = 1 THEN P[i] ELSE f[i - 1] \o P[i]]
    BY Accumulated DEF Accumulates
<1>3. flatten = [i \in 1..Len(P) |-> IF i = 1 THEN P[i] ELSE flatten[i - 1] \o P[i]]
    BY <1>2
<1> HIDE DEF flatten
<1>4. Accumulates(flatten, P, n)
    BY <1>3 DEF Accumulates
<1> QED BY <1>1, <1>4

LEMMA KeyedFlatten ==
    ASSUME NEW X, NEW key, Keys(X, key), NEW n \in Nat, NEW P, P \in Seq(Seq(Lines)), Len(P) = n,
           NEW b, \A k \in 0..n : b[k] \in Int,
           \A k \in 1..n : b[k - 1] <= b[k] /\ Keyed(P[k], X, key, b[k - 1], b[k])
    PROVE  Keyed(FlattenSeq(P), X, key, b[0], b[n])
<1>1. DOMAIN P = 1..n
    OBVIOUS
<1>2. CASE n = 0
    <2>1. P = <<>>
        BY <1>2
    <2>2. FlattenSeq(P) = <<>>
        BY <2>1, <1>2 DEF FlattenSeq
    <2>3. \A x \in X : ~ (b[0] < key[x] /\ key[x] <= b[0])
        BY <1>2 DEF Keys
    <2> QED BY <2>2, <2>3, <1>2, KeyedNothing
<1>3. CASE n > 0
    <2>1. PICK f : Accumulates(f, P, n) /\ FlattenSeq(P) = f[n]
        BY <1>1, <1>3, Flattened
    <2> DEFINE T == {k \in 1..n : ~ (b[0] <= b[k] /\ Keyed(f[k], X, key, b[0], b[k]))}
    <2>2. T = {}
        <3> SUFFICES ASSUME T # {} PROVE FALSE
            OBVIOUS
        <3>1. PICK k \in T : \A m \in T : k <= m
            <4>1. T \subseteq Nat
                OBVIOUS
            <4> HIDE DEF T
            <4> QED BY <4>1, Least
        <3>2. k \in 1..n /\ ~ (b[0] <= b[k] /\ Keyed(f[k], X, key, b[0], b[k]))
            OBVIOUS
        <3>7. \A m \in 1..n : ~ k <= m => b[0] <= b[m] /\ Keyed(f[m], X, key, b[0], b[m])
            BY <3>1
        <3> HIDE DEF T
        <3>3. f[k] = IF k = 1 THEN P[k] ELSE f[k - 1] \o P[k]
            BY <2>1, <3>2 DEF Accumulates
        <3>4. b[k - 1] <= b[k] /\ Keyed(P[k], X, key, b[k - 1], b[k])
            BY <3>2
        <3>5. CASE k = 1
            <4>1. k - 1 = 0 /\ f[k] = P[k]
                BY <3>3, <3>5
            <4> QED BY <4>1, <3>2, <3>4
        <3>6. CASE k # 1
            <4>1. k - 1 \in 1..n /\ ~ k <= k - 1
                BY <3>2, <3>6
            <4>2. b[0] <= b[k - 1] /\ Keyed(f[k - 1], X, key, b[0], b[k - 1])
                BY <4>1, <3>7
            <4>3. 0 \in 0..n /\ k - 1 \in 0..n /\ k \in 0..n
                BY <3>2, <4>1
            <4>4. b[0] \in Int /\ b[k - 1] \in Int /\ b[k] \in Int
                BY <4>3
            <4>5. Keyed(f[k - 1] \o P[k], X, key, b[0], b[k])
                BY <4>2, <4>4, <3>4, KeyedConcat
            <4>6. b[0] <= b[k]
                <5>1. b[k - 1] <= b[k]
                    BY <3>4
                <5> QED BY <4>2, <4>4, <5>1
            <4> QED BY <4>5, <4>6, <3>2, <3>3, <3>6
        <3> QED BY <3>5, <3>6
    <2>3. n \in 1..n
        BY <1>3
    <2> QED BY <2>1, <2>2, <2>3
<1> QED BY <1>2, <1>3

(* The zones by position.                                                           *)

\* at lists the entries of R by position, and they are sorted like that.
Lists(at, R, pos) ==
    LET n == Cardinality(R)
    IN /\ at \in [1..n -> R]
       /\ Sorted(R) = [k \in 1..n |-> at[k].zone]
       /\ \A k, l \in 1..n : k < l => pos[at[k]] < pos[at[l]]
       /\ \A p \in R : \E k \in 1..n : at[k] = p

LEMMA InOrderOfRanks ==
    ASSUME NEW R, IsFiniteSet(R), NEW pos \in [R -> Int], \A p, q \in R : pos[p] = pos[q] => p = q,
           \A p, q \in R : Lower(p.rank, q.rank) <=> pos[p] < pos[q]
    PROVE  Cardinality(R) \in Nat /\ \E at : Lists(at, R, pos)
<1> DEFINE n == Cardinality(R)
           below(p) == {q \in R : Lower(q.rank, p.rank)}
           place == [p \in R |-> Cardinality(below(p)) + 1]
<1>1. n \in Nat
    BY FS_CardinalityType
<1>2. \A p \in R : IsFiniteSet(below(p)) /\ Cardinality(below(p)) \in Nat
    <2> TAKE p \in R
    <2>1. below(p) \in SUBSET R
        OBVIOUS
    <2> HIDE DEF below
    <2> QED BY <2>1, FS_Subset, FS_CardinalityType
<1>3. ASSUME NEW p \in R PROVE Cardinality(below(p)) < n
    <2>1. below(p) \in SUBSET R /\ p \in R /\ p \notin below(p)
        BY DEF below
    <2> HIDE DEF below
    <2>2. Cardinality(below(p)) <= n /\ Cardinality(below(p)) # n
        BY <2>1, FS_Subset
    <2> QED BY <2>2, <1>1, <1>2
<1>4. ASSUME NEW p \in R, NEW q \in R, pos[p] < pos[q]
      PROVE  Cardinality(below(p)) < Cardinality(below(q))
    <2>1. below(p) \in SUBSET below(q) /\ p \in below(q) /\ p \notin below(p)
        BY <1>4
    <2> HIDE DEF below
    <2>2. Cardinality(below(p)) <= Cardinality(below(q)) /\ Cardinality(below(p)) # Cardinality(below(q))
        BY <2>1, <1>2, FS_Subset
    <2> QED BY <2>2, <1>2
<1> HIDE DEF below
<1>5. place \in [R -> 1..n]
    <2>1. \A p \in R : Cardinality(below(p)) + 1 \in 1..n
        BY <1>1, <1>2, <1>3
    <2> QED BY <2>1
<1>6. \A p, q \in R : place[p] = place[q] => p = q
    <2> SUFFICES ASSUME NEW p \in R, NEW q \in R, place[p] = place[q] PROVE pos[p] = pos[q]
        OBVIOUS
    <2>1. Cardinality(below(p)) = Cardinality(below(q))
        BY <1>2
    <2>2. pos[p] \in Int /\ pos[q] \in Int
        OBVIOUS
    <2> QED BY <2>1, <2>2, <1>2, <1>4
<1>7. place \in Injection(R, 1..n)
    BY <1>5, <1>6 DEF Injection, IsInjective
<1>8. IsFiniteSet(1..n) /\ Cardinality(1..n) = n
    BY <1>1, FS_Interval
<1>9. place \in Surjection(R, 1..n)
    <2> HIDE DEF place, n
    <2> QED BY <1>7, <1>8, FS_Injection DEF n
<1>10. \A k \in 1..n : \E p \in R : place[p] = k
    <2> HIDE DEF place, n
    <2> QED BY <1>9 DEF Surjection
<1> DEFINE at == [k \in 1..n |-> CHOOSE p \in R : Cardinality({q \in R : Lower(q.rank, p.rank)}) = k - 1]
<1>11. \A k \in 1..n : at[k] \in R /\ place[at[k]] = k
    <2> TAKE k \in 1..n
    <2>1. PICK p \in R : place[p] = k
        BY <1>10
    <2>2. Cardinality(below(p)) = k - 1
        BY <2>1, <1>2
    <2>3. \E r \in R : Cardinality({q \in R : Lower(q.rank, r.rank)}) = k - 1
        BY <2>2 DEF below
    <2>4. at[k] = CHOOSE r \in R : Cardinality({q \in R : Lower(q.rank, r.rank)}) = k - 1
        OBVIOUS
    <2> HIDE DEF at
    <2>5. at[k] \in R /\ Cardinality({q \in R : Lower(q.rank, at[k].rank)}) = k - 1
        BY <2>3, <2>4
    <2>6. Cardinality(below(at[k])) = k - 1
        BY <2>5 DEF below
    <2> QED BY <2>5, <2>6
<1>12. Sorted(R) = [k \in 1..n |-> at[k].zone]
    BY DEF Sorted
<1> HIDE DEF at
<1>13. at \in [1..n -> R]
    BY <1>11 DEF at
<1>14. \A k, l \in 1..n : k < l => pos[at[k]] < pos[at[l]]
    <2> SUFFICES ASSUME NEW k \in 1..n, NEW l \in 1..n, k < l, ~ pos[at[k]] < pos[at[l]] PROVE FALSE
        OBVIOUS
    <2>1. at[k] \in R /\ at[l] \in R /\ place[at[k]] = k /\ place[at[l]] = l
        BY <1>11
    <2>2. pos[at[k]] \in Int /\ pos[at[l]] \in Int
        BY <2>1
    <2>3. pos[at[l]] < pos[at[k]] \/ at[k] = at[l]
        BY <2>1, <2>2
    <2>4. CASE at[k] = at[l]
        BY <2>1, <2>4
    <2>5. CASE pos[at[l]] < pos[at[k]]
        <3>1. Cardinality(below(at[l])) < Cardinality(below(at[k]))
            BY <2>1, <2>5, <1>4
        <3>2. place[at[l]] = Cardinality(below(at[l])) + 1 /\ place[at[k]] = Cardinality(below(at[k])) + 1
            BY <2>1
        <3>3. Cardinality(below(at[l])) \in Nat /\ Cardinality(below(at[k])) \in Nat
            BY <2>1, <1>2
        <3> HIDE DEF place
        <3> QED BY <3>1, <3>2, <3>3, <2>1
    <2> QED BY <2>3, <2>4, <2>5
<1>15. \A p \in R : \E k \in 1..n : at[k] = p
    <2> TAKE p \in R
    <2>1. place[p] \in 1..n
        BY <1>5
    <2> WITNESS place[p] \in 1..n
    <2>2. at[place[p]] \in R /\ place[at[place[p]]] = place[p]
        BY <1>11, <2>1
    <2> QED BY <2>2, <1>6
<1>16. Lists(at, R, pos)
    BY <1>12, <1>13, <1>14, <1>15 DEF Lists
<1> QED BY <1>1, <1>16

LEMMA FewZones == \A M : M \subseteq Zones => IsFiniteSet(M)
<1>1. Len(Ids) \in Nat /\ DOMAIN Ids = 1..Len(Ids)
    BY RegionsAssumption
<1>2. Ids \in Surjection(1..Len(Ids), Zones)
    <2>1. Ids \in [1..Len(Ids) -> Zones]
        BY <1>1, RegionsAssumption DEF Zones
    <2>2. \A z \in Zones : \E n \in 1..Len(Ids) : Ids[n] = z
        BY <1>1 DEF Zones, Range
    <2> QED BY <2>1, <2>2 DEF Surjection
<1>3. IsFiniteSet(1..Len(Ids))
    BY <1>1, FS_Interval
<1>4. IsFiniteSet(Zones)
    BY <1>2, <1>3, FS_Surjection
<1> QED BY <1>4, FS_Subset

\* ids is a set of zones by their positions.
ByPosition(ids, M, pos) ==
    /\ Len(ids) \in Nat /\ ids \in [1..Len(ids) -> M]
    /\ \A k, l \in 1..Len(ids) : k < l => pos[ids[k]] < pos[ids[l]]
    /\ \A z \in M : \E k \in 1..Len(ids) : ids[k] = z

LEMMA SortedZones ==
    ASSUME NEW M, M \subseteq Zones, NEW rank, NEW pos \in [M -> Int],
           \A y, z \in M : pos[y] = pos[z] => y = z,
           \A y, z \in M : Lower(rank[y], rank[z]) <=> pos[y] < pos[z]
    PROVE  ByPosition(Sorted({[zone |-> z, rank |-> rank[z]] : z \in M}), M, pos)
<1> DEFINE R == {[zone |-> z, rank |-> rank[z]] : z \in M}
           entry == [z \in M |-> [zone |-> z, rank |-> rank[z]]]
           where == [p \in R |-> pos[p.zone]]
           ids == Sorted(R)
<1>1. \A p \in R : p.zone \in M /\ p.rank = rank[p.zone] /\ entry[p.zone] = p
    OBVIOUS
<1>2. \A z \in M : entry[z] \in R /\ entry[z].zone = z
    OBVIOUS
<1>3. IsFiniteSet(R)
    <2>1. entry \in Surjection(M, R)
        BY <1>1, <1>2 DEF Surjection
    <2>2. IsFiniteSet(M)
        BY FewZones
    <2> HIDE DEF R, entry
    <2> QED BY <2>1, <2>2, FS_Surjection
<1> HIDE DEF entry
<1>4. where \in [R -> Int]
    BY <1>1
<1>5. \A p, q \in R : where[p] = where[q] => p = q
    <2> TAKE p, q \in R
    <2>1. where[p] = pos[p.zone] /\ where[q] = pos[q.zone]
        OBVIOUS
    <2>2. p.zone \in M /\ q.zone \in M /\ entry[p.zone] = p /\ entry[q.zone] = q
        BY <1>1
    <2> HIDE DEF where, R
    <2> QED BY <2>1, <2>2
<1>6. \A p, q \in R : Lower(p.rank, q.rank) <=> where[p] < where[q]
    <2> TAKE p, q \in R
    <2>1. where[p] = pos[p.zone] /\ where[q] = pos[q.zone]
        OBVIOUS
    <2> HIDE DEF where, R
    <2> QED BY <2>1, <1>1
<1> HIDE DEF R, where, ids
<1>0. \E at : Lists(at, R, where)
    BY <1>3, <1>4, <1>5, <1>6, InOrderOfRanks
<1> DEFINE n == Cardinality(R)
<1>7. n \in Nat
    BY <1>3, <1>4, <1>5, <1>6, InOrderOfRanks
<1>8. PICK at \in [1..n -> R] :
        /\ ids = [k \in 1..n |-> at[k].zone]
        /\ \A k, l \in 1..n : k < l => where[at[k]] < where[at[l]]
        /\ \A p \in R : \E k \in 1..n : at[k] = p
    BY <1>0 DEF ids, Lists
<1> HIDE DEF n
<1>9. Len(ids) = n
    BY <1>7, <1>8
<1>10. \A k \in 1..n : ids[k] = at[k].zone /\ at[k] \in R
    BY <1>8
<1>11. ids \in [1..n -> M]
    BY <1>8, <1>10, <1>1
<1>12. \A p \in R : where[p] = pos[p.zone]
    BY DEF where
<1>13. \A k, l \in 1..n : k < l => pos[ids[k]] < pos[ids[l]]
    BY <1>8, <1>10, <1>12
<1>14. \A z \in M : \E k \in 1..n : ids[k] = z
    <2> TAKE z \in M
    <2>1. PICK k \in 1..n : at[k] = entry[z]
        BY <1>2, <1>8
    <2> QED BY <2>1, <1>2, <1>10
<1>15. ByPosition(ids, M, pos)
    BY <1>7, <1>9, <1>11, <1>13, <1>14 DEF ByPosition
<1> QED BY <1>15 DEF ids, R

(* Kinds of lines.                                                                  *)

LEMMA LineKinds ==
    /\ \A z \in Zones : /\ Start(z) \in Solid /\ Start(z).kind = "start" /\ Start(z).id = z
                        /\ End(z) \in Solid /\ End(z).kind = "end" /\ End(z).id = z
    /\ \A z \in Zones, v \in Versions :
            AutoLine(z, v) \in Solid /\ AutoLine(z, v).kind = "auto" /\ AutoLine(z, v).id = z
    /\ \A x \in Hands : x \in Solid /\ x.kind = "hand"
    /\ Blank.kind = "blank"
<1>1. \A z \in Zones : Start(z) \in Solid /\ End(z) \in Solid
    BY DEF Solid, Sigil
<1>2. \A z \in Zones, v \in Versions : AutoLine(z, v) \in Solid
    BY DEF Solid, Generated
<1>3. \A z : /\ Start(z).kind = "start" /\ Start(z).id = z
             /\ End(z).kind = "end" /\ End(z).id = z
    BY DEF Start, End
<1>4. \A z, v : AutoLine(z, v).kind = "auto" /\ AutoLine(z, v).id = z
    BY DEF AutoLine
<1>5. \A x \in Hands : x \in Solid /\ x.kind = "hand"
    BY DEF Solid, Hands, Hand
<1>6. Blank.kind = "blank"
    BY DEF Blank
<1> QED BY <1>1, <1>2, <1>3, <1>4, <1>5, <1>6

LEMMA SolidKinds ==
    ASSUME NEW x \in Solid
    PROVE  /\ x # Blank
           /\ \/ x.kind = "start" /\ x.id \in Zones /\ x = Start(x.id)
              \/ x.kind = "end" /\ x.id \in Zones /\ x = End(x.id)
              \/ x.kind = "auto" /\ x.id \in Zones /\ \E v \in Versions : x = AutoLine(x.id, v)
              \/ x.kind = "hand" /\ x \in Hands
<1>1. CASE x \in Sigil
    <2>1. PICK z \in Zones : x = Start(z) \/ x = End(z)
        BY <1>1 DEF Sigil
    <2> QED BY <2>1 DEF Start, End, Blank
<1>2. CASE x \in Generated
    <2>1. PICK z \in Zones, v \in Versions : x = AutoLine(z, v)
        BY <1>2 DEF Generated
    <2>2. x.kind = "auto" /\ x.id = z
        BY <2>1 DEF AutoLine
    <2>3. x # Blank
        BY <2>2 DEF Blank
    <2> QED BY <2>1, <2>2, <2>3
<1>3. CASE x \in Hands
    BY <1>3 DEF Hands, Hand, Blank
<1> QED BY <1>1, <1>2, <1>3 DEF Solid

LEMMA SolidLines == \A x : x \in Lines /\ x # Blank <=> x \in Solid
BY SolidKinds DEF Lines

-----------------------------------------------------------------------------
(* Files in which every line but blank ones is there once, and their zones.        *)

Distinct(f) == \A m, n \in DOMAIN f : f[m] = f[n] => m = n \/ f[m] = Blank

Own(f) == Range(f) \ {Blank}

Places(f) == [x \in Own(f) |-> CHOOSE n \in DOMAIN f : f[n] = x]

LEMMA PlacesOf ==
    ASSUME NEW f \in Seq(Lines), Distinct(f)
    PROVE  /\ Own(f) \subseteq Solid
           /\ \A x \in Own(f) : Places(f)[x] \in 1..Len(f) /\ f[Places(f)[x]] = x
           /\ \A n \in 1..Len(f) : f[n] # Blank => f[n] \in Own(f) /\ Places(f)[f[n]] = n
           /\ \A x, y \in Own(f) : Places(f)[x] = Places(f)[y] => x = y
           /\ \A x, y \in Own(f) : Before(f, x, y) <=> Places(f)[x] < Places(f)[y]
<1>1. DOMAIN f = 1..Len(f) /\ Len(f) \in Nat /\ \A n \in 1..Len(f) : f[n] \in Lines
    OBVIOUS
<1>2. Own(f) \subseteq Solid
    BY <1>1, SolidLines DEF Own, Range
<1>3. \A x \in Own(f) : Places(f)[x] \in 1..Len(f) /\ f[Places(f)[x]] = x
    <2> TAKE x \in Own(f)
    <2>1. \E n \in DOMAIN f : f[n] = x
        BY DEF Own, Range
    <2>2. Places(f)[x] = CHOOSE n \in DOMAIN f : f[n] = x
        BY DEF Places
    <2> QED BY <2>1, <2>2, <1>1
<1>4. \A n \in 1..Len(f) : f[n] # Blank => f[n] \in Own(f) /\ Places(f)[f[n]] = n
    <2> TAKE n \in 1..Len(f)
    <2> HAVE f[n] # Blank
    <2>1. f[n] \in Own(f)
        BY <1>1 DEF Own, Range
    <2>2. Places(f)[f[n]] \in 1..Len(f) /\ f[Places(f)[f[n]]] = f[n]
        BY <2>1, <1>3
    <2> QED BY <2>1, <2>2, <1>1 DEF Distinct
<1>5. \A x, y \in Own(f) : Places(f)[x] = Places(f)[y] => x = y
    BY <1>3
<1>6. ASSUME NEW x \in Own(f), NEW y \in Own(f)
      PROVE  Before(f, x, y) <=> Places(f)[x] < Places(f)[y]
    <2>1. ASSUME Before(f, x, y) PROVE Places(f)[x] < Places(f)[y]
        <3>1. PICK m \in DOMAIN f, n \in DOMAIN f : m < n /\ f[m] = x /\ f[n] = y
            BY <2>1 DEF Before
        <3>2. x # Blank /\ y # Blank
            BY DEF Own
        <3>3. Places(f)[x] = m /\ Places(f)[y] = n
            BY <3>1, <3>2, <1>1, <1>4
        <3> QED BY <3>1, <3>3
    <2>2. ASSUME Places(f)[x] < Places(f)[y] PROVE Before(f, x, y)
        BY <2>2, <1>1, <1>3 DEF Before
    <2> QED BY <2>1, <2>2
<1> QED BY <1>2, <1>3, <1>4, <1>5, <1>6

\* A part of such a file, by other keys that have the same order.
LEMMA KeyedSubstring ==
    ASSUME NEW f \in Seq(Lines), Distinct(f), NEW i \in 0..Len(f), NEW j \in i..Len(f),
           NEW X, NEW key, Keys(X, key), NEW lo, NEW hi,
           \A x \in Own(f) : i < Places(f)[x] /\ Places(f)[x] <= j => x \in X /\ lo < key[x] /\ key[x] <= hi,
           \A x \in X : lo < key[x] /\ key[x] <= hi =>
                x \in Own(f) /\ i < Places(f)[x] /\ Places(f)[x] <= j,
           \A x, y \in Own(f) :
                i < Places(f)[x] /\ Places(f)[x] <= j /\ i < Places(f)[y] /\ Places(f)[y] <= j =>
                    (key[x] < key[y] <=> Places(f)[x] < Places(f)[y])
    PROVE  Keyed(Substring(f, i, j), X, key, lo, hi)
<1> DEFINE s == Substring(f, i, j)
           at == Places(f)
<1>1. /\ s \in Seq(Lines)
      /\ \A x : x \in Range(s) <=> \E n \in (i + 1)..j : f[n] = x
      /\ \A x, y : Before(s, x, y) <=> \E m, n \in (i + 1)..j : m < n /\ f[m] = x /\ f[n] = y
    <2> SUFFICES /\ Substring(f, i, j) \in Seq(Lines)
                 /\ \A x : x \in Range(Substring(f, i, j)) <=> \E n \in (i + 1)..j : f[n] = x
                 /\ \A x, y : Before(Substring(f, i, j), x, y) <=>
                      \E m, n \in (i + 1)..j : m < n /\ f[m] = x /\ f[n] = y
        OBVIOUS
    <2> HIDE DEF s, at
    <2> QED BY ONLY SubstringOrder, f \in Seq(Lines), i \in 0..Len(f), j \in i..Len(f)
<1>2. i \in Int /\ j \in Int /\ i <= j /\ j <= Len(f) /\ 0 <= i /\ Len(f) \in Nat
    OBVIOUS
<1>3. \A x \in Own(f) : at[x] \in 1..Len(f) /\ f[at[x]] = x
    BY PlacesOf
<1>4. \A n \in 1..Len(f) : f[n] # Blank => f[n] \in Own(f) /\ at[f[n]] = n
    BY PlacesOf
<1> HIDE DEF at
<1>5. ASSUME NEW x, x # Blank
      PROVE  x \in Range(s) <=> x \in Own(f) /\ i < at[x] /\ at[x] <= j
    <2>1. x \in Range(s) <=> \E n \in (i + 1)..j : f[n] = x
        BY <1>1
    <2>2. ASSUME NEW n \in (i + 1)..j, f[n] = x PROVE x \in Own(f) /\ i < at[x] /\ at[x] <= j
        <3>1. n \in 1..Len(f)
            BY <1>2
        <3> QED BY <3>1, <2>2, <1>2, <1>4, <1>5
    <2>3. ASSUME x \in Own(f) /\ i < at[x] /\ at[x] <= j PROVE \E n \in (i + 1)..j : f[n] = x
        <3>1. at[x] \in (i + 1)..j
            BY <2>3, <1>2, <1>3
        <3> QED BY <3>1, <2>3, <1>3
    <2> QED BY <2>1, <2>2, <2>3
<1>6. ASSUME NEW x \in Own(f), NEW y \in Own(f), x \in Range(s), y \in Range(s)
      PROVE  Before(s, x, y) <=> at[x] < at[y]
    <2>0. x # Blank /\ y # Blank
        BY DEF Own
    <2>1. Before(s, x, y) <=> \E m, n \in (i + 1)..j : m < n /\ f[m] = x /\ f[n] = y
        BY <1>1
    <2>2. at[x] \in (i + 1)..j /\ at[y] \in (i + 1)..j
        BY <1>2, <1>3, <1>5, <1>6, <2>0
    <2>3. ASSUME NEW m \in (i + 1)..j, NEW n \in (i + 1)..j, m < n, f[m] = x, f[n] = y PROVE at[x] < at[y]
        <3>1. m \in 1..Len(f) /\ n \in 1..Len(f)
            BY <1>2
        <3> QED BY <3>1, <2>3, <1>4, <2>0
    <2>4. at[x] < at[y] => \E m, n \in (i + 1)..j : m < n /\ f[m] = x /\ f[n] = y
        BY <2>2, <1>3
    <2> QED BY <2>1, <2>3, <2>4
<1> HIDE DEF s
<1>7. \A x \in Range(s) : x # Blank => x \in X /\ lo < key[x] /\ key[x] <= hi
    BY <1>5 DEF at
<1>8. \A x \in X : lo < key[x] /\ key[x] <= hi => x \in Range(s)
    BY <1>5 DEF at, Keys
<1>9. ASSUME NEW x \in X, NEW y \in X, x \in Range(s), y \in Range(s)
      PROVE  Before(s, x, y) <=> key[x] < key[y]
    <2>1. x # Blank /\ y # Blank
        BY DEF Keys
    <2>2. /\ x \in Own(f) /\ i < at[x] /\ at[x] <= j
          /\ y \in Own(f) /\ i < at[y] /\ at[y] <= j
        BY <1>5, <1>9, <2>1
    <2>3. key[x] < key[y] <=> at[x] < at[y]
        BY <2>2 DEF at
    <2> QED BY <2>2, <2>3, <1>6, <1>9
<1> QED BY <1>1, <1>7, <1>8, <1>9 DEF Keyed, s

\* The zones with both sigils.
Sound(f, z) == Start(z) \in Own(f) /\ End(z) \in Own(f)

\* Between the sigils of a zone are its own lines only, and those are nowhere else.
Whole(f) == \A z \in Zones : Sound(f, z) =>
    /\ Places(f)[Start(z)] < Places(f)[End(z)]
    /\ \A x \in Own(f) : x.kind = "auto" /\ x.id = z <=>
          Places(f)[Start(z)] < Places(f)[x] /\ Places(f)[x] < Places(f)[End(z)]

\* No zone has one sigil, or lines and no sigils.
Paired(f) == \A z \in Zones :
    /\ Start(z) \in Own(f) <=> End(z) \in Own(f)
    /\ \A x \in Own(f) : x.kind = "auto" /\ x.id = z => Start(z) \in Own(f)

WellFormed(f) == f \in Seq(Lines) /\ Distinct(f) /\ Whole(f)

LEMMA KeyedFile ==
    ASSUME NEW X, NEW key, Keys(X, key), NEW lo, NEW hi, NEW s, Keyed(s, X, key, lo, hi),
           \A x \in X : lo < key[x] /\ key[x] <= hi
    PROVE  /\ s \in Seq(Lines) /\ Distinct(s) /\ Own(s) = X
           /\ \A x, y \in X : Places(s)[x] < Places(s)[y] <=> key[x] < key[y]
<1>1. s \in Seq(Lines)
    BY DEF Keyed
<1>2. DOMAIN s = 1..Len(s) /\ Len(s) \in Nat
    BY <1>1
<1>3. Own(s) = X
    BY DEF Keyed, Own, Keys
<1>4. Distinct(s)
    <2> SUFFICES ASSUME NEW m \in DOMAIN s, NEW n \in DOMAIN s, s[m] = s[n], m # n, s[m] # Blank
                 PROVE  FALSE
        BY DEF Distinct
    <2>1. s[m] \in X /\ s[m] \in Range(s)
        BY <1>3 DEF Own, Range
    <2>2. m < n \/ n < m
        BY <1>2
    <2>3. Before(s, s[m], s[m])
        BY <2>2 DEF Before
    <2>4. key[s[m]] < key[s[m]]
        BY <2>1, <2>3 DEF Keyed
    <2>5. key[s[m]] \in Int
        BY <2>1 DEF Keys
    <2> QED BY <2>4, <2>5
<1>5. ASSUME NEW x \in X, NEW y \in X PROVE Places(s)[x] < Places(s)[y] <=> key[x] < key[y]
    <2>1. x \in Own(s) /\ y \in Own(s) /\ x \in Range(s) /\ y \in Range(s)
        BY <1>3 DEF Own
    <2>2. Before(s, x, y) <=> Places(s)[x] < Places(s)[y]
        BY <2>1, <1>1, <1>4, PlacesOf
    <2>3. Before(s, x, y) <=> key[x] < key[y]
        BY <2>1 DEF Keyed
    <2> QED BY <2>2, <2>3
<1> QED BY <1>1, <1>3, <1>4, <1>5

LEMMA WholeByKeys ==
    ASSUME NEW X, NEW key, Keys(X, key), NEW lo, NEW hi, NEW s, Keyed(s, X, key, lo, hi),
           \A x \in X : lo < key[x] /\ key[x] <= hi,
           \A z \in Zones : Start(z) \in X /\ End(z) \in X =>
              /\ key[Start(z)] < key[End(z)]
              /\ \A x \in X : x.kind = "auto" /\ x.id = z <=> key[Start(z)] < key[x] /\ key[x] < key[End(z)]
    PROVE  WellFormed(s) /\ Own(s) = X
<1>1. /\ s \in Seq(Lines) /\ Distinct(s) /\ Own(s) = X
      /\ \A x, y \in X : Places(s)[x] < Places(s)[y] <=> key[x] < key[y]
    BY KeyedFile
<1>2. Whole(s)
    BY <1>1 DEF Whole, Sound
<1> QED BY <1>1, <1>2 DEF WellFormed

LEMMA InOrderOf ==
    ASSUME NEW f \in Seq(Lines), Distinct(f), NEW K, K \subseteq Solid
    PROVE  InOrder(f, K) = [lines |-> Own(f) \intersect K,
                            after |-> {p \in (Own(f) \intersect K) \X (Own(f) \intersect K) :
                                          Places(f)[p[1]] < Places(f)[p[2]]}]
<1> DEFINE own == {n \in DOMAIN f : f[n] \in K}
           at == Places(f)
           M == Own(f) \intersect K
           pairs == {d \in own \X own : d[1] < d[2]}
           after == {<<f[d[1]], f[d[2]]>> : d \in pairs}
           behind == {p \in M \X M : at[p[1]] < at[p[2]]}
<1>1. DOMAIN f = 1..Len(f) /\ Len(f) \in Nat
    OBVIOUS
<1>2. \A n \in own : f[n] \in M /\ at[f[n]] = n
    <2> TAKE n \in own
    <2>1. n \in 1..Len(f) /\ f[n] # Blank /\ f[n] \in K
        BY <1>1, SolidKinds
    <2> QED BY <2>1, PlacesOf
<1>3. \A x \in M : at[x] \in own /\ f[at[x]] = x
    BY <1>1, PlacesOf
<1>4. InOrder(f, K) = [lines |-> {f[n] : n \in own}, after |-> after]
    BY DEF InOrder
<1>5. {f[n] : n \in own} = M
    <2> HIDE DEF own, at, M
    <2> QED BY <1>2, <1>3
<1>6. ASSUME NEW p \in after
      PROVE  p \in behind
    <2>1. PICK d \in pairs : p = <<f[d[1]], f[d[2]]>>
        OBVIOUS
    <2>2. d[1] \in own /\ d[2] \in own /\ d[1] < d[2]
        OBVIOUS
    <2> HIDE DEF own, at, M, pairs
    <2> QED BY <2>1, <2>2, <1>2
<1>7. ASSUME NEW p \in behind
      PROVE  p \in after
    <2>1. p = <<p[1], p[2]>> /\ p[1] \in M /\ p[2] \in M /\ at[p[1]] < at[p[2]]
        OBVIOUS
    <2>2. at[p[1]] \in own /\ at[p[2]] \in own /\ f[at[p[1]]] = p[1] /\ f[at[p[2]]] = p[2]
        BY <1>3, <2>1
    <2>3. <<at[p[1]], at[p[2]]>> \in pairs
        BY <2>1, <2>2
    <2> HIDE DEF own, at, M, pairs
    <2> DEFINE d == <<at[p[1]], at[p[2]]>>
    <2>4. d \in pairs /\ p = <<f[d[1]], f[d[2]]>>
        BY <2>1, <2>2, <2>3
    <2> QED BY <2>4
<1> HIDE DEF own, pairs, after, behind
<1>8. after = behind
    BY <1>6, <1>7
<1> QED BY <1>4, <1>5, <1>8 DEF behind

LEMMA SameOrder ==
    ASSUME NEW f \in Seq(Lines), Distinct(f), NEW g \in Seq(Lines), Distinct(g),
           NEW K, K \subseteq Solid,
           Own(f) \intersect K = Own(g) \intersect K,
           \A x, y \in Own(f) \intersect K :
                Places(f)[x] < Places(f)[y] <=> Places(g)[x] < Places(g)[y]
    PROVE  InOrder(f, K) = InOrder(g, K)
<1> DEFINE M == Own(f) \intersect K
           behind(h) == {p \in M \X M : Places(h)[p[1]] < Places(h)[p[2]]}
<1>1. InOrder(f, K) = [lines |-> M, after |-> behind(f)]
    BY InOrderOf
<1>2. InOrder(g, K) = [lines |-> M, after |-> behind(g)]
    BY InOrderOf
<1>3. \A x, y \in M : Places(f)[x] < Places(f)[y] <=> Places(g)[x] < Places(g)[y]
    OBVIOUS
<1>4. behind(f) = behind(g)
    <2> HIDE DEF M
    <2> QED BY <1>3
<1> QED BY <1>1, <1>2, <1>4

-----------------------------------------------------------------------------
(* Sigils.                                                                          *)

LEMMA LineStartOf ==
    ASSUME NEW f \in Seq(Lines), NEW n \in 1..Len(f)
    PROVE  /\ LineStart(f, n) \in 0..(n - 1)
           /\ \A k \in (LineStart(f, n) + 1)..(n - 1) : f[k] = Blank
           /\ LineStart(f, n) > 0 => f[LineStart(f, n)] # Blank
<1> DEFINE T == {m \in 0..(n - 1) : \A k \in (m + 1)..(n - 1) : f[k] = Blank}
           P(m) == (\A k \in (m + 1)..(n - 1) : f[k] = Blank) /\ (m > 0 => f[m] # Blank)
<1>1. n - 1 \in T
    OBVIOUS
<1>2. PICK m \in T : \A k \in T : m <= k
    <2>1. T \subseteq Nat
        OBVIOUS
    <2> HIDE DEF T
    <2> QED BY <1>1, <2>1, Least
<1>3. m \in 0..(n - 1)
    OBVIOUS
<1>4. ASSUME m > 0, f[m] = Blank PROVE FALSE
    <2>1. m - 1 \in 0..(n - 1) /\ ~ m <= m - 1
        BY <1>3, <1>4
    <2>2. \A k \in ((m - 1) + 1)..(n - 1) : f[k] = Blank
        <3> TAKE k \in ((m - 1) + 1)..(n - 1)
        <3>1. k = m \/ k \in (m + 1)..(n - 1)
            BY <1>3
        <3> QED BY <3>1, <1>4
    <2>3. m - 1 \in T
        BY <2>1, <2>2
    <2> QED BY <2>1, <2>3, <1>2
<1>5. P(m)
    BY <1>4
<1>6. LineStart(f, n) = CHOOSE k \in 0..(n - 1) : P(k)
    BY DEF LineStart
<1> HIDE DEF T, P
<1>7. LineStart(f, n) \in 0..(n - 1) /\ P(LineStart(f, n))
    BY <1>3, <1>5, <1>6
<1> QED BY <1>7 DEF P

LEMMA OneOfThem ==
    ASSUME NEW n \in Int
    PROVE  (CHOOSE k \in {n} : \A m \in {n} : m <= k) = n
OBVIOUS

LEMMA PairOf ==
    ASSUME NEW f \in Seq(Lines), Distinct(f), NEW z \in Zones
    PROVE  /\ Start(z) \in Own(f) =>
                /\ Pair(f, z).startLineEnd = Places(f)[Start(z)]
                /\ Pair(f, z).startOffset = LineStart(f, Places(f)[Start(z)])
           /\ Start(z) \notin Own(f) => Pair(f, z).startLineEnd = 0
           /\ End(z) \in Own(f) =>
                /\ Pair(f, z).endLineEnd = Places(f)[End(z)]
                /\ Pair(f, z).endLineStart = LineStart(f, Places(f)[End(z)])
           /\ End(z) \notin Own(f) => Pair(f, z).endLineEnd = 0 /\ Pair(f, z).endLineStart = 0
<1> DEFINE starts == {n \in 1..Len(f) : f[n] = Start(z)}
           ends == {n \in 1..Len(f) : f[n] = End(z)}
           Latest(S) == CHOOSE n \in S : \A m \in S : m <= n
<1>1. Pair(f, z) = [startOffset |-> IF starts = {} THEN 0 ELSE LineStart(f, Latest(starts)),
                    startLineEnd |-> IF starts = {} THEN 0 ELSE Latest(starts),
                    endLineStart |-> IF ends = {} THEN 0 ELSE LineStart(f, Latest(ends)),
                    endLineEnd |-> IF ends = {} THEN 0 ELSE Latest(ends)]
    BY DEF Pair
<1>2. Start(z) # Blank /\ End(z) # Blank
    BY LineKinds, SolidKinds
<1>3. DOMAIN f = 1..Len(f)
    OBVIOUS
<1>4. ASSUME NEW l, l # Blank, l \in Own(f)
      PROVE  /\ {n \in 1..Len(f) : f[n] = l} = {Places(f)[l]}
             /\ Latest({n \in 1..Len(f) : f[n] = l}) = Places(f)[l]
    <2>1. Places(f)[l] \in 1..Len(f) /\ f[Places(f)[l]] = l
        BY <1>4, PlacesOf
    <2>2. \A n \in 1..Len(f) : f[n] = l => Places(f)[l] = n
        BY <1>4, PlacesOf
    <2>3. {n \in 1..Len(f) : f[n] = l} = {Places(f)[l]}
        BY <2>1, <2>2
    <2> QED BY <2>1, <2>3, OneOfThem
<1>5. ASSUME NEW l, l # Blank, l \notin Own(f)
      PROVE  {n \in 1..Len(f) : f[n] = l} = {}
    BY <1>3, <1>5 DEF Own, Range
<1>6. Start(z) \in Own(f) => starts # {} /\ Latest(starts) = Places(f)[Start(z)]
    BY <1>2, <1>4
<1>7. End(z) \in Own(f) => ends # {} /\ Latest(ends) = Places(f)[End(z)]
    BY <1>2, <1>4
<1>8. Start(z) \notin Own(f) => starts = {}
    BY <1>2, <1>5
<1>9. End(z) \notin Own(f) => ends = {}
    BY <1>2, <1>5
<1> HIDE DEF starts, ends, Latest
<1> QED BY <1>1, <1>6, <1>7, <1>8, <1>9

LEMMA SigilsOf ==
    ASSUME NEW f \in Seq(Lines), Distinct(f)
    PROVE  /\ OnDisk(f) \subseteq Zones
           /\ \A z \in Zones : z \in OnDisk(f) <=> Start(z) \in Own(f) \/ End(z) \in Own(f)
<1>1. \A n \in 1..Len(f) : f[n] \in Lines
    OBVIOUS
<1>2. DOMAIN f = 1..Len(f)
    OBVIOUS
<1>3. \A n \in Sigils(f) : n \in 1..Len(f) /\ f[n] \in Solid /\ f[n] \in Own(f)
    <2> TAKE n \in Sigils(f)
    <2>1. n \in 1..Len(f) /\ f[n].kind \in {"start", "end"}
        BY DEF Sigils
    <2>2. f[n] # Blank
        BY <2>1, LineKinds
    <2> QED BY <2>1, <2>2, <1>1, <1>2, SolidLines DEF Own, Range
<1>4. \A n \in Sigils(f) : f[n].id \in Zones /\ f[n] \in {Start(f[n].id), End(f[n].id)}
    <2> TAKE n \in Sigils(f)
    <2>1. f[n].kind \in {"start", "end"} /\ f[n] \in Solid
        BY <1>3 DEF Sigils
    <2> QED BY <2>1, SolidKinds
<1>5. OnDisk(f) \subseteq Zones
    BY <1>4 DEF OnDisk
<1>6. ASSUME NEW z \in Zones, z \in OnDisk(f) PROVE Start(z) \in Own(f) \/ End(z) \in Own(f)
    <2>1. PICK n \in Sigils(f) : f[n].id = z
        BY <1>6 DEF OnDisk
    <2> QED BY <2>1, <1>3, <1>4
<1>7. ASSUME NEW z \in Zones, NEW l \in {Start(z), End(z)}, l \in Own(f) PROVE z \in OnDisk(f)
    <2>1. Places(f)[l] \in 1..Len(f) /\ f[Places(f)[l]] = l
        BY <1>7, PlacesOf
    <2>2. Places(f)[l] \in Sigils(f) /\ f[Places(f)[l]].id = z
        BY <2>1, LineKinds DEF Sigils
    <2> QED BY <2>2 DEF OnDisk
<1> QED BY <1>5, <1>6, <1>7

(* The lines of a spliced file: those of f but for the content of the zones Q and    *)
(* the sigils of the zones D, the content of the others of Q, and the zones new at c. *)

Kept(f, Q, D, x) ==
    /\ x \in Own(f)
    /\ x.kind \in {"start", "end"} => x.id \notin D
    /\ x.kind = "auto" => x.id \notin Q

Extra == 3 * Len(Ids)

OldKey(f, c, x) == IF Places(f)[x] <= c THEN 2 * Places(f)[x] ELSE 2 * Places(f)[x] + Extra

KeptKeys(f, Q, D, c, X, key) ==
    \A x \in Solid : Kept(f, Q, D, x) => x \in X /\ key[x] = OldKey(f, c, x)

FilledKeys(f, Q, D, v, X, key) ==
    \A z \in Q \ D : v \notin Void[z] =>
        AutoLine(z, v) \in X /\ key[AutoLine(z, v)] = 2 * Places(f)[Start(z)] + 1

NewKeys(v, new, c, X, key) ==
    \A q \in DOMAIN Ids : Ids[q] \in new =>
        /\ Start(Ids[q]) \in X /\ key[Start(Ids[q])] = 2 * c + 3 * q - 2
        /\ End(Ids[q]) \in X /\ key[End(Ids[q])] = 2 * c + 3 * q
        /\ v \notin Void[Ids[q]] =>
             AutoLine(Ids[q], v) \in X /\ key[AutoLine(Ids[q], v)] = 2 * c + 3 * q - 1

NoOther(f, Q, D, v, new, X) ==
    \A x \in X :
        \/ Kept(f, Q, D, x)
        \/ \E z \in Q \ D : v \notin Void[z] /\ x = AutoLine(z, v)
        \/ \E q \in DOMAIN Ids : Ids[q] \in new /\
             \/ x \in {Start(Ids[q]), End(Ids[q])}
             \/ v \notin Void[Ids[q]] /\ x = AutoLine(Ids[q], v)

SpliceKeys(f, Q, D, v, new, c, X, key) ==
    /\ Keys(X, key)
    /\ KeptKeys(f, Q, D, c, X, key)
    /\ FilledKeys(f, Q, D, v, X, key)
    /\ NewKeys(v, new, c, X, key)
    /\ NoOther(f, Q, D, v, new, X)

\* What is spliced: Q are zones of f, and f has no lines of the new ones.
Spliceable(f, Q, D, v, new) ==
    /\ WellFormed(f)
    /\ Q \subseteq Zones /\ D \subseteq Q /\ new \subseteq Zones
    /\ \A z \in Q : Sound(f, z)
    /\ \A x \in Own(f) : x.kind # "hand" => x.id \notin new
    /\ v \in Versions

LEMMA Indices ==
    /\ Len(Ids) \in Nat /\ DOMAIN Ids = 1..Len(Ids)
    /\ \A q \in DOMAIN Ids : Ids[q] \in Zones
    /\ \A z \in Zones : \E q \in DOMAIN Ids : Ids[q] = z
    /\ \A p, q \in DOMAIN Ids : Ids[p] = Ids[q] => p = q
BY RegionsAssumption DEF Zones, Range, IsInjective

LEMMA KeysExist ==
    ASSUME NEW f, NEW Q, NEW D, NEW v, NEW new, Spliceable(f, Q, D, v, new), NEW c \in Nat
    PROVE  \E X, key : SpliceKeys(f, Q, D, v, new, c, X, key)
<1> DEFINE Index(z) == CHOOSE q \in DOMAIN Ids : Ids[q] = z
           full == {z \in (Q \ D) \union new : v \notin Void[z]}
           old == {x \in Own(f) : Kept(f, Q, D, x)}
           X == old \union {AutoLine(z, v) : z \in full}
                \union {Start(z) : z \in new} \union {End(z) : z \in new}
           added(x) == 2 * c + 3 * Index(x.id)
                       - (IF x.kind = "start" THEN 2 ELSE IF x.kind = "auto" THEN 1 ELSE 0)
           key == [x \in X |->
                IF x.kind # "hand" /\ x.id \in new THEN added(x)
                ELSE IF x.kind = "auto" /\ x.id \in Q THEN 2 * Places(f)[Start(x.id)] + 1
                ELSE OldKey(f, c, x)]
<1>1. f \in Seq(Lines) /\ Distinct(f) /\ Q \subseteq Zones /\ D \subseteq Q /\ new \subseteq Zones /\ v \in Versions
    BY DEF Spliceable, WellFormed
<1>2. \A x \in Own(f) : Places(f)[x] \in 1..Len(f) /\ x \in Solid
    BY <1>1, PlacesOf
<1>3. \A x \in Own(f) : Places(f)[x] \in Nat
    BY <1>1, <1>2
<1>4. Extra \in Nat
    BY Indices DEF Extra
<1>5. \A x \in Own(f) : OldKey(f, c, x) \in Int
    BY <1>3, <1>4 DEF OldKey
<1>6. \A z \in Zones : Index(z) \in DOMAIN Ids /\ Index(z) \in Nat /\ Ids[Index(z)] = z
    <2> TAKE z \in Zones
    <2>1. \E q \in DOMAIN Ids : Ids[q] = z
        BY Indices
    <2>2. Index(z) \in DOMAIN Ids /\ Ids[Index(z)] = z
        BY <2>1
    <2> QED BY <2>2, Indices
<1>7. \A q \in DOMAIN Ids : Index(Ids[q]) = q
    BY <1>6, Indices
<1> HIDE DEF Index
<1>8. \A z \in Q : Start(z) \in Own(f) /\ End(z) \in Own(f)
    BY DEF Spliceable, Sound
<1>9. \A z \in Zones : /\ Start(z).kind = "start" /\ Start(z).id = z /\ Start(z) \in Solid
                       /\ End(z).kind = "end" /\ End(z).id = z /\ End(z) \in Solid
                       /\ AutoLine(z, v).kind = "auto" /\ AutoLine(z, v).id = z /\ AutoLine(z, v) \in Solid
    BY <1>1, LineKinds
<1>10. \A z \in Q : z \notin new
    <2> TAKE z \in Q
    <2>1. Start(z) \in Own(f) /\ Start(z).kind # "hand" /\ Start(z).id = z
        BY <1>1, <1>8, <1>9
    <2> QED BY <2>1 DEF Spliceable
<1>11. \A x \in Own(f) : ~ (x.kind # "hand" /\ x.id \in new)
    BY DEF Spliceable
<1>12. \A x \in old : x \in Own(f) /\ ~ (x.kind = "auto" /\ x.id \in Q)
    BY DEF Kept
<1>13. Blank \notin X
    <2>1. \A x \in X : x \in Solid
        <3>1. \A x \in old : x \in Solid
            BY <1>2
        <3>2. \A z \in full : z \in Zones
            BY <1>1
        <3> HIDE DEF old, full
        <3> QED BY <3>1, <3>2, <1>1, <1>9
    <2> HIDE DEF X
    <2> QED BY <2>1, SolidKinds
<1>14. \A x \in old : key[x] = OldKey(f, c, x) /\ x \in X
    BY <1>11, <1>12
<1>15. \A z \in full : z \in Q => key[AutoLine(z, v)] = 2 * Places(f)[Start(z)] + 1 /\ AutoLine(z, v) \in X
    <2> TAKE z \in full
    <2> HAVE z \in Q
    <2>1. AutoLine(z, v) \in X /\ z \in Zones /\ z \notin new
        BY <1>1, <1>10
    <2> HIDE DEF X, added
    <2> QED BY <2>1, <1>9
<1>16. \A z \in new : /\ Start(z) \in X /\ End(z) \in X
                      /\ key[Start(z)] = 2 * c + 3 * Index(z) - 2
                      /\ key[End(z)] = 2 * c + 3 * Index(z)
    <2> TAKE z \in new
    <2>1. Start(z) \in X /\ End(z) \in X /\ z \in Zones
        BY <1>1
    <2> HIDE DEF X
    <2>2. key[Start(z)] = added(Start(z)) /\ key[End(z)] = added(End(z))
        BY <2>1, <1>9
    <2>3. added(Start(z)) = 2 * c + 3 * Index(z) - 2
        BY <2>1, <1>9
    <2>4. added(End(z)) = 2 * c + 3 * Index(z) - 0
        BY <2>1, <1>9
    <2>5. 2 * c + 3 * Index(z) - 0 = 2 * c + 3 * Index(z)
        BY <2>1, <1>6
    <2> QED BY <2>1, <2>2, <2>3, <2>4, <2>5
<1>17. \A z \in full : z \in new => AutoLine(z, v) \in X /\ key[AutoLine(z, v)] = 2 * c + 3 * Index(z) - 1
    <2> TAKE z \in full
    <2> HAVE z \in new
    <2>1. AutoLine(z, v) \in X /\ z \in Zones
        BY <1>1
    <2> HIDE DEF X
    <2>2. key[AutoLine(z, v)] = added(AutoLine(z, v))
        BY <2>1, <1>9
    <2>3. added(AutoLine(z, v)) = 2 * c + 3 * Index(z) - 1
        BY <2>1, <1>9
    <2> QED BY <2>1, <2>2, <2>3
<1>18. \A x \in X : \/ x \in old
                    \/ \E z \in full : x = AutoLine(z, v)
                    \/ \E z \in new : x = Start(z) \/ x = End(z)
    OBVIOUS
<1>19. full \subseteq (Q \ D) \union new /\ \A z \in full : v \notin Void[z]
    OBVIOUS
<1>20. \A z \in (Q \ D) \union new : v \notin Void[z] => z \in full
    OBVIOUS
<1>21. \A x \in Solid : Kept(f, Q, D, x) => x \in old
    BY DEF Kept
<1>22. \A x \in old : Kept(f, Q, D, x)
    OBVIOUS
<1> HIDE DEF X, key, full, old
<1>23. \A z \in Q \ D : z \in Zones /\ Places(f)[Start(z)] \in Nat
    BY <1>1, <1>3, <1>8
<1>24. Keys(X, key)
    <2>1. \A x \in old : key[x] \in Int
        BY <1>14, <1>12, <1>5
    <2>2. \A z \in full : key[AutoLine(z, v)] \in Int
        <3> TAKE z \in full
        <3>1. CASE z \in Q
            BY <3>1, <1>10, <1>15, <1>19, <1>23
        <3>2. CASE z \in new
            BY <3>2, <1>17, <1>6, <1>1
        <3> QED BY <3>1, <3>2, <1>19
    <2>3. \A z \in new : key[Start(z)] \in Int /\ key[End(z)] \in Int
        BY <1>16, <1>6, <1>1
    <2> QED BY <2>1, <2>2, <2>3, <1>13, <1>18 DEF Keys
<1>25. KeptKeys(f, Q, D, c, X, key)
    BY <1>14, <1>21 DEF KeptKeys
<1>26. FilledKeys(f, Q, D, v, X, key)
    BY <1>15, <1>20 DEF FilledKeys
<1>27. NewKeys(v, new, c, X, key)
    BY <1>7, <1>16, <1>17, <1>20 DEF NewKeys
<1>28. NoOther(f, Q, D, v, new, X)
    <2> SUFFICES ASSUME NEW x \in X
                 PROVE  \/ Kept(f, Q, D, x)
                        \/ \E z \in Q \ D : v \notin Void[z] /\ x = AutoLine(z, v)
                        \/ \E q \in DOMAIN Ids : Ids[q] \in new /\
                             \/ x \in {Start(Ids[q]), End(Ids[q])}
                             \/ v \notin Void[Ids[q]] /\ x = AutoLine(Ids[q], v)
        BY DEF NoOther
    <2>1. CASE x \in old
        BY <2>1, <1>22
    <2>2. CASE \E z \in full : x = AutoLine(z, v)
        <3>1. PICK z \in full : x = AutoLine(z, v)
            BY <2>2
        <3>2. CASE z \in new
            BY <3>1, <3>2, <1>1, <1>6, <1>19
        <3> QED BY <3>1, <3>2, <1>19
    <2>3. CASE \E z \in new : x = Start(z) \/ x = End(z)
        BY <2>3, <1>1, <1>6
    <2> QED BY <2>1, <2>2, <2>3, <1>18
<1> QED BY <1>24, <1>25, <1>26, <1>27, <1>28 DEF SpliceKeys

(* The parts of a spliced file.                                                     *)

Splicing(f, Q, D, v, new, c, X, key) ==
    /\ Spliceable(f, Q, D, v, new)
    /\ c \in 0..Len(f)
    /\ SpliceKeys(f, Q, D, v, new, c, X, key)

\* A part of f up to c.
LEMMA KeyedOld ==
    ASSUME NEW f, NEW Q, NEW D, NEW v, NEW new, NEW c, NEW X, NEW key,
           Splicing(f, Q, D, v, new, c, X, key),
           NEW a \in 0..c, NEW b \in a..c, NEW lo \in Int, NEW hi \in Int, hi <= 2 * c,
           \A x \in Own(f) : a < Places(f)[x] /\ Places(f)[x] <= b =>
                Kept(f, Q, D, x) /\ lo < 2 * Places(f)[x] /\ 2 * Places(f)[x] <= hi,
           \A x \in Own(f) : Kept(f, Q, D, x) /\ lo < 2 * Places(f)[x] /\ 2 * Places(f)[x] <= hi =>
                a < Places(f)[x] /\ Places(f)[x] <= b,
           \A z \in Q \ D : v \notin Void[z] =>
                ~ (lo < 2 * Places(f)[Start(z)] + 1 /\ 2 * Places(f)[Start(z)] + 1 <= hi)
    PROVE  Keyed(Substring(f, a, b), X, key, lo, hi)
<1>1. f \in Seq(Lines) /\ Distinct(f) /\ c \in 0..Len(f) /\ Len(f) \in Nat
    BY DEF Splicing, Spliceable, WellFormed
<1>2. \A x \in Own(f) : x \in Solid /\ Places(f)[x] \in 1..Len(f)
    BY <1>1, PlacesOf
<1>3. \A x \in Own(f) : Kept(f, Q, D, x) => x \in X /\ key[x] = OldKey(f, c, x)
    BY <1>2 DEF Splicing, SpliceKeys, KeptKeys
<1>4. Extra \in Nat
    BY Indices DEF Extra
<1>5. \A x \in Own(f) : Places(f)[x] <= b => OldKey(f, c, x) = 2 * Places(f)[x]
    <2> TAKE x \in Own(f)
    <2> HAVE Places(f)[x] <= b
    <2>1. Places(f)[x] <= c
        BY <1>1, <1>2
    <2> QED BY <2>1 DEF OldKey
<1>6. \A x \in Own(f) : OldKey(f, c, x) <= hi => OldKey(f, c, x) = 2 * Places(f)[x]
    <2> TAKE x \in Own(f)
    <2> HAVE OldKey(f, c, x) <= hi
    <2>1. Places(f)[x] \in Int /\ c \in Int
        BY <1>1, <1>2
    <2> QED BY <2>1, <1>4 DEF OldKey
<1>7. Keys(X, key)
    BY DEF Splicing, SpliceKeys
<1>8. \A x \in Own(f) : a < Places(f)[x] /\ Places(f)[x] <= b => x \in X /\ key[x] = 2 * Places(f)[x]
    BY <1>3, <1>5
<1>9. ASSUME NEW x \in X, lo < key[x], key[x] <= hi
      PROVE  x \in Own(f) /\ a < Places(f)[x] /\ Places(f)[x] <= b
    <2>1. CASE Kept(f, Q, D, x)
        <3>1. x \in Own(f)
            BY <2>1 DEF Kept
        <3>2. key[x] = 2 * Places(f)[x]
            BY <3>1, <2>1, <1>3, <1>6, <1>9
        <3> QED BY <3>1, <3>2, <2>1, <1>9
    <2>2. CASE \E z \in Q \ D : v \notin Void[z] /\ x = AutoLine(z, v)
        BY <2>2, <1>9 DEF Splicing, SpliceKeys, FilledKeys
    <2>3. CASE \E q \in DOMAIN Ids : Ids[q] \in new /\
                 \/ x \in {Start(Ids[q]), End(Ids[q])}
                 \/ v \notin Void[Ids[q]] /\ x = AutoLine(Ids[q], v)
        <3>1. PICK q \in DOMAIN Ids : Ids[q] \in new /\
                 \/ x \in {Start(Ids[q]), End(Ids[q])}
                 \/ v \notin Void[Ids[q]] /\ x = AutoLine(Ids[q], v)
            BY <2>3
        <3>2. key[x] \in {2 * c + 3 * q - 2, 2 * c + 3 * q, 2 * c + 3 * q - 1}
            BY <3>1 DEF Splicing, SpliceKeys, NewKeys
        <3>3. q \in Nat /\ q >= 1 /\ c \in Nat
            BY <3>1, <1>1, Indices
        <3>4. key[x] > 2 * c
            BY <3>2, <3>3
        <3>5. key[x] \in Int
            BY <1>7 DEF Keys
        <3> QED BY <3>3, <3>4, <3>5, <1>9
    <2>4. NoOther(f, Q, D, v, new, X)
        BY DEF Splicing, SpliceKeys
    <2> QED BY <2>1, <2>2, <2>3, <2>4 DEF NoOther
<1>10. a \in 0..Len(f) /\ b \in a..Len(f)
    BY <1>1
<1>11. \A x \in Own(f) : a < Places(f)[x] /\ Places(f)[x] <= b => x \in X /\ lo < key[x] /\ key[x] <= hi
    BY <1>8
<1>12. \A x, y \in Own(f) :
          a < Places(f)[x] /\ Places(f)[x] <= b /\ a < Places(f)[y] /\ Places(f)[y] <= b =>
              (key[x] < key[y] <=> Places(f)[x] < Places(f)[y])
    BY <1>2, <1>8
<1> QED BY <1>1, <1>7, <1>9, <1>10, <1>11, <1>12, KeyedSubstring

\* What is behind c.
LEMMA KeyedTail ==
    ASSUME NEW f, NEW Q, NEW D, NEW v, NEW new, NEW c, NEW X, NEW key,
           Splicing(f, Q, D, v, new, c, X, key),
           \A x \in Own(f) : c < Places(f)[x] => Kept(f, Q, D, x),
           \A z \in Q : Places(f)[Start(z)] < c
    PROVE  Keyed(Substring(f, c, Len(f)), X, key, 2 * c + Extra, 2 * Len(f) + Extra)
<1> DEFINE lo == 2 * c + Extra
           hi == 2 * Len(f) + Extra
           b == Len(f)
<1>1. f \in Seq(Lines) /\ Distinct(f) /\ c \in 0..Len(f) /\ Len(f) \in Nat
    BY DEF Splicing, Spliceable, WellFormed
<1>2. \A x \in Own(f) : x \in Solid /\ Places(f)[x] \in 1..Len(f)
    BY <1>1, PlacesOf
<1>3. \A x \in Own(f) : Kept(f, Q, D, x) => x \in X /\ key[x] = OldKey(f, c, x)
    BY <1>2 DEF Splicing, SpliceKeys, KeptKeys
<1>4. Extra \in Nat
    BY Indices DEF Extra
<1>5. Keys(X, key)
    BY DEF Splicing, SpliceKeys
<1>6. \A x \in Own(f) : c < Places(f)[x] => x \in X /\ key[x] = 2 * Places(f)[x] + Extra
    <2> TAKE x \in Own(f)
    <2> HAVE c < Places(f)[x]
    <2>1. x \in X /\ key[x] = OldKey(f, c, x)
        BY <1>3
    <2>2. ~ Places(f)[x] <= c
        BY <1>1, <1>2
    <2> QED BY <2>1, <2>2 DEF OldKey
<1>7. ASSUME NEW x \in X, lo < key[x], key[x] <= hi
      PROVE  x \in Own(f) /\ c < Places(f)[x] /\ Places(f)[x] <= b
    <2>1. CASE Kept(f, Q, D, x)
        <3>1. x \in Own(f)
            BY <2>1 DEF Kept
        <3>2. key[x] = OldKey(f, c, x) /\ Places(f)[x] \in 1..Len(f)
            BY <3>1, <2>1, <1>2, <1>3
        <3>3. ~ Places(f)[x] <= c
            <4> SUFFICES ASSUME Places(f)[x] <= c PROVE FALSE
                OBVIOUS
            <4>1. key[x] = 2 * Places(f)[x]
                BY <3>2 DEF OldKey
            <4> QED BY <4>1, <3>2, <1>1, <1>4, <1>7
        <3> QED BY <3>1, <3>2, <3>3, <1>1
    <2>2. CASE \E z \in Q \ D : v \notin Void[z] /\ x = AutoLine(z, v)
        <3>1. PICK z \in Q \ D : v \notin Void[z] /\ x = AutoLine(z, v)
            BY <2>2
        <3>2. key[x] = 2 * Places(f)[Start(z)] + 1
            BY <3>1 DEF Splicing, SpliceKeys, FilledKeys
        <3>3. Places(f)[Start(z)] \in Nat /\ Places(f)[Start(z)] < c
            BY <3>1, <1>2 DEF Splicing, Spliceable, Sound
        <3> QED BY <3>2, <3>3, <1>1, <1>4, <1>7
    <2>3. CASE \E q \in DOMAIN Ids : Ids[q] \in new /\
                 \/ x \in {Start(Ids[q]), End(Ids[q])}
                 \/ v \notin Void[Ids[q]] /\ x = AutoLine(Ids[q], v)
        <3>1. PICK q \in DOMAIN Ids : Ids[q] \in new /\
                 \/ x \in {Start(Ids[q]), End(Ids[q])}
                 \/ v \notin Void[Ids[q]] /\ x = AutoLine(Ids[q], v)
            BY <2>3
        <3>2. key[x] \in {2 * c + 3 * q - 2, 2 * c + 3 * q, 2 * c + 3 * q - 1}
            BY <3>1 DEF Splicing, SpliceKeys, NewKeys
        <3>3. q \in Nat /\ q <= Len(Ids) /\ c \in Nat /\ Len(Ids) \in Nat
            BY <3>1, <1>1, Indices
        <3>4. key[x] <= 2 * c + 3 * Len(Ids)
            BY <3>2, <3>3
        <3>5. key[x] \in Int
            BY <1>5 DEF Keys
        <3> QED BY <3>3, <3>4, <3>5, <1>7 DEF Extra
    <2>4. NoOther(f, Q, D, v, new, X)
        BY DEF Splicing, SpliceKeys
    <2> QED BY <2>1, <2>2, <2>3, <2>4 DEF NoOther
<1>8. b \in c..Len(f)
    BY <1>1
<1>9. \A x \in Own(f) : c < Places(f)[x] /\ Places(f)[x] <= b => x \in X /\ lo < key[x] /\ key[x] <= hi
    <2> TAKE x \in Own(f)
    <2> HAVE c < Places(f)[x] /\ Places(f)[x] <= b
    <2>1. x \in X /\ key[x] = 2 * Places(f)[x] + Extra /\ Places(f)[x] \in Int
        BY <1>2, <1>6
    <2> QED BY <2>1, <1>1, <1>4
<1>10. \A x, y \in Own(f) :
          c < Places(f)[x] /\ Places(f)[x] <= b /\ c < Places(f)[y] /\ Places(f)[y] <= b =>
              (key[x] < key[y] <=> Places(f)[x] < Places(f)[y])
    BY <1>2, <1>4, <1>6
<1> HIDE DEF lo, hi, b
<1>11. \A x \in X : lo < key[x] /\ key[x] <= hi => x \in Own(f) /\ c < Places(f)[x] /\ Places(f)[x] <= b
    BY <1>7
<1>12. Keyed(Substring(f, c, b), X, key, lo, hi)
    BY <1>1, <1>5, <1>8, <1>9, <1>10, <1>11, KeyedSubstring
<1> QED BY <1>12 DEF lo, hi, b

\* What the key of a line says of it.
LEMMA KeyOf ==
    ASSUME NEW f, NEW Q, NEW D, NEW v, NEW new, NEW c, NEW X, NEW key,
           Splicing(f, Q, D, v, new, c, X, key), NEW x \in X
    PROVE  \/ /\ Kept(f, Q, D, x) /\ x \in Own(f) /\ Places(f)[x] \in 1..Len(f)
              /\ Places(f)[x] <= c /\ key[x] = 2 * Places(f)[x]
           \/ /\ Kept(f, Q, D, x) /\ x \in Own(f) /\ Places(f)[x] \in 1..Len(f)
              /\ Places(f)[x] > c /\ key[x] = 2 * Places(f)[x] + Extra
           \/ \E z \in Q \ D : /\ v \notin Void[z] /\ x = AutoLine(z, v)
                               /\ Start(z) \in Own(f) /\ Places(f)[Start(z)] \in 1..Len(f)
                               /\ key[x] = 2 * Places(f)[Start(z)] + 1
           \/ \E q \in 1..Len(Ids) : /\ Ids[q] \in new
                                     /\ \/ x = Start(Ids[q]) /\ key[x] = 2 * c + 3 * q - 2
                                        \/ /\ v \notin Void[Ids[q]] /\ x = AutoLine(Ids[q], v)
                                           /\ key[x] = 2 * c + 3 * q - 1
                                        \/ x = End(Ids[q]) /\ key[x] = 2 * c + 3 * q
<1>1. f \in Seq(Lines) /\ Distinct(f) /\ c \in 0..Len(f) /\ Len(f) \in Nat
    BY DEF Splicing, Spliceable, WellFormed
<1>2. \A y \in Own(f) : y \in Solid /\ Places(f)[y] \in 1..Len(f)
    BY <1>1, PlacesOf
<1>3. NoOther(f, Q, D, v, new, X)
    BY DEF Splicing, SpliceKeys
<1>4. CASE Kept(f, Q, D, x)
    <2>1. x \in Own(f)
        BY <1>4 DEF Kept
    <2>2. key[x] = OldKey(f, c, x) /\ Places(f)[x] \in 1..Len(f)
        BY <1>2, <1>4, <2>1 DEF Splicing, SpliceKeys, KeptKeys
    <2>3. Places(f)[x] <= c \/ Places(f)[x] > c
        BY <1>1, <2>2
    <2>4. CASE Places(f)[x] <= c
        BY <2>1, <2>2, <2>4, <1>4 DEF OldKey
    <2>5. CASE Places(f)[x] > c
        <3>1. ~ Places(f)[x] <= c
            BY <2>2, <2>5, <1>1
        <3> QED BY <3>1, <2>1, <2>2, <2>5, <1>4 DEF OldKey
    <2> QED BY <2>3, <2>4, <2>5
<1>5. CASE \E z \in Q \ D : v \notin Void[z] /\ x = AutoLine(z, v)
    <2>1. PICK z \in Q \ D : v \notin Void[z] /\ x = AutoLine(z, v)
        BY <1>5
    <2>2. key[x] = 2 * Places(f)[Start(z)] + 1
        BY <2>1 DEF Splicing, SpliceKeys, FilledKeys
    <2>3. Start(z) \in Own(f) /\ Places(f)[Start(z)] \in 1..Len(f)
        BY <1>2 DEF Splicing, Spliceable, Sound
    <2> QED BY <2>1, <2>2, <2>3
<1>6. CASE \E q \in DOMAIN Ids : Ids[q] \in new /\
             \/ x \in {Start(Ids[q]), End(Ids[q])}
             \/ v \notin Void[Ids[q]] /\ x = AutoLine(Ids[q], v)
    <2>1. PICK q \in DOMAIN Ids : Ids[q] \in new /\
             \/ x \in {Start(Ids[q]), End(Ids[q])}
             \/ v \notin Void[Ids[q]] /\ x = AutoLine(Ids[q], v)
        BY <1>6
    <2>2. q \in 1..Len(Ids)
        BY Indices
    <2>3. NewKeys(v, new, c, X, key)
        BY DEF Splicing, SpliceKeys
    <2>4. \/ x = Start(Ids[q]) /\ key[x] = 2 * c + 3 * q - 2
          \/ v \notin Void[Ids[q]] /\ x = AutoLine(Ids[q], v) /\ key[x] = 2 * c + 3 * q - 1
          \/ x = End(Ids[q]) /\ key[x] = 2 * c + 3 * q
        BY <2>1, <2>3 DEF NewKeys
    <2> QED BY <2>1, <2>2, <2>4
<1> QED BY <1>3, <1>4, <1>5, <1>6 DEF NoOther

LEMMA ContentOf ==
    ASSUME NEW z \in Zones, NEW v \in Versions, NEW X, NEW key, Keys(X, key), NEW lo \in Int,
           v \notin Void[z] => AutoLine(z, v) \in X,
           \A x \in X : lo < key[x] /\ key[x] <= lo + 1 <=> v \notin Void[z] /\ x = AutoLine(z, v)
    PROVE  Keyed(Content(z, v), X, key, lo, lo + 1)
<1>1. CASE v \in Void[z]
    <2>1. Content(z, v) = <<Blank>>
        BY <1>1 DEF Content
    <2>2. \A x \in X : ~ (lo < key[x] /\ key[x] <= lo + 1)
        BY <1>1
    <2> QED BY <2>1, <2>2, KeyedBlank
<1>2. CASE v \notin Void[z]
    <2>1. Content(z, v) = <<AutoLine(z, v)>>
        BY <1>2 DEF Content
    <2>2. AutoLine(z, v) \in X /\ AutoLine(z, v) \in Lines
        BY <1>2, LineKinds DEF Lines
    <2>3. \A x \in X : lo < key[x] /\ key[x] <= lo + 1 <=> x = AutoLine(z, v)
        BY <1>2
    <2> QED BY <2>1, <2>2, <2>3, KeyedLine
<1> QED BY <1>1, <1>2

LEMMA KeyedContent ==
    ASSUME NEW f, NEW Q, NEW D, NEW v, NEW new, NEW c, NEW X, NEW key,
           Splicing(f, Q, D, v, new, c, X, key),
           NEW z \in Q \ D, NEW i, i = Places(f)[Start(z)], i < c
    PROVE  Keyed(Content(z, v), X, key, 2 * i, 2 * i + 1)
<1>1. f \in Seq(Lines) /\ Distinct(f) /\ c \in 0..Len(f) /\ Len(f) \in Nat /\ z \in Zones /\ v \in Versions
    BY DEF Splicing, Spliceable, WellFormed
<1>2. Start(z) \in Own(f) /\ i \in 1..Len(f)
    BY <1>1, PlacesOf DEF Splicing, Spliceable, Sound
<1>3. Keys(X, key) /\ Extra \in Nat
    BY Indices DEF Splicing, SpliceKeys, Extra
<1>4. v \notin Void[z] => AutoLine(z, v) \in X /\ key[AutoLine(z, v)] = 2 * i + 1
    BY DEF Splicing, SpliceKeys, FilledKeys
<1>5. ASSUME NEW x \in X, 2 * i < key[x], key[x] <= 2 * i + 1
      PROVE  v \notin Void[z] /\ x = AutoLine(z, v)
    <2>0. key[x] \in Int /\ i \in Int /\ c \in Int
        BY <1>1, <1>2, <1>3 DEF Keys
    <2>1. key[x] = 2 * i + 1 /\ key[x] <= 2 * c
        BY <2>0, <1>5
    <2>2. ASSUME Places(f)[x] \in 1..Len(f), key[x] = 2 * Places(f)[x] PROVE FALSE
        BY <2>1, <2>2, <1>2
    <2>3. ASSUME Places(f)[x] \in 1..Len(f), Places(f)[x] > c, key[x] = 2 * Places(f)[x] + Extra PROVE FALSE
        BY <2>1, <2>3, <1>1, <1>3
    <2>4. ASSUME NEW q \in 1..Len(Ids), key[x] \in {2 * c + 3 * q - 2, 2 * c + 3 * q - 1, 2 * c + 3 * q}
          PROVE  FALSE
        BY <2>1, <2>4, <1>1, Indices
    <2>5. PICK y \in Q \ D : /\ v \notin Void[y] /\ x = AutoLine(y, v)
                             /\ Start(y) \in Own(f) /\ Places(f)[Start(y)] \in 1..Len(f)
                             /\ key[x] = 2 * Places(f)[Start(y)] + 1
        BY <2>2, <2>3, <2>4, KeyOf
    <2>6. Places(f)[Start(y)] = i
        BY <2>1, <2>5, <1>2
    <2>7. Start(y) = Start(z)
        BY <2>5, <2>6, <1>1, <1>2, PlacesOf
    <2>8. y = z
        <3>1. y \in Zones
            BY DEF Splicing, Spliceable
        <3> QED BY <3>1, <2>7, <1>1, LineKinds
    <2> QED BY <2>5, <2>8
<1>6. 2 * i \in Int
    BY <1>2
<1>7. \A x \in X : 2 * i < key[x] /\ key[x] <= 2 * i + 1 <=> v \notin Void[z] /\ x = AutoLine(z, v)
    BY <1>4, <1>5, <1>6
<1> QED BY <1>1, <1>3, <1>4, <1>6, <1>7, ContentOf

LEMMA TypesOf ==
    ASSUME NEW f, NEW Q, NEW D, NEW v, NEW new, NEW c, NEW X, NEW key,
           Splicing(f, Q, D, v, new, c, X, key)
    PROVE  /\ f \in Seq(Lines) /\ Distinct(f) /\ Len(f) \in Nat /\ c \in 0..Len(f)
           /\ Q \subseteq Zones /\ D \subseteq Q /\ new \subseteq Zones /\ v \in Versions
           /\ Keys(X, key) /\ Extra \in Nat
           /\ \A x \in Own(f) : x \in Solid /\ Places(f)[x] \in 1..Len(f)
           /\ \A x \in X : key[x] \in Int
           /\ \A z \in Q : /\ Start(z) \in Own(f) /\ Places(f)[Start(z)] \in 1..Len(f)
                           /\ End(z) \in Own(f) /\ Places(f)[End(z)] \in 1..Len(f)
                           /\ Places(f)[Start(z)] < Places(f)[End(z)]
                           /\ Pair(f, z).startLineEnd = Places(f)[Start(z)]
                           /\ Pair(f, z).startOffset = LineStart(f, Places(f)[Start(z)])
                           /\ Pair(f, z).endLineEnd = Places(f)[End(z)]
                           /\ Pair(f, z).endLineStart = LineStart(f, Places(f)[End(z)])
<1>1. /\ f \in Seq(Lines) /\ Distinct(f) /\ c \in 0..Len(f) /\ Len(f) \in Nat /\ Whole(f)
      /\ Q \subseteq Zones /\ D \subseteq Q /\ new \subseteq Zones /\ v \in Versions
      /\ \A z \in Q : Sound(f, z)
    BY DEF Splicing, Spliceable, WellFormed
<1>2. Keys(X, key) /\ Extra \in Nat
    BY Indices DEF Splicing, SpliceKeys, Extra
<1>3. \A x \in X : key[x] \in Int
    BY <1>2 DEF Keys
<1>4. \A x \in Own(f) : x \in Solid /\ Places(f)[x] \in 1..Len(f)
    BY <1>1, PlacesOf
<1>5. ASSUME NEW z \in Q
      PROVE  /\ Start(z) \in Own(f) /\ Places(f)[Start(z)] \in 1..Len(f)
             /\ End(z) \in Own(f) /\ Places(f)[End(z)] \in 1..Len(f)
             /\ Places(f)[Start(z)] < Places(f)[End(z)]
    BY <1>1, <1>4 DEF Sound, Whole
<1>6. ASSUME NEW z \in Q
      PROVE  /\ Pair(f, z).startLineEnd = Places(f)[Start(z)]
             /\ Pair(f, z).startOffset = LineStart(f, Places(f)[Start(z)])
             /\ Pair(f, z).endLineEnd = Places(f)[End(z)]
             /\ Pair(f, z).endLineStart = LineStart(f, Places(f)[End(z)])
    BY <1>1, <1>5, PairOf
<1> QED BY <1>1, <1>2, <1>3, <1>4, <1>5, <1>6

\* One of the zones that are added.
LEMMA KeyedNewZone ==
    ASSUME NEW z \in Zones, NEW v \in Versions, NEW X, NEW key, Keys(X, key), NEW t \in Int,
           /\ Start(z) \in X /\ key[Start(z)] = t - 2
           /\ End(z) \in X /\ key[End(z)] = t
           /\ v \notin Void[z] => AutoLine(z, v) \in X /\ key[AutoLine(z, v)] = t - 1,
           \A x \in X : t - 3 < key[x] /\ key[x] <= t =>
                \/ x = Start(z)
                \/ v \notin Void[z] /\ x = AutoLine(z, v)
                \/ x = End(z)
    PROVE  Keyed(NewZone(z, v), X, key, t - 3, t)
<1>1. Start(z) \in Lines /\ End(z) \in Lines
    BY LineKinds DEF Lines
<1>2. t - 3 \in Int /\ t - 2 \in Int /\ t - 1 \in Int /\ (t - 2) + 1 = t - 1
    OBVIOUS
<1>3. \A x \in X : key[x] \in Int
    BY DEF Keys
<1>4. ASSUME NEW x \in X PROVE t - 3 < key[x] /\ key[x] <= t - 2 <=> x = Start(z)
    BY <1>3
<1>5. ASSUME NEW x \in X
      PROVE  t - 2 < key[x] /\ key[x] <= (t - 2) + 1 <=> v \notin Void[z] /\ x = AutoLine(z, v)
    BY <1>3
<1>6. ASSUME NEW x \in X PROVE t - 1 < key[x] /\ key[x] <= t <=> x = End(z)
    BY <1>3
<1>7. Keyed(<<Start(z)>>, X, key, t - 3, t - 2)
    BY <1>1, <1>4, KeyedLine
<1>8. Keyed(Content(z, v), X, key, t - 2, (t - 2) + 1)
    BY <1>2, <1>5, ContentOf
<1>9. Keyed(<<End(z)>>, X, key, t - 1, t)
    BY <1>1, <1>6, KeyedLine
<1>10. Keyed(<<Start(z)>> \o Content(z, v), X, key, t - 3, t - 1)
    BY <1>7, <1>8, <1>2, KeyedConcat
<1>11. Keyed(<<Start(z)>> \o Content(z, v) \o <<End(z)>>, X, key, t - 3, t)
    BY <1>9, <1>10, <1>2, KeyedConcat
<1> QED BY <1>11 DEF NewZone

\* The zones that are added.
LEMMA KeyedNewZones ==
    ASSUME NEW f, NEW Q, NEW D, NEW v, NEW new, NEW c, NEW X, NEW key,
           Splicing(f, Q, D, v, new, c, X, key), \A z \in Q : Places(f)[Start(z)] < c
    PROVE  Keyed(NewZones(new, v), X, key, 2 * c, 2 * c + Extra)
<1> DEFINE n == Len(Ids)
           P == [q \in 1..n |-> IF Ids[q] \in new THEN NewZone(Ids[q], v) ELSE <<>>]
           b == [q \in 0..n |-> 2 * c + 3 * q]
<1>1. /\ f \in Seq(Lines) /\ Distinct(f) /\ Len(f) \in Nat /\ c \in 0..Len(f) /\ new \subseteq Zones /\ v \in Versions
      /\ Keys(X, key) /\ Extra \in Nat /\ \A x \in X : key[x] \in Int
      /\ \A z \in Q : Places(f)[Start(z)] \in 1..Len(f)
    BY TypesOf
<1>2. n \in Nat /\ c \in Int
    BY <1>1, Indices
<1>3. ASSUME NEW x \in X, 2 * c < key[x], key[x] <= 2 * c + Extra
      PROVE  \E q \in 1..n : /\ Ids[q] \in new
                             /\ \/ x = Start(Ids[q]) /\ key[x] = 2 * c + 3 * q - 2
                                \/ /\ v \notin Void[Ids[q]] /\ x = AutoLine(Ids[q], v)
                                   /\ key[x] = 2 * c + 3 * q - 1
                                \/ x = End(Ids[q]) /\ key[x] = 2 * c + 3 * q
    <2>1. ASSUME Places(f)[x] \in 1..Len(f), Places(f)[x] <= c, key[x] = 2 * Places(f)[x] PROVE FALSE
        BY <2>1, <1>2, <1>3
    <2>2. ASSUME Places(f)[x] \in 1..Len(f), Places(f)[x] > c, key[x] = 2 * Places(f)[x] + Extra PROVE FALSE
        BY <2>2, <1>1, <1>2, <1>3
    <2>3. ASSUME NEW z \in Q, key[x] = 2 * Places(f)[Start(z)] + 1 PROVE FALSE
        <3>1. Places(f)[Start(z)] \in Int /\ Places(f)[Start(z)] < c
            BY <1>1
        <3> QED BY <3>1, <2>3, <1>2, <1>3
    <2> QED BY <2>1, <2>2, <2>3, KeyOf
<1>4. ASSUME NEW q \in 1..n
      PROVE  P[q] \in Seq(Lines) /\ Keyed(P[q], X, key, 2 * c + 3 * q - 3, 2 * c + 3 * q)
    <2>1. Ids[q] \in Zones /\ q \in DOMAIN Ids /\ q \in Int /\ q >= 1 /\ q <= n
        BY <1>2, Indices
    <2>2. ASSUME NEW x \in X, 2 * c + 3 * q - 3 < key[x], key[x] <= 2 * c + 3 * q
          PROVE  /\ Ids[q] \in new
                 /\ \/ x = Start(Ids[q])
                    \/ v \notin Void[Ids[q]] /\ x = AutoLine(Ids[q], v)
                    \/ x = End(Ids[q])
        <3>1. 2 * c < key[x] /\ key[x] <= 2 * c + Extra
            <4>1. key[x] \in Int /\ c \in Int /\ q \in Int /\ n \in Int /\ 1 <= q /\ q <= n
                BY <2>1, <1>1, <1>2
            <4>2. Extra = 3 * n
                BY DEF Extra
            <4> HIDE DEF n
            <4> QED BY ONLY <4>1, <4>2, <2>2
        <3>2. PICK p \in 1..n : /\ Ids[p] \in new
                             /\ \/ x = Start(Ids[p]) /\ key[x] = 2 * c + 3 * p - 2
                                \/ /\ v \notin Void[Ids[p]] /\ x = AutoLine(Ids[p], v)
                                   /\ key[x] = 2 * c + 3 * p - 1
                                \/ x = End(Ids[p]) /\ key[x] = 2 * c + 3 * p
            BY <3>1, <1>3
        <3>3. key[x] \in {2 * c + 3 * p - 2, 2 * c + 3 * p - 1, 2 * c + 3 * p}
            BY <3>2
        <3>4. p = q
            <4>1. key[x] \in Int /\ c \in Int /\ q \in Int /\ p \in Int
                BY <2>1, <1>1, <1>2
            <4> QED BY ONLY <4>1, <3>3, <2>2
        <3> QED BY <3>2, <3>4
    <2>3. CASE Ids[q] \notin new
        <3>1. P[q] = <<>>
            BY <2>3
        <3>2. Keyed(<<>>, X, key, 2 * c + 3 * q - 3, 2 * c + 3 * q)
            <4>1. \A x \in X : ~ (2 * c + 3 * q - 3 < key[x] /\ key[x] <= 2 * c + 3 * q)
                BY <2>2, <2>3
            <4> QED BY <4>1, KeyedNothing
        <3> QED BY <3>1, <3>2, NoLine
    <2>4. CASE Ids[q] \in new
        <3>1. P[q] = NewZone(Ids[q], v)
            BY <2>4
        <3>2. /\ Start(Ids[q]) \in X /\ key[Start(Ids[q])] = 2 * c + 3 * q - 2
              /\ End(Ids[q]) \in X /\ key[End(Ids[q])] = 2 * c + 3 * q
              /\ v \notin Void[Ids[q]] =>
                    AutoLine(Ids[q], v) \in X /\ key[AutoLine(Ids[q], v)] = 2 * c + 3 * q - 1
            BY <2>1, <2>4 DEF Splicing, SpliceKeys, NewKeys
        <3>3. 2 * c + 3 * q \in Int
            BY <2>1, <1>2
        <3>4. Keyed(NewZone(Ids[q], v), X, key, 2 * c + 3 * q - 3, 2 * c + 3 * q)
            <4> DEFINE t == 2 * c + 3 * q
                       z == Ids[q]
            <4>1. t \in Int /\ z \in Zones
                BY <3>3, <2>1
            <4>0. /\ t = 2 * c + 3 * q /\ t - 1 = 2 * c + 3 * q - 1
                  /\ t - 2 = 2 * c + 3 * q - 2 /\ t - 3 = 2 * c + 3 * q - 3
                BY <2>1, <1>2
            <4> HIDE DEF t
            <4>2. \A x \in X : t - 3 < key[x] /\ key[x] <= t =>
                        \/ x = Start(z)
                        \/ v \notin Void[z] /\ x = AutoLine(z, v)
                        \/ x = End(z)
                BY <2>2, <4>0
            <4>3. /\ Start(z) \in X /\ key[Start(z)] = t - 2
                  /\ End(z) \in X /\ key[End(z)] = t
                  /\ v \notin Void[z] => AutoLine(z, v) \in X /\ key[AutoLine(z, v)] = t - 1
                BY <3>2, <4>0
            <4> HIDE DEF z
            <4>4. Keyed(NewZone(z, v), X, key, t - 3, t)
                BY <4>1, <4>2, <4>3, <1>1, KeyedNewZone
            <4> QED BY <4>4, <4>0 DEF z
        <3>5. NewZone(Ids[q], v) \in Seq(Lines)
            BY <3>4 DEF Keyed
        <3> QED BY <3>1, <3>4, <3>5
    <2> QED BY <2>3, <2>4
<1>5. P \in Seq(Seq(Lines)) /\ Len(P) = n
    <2>1. P \in [1..n -> Seq(Lines)]
        BY <1>4
    <2> HIDE DEF P
    <2> QED BY <2>1, <1>2
<1>6. \A q \in 0..n : b[q] \in Int
    BY <1>2
<1>7. \A q \in 1..n : b[q - 1] <= b[q] /\ Keyed(P[q], X, key, b[q - 1], b[q])
    <2> TAKE q \in 1..n
    <2>1. q \in 0..n /\ q - 1 \in 0..n
        BY <1>2
    <2>2. b[q] = 2 * c + 3 * q /\ b[q - 1] = 2 * c + 3 * q - 3
        BY <2>1, <1>2
    <2> HIDE DEF P, b
    <2> QED BY <2>1, <2>2, <1>2, <1>4
<1>8. b[0] = 2 * c /\ b[n] = 2 * c + Extra
    BY <1>2 DEF Extra
<1>9. NewZones(new, v) = FlattenSeq(P)
    BY DEF NewZones
<1> HIDE DEF P, b, n
<1>10. Keyed(FlattenSeq(P), X, key, b[0], b[n])
    BY <1>1, <1>2, <1>5, <1>6, <1>7, KeyedFlatten
<1> QED BY <1>8, <1>9, <1>10

(* One turn of the loop over the zones of a file.                                    *)

\* The zone z of Q is the next one behind p, where f has a line that is not blank.
Turn(f, Q, z, p) ==
    /\ z \in Q
    /\ p \in Nat /\ p < Places(f)[Start(z)]
    /\ p > 0 => f[p] # Blank
    /\ \A y \in Q : y = z \/ Places(f)[End(y)] <= p \/ Places(f)[End(z)] < Places(f)[Start(y)]

LEMMA LinesOfTurn ==
    ASSUME NEW f, NEW Q, NEW D, NEW v, NEW new, NEW c, NEW X, NEW key,
           Splicing(f, Q, D, v, new, c, X, key),
           NEW z, NEW p, Turn(f, Q, z, p),
           NEW i, i = Places(f)[Start(z)], NEW e, e = Places(f)[End(z)], e <= c
    PROVE  /\ z \in Zones /\ i \in 1..Len(f) /\ e \in 1..Len(f) /\ i < e
           /\ Pair(f, z).startOffset \in p..(i - 1) /\ Pair(f, z).startLineEnd = i
           /\ Pair(f, z).endLineStart \in i..(e - 1) /\ Pair(f, z).endLineEnd = e
           /\ \A x \in Own(f) : Pair(f, z).startOffset < Places(f)[x] /\ Places(f)[x] <= i => x = Start(z)
           /\ \A x \in Own(f) : Pair(f, z).endLineStart < Places(f)[x] /\ Places(f)[x] <= e => x = End(z)
           /\ \A x \in Own(f) : i < Places(f)[x] /\ Places(f)[x] < e => ~ Kept(f, Q, D, x)
           /\ \A x \in Own(f) : p < Places(f)[x] /\ Places(f)[x] < i => Kept(f, Q, D, x)
           /\ Start(z) \in Own(f) /\ End(z) \in Own(f)
           /\ z \in D => ~ Kept(f, Q, D, Start(z)) /\ ~ Kept(f, Q, D, End(z))
           /\ z \notin D => Kept(f, Q, D, Start(z)) /\ Kept(f, Q, D, End(z))
           /\ \A y \in Q : y # z =>
                ~ (2 * p < 2 * Places(f)[Start(y)] + 1 /\ 2 * Places(f)[Start(y)] + 1 <= 2 * e)
<1>1. /\ f \in Seq(Lines) /\ Distinct(f) /\ Len(f) \in Nat /\ c \in 0..Len(f)
      /\ Q \subseteq Zones /\ D \subseteq Q
      /\ \A x \in Own(f) : x \in Solid /\ Places(f)[x] \in 1..Len(f)
    BY TypesOf
<1>2. \A y \in Q : /\ Start(y) \in Own(f) /\ Places(f)[Start(y)] \in 1..Len(f)
                   /\ End(y) \in Own(f) /\ Places(f)[End(y)] \in 1..Len(f)
                   /\ Places(f)[Start(y)] < Places(f)[End(y)]
                   /\ Pair(f, y).startLineEnd = Places(f)[Start(y)]
                   /\ Pair(f, y).startOffset = LineStart(f, Places(f)[Start(y)])
                   /\ Pair(f, y).endLineEnd = Places(f)[End(y)]
                   /\ Pair(f, y).endLineStart = LineStart(f, Places(f)[End(y)])
    BY TypesOf
<1>3. /\ z \in Q /\ p \in Nat /\ p < i /\ (p > 0 => f[p] # Blank)
      /\ \A y \in Q : y = z \/ Places(f)[End(y)] <= p \/ e < Places(f)[Start(y)]
    BY DEF Turn
<1>4. /\ z \in Zones /\ i \in 1..Len(f) /\ e \in 1..Len(f) /\ i < e
      /\ Pair(f, z).startLineEnd = i /\ Pair(f, z).endLineEnd = e
      /\ Pair(f, z).startOffset = LineStart(f, i) /\ Pair(f, z).endLineStart = LineStart(f, e)
      /\ Start(z) \in Own(f) /\ End(z) \in Own(f)
    BY <1>1, <1>2, <1>3
<1>5. f[i] = Start(z) /\ f[e] = End(z) /\ f[i] # Blank
    <2>1. f[i] = Start(z) /\ f[e] = End(z)
        BY <1>1, <1>4, PlacesOf
    <2> QED BY <2>1, <1>1, <1>4, SolidKinds
<1>6. /\ LineStart(f, i) \in 0..(i - 1)
      /\ \A k \in (LineStart(f, i) + 1)..(i - 1) : f[k] = Blank
    BY <1>1, <1>4, LineStartOf
<1>7. /\ LineStart(f, e) \in 0..(e - 1)
      /\ \A k \in (LineStart(f, e) + 1)..(e - 1) : f[k] = Blank
    BY <1>1, <1>4, LineStartOf
<1>8. LineStart(f, i) \in p..(i - 1)
    <2> SUFFICES ASSUME LineStart(f, i) < p PROVE FALSE
        BY <1>3, <1>4, <1>6
    <2>1. p \in (LineStart(f, i) + 1)..(i - 1) /\ p > 0
        BY <1>3, <1>4, <1>6
    <2> QED BY <2>1, <1>3, <1>6
<1>9. LineStart(f, e) \in i..(e - 1)
    <2> SUFFICES ASSUME LineStart(f, e) < i PROVE FALSE
        BY <1>4, <1>7
    <2>1. i \in (LineStart(f, e) + 1)..(e - 1)
        BY <1>4, <1>7
    <2> QED BY <2>1, <1>5, <1>7
<1>10. \A x \in Own(f) : f[Places(f)[x]] = x /\ x # Blank
    BY <1>1, PlacesOf, SolidKinds
<1>11. ASSUME NEW x \in Own(f), LineStart(f, i) < Places(f)[x], Places(f)[x] <= i
       PROVE  x = Start(z)
    <2>1. Places(f)[x] = i \/ Places(f)[x] \in (LineStart(f, i) + 1)..(i - 1)
        BY <1>1, <1>4, <1>6, <1>11
    <2> QED BY <2>1, <1>5, <1>6, <1>10
<1>12. ASSUME NEW x \in Own(f), LineStart(f, e) < Places(f)[x], Places(f)[x] <= e
       PROVE  x = End(z)
    <2>1. Places(f)[x] = e \/ Places(f)[x] \in (LineStart(f, e) + 1)..(e - 1)
        BY <1>1, <1>4, <1>7, <1>12
    <2> QED BY <2>1, <1>5, <1>7, <1>10
<1>13. ASSUME NEW y \in Zones, Sound(f, y), NEW x \in Own(f)
       PROVE  x.kind = "auto" /\ x.id = y <=>
                  Places(f)[Start(y)] < Places(f)[x] /\ Places(f)[x] < Places(f)[End(y)]
    BY <1>13 DEF Splicing, Spliceable, WellFormed, Whole
<1>14. \A y \in Q : Sound(f, y)
    BY DEF Splicing, Spliceable
<1>15. ASSUME NEW x \in Own(f), i < Places(f)[x], Places(f)[x] < e
       PROVE  ~ Kept(f, Q, D, x)
    <2>1. x.kind = "auto" /\ x.id = z
        BY <1>3, <1>4, <1>13, <1>14, <1>15
    <2> QED BY <2>1, <1>3 DEF Kept
<1>16. ASSUME NEW x \in Own(f), p < Places(f)[x], Places(f)[x] < i
       PROVE  Kept(f, Q, D, x)
    <2>1. ASSUME x.kind \in {"start", "end", "auto"}, x.id \in Q PROVE FALSE
        <3> DEFINE y == x.id
        <3>1. Places(f)[Start(y)] <= Places(f)[x] /\ Places(f)[x] <= Places(f)[End(y)]
            <4>1. CASE x.kind = "auto"
                <5>1. Places(f)[Start(y)] < Places(f)[x] /\ Places(f)[x] < Places(f)[End(y)]
                    BY <4>1, <2>1, <1>1, <1>13, <1>14
                <5> QED BY <5>1, <2>1, <1>1, <1>2
            <4>2. CASE x.kind # "auto"
                <5>1. x = Start(y) \/ x = End(y)
                    BY <4>2, <2>1, <1>1, SolidKinds
                <5> QED BY <5>1, <2>1, <1>1, <1>2
            <4> QED BY <4>1, <4>2
        <3>2. Places(f)[x] \in Int /\ Places(f)[Start(y)] \in Int /\ Places(f)[End(y)] \in Int
            BY <2>1, <1>1, <1>2
        <3>3. y = z \/ Places(f)[End(y)] <= p \/ e < Places(f)[Start(y)]
            BY <2>1, <1>3
        <3> HIDE DEF y
        <3> QED BY <3>1, <3>2, <3>3, <1>3, <1>4, <1>16
    <2> QED BY <2>1, <1>1 DEF Kept
<1>17. /\ Start(z).kind = "start" /\ Start(z).id = z /\ End(z).kind = "end" /\ End(z).id = z
    BY <1>4, LineKinds
<1>18. z \in D => ~ Kept(f, Q, D, Start(z)) /\ ~ Kept(f, Q, D, End(z))
    BY <1>17 DEF Kept
<1>19. z \notin D => Kept(f, Q, D, Start(z)) /\ Kept(f, Q, D, End(z))
    BY <1>4, <1>17 DEF Kept
<1>20. ASSUME NEW y \in Q, y # z,
              2 * p < 2 * Places(f)[Start(y)] + 1, 2 * Places(f)[Start(y)] + 1 <= 2 * e
       PROVE  FALSE
    <2>1. Places(f)[End(y)] <= p \/ e < Places(f)[Start(y)]
        BY <1>3, <1>20
    <2>2. Places(f)[Start(y)] \in Int /\ Places(f)[End(y)] \in Int /\ Places(f)[Start(y)] < Places(f)[End(y)]
        BY <1>2
    <2> QED BY <2>1, <2>2, <1>3, <1>4, <1>20
<1> QED BY <1>4, <1>8, <1>9, <1>11, <1>12, <1>15, <1>16, <1>18, <1>19, <1>20

\* What is between the zones.
LEMMA KeyedBetween ==
    ASSUME NEW f, NEW Q, NEW D, NEW v, NEW new, NEW c, NEW X, NEW key,
           Splicing(f, Q, D, v, new, c, X, key),
           NEW z, NEW p, Turn(f, Q, z, p),
           NEW i, i = Places(f)[Start(z)], NEW e, e = Places(f)[End(z)], e <= c
    PROVE  /\ z \in D => Keyed(Substring(f, p, Pair(f, z).startOffset), X, key, 2 * p, 2 * e)
           /\ z \notin D =>
                /\ Keyed(Substring(f, p, Pair(f, z).startOffset), X, key, 2 * p, 2 * i - 1)
                /\ Keyed(Substring(f, Pair(f, z).startOffset, i), X, key, 2 * i - 1, 2 * i)
                /\ Keyed(Substring(f, p, i), X, key, 2 * p, 2 * i)
<1> DEFINE so == Pair(f, z).startOffset
<1>1. /\ z \in Zones /\ i \in 1..Len(f) /\ e \in 1..Len(f) /\ i < e
      /\ so \in p..(i - 1)
      /\ \A x \in Own(f) : so < Places(f)[x] /\ Places(f)[x] <= i => x = Start(z)
      /\ \A x \in Own(f) : i < Places(f)[x] /\ Places(f)[x] < e => ~ Kept(f, Q, D, x)
      /\ \A x \in Own(f) : p < Places(f)[x] /\ Places(f)[x] < i => Kept(f, Q, D, x)
      /\ Start(z) \in Own(f) /\ End(z) \in Own(f)
      /\ z \in D => ~ Kept(f, Q, D, Start(z)) /\ ~ Kept(f, Q, D, End(z))
      /\ z \notin D => Kept(f, Q, D, Start(z)) /\ Kept(f, Q, D, End(z))
      /\ \A y \in Q : y # z =>
            ~ (2 * p < 2 * Places(f)[Start(y)] + 1 /\ 2 * Places(f)[Start(y)] + 1 <= 2 * e)
    BY LinesOfTurn
<1>2. /\ f \in Seq(Lines) /\ Distinct(f) /\ Len(f) \in Nat /\ c \in 0..Len(f)
      /\ \A x \in Own(f) : Places(f)[x] \in 1..Len(f)
      /\ \A y \in Q : Places(f)[Start(y)] \in 1..Len(f)
      /\ z \in Q /\ p \in Nat
    BY TypesOf DEF Turn
<1>3. \A x, y \in Own(f) : Places(f)[x] = Places(f)[y] => x = y
    BY <1>2, PlacesOf
<1>4. p \in Int /\ so \in Int /\ i \in Int /\ e \in Int /\ p <= so /\ so < i /\ i < e /\ e <= c /\ c \in Int
    BY <1>1, <1>2
<1>5. p \in 0..c /\ so \in 0..c /\ so \in p..c /\ i \in so..c /\ i \in p..c
    BY <1>2, <1>4
<1>6. 2 * p \in Int /\ 2 * e \in Int /\ 2 * i \in Int /\ 2 * i - 1 \in Int
    BY <1>4
<1> HIDE DEF so
<1>7. CASE z \in D
    <2>1. \A x \in Own(f) : p < Places(f)[x] /\ Places(f)[x] <= so =>
                Kept(f, Q, D, x) /\ 2 * p < 2 * Places(f)[x] /\ 2 * Places(f)[x] <= 2 * e
        <3> SUFFICES ASSUME NEW x \in Own(f), p < Places(f)[x], Places(f)[x] <= so
                     PROVE  Kept(f, Q, D, x) /\ 2 * p < 2 * Places(f)[x] /\ 2 * Places(f)[x] <= 2 * e
            OBVIOUS
        <3> DEFINE at == Places(f)[x]
        <3>1. at \in Int /\ p < at /\ at <= so
            BY <1>2
        <3> HIDE DEF at
        <3>2. at < i /\ 2 * p < 2 * at /\ 2 * at <= 2 * e
            BY ONLY <3>1, <1>4
        <3> QED BY <3>1, <3>2, <1>1 DEF at
    <2>2. \A x \in Own(f) : Kept(f, Q, D, x) /\ 2 * p < 2 * Places(f)[x] /\ 2 * Places(f)[x] <= 2 * e =>
                p < Places(f)[x] /\ Places(f)[x] <= so
        <3> SUFFICES ASSUME NEW x \in Own(f), Kept(f, Q, D, x),
                            2 * p < 2 * Places(f)[x], 2 * Places(f)[x] <= 2 * e
                     PROVE  p < Places(f)[x] /\ Places(f)[x] <= so
            OBVIOUS
        <3>1. Places(f)[x] \in Int /\ p < Places(f)[x] /\ Places(f)[x] <= e
            BY <1>2, <1>4
        <3>2. x # Start(z) /\ x # End(z)
            BY <1>1, <1>7
        <3>3. ~ (i < Places(f)[x] /\ Places(f)[x] < e)
            BY <1>1
        <3>4. Places(f)[x] # e
            BY <1>1, <1>3, <3>2
        <3>5. ~ (so < Places(f)[x] /\ Places(f)[x] <= i)
            BY <1>1, <3>2
        <3> QED BY <3>1, <3>3, <3>4, <3>5, <1>4
    <2>3. \A y \in Q \ D : v \notin Void[y] =>
                ~ (2 * p < 2 * Places(f)[Start(y)] + 1 /\ 2 * Places(f)[Start(y)] + 1 <= 2 * e)
        BY <1>1, <1>7
    <2>4. 2 * e <= 2 * c
        BY <1>4
    <2>5. Keyed(Substring(f, p, so), X, key, 2 * p, 2 * e)
        BY <2>1, <2>2, <2>3, <2>4, <1>5, <1>6, KeyedOld
    <2> QED BY <2>5, <1>7 DEF so
<1>8. CASE z \notin D
    <2>1. \A y \in Q \ D : v \notin Void[y] =>
                ~ (2 * p < 2 * Places(f)[Start(y)] + 1 /\ 2 * Places(f)[Start(y)] + 1 <= 2 * i)
        <3> SUFFICES ASSUME NEW y \in Q,
                            2 * p < 2 * Places(f)[Start(y)] + 1, 2 * Places(f)[Start(y)] + 1 <= 2 * i
                     PROVE  FALSE
            OBVIOUS
        <3>1. Places(f)[Start(y)] \in Int
            BY <1>2
        <3>2. y # z
            BY <1>4
        <3>3. 2 * Places(f)[Start(y)] + 1 <= 2 * e
            BY <3>1, <1>4
        <3> QED BY <3>2, <3>3, <1>1
    <2>2. 2 * i <= 2 * c /\ 2 * i - 1 <= 2 * c
        BY <1>4
    <2>3. Keyed(Substring(f, p, so), X, key, 2 * p, 2 * i - 1)
        <3>1. \A x \in Own(f) : p < Places(f)[x] /\ Places(f)[x] <= so =>
                Kept(f, Q, D, x) /\ 2 * p < 2 * Places(f)[x] /\ 2 * Places(f)[x] <= 2 * i - 1
            <4> SUFFICES ASSUME NEW x \in Own(f), p < Places(f)[x], Places(f)[x] <= so
                         PROVE  Kept(f, Q, D, x) /\ 2 * p < 2 * Places(f)[x] /\ 2 * Places(f)[x] <= 2 * i - 1
                OBVIOUS
            <4> DEFINE at == Places(f)[x]
            <4>1. at \in Int /\ p < at /\ at <= so
                BY <1>2
            <4> HIDE DEF at
            <4>2. at < i /\ 2 * p < 2 * at /\ 2 * at <= 2 * i - 1
                BY ONLY <4>1, <1>4
            <4> QED BY <4>1, <4>2, <1>1 DEF at
        <3>2. \A x \in Own(f) : Kept(f, Q, D, x) /\ 2 * p < 2 * Places(f)[x] /\ 2 * Places(f)[x] <= 2 * i - 1 =>
                p < Places(f)[x] /\ Places(f)[x] <= so
            <4> SUFFICES ASSUME NEW x \in Own(f), 
                            2 * p < 2 * Places(f)[x], 2 * Places(f)[x] <= 2 * i - 1
                     PROVE  p < Places(f)[x] /\ Places(f)[x] <= so
                OBVIOUS
            <4> DEFINE at == Places(f)[x]
            <4>1. at \in Int /\ 2 * p < 2 * at /\ 2 * at <= 2 * i - 1
                BY <1>2
            <4>2. so < at /\ at <= i => x = Start(z)
                BY <1>1
            <4>3. x = Start(z) => at = i
                OBVIOUS
            <4> HIDE DEF at
            <4>4. p < at /\ at < i
                BY ONLY <4>1, <1>4
            <4>5. at <= so
                BY ONLY <4>1, <4>2, <4>3, <4>4, <1>4
            <4> QED BY <4>4, <4>5 DEF at
        <3>3. \A y \in Q \ D : v \notin Void[y] =>
                ~ (2 * p < 2 * Places(f)[Start(y)] + 1 /\ 2 * Places(f)[Start(y)] + 1 <= 2 * i - 1)
            <4> SUFFICES ASSUME NEW y \in Q \ D, v \notin Void[y]
                         PROVE  ~ (2 * p < 2 * Places(f)[Start(y)] + 1 /\ 2 * Places(f)[Start(y)] + 1 <= 2 * i - 1)
                OBVIOUS
            <4> DEFINE at == Places(f)[Start(y)]
            <4>1. at \in Int /\ ~ (2 * p < 2 * at + 1 /\ 2 * at + 1 <= 2 * i)
                BY <2>1, <1>2
            <4> HIDE DEF at
            <4>2. ~ (2 * p < 2 * at + 1 /\ 2 * at + 1 <= 2 * i - 1)
                BY ONLY <4>1, <1>4
            <4> QED BY <4>2 DEF at
        <3> QED BY <3>1, <3>2, <3>3, <2>2, <1>5, <1>6, KeyedOld
    <2>4. Keyed(Substring(f, so, i), X, key, 2 * i - 1, 2 * i)
        <3>1. \A x \in Own(f) : so < Places(f)[x] /\ Places(f)[x] <= i =>
                Kept(f, Q, D, x) /\ 2 * i - 1 < 2 * Places(f)[x] /\ 2 * Places(f)[x] <= 2 * i
            <4> SUFFICES ASSUME NEW x \in Own(f), so < Places(f)[x], Places(f)[x] <= i
                         PROVE  Kept(f, Q, D, x) /\ 2 * i - 1 < 2 * Places(f)[x] /\ 2 * Places(f)[x] <= 2 * i
                OBVIOUS
            <4>1. x = Start(z) /\ Kept(f, Q, D, x)
                BY <1>1, <1>8
            <4>2. Places(f)[x] = i
                BY <4>1
            <4>3. 2 * i - 1 < 2 * i /\ 2 * i <= 2 * i
                BY ONLY <1>4
            <4> QED BY <4>1, <4>2, <4>3
        <3>2. \A x \in Own(f) : Kept(f, Q, D, x) /\ 2 * i - 1 < 2 * Places(f)[x] /\ 2 * Places(f)[x] <= 2 * i =>
                so < Places(f)[x] /\ Places(f)[x] <= i
            <4> SUFFICES ASSUME NEW x \in Own(f), 2 * i - 1 < 2 * Places(f)[x], 2 * Places(f)[x] <= 2 * i
                         PROVE  so < Places(f)[x] /\ Places(f)[x] <= i
                OBVIOUS
            <4> DEFINE at == Places(f)[x]
            <4>1. at \in Int /\ 2 * i - 1 < 2 * at /\ 2 * at <= 2 * i
                BY <1>2
            <4> HIDE DEF at
            <4>2. so < at /\ at <= i
                BY ONLY <4>1, <1>4
            <4> QED BY <4>2 DEF at
        <3>3. \A y \in Q \ D : v \notin Void[y] =>
                ~ (2 * i - 1 < 2 * Places(f)[Start(y)] + 1 /\ 2 * Places(f)[Start(y)] + 1 <= 2 * i)
            <4> SUFFICES ASSUME NEW y \in Q \ D
                         PROVE  ~ (2 * i - 1 < 2 * Places(f)[Start(y)] + 1 /\ 2 * Places(f)[Start(y)] + 1 <= 2 * i)
                OBVIOUS
            <4> DEFINE at == Places(f)[Start(y)]
            <4>1. at \in Int
                BY <1>2
            <4> HIDE DEF at
            <4>2. ~ (2 * i - 1 < 2 * at + 1 /\ 2 * at + 1 <= 2 * i)
                BY ONLY <4>1, <1>4
            <4> QED BY <4>2 DEF at
        <3> QED BY <3>1, <3>2, <3>3, <2>2, <1>5, <1>6, KeyedOld
    <2>5. Keyed(Substring(f, p, i), X, key, 2 * p, 2 * i)
        <3>1. \A x \in Own(f) : p < Places(f)[x] /\ Places(f)[x] <= i =>
                Kept(f, Q, D, x) /\ 2 * p < 2 * Places(f)[x] /\ 2 * Places(f)[x] <= 2 * i
            <4> SUFFICES ASSUME NEW x \in Own(f), p < Places(f)[x], Places(f)[x] <= i
                         PROVE  Kept(f, Q, D, x) /\ 2 * p < 2 * Places(f)[x] /\ 2 * Places(f)[x] <= 2 * i
                OBVIOUS
            <4>1. Places(f)[x] \in Int
                BY <1>2
            <4>2. Places(f)[x] = i => x = Start(z)
                BY <1>1, <1>4
            <4>3. Kept(f, Q, D, x)
                BY <4>1, <4>2, <1>1, <1>4, <1>8
            <4> QED BY <4>1, <4>3, <1>4
        <3>2. \A x \in Own(f) : Kept(f, Q, D, x) /\ 2 * p < 2 * Places(f)[x] /\ 2 * Places(f)[x] <= 2 * i =>
                p < Places(f)[x] /\ Places(f)[x] <= i
            BY <1>2, <1>4
        <3> QED BY <3>1, <3>2, <2>1, <2>2, <1>5, <1>6, KeyedOld
    <2> QED BY <2>3, <2>4, <2>5, <1>8 DEF so
<1> QED BY <1>7, <1>8

\* The line that ends a zone.
LEMMA KeyedEnd ==
    ASSUME NEW f, NEW Q, NEW D, NEW v, NEW new, NEW c, NEW X, NEW key,
           Splicing(f, Q, D, v, new, c, X, key),
           NEW z, NEW p, Turn(f, Q, z, p), z \notin D,
           NEW i, i = Places(f)[Start(z)], NEW e, e = Places(f)[End(z)], e <= c
    PROVE  Keyed(Substring(f, Pair(f, z).endLineStart, e), X, key, 2 * i + 1, 2 * e)
<1> DEFINE el == Pair(f, z).endLineStart
<1>1. /\ z \in Zones /\ i \in 1..Len(f) /\ e \in 1..Len(f) /\ i < e
      /\ el \in i..(e - 1)
      /\ \A x \in Own(f) : el < Places(f)[x] /\ Places(f)[x] <= e => x = End(z)
      /\ \A x \in Own(f) : i < Places(f)[x] /\ Places(f)[x] < e => ~ Kept(f, Q, D, x)
      /\ Start(z) \in Own(f) /\ End(z) \in Own(f)
      /\ Kept(f, Q, D, Start(z)) /\ Kept(f, Q, D, End(z))
      /\ \A y \in Q : y # z =>
            ~ (2 * p < 2 * Places(f)[Start(y)] + 1 /\ 2 * Places(f)[Start(y)] + 1 <= 2 * e)
    BY LinesOfTurn
<1>2. /\ f \in Seq(Lines) /\ Distinct(f) /\ Len(f) \in Nat /\ c \in 0..Len(f)
      /\ \A x \in Own(f) : Places(f)[x] \in 1..Len(f)
      /\ \A y \in Q : Places(f)[Start(y)] \in 1..Len(f)
      /\ z \in Q /\ p \in Nat /\ p < i
    BY TypesOf DEF Turn
<1>3. \A x, y \in Own(f) : Places(f)[x] = Places(f)[y] => x = y
    BY <1>2, PlacesOf
<1>4. p \in Int /\ el \in Int /\ i \in Int /\ e \in Int /\ i <= el /\ el < e /\ i < e /\ e <= c /\ c \in Int
    BY <1>1, <1>2
<1>5. el \in 0..c /\ e \in el..c /\ 2 * i + 1 \in Int /\ 2 * e \in Int /\ 2 * e <= 2 * c
    <2>1. i >= 1
        BY <1>1
    <2> QED BY <2>1, <1>4
<1> HIDE DEF el
<1>6. \A x \in Own(f) : el < Places(f)[x] /\ Places(f)[x] <= e =>
            Kept(f, Q, D, x) /\ 2 * i + 1 < 2 * Places(f)[x] /\ 2 * Places(f)[x] <= 2 * e
    BY <1>1, <1>4
<1>7. \A x \in Own(f) : Kept(f, Q, D, x) /\ 2 * i + 1 < 2 * Places(f)[x] /\ 2 * Places(f)[x] <= 2 * e =>
            el < Places(f)[x] /\ Places(f)[x] <= e
    <2> SUFFICES ASSUME NEW x \in Own(f), Kept(f, Q, D, x),
                        2 * i + 1 < 2 * Places(f)[x], 2 * Places(f)[x] <= 2 * e
                 PROVE  el < Places(f)[x] /\ Places(f)[x] <= e
        OBVIOUS
    <2> DEFINE at == Places(f)[x]
    <2>1. at \in Int /\ 2 * i + 1 < 2 * at /\ 2 * at <= 2 * e
        BY <1>2
    <2>2. ~ (i < at /\ at < e)
        BY <1>1
    <2> HIDE DEF at
    <2>3. el < at /\ at <= e
        BY ONLY <2>1, <2>2, <1>4
    <2> QED BY <2>3 DEF at
<1>8. \A y \in Q \ D : v \notin Void[y] =>
            ~ (2 * i + 1 < 2 * Places(f)[Start(y)] + 1 /\ 2 * Places(f)[Start(y)] + 1 <= 2 * e)
    <2> SUFFICES ASSUME NEW y \in Q,
                        2 * i + 1 < 2 * Places(f)[Start(y)] + 1, 2 * Places(f)[Start(y)] + 1 <= 2 * e
                 PROVE  FALSE
        OBVIOUS
    <2> DEFINE at == Places(f)[Start(y)]
    <2>1. at \in Int /\ p < i /\ 2 * i + 1 < 2 * at + 1 /\ 2 * at + 1 <= 2 * e
        BY <1>2
    <2>2. y = z => at = i
        OBVIOUS
    <2>3. y # z => ~ (2 * p < 2 * at + 1 /\ 2 * at + 1 <= 2 * e)
        BY <1>1
    <2> HIDE DEF at
    <2> QED BY ONLY <2>1, <2>2, <2>3, <1>4
<1>9. Keyed(Substring(f, el, e), X, key, 2 * i + 1, 2 * e)
    BY <1>5, <1>6, <1>7, <1>8, KeyedOld
<1> QED BY <1>9 DEF el

LEMMA KeyedTurn ==
    ASSUME NEW f, NEW Q, NEW D, NEW v, NEW new, NEW c, NEW X, NEW key,
           Splicing(f, Q, D, v, new, c, X, key),
           NEW z, NEW p, Turn(f, Q, z, p), Places(f)[End(z)] <= c
    PROVE  /\ \A S : (z \in S <=> z \notin D) =>
                Keyed(SpliceZone(f, S, v, p, z), X, key, 2 * p, 2 * Places(f)[End(z)])
           /\ z \notin D => Keyed(TsSpliceZone(f, v, p, z), X, key, 2 * p, 2 * Places(f)[End(z)])
<1> DEFINE i == Places(f)[Start(z)]
           e == Places(f)[End(z)]
           between == Substring(f, p, Pair(f, z).startOffset)
           first == Substring(f, Pair(f, z).startOffset, Pair(f, z).startLineEnd)
           content == Content(z, v)
           last == Substring(f, Pair(f, z).endLineStart, Pair(f, z).endLineEnd)
<1>1. /\ i \in 1..Len(f) /\ e \in 1..Len(f) /\ i < e
      /\ Pair(f, z).startLineEnd = i /\ Pair(f, z).endLineEnd = e
    BY LinesOfTurn
<1>2. p \in Nat /\ p < i /\ z \in Q /\ Keys(X, key) /\ c \in Int
    BY TypesOf DEF Turn
<1>3. /\ 2 * p \in Int /\ 2 * i - 1 \in Int /\ 2 * i \in Int /\ 2 * i + 1 \in Int /\ 2 * e \in Int
      /\ 2 * p <= 2 * i - 1 /\ 2 * i - 1 <= 2 * i /\ 2 * i <= 2 * i + 1 /\ 2 * i + 1 <= 2 * e
      /\ 2 * p <= 2 * i
    <2>1. p \in Int /\ i \in Int /\ e \in Int /\ p < i /\ i < e
        BY <1>1, <1>2
    <2> HIDE DEF i, e
    <2> QED BY <2>1
<1>4. CASE z \in D
    <2>1. Keyed(between, X, key, 2 * p, 2 * e)
        BY <1>4, KeyedBetween
    <2>2. \A S : z \notin S => SpliceZone(f, S, v, p, z) = between \o <<>>
        BY DEF SpliceZone
    <2>3. between \o <<>> = between
        <3>1. between \in Seq(Lines)
            BY <2>1 DEF Keyed
        <3> HIDE DEF between
        <3> QED BY <3>1
    <2> QED BY <2>1, <2>2, <2>3, <1>4
<1>5. CASE z \notin D
    <2>1. /\ Keyed(between, X, key, 2 * p, 2 * i - 1)
          /\ Keyed(first, X, key, 2 * i - 1, 2 * i)
          /\ Keyed(Substring(f, p, i), X, key, 2 * p, 2 * i)
        BY <1>1, <1>5, KeyedBetween
    <2>2. Keyed(content, X, key, 2 * i, 2 * i + 1)
        <3>1. z \in Q \ D /\ i < c
            BY <1>1, <1>2, <1>5
        <3> QED BY <3>1, KeyedContent
    <2>3. Keyed(last, X, key, 2 * i + 1, 2 * e)
        BY <1>1, <1>5, KeyedEnd
    <2>4. \A S : z \in S => SpliceZone(f, S, v, p, z) = between \o (first \o content \o last)
        BY DEF SpliceZone
    <2>5. TsSpliceZone(f, v, p, z) = Substring(f, p, i) \o content \o last
        BY <1>1 DEF TsSpliceZone
    <2> HIDE DEF between, first, content, last, i, e
    <2>6. Keyed(first \o content, X, key, 2 * i - 1, 2 * i + 1)
        <3>1. 2 * i - 1 <= 2 * i + 1
            BY <1>3
        <3> QED BY <2>1, <2>2, <1>2, <1>3, KeyedConcat
    <2>7. Keyed(first \o content \o last, X, key, 2 * i - 1, 2 * e)
        <3>1. 2 * i - 1 <= 2 * i + 1
            BY <1>3
        <3> QED BY <3>1, <2>3, <2>6, <1>2, <1>3, KeyedConcat
    <2>8. Keyed(between \o (first \o content \o last), X, key, 2 * p, 2 * e)
        <3>1. 2 * i - 1 <= 2 * e
            BY <1>3
        <3> QED BY <3>1, <2>1, <2>7, <1>2, <1>3, KeyedConcat
    <2>9. Keyed(Substring(f, p, i) \o content, X, key, 2 * p, 2 * i + 1)
        BY <2>1, <2>2, <1>2, <1>3, KeyedConcat
    <2>10. Keyed(Substring(f, p, i) \o content \o last, X, key, 2 * p, 2 * e)
        <3>1. 2 * p <= 2 * i + 1
            BY <1>3
        <3> QED BY <3>1, <2>3, <2>9, <1>2, <1>3, KeyedConcat
    <2> QED BY <2>4, <2>5, <2>8, <2>10, <1>5 DEF e
<1> QED BY <1>4, <1>5

(* The loop over the zones of a file.                                                *)

\* ids are the zones of Q by position.
Seats(f, Q, ids) ==
    /\ Len(ids) \in Nat /\ ids \in [1..Len(ids) -> Q]
    /\ \A k, l \in 1..Len(ids) : k < l => Places(f)[Start(ids[k])] < Places(f)[Start(ids[l])]
    /\ \A z \in Q : \E k \in 1..Len(ids) : ids[k] = z

LEMMA ZonesApart ==
    ASSUME NEW f, WellFormed(f), NEW y \in Zones, Sound(f, y),
           NEW x \in Own(f), x.kind # "auto" \/ x.id # y
    PROVE  /\ Places(f)[Start(y)] \in 1..Len(f) /\ Places(f)[End(y)] \in 1..Len(f)
           /\ Places(f)[x] \in 1..Len(f)
           /\ Places(f)[Start(y)] < Places(f)[End(y)]
           /\ x = Start(y) \/ x = End(y) \/ Places(f)[x] < Places(f)[Start(y)] \/ Places(f)[End(y)] < Places(f)[x]
<1>1. f \in Seq(Lines) /\ Distinct(f) /\ Start(y) \in Own(f) /\ End(y) \in Own(f)
    BY DEF WellFormed, Sound
<1>2. /\ Places(f)[Start(y)] \in 1..Len(f) /\ Places(f)[End(y)] \in 1..Len(f)
      /\ Places(f)[x] \in 1..Len(f)
      /\ Places(f)[x] = Places(f)[Start(y)] => x = Start(y)
      /\ Places(f)[x] = Places(f)[End(y)] => x = End(y)
    BY <1>1, PlacesOf
<1>3. /\ Places(f)[Start(y)] < Places(f)[End(y)]
      /\ ~ (Places(f)[Start(y)] < Places(f)[x] /\ Places(f)[x] < Places(f)[End(y)])
    BY DEF WellFormed, Whole
<1> QED BY <1>2, <1>3

LEMMA SeatsOf ==
    ASSUME NEW f, NEW Q, WellFormed(f), Q \subseteq Zones, \A z \in Q : Sound(f, z),
           NEW ids, Seats(f, Q, ids)
    PROVE  /\ \A k \in 0..Len(ids) : Cursor(f, ids, k) \in 0..Len(f)
           /\ \A k \in 1..Len(ids) : /\ Turn(f, Q, ids[k], Cursor(f, ids, k - 1))
                                     /\ Cursor(f, ids, k) = Places(f)[End(ids[k])]
                                     /\ Cursor(f, ids, k - 1) < Cursor(f, ids, k)
           /\ \A z \in Q : Places(f)[End(z)] <= Cursor(f, ids, Len(ids))
<1> DEFINE n == Len(ids)
           c(k) == Cursor(f, ids, k)
<1>1. /\ n \in Nat /\ ids \in [1..n -> Q]
      /\ \A k, l \in 1..n : k < l => Places(f)[Start(ids[k])] < Places(f)[Start(ids[l])]
      /\ \A z \in Q : \E k \in 1..n : ids[k] = z
    BY DEF Seats
<1>2. f \in Seq(Lines) /\ Distinct(f) /\ Len(f) \in Nat
    BY DEF WellFormed
<1>3. ASSUME NEW z \in Q
      PROVE  /\ Start(z) \in Own(f) /\ End(z) \in Own(f)
             /\ Places(f)[Start(z)] \in 1..Len(f) /\ Places(f)[End(z)] \in 1..Len(f)
             /\ Places(f)[Start(z)] < Places(f)[End(z)]
             /\ f[Places(f)[End(z)]] # Blank
             /\ Pair(f, z).endLineEnd = Places(f)[End(z)]
    <2>1. z \in Zones /\ Start(z) \in Own(f) /\ End(z) \in Own(f)
        BY DEF Sound
    <2>2. Places(f)[Start(z)] \in 1..Len(f) /\ Places(f)[End(z)] \in 1..Len(f) /\ f[Places(f)[End(z)]] = End(z)
        BY <2>1, <1>2, PlacesOf
    <2>3. End(z) # Blank
        BY <2>1, LineKinds, SolidKinds
    <2>4. Places(f)[Start(z)] < Places(f)[End(z)]
        BY <2>1 DEF WellFormed, Whole
    <2>5. Pair(f, z).endLineEnd = Places(f)[End(z)]
        BY <2>1, <1>2, PairOf
    <2> QED BY <2>1, <2>2, <2>3, <2>4, <2>5
<1>4. \A k \in 1..n : ids[k] \in Q /\ c(k) = Places(f)[End(ids[k])]
    BY <1>1, <1>3 DEF Cursor
<1>5. c(0) = 0
    BY DEF Cursor
<1> HIDE DEF c
<1>6. \A k \in 0..n : c(k) \in 0..Len(f)
    <2> TAKE k \in 0..n
    <2>1. CASE k = 0
        BY <2>1, <1>2, <1>5
    <2>2. CASE k # 0
        <3>1. k \in 1..n
            BY <2>2, <1>1
        <3>2. c(k) \in 1..Len(f)
            BY <3>1, <1>3, <1>4
        <3> QED BY <3>2, <1>2
    <2> QED BY <2>1, <2>2
<1>7. ASSUME NEW y \in Q, NEW z \in Q, Places(f)[Start(y)] < Places(f)[Start(z)]
      PROVE  Places(f)[End(y)] < Places(f)[Start(z)]
    <2>1. y \in Zones /\ z \in Zones /\ Sound(f, y) /\ Start(z) \in Own(f) /\ Start(z).kind # "auto"
        BY <1>3, LineKinds
    <2>2. Start(z) # Start(y) /\ Start(z) # End(y)
        <3>1. Start(z) # End(y)
            BY <2>1, LineKinds
        <3>2. Start(z) # Start(y)
            BY <1>3, <1>7
        <3> QED BY <3>1, <3>2
    <2>3. Places(f)[Start(z)] < Places(f)[Start(y)] \/ Places(f)[End(y)] < Places(f)[Start(z)]
        BY <2>1, <2>2, ZonesApart
    <2>4. Places(f)[Start(z)] \in Int /\ Places(f)[Start(y)] \in Int
        BY <1>3
    <2> QED BY <2>3, <2>4, <1>7
<1>8. ASSUME NEW k \in 1..n, NEW l \in 1..n, k < l
      PROVE  c(k) < Places(f)[Start(ids[l])] /\ c(k) < c(l)
    <2>1. Places(f)[End(ids[k])] < Places(f)[Start(ids[l])]
        BY <1>1, <1>4, <1>7, <1>8
    <2>2. /\ Places(f)[Start(ids[l])] \in Int /\ Places(f)[End(ids[l])] \in Int /\ Places(f)[End(ids[k])] \in Int
          /\ Places(f)[Start(ids[l])] < Places(f)[End(ids[l])]
        BY <1>3, <1>4
    <2> QED BY <2>1, <2>2, <1>4
<1>9. ASSUME NEW k \in 1..n
      PROVE  Turn(f, Q, ids[k], c(k - 1)) /\ c(k - 1) < c(k)
    <2>0. k - 1 \in 0..n /\ ids[k] \in Q
        BY <1>1, <1>4
    <2>1. c(k - 1) \in Nat
        BY <2>0, <1>2, <1>6
    <2>2. c(k - 1) < Places(f)[Start(ids[k])]
        <3>1. CASE k = 1
            BY <3>1, <2>0, <1>3, <1>5
        <3>2. CASE k # 1
            <4>1. k - 1 \in 1..n /\ k - 1 < k
                BY <3>2, <1>1
            <4> QED BY <4>1, <1>8
        <3> QED BY <3>1, <3>2
    <2>3. c(k - 1) > 0 => f[c(k - 1)] # Blank
        <3>1. CASE k = 1
            BY <3>1, <1>5
        <3>2. CASE k # 1
            <4>1. k - 1 \in 1..n
                BY <3>2, <1>1
            <4> QED BY <4>1, <1>3, <1>4
        <3> QED BY <3>1, <3>2
    <2>4. ASSUME NEW y \in Q, y # ids[k]
          PROVE  Places(f)[End(y)] <= c(k - 1) \/ Places(f)[End(ids[k])] < Places(f)[Start(y)]
        <3>1. PICK l \in 1..n : ids[l] = y
            BY <1>1
        <3>2. l < k \/ k < l
            BY <2>4, <3>1, <1>1
        <3>3. CASE k < l
            BY <3>1, <3>3, <1>4, <1>8
        <3>4. CASE l < k
            <4>1. k - 1 \in 1..n /\ (l = k - 1 \/ l < k - 1)
                BY <3>4, <1>1
            <4>2. c(l) <= c(k - 1)
                <5>1. CASE l = k - 1
                    BY <5>1, <2>1
                <5>2. CASE l < k - 1
                    <6>1. c(l) < c(k - 1)
                        BY <5>2, <4>1, <1>8
                    <6>2. c(l) \in Int
                        BY <1>3, <1>4
                    <6> QED BY <6>1, <6>2, <2>1
                <5> QED BY <5>1, <5>2, <4>1
            <4> QED BY <4>2, <3>1, <1>4
        <3> QED BY <3>2, <3>3, <3>4
    <2>5. Turn(f, Q, ids[k], c(k - 1))
        BY <2>0, <2>1, <2>2, <2>3, <2>4 DEF Turn
    <2>6. c(k - 1) < c(k)
        <3>1. /\ Places(f)[Start(ids[k])] \in Int /\ Places(f)[End(ids[k])] \in Int
              /\ Places(f)[Start(ids[k])] < Places(f)[End(ids[k])]
            BY <2>0, <1>3
        <3> QED BY <3>1, <2>1, <2>2, <1>4
    <2> QED BY <2>5, <2>6
<1>10. ASSUME NEW z \in Q PROVE Places(f)[End(z)] <= c(n)
    <2>1. PICK k \in 1..n : ids[k] = z
        BY <1>1
    <2>2. n \in 1..n /\ (k = n \/ k < n)
        <3>1. n \in Int /\ k \in Int /\ 1 <= k /\ k <= n
            BY <1>1
        <3> HIDE DEF n
        <3> QED BY <3>1
    <2>3. c(k) \in Int /\ c(n) \in Int
        BY <2>2, <1>3, <1>4
    <2>4. c(k) <= c(n)
        BY <2>2, <2>3, <1>8
    <2> QED BY <2>1, <2>4, <1>4
<1> QED BY <1>4, <1>6, <1>9, <1>10 DEF c

LEMMA KeyedTurns ==
    ASSUME NEW f, NEW Q, NEW D, NEW v, NEW new, NEW c, NEW X, NEW key,
           Splicing(f, Q, D, v, new, c, X, key),
           NEW ids, Seats(f, Q, ids), c = Cursor(f, ids, Len(ids)),
           NEW P, P = [k \in DOMAIN ids |-> P[k]],
           \A k \in 1..Len(ids) :
                Keyed(P[k], X, key, 2 * Cursor(f, ids, k - 1), 2 * Places(f)[End(ids[k])])
    PROVE  Keyed(FlattenSeq(P), X, key, 0, 2 * c)
<1> DEFINE n == Len(ids)
           b == [k \in 0..n |-> 2 * Cursor(f, ids, k)]
<1>1. n \in Nat /\ DOMAIN ids = 1..n
    BY DEF Seats
<1>2. /\ \A k \in 0..n : Cursor(f, ids, k) \in 0..Len(f)
      /\ \A k \in 1..n : /\ Cursor(f, ids, k) = Places(f)[End(ids[k])]
                         /\ Cursor(f, ids, k - 1) < Cursor(f, ids, k)
    <2>1. WellFormed(f) /\ Q \subseteq Zones /\ \A z \in Q : Sound(f, z)
        BY DEF Splicing, Spliceable
    <2>2. /\ \A k \in 0..Len(ids) : Cursor(f, ids, k) \in 0..Len(f)
          /\ \A k \in 1..Len(ids) : /\ Turn(f, Q, ids[k], Cursor(f, ids, k - 1))
                                    /\ Cursor(f, ids, k) = Places(f)[End(ids[k])]
                                    /\ Cursor(f, ids, k - 1) < Cursor(f, ids, k)
        BY <2>1, SeatsOf
    <2> QED BY <2>2
<1>3. Keys(X, key) /\ Len(f) \in Nat
    BY TypesOf
<1>4. P \in Seq(Seq(Lines)) /\ Len(P) = n
    <2>1. \A k \in 1..n : P[k] \in Seq(Lines)
        BY DEF Keyed
    <2>2. P \in [1..n -> Seq(Lines)]
        BY <2>1, <1>1
    <2> HIDE DEF n
    <2> QED BY <2>2, <1>1
<1>5. \A k \in 0..n : b[k] \in Int
    BY <1>2, <1>3
<1>6. \A k \in 1..n : b[k - 1] <= b[k] /\ Keyed(P[k], X, key, b[k - 1], b[k])
    <2> TAKE k \in 1..n
    <2>1. k \in 0..n /\ k - 1 \in 0..n
        BY <1>1
    <2>2. b[k] = 2 * Cursor(f, ids, k) /\ b[k - 1] = 2 * Cursor(f, ids, k - 1)
        BY <2>1
    <2>3. Cursor(f, ids, k) \in Int /\ Cursor(f, ids, k - 1) \in Int
        BY <2>1, <1>2, <1>3
    <2> HIDE DEF n, b
    <2>4. b[k - 1] <= b[k]
        BY <2>2, <2>3, <1>2
    <2>5. Keyed(P[k], X, key, b[k - 1], b[k])
        BY <2>2, <1>2 DEF n
    <2> QED BY <2>4, <2>5
<1>7. b[0] = 0 /\ b[n] = 2 * c
    BY <1>1 DEF Cursor
<1> HIDE DEF b, n
<1> QED BY <1>1, <1>3, <1>4, <1>5, <1>6, <1>7, KeyedFlatten

\* Nothing is added.
LEMMA NothingNew ==
    ASSUME NEW f, NEW Q, NEW D, NEW v, NEW c, NEW X, NEW key,
           Splicing(f, Q, D, v, {}, c, X, key), \A z \in Q : Places(f)[Start(z)] < c
    PROVE  Keyed(<<>>, X, key, 2 * c, 2 * c + Extra)
<1>1. /\ f \in Seq(Lines) /\ Len(f) \in Nat /\ c \in 0..Len(f)
      /\ Extra \in Nat /\ \A x \in X : key[x] \in Int
      /\ \A z \in Q : Places(f)[Start(z)] \in 1..Len(f)
    BY TypesOf
<1>2. ASSUME NEW x \in X, 2 * c < key[x], key[x] <= 2 * c + Extra PROVE FALSE
    <2>1. ASSUME Places(f)[x] \in 1..Len(f), Places(f)[x] <= c, key[x] = 2 * Places(f)[x] PROVE FALSE
        BY <2>1, <1>1, <1>2
    <2>2. ASSUME Places(f)[x] \in 1..Len(f), Places(f)[x] > c, key[x] = 2 * Places(f)[x] + Extra PROVE FALSE
        BY <2>2, <1>1, <1>2
    <2>3. ASSUME NEW z \in Q, key[x] = 2 * Places(f)[Start(z)] + 1 PROVE FALSE
        <3>1. Places(f)[Start(z)] \in Int /\ Places(f)[Start(z)] < c
            BY <1>1
        <3> QED BY <3>1, <2>3, <1>1, <1>2
    <2> QED BY <2>1, <2>2, <2>3, KeyOf
<1> QED BY <1>2, KeyedNothing

LEMMA KeysBounded ==
    ASSUME NEW f, NEW Q, NEW D, NEW v, NEW new, NEW c, NEW X, NEW key,
           Splicing(f, Q, D, v, new, c, X, key), NEW x \in X
    PROVE  0 < key[x] /\ key[x] <= 2 * Len(f) + Extra
<1>1. /\ Len(f) \in Nat /\ c \in 0..Len(f) /\ Extra \in Nat
      /\ \A z \in Q : Places(f)[Start(z)] \in 1..Len(f) /\ Places(f)[End(z)] \in 1..Len(f)
                      /\ Places(f)[Start(z)] < Places(f)[End(z)]
    BY TypesOf
<1>2. ASSUME Places(f)[x] \in 1..Len(f), key[x] = 2 * Places(f)[x]
      PROVE  0 < key[x] /\ key[x] <= 2 * Len(f) + Extra
    BY <1>1, <1>2
<1>3. ASSUME Places(f)[x] \in 1..Len(f), key[x] = 2 * Places(f)[x] + Extra
      PROVE  0 < key[x] /\ key[x] <= 2 * Len(f) + Extra
    BY <1>1, <1>3
<1>4. ASSUME NEW z \in Q, key[x] = 2 * Places(f)[Start(z)] + 1
      PROVE  0 < key[x] /\ key[x] <= 2 * Len(f) + Extra
    <2>1. /\ Places(f)[Start(z)] \in Int /\ Places(f)[End(z)] \in Int /\ 1 <= Places(f)[Start(z)]
          /\ Places(f)[Start(z)] < Places(f)[End(z)] /\ Places(f)[End(z)] <= Len(f)
        BY <1>1
    <2> QED BY <2>1, <1>1, <1>4
<1>5. ASSUME NEW q \in 1..Len(Ids), key[x] \in {2 * c + 3 * q - 2, 2 * c + 3 * q - 1, 2 * c + 3 * q}
      PROVE  0 < key[x] /\ key[x] <= 2 * Len(f) + Extra
    BY <1>1, <1>5, Indices DEF Extra
<1> QED BY <1>2, <1>3, <1>4, <1>5, KeyOf

\* g is what splicing makes of f.
Spliced(f, Q, D, v, new, g) ==
    \E c, X, key :
        /\ Splicing(f, Q, D, v, new, c, X, key)
        /\ \A z \in Q : Places(f)[End(z)] <= c
        /\ c = 0 \/ \E z \in Q : c = Places(f)[End(z)]
        /\ Keyed(g, X, key, 0, 2 * Len(f) + Extra)

\* The parts of a spliced file put together.
LEMMA PartsSpliced ==
    ASSUME NEW f, NEW Q, NEW D, NEW v, NEW new, Spliceable(f, Q, D, v, new),
           NEW c \in 0..Len(f), \A z \in Q : Places(f)[End(z)] <= c,
           c = 0 \/ \E z \in Q : c = Places(f)[End(z)],
           NEW a, NEW b,
           \A X, key : Splicing(f, Q, D, v, new, c, X, key) =>
                Keyed(a, X, key, 0, 2 * c) /\ Keyed(b, X, key, 2 * c, 2 * c + Extra)
    PROVE  Spliced(f, Q, D, v, new, a \o b \o Substring(f, c, Len(f)))
<1>1. Len(f) \in Nat
    BY DEF Spliceable, WellFormed
<1>2. PICK X, key : Splicing(f, Q, D, v, new, c, X, key)
    <2>1. c \in Nat
        BY <1>1
    <2> QED BY <2>1, KeysExist DEF Splicing
<1>3. Keyed(a, X, key, 0, 2 * c) /\ Keyed(b, X, key, 2 * c, 2 * c + Extra)
    BY <1>2
<1>4. /\ Keys(X, key) /\ Extra \in Nat
      /\ \A z \in Q : /\ Places(f)[Start(z)] \in 1..Len(f) /\ Places(f)[End(z)] \in 1..Len(f)
                      /\ Places(f)[Start(z)] < Places(f)[End(z)]
      /\ \A x \in Own(f) : x \in Solid /\ Places(f)[x] \in 1..Len(f)
    BY <1>2, TypesOf
<1>5. \A x \in Own(f) : c < Places(f)[x] => Kept(f, Q, D, x)
    <2> SUFFICES ASSUME NEW x \in Own(f), c < Places(f)[x], x.kind \in {"start", "end", "auto"}, x.id \in Q
                 PROVE  FALSE
        BY <1>4 DEF Kept, Spliceable
    <2> DEFINE y == x.id
    <2>1. y \in Zones /\ Sound(f, y) /\ WellFormed(f)
        BY DEF Spliceable
    <2>2. Places(f)[x] <= Places(f)[End(y)]
        <3>1. CASE x.kind = "auto"
            <4>1. Places(f)[x] < Places(f)[End(y)]
                BY <3>1, <2>1 DEF WellFormed, Whole
            <4> QED BY <4>1, <1>4
        <3>2. CASE x.kind # "auto"
            <4>1. x = Start(y) \/ x = End(y)
                BY <3>2, <1>4, SolidKinds
            <4> QED BY <4>1, <1>4
        <3> QED BY <3>1, <3>2
    <2>3. Places(f)[x] \in Int /\ Places(f)[End(y)] \in Int /\ Places(f)[End(y)] <= c /\ c \in Int
        BY <1>1, <1>4
    <2> HIDE DEF y
    <2> QED BY <2>2, <2>3
<1>6. \A z \in Q : Places(f)[Start(z)] < c
    BY <1>1, <1>4
<1>7. Keyed(Substring(f, c, Len(f)), X, key, 2 * c + Extra, 2 * Len(f) + Extra)
    BY <1>2, <1>5, <1>6, KeyedTail
<1>8. /\ 0 <= 2 * c /\ 2 * c <= 2 * c + Extra /\ 0 <= 2 * c + Extra /\ 2 * c + Extra <= 2 * Len(f) + Extra
      /\ 2 * c \in Int /\ 2 * c + Extra \in Int /\ 2 * Len(f) + Extra \in Int
    BY <1>1, <1>4
<1>9. Keyed(a \o b, X, key, 0, 2 * c + Extra)
    BY <1>3, <1>4, <1>8, KeyedConcat
<1>10. Keyed(a \o b \o Substring(f, c, Len(f)), X, key, 0, 2 * Len(f) + Extra)
    BY <1>4, <1>7, <1>8, <1>9, KeyedConcat
<1> QED BY <1>2, <1>10 DEF Spliced

\* Where the indentation of a sigil starts.
LEMMA OffsetsOf ==
    ASSUME NEW f, WellFormed(f), NEW z \in Zones, Sound(f, z)
    PROVE  /\ Places(f)[Start(z)] \in 1..Len(f) /\ Places(f)[End(z)] \in 1..Len(f)
           /\ Places(f)[Start(z)] < Places(f)[End(z)]
           /\ Pair(f, z).startLineEnd = Places(f)[Start(z)]
           /\ Pair(f, z).endLineEnd = Places(f)[End(z)]
           /\ Pair(f, z).startOffset \in Nat /\ Pair(f, z).startOffset < Places(f)[Start(z)]
           /\ Pair(f, z).endLineStart \in Nat /\ Pair(f, z).endLineStart >= Places(f)[Start(z)]
           /\ \A y \in Zones : Sound(f, y) /\ Places(f)[Start(y)] < Places(f)[Start(z)] =>
                Places(f)[Start(y)] <= Pair(f, z).startOffset
<1> DEFINE i == Places(f)[Start(z)]
           e == Places(f)[End(z)]
<1>1. f \in Seq(Lines) /\ Distinct(f) /\ Len(f) \in Nat /\ Start(z) \in Own(f) /\ End(z) \in Own(f) /\ i < e
    BY DEF WellFormed, Whole, Sound
<1>2. i \in 1..Len(f) /\ e \in 1..Len(f)
    BY <1>1, PlacesOf
<1>3. \A x \in Own(f) : Places(f)[x] \in 1..Len(f) /\ f[Places(f)[x]] # Blank
    <2> TAKE x \in Own(f)
    <2>1. Places(f)[x] \in 1..Len(f) /\ f[Places(f)[x]] = x /\ x \in Solid
        BY <1>1, PlacesOf
    <2> QED BY <2>1, SolidKinds
<1>4. /\ Pair(f, z).startLineEnd = i /\ Pair(f, z).endLineEnd = e
      /\ Pair(f, z).startOffset = LineStart(f, i) /\ Pair(f, z).endLineStart = LineStart(f, e)
    BY <1>1, PairOf
<1> HIDE DEF i, e
<1>5. /\ LineStart(f, i) \in 0..(i - 1)
      /\ \A k \in (LineStart(f, i) + 1)..(i - 1) : f[k] = Blank
    BY <1>1, <1>2, LineStartOf
<1>6. /\ LineStart(f, e) \in 0..(e - 1)
      /\ \A k \in (LineStart(f, e) + 1)..(e - 1) : f[k] = Blank
    BY <1>1, <1>2, LineStartOf
<1>7. ASSUME NEW k \in 1..Len(f), f[k] # Blank, k < i PROVE k <= LineStart(f, i)
    <2> SUFFICES ASSUME LineStart(f, i) < k PROVE FALSE
        BY <1>2, <1>5
    <2>1. k \in (LineStart(f, i) + 1)..(i - 1)
        BY <1>2, <1>5, <1>7
    <2> QED BY <2>1, <1>5, <1>7
<1>8. LineStart(f, e) >= i
    <2> SUFFICES ASSUME LineStart(f, e) < i PROVE FALSE
        BY <1>2, <1>6
    <2>1. i \in (LineStart(f, e) + 1)..(e - 1)
        BY <1>1, <1>2, <1>6
    <2>2. f[i] # Blank
        BY <1>1, <1>3 DEF i
    <2> QED BY <2>1, <2>2, <1>6
<1>9. ASSUME NEW y \in Zones, Sound(f, y), Places(f)[Start(y)] < i
      PROVE  Places(f)[Start(y)] <= LineStart(f, i)
    <2>1. Start(y) \in Own(f)
        BY <1>9 DEF Sound
    <2> QED BY <2>1, <1>3, <1>7, <1>9
<1>10. LineStart(f, i) \in Nat /\ LineStart(f, i) < i /\ LineStart(f, e) \in Nat
    BY <1>2, <1>5, <1>6
<1> QED BY <1>1, <1>2, <1>4, <1>8, <1>9, <1>10 DEF i, e

LEMMA FirstSigilOf ==
    ASSUME NEW f \in Seq(Lines), NEW z, z \in OnDisk(f)
    PROVE  FirstSigil(f, z) \in Nat
<1> DEFINE T == {n \in Sigils(f) : f[n].id = z}
<1>1. T \subseteq Nat
    BY DEF Sigils
<1>2. T # {}
    BY DEF OnDisk
<1>3. PICK n \in T : \A m \in T : n <= m
    <2> HIDE DEF T
    <2> QED BY <1>1, <1>2, Least
<1>4. n \in Sigils(f) /\ f[n].id = z /\ \A m \in Sigils(f) : f[m].id = z => n <= m
    BY <1>3
<1>5. FirstSigil(f, z) \in Sigils(f)
    BY <1>4 DEF FirstSigil
<1> QED BY <1>5 DEF Sigils

LEMMA LowerTriples ==
    ASSUME NEW a \in Int, NEW b \in Int, NEW c \in Int, NEW d \in Int, NEW e \in Int, NEW g \in Int
    PROVE  Lower(<<a, b, c>>, <<d, e, g>>) <=> a < d \/ (a = d /\ b < e) \/ (a = d /\ b = e /\ c < g)
<1> DEFINE r == <<a, b, c>>
           s == <<d, e, g>>
<1>1. DOMAIN r = 1..3 /\ r[1] = a /\ r[2] = b /\ r[3] = c /\ s[1] = d /\ s[2] = e /\ s[3] = g
    OBVIOUS
<1>2. (1..3) = {1, 2, 3}
    OBVIOUS
<1>3. (\A m \in 1..(1 - 1) : r[m] = s[m]) <=> TRUE
    OBVIOUS
<1>4. (\A m \in 1..(2 - 1) : r[m] = s[m]) <=> r[1] = s[1]
    <2>1. 1..(2 - 1) = {1}
        OBVIOUS
    <2> HIDE DEF r, s
    <2> QED BY <2>1
<1>5. (\A m \in 1..(3 - 1) : r[m] = s[m]) <=> r[1] = s[1] /\ r[2] = s[2]
    <2>1. 1..(3 - 1) = {1, 2}
        OBVIOUS
    <2> HIDE DEF r, s
    <2> QED BY <2>1
<1> HIDE DEF r, s
<1>6. Lower(r, s) <=> \E n \in {1, 2, 3} : r[n] < s[n] /\ \A m \in 1..(n - 1) : r[m] = s[m]
    BY <1>1, <1>2 DEF Lower
<1>7. Lower(r, s) <=> \/ r[1] < s[1]
                      \/ r[2] < s[2] /\ r[1] = s[1]
                      \/ r[3] < s[3] /\ r[1] = s[1] /\ r[2] = s[2]
    BY <1>6, <1>3, <1>4, <1>5
<1>8. Lower(r, s) <=> a < d \/ (a = d /\ b < e) \/ (a = d /\ b = e /\ c < g)
    BY <1>7, <1>1
<1> QED BY <1>8 DEF r, s

LEMMA LowerOne ==
    ASSUME NEW a \in Int, NEW b \in Int
    PROVE  Lower(<<a>>, <<b>>) <=> a < b
<1> DEFINE r == <<a>>
           s == <<b>>
<1>1. DOMAIN r = {1} /\ r[1] = a /\ s[1] = b
    OBVIOUS
<1>2. (\A m \in 1..(1 - 1) : r[m] = s[m]) <=> TRUE
    OBVIOUS
<1> HIDE DEF r, s
<1>3. Lower(r, s) <=> a < b
    BY <1>1, <1>2 DEF Lower
<1> QED BY <1>3 DEF r, s

LEMMA RustSeats ==
    ASSUME NEW f, WellFormed(f), Paired(f), NEW S \in SUBSET Zones
    PROVE  /\ OnDisk(f) \subseteq Zones /\ \A z \in Zones : z \in OnDisk(f) <=> Sound(f, z)
           /\ Seats(f, OnDisk(f), AllDiskIds(f, S))
<1> DEFINE M == Matched(f, S) \union Orphaned(f, S)
           pos == [z \in M |-> Places(f)[Start(z)]]
           Rank(z) == <<Pair(f, z).startOffset, IF z \in S THEN 0 ELSE 1, FirstSigil(f, z)>>
           rank == [z \in M |-> Rank(z)]
<1>1. f \in Seq(Lines) /\ Distinct(f) /\ Len(f) \in Nat
    BY DEF WellFormed
<1>2. OnDisk(f) \subseteq Zones /\ \A z \in Zones : z \in OnDisk(f) <=> Sound(f, z)
    BY <1>1, SigilsOf DEF Paired, Sound
<1>3. M = OnDisk(f)
    <2>1. \A z \in OnDisk(f) : /\ Pair(f, z).startLineEnd > 0 /\ Pair(f, z).endLineStart > 0
                               /\ Pair(f, z).endLineEnd > 0
        <3> TAKE z \in OnDisk(f)
        <3>1. z \in Zones /\ Sound(f, z)
            BY <1>2
        <3>2. /\ Places(f)[Start(z)] \in 1..Len(f) /\ Places(f)[End(z)] \in 1..Len(f)
              /\ Pair(f, z).startLineEnd = Places(f)[Start(z)]
              /\ Pair(f, z).endLineEnd = Places(f)[End(z)]
              /\ Pair(f, z).endLineStart \in Nat /\ Pair(f, z).endLineStart >= Places(f)[Start(z)]
            BY <3>1, OffsetsOf
        <3> QED BY <3>2, <1>1
    <2> QED BY <2>1 DEF Matched, Orphaned
<1>4. \A z \in M : z \in Zones /\ Sound(f, z) /\ z \in OnDisk(f)
    BY <1>2, <1>3
<1> HIDE DEF M
<1>5. \A z \in M : /\ Places(f)[Start(z)] \in Int /\ Pair(f, z).startOffset \in Int
                   /\ Pair(f, z).startOffset < Places(f)[Start(z)]
                   /\ \A y \in M : Places(f)[Start(y)] < Places(f)[Start(z)] =>
                          Places(f)[Start(y)] <= Pair(f, z).startOffset
    BY <1>1, <1>4, OffsetsOf
<1>6. \A z \in M : FirstSigil(f, z) \in Int
    BY <1>1, <1>4, FirstSigilOf
<1>7. \A y, z \in M : pos[y] = pos[z] => y = z
    <2> TAKE y, z \in M
    <2> HAVE pos[y] = pos[z]
    <2>1. Start(y) \in Own(f) /\ Start(z) \in Own(f) /\ Places(f)[Start(y)] = Places(f)[Start(z)]
        BY <1>4 DEF Sound
    <2>2. Start(y) = Start(z)
        BY <2>1, <1>1, PlacesOf
    <2> QED BY <2>2, <1>4, LineKinds
<1>8. ASSUME NEW y \in M, NEW z \in M PROVE Lower(rank[y], rank[z]) <=> pos[y] < pos[z]
    <2> DEFINE a == Pair(f, y).startOffset
               d == Pair(f, z).startOffset
               b == IF y \in S THEN 0 ELSE 1
               e == IF z \in S THEN 0 ELSE 1
    <2>1. rank[y] = <<a, b, FirstSigil(f, y)>> /\ rank[z] = <<d, e, FirstSigil(f, z)>>
        OBVIOUS
    <2>2. a \in Int /\ d \in Int /\ b \in Int /\ e \in Int /\ FirstSigil(f, y) \in Int /\ FirstSigil(f, z) \in Int
        BY <1>5, <1>6
    <2>3. /\ pos[y] \in Int /\ pos[z] \in Int
          /\ pos[y] < pos[z] => a < d
          /\ pos[z] < pos[y] => d < a
        BY <1>5
    <2>4. y = z => a = d /\ b = e /\ FirstSigil(f, y) = FirstSigil(f, z)
        OBVIOUS
    <2>5. pos[y] = pos[z] => y = z
        BY <1>7
    <2> HIDE DEF a, b, d, e, pos, rank
    <2>6. Lower(rank[y], rank[z]) <=>
              a < d \/ (a = d /\ b < e) \/ (a = d /\ b = e /\ FirstSigil(f, y) < FirstSigil(f, z))
        BY <2>1, <2>2, LowerTriples
    <2> QED BY <2>2, <2>3, <2>4, <2>5, <2>6
<1>9. pos \in [M -> Int] /\ M \subseteq Zones
    BY <1>4, <1>5
<1> DEFINE ids == Sorted({[zone |-> z, rank |-> rank[z]] : z \in M})
<1>10. AllDiskIds(f, S) = ids
    <2>1. AllDiskIds(f, S) = Sorted({[zone |-> z, rank |-> Rank(z)] : z \in M})
        BY DEF AllDiskIds, M
    <2>2. \A z \in M : rank[z] = Rank(z)
        OBVIOUS
    <2> HIDE DEF rank, Rank
    <2>3. {[zone |-> z, rank |-> rank[z]] : z \in M} = {[zone |-> z, rank |-> Rank(z)] : z \in M}
        BY <2>2
    <2> QED BY <2>1, <2>3
<1> HIDE DEF rank
<1>11. /\ Len(ids) \in Nat /\ ids \in [1..Len(ids) -> M]
       /\ \A k, l \in 1..Len(ids) : k < l => pos[ids[k]] < pos[ids[l]]
       /\ \A z \in M : \E k \in 1..Len(ids) : ids[k] = z
    <2> HIDE DEF pos
    <2>1. ByPosition(ids, M, pos)
        BY <1>7, <1>8, <1>9, SortedZones
    <2> QED BY <2>1 DEF ByPosition
<1> HIDE DEF ids
<1>12. \A k, l \in 1..Len(ids) : k < l => Places(f)[Start(ids[k])] < Places(f)[Start(ids[l])]
    BY <1>11
<1> QED BY <1>2, <1>3, <1>10, <1>11, <1>12 DEF Seats

Filled(f, S) == {z \in S : Sound(f, z)}

LEMMA TsSeats ==
    ASSUME NEW f, WellFormed(f), NEW S \in SUBSET Zones
    PROVE  Seats(f, Filled(f, S), TsRegionIds(f, S))
<1> DEFINE M == Matched(f, S)
           pos == [z \in M |-> Places(f)[Start(z)]]
           Rank(z) == <<Pair(f, z).startLineEnd>>
           rank == [z \in M |-> Rank(z)]
<1>1. f \in Seq(Lines) /\ Distinct(f) /\ Len(f) \in Nat
    BY DEF WellFormed
<1>2. \A z \in Zones : z \in OnDisk(f) <=> Start(z) \in Own(f) \/ End(z) \in Own(f)
    BY <1>1, SigilsOf
<1>3. M = Filled(f, S)
    <2>1. ASSUME NEW z \in S, Sound(f, z) PROVE z \in M
        <3>1. z \in Zones /\ z \in OnDisk(f)
            BY <2>1, <1>2 DEF Sound
        <3>2. /\ Places(f)[Start(z)] \in 1..Len(f)
              /\ Pair(f, z).startLineEnd = Places(f)[Start(z)]
              /\ Pair(f, z).endLineStart \in Nat /\ Pair(f, z).endLineStart >= Places(f)[Start(z)]
            BY <2>1, <3>1, OffsetsOf
        <3>3. Pair(f, z).startLineEnd > 0 /\ Pair(f, z).endLineStart > 0
            BY <3>2, <1>1
        <3> QED BY <3>1, <3>3 DEF Matched
    <2>2. ASSUME NEW z \in S, ~ Sound(f, z) PROVE z \notin M
        <3>1. Pair(f, z).startLineEnd = 0 \/ Pair(f, z).endLineStart = 0
            BY <2>2, <1>1, PairOf DEF Sound
        <3> QED BY <3>1 DEF Matched
    <2>3. M \subseteq S
        BY DEF Matched
    <2> HIDE DEF M
    <2> QED BY <2>1, <2>2, <2>3 DEF Filled
<1>4. \A z \in M : z \in Zones /\ Sound(f, z)
    BY <1>3 DEF Filled
<1> HIDE DEF M
<1>5. \A z \in M : /\ Places(f)[Start(z)] \in Int
                   /\ Pair(f, z).startLineEnd = Places(f)[Start(z)]
    BY <1>1, <1>4, OffsetsOf
<1>6. \A y, z \in M : pos[y] = pos[z] => y = z
    <2> TAKE y, z \in M
    <2> HAVE pos[y] = pos[z]
    <2>1. Start(y) \in Own(f) /\ Start(z) \in Own(f) /\ Places(f)[Start(y)] = Places(f)[Start(z)]
        BY <1>4 DEF Sound
    <2>2. Start(y) = Start(z)
        BY <2>1, <1>1, PlacesOf
    <2> QED BY <2>2, <1>4, LineKinds
<1>7. ASSUME NEW y \in M, NEW z \in M PROVE Lower(rank[y], rank[z]) <=> pos[y] < pos[z]
    <2>1. rank[y] = <<pos[y]>> /\ rank[z] = <<pos[z]>> /\ pos[y] \in Int /\ pos[z] \in Int
        BY <1>5
    <2> HIDE DEF pos, rank
    <2> QED BY <2>1, LowerOne
<1>8. pos \in [M -> Int] /\ M \subseteq Zones
    BY <1>4, <1>5
<1> DEFINE ids == Sorted({[zone |-> z, rank |-> rank[z]] : z \in M})
<1>9. TsRegionIds(f, S) = ids
    <2>1. TsRegionIds(f, S) = Sorted({[zone |-> z, rank |-> Rank(z)] : z \in M})
        BY DEF TsRegionIds, M
    <2>2. \A z \in M : rank[z] = Rank(z)
        OBVIOUS
    <2> HIDE DEF rank, Rank
    <2>3. {[zone |-> z, rank |-> rank[z]] : z \in M} = {[zone |-> z, rank |-> Rank(z)] : z \in M}
        BY <2>2
    <2> QED BY <2>1, <2>3
<1> HIDE DEF rank
<1>10. ByPosition(ids, M, pos)
    <2> HIDE DEF pos
    <2> QED BY <1>6, <1>7, <1>8, SortedZones
<1> HIDE DEF ids
<1>11. /\ Len(ids) \in Nat /\ ids \in [1..Len(ids) -> M]
       /\ \A z \in M : \E k \in 1..Len(ids) : ids[k] = z
    BY <1>10 DEF ByPosition
<1>12. \A k, l \in 1..Len(ids) : k < l => Places(f)[Start(ids[k])] < Places(f)[Start(ids[l])]
    BY <1>10, <1>11 DEF ByPosition
<1> QED BY <1>3, <1>9, <1>11, <1>12 DEF Seats

\* The end of the last zone.
LastEnd(f, Q, c) ==
    /\ c \in 0..Len(f) /\ \A z \in Q : Places(f)[End(z)] <= c
    /\ \A z \in Q : Places(f)[Start(z)] < c
    /\ c = 0 \/ \E z \in Q : c = Places(f)[End(z)]

LEMMA LastCursor ==
    ASSUME NEW f, NEW Q, WellFormed(f), Q \subseteq Zones, \A z \in Q : Sound(f, z),
           NEW ids, Seats(f, Q, ids)
    PROVE  LastEnd(f, Q, Cursor(f, ids, Len(ids)))
<1> DEFINE c == Cursor(f, ids, Len(ids))
<1>1. Len(ids) \in Nat /\ ids \in [1..Len(ids) -> Q] /\ Len(f) \in Nat
    BY DEF Seats, WellFormed
<1>2. /\ \A k \in 0..Len(ids) : Cursor(f, ids, k) \in 0..Len(f)
      /\ \A k \in 1..Len(ids) : /\ Turn(f, Q, ids[k], Cursor(f, ids, k - 1))
                                /\ Cursor(f, ids, k) = Places(f)[End(ids[k])]
                                /\ Cursor(f, ids, k - 1) < Cursor(f, ids, k)
      /\ \A z \in Q : Places(f)[End(z)] <= Cursor(f, ids, Len(ids))
    BY SeatsOf
<1>3. Len(ids) \in 0..Len(ids)
    BY <1>1
<1>4. c \in 0..Len(f) /\ \A z \in Q : Places(f)[End(z)] <= c
    BY <1>2, <1>3
<1>5. c = 0 \/ \E z \in Q : c = Places(f)[End(z)]
    <2>1. CASE Len(ids) = 0
        BY <2>1 DEF Cursor
    <2>2. CASE Len(ids) # 0
        <3>1. Len(ids) \in 1..Len(ids)
            BY <2>2, <1>1
        <3> QED BY <3>1, <1>1, <1>2
    <2> QED BY <2>1, <2>2
<1>6. \A z \in Q : Places(f)[Start(z)] < c
    <2> TAKE z \in Q
    <2>1. /\ Places(f)[Start(z)] \in 1..Len(f) /\ Places(f)[End(z)] \in 1..Len(f)
          /\ Places(f)[Start(z)] < Places(f)[End(z)]
        BY OffsetsOf
    <2> QED BY <2>1, <1>4
<1> QED BY <1>4, <1>5, <1>6 DEF LastEnd

\* What ReplaceFile splices.
LEMMA RustSpliceable ==
    ASSUME NEW f, WellFormed(f), Paired(f), NEW S \in SUBSET Zones, NEW v \in Versions
    PROVE  Spliceable(f, OnDisk(f), OnDisk(f) \ S, v, S \ OnDisk(f))
<1>1. OnDisk(f) \subseteq Zones /\ \A z \in Zones : z \in OnDisk(f) <=> Sound(f, z)
    BY RustSeats
<1>2. \A x \in Own(f) : x.kind # "hand" => x.id \in OnDisk(f)
    <2> TAKE x \in Own(f)
    <2> HAVE x.kind # "hand"
    <2>1. x \in Solid
        BY PlacesOf DEF WellFormed
    <2>2. x.id \in Zones /\ (x = Start(x.id) \/ x = End(x.id) \/ x.kind = "auto")
        BY <2>1, SolidKinds
    <2>3. Start(x.id) \in Own(f) /\ End(x.id) \in Own(f)
        BY <2>2 DEF Paired
    <2> QED BY <2>2, <2>3, <1>1 DEF Sound
<1> QED BY <1>1, <1>2 DEF Spliceable

LEMMA RustSpliced ==
    ASSUME NEW f, WellFormed(f), Paired(f), NEW S \in SUBSET Zones, NEW v \in Versions
    PROVE  Spliced(f, OnDisk(f), OnDisk(f) \ S, v, S \ OnDisk(f), SpliceZones(f, S, v))
<1> DEFINE Q == OnDisk(f)
           D == OnDisk(f) \ S
           new == S \ OnDisk(f)
           ids == AllDiskIds(f, S)
           P == [k \in DOMAIN ids |-> SpliceZone(f, S, v, Cursor(f, ids, k - 1), ids[k])]
           a == FlattenSeq(P)
           separator == IF a # <<>> THEN <<Blank>> ELSE <<>>
           b == IF new = {} THEN <<>> ELSE separator \o NewZones(new, v)
           c == Cursor(f, ids, Len(ids))
<1>1. SpliceZones(f, S, v) = a \o b \o Substring(f, c, Len(f))
    BY DEF SpliceZones, Added
<1>2. Q \subseteq Zones /\ (\A z \in Q : Sound(f, z)) /\ Seats(f, Q, ids)
    BY RustSeats
<1>3. Spliceable(f, Q, D, v, new)
    BY RustSpliceable
<1>4. P = [k \in DOMAIN ids |-> P[k]]
    <2> HIDE DEF ids
    <2> QED OBVIOUS
<1>5. Len(ids) \in Nat /\ DOMAIN ids = 1..Len(ids) /\ \A k \in 1..Len(ids) : ids[k] \in Q
    BY <1>2 DEF Seats
<1> HIDE DEF ids, Q
<1>6. \A k \in 1..Len(ids) : P[k] = SpliceZone(f, S, v, Cursor(f, ids, k - 1), ids[k])
    BY <1>5
<1>7. /\ \A k \in 0..Len(ids) : Cursor(f, ids, k) \in 0..Len(f)
      /\ \A k \in 1..Len(ids) : /\ Turn(f, Q, ids[k], Cursor(f, ids, k - 1))
                                /\ Cursor(f, ids, k) = Places(f)[End(ids[k])]
                                /\ Cursor(f, ids, k - 1) < Cursor(f, ids, k)
      /\ \A z \in Q : Places(f)[End(z)] <= Cursor(f, ids, Len(ids))
    BY <1>2, SeatsOf
<1>8. /\ c \in 0..Len(f) /\ \A z \in Q : Places(f)[End(z)] <= c
      /\ \A z \in Q : Places(f)[Start(z)] < c
      /\ c = 0 \/ \E z \in Q : c = Places(f)[End(z)]
    <2>1. LastEnd(f, Q, c)
        BY <1>2, LastCursor
    <2> QED BY <2>1 DEF LastEnd
<1>9. \A z \in Q : z \in S <=> z \notin D
    BY DEF Q
<1> HIDE DEF D, new, P
<1>10. ASSUME NEW X, NEW key, Splicing(f, Q, D, v, new, c, X, key)
       PROVE  Keyed(a, X, key, 0, 2 * c) /\ Keyed(b, X, key, 2 * c, 2 * c + Extra)
    <2>1. \A k \in 1..Len(ids) :
                Keyed(P[k], X, key, 2 * Cursor(f, ids, k - 1), 2 * Places(f)[End(ids[k])])
        <3> TAKE k \in 1..Len(ids)
        <3> DEFINE z == ids[k]
                   p == Cursor(f, ids, k - 1)
        <3>1. z \in Q /\ Turn(f, Q, z, p) /\ Places(f)[End(z)] <= c /\ (z \in S <=> z \notin D)
            BY <1>5, <1>7, <1>8, <1>9
        <3> HIDE DEF z, p, c
        <3>2. Keyed(SpliceZone(f, S, v, p, z), X, key, 2 * p, 2 * Places(f)[End(z)])
            BY <3>1, <1>10, KeyedTurn
        <3>3. P[k] = SpliceZone(f, S, v, p, z)
            BY <1>6 DEF p, z
        <3> QED BY <3>2, <3>3 DEF p, z
    <2>2. Keyed(a, X, key, 0, 2 * c)
        BY <2>1, <1>2, <1>4, <1>10, KeyedTurns
    <2>3. Keyed(b, X, key, 2 * c, 2 * c + Extra)
        <3>1. Keys(X, key) /\ Extra \in Nat /\ Len(f) \in Nat
            BY <1>10, TypesOf
        <3>2. 2 * c \in Int /\ 2 * c + Extra \in Int /\ 2 * c <= 2 * c + Extra /\ 2 * c <= 2 * c
            BY <3>1, <1>8
        <3> HIDE DEF a, c
        <3>3. CASE new = {}
            <4>1. Splicing(f, Q, D, v, {}, c, X, key)
                BY <3>3, <1>10
            <4>2. Keyed(<<>>, X, key, 2 * c, 2 * c + Extra)
                BY <4>1, <1>8, NothingNew
            <4>3. b = <<>>
                BY <3>3
            <4> QED BY <4>2, <4>3
        <3>4. CASE new # {}
            <4>1. Keyed(separator, X, key, 2 * c, 2 * c)
                <5>1. \A x \in X : ~ (2 * c < key[x] /\ key[x] <= 2 * c)
                    BY <3>1, <3>2 DEF Keys
                <5>2. Keyed(<<Blank>>, X, key, 2 * c, 2 * c) /\ Keyed(<<>>, X, key, 2 * c, 2 * c)
                    BY <5>1, <3>1, KeyedBlank, KeyedNothing
                <5> QED BY <5>2
            <4>2. Keyed(NewZones(new, v), X, key, 2 * c, 2 * c + Extra)
                BY <1>8, <1>10, KeyedNewZones
            <4>3. b = separator \o NewZones(new, v)
                BY <3>4
            <4> HIDE DEF separator, b
            <4>4. Keyed(separator \o NewZones(new, v), X, key, 2 * c, 2 * c + Extra)
                BY <4>1, <4>2, <3>1, <3>2, KeyedConcat
            <4> QED BY <4>3, <4>4
        <3> QED BY <3>3, <3>4
    <2> QED BY <2>2, <2>3
<1> HIDE DEF a, b, c
<1>11. Spliced(f, Q, D, v, new, a \o b \o Substring(f, c, Len(f)))
    BY <1>3, <1>8, <1>10, PartsSpliced
<1> QED BY <1>1, <1>11 DEF Q, D, new

\* What TsReplaceFile splices.
LEMMA TsSpliced ==
    ASSUME NEW f, WellFormed(f), NEW S \in SUBSET Zones, NEW v \in Versions
    PROVE  /\ Spliceable(f, Filled(f, S), {}, v, {})
           /\ Spliced(f, Filled(f, S), {}, v, {}, TsSpliceZones(f, S, v))
<1> DEFINE Q == Filled(f, S)
           ids == TsRegionIds(f, S)
           P == [k \in DOMAIN ids |-> TsSpliceZone(f, v, Cursor(f, ids, k - 1), ids[k])]
           a == FlattenSeq(P)
           c == Cursor(f, ids, Len(ids))
<1>1. TsSpliceZones(f, S, v) = a \o Substring(f, c, Len(f))
    BY DEF TsSpliceZones
<1>2. Q \subseteq Zones /\ (\A z \in Q : Sound(f, z)) /\ Seats(f, Q, ids)
    BY TsSeats DEF Filled
<1>3. Spliceable(f, Q, {}, v, {})
    BY <1>2 DEF Spliceable
<1>4. P = [k \in DOMAIN ids |-> P[k]]
    <2> HIDE DEF ids
    <2> QED OBVIOUS
<1>5. Len(ids) \in Nat /\ DOMAIN ids = 1..Len(ids) /\ \A k \in 1..Len(ids) : ids[k] \in Q
    BY <1>2 DEF Seats
<1> HIDE DEF ids, Q
<1>6. \A k \in 1..Len(ids) : P[k] = TsSpliceZone(f, v, Cursor(f, ids, k - 1), ids[k])
    BY <1>5
<1>7. /\ \A k \in 0..Len(ids) : Cursor(f, ids, k) \in 0..Len(f)
      /\ \A k \in 1..Len(ids) : /\ Turn(f, Q, ids[k], Cursor(f, ids, k - 1))
                                /\ Cursor(f, ids, k) = Places(f)[End(ids[k])]
                                /\ Cursor(f, ids, k - 1) < Cursor(f, ids, k)
      /\ \A z \in Q : Places(f)[End(z)] <= Cursor(f, ids, Len(ids))
    BY <1>2, SeatsOf
<1>8. /\ c \in 0..Len(f) /\ \A z \in Q : Places(f)[End(z)] <= c
      /\ \A z \in Q : Places(f)[Start(z)] < c
      /\ c = 0 \/ \E z \in Q : c = Places(f)[End(z)]
    <2>1. LastEnd(f, Q, c)
        BY <1>2, LastCursor
    <2> QED BY <2>1 DEF LastEnd
<1> HIDE DEF P
<1>9. ASSUME NEW X, NEW key, Splicing(f, Q, {}, v, {}, c, X, key)
      PROVE  Keyed(a, X, key, 0, 2 * c) /\ Keyed(<<>>, X, key, 2 * c, 2 * c + Extra)
    <2>1. \A k \in 1..Len(ids) :
                Keyed(P[k], X, key, 2 * Cursor(f, ids, k - 1), 2 * Places(f)[End(ids[k])])
        <3> TAKE k \in 1..Len(ids)
        <3> DEFINE z == ids[k]
                   p == Cursor(f, ids, k - 1)
        <3>1. z \in Q /\ Turn(f, Q, z, p) /\ Places(f)[End(z)] <= c
            BY <1>5, <1>7, <1>8
        <3> HIDE DEF z, p, c
        <3>2. Keyed(TsSpliceZone(f, v, p, z), X, key, 2 * p, 2 * Places(f)[End(z)])
            BY <3>1, <1>9, KeyedTurn
        <3>3. P[k] = TsSpliceZone(f, v, p, z)
            BY <1>6 DEF p, z
        <3> QED BY <3>2, <3>3 DEF p, z
    <2>2. Keyed(a, X, key, 0, 2 * c)
        BY <2>1, <1>2, <1>4, <1>9, KeyedTurns
    <2>3. Keyed(<<>>, X, key, 2 * c, 2 * c + Extra)
        BY <1>8, <1>9, NothingNew
    <2> QED BY <2>2, <2>3
<1> HIDE DEF a, c
<1>10. Spliced(f, Q, {}, v, {}, a \o <<>> \o Substring(f, c, Len(f)))
    BY <1>3, <1>8, <1>9, PartsSpliced
<1>11. a \o <<>> = a
    <2>1. PICK X, key : Splicing(f, Q, {}, v, {}, c, X, key)
        <3>1. c \in Nat
            BY <1>8 DEF WellFormed
        <3> QED BY <3>1, <1>3, <1>8, KeysExist DEF Splicing
    <2>2. a \in Seq(Lines)
        BY <2>1, <1>9 DEF Keyed
    <2> QED BY <2>2
<1> QED BY <1>1, <1>3, <1>10, <1>11 DEF Q

\* The file that BuildInitialContent adds the zones to.
Unzoned == <<Blank, Hand(Scaffold)>>

LEMMA InitialSpliced ==
    ASSUME NEW S \in SUBSET Zones, NEW v \in Versions
    PROVE  /\ WellFormed(Unzoned) /\ Paired(Unzoned) /\ Own(Unzoned) = {Hand(Scaffold)}
           /\ Spliceable(Unzoned, {}, {}, v, S)
           /\ Spliced(Unzoned, {}, {}, v, S, BuildInitialContent(S, v))
<1>1. Hand(Scaffold) \in Hands
    BY DEF Hands
<1>2. Hand(Scaffold) \in Lines /\ Hand(Scaffold) # Blank /\ Hand(Scaffold).kind = "hand"
    BY <1>1, LineKinds, SolidKinds DEF Lines
<1> DEFINE f == Unzoned
<1>3. f \in Seq(Lines) /\ Len(f) = 2 /\ DOMAIN f = {1, 2} /\ f[1] = Blank /\ f[2] = Hand(Scaffold)
    BY <1>2, BlankLine DEF Unzoned
<1>4. Own(f) = {Hand(Scaffold)}
    BY <1>2, <1>3 DEF Own, Range
<1>5. \A z \in Zones : Start(z) \notin Own(f) /\ End(z) \notin Own(f)
    BY <1>2, <1>4, LineKinds
<1>6. Distinct(f)
    BY <1>2, <1>3 DEF Distinct
<1>7. WellFormed(f) /\ Paired(f)
    BY <1>2, <1>3, <1>4, <1>5, <1>6 DEF WellFormed, Whole, Sound, Paired
<1>8. Spliceable(f, {}, {}, v, S)
    BY <1>2, <1>4, <1>7 DEF Spliceable
<1>9. Substring(f, 0, Len(f)) = f
    <2>1. SubSeq(f, 1, Len(f)) = f
        BY <1>3
    <2>2. 0 + 1 = 1
        OBVIOUS
    <2> QED BY <2>1, <2>2 DEF Substring
<1>10. BuildInitialContent(S, v) = NewZones(S, v) \o f
    BY DEF BuildInitialContent, Unzoned
<1> HIDE DEF f
<1>11. ASSUME NEW X, NEW key, Splicing(f, {}, {}, v, S, 0, X, key)
       PROVE  /\ Keyed(<<>>, X, key, 0, 2 * 0) /\ Keyed(NewZones(S, v), X, key, 2 * 0, 2 * 0 + Extra)
    <2>1. Keyed(NewZones(S, v), X, key, 2 * 0, 2 * 0 + Extra)
        BY <1>11, KeyedNewZones
    <2>2. \A x \in X : ~ (0 < key[x] /\ key[x] <= 2 * 0)
        BY <1>11, TypesOf
    <2> QED BY <2>1, <2>2, KeyedNothing
<1>12. Spliced(f, {}, {}, v, S, <<>> \o NewZones(S, v) \o Substring(f, 0, Len(f)))
    <2>1. 0 \in 0..Len(f)
        BY <1>3
    <2> QED BY <2>1, <1>8, <1>11, PartsSpliced
<1>13. <<>> \o NewZones(S, v) = NewZones(S, v)
    <2>1. 0 \in Nat /\ 0 \in 0..Len(f)
        BY <1>3
    <2>2. PICK X, key : Splicing(f, {}, {}, v, S, 0, X, key)
        BY <2>1, <1>8, KeysExist DEF Splicing
    <2>3. NewZones(S, v) \in Seq(Lines)
        BY <2>2, <1>11 DEF Keyed
    <2> QED BY <2>3
<1> QED BY <1>4, <1>7, <1>8, <1>9, <1>10, <1>12, <1>13 DEF f

(* What splicing leaves of the zones.                                                *)

\* The lines of a zone are between its sigils, by the keys.
WholeKeys(X, key, z) ==
    /\ key[Start(z)] < key[End(z)]
    /\ \A x \in X : x.kind = "auto" /\ x.id = z <=> key[Start(z)] < key[x] /\ key[x] < key[End(z)]

LEMMA KeptOrder ==
    ASSUME NEW f, NEW Q, NEW D, NEW v, NEW new, NEW c, NEW X, NEW key,
           Splicing(f, Q, D, v, new, c, X, key), NEW x, NEW y, Kept(f, Q, D, x), Kept(f, Q, D, y)
    PROVE  /\ x \in Own(f) /\ x \in X
           /\ key[x] < key[y] <=> Places(f)[x] < Places(f)[y]
<1>1. x \in Own(f) /\ y \in Own(f)
    BY DEF Kept
<1>2. /\ x \in X /\ key[x] = OldKey(f, c, x) /\ Places(f)[x] \in 1..Len(f) /\ Len(f) \in Nat
      /\ y \in X /\ key[y] = OldKey(f, c, y) /\ Places(f)[y] \in 1..Len(f) /\ c \in 0..Len(f) /\ Extra \in Nat
    BY <1>1, TypesOf DEF Splicing, SpliceKeys, KeptKeys
<1>3. key[x] < key[y] <=> Places(f)[x] < Places(f)[y]
    BY <1>2 DEF OldKey
<1> QED BY <1>1, <1>2, <1>3

\* A line that only one of a splice's kinds can be.
LEMMA NewOrOld ==
    ASSUME NEW f, NEW Q, NEW D, NEW v, NEW new, NEW c, NEW X, NEW key,
           Splicing(f, Q, D, v, new, c, X, key)
    PROVE  /\ \A z \in new : z \in Zones /\ z \notin Q
           /\ \A x \in Own(f) : x.kind # "hand" => x.id \notin new
           /\ \A z \in Zones : /\ Start(z).kind = "start" /\ Start(z).id = z
                               /\ End(z).kind = "end" /\ End(z).id = z
                               /\ AutoLine(z, v).kind = "auto" /\ AutoLine(z, v).id = z
<1>1. /\ v \in Versions /\ Q \subseteq Zones /\ new \subseteq Zones
      /\ \A z \in Q : Start(z) \in Own(f)
    BY TypesOf
<1>2. \A x \in Own(f) : x.kind # "hand" => x.id \notin new
    BY DEF Splicing, Spliceable
<1>3. \A z \in Zones : /\ Start(z).kind = "start" /\ Start(z).id = z
                       /\ End(z).kind = "end" /\ End(z).id = z
                       /\ AutoLine(z, v).kind = "auto" /\ AutoLine(z, v).id = z
    BY <1>1, LineKinds
<1>4. \A z \in new : z \in Zones /\ z \notin Q
    <2> TAKE z \in new
    <2>1. ASSUME z \in Q PROVE FALSE
        BY <2>1, <1>1, <1>2, <1>3
    <2> QED BY <2>1, <1>1
<1> QED BY <1>2, <1>3, <1>4

LEMMA WholeNew ==
    ASSUME NEW f, NEW Q, NEW D, NEW v, NEW new, NEW c, NEW X, NEW key,
           Splicing(f, Q, D, v, new, c, X, key), \A z \in Q : Places(f)[Start(z)] < c,
           NEW z \in new
    PROVE  WholeKeys(X, key, z)
<1>1. PICK q \in 1..Len(Ids) : Ids[q] = z
    BY Indices, NewOrOld
<1>2. /\ Start(z) \in X /\ key[Start(z)] = 2 * c + 3 * q - 2
      /\ End(z) \in X /\ key[End(z)] = 2 * c + 3 * q
      /\ v \notin Void[z] => AutoLine(z, v) \in X /\ key[AutoLine(z, v)] = 2 * c + 3 * q - 1
    BY <1>1, Indices DEF Splicing, SpliceKeys, NewKeys
<1>3. /\ Len(f) \in Nat /\ c \in 0..Len(f) /\ Extra \in Nat /\ \A x \in X : key[x] \in Int
      /\ \A y \in Q : Places(f)[Start(y)] \in 1..Len(f)
      /\ q \in Int /\ 1 <= q /\ q <= Len(Ids) /\ Len(Ids) \in Nat /\ c \in Int
    BY TypesOf, Indices
<1>4. /\ \A y \in new : y \in Zones /\ y \notin Q
      /\ \A x \in Own(f) : x.kind # "hand" => x.id \notin new
      /\ \A y \in Zones : /\ Start(y).kind = "start" /\ Start(y).id = y
                          /\ End(y).kind = "end" /\ End(y).id = y
                          /\ AutoLine(y, v).kind = "auto" /\ AutoLine(y, v).id = y
    BY NewOrOld
<1>5. ASSUME NEW x \in X, 2 * c + 3 * q - 2 < key[x], key[x] < 2 * c + 3 * q
      PROVE  x.kind = "auto" /\ x.id = z
    <2>1. ASSUME Places(f)[x] \in 1..Len(f), Places(f)[x] <= c, key[x] = 2 * Places(f)[x] PROVE FALSE
        BY <2>1, <1>3, <1>5
    <2>2. ASSUME Places(f)[x] \in 1..Len(f), Places(f)[x] > c, key[x] = 2 * Places(f)[x] + Extra PROVE FALSE
        BY <2>2, <1>3, <1>5 DEF Extra
    <2>3. ASSUME NEW y \in Q, key[x] = 2 * Places(f)[Start(y)] + 1 PROVE FALSE
        <3>1. Places(f)[Start(y)] \in Int /\ Places(f)[Start(y)] < c
            BY <1>3
        <3> QED BY <3>1, <2>3, <1>3, <1>5
    <2>4. PICK p \in 1..Len(Ids) :
            /\ Ids[p] \in new
            /\ \/ x = Start(Ids[p]) /\ key[x] = 2 * c + 3 * p - 2
               \/ v \notin Void[Ids[p]] /\ x = AutoLine(Ids[p], v) /\ key[x] = 2 * c + 3 * p - 1
               \/ x = End(Ids[p]) /\ key[x] = 2 * c + 3 * p
        BY <2>1, <2>2, <2>3, KeyOf
    <2>5. key[x] = 2 * c + 3 * q - 1
        BY <1>3, <1>5
    <2>6. p \in Int
        BY <1>3
    <2>7. p = q /\ key[x] # 2 * c + 3 * p - 2 /\ key[x] # 2 * c + 3 * p
        BY <2>4, <2>5, <2>6, <1>3
    <2> QED BY <2>4, <2>7, <1>1, <1>4
<1>6. ASSUME NEW x \in X, x.kind = "auto", x.id = z
      PROVE  2 * c + 3 * q - 2 < key[x] /\ key[x] < 2 * c + 3 * q
    <2>1. ~ Kept(f, Q, D, x)
        BY <1>4, <1>6 DEF Kept
    <2>2. ASSUME NEW y \in Q, x = AutoLine(y, v) PROVE FALSE
        <3>1. y \in Zones
            BY TypesOf
        <3> QED BY <3>1, <2>2, <1>4, <1>6
    <2>3. PICK p \in 1..Len(Ids) :
            /\ Ids[p] \in new
            /\ \/ x = Start(Ids[p]) /\ key[x] = 2 * c + 3 * p - 2
               \/ v \notin Void[Ids[p]] /\ x = AutoLine(Ids[p], v) /\ key[x] = 2 * c + 3 * p - 1
               \/ x = End(Ids[p]) /\ key[x] = 2 * c + 3 * p
        BY <2>1, <2>2, KeyOf
    <2>4. key[x] = 2 * c + 3 * p - 1 /\ Ids[p] = z
        BY <2>3, <1>4, <1>6
    <2>5. p = q
        BY <2>4, <1>1, Indices
    <2> QED BY <2>4, <2>5, <1>3
<1>7. key[Start(z)] < key[End(z)]
    BY <1>2, <1>3
<1> QED BY <1>2, <1>5, <1>6, <1>7 DEF WholeKeys

LEMMA WholeFilled ==
    ASSUME NEW f, NEW Q, NEW D, NEW v, NEW new, NEW c, NEW X, NEW key,
           Splicing(f, Q, D, v, new, c, X, key), \A z \in Q : Places(f)[End(z)] <= c,
           NEW z \in Q \ D
    PROVE  WholeKeys(X, key, z)
<1> DEFINE i == Places(f)[Start(z)]
           e == Places(f)[End(z)]
<1>1. /\ WellFormed(f) /\ z \in Zones /\ Sound(f, z) /\ Q \subseteq Zones /\ \A y \in Q : Sound(f, y)
    BY DEF Splicing, Spliceable
<1>2. /\ Start(z) \in Own(f) /\ End(z) \in Own(f) /\ i \in 1..Len(f) /\ e \in 1..Len(f) /\ i < e
      /\ Len(f) \in Nat /\ c \in 0..Len(f) /\ Extra \in Nat /\ \A x \in X : key[x] \in Int
      /\ \A y \in Q : Start(y) \in Own(f) /\ Places(f)[Start(y)] \in 1..Len(f)
      /\ e <= c /\ f \in Seq(Lines) /\ Distinct(f)
    BY TypesOf
<1>3. /\ \A y \in new : y \in Zones /\ y \notin Q
      /\ \A y \in Zones : /\ Start(y).kind = "start" /\ Start(y).id = y
                          /\ End(y).kind = "end" /\ End(y).id = y
                          /\ AutoLine(y, v).kind = "auto" /\ AutoLine(y, v).id = y
    BY NewOrOld
<1>4. key[Start(z)] = 2 * i /\ key[End(z)] = 2 * e
    <2>1. Kept(f, Q, D, Start(z)) /\ Kept(f, Q, D, End(z))
        BY <1>1, <1>2, <1>3 DEF Kept
    <2>2. Start(z) \in Solid /\ End(z) \in Solid
        BY <1>1, LineKinds
    <2>3. key[Start(z)] = OldKey(f, c, Start(z)) /\ key[End(z)] = OldKey(f, c, End(z))
        BY <2>1, <2>2 DEF Splicing, SpliceKeys, KeptKeys
    <2>4. i <= c
        BY <1>2
    <2> QED BY <2>3, <2>4, <1>2 DEF OldKey
<1>5. \A x \in Own(f) : x.kind = "auto" /\ x.id = z <=> i < Places(f)[x] /\ Places(f)[x] < e
    BY <1>1 DEF WellFormed, Whole
<1> HIDE DEF i, e
<1>6. ASSUME NEW x \in X, 2 * i < key[x], key[x] < 2 * e
      PROVE  x.kind = "auto" /\ x.id = z
    <2>1. ASSUME Kept(f, Q, D, x), Places(f)[x] \in 1..Len(f), key[x] = 2 * Places(f)[x] PROVE FALSE
        <3>1. i < Places(f)[x] /\ Places(f)[x] < e
            BY <2>1, <1>2, <1>6
        <3> QED BY <3>1, <2>1, <1>5 DEF Kept
    <2>2. ASSUME Places(f)[x] \in 1..Len(f), Places(f)[x] > c, key[x] = 2 * Places(f)[x] + Extra PROVE FALSE
        BY <2>2, <1>2, <1>6
    <2>3. ASSUME NEW q \in 1..Len(Ids), key[x] \in {2 * c + 3 * q - 2, 2 * c + 3 * q - 1, 2 * c + 3 * q}
          PROVE  FALSE
        <3>1. q \in Int /\ 1 <= q
            BY Indices
        <3> QED BY <3>1, <2>3, <1>2, <1>6
    <2>4. PICK y \in Q \ D : /\ x = AutoLine(y, v)
                             /\ key[x] = 2 * Places(f)[Start(y)] + 1
        BY <2>1, <2>2, <2>3, KeyOf
    <2>5. i <= Places(f)[Start(y)] /\ Places(f)[Start(y)] < e
        <3>1. Places(f)[Start(y)] \in Int
            BY <1>2
        <3> QED BY <3>1, <2>4, <1>2, <1>6
    <2>6. y \in Zones /\ Start(y) \in Own(f) /\ Start(y).kind # "auto"
        BY <1>1, <1>2, <1>3
    <2>7. ~ (i < Places(f)[Start(y)] /\ Places(f)[Start(y)] < e)
        BY <2>6, <1>5
    <2>8. Places(f)[Start(y)] = i
        <3>1. Places(f)[Start(y)] \in Int
            BY <1>2
        <3> QED BY <3>1, <2>5, <2>7, <1>2
    <2>9. Start(y) = Start(z)
        BY <2>6, <2>8, <1>2, PlacesOf DEF i
    <2> QED BY <2>4, <2>6, <2>9, <1>1, <1>3
<1>7. ASSUME NEW x \in X, x.kind = "auto", x.id = z
      PROVE  2 * i < key[x] /\ key[x] < 2 * e
    <2>1. ~ Kept(f, Q, D, x)
        BY <1>7 DEF Kept
    <2>2. ASSUME NEW q \in 1..Len(Ids), Ids[q] \in new,
                 x = Start(Ids[q]) \/ x = AutoLine(Ids[q], v) \/ x = End(Ids[q]) PROVE FALSE
        BY <2>2, <1>3, <1>7
    <2>3. PICK y \in Q \ D : /\ x = AutoLine(y, v)
                             /\ key[x] = 2 * Places(f)[Start(y)] + 1
        BY <2>1, <2>2, KeyOf
    <2>4. y = z
        BY <2>3, <1>1, <1>3, <1>7
    <2> QED BY <2>3, <2>4, <1>2 DEF i
<1>8. 2 * i < 2 * e
    BY <1>2
<1> QED BY <1>4, <1>6, <1>7, <1>8 DEF WholeKeys

LEMMA WholeOther ==
    ASSUME NEW f, NEW Q, NEW D, NEW v, NEW new, NEW c, NEW X, NEW key,
           Splicing(f, Q, D, v, new, c, X, key), \A z \in Q : Places(f)[Start(z)] < c,
           c = 0 \/ \E z \in Q : c = Places(f)[End(z)],
           NEW z \in Zones, z \notin Q, z \notin new, Start(z) \in X, End(z) \in X
    PROVE  WholeKeys(X, key, z)
<1> DEFINE i == Places(f)[Start(z)]
           e == Places(f)[End(z)]
<1>1. /\ WellFormed(f) /\ Q \subseteq Zones /\ \A y \in Q : Sound(f, y)
    BY DEF Splicing, Spliceable
<1>2. /\ \A y \in new : y \in Zones /\ y \notin Q
      /\ \A y \in Zones : /\ Start(y).kind = "start" /\ Start(y).id = y
                          /\ End(y).kind = "end" /\ End(y).id = y
                          /\ AutoLine(y, v).kind = "auto" /\ AutoLine(y, v).id = y
    BY NewOrOld
<1>3. Kept(f, Q, D, Start(z)) /\ Kept(f, Q, D, End(z))
    <2>1. ASSUME NEW x \in {Start(z), End(z)} PROVE Kept(f, Q, D, x)
        <3>1. x \in X /\ x.kind \in {"start", "end"} /\ x.id = z
            BY <2>1, <1>2
        <3>2. ASSUME NEW y \in Q, x = AutoLine(y, v) PROVE FALSE
            BY <3>1, <3>2, <1>1, <1>2
        <3>3. ASSUME NEW q \in 1..Len(Ids), Ids[q] \in new,
                     x = Start(Ids[q]) \/ x = AutoLine(Ids[q], v) \/ x = End(Ids[q]) PROVE FALSE
            BY <3>1, <3>3, <1>2
        <3> QED BY <3>1, <3>2, <3>3, KeyOf
    <2> QED BY <2>1
<1>4. Start(z) \in Own(f) /\ End(z) \in Own(f) /\ Sound(f, z)
    BY <1>3 DEF Kept, Sound
<1>5. /\ i \in 1..Len(f) /\ e \in 1..Len(f) /\ i < e
      /\ \A x \in Own(f) : x.kind = "auto" /\ x.id = z <=> i < Places(f)[x] /\ Places(f)[x] < e
    BY <1>1, <1>4, TypesOf DEF WellFormed, Whole
<1>6. /\ Len(f) \in Nat /\ c \in 0..Len(f) /\ Extra \in Nat /\ \A x \in X : key[x] \in Int
      /\ \A y \in Q : /\ Start(y) \in Own(f) /\ Places(f)[Start(y)] \in 1..Len(f)
                      /\ End(y) \in Own(f) /\ Places(f)[End(y)] \in 1..Len(f)
      /\ f \in Seq(Lines) /\ Distinct(f)
    BY TypesOf
<1>7. /\ key[Start(z)] = OldKey(f, c, Start(z)) /\ key[End(z)] = OldKey(f, c, End(z))
    <2>1. Start(z) \in Solid /\ End(z) \in Solid
        BY LineKinds
    <2> QED BY <2>1, <1>3 DEF Splicing, SpliceKeys, KeptKeys
\* No other zone is around a sigil of this one.
<1>8. ASSUME NEW y \in Q, NEW x \in {Start(y), End(y)}
      PROVE  Places(f)[x] < i \/ e < Places(f)[x]
    <2>1. x \in Own(f) /\ y \in Zones /\ x.kind # "auto" /\ x # Start(z) /\ x # End(z)
        BY <1>1, <1>2, <1>6
    <2> QED BY <2>1, <1>1, <1>4, ZonesApart
<1>9. c < i \/ e < c
    <2>1. CASE c = 0
        BY <2>1, <1>5
    <2>2. CASE \E y \in Q : c = Places(f)[End(y)]
        BY <2>2, <1>8
    <2> QED BY <2>1, <2>2
<1>10. \/ c < i /\ key[Start(z)] = 2 * i + Extra /\ key[End(z)] = 2 * e + Extra
       \/ e < c /\ key[Start(z)] = 2 * i /\ key[End(z)] = 2 * e
    <2>1. CASE c < i
        <3>1. ~ i <= c /\ ~ e <= c
            BY <2>1, <1>5, <1>6
        <3> QED BY <3>1, <2>1, <1>7 DEF OldKey
    <2>2. CASE e < c
        <3>1. i <= c /\ e <= c
            BY <2>2, <1>5, <1>6
        <3> QED BY <3>1, <2>2, <1>7 DEF OldKey
    <2> QED BY <2>1, <2>2, <1>9
<1> HIDE DEF i, e
<1>11. ASSUME NEW x \in X, Kept(f, Q, D, x)
       PROVE  x.kind = "auto" /\ x.id = z <=> key[Start(z)] < key[x] /\ key[x] < key[End(z)]
    <2>1. x \in Own(f)
        BY <1>11 DEF Kept
    <2>2. /\ key[Start(z)] < key[x] <=> i < Places(f)[x]
          /\ key[x] < key[End(z)] <=> Places(f)[x] < e
        BY <1>3, <1>11, KeptOrder DEF i, e
    <2> QED BY <2>1, <2>2, <1>5
<1>12. ASSUME NEW x \in X, NEW y \in Q, x = AutoLine(y, v), key[x] = 2 * Places(f)[Start(y)] + 1
       PROVE  /\ ~ (x.kind = "auto" /\ x.id = z)
              /\ ~ (key[Start(z)] < key[x] /\ key[x] < key[End(z)])
    <2>1. x.id = y /\ y # z
        BY <1>1, <1>2, <1>12
    <2>2. /\ Places(f)[Start(y)] \in Int /\ Places(f)[Start(y)] < c
          /\ Places(f)[Start(y)] < i \/ e < Places(f)[Start(y)]
        BY <1>6, <1>8
    <2>3. ~ (key[Start(z)] < key[x] /\ key[x] < key[End(z)])
        <3>1. CASE c < i /\ key[Start(z)] = 2 * i + Extra
            BY <3>1, <2>2, <1>5, <1>6, <1>12
        <3>2. CASE e < c /\ key[Start(z)] = 2 * i /\ key[End(z)] = 2 * e
            <4>1. CASE Places(f)[Start(y)] < i
                BY <4>1, <3>2, <2>2, <1>5, <1>6, <1>12
            <4>2. CASE e < Places(f)[Start(y)]
                BY <4>2, <3>2, <2>2, <1>5, <1>6, <1>12
            <4> QED BY <4>1, <4>2, <2>2
        <3> QED BY <3>1, <3>2, <1>10
    <2> QED BY <2>1, <2>3
<1>13. ASSUME NEW x \in X, NEW q \in 1..Len(Ids), Ids[q] \in new,
              \/ x = Start(Ids[q]) /\ key[x] = 2 * c + 3 * q - 2
              \/ v \notin Void[Ids[q]] /\ x = AutoLine(Ids[q], v) /\ key[x] = 2 * c + 3 * q - 1
              \/ x = End(Ids[q]) /\ key[x] = 2 * c + 3 * q
       PROVE  /\ ~ (x.kind = "auto" /\ x.id = z)
              /\ ~ (key[Start(z)] < key[x] /\ key[x] < key[End(z)])
    <2>1. x.id = Ids[q] /\ Ids[q] # z
        BY <1>2, <1>13
    <2>2. q \in Int /\ 1 <= q /\ q <= Len(Ids) /\ Len(Ids) \in Nat
        BY Indices
    <2>3. 2 * c < key[x] /\ key[x] <= 2 * c + Extra
        BY <2>2, <1>6, <1>13 DEF Extra
    <2>4. ~ (key[Start(z)] < key[x] /\ key[x] < key[End(z)])
        BY <2>3, <1>5, <1>6, <1>10
    <2> QED BY <2>1, <2>4
<1>14. ASSUME NEW x \in X
       PROVE  x.kind = "auto" /\ x.id = z <=> key[Start(z)] < key[x] /\ key[x] < key[End(z)]
    BY <1>11, <1>12, <1>13, KeyOf
<1>15. key[Start(z)] < key[End(z)]
    BY <1>5, <1>6, <1>10
<1> QED BY <1>14, <1>15 DEF WholeKeys

-----------------------------------------------------------------------------
(* What a spliced file has.                                                          *)

\* The lines of a spliced file.
Has(f, Q, D, v, new, x) ==
    \/ Kept(f, Q, D, x)
    \/ \E z \in (Q \ D) \union new : v \notin Void[z] /\ x = AutoLine(z, v)
    \/ \E z \in new : x = Start(z) \/ x = End(z)

LEMMA HasExactly ==
    ASSUME NEW f, NEW Q, NEW D, NEW v, NEW new, NEW c, NEW X, NEW key,
           Splicing(f, Q, D, v, new, c, X, key), NEW x
    PROVE  x \in X <=> Has(f, Q, D, v, new, x)
<1>1. /\ Q \subseteq Zones /\ new \subseteq Zones
      /\ \A y \in Own(f) : y \in Solid
    BY TypesOf
<1>2. ASSUME x \in X PROVE Has(f, Q, D, v, new, x)
    BY <1>2, KeyOf DEF Has
<1>3. ASSUME Kept(f, Q, D, x) PROVE x \in X
    <2>1. x \in Solid
        BY <1>1, <1>3 DEF Kept
    <2> QED BY <2>1, <1>3 DEF Splicing, SpliceKeys, KeptKeys
<1>4. ASSUME NEW z \in Q \ D, v \notin Void[z], x = AutoLine(z, v) PROVE x \in X
    BY <1>4 DEF Splicing, SpliceKeys, FilledKeys
<1>5. ASSUME NEW z \in new PROVE /\ Start(z) \in X /\ End(z) \in X
                                 /\ v \notin Void[z] => AutoLine(z, v) \in X
    <2>1. PICK q \in DOMAIN Ids : Ids[q] = z
        BY <1>1, Indices
    <2> QED BY <2>1 DEF Splicing, SpliceKeys, NewKeys
<1> QED BY <1>2, <1>3, <1>4, <1>5 DEF Has

LEMMA SplicedWell ==
    ASSUME NEW f, NEW Q, NEW D, NEW v, NEW new, NEW g, Spliced(f, Q, D, v, new, g)
    PROVE  /\ WellFormed(g)
           /\ \A x : x \in Own(g) <=> Has(f, Q, D, v, new, x)
           /\ \A x, y : Kept(f, Q, D, x) /\ Kept(f, Q, D, y) =>
                (Places(g)[x] < Places(g)[y] <=> Places(f)[x] < Places(f)[y])
<1>1. PICK c, X, key :
        /\ Splicing(f, Q, D, v, new, c, X, key)
        /\ \A z \in Q : Places(f)[End(z)] <= c
        /\ c = 0 \/ \E z \in Q : c = Places(f)[End(z)]
        /\ Keyed(g, X, key, 0, 2 * Len(f) + Extra)
    BY DEF Spliced
<1>2. /\ Keys(X, key) /\ Len(f) \in Nat /\ c \in 0..Len(f) /\ D \subseteq Q /\ Q \subseteq Zones
      /\ \A z \in Q : /\ Places(f)[Start(z)] \in 1..Len(f) /\ Places(f)[End(z)] \in 1..Len(f)
                      /\ Places(f)[Start(z)] < Places(f)[End(z)]
    BY <1>1, TypesOf
<1>3. \A x \in X : 0 < key[x] /\ key[x] <= 2 * Len(f) + Extra
    BY <1>1, KeysBounded
<1>4. \A z \in Q : Places(f)[Start(z)] < c
    BY <1>1, <1>2
<1>5. ASSUME NEW z \in Zones, Start(z) \in X, End(z) \in X
      PROVE  WholeKeys(X, key, z)
    <2>1. CASE z \in new
        BY <2>1, <1>1, <1>4, WholeNew
    <2>2. CASE z \in Q \ D
        BY <2>2, <1>1, WholeFilled
    <2>3. CASE z \notin Q /\ z \notin new
        BY <2>3, <1>1, <1>4, <1>5, WholeOther
    <2>4. ASSUME z \in D, z \notin new PROVE FALSE
        <3>1. Has(f, Q, D, v, new, Start(z))
            BY <1>1, <1>5, HasExactly
        <3>2. /\ \A y \in new : y \in Zones
              /\ \A y \in Zones : /\ Start(y).kind = "start" /\ Start(y).id = y
                                  /\ End(y).kind = "end" /\ AutoLine(y, v).kind = "auto"
            BY <1>1, NewOrOld
        <3>3. ~ Kept(f, Q, D, Start(z))
            BY <3>2, <2>4 DEF Kept
        <3> QED BY <3>1, <3>2, <3>3, <2>4, <1>2 DEF Has
    <2> QED BY <2>1, <2>2, <2>3, <2>4
<1>6. WellFormed(g) /\ Own(g) = X
    BY <1>1, <1>2, <1>3, <1>5, WholeByKeys DEF WholeKeys
<1>7. \A x, y \in X : Places(g)[x] < Places(g)[y] <=> key[x] < key[y]
    BY <1>1, <1>2, <1>3, KeyedFile
<1>8. \A x : x \in Own(g) <=> Has(f, Q, D, v, new, x)
    BY <1>1, <1>6, HasExactly
<1>9. ASSUME NEW x, NEW y, Kept(f, Q, D, x), Kept(f, Q, D, y)
      PROVE  Places(g)[x] < Places(g)[y] <=> Places(f)[x] < Places(f)[y]
    <2>1. x \in X /\ y \in X /\ (key[x] < key[y] <=> Places(f)[x] < Places(f)[y])
        BY <1>1, <1>9, KeptOrder
    <2> QED BY <2>1, <1>7
<1> QED BY <1>6, <1>8, <1>9

\* The zones Z of g have what was generated from v.
Fresh(g, Z, v) == \A z \in Z :
    /\ Sound(g, z)
    /\ \A x : x \in Own(g) /\ x.kind = "auto" /\ x.id = z <=> v \notin Void[z] /\ x = AutoLine(z, v)

LEMMA HandsKept ==
    ASSUME NEW f, NEW Q, NEW D, NEW v, NEW new, Spliceable(f, Q, D, v, new),
           NEW g, Spliced(f, Q, D, v, new, g)
    PROVE  InOrder(g, Hands) = InOrder(f, Hands)
<1>1. /\ WellFormed(g)
      /\ \A x : x \in Own(g) <=> Has(f, Q, D, v, new, x)
      /\ \A x, y : Kept(f, Q, D, x) /\ Kept(f, Q, D, y) =>
            (Places(g)[x] < Places(g)[y] <=> Places(f)[x] < Places(f)[y])
    BY SplicedWell
<1>2. WellFormed(f) /\ Q \subseteq Zones /\ new \subseteq Zones /\ v \in Versions
    BY DEF Spliceable
<1>3. \A x \in Hands : x.kind = "hand" /\ x \in Solid
    BY LineKinds
<1>4. \A x \in Hands : x \in Own(f) <=> Kept(f, Q, D, x)
    BY <1>3 DEF Kept
<1>5. \A x \in Hands : Has(f, Q, D, v, new, x) <=> Kept(f, Q, D, x)
    <2>1. \A z \in Zones : Start(z).kind # "hand" /\ End(z).kind # "hand" /\ AutoLine(z, v).kind # "hand"
        BY <1>2, LineKinds
    <2> QED BY <2>1, <1>2, <1>3 DEF Has
<1>6. Own(f) \intersect Hands = Own(g) \intersect Hands
    BY <1>1, <1>4, <1>5
<1>7. \A x, y \in Own(f) \intersect Hands : Places(f)[x] < Places(f)[y] <=> Places(g)[x] < Places(g)[y]
    BY <1>1, <1>4
<1>8. Hands \subseteq Solid
    BY <1>3
<1>9. f \in Seq(Lines) /\ Distinct(f) /\ g \in Seq(Lines) /\ Distinct(g)
    BY <1>1, <1>2 DEF WellFormed
<1> QED BY <1>6, <1>7, <1>8, <1>9, SameOrder

LEMMA SplicedFresh ==
    ASSUME NEW f, NEW Q, NEW D, NEW v, NEW new, Spliceable(f, Q, D, v, new),
           NEW g, Spliced(f, Q, D, v, new, g)
    PROVE  Fresh(g, (Q \ D) \union new, v)
<1>1. \A x : x \in Own(g) <=> Has(f, Q, D, v, new, x)
    BY SplicedWell
<1>2. /\ Q \subseteq Zones /\ D \subseteq Q /\ new \subseteq Zones /\ v \in Versions
      /\ \A z \in Q : Sound(f, z)
      /\ \A x \in Own(f) : x.kind # "hand" => x.id \notin new
    BY DEF Spliceable
<1>3. \A z \in Zones : /\ Start(z).kind = "start" /\ Start(z).id = z
                       /\ End(z).kind = "end" /\ End(z).id = z
                       /\ AutoLine(z, v).kind = "auto" /\ AutoLine(z, v).id = z
    BY <1>2, LineKinds
<1>4. ASSUME NEW z \in (Q \ D) \union new PROVE Sound(g, z)
    <2>1. CASE z \in new
        BY <2>1, <1>1 DEF Has, Sound
    <2>2. CASE z \in Q \ D
        <3>1. Kept(f, Q, D, Start(z)) /\ Kept(f, Q, D, End(z))
            BY <2>2, <1>2, <1>3 DEF Kept, Sound
        <3> QED BY <3>1, <1>1 DEF Has, Sound
    <2> QED BY <2>1, <2>2
<1>5. ASSUME NEW z \in (Q \ D) \union new, NEW x, x \in Own(g), x.kind = "auto", x.id = z
      PROVE  v \notin Void[z] /\ x = AutoLine(z, v)
    <2>1. Has(f, Q, D, v, new, x)
        BY <1>1, <1>5
    <2>2. ~ Kept(f, Q, D, x)
        BY <1>2, <1>5 DEF Kept
    <2>3. ~ \E y \in new : x = Start(y) \/ x = End(y)
        BY <1>2, <1>3, <1>5
    <2>4. PICK y \in (Q \ D) \union new : v \notin Void[y] /\ x = AutoLine(y, v)
        BY <2>1, <2>2, <2>3 DEF Has
    <2> QED BY <2>4, <1>2, <1>3, <1>5
<1>6. ASSUME NEW z \in (Q \ D) \union new, NEW x, v \notin Void[z], x = AutoLine(z, v)
      PROVE  x \in Own(g) /\ x.kind = "auto" /\ x.id = z
    BY <1>1, <1>2, <1>3, <1>6 DEF Has
<1> QED BY <1>4, <1>5, <1>6 DEF Fresh

\* Filling fresh zones once more.
LEMMA FreshInOrder ==
    ASSUME NEW g, NEW Q, NEW v, NEW c, NEW X, NEW key, Splicing(g, Q, {}, v, {}, c, X, key),
           \A z \in Q : Places(g)[End(z)] <= c, Fresh(g, Q, v),
           NEW x \in Own(g), NEW y \in Own(g), Places(g)[x] < Places(g)[y]
    PROVE  x \in X /\ y \in X /\ key[x] < key[y]
<1>1. /\ WellFormed(g) /\ Q \subseteq Zones /\ \A z \in Q : Sound(g, z)
    BY DEF Splicing, Spliceable
<1>2. /\ Len(g) \in Nat /\ c \in 0..Len(g) /\ Extra \in Nat /\ v \in Versions
      /\ g \in Seq(Lines) /\ Distinct(g)
      /\ \A w \in Own(g) : w \in Solid /\ Places(g)[w] \in 1..Len(g)
      /\ \A z \in Q : /\ Start(z) \in Own(g) /\ End(z) \in Own(g)
                      /\ Places(g)[Start(z)] < Places(g)[End(z)]
    BY TypesOf
<1>3. \A z \in Zones : /\ Start(z).kind = "start" /\ End(z).kind = "end"
                       /\ AutoLine(z, v).kind = "auto" /\ AutoLine(z, v).id = z
    BY <1>2, LineKinds
\* A line is kept, or the content of a zone.
<1>4. ASSUME NEW w \in Own(g)
      PROVE  /\ w \in X
             /\ \/ Kept(g, Q, {}, w) /\ Places(g)[w] <= c /\ key[w] = 2 * Places(g)[w]
                \/ Kept(g, Q, {}, w) /\ Places(g)[w] > c /\ key[w] = 2 * Places(g)[w] + Extra
                \/ ~ Kept(g, Q, {}, w) /\
                   \E z \in Q : /\ w = AutoLine(z, v) /\ key[w] = 2 * Places(g)[Start(z)] + 1
                                /\ Places(g)[Start(z)] < Places(g)[w] /\ Places(g)[w] < Places(g)[End(z)]
    <2>1. CASE Kept(g, Q, {}, w)
        <3>1. w \in X /\ key[w] = OldKey(g, c, w)
            BY <2>1, <1>2 DEF Splicing, SpliceKeys, KeptKeys
        <3>2. Places(g)[w] <= c \/ (Places(g)[w] > c /\ ~ Places(g)[w] <= c)
            BY <1>2
        <3> QED BY <3>1, <3>2, <2>1 DEF OldKey
    <2>2. CASE ~ Kept(g, Q, {}, w)
        <3>1. w.kind = "auto" /\ w.id \in Q
            BY <2>2 DEF Kept
        <3>2. v \notin Void[w.id] /\ w = AutoLine(w.id, v)
            BY <3>1 DEF Fresh
        <3>3. w \in X /\ key[w] = 2 * Places(g)[Start(w.id)] + 1
            BY <3>1, <3>2 DEF Splicing, SpliceKeys, FilledKeys
        <3>4. Places(g)[Start(w.id)] < Places(g)[w] /\ Places(g)[w] < Places(g)[End(w.id)]
            BY <3>1, <1>1 DEF WellFormed, Whole
        <3>5. \E z \in Q : /\ w = AutoLine(z, v) /\ key[w] = 2 * Places(g)[Start(z)] + 1
                         /\ Places(g)[Start(z)] < Places(g)[w] /\ Places(g)[w] < Places(g)[End(z)]
            BY <3>1, <3>2, <3>3, <3>4
        <3> QED BY <3>3, <3>5, <2>2
    <2> QED BY <2>1, <2>2
<1>5. ASSUME NEW z \in Q, NEW w \in Own(g), Kept(g, Q, {}, w)
      PROVE  ~ (Places(g)[Start(z)] < Places(g)[w] /\ Places(g)[w] < Places(g)[End(z)])
    <2>1. ~ (w.kind = "auto" /\ w.id = z)
        BY <1>5 DEF Kept
    <2> QED BY <2>1, <1>1 DEF WellFormed, Whole
<1>6. CASE Kept(g, Q, {}, x) /\ Kept(g, Q, {}, y)
    BY <1>6, <1>4, KeptOrder
<1>7. CASE Kept(g, Q, {}, x) /\ ~ Kept(g, Q, {}, y)
    <2>1. PICK z \in Q : /\ y = AutoLine(z, v) /\ key[y] = 2 * Places(g)[Start(z)] + 1
                         /\ Places(g)[Start(z)] < Places(g)[y] /\ Places(g)[y] < Places(g)[End(z)]
        BY <1>4, <1>7
    <2>2. /\ Places(g)[x] \in Int /\ Places(g)[y] \in Int
          /\ Places(g)[Start(z)] \in Int /\ Places(g)[End(z)] \in Int /\ Places(g)[End(z)] <= c
        BY <1>2
    <2>3. Places(g)[x] <= Places(g)[Start(z)] /\ Places(g)[x] <= c
        BY <2>1, <2>2, <1>2, <1>5, <1>7
    <2>4. key[x] = 2 * Places(g)[x]
        BY <2>2, <2>3, <1>2, <1>4, <1>7
    <2> QED BY <2>1, <2>2, <2>3, <2>4, <1>4
<1>8. CASE ~ Kept(g, Q, {}, x) /\ Kept(g, Q, {}, y)
    <2>1. PICK z \in Q : /\ x = AutoLine(z, v) /\ key[x] = 2 * Places(g)[Start(z)] + 1
                         /\ Places(g)[Start(z)] < Places(g)[x] /\ Places(g)[x] < Places(g)[End(z)]
        BY <1>4, <1>8
    <2>2. /\ Places(g)[x] \in Int /\ Places(g)[y] \in Int
          /\ Places(g)[Start(z)] \in Int /\ Places(g)[End(z)] \in Int
        BY <1>2
    <2>3. Places(g)[End(z)] <= Places(g)[y]
        BY <2>1, <2>2, <1>5, <1>8
    <2>4. key[y] \in {2 * Places(g)[y], 2 * Places(g)[y] + Extra}
        BY <1>4, <1>8
    <2>5. key[y] >= 2 * Places(g)[y]
        BY <2>2, <2>4, <1>2
    <2>6. 2 * Places(g)[Start(z)] + 1 < 2 * Places(g)[y]
        BY <2>1, <2>2, <2>3
    <2>7. key[y] \in Int
        BY <2>2, <2>4, <1>2
    <2> QED BY <2>1, <2>2, <2>5, <2>6, <2>7, <1>4
<1>9. CASE ~ Kept(g, Q, {}, x) /\ ~ Kept(g, Q, {}, y)
    <2>1. PICK z \in Q : /\ x = AutoLine(z, v) /\ key[x] = 2 * Places(g)[Start(z)] + 1
                         /\ Places(g)[Start(z)] < Places(g)[x] /\ Places(g)[x] < Places(g)[End(z)]
        BY <1>4, <1>9
    <2>2. PICK u \in Q : /\ y = AutoLine(u, v) /\ key[y] = 2 * Places(g)[Start(u)] + 1
                         /\ Places(g)[Start(u)] < Places(g)[y] /\ Places(g)[y] < Places(g)[End(u)]
        BY <1>4, <1>9
    <2>3. /\ Places(g)[x] \in Int /\ Places(g)[y] \in Int
          /\ Places(g)[Start(z)] \in Int /\ Places(g)[End(z)] \in Int
          /\ Places(g)[Start(u)] \in Int /\ Places(g)[End(u)] \in Int
        BY <1>2
    <2>4. x.id = z /\ x.kind = "auto" /\ u # z
        BY <2>1, <2>2, <2>3, <1>1, <1>3
    <2>5. ~ (Places(g)[Start(u)] < Places(g)[x] /\ Places(g)[x] < Places(g)[End(u)])
        BY <2>4, <1>1 DEF WellFormed, Whole
    <2>6. Start(z) \in Own(g) /\ Start(z).kind # "auto"
        BY <1>1, <1>2, <1>3
    <2>7. ~ (Places(g)[Start(u)] < Places(g)[Start(z)] /\ Places(g)[Start(z)] < Places(g)[End(u)])
        BY <2>6, <1>1 DEF WellFormed, Whole
    <2>8. Places(g)[x] <= Places(g)[Start(u)]
        BY <2>2, <2>3, <2>5
    <2> QED BY <2>1, <2>2, <2>3, <2>8, <1>4
<1> QED BY <1>6, <1>7, <1>8, <1>9

LEMMA FreshSettles ==
    ASSUME NEW g, NEW Q, NEW v, Spliceable(g, Q, {}, v, {}), Fresh(g, Q, v),
           NEW h, Spliced(g, Q, {}, v, {}, h)
    PROVE  InOrder(h, Solid) = InOrder(g, Solid)
<1>1. PICK c, X, key :
        /\ Splicing(g, Q, {}, v, {}, c, X, key)
        /\ \A z \in Q : Places(g)[End(z)] <= c
        /\ Keyed(h, X, key, 0, 2 * Len(g) + Extra)
    BY DEF Spliced
<1>2. WellFormed(g) /\ Q \subseteq Zones
    BY DEF Spliceable
<1>3. g \in Seq(Lines) /\ Distinct(g) /\ \A x \in Own(g) : Places(g)[x] \in 1..Len(g) /\ x \in Solid
    BY <1>2, PlacesOf DEF WellFormed
<1>4. Keys(X, key) /\ \A x \in X : 0 < key[x] /\ key[x] <= 2 * Len(g) + Extra
    BY <1>1, TypesOf, KeysBounded
<1>5. /\ h \in Seq(Lines) /\ Distinct(h) /\ Own(h) = X
      /\ \A x, y \in X : Places(h)[x] < Places(h)[y] <=> key[x] < key[y]
    BY <1>1, <1>4, KeyedFile
<1>6. \A x : x \in X <=> Has(g, Q, {}, v, {}, x)
    BY <1>1, HasExactly
<1>7. X = Own(g)
    <2>1. ASSUME NEW x, Has(g, Q, {}, v, {}, x) PROVE x \in Own(g)
        <3>1. CASE Kept(g, Q, {}, x)
            BY <3>1 DEF Kept
        <3>2. CASE \E z \in Q : v \notin Void[z] /\ x = AutoLine(z, v)
            BY <3>2 DEF Fresh
        <3> QED BY <2>1, <3>1, <3>2 DEF Has
    <2>2. ASSUME NEW x \in Own(g) PROVE Has(g, Q, {}, v, {}, x)
        <3>1. CASE x.kind = "auto" /\ x.id \in Q
            BY <3>1 DEF Fresh, Has
        <3>2. CASE ~ (x.kind = "auto" /\ x.id \in Q)
            BY <3>2 DEF Kept, Has
        <3> QED BY <3>1, <3>2
    <2> QED BY <2>1, <2>2, <1>6
<1>8. ASSUME NEW x \in Own(g), NEW y \in Own(g), Places(g)[x] < Places(g)[y] PROVE key[x] < key[y]
    BY <1>1, <1>8, FreshInOrder
<1>9. ASSUME NEW x \in Own(g), NEW y \in Own(g), key[x] < key[y] PROVE Places(g)[x] < Places(g)[y]
    <2>1. key[x] \in Int /\ key[y] \in Int
        BY <1>4, <1>7 DEF Keys
    <2>2. x # y
        BY <2>1, <1>9
    <2>3. Places(g)[x] # Places(g)[y]
        BY <2>2, <1>3, PlacesOf
    <2>4. ~ Places(g)[y] < Places(g)[x]
        BY <2>1, <1>8, <1>9
    <2> QED BY <2>3, <2>4, <1>3
<1>10. Own(h) \intersect Solid = Own(g) \intersect Solid
    BY <1>5, <1>7
<1>11. \A x, y \in Own(h) \intersect Solid : Places(h)[x] < Places(h)[y] <=> Places(g)[x] < Places(g)[y]
    BY <1>5, <1>7, <1>8, <1>9
<1> QED BY <1>3, <1>5, <1>10, <1>11, SameOrder

(* What users do to a file.                                                          *)

LEMMA ZoneLines ==
    ASSUME NEW f, WellFormed(f), NEW z \in Zones, Sound(f, z), NEW x \in Own(f)
    PROVE  /\ x \in Solid /\ Places(f)[x] \in 1..Len(f)
           /\ Places(f)[Start(z)] \in 1..Len(f) /\ Places(f)[End(z)] \in 1..Len(f)
           /\ Places(f)[Start(z)] < Places(f)[End(z)]
           /\ Places(f)[Start(z)] <= Places(f)[x] /\ Places(f)[x] <= Places(f)[End(z)]
                <=> x.kind # "hand" /\ x.id = z
<1>1. f \in Seq(Lines) /\ Distinct(f) /\ Start(z) \in Own(f) /\ End(z) \in Own(f)
    BY DEF WellFormed, Sound
<1>2. /\ x \in Solid /\ Places(f)[x] \in 1..Len(f)
      /\ Places(f)[Start(z)] \in 1..Len(f) /\ Places(f)[End(z)] \in 1..Len(f)
      /\ Places(f)[x] = Places(f)[Start(z)] => x = Start(z)
      /\ Places(f)[x] = Places(f)[End(z)] => x = End(z)
    BY <1>1, PlacesOf
<1>3. /\ Places(f)[Start(z)] < Places(f)[End(z)]
      /\ x.kind = "auto" /\ x.id = z <=>
            Places(f)[Start(z)] < Places(f)[x] /\ Places(f)[x] < Places(f)[End(z)]
    BY DEF WellFormed, Whole
<1>4. /\ Start(z).kind = "start" /\ Start(z).id = z /\ End(z).kind = "end" /\ End(z).id = z
    BY LineKinds
<1>5. x.kind # "hand" /\ x.id = z <=> x = Start(z) \/ x = End(z) \/ (x.kind = "auto" /\ x.id = z)
    BY <1>2, <1>4, SolidKinds
<1>6. Places(f)[Start(z)] <= Places(f)[x] /\ Places(f)[x] <= Places(f)[End(z)] <=>
          x = Start(z) \/ x = End(z) \/ (x.kind = "auto" /\ x.id = z)
    BY <1>2, <1>3
<1> QED BY <1>2, <1>3, <1>5, <1>6

LEMMA LineWritten ==
    ASSUME NEW f, WellFormed(f), NEW line \in Hands \union {Blank}, line # Blank => line \notin Range(f),
           NEW n \in 0..Len(f), ~ InZone(f, n)
    PROVE  /\ WellFormed(InsertAt(f, n + 1, line))
           /\ Own(InsertAt(f, n + 1, line)) = Own(f) \union ({line} \ {Blank})
<1> DEFINE g == InsertAt(f, n + 1, line)
           X == Own(f) \union ({line} \ {Blank})
           key == [x \in X |-> IF x \in Own(f) THEN 2 * Places(f)[x] ELSE 2 * n + 1]
<1>1. f \in Seq(Lines) /\ Distinct(f) /\ Len(f) \in Nat /\ n \in Int /\ 0 <= n /\ n <= Len(f)
    BY DEF WellFormed
<1>2. \A x \in Own(f) : x \in Solid /\ Places(f)[x] \in 1..Len(f)
    BY <1>1, PlacesOf
<1>3. line \in Lines /\ line \notin Own(f) /\ (line # Blank => line \in Solid /\ line.kind = "hand")
    BY LineKinds, BlankLine DEF Lines, Own
<1>4. Keys(X, key)
    <2>1. Blank \notin X
        BY <1>2, SolidKinds
    <2>2. \A x \in X : key[x] \in Int
        BY <1>1, <1>2
    <2> HIDE DEF X, key
    <2> QED BY <2>1, <2>2 DEF Keys
<1>5. \A x \in Own(f) : x \in X /\ key[x] = 2 * Places(f)[x]
    OBVIOUS
<1>6. \A x \in X : x \in Own(f) \/ (x = line /\ line # Blank /\ key[x] = 2 * n + 1)
    BY <1>3
<1>7. line # Blank => line \in X /\ key[line] = 2 * n + 1
    BY <1>3
<1> HIDE DEF X, key
<1>8. g = Substring(f, 0, n) \o <<line>> \o Substring(f, n, Len(f))
    <2>1. 0 + 1 = 1 /\ (n + 1) - 1 = n
        BY <1>1
    <2> QED BY <2>1 DEF InsertAt, Substring
<1>9. Keyed(Substring(f, 0, n), X, key, 0, 2 * n)
    <2>1. 0 \in 0..Len(f) /\ n \in 0..Len(f)
        BY <1>1
    <2>2. \A x \in Own(f) : 0 < Places(f)[x] /\ Places(f)[x] <= n => x \in X /\ 0 < key[x] /\ key[x] <= 2 * n
        BY <1>1, <1>2, <1>5
    <2>3. \A x \in X : 0 < key[x] /\ key[x] <= 2 * n => x \in Own(f) /\ 0 < Places(f)[x] /\ Places(f)[x] <= n
        BY <1>1, <1>2, <1>5, <1>6
    <2>4. \A x, y \in Own(f) : key[x] < key[y] <=> Places(f)[x] < Places(f)[y]
        BY <1>2, <1>5
    <2> QED BY <2>1, <2>2, <2>3, <2>4, <1>1, <1>4, KeyedSubstring
<1>10. Keyed(<<line>>, X, key, 2 * n, 2 * n + 1)
    <2>1. \A x \in X : 2 * n < key[x] /\ key[x] <= 2 * n + 1 <=> x = line /\ line # Blank
        BY <1>1, <1>2, <1>3, <1>5, <1>6, <1>7
    <2>2. CASE line = Blank
        BY <2>1, <2>2, <1>4, KeyedBlank
    <2>3. CASE line # Blank
        BY <2>1, <2>3, <1>3, <1>4, <1>7, KeyedLine
    <2> QED BY <2>2, <2>3
<1>11. Keyed(Substring(f, n, Len(f)), X, key, 2 * n + 1, 2 * Len(f) + 1)
    <2>1. n \in 0..Len(f) /\ Len(f) \in n..Len(f)
        BY <1>1
    <2>2. \A x \in Own(f) : n < Places(f)[x] /\ Places(f)[x] <= Len(f) =>
                x \in X /\ 2 * n + 1 < key[x] /\ key[x] <= 2 * Len(f) + 1
        BY <1>1, <1>2, <1>5
    <2>3. \A x \in X : 2 * n + 1 < key[x] /\ key[x] <= 2 * Len(f) + 1 =>
                x \in Own(f) /\ n < Places(f)[x] /\ Places(f)[x] <= Len(f)
        BY <1>1, <1>2, <1>5, <1>6
    <2>4. \A x, y \in Own(f) : key[x] < key[y] <=> Places(f)[x] < Places(f)[y]
        BY <1>2, <1>5
    <2> QED BY <2>1, <2>2, <2>3, <2>4, <1>1, <1>4, KeyedSubstring
<1>12. /\ 0 <= 2 * n /\ 2 * n <= 2 * n + 1 /\ 0 <= 2 * n + 1 /\ 2 * n + 1 <= 2 * Len(f) + 1
       /\ 2 * n \in Int /\ 2 * n + 1 \in Int /\ 2 * Len(f) + 1 \in Int
    BY <1>1
<1>13. Keyed(g, X, key, 0, 2 * Len(f) + 1)
    <2>1. Keyed(Substring(f, 0, n) \o <<line>>, X, key, 0, 2 * n + 1)
        BY <1>4, <1>9, <1>10, <1>12, KeyedConcat
    <2>2. Keyed(Substring(f, 0, n) \o <<line>> \o Substring(f, n, Len(f)), X, key, 0, 2 * Len(f) + 1)
        BY <2>1, <1>4, <1>11, <1>12, KeyedConcat
    <2> QED BY <2>2, <1>8
<1> HIDE DEF g
<1>14. \A x \in X : 0 < key[x] /\ key[x] <= 2 * Len(f) + 1
    BY <1>1, <1>2, <1>5, <1>6
<1>15. ASSUME NEW z \in Zones, Start(z) \in X, End(z) \in X
       PROVE  /\ key[Start(z)] < key[End(z)]
              /\ \A x \in X : x.kind = "auto" /\ x.id = z <=> key[Start(z)] < key[x] /\ key[x] < key[End(z)]
    <2>1. Start(z) \in Own(f) /\ End(z) \in Own(f)
        BY <1>3, <1>6, <1>15, LineKinds
    <2>2. Sound(f, z)
        BY <2>1 DEF Sound
    <2>3. /\ Places(f)[Start(z)] < Places(f)[End(z)]
          /\ \A x \in Own(f) : x.kind = "auto" /\ x.id = z <=>
                Places(f)[Start(z)] < Places(f)[x] /\ Places(f)[x] < Places(f)[End(z)]
        BY <2>2 DEF WellFormed, Whole
    <2>4. key[Start(z)] = 2 * Places(f)[Start(z)] /\ key[End(z)] = 2 * Places(f)[End(z)]
        BY <2>1, <1>5
    <2>5. \A x \in Own(f) : x.kind = "auto" /\ x.id = z <=> key[Start(z)] < key[x] /\ key[x] < key[End(z)]
        BY <2>1, <2>3, <2>4, <1>2, <1>5
    <2>6. ~ (key[Start(z)] < 2 * n + 1 /\ 2 * n + 1 < key[End(z)])
        <3>1. SUFFICES ASSUME 2 * Places(f)[Start(z)] < 2 * n + 1, 2 * n + 1 < 2 * Places(f)[End(z)]
                       PROVE  FALSE
            BY <2>4
        <3>2. Places(f)[Start(z)] \in 1..n /\ Places(f)[End(z)] \in (n + 1)..Len(f)
            BY <3>1, <2>1, <1>1, <1>2
        <3>3. f[Places(f)[Start(z)]] = Start(z) /\ f[Places(f)[End(z)]] = End(z)
            BY <2>1, <1>1, PlacesOf
        <3> QED BY <3>2, <3>3 DEF InZone
    <2>7. key[Start(z)] < key[End(z)]
        BY <2>1, <2>3, <2>4, <1>2
    <2> QED BY <2>5, <2>6, <2>7, <1>3, <1>6
<1>16. WellFormed(g) /\ Own(g) = X
    BY <1>4, <1>13, <1>14, <1>15, WholeByKeys
<1> QED BY <1>16 DEF X, g

LEMMA SigilCut ==
    ASSUME NEW f, WellFormed(f), NEW n \in Sigils(f)
    PROVE  WellFormed(RemoveAt(f, n))
<1> DEFINE g == RemoveAt(f, n)
           X == Own(f) \ {f[n]}
           key == Places(f)
<1>1. f \in Seq(Lines) /\ Distinct(f) /\ Len(f) \in Nat /\ n \in 1..Len(f) /\ f[n] # Blank
    BY LineKinds DEF WellFormed, Sigils
<1>2. \A x \in Own(f) : x \in Solid /\ key[x] \in 1..Len(f) /\ f[key[x]] = x
    BY <1>1, PlacesOf
<1>3. f[n] \in Own(f) /\ key[f[n]] = n
    BY <1>1, PlacesOf
<1>4. \A x \in X : x \in Own(f) /\ key[x] # n
    BY <1>2
<1>5. \A x \in Own(f) : key[x] # n => x \in X
    BY <1>3
<1> HIDE DEF X
<1>6. Keys(X, key)
    BY <1>2, <1>4, SolidKinds DEF Keys
<1>7. g = Substring(f, 0, n - 1) \o Substring(f, n, Len(f))
    <2>1. 0 + 1 = 1
        OBVIOUS
    <2> QED BY <2>1 DEF RemoveAt, Substring
<1>8. Keyed(Substring(f, 0, n - 1), X, key, 0, n - 1)
    <2>1. 0 \in 0..Len(f) /\ n - 1 \in 0..Len(f)
        BY <1>1
    <2>2. \A x \in Own(f) : 0 < key[x] /\ key[x] <= n - 1 => x \in X /\ 0 < key[x] /\ key[x] <= n - 1
        BY <1>1, <1>2, <1>5
    <2>3. \A x \in X : 0 < key[x] /\ key[x] <= n - 1 => x \in Own(f) /\ 0 < key[x] /\ key[x] <= n - 1
        BY <1>4
    <2> QED BY <2>1, <2>2, <2>3, <1>1, <1>6, KeyedSubstring
<1>9. Keyed(Substring(f, n, Len(f)), X, key, n - 1, Len(f))
    <2>1. n \in 0..Len(f) /\ Len(f) \in n..Len(f)
        BY <1>1
    <2>2. \A x \in Own(f) : n < key[x] /\ key[x] <= Len(f) => x \in X /\ n - 1 < key[x] /\ key[x] <= Len(f)
        BY <1>1, <1>2, <1>5
    <2>3. \A x \in X : n - 1 < key[x] /\ key[x] <= Len(f) => x \in Own(f) /\ n < key[x] /\ key[x] <= Len(f)
        BY <1>1, <1>2, <1>4
    <2> QED BY <2>1, <2>2, <2>3, <1>1, <1>6, KeyedSubstring
<1>10. Keyed(g, X, key, 0, Len(f))
    <2>1. n - 1 \in Int /\ 0 <= n - 1 /\ n - 1 <= Len(f)
        BY <1>1
    <2> HIDE DEF g
    <2> QED BY <2>1, <1>1, <1>6, <1>7, <1>8, <1>9, KeyedConcat
<1> HIDE DEF g
<1>11. \A x \in X : 0 < key[x] /\ key[x] <= Len(f)
    BY <1>1, <1>2, <1>4
<1>12. ASSUME NEW z \in Zones, Start(z) \in X, End(z) \in X
       PROVE  /\ key[Start(z)] < key[End(z)]
              /\ \A x \in X : x.kind = "auto" /\ x.id = z <=> key[Start(z)] < key[x] /\ key[x] < key[End(z)]
    <2>1. Sound(f, z)
        BY <1>4, <1>12 DEF Sound
    <2> QED BY <2>1, <1>4 DEF WellFormed, Whole
<1> HIDE DEF key
<1>13. WellFormed(g)
    BY <1>6, <1>10, <1>11, <1>12, WholeByKeys
<1> QED BY <1>13 DEF g

\* A zone taken out, or moved to the end of the file.
LEMMA ZoneCut ==
    ASSUME NEW f, WellFormed(f), NEW z \in Zones, Sound(f, z),
           NEW i, i = Places(f)[Start(z)], NEW j, j = Places(f)[End(z)]
    PROVE  LET rest == SubSeq(f, 1, i - 1) \o SubSeq(f, j + 1, Len(f))
               moved == rest \o SubSeq(f, i, j)
           IN /\ WellFormed(rest) /\ Own(rest) = {x \in Own(f) : ~ (x.kind # "hand" /\ x.id = z)}
              /\ WellFormed(moved) /\ Own(moved) = Own(f)
<1> DEFINE L == Len(f)
           at == Places(f)
           zone == {x \in Own(f) : x.kind # "hand" /\ x.id = z}
           X == Own(f) \ zone
           key == [x \in Own(f) |-> IF x \in zone THEN at[x] + L ELSE at[x]]
           a == SubSeq(f, 1, i - 1)
           b == SubSeq(f, j + 1, L)
           c == SubSeq(f, i, j)
<1>1. f \in Seq(Lines) /\ Distinct(f) /\ L \in Nat /\ Whole(f)
    BY DEF WellFormed
<1>2. \A x \in Own(f) : x \in Solid /\ x # Blank /\ at[x] \in 1..L
    BY <1>1, PlacesOf, SolidKinds
<1>3. /\ Start(z) \in Own(f) /\ End(z) \in Own(f)
      /\ Start(z).kind = "start" /\ Start(z).id = z /\ End(z).kind = "end" /\ End(z).id = z
    BY LineKinds DEF Sound
<1>4. i \in 1..L /\ j \in 1..L /\ i < j
    BY <1>2, <1>3, ZoneLines
<1>5. \A x \in Own(f) : x \in zone <=> i <= at[x] /\ at[x] <= j
    BY ZoneLines
<1>6. a = Substring(f, 0, i - 1) /\ b = Substring(f, j, L) /\ c = Substring(f, i - 1, j)
    <2>1. 0 + 1 = 1 /\ (i - 1) + 1 = i
        BY <1>4
    <2> QED BY <2>1 DEF Substring
<1>7. /\ 0 \in 0..L /\ i - 1 \in 0..L /\ i - 1 \in 0..L /\ j \in (i - 1)..L /\ j \in 0..L /\ L \in j..L
      /\ i \in Int /\ j \in Int /\ i - 1 \in Int /\ L \in Int /\ 2 * L \in Int
      /\ 0 <= i - 1 /\ i - 1 <= L /\ 0 <= L /\ L <= 2 * L
    BY <1>1, <1>4
<1> HIDE DEF a, b, c, zone, L, at
\* The sigils of another zone are both before this one or both behind it.
<1>8. ASSUME NEW y \in Zones, y # z, Start(y) \in Own(f), End(y) \in Own(f)
      PROVE  /\ Start(y) \notin zone /\ End(y) \notin zone /\ at[Start(y)] < at[End(y)]
             /\ \A x \in Own(f) : x.kind = "auto" /\ x.id = y <=> at[Start(y)] < at[x] /\ at[x] < at[End(y)]
             /\ \A x \in Own(f) : x.kind = "auto" /\ x.id = y => x \notin zone
             /\ \A x \in zone : ~ (at[Start(y)] < at[x] /\ at[x] < at[End(y)])
    <2>1. Sound(f, y)
        BY <1>8 DEF Sound
    <2>2. /\ at[Start(y)] < at[End(y)]
          /\ \A x \in Own(f) : x.kind = "auto" /\ x.id = y <=> at[Start(y)] < at[x] /\ at[x] < at[End(y)]
        BY <2>1, <1>1 DEF Whole, at
    <2>3. Start(y) \notin zone /\ End(y) \notin zone
        BY <1>8, LineKinds DEF zone
    <2>4. \A x \in Own(f) : x.kind = "auto" /\ x.id = y => x \notin zone
        BY <1>8 DEF zone
    <2>5. \A x \in zone : ~ (at[Start(y)] < at[x] /\ at[x] < at[End(y)])
        BY <2>2, <2>4 DEF zone
    <2> QED BY <2>2, <2>3, <2>4, <2>5
<1>9. Keys(X, at)
    BY <1>2 DEF Keys
<1>10. Keyed(a, X, at, 0, i - 1)
    <2>1. \A x \in Own(f) : 0 < at[x] /\ at[x] <= i - 1 => x \in X /\ 0 < at[x] /\ at[x] <= i - 1
        BY <1>2, <1>5, <1>7
    <2>2. \A x \in X : 0 < at[x] /\ at[x] <= i - 1 => x \in Own(f) /\ 0 < at[x] /\ at[x] <= i - 1
        OBVIOUS
    <2> HIDE DEF X
    <2> QED BY <2>1, <2>2, <1>1, <1>6, <1>7, <1>9, KeyedSubstring DEF L, at
<1>11. Keyed(b, X, at, i - 1, L)
    <2>1. \A x \in Own(f) : j < at[x] /\ at[x] <= L => x \in X /\ i - 1 < at[x] /\ at[x] <= L
        BY <1>2, <1>4, <1>5, <1>7
    <2>2. \A x \in X : i - 1 < at[x] /\ at[x] <= L => x \in Own(f) /\ j < at[x] /\ at[x] <= L
        BY <1>2, <1>4, <1>5, <1>7
    <2> HIDE DEF X
    <2> QED BY <2>1, <2>2, <1>1, <1>6, <1>7, <1>9, KeyedSubstring DEF L, at
<1>12. Keyed(a \o b, X, at, 0, L)
    BY <1>7, <1>9, <1>10, <1>11, KeyedConcat
<1>13. WellFormed(a \o b) /\ Own(a \o b) = X
    <2>1. \A x \in X : 0 < at[x] /\ at[x] <= L
        BY <1>2, <1>7
    <2>2. ASSUME NEW y \in Zones, Start(y) \in X, End(y) \in X
          PROVE  /\ at[Start(y)] < at[End(y)]
                 /\ \A x \in X : x.kind = "auto" /\ x.id = y <=> at[Start(y)] < at[x] /\ at[x] < at[End(y)]
        <3>1. y # z
            BY <2>2, <1>3 DEF zone
        <3> QED BY <3>1, <2>2, <1>8
    <2> HIDE DEF X
    <2> QED BY <2>1, <2>2, <1>9, <1>12, WholeByKeys
<1>14. X = {x \in Own(f) : ~ (x.kind # "hand" /\ x.id = z)}
    BY DEF zone
<1>15. /\ \A x \in zone : x \in Own(f) /\ key[x] = at[x] + L
       /\ \A x \in X : x \in Own(f) /\ key[x] = at[x]
       /\ \A x \in Own(f) : x \in X \/ x \in zone
    BY DEF zone
<1> HIDE DEF X, key
<1>16. \A x \in zone : i <= at[x] /\ at[x] <= j
    BY <1>5, <1>15
<1>17. \A x \in X : at[x] < i \/ j < at[x]
    <2> TAKE x \in X
    <2>1. x \in Own(f) /\ x \notin zone
        BY <1>15 DEF X
    <2> QED BY <2>1, <1>2, <1>5, <1>7
<1>18. Keys(Own(f), key)
    BY <1>2, <1>7, <1>15 DEF Keys
<1>19. Keyed(a, Own(f), key, 0, i - 1)
    <2>1. \A x \in Own(f) : 0 < at[x] /\ at[x] <= i - 1 => 0 < key[x] /\ key[x] <= i - 1
        BY <1>2, <1>7, <1>15, <1>16
    <2>2. \A x \in Own(f) : 0 < key[x] /\ key[x] <= i - 1 => 0 < at[x] /\ at[x] <= i - 1
        BY <1>2, <1>7, <1>15
    <2>3. \A x, y \in Own(f) : 0 < at[x] /\ at[x] <= i - 1 /\ 0 < at[y] /\ at[y] <= i - 1 =>
                (key[x] < key[y] <=> at[x] < at[y])
        BY <1>2, <1>7, <1>15, <1>16
    <2> QED BY <2>1, <2>2, <2>3, <1>1, <1>6, <1>7, <1>18, KeyedSubstring DEF L, at
<1>20. Keyed(b, Own(f), key, i - 1, L)
    <2>1. \A x \in Own(f) : j < at[x] /\ at[x] <= L => i - 1 < key[x] /\ key[x] <= L
        BY <1>2, <1>4, <1>7, <1>15, <1>16
    <2>2. \A x \in Own(f) : i - 1 < key[x] /\ key[x] <= L => j < at[x] /\ at[x] <= L
        BY <1>2, <1>4, <1>7, <1>15, <1>17
    <2>3. \A x, y \in Own(f) : j < at[x] /\ at[x] <= L /\ j < at[y] /\ at[y] <= L =>
                (key[x] < key[y] <=> at[x] < at[y])
        BY <1>2, <1>7, <1>15, <1>16
    <2> QED BY <2>1, <2>2, <2>3, <1>1, <1>6, <1>7, <1>18, KeyedSubstring DEF L, at
<1>21. Keyed(c, Own(f), key, L, 2 * L)
    <2>1. \A x \in Own(f) : i - 1 < at[x] /\ at[x] <= j => L < key[x] /\ key[x] <= 2 * L
        BY <1>2, <1>4, <1>7, <1>15, <1>17
    <2>2. \A x \in Own(f) : L < key[x] /\ key[x] <= 2 * L => i - 1 < at[x] /\ at[x] <= j
        BY <1>2, <1>4, <1>7, <1>15, <1>16
    <2>3. \A x, y \in Own(f) : i - 1 < at[x] /\ at[x] <= j /\ i - 1 < at[y] /\ at[y] <= j =>
                (key[x] < key[y] <=> at[x] < at[y])
        BY <1>2, <1>4, <1>7, <1>15, <1>17
    <2> QED BY <2>1, <2>2, <2>3, <1>1, <1>6, <1>7, <1>18, KeyedSubstring DEF L, at
<1>22. Keyed((a \o b) \o c, Own(f), key, 0, 2 * L)
    <2>1. Keyed(a \o b, Own(f), key, 0, L)
        BY <1>7, <1>18, <1>19, <1>20, KeyedConcat
    <2> QED BY <2>1, <1>7, <1>18, <1>21, KeyedConcat
<1>23. WellFormed((a \o b) \o c) /\ Own((a \o b) \o c) = Own(f)
    <2>1. \A x \in Own(f) : 0 < key[x] /\ key[x] <= 2 * L
        BY <1>2, <1>7, <1>15
    <2>2. ASSUME NEW y \in Zones, Start(y) \in Own(f), End(y) \in Own(f)
          PROVE  /\ key[Start(y)] < key[End(y)]
                 /\ \A x \in Own(f) : x.kind = "auto" /\ x.id = y <=> key[Start(y)] < key[x] /\ key[x] < key[End(y)]
        <3>1. CASE y = z
            <4>1. Start(y) \in zone /\ End(y) \in zone
                BY <3>1, <1>3 DEF zone
            <4>2. key[Start(y)] = i + L /\ key[End(y)] = j + L
                BY <4>1, <3>1, <1>15 DEF at
            <4>3. \A x \in Own(f) : x.kind = "auto" /\ x.id = y <=> i < at[x] /\ at[x] < j
                BY <2>2, <3>1, <1>1 DEF Whole, Sound, at
            <4>4. \A x \in Own(f) : i < at[x] /\ at[x] < j <=> key[Start(y)] < key[x] /\ key[x] < key[End(y)]
                BY <4>2, <1>2, <1>7, <1>15, <1>17
            <4> QED BY <4>2, <4>3, <4>4, <1>4, <1>7
        <3>2. CASE y # z
            <4>1. /\ Start(y) \notin zone /\ End(y) \notin zone /\ at[Start(y)] < at[End(y)]
                  /\ \A x \in Own(f) : x.kind = "auto" /\ x.id = y <=> at[Start(y)] < at[x] /\ at[x] < at[End(y)]
                  /\ \A x \in zone : ~ (at[Start(y)] < at[x] /\ at[x] < at[End(y)])
                BY <2>2, <3>2, <1>8
            <4>2. key[Start(y)] = at[Start(y)] /\ key[End(y)] = at[End(y)]
                BY <4>1, <2>2, <1>15
            <4>3. at[End(y)] <= L /\ at[End(y)] \in Int
                BY <2>2, <1>2
            <4>4. \A x \in zone : ~ (key[Start(y)] < key[x] /\ key[x] < key[End(y)])
                BY <4>2, <4>3, <1>2, <1>7, <1>15
            <4> QED BY <4>1, <4>2, <4>4, <1>15
        <3> QED BY <3>1, <3>2
    <2> QED BY <2>1, <2>2, <1>18, <1>22, WholeByKeys
<1> QED BY <1>13, <1>14, <1>23 DEF a, b, c, L

(* What an emit makes of a file.                                                     *)

LEMMA ZoneContent ==
    ASSUME NEW g, WellFormed(g), NEW z \in Zones, NEW v \in Versions, Fresh(g, {z}, v),
           NEW i, i = Places(g)[Start(z)], NEW j, j = Places(g)[End(z)]
    PROVE  InOrder(SubSeq(g, i, j), Solid) = InOrder(NewZone(z, v), Solid)
<1> DEFINE X == {x \in Own(g) : x.kind # "hand" /\ x.id = z}
           at == Places(g)
           key == [x \in X |-> IF x.kind = "start" THEN 1 ELSE IF x.kind = "end" THEN 3 ELSE 2]
           s == SubSeq(g, i, j)
           t == NewZone(z, v)
<1>1. g \in Seq(Lines) /\ Distinct(g) /\ Len(g) \in Nat /\ Sound(g, z)
    BY DEF WellFormed, Fresh
<1>2. /\ \A x \in Own(g) : x \in Solid /\ x # Blank /\ at[x] \in 1..Len(g)
      /\ Start(z) \in Own(g) /\ End(z) \in Own(g)
    BY <1>1, PlacesOf, SolidKinds DEF Sound
<1>3. /\ Start(z).kind = "start" /\ Start(z).id = z /\ End(z).kind = "end" /\ End(z).id = z
      /\ AutoLine(z, v).kind = "auto" /\ AutoLine(z, v).id = z
    BY LineKinds
<1>4. i \in 1..Len(g) /\ j \in 1..Len(g) /\ i < j
    BY <1>1, <1>2, ZoneLines
<1>5. \A x \in Own(g) : x \in X <=> i <= at[x] /\ at[x] <= j
    BY <1>1, ZoneLines
<1>6. \A x \in X : \/ x = Start(z) /\ key[x] = 1
                   \/ x = End(z) /\ key[x] = 3
                   \/ v \notin Void[z] /\ x = AutoLine(z, v) /\ key[x] = 2
    <2> SUFFICES ASSUME NEW x \in X
                 PROVE  \/ x = Start(z) /\ key[x] = 1
                        \/ x = End(z) /\ key[x] = 3
                        \/ v \notin Void[z] /\ x = AutoLine(z, v) /\ key[x] = 2
        OBVIOUS
    <2>1. x \in Own(g) /\ x.kind # "hand" /\ x.id = z
        OBVIOUS
    <2>2. \/ x = Start(z) \/ x = End(z) \/ x.kind = "auto"
        BY <2>1, <1>2, SolidKinds
    <2>3. x.kind = "auto" => v \notin Void[z] /\ x = AutoLine(z, v)
        BY <2>1 DEF Fresh
    <2> QED BY <2>2, <2>3, <1>3
<1>7. /\ Start(z) \in X /\ key[Start(z)] = 1
      /\ End(z) \in X /\ key[End(z)] = 3
      /\ v \notin Void[z] => AutoLine(z, v) \in X /\ key[AutoLine(z, v)] = 2
    <2>1. Start(z) \in X /\ End(z) \in X
        BY <1>2, <1>3
    <2>2. v \notin Void[z] => AutoLine(z, v) \in X
        BY <1>3 DEF Fresh
    <2> QED BY <2>1, <2>2, <1>3
<1>8. v \notin Void[z] => i < at[AutoLine(z, v)] /\ at[AutoLine(z, v)] < j
    <2>1. v \notin Void[z] => AutoLine(z, v) \in Own(g)
        BY DEF Fresh
    <2> QED BY <2>1, <1>1, <1>3 DEF WellFormed, Whole
<1> HIDE DEF X, key, at
<1>9. \A x \in X : x \in Own(g) /\ x # Blank
    BY <1>2 DEF X
<1>10. Keys(X, at) /\ Keys(X, key)
    BY <1>2, <1>6, <1>9 DEF Keys
<1>11. /\ s \in Seq(Lines) /\ Distinct(s) /\ Own(s) = X
       /\ \A x, y \in X : Places(s)[x] < Places(s)[y] <=> at[x] < at[y]
    <2>1. i - 1 \in 0..Len(g) /\ j \in (i - 1)..Len(g) /\ (i - 1) + 1 = i
        BY <1>1, <1>4
    <2>2. \A x \in Own(g) : i - 1 < at[x] /\ at[x] <= j => x \in X /\ i - 1 < at[x] /\ at[x] <= j
        BY <1>2, <1>4, <1>5
    <2>3. \A x \in X : i - 1 < at[x] /\ at[x] <= j => x \in Own(g) /\ i - 1 < at[x] /\ at[x] <= j
        BY <1>9
    <2>4. Keyed(Substring(g, i - 1, j), X, at, i - 1, j)
        BY <2>1, <2>2, <2>3, <1>1, <1>10, KeyedSubstring DEF at
    <2>5. Substring(g, i - 1, j) = s
        BY <2>1 DEF Substring
    <2>6. \A x \in X : i - 1 < at[x] /\ at[x] <= j
        BY <1>2, <1>4, <1>5, <1>9
    <2> HIDE DEF s
    <2> QED BY <2>4, <2>5, <2>6, <1>10, KeyedFile
<1>12. /\ t \in Seq(Lines) /\ Distinct(t) /\ Own(t) = X
       /\ \A x, y \in X : Places(t)[x] < Places(t)[y] <=> key[x] < key[y]
    <2> DEFINE three == 3
    <2>0. three \in Int /\ three - 3 = 0 /\ three - 2 = 1 /\ three - 1 = 2 /\ three = 3
        OBVIOUS
    <2> HIDE DEF three
    <2>1. /\ Start(z) \in X /\ key[Start(z)] = three - 2
          /\ End(z) \in X /\ key[End(z)] = three
          /\ v \notin Void[z] => AutoLine(z, v) \in X /\ key[AutoLine(z, v)] = three - 1
        BY <2>0, <1>7
    <2>2. \A x \in X : three - 3 < key[x] /\ key[x] <= three =>
                \/ x = Start(z)
                \/ v \notin Void[z] /\ x = AutoLine(z, v)
                \/ x = End(z)
        BY <1>6
    <2>3. Keyed(t, X, key, three - 3, three)
        BY <2>0, <2>1, <2>2, <1>10, KeyedNewZone
    <2>4. \A x \in X : three - 3 < key[x] /\ key[x] <= three
        BY <2>0, <1>6
    <2> HIDE DEF t
    <2> QED BY <2>3, <2>4, <1>10, KeyedFile
<1>13. \A x, y \in X : at[x] < at[y] <=> key[x] < key[y]
    <2>1. /\ at[Start(z)] = i /\ at[End(z)] = j
          /\ v \notin Void[z] => at[AutoLine(z, v)] \in Int
        BY <1>2, <1>7, <1>9 DEF at
    <2> QED BY <2>1, <1>4, <1>6, <1>8
<1> HIDE DEF s, t
<1>14. Own(s) \intersect Solid = Own(t) \intersect Solid
    BY <1>11, <1>12
<1>15. \A x, y \in Own(s) \intersect Solid : Places(s)[x] < Places(s)[y] <=> Places(t)[x] < Places(t)[y]
    BY <1>11, <1>12, <1>13
<1>16. InOrder(s, Solid) = InOrder(t, Solid)
    BY <1>11, <1>12, <1>14, <1>15, SameOrder
<1> QED BY <1>16 DEF s, t

LEMMA PairedSpliced ==
    ASSUME NEW f, NEW Q, NEW D, NEW v, NEW new, Spliceable(f, Q, D, v, new), Paired(f),
           \A z \in Zones : z \in Q <=> Sound(f, z),
           NEW g, Spliced(f, Q, D, v, new, g)
    PROVE  Paired(g) /\ OnDisk(g) = (Q \ D) \union new
<1>1. WellFormed(g) /\ \A x : x \in Own(g) <=> Has(f, Q, D, v, new, x)
    BY SplicedWell
<1>2. /\ Q \subseteq Zones /\ D \subseteq Q /\ new \subseteq Zones /\ v \in Versions
      /\ \A x \in Own(f) : x.kind # "hand" => x.id \notin new
    BY DEF Spliceable
<1>3. \A z \in Zones : /\ Start(z).kind = "start" /\ Start(z).id = z
                       /\ End(z).kind = "end" /\ End(z).id = z
                       /\ AutoLine(z, v).kind = "auto" /\ AutoLine(z, v).id = z
    BY <1>2, LineKinds
<1>4. ASSUME NEW z \in Zones
      PROVE  /\ Start(z) \in Own(g) <=> z \in (Q \ D) \union new
             /\ End(z) \in Own(g) <=> z \in (Q \ D) \union new
    <2>1. /\ Kept(f, Q, D, Start(z)) <=> Start(z) \in Own(f) /\ z \notin D
          /\ Kept(f, Q, D, End(z)) <=> End(z) \in Own(f) /\ z \notin D
        BY <1>3 DEF Kept
    <2>2. Start(z) \in Own(f) <=> z \in Q
        BY DEF Paired, Sound
    <2>3. End(z) \in Own(f) <=> z \in Q
        BY DEF Paired, Sound
    <2>4. Has(f, Q, D, v, new, Start(z)) <=> Kept(f, Q, D, Start(z)) \/ z \in new
        BY <1>2, <1>3 DEF Has
    <2>5. Has(f, Q, D, v, new, End(z)) <=> Kept(f, Q, D, End(z)) \/ z \in new
        BY <1>2, <1>3 DEF Has
    <2> QED BY <2>1, <2>2, <2>3, <2>4, <2>5, <1>1
<1>5. ASSUME NEW z \in Zones, NEW x \in Own(g), x.kind = "auto", x.id = z
      PROVE  Start(z) \in Own(g)
    <2>1. Has(f, Q, D, v, new, x)
        BY <1>1
    <2>2. ASSUME Kept(f, Q, D, x) PROVE FALSE
        <3>1. x \in Own(f) /\ z \notin Q
            BY <2>2, <1>5 DEF Kept
        <3>2. Start(z) \in Own(f) /\ End(z) \in Own(f)
            BY <3>1, <1>5 DEF Paired
        <3> QED BY <3>1, <3>2 DEF Sound
    <2>3. z \in (Q \ D) \union new
        BY <2>1, <2>2, <1>2, <1>3, <1>5 DEF Has
    <2> QED BY <2>3, <1>4
<1>6. Paired(g)
    BY <1>4, <1>5 DEF Paired
<1>7. g \in Seq(Lines) /\ Distinct(g)
    BY <1>1 DEF WellFormed
<1>8. OnDisk(g) = (Q \ D) \union new
    BY <1>2, <1>4, <1>7, SigilsOf
<1> QED BY <1>6, <1>8

LEMMA RustEmit ==
    ASSUME NEW f, f = Missing \/ (WellFormed(f) /\ Paired(f)), NEW S \in SUBSET Zones, NEW v \in Versions,
           NEW g, g = ReplaceFile(f, S, v)
    PROVE  /\ WellFormed(g) /\ Paired(g) /\ OnDisk(g) = S /\ Fresh(g, S, v)
           /\ f # Missing => InOrder(g, Hands) = InOrder(f, Hands)
<1>1. CASE f = Missing
    <2>1. g = BuildInitialContent(S, v)
        BY <1>1 DEF ReplaceFile
    <2>2. /\ WellFormed(Unzoned) /\ Paired(Unzoned) /\ Own(Unzoned) = {Hand(Scaffold)}
          /\ Spliceable(Unzoned, {}, {}, v, S)
          /\ Spliced(Unzoned, {}, {}, v, S, g)
        BY <2>1, InitialSpliced
    <2>3. \A z \in Zones : z \in {} <=> Sound(Unzoned, z)
        <3>1. Hand(Scaffold) \in Hands
            BY DEF Hands
        <3>2. \A z \in Zones : Start(z) # Hand(Scaffold)
            BY <3>1, LineKinds
        <3> QED BY <3>2, <2>2 DEF Sound
    <2>4. Paired(g) /\ OnDisk(g) = ({} \ {}) \union S
        BY <2>2, <2>3, PairedSpliced
    <2>5. Fresh(g, ({} \ {}) \union S, v)
        BY <2>2, SplicedFresh
    <2>6. WellFormed(g)
        BY <2>2, SplicedWell
    <2>7. ({} \ {}) \union S = S
        OBVIOUS
    <2> QED BY <2>4, <2>5, <2>6, <2>7, <1>1
<1>2. CASE f # Missing
    <2> DEFINE Q == OnDisk(f)
               D == OnDisk(f) \ S
               new == S \ OnDisk(f)
    <2>1. g = SpliceZones(f, S, v) /\ WellFormed(f) /\ Paired(f)
        BY <1>2 DEF ReplaceFile
    <2>2. Spliceable(f, Q, D, v, new) /\ Spliced(f, Q, D, v, new, g)
        BY <2>1, RustSpliceable, RustSpliced
    <2>3. \A z \in Zones : z \in Q <=> Sound(f, z)
        BY <2>1, RustSeats
    <2>4. (Q \ D) \union new = S
        OBVIOUS
    <2> HIDE DEF Q, D, new
    <2>5. Paired(g) /\ OnDisk(g) = (Q \ D) \union new
        BY <2>1, <2>2, <2>3, PairedSpliced
    <2>6. Fresh(g, (Q \ D) \union new, v)
        BY <2>2, SplicedFresh
    <2>7. WellFormed(g)
        BY <2>2, SplicedWell
    <2>8. InOrder(g, Hands) = InOrder(f, Hands)
        BY <2>2, HandsKept
    <2> QED BY <2>4, <2>5, <2>6, <2>7, <2>8
<1> QED BY <1>1, <1>2

LEMMA TsEmit ==
    ASSUME NEW f, f = Missing \/ WellFormed(f), NEW S \in SUBSET Zones, NEW v \in Versions,
           NEW g, g = TsReplaceFile(f, S, v)
    PROVE  /\ WellFormed(g) /\ Fresh(g, Filled(g, S), v)
           /\ f # Missing => InOrder(g, Hands) = InOrder(f, Hands)
<1>1. CASE f = Missing
    <2>1. g = BuildInitialContent(S, v)
        BY <1>1 DEF TsReplaceFile
    <2>2. Spliceable(Unzoned, {}, {}, v, S) /\ Spliced(Unzoned, {}, {}, v, S, g)
        BY <2>1, InitialSpliced
    <2>3. Fresh(g, ({} \ {}) \union S, v)
        BY <2>2, SplicedFresh
    <2>4. WellFormed(g)
        BY <2>2, SplicedWell
    <2>5. Filled(g, S) \subseteq ({} \ {}) \union S
        BY DEF Filled
    <2> QED BY <2>3, <2>4, <2>5, <1>1 DEF Fresh
<1>2. CASE f # Missing
    <2> DEFINE Q == Filled(f, S)
    <2>1. g = TsSpliceZones(f, S, v) /\ WellFormed(f)
        BY <1>2 DEF TsReplaceFile
    <2>2. Spliceable(f, Q, {}, v, {}) /\ Spliced(f, Q, {}, v, {}, g)
        BY <2>1, TsSpliced
    <2>3. /\ WellFormed(g) /\ \A x : x \in Own(g) <=> Has(f, Q, {}, v, {}, x)
        BY <2>2, SplicedWell
    <2>4. Fresh(g, (Q \ {}) \union {}, v)
        BY <2>2, SplicedFresh
    <2>5. InOrder(g, Hands) = InOrder(f, Hands)
        BY <2>2, HandsKept
    <2>6. Filled(g, S) \subseteq (Q \ {}) \union {}
        <3> SUFFICES ASSUME NEW z \in S, Sound(g, z) PROVE Sound(f, z)
            BY DEF Filled
        <3>1. Has(f, Q, {}, v, {}, Start(z)) /\ Has(f, Q, {}, v, {}, End(z))
            BY <2>3 DEF Sound
        <3>2. \A y \in Q : AutoLine(y, v).kind = "auto"
            BY LineKinds DEF Filled
        <3>3. Start(z).kind = "start" /\ End(z).kind = "end"
            BY LineKinds
        <3>4. Kept(f, Q, {}, Start(z)) /\ Kept(f, Q, {}, End(z))
            BY <3>1, <3>2, <3>3 DEF Has
        <3> QED BY <3>4 DEF Kept, Sound
    <2> QED BY <2>3, <2>4, <2>5, <2>6 DEF Fresh
<1> QED BY <1>1, <1>2

\* Emitting once more.
LEMMA RustAgain ==
    ASSUME NEW g, WellFormed(g), Paired(g), NEW S \in SUBSET Zones, OnDisk(g) = S,
           NEW v \in Versions, Fresh(g, S, v)
    PROVE  InOrder(ReplaceFile(g, S, v), Solid) = InOrder(g, Solid)
<1>1. g # Missing
    BY MissingAssumption DEF WellFormed, Lines
<1>2. ReplaceFile(g, S, v) = SpliceZones(g, S, v)
    BY <1>1 DEF ReplaceFile
<1>3. /\ Spliceable(g, OnDisk(g), OnDisk(g) \ S, v, S \ OnDisk(g))
      /\ Spliced(g, OnDisk(g), OnDisk(g) \ S, v, S \ OnDisk(g), SpliceZones(g, S, v))
    BY RustSpliceable, RustSpliced
<1>4. S \ S = {}
    OBVIOUS
<1>5. Spliceable(g, S, {}, v, {}) /\ Spliced(g, S, {}, v, {}, SpliceZones(g, S, v))
    BY <1>3, <1>4
<1> QED BY <1>2, <1>5, FreshSettles

LEMMA TsAgain ==
    ASSUME NEW g, WellFormed(g), NEW S \in SUBSET Zones, NEW v \in Versions, Fresh(g, Filled(g, S), v)
    PROVE  InOrder(TsReplaceFile(g, S, v), Solid) = InOrder(g, Solid)
<1>1. g # Missing
    BY MissingAssumption DEF WellFormed, Lines
<1>2. TsReplaceFile(g, S, v) = TsSpliceZones(g, S, v)
    BY <1>1 DEF TsReplaceFile
<1>3. /\ Spliceable(g, Filled(g, S), {}, v, {})
      /\ Spliced(g, Filled(g, S), {}, v, {}, TsSpliceZones(g, S, v))
    BY TsSpliced
<1> QED BY <1>2, <1>3, FreshSettles

(* Every state of the file.                                                          *)

FileInv ==
    /\ file = Missing \/ (WellFormed(file) /\ (emitter = "rust" => Paired(file)))
    /\ emitter \in {"rust", "ts"}
    /\ emits \in 0..MaxEmits
    /\ edits \in 0..MaxEdits
    /\ given \in [zones : SUBSET Zones, version : Versions]

LEMMA FileInitInv == FileInit => FileInv
<1>1. (CHOOSE v \in Versions : TRUE) \in Versions
    BY RegionsAssumption
<1> QED BY <1>1, RegionsAssumption DEF FileInit, FileInv

\* What an emit makes of the file of this emitter.
LEMMA EmitFile ==
    ASSUME FileInv, NEW S \in SUBSET Zones, NEW v \in Versions, Emit(S, v)
    PROVE  /\ file' \in {ReplaceFile(file, S, v), TsReplaceFile(file, S, v)}
           /\ WellFormed(file')
           /\ emitter = "rust" => /\ file' = ReplaceFile(file, S, v)
                                  /\ Paired(file') /\ OnDisk(file') = S /\ Fresh(file', S, v)
           /\ emitter # "rust" => /\ file' = TsReplaceFile(file, S, v)
                                  /\ Fresh(file', Filled(file', S), v)
           /\ file # Missing => InOrder(file', Hands) = InOrder(file, Hands)
<1>1. file' = Emitted(file, S, v)
    BY DEF Emit
<1>2. CASE emitter = "rust"
    <2>1. file' = ReplaceFile(file, S, v)
        BY <1>1, <1>2 DEF Emitted
    <2>2. file = Missing \/ (WellFormed(file) /\ Paired(file))
        BY <1>2 DEF FileInv
    <2>3. /\ WellFormed(file') /\ Paired(file') /\ OnDisk(file') = S /\ Fresh(file', S, v)
          /\ file # Missing => InOrder(file', Hands) = InOrder(file, Hands)
        BY <2>1, <2>2, RustEmit
    <2> QED BY <2>1, <2>3, <1>2
<1>3. CASE emitter # "rust"
    <2>1. file' = TsReplaceFile(file, S, v)
        BY <1>1, <1>3 DEF Emitted
    <2>2. file = Missing \/ WellFormed(file)
        BY DEF FileInv
    <2>3. /\ WellFormed(file') /\ Fresh(file', Filled(file', S), v)
          /\ file # Missing => InOrder(file', Hands) = InOrder(file, Hands)
        BY <2>1, <2>2, TsEmit
    <2> QED BY <2>1, <2>3, <1>3
<1> QED BY <1>2, <1>3

LEMMA LineKept ==
    ASSUME FileInv, NEW line \in {Hand(t) : t \in Texts} \union {Blank}, WriteLine(line)
    PROVE  WellFormed(file') /\ (emitter = "rust" => Paired(file'))
<1>1. WellFormed(file) /\ (emitter = "rust" => Paired(file))
    BY DEF FileInv, WriteLine, Edit
<1>2. line \in Hands \union {Blank} /\ (line # Blank => line \notin Range(file))
    BY DEF WriteLine, Hands
<1>3. PICK n \in 0..Len(file) : ~ InZone(file, n) /\ file' = InsertAt(file, n + 1, line)
    BY DEF WriteLine
<1>4. WellFormed(file') /\ Own(file') = Own(file) \union ({line} \ {Blank})
    BY <1>1, <1>2, <1>3, LineWritten
<1>5. line # Blank => line.kind = "hand"
    BY <1>2, LineKinds
<1>6. \A x \in Own(file') : x.kind # "hand" => x \in Own(file)
    BY <1>4, <1>5
<1>7. \A z \in Zones : Start(z).kind # "hand" /\ End(z).kind # "hand"
    BY LineKinds
<1>8. \A x \in Own(file) : x \in Own(file')
    BY <1>4
<1>9. ASSUME Paired(file) PROVE Paired(file')
    <2> SUFFICES ASSUME NEW z \in Zones
                 PROVE  /\ Start(z) \in Own(file') <=> End(z) \in Own(file')
                        /\ \A x \in Own(file') : x.kind = "auto" /\ x.id = z => Start(z) \in Own(file')
        BY DEF Paired
    <2>1. /\ Start(z) \in Own(file') <=> Start(z) \in Own(file)
          /\ End(z) \in Own(file') <=> End(z) \in Own(file)
        BY <1>6, <1>7, <1>8
    <2>2. /\ Start(z) \in Own(file) <=> End(z) \in Own(file)
          /\ \A x \in Own(file) : x.kind = "auto" /\ x.id = z => Start(z) \in Own(file)
        BY <1>9 DEF Paired
    <2>3. \A x \in Own(file') : x.kind = "auto" => x \in Own(file)
        BY <1>6
    <2> QED BY <2>1, <2>2, <2>3
<1> QED BY <1>1, <1>4, <1>9

LEMMA ZoneMoved ==
    ASSUME FileInv, NEW z \in Zones, CutZone(z)
    PROVE  WellFormed(file') /\ (emitter = "rust" => Paired(file'))
<1>1. WellFormed(file) /\ (emitter = "rust" => Paired(file))
    BY DEF FileInv, CutZone, Edit
<1>2. file \in Seq(Lines) /\ Distinct(file) /\ Len(file) \in Nat
    BY <1>1 DEF WellFormed
<1> DEFINE Rest(i, j) == SubSeq(file, 1, i - 1) \o SubSeq(file, j + 1, Len(file))
<1>3. PICK i \in {n \in 1..Len(file) : file[n] = Start(z)}, j \in 1..Len(file) :
          /\ file[j] = End(z)
          /\ file' = Rest(i, j) \/ file' = Rest(i, j) \o SubSeq(file, i, j)
    <2>1. PICK i \in {n \in 1..Len(file) : file[n] = Start(z)} : \E j \in (i + 1)..Len(file) :
              file[j] = End(z) /\ file' \in {Rest(i, j), Rest(i, j) \o SubSeq(file, i, j)}
        BY DEF CutZone
    <2>2. PICK j \in (i + 1)..Len(file) :
              file[j] = End(z) /\ file' \in {Rest(i, j), Rest(i, j) \o SubSeq(file, i, j)}
        BY <2>1
    <2>3. i \in 1..Len(file) /\ j \in 1..Len(file)
        BY <1>2, <2>2
    <2> HIDE DEF Rest
    <2> QED BY <2>2, <2>3
<1>4. file[i] = Start(z) /\ file[j] = End(z) /\ i \in 1..Len(file)
    BY <1>3
<1>5. Start(z) \in Solid /\ End(z) \in Solid /\ Start(z) # Blank /\ End(z) # Blank
    BY LineKinds, SolidKinds
<1>6. Sound(file, z) /\ i = Places(file)[Start(z)] /\ j = Places(file)[End(z)]
    BY <1>2, <1>4, <1>5, PlacesOf DEF Sound
<1>7. /\ WellFormed(Rest(i, j))
      /\ Own(Rest(i, j)) = {x \in Own(file) : ~ (x.kind # "hand" /\ x.id = z)}
      /\ WellFormed(Rest(i, j) \o SubSeq(file, i, j))
      /\ Own(Rest(i, j) \o SubSeq(file, i, j)) = Own(file)
    BY <1>1, <1>6, ZoneCut
<1> HIDE DEF Rest
<1>8. /\ WellFormed(file')
      /\ \/ Own(file') = Own(file)
         \/ Own(file') = {x \in Own(file) : ~ (x.kind # "hand" /\ x.id = z)}
    BY <1>3, <1>7
<1>9. \A y \in Zones : /\ Start(y).kind = "start" /\ Start(y).id = y
                       /\ End(y).kind = "end" /\ End(y).id = y
    BY LineKinds
<1>10. ASSUME Paired(file), Own(file') = {x \in Own(file) : ~ (x.kind # "hand" /\ x.id = z)}
       PROVE  Paired(file')
    <2> SUFFICES ASSUME NEW y \in Zones
                 PROVE  /\ Start(y) \in Own(file') <=> End(y) \in Own(file')
                        /\ \A x \in Own(file') : x.kind = "auto" /\ x.id = y => Start(y) \in Own(file')
        BY DEF Paired
    <2>1. /\ Start(y) \in Own(file') <=> Start(y) \in Own(file) /\ y # z
          /\ End(y) \in Own(file') <=> End(y) \in Own(file) /\ y # z
        BY <1>9, <1>10
    <2>2. /\ Start(y) \in Own(file) <=> End(y) \in Own(file)
          /\ \A x \in Own(file) : x.kind = "auto" /\ x.id = y => Start(y) \in Own(file)
        BY <1>10 DEF Paired
    <2>3. \A x \in Own(file') : x.kind = "auto" => x \in Own(file) /\ x.id # z
        BY <1>10
    <2> QED BY <2>1, <2>2, <2>3
<1>11. Paired(file) /\ Own(file') = Own(file) => Paired(file')
    BY DEF Paired
<1> QED BY <1>1, <1>8, <1>10, <1>11

LEMMA FileStep ==
    ASSUME "rust" \notin Careless, FileInv, [FileNext]_fileVars
    PROVE  FileInv'
<1>1. ASSUME NEW S \in SUBSET Zones, NEW v \in Versions, Emit(S, v) PROVE FileInv'
    <2>1. WellFormed(file') /\ (emitter = "rust" => Paired(file'))
        BY <1>1, EmitFile
    <2>2. emits' \in 0..MaxEmits
        BY <1>1, RegionsAssumption DEF FileInv, Emit
    <2> QED BY <1>1, <2>1, <2>2 DEF FileInv, Emit
<1>2. ASSUME Edit, file' = Missing \/ (WellFormed(file') /\ (emitter = "rust" => Paired(file')))
      PROVE  FileInv'
    <2>1. edits' \in 0..MaxEdits
        BY <1>2, RegionsAssumption DEF FileInv, Edit
    <2> QED BY <1>2, <2>1 DEF FileInv, Edit
<1>3. ASSUME NEW line \in {Hand(t) : t \in Texts} \union {Blank}, WriteLine(line) PROVE FileInv'
    <2>1. Edit
        BY <1>3 DEF WriteLine
    <2> QED BY <1>2, <1>3, <2>1, LineKept
<1>4. ASSUME NEW z \in Zones, CutZone(z) PROVE FileInv'
    <2>1. Edit
        BY <1>4 DEF CutZone
    <2> QED BY <1>2, <1>4, <2>1, ZoneMoved
<1>5. ASSUME RemoveFile PROVE FileInv'
    BY <1>2, <1>5 DEF RemoveFile
<1>6. ASSUME CutSigil PROVE FileInv'
    <2>1. Edit /\ emitter # "rust"
        BY <1>6 DEF CutSigil
    <2>2. PICK n \in Sigils(file) : file' = RemoveAt(file, n)
        BY <1>6 DEF CutSigil
    <2>3. WellFormed(file)
        BY <2>1 DEF FileInv, Edit
    <2> QED BY <1>2, <2>1, <2>2, <2>3, SigilCut
<1>7. ASSUME UNCHANGED fileVars PROVE FileInv'
    BY <1>7 DEF FileInv, fileVars
<1> QED BY <1>1, <1>3, <1>4, <1>5, <1>6, <1>7 DEF FileNext

\* The invariant of the file, on which the three theorems about emits rest.
THEOREM FileInductive == ASSUME "rust" \notin Careless PROVE FileSpec => []FileInv
<1>1. FileInit => FileInv
    BY FileInitInv
<1>2. FileInv /\ [FileNext]_fileVars => FileInv'
    BY FileStep
<1> QED BY <1>1, <1>2, PTL DEF FileSpec

(* At any time the file is missing or made of lines of its zones and its user, none  *)
(* of which but blank ones is there twice: no emit doubles a sigil, a generated line *)
(* or a line of the user's (spliceZones, spliceTsRegions).                           *)
THEOREM FileTypeCorrect == ASSUME "rust" \notin Careless PROVE FileSpec => []FileTypeOK
<1>1. FileInv => FileTypeOK
    BY DEF FileInv, FileTypeOK, WellFormed, Distinct, Lines
<1> QED BY <1>1, FileInductive, PTL

\* Only an emit changes the count of emits.
LEMMA OnlyEmits ==
    ASSUME FileInv, [FileNext]_fileVars, JustEmitted
    PROVE  \E S \in SUBSET Zones, v \in Versions : Emit(S, v)
BY DEF FileNext, JustEmitted, WriteLine, CutZone, RemoveFile, CutSigil, Edit, fileVars

(* An emit into a file keeps every line the user wrote outside the zones, in its     *)
(* order, whatever zones come and go, for files of any length.                       *)
THEOREM HandsSurvive == ASSUME "rust" \notin Careless PROVE FileSpec => ManualPreserved
<1>1. ASSUME FileInv, [FileNext]_fileVars
      PROVE  [JustEmitted /\ file # Missing => InOrder(file', Hands) = InOrder(file, Hands)]_fileVars
    <2> SUFFICES ASSUME JustEmitted, file # Missing PROVE InOrder(file', Hands) = InOrder(file, Hands)
        OBVIOUS
    <2>1. PICK S \in SUBSET Zones, v \in Versions : Emit(S, v)
        BY <1>1, OnlyEmits
    <2> QED BY <1>1, <2>1, EmitFile
<1> QED BY <1>1, FileInductive, PTL DEF FileSpec, ManualPreserved

\* A zone of a file that an emit of the Rust emitter has just written.
LEMMA ZoneStands ==
    ASSUME NEW g, WellFormed(g), NEW z \in Zones, NEW v \in Versions, Fresh(g, {z}, v)
    PROVE  \E i, j \in DOMAIN g :
               /\ g[i] = Start(z) /\ g[j] = End(z)
               /\ InOrder(SubSeq(g, i, j), Solid) = InOrder(NewZone(z, v), Solid)
               /\ \A n \in DOMAIN g \ (i..j) : g[n].kind \in {"start", "end", "auto"} => g[n].id # z
<1> DEFINE i == Places(g)[Start(z)]
           j == Places(g)[End(z)]
<1>1. g \in Seq(Lines) /\ Distinct(g) /\ Sound(g, z) /\ DOMAIN g = 1..Len(g) /\ Len(g) \in Nat
    BY DEF WellFormed, Fresh
<1>2. i \in 1..Len(g) /\ j \in 1..Len(g) /\ g[i] = Start(z) /\ g[j] = End(z)
    BY <1>1, PlacesOf DEF Sound
<1>3. InOrder(SubSeq(g, i, j), Solid) = InOrder(NewZone(z, v), Solid)
    BY ZoneContent
<1> HIDE DEF i, j
<1>4. ASSUME NEW n \in DOMAIN g \ (i..j), g[n].kind \in {"start", "end", "auto"}
      PROVE  g[n].id # z
    <2>1. g[n] # Blank
        BY <1>4, LineKinds
    <2>2. g[n] \in Own(g) /\ Places(g)[g[n]] = n
        BY <2>1, <1>1, PlacesOf
    <2>3. ~ (i <= n /\ n <= j)
        BY <1>1, <1>2
    <2>4. i <= Places(g)[g[n]] /\ Places(g)[g[n]] <= j <=> g[n].kind # "hand" /\ g[n].id = z
        BY <1>1, <2>2, ZoneLines DEF i, j
    <2> QED BY <1>4, <2>2, <2>3, <2>4
<1> QED BY <1>1, <1>2, <1>3, <1>4

(* After an emit by the Rust emitter the file has exactly the zones that were given, *)
(* each once and with the new content between its sigils, and nothing generated      *)
(* remains anywhere else, for any number of zones.                                   *)
THEOREM ZonesStayCurrent == ASSUME "rust" \notin Careless PROVE FileSpec => ZonesCurrent
<1>1. ASSUME FileInv, [FileNext]_fileVars, JustEmitted, emitter = "rust"
      PROVE  /\ OnDisk(file') = given'.zones
             /\ \A z \in given'.zones : \E i, j \in DOMAIN file' :
                 /\ file'[i] = Start(z) /\ file'[j] = End(z)
                 /\ InOrder(SubSeq(file', i, j), Solid) = InOrder(NewZone(z, given'.version), Solid)
                 /\ \A n \in DOMAIN file' \ (i..j) :
                     file'[n].kind \in {"start", "end", "auto"} => file'[n].id # z
             /\ \A l \in Range(file') : l.kind = "auto" => l.id \in given'.zones
    <2>1. PICK S \in SUBSET Zones, v \in Versions : Emit(S, v)
        BY <1>1, OnlyEmits
    <2>2. /\ WellFormed(file') /\ Paired(file') /\ OnDisk(file') = S /\ Fresh(file', S, v)
        BY <1>1, <2>1, EmitFile
    <2>3. given'.zones = S /\ given'.version = v
        BY <2>1 DEF Emit
    <2>4. ASSUME NEW z \in S
          PROVE  \E i, j \in DOMAIN file' :
                     /\ file'[i] = Start(z) /\ file'[j] = End(z)
                     /\ InOrder(SubSeq(file', i, j), Solid) = InOrder(NewZone(z, v), Solid)
                     /\ \A n \in DOMAIN file' \ (i..j) :
                         file'[n].kind \in {"start", "end", "auto"} => file'[n].id # z
        <3>1. Fresh(file', {z}, v) /\ z \in Zones
            BY <2>2 DEF Fresh
        <3>2. WellFormed(file')
            BY <2>2
        <3> QED BY ONLY <3>1, <3>2, v \in Versions, ZoneStands
    <2>5. ASSUME NEW l \in Range(file'), l.kind = "auto" PROVE l.id \in S
        <3>1. file' \in Seq(Lines) /\ Distinct(file')
            BY <2>2 DEF WellFormed
        <3>2. l \in Own(file')
            BY <2>5, LineKinds DEF Own
        <3>3. l.id \in Zones
            BY <3>1, <3>2, <2>5, PlacesOf, SolidKinds
        <3>4. Start(l.id) \in Own(file')
            BY <2>2, <2>5, <3>2, <3>3 DEF Paired
        <3> QED BY <2>2, <3>1, <3>3, <3>4, SigilsOf
    <2> QED BY <2>2, <2>3, <2>4, <2>5
<1> QED BY <1>1, FileInductive, PTL DEF FileSpec, ZonesCurrent

(* Emitting the same once more changes nothing but blank lines, for either emitter   *)
(* and for files from which the user of the TypeScript one cut single sigils.        *)
THEOREM EmitsSettle == ASSUME "rust" \notin Careless PROVE FileSpec => EmitSettles
<1>1. ASSUME FileInv, [FileNext]_fileVars, JustEmitted
      PROVE  \A again \in {Emitted(file', given'.zones, given'.version)} :
                 InOrder(again, Solid) = InOrder(file', Solid)
    <2>1. PICK S \in SUBSET Zones, v \in Versions : Emit(S, v)
        BY <1>1, OnlyEmits
    <2>2. given'.zones = S /\ given'.version = v
        BY <2>1 DEF Emit
    <2>3. CASE emitter = "rust"
        <3>1. Emitted(file', S, v) = ReplaceFile(file', S, v)
            BY <2>3 DEF Emitted
        <3>2. WellFormed(file') /\ Paired(file') /\ OnDisk(file') = S /\ Fresh(file', S, v)
            BY <1>1, <2>1, <2>3, EmitFile
        <3>3. InOrder(ReplaceFile(file', S, v), Solid) = InOrder(file', Solid)
            BY <3>2, RustAgain
        <3> QED BY <2>2, <3>1, <3>3
    <2>4. CASE emitter # "rust"
        <3>1. Emitted(file', S, v) = TsReplaceFile(file', S, v)
            BY <2>4 DEF Emitted
        <3>2. WellFormed(file') /\ Fresh(file', Filled(file', S), v)
            BY <1>1, <2>1, <2>4, EmitFile
        <3>3. InOrder(TsReplaceFile(file', S, v), Solid) = InOrder(file', Solid)
            BY <3>2, TsAgain
        <3> QED BY <2>2, <3>1, <3>3
    <2> QED BY <2>3, <2>4
<1> QED BY <1>1, FileInductive, PTL DEF FileSpec, EmitSettles
=============================================================================
